----------------------------- MODULE MCCounter ------------------------------
(* Counter for TLC: every command, and two users of one counter.            *)
EXTENDS Counter

CONSTANTS a, b

N == <<1, 2>>

Do(cmd, argc) ==
  [cmd |-> cmd, argc |-> argc, name |-> N, resources |-> 1, initial |-> 3, port |-> 11215,
   help |-> FALSE, retries |-> 0]
Again(i) == [i EXCEPT !.retries = 1]

Alone(invocations) == a :> invocations @@ b :> <<>>

Acquires == [Do("acquire", 3) EXCEPT !.resources = 2]
Releases == Do("release", 2)
Every == {Do("noop", 0), Do("get", 1), Acquires, Releases, Do("stats", 0), Do("dump", 0)}
Odd   == {Do("", 0), Do("none", 0), Do("get", 0), [Do("get", 1) EXCEPT !.name = <<>>],
          [Do("get", 1) EXCEPT !.name = <<1, 1, 1, 1>>], Do("noop", 1),
          [Do("acquire", 3) EXCEPT !.resources = 0], [Do("acquire", 3) EXCEPT !.resources = 4],
          [Do("acquire", 3) EXCEPT !.resources = NULL], [Do("acquire", 3) EXCEPT !.initial = NULL],
          [Releases EXCEPT !.resources = NULL], [Releases EXCEPT !.resources = 0],
          [Do("noop", 0) EXCEPT !.port = 65536], [Do("noop", 0) EXCEPT !.help = TRUE]}
Other == [Do("acquire", 3) EXCEPT !.name = <<5>>, !.initial = 1]

(* Two pairs, one with an empty value.                                      *)
MCStats == <<[name |-> <<3>>, value |-> <<4, 5>>], [name |-> <<6, 6>>, value |-> <<>>]>>

MCSessions ==
  {Alone(<<Acquires, j>>) : j \in {Again(Do("dump", 0)), Releases}}
  \cup {Alone(<<i>>) : i \in Every \cup Odd \cup {Again(Do("stats", 0))}}
  \cup {Alone(<<Acquires, Other, Do("dump", 0)>>)}
  \cup {a :> <<i>> @@ b :> <<j>> : i \in {Acquires}, j \in {Acquires, Do("get", 1), Releases}}
=============================================================================
