----------------------------- MODULE MCPrograms -----------------------------
(* Small instances of Programs for TLC: two clients with a prefix each, any *)
(* method as the first call, and a few of them after it.                    *)
EXTENDS Programs, TLC

CONSTANTS a, b

MCClients == {a, b}
MCPrefix  == a :> <<"a">> @@ b :> <<"b">>
MCExt     == a :> "php7" @@ b :> "php5"
MCKeys    == <<<<"x">>, <<"y">>>>

Base == [m |-> "noop", key |-> <<"x">>, data |-> <<"d">>, flags |-> 0, expire |-> 1,
         cas |-> 0, value |-> 1, initial |-> 1, quiet |-> FALSE]

Named(m) == [Base EXCEPT !.m = m]

(* Every method, loud and quiet.                                            *)
Plain == {"noop", "statGeneral", "statSettings", "statItems", "statSizes",
          "keys", "version"}
Names == {"get", "getk", "getTouch", "getkTouch", "lockGet", "lockGetk",
          "touch", "set", "replace", "add", "replaceUnlock", "incr", "decr",
          "incr2", "decr2", "append", "prepend", "delete", "lock", "unlock",
          "unlockAll", "flush", "quit"}
Every == {Named(m) : m \in Plain}
         \cup {[Named(m) EXCEPT !.quiet = q] : m \in Names, q \in BOOLEAN}

(* Arguments at the limits: empty, too long, negative, wide.                *)
Odd == {[Named(m) EXCEPT !.key = k] : m \in {"get", "set", "keys"}, k \in {<<>>, <<"b", "x", "x", "x">>}}
       \cup {[Named(m) EXCEPT !.data = <<>>] : m \in {"set", "append"}}
       \cup {[Named(m) EXCEPT !.data = <<"d", "d", "d">>] : m \in {"add", "prepend"}}
       \cup {[Named(m) EXCEPT !.value = 0 - 1] : m \in {"incr", "decr2"}}
       \cup {[Named(m) EXCEPT !.initial = 0 - 1] : m \in {"incr2", "decr2"}}
       \cup {[Named(m) EXCEPT !.expire = e] : m \in {"flush", "touch", "set"}, e \in {0 - 1, 0, 17}}
       \cup {[Named("set") EXCEPT !.cas = 0 - 1]}

(* Another client's key without its prefix, and the commands that leave     *)
(* answers behind or none.                                                  *)
Few == {Named("set"), Named("statItems"), [Named("touch") EXCEPT !.quiet = TRUE],
        [Named("getk") EXCEPT !.key = <<"b", "x">>]}

MCCalls == <<Every \cup Odd, Few, {Named("noop")}, {Named("noop")}>>
MCPack(data) == <<>>
=============================================================================
