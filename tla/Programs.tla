------------------------------ MODULE Programs ------------------------------
(* PHP programs on their connections: calls that return a serial at once,   *)
(* a server that answers in order what is not quiet, and the loops of such  *)
(* programs (yrmcds_session.php, tests, USAGE.md) that look for an answer   *)
(* among those that arrive: the wait for one serial, the multi-get, the     *)
(* listing of keys or statistics.                                           *)
(*                                                                         *)
(* Each client has a connection of its own, as the connections of different *)
(* persistent ids are.  Requests are numbered on each, without end; the     *)
(* number travels with the request and its answers as history.              *)
EXTENDS ClientMethods, ServerCommands, FiniteSets

CONSTANTS
  Clients,     \* objects of \yrmcds\Client
  NULL,        \* no client
  Prefix,      \* the prefix of each
  Ext,         \* the extension its program runs with, "php7" or "php5"
  Keys,        \* the keys a multi-get asks for
  Calls,       \* Calls[n]: the calls a program may make as number n
  SerialMod    \* 2^32, where serials wrap

ASSUME ProgramsAssumption ==
  /\ NULL \notin Clients /\ Ext \in [Clients -> {"php7", "php5"}]
  /\ Calls # <<>> /\ SerialMod \in Nat \ {0, 1}

(* A program calls methods there are, with keys that are strings.           *)
ASSUME CallsAssumption ==
  /\ Len(Calls) \in Nat
  /\ \A n \in 1..Len(Calls) : \A a \in Calls[n] :
       a.m \in MethodNames /\ a.key \in Seq(STRING)
  /\ Keys \in Seq(Seq(STRING))
  /\ Prefix \in [Clients -> Seq(STRING)]

Php5 == INSTANCE Php5Methods

VARIABLES
  at,       \* what each program is doing
  serial,   \* c->serial of its connection
  open,     \* the server has not closed it
  wire,     \* requests the server has not handled, oldest first
  back,     \* responses the program has not received, oldest first
  store,    \* the keys the server has, and the client that wrote each
  count,    \* calls made so far
  sent,     \* history: requests sent on each connection
  last,     \* the last call of each program: [a: the call, n, serial]
  answer,   \* history: the response a wait accepted, and the call it was for
  todo,     \* keys a multi-get has still to ask for
  found,    \* keys it has received
  hits,     \* history: keys the server found for it
  drained   \* history: no answer is under way

programVars == <<at, serial, open, wire, back, store, count, sent, last,
                 answer, todo, found, hits, drained>>

MaxCalls == Len(Calls)

(* An object never constructed has no connection and no prefix.             *)
ObjectOf(c, constructed) ==
  [conn |-> constructed, prefix |-> IF constructed THEN Prefix[c] ELSE <<>>,
   threshold |-> 0]

Object(c) == ObjectOf(c, at[c] # "new")

(* What the method makes of the call, in the extension of the program.      *)
Made(c, a) == IF Ext[c] = "php7" THEN Method(Object(c), a)
              ELSE Php5!Method(Object(c), a)

Received(c, r) == IF Ext[c] = "php7" THEN Response(r) ELSE Php5!Response(r)

NoCall == [m |-> "noop"]

ProgramInit ==
  /\ at = [c \in Clients |-> "new"]
  /\ serial = [c \in Clients |-> 0]
  /\ open = [c \in Clients |-> TRUE]
  /\ wire = [c \in Clients |-> <<>>]
  /\ back = [c \in Clients |-> <<>>]
  /\ store = <<>>
  /\ count = 0
  /\ sent = [c \in Clients |-> 0]
  /\ last = [c \in Clients |-> [a |-> NoCall, n |-> 0, serial |-> 0]]
  /\ answer = [c \in Clients |-> [n |-> 0, for |-> 0]]
  /\ todo = [c \in Clients |-> <<>>]
  /\ found = [c \in Clients |-> {}]
  /\ hits = [c \in Clients |-> {}]
  /\ drained = [c \in Clients |-> TRUE]

-----------------------------------------------------------------------------
(* send_command, past its guards: the next serial, and the request is out.  *)
(* Mutant: the serial is kept in fewer bits.                                *)
SerialNarrow(c) == (serial[c] + 1) % 2

NextSerial(c) == (serial[c] + 1) % SerialMod

Send(c, request) ==
  /\ serial' = [serial EXCEPT ![c] = NextSerial(c)]
  /\ sent' = [sent EXCEPT ![c] = @ + 1]
  /\ wire' = [wire EXCEPT ![c] = Append(@,
       [n |-> sent[c] + 1, serial |-> NextSerial(c), cmd |-> request.cmd,
        key |-> request.key, multi |-> at[c] = "asking"])]

(* A call: its request goes out, or it throws, or it is fatal.  `next` is   *)
(* what the program does after a call that goes out.                        *)
Issue(c, a, next) ==
  LET made == Made(c, a) IN
  /\ count < MaxCalls
  /\ count' = count + 1
  /\ IF made.out = "send"
     THEN /\ Send(c, made)
          /\ at' = [at EXCEPT ![c] = next]
          /\ last' = [last EXCEPT ![c] = [a |-> a, n |-> sent[c] + 1,
                                          serial |-> NextSerial(c)]]
     ELSE /\ at' = [at EXCEPT ![c] = IF made.out = "BAD_ARGUMENT" THEN @ ELSE "over"]
          /\ last' = [last EXCEPT ![c].a = a]
          /\ UNCHANGED <<serial, sent, wire>>

(* What the program has still to receive, or the server to handle.          *)
Unread(c) == {wire[c][i].n : i \in 1..Len(wire[c])} \cup
             {back[c][i].n : i \in 1..Len(back[c])}

(* A program reads an answer before 2^32 more requests are sent: nothing in *)
(* the code sees to it, and the serials tell requests apart only then.      *)
Recent(c) == \A n \in Unread(c) : sent[c] + 1 - n < SerialMod

Construct(c) ==
  /\ at[c] = "new"
  /\ at' = [at EXCEPT ![c] = "free"]
  /\ UNCHANGED <<serial, open, wire, back, store, count, sent, last, answer,
                 todo, found, hits, drained>>

(* A call whose answer the program does not wait for.                       *)
Call(c, a) ==
  /\ at[c] \in {"new", "free"} /\ Recent(c)
  /\ Issue(c, a, "free")
  /\ drained' = [drained EXCEPT ![c] = FALSE]
  /\ UNCHANGED <<open, back, store, answer, todo, found, hits>>

(* A call that is not quiet, and `do { $r = recv(); } while ($r->serial !=  *)
(* $serial)`; for statistics and keys, the loop that ends at a null key.    *)
Listings == {"statGeneral", "statSettings", "statItems", "statSizes", "keys"}

CallAndWait(c, a) ==
  /\ at[c] = "free" /\ Recent(c) /\ ~a.quiet
  /\ Issue(c, a, IF a.m \in Listings THEN "listing" ELSE "waiting")
  /\ drained' = [drained EXCEPT ![c] = FALSE]
  /\ UNCHANGED <<open, back, store, answer, todo, found, hits>>

(* The multi-get, by a program that has read every answer it asked for:     *)
(* quiet getk for each key, so that an answer names its key, then a noop.   *)
MultiGet(c, keys) ==
  /\ at[c] = "free" /\ drained[c] /\ count + Len(keys) < MaxCalls
  /\ at' = [at EXCEPT ![c] = "asking"]
  /\ todo' = [todo EXCEPT ![c] = keys]
  /\ found' = [found EXCEPT ![c] = {}]
  /\ hits' = [hits EXCEPT ![c] = {}]
  /\ UNCHANGED <<serial, open, wire, back, store, count, sent, last, answer,
                 drained>>

Ask(c) ==
  /\ at[c] = "asking" /\ Recent(c)
  /\ IF todo[c] # <<>>
     THEN /\ Issue(c, [m |-> "getk", key |-> Head(todo[c]), quiet |-> TRUE], "asking")
          /\ todo' = [todo EXCEPT ![c] = Tail(@)]
     ELSE /\ Issue(c, NoCall, "collecting")
          /\ UNCHANGED todo
  /\ drained' = [drained EXCEPT ![c] = FALSE]
  /\ UNCHANGED <<open, back, store, answer, found, hits>>

-----------------------------------------------------------------------------
(* One turn of the loop a program is in, with the next response.            *)
Recv(c) ==
  /\ at[c] \in {"waiting", "collecting", "listing"} /\ back[c] # <<>>
  /\ LET r    == Received(c, Head(back[c]))
         mine == r.serial = last[c].serial
         end  == mine /\ (at[c] = "listing" => r.key = <<>>)
     IN /\ back' = [back EXCEPT ![c] = Tail(@)]
        /\ at' = [at EXCEPT ![c] = IF end THEN "free" ELSE @]
        /\ drained' = [drained EXCEPT ![c] = end]
        /\ answer' = [answer EXCEPT ![c] =
             IF mine THEN [n |-> Head(back[c]).n, for |-> last[c].n] ELSE @]
        /\ found' = [found EXCEPT ![c] =
             IF at[c] = "collecting" /\ ~mine THEN @ \cup {r.key} ELSE @]
  /\ UNCHANGED <<serial, open, wire, store, count, sent, last, todo, hits>>

(* recv fails on a connection the server has closed, and throws.            *)
RecvFails(c) ==
  /\ at[c] \in {"waiting", "collecting", "listing"}
  /\ back[c] = <<>> /\ ~open[c]
  /\ at' = [at EXCEPT ![c] = "over"]
  /\ UNCHANGED <<serial, open, wire, back, store, count, sent, last, answer,
                 todo, found, hits, drained>>

-----------------------------------------------------------------------------
(* The server (external): it handles the requests of a connection in order. *)
Statuses(q) ==
  CASE q.cmd \in Gets -> IF q.key \in DOMAIN store THEN {"OK"} ELSE {"NOTFOUND"}
    [] q.cmd \in Sure -> {"OK"}
    [] OTHER          -> {"OK", "LOCKED"}

(* by: the client that wrote the object of the answer.                      *)
Reply(q, status, key, by) ==
  [n |-> q.n, serial |-> q.serial, cmd |-> q.cmd, status |-> status, key |-> key,
   data |-> IF q.cmd \in Gets /\ status = "OK" THEN <<"data">> ELSE <<>>, by |-> by]

Replies(q, status) ==
  IF Silent(q, status) THEN <<>>
  ELSE IF q.cmd \in {"STAT", "KEYS"}
       THEN <<Reply(q, status, <<"name">>, NULL), Reply(q, status, <<>>, NULL)>>
  ELSE <<Reply(q, status,
               IF q.cmd \in GetKs /\ status = "OK" THEN q.key ELSE <<>>,
               IF q.cmd \in Gets /\ status = "OK" THEN store[q.key] ELSE NULL)>>

StoreAfter(c, q, status) ==
  CASE q.cmd \in Writes /\ status = "OK" -> With(store, q.key, c)
    [] q.cmd \in {"DELETE", "DELETEQ"} /\ status = "OK" -> Without(store, q.key)
    [] q.cmd \in {"FLUSH", "FLUSHQ"} -> <<>>
    [] OTHER -> store

Handle(c) ==
  /\ open[c] /\ wire[c] # <<>>
  /\ LET q == Head(wire[c]) IN
     \E status \in Statuses(q) :
       /\ wire' = [wire EXCEPT ![c] = Tail(@)]
       /\ back' = [back EXCEPT ![c] = @ \o Replies(q, status)]
       /\ open' = [open EXCEPT ![c] = q.cmd \notin {"QUIT", "QUITQ"}]
       /\ store' = StoreAfter(c, q, status)
       /\ hits' = [hits EXCEPT ![c] =
            IF q.multi /\ status = "OK" /\ q.cmd # "NOOP" THEN @ \cup {q.key} ELSE @]
  /\ UNCHANGED <<at, serial, count, sent, last, answer, todo, found, drained>>

-----------------------------------------------------------------------------
Looping(c) == Ask(c) \/ Recv(c) \/ RecvFails(c)

ProgramNext ==
  \E c \in Clients :
    \/ Construct(c)
    \/ count < MaxCalls /\ \E a \in Calls[count + 1] : Call(c, a) \/ CallAndWait(c, a)
    \/ MultiGet(c, Keys)
    \/ Looping(c)
    \/ Handle(c)

ProgramSpec == ProgramInit /\ [][ProgramNext]_programVars

(* The server answers, and a program that is in a loop goes on with it.     *)
ProgramFairness ==
  \A c \in Clients : WF_programVars(Handle(c)) /\ WF_programVars(Looping(c))

ProgramFairSpec == ProgramSpec /\ ProgramFairness

-----------------------------------------------------------------------------
(* Properties.                                                             *)

(* The two extensions, two sources of thirty methods each, ask the library  *)
(* for the same thing, or refuse the same call for the same reason, on an   *)
(* object that has been constructed and on one that has not.  They differ   *)
(* in one way: without a connection yrmcds_php5.c says that it is lost,     *)
(* where yrmcds.c has no check and uses the null one, unless the library    *)
(* refuses the request before it does.                                      *)
SameRequest ==
  \A c \in Clients, constructed \in BOOLEAN :
    LET o    == ObjectOf(c, constructed)
        php7 == Method(o, last[c].a)
        php5 == Php5!Method(o, last[c].a)
    IN \/ php7 = php5
       \/ ~constructed /\ php7 \in {Crash, BadArgument} /\ php5 = Php5!Lost

(* The response a wait accepts by its serial answers the request it waits   *)
(* for, whatever quiet and loud requests went before and wherever the       *)
(* serial has wrapped.                                                      *)
AnswerMatches == \A c \in Clients : answer[c].n = answer[c].for

(* After a loop has seen its last answer nothing older is under way: the    *)
(* next loop does not meet answers of the one before.                       *)
Barrier == \A c \in Clients : drained[c] => Unread(c) = {}

(* A multi-get returns the keys that the server found, all of them, and     *)
(* those only.                                                              *)
MultiGetExact ==
  \A c \in Clients :
    at[c] \in {"free", "waiting", "listing"} => found[c] = hits[c]

(* Clients of which neither has a prefix that begins the other's do not     *)
(* read what the other wrote, by whichever method and in either extension.  *)
Begins(p, q) == Len(p) <= Len(q) /\ SubSeq(q, 1, Len(p)) = p

TenantsApart ==
  \A c \in Clients : \A i \in 1..Len(back[c]) :
    LET by == back[c][i].by
    IN by \in {NULL, c} \/ Begins(Prefix[c], Prefix[by]) \/ Begins(Prefix[by], Prefix[c])

(* A loop ends: a call that is waited for is answered, whatever its status. *)
WaitEnds ==
  \A c \in Clients :
    at[c] \in {"waiting", "collecting", "listing"}
      ~> at[c] \notin {"waiting", "collecting", "listing"}
=============================================================================
