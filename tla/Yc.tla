--------------------------------- MODULE Yc ---------------------------------
(* The tool yc: users that run one command after another, each on a          *)
(* connection of its own, against one server that keeps objects and locks.  *)
(* What one invocation stores, compressed or not, another prints.           *)
EXTENDS YcCommands, Connect, FiniteSets

CONSTANTS
  Sessions,      \* what the users may do: [Users -> sequence of invocations]
  Unpack(_, _)   \* LZ4_decompress_safe

(* Commands that store the file they are given, and those that read one.     *)
Keeping == {"set", "replace", "add", "rau"}

HasFile(i) ==
  i.cmd \in Keeping \cup {"append", "prepend"} /\ Len(i.args) > 1 /\ i.args[2] # NULL

(* A file is bytes, and flags are a number.                                 *)
IsInvocation(i) ==
  /\ i.quiet \in BOOLEAN
  /\ HasFile(i) => i.args[2] \in Seq(0..(Byte - 1))
  /\ i.cmd \in Keeping /\ Len(i.args) >= 4 => i.args[4] \in Int

ASSUME SessionsAssumption ==
  \A s \in Sessions : \A u \in Users :
    Len(s[u]) \in Nat /\ \A n \in 1..Len(s[u]) : IsInvocation(s[u][n])

VARIABLES
  session,   \* what each user does
  proc,      \* the process of each: pc, invocation, plan, serial, exit code
  wire,      \* requests on each connection, oldest first
  back,      \* responses on each connection, oldest first
  alive,     \* the server has the connection
  store,     \* objects: data and flags, and as history plain, what the users meant
  holder,    \* locked keys, and whose connection holds the lock
  shown,     \* what each invocation has written to its output
  lost,      \* history: some of it could not be written
  outcome,   \* history: the status the server gave its request
  meant      \* history: plain of the object it received

ycVars == <<link, session, proc, wire, back, alive, store, holder, shown,
            lost, outcome, meant>>

NoPlan == Stop(0)

YcTypeOK ==
  /\ ConnectTypeOK
  /\ \A u \in Users :
       /\ proc[u].pc \in {"idle", "connecting", "quiet", "receiving", "prompt", "exited"}
       /\ proc[u].n \in 0..Len(session[u]) /\ proc[u].code \in 0..3
       /\ proc[u].serial \in 0..2
       /\ proc[u].pc \in {"quiet", "receiving", "prompt"} => link[u].stage = "open"
       /\ Len(wire[u]) <= 2
  /\ \A k \in DOMAIN holder : holder[k] \in Users /\ alive[holder[k]]

YcInit ==
  /\ ConnectInit
  /\ session \in Sessions
  /\ proc = [u \in Users |-> [pc |-> "idle", n |-> 0, plan |-> NoPlan, serial |-> 0, code |-> 0]]
  /\ wire = [u \in Users |-> <<>>]
  /\ back = [u \in Users |-> <<>>]
  /\ alive = [u \in Users |-> FALSE]
  /\ store = <<>>
  /\ holder = <<>>
  /\ shown = [u \in Users |-> <<>>]
  /\ lost = [u \in Users |-> FALSE]
  /\ outcome = [u \in Users |-> "none"]
  /\ meant = [u \in Users |-> <<>>]

Now(u) == session[u][proc[u].n]

-----------------------------------------------------------------------------
(* main.                                                                   *)

(* Options that end the program before it connects.                         *)
Options(i) ==
  IF i.help THEN 0
  ELSE IF i.port <= 0 \/ i.port > 65535 \/ i.compress <= 0 THEN 1
  ELSE IF i.cmd = "" THEN 0 ELSE -1

(* The next command of a user, once the server has seen the end of the last *)
(* one's connection.                                                        *)
Start(u) ==
  /\ proc[u].pc \in {"idle", "exited"} /\ proc[u].n < Len(session[u]) /\ ~alive[u]
  /\ LET i == session[u][proc[u].n + 1]  code == Options(i) IN
     /\ proc' = [proc EXCEPT ![u] = [pc |-> IF code = -1 THEN "connecting" ELSE "exited",
                                     n |-> proc[u].n + 1, plan |-> NoPlan, serial |-> 0,
                                     code |-> IF code = -1 THEN 0 ELSE code]]
     /\ IF code = -1 THEN StartConnect(u) \/ MutexFails(u) ELSE UNCHANGED link
  /\ shown' = [shown EXCEPT ![u] = <<>>]
  /\ lost' = [lost EXCEPT ![u] = FALSE]
  /\ outcome' = [outcome EXCEPT ![u] = "none"]
  /\ meant' = [meant EXCEPT ![u] = <<>>]
  /\ UNCHANGED <<session, wire, back, alive, store, holder>>

Connecting(u) ==
  /\ proc[u].pc = "connecting"
  /\ ConnectStep(u)
  /\ alive' = [alive EXCEPT ![u] = link'[u].stage = "open"]
  /\ UNCHANGED <<session, proc, wire, back, store, holder, shown, lost, outcome, meant>>

(* Mutant: the error of yrmcds_connect is not looked at.                    *)
ConnectUnchecked(u) ==
  /\ proc[u].pc = "connecting" /\ link[u].stage = "failed"
  /\ proc' = [proc EXCEPT ![u].pc = "receiving"]
  /\ UNCHANGED <<link, session, wire, back, alive, store, holder, shown, lost, outcome, meant>>

ConnectFailed(u) ==
  /\ proc[u].pc = "connecting" /\ link[u].stage = "failed"
  /\ proc' = [proc EXCEPT ![u].pc = "exited", ![u].code = 2]
  /\ UNCHANGED <<link, session, wire, back, alive, store, holder, shown, lost, outcome, meant>>

(* The process ends: yrmcds_close, and the code of the command.             *)
Exits(u, code) ==
  /\ CloseLink(u)
  /\ proc' = [proc EXCEPT ![u].pc = "exited", ![u].code = code]
  /\ back' = [back EXCEPT ![u] = <<>>]

(* A request with the next serial; plain is what the user means to store.   *)
Put(u, request) ==
  wire' = [wire EXCEPT ![u] = IF ~alive[u] THEN @ ELSE Append(@,
    [serial |-> proc[u].serial + 1, cmd |-> request.cmd, cas |-> request.cas,
     key |-> request.key, extras |-> request.extras, data |-> request.data,
     plain |-> IF Len(Now(u).args) > 1 THEN Now(u).args[2] ELSE <<>>])]

AfterSend(plan) ==
  CASE plan.until # "none"                    -> "receiving"
    [] plan.until = "none" /\ plan.prompts    -> "prompt"
    [] plan.until = "none" /\ ~plan.prompts   -> "exited"

(* set_compression, and the command up to its request.                      *)
Run(u) ==
  /\ proc[u].pc = "connecting" /\ link[u].stage = "open"
  /\ \E plan \in {Command(Now(u), [threshold |-> Now(u).compress])} :
       IF plan.exit # -1
       THEN Exits(u, plan.exit) /\ UNCHANGED wire
       ELSE /\ Put(u, plan.request)
            /\ proc' = [proc EXCEPT ![u].plan = plan, ![u].serial = 1,
                                    ![u].pc = IF plan.noop THEN "quiet" ELSE AfterSend(plan)]
            /\ IF ~plan.noop /\ AfterSend(plan) = "exited" THEN CloseLink(u) ELSE UNCHANGED link
            /\ UNCHANGED back
  /\ UNCHANGED <<session, alive, store, holder, shown, lost, outcome, meant>>

(* The noop after a quiet request: its serial is the one waited for.        *)
Flush(u) ==
  /\ proc[u].pc = "quiet"
  /\ Put(u, yrmcds_noop)
  /\ proc' = [proc EXCEPT ![u].pc = AfterSend(proc[u].plan), ![u].serial = 2]
  /\ UNCHANGED <<link, session, back, alive, store, holder, shown, lost, outcome, meant>>

(* A send on a connection that has been lost.                               *)
SendFails(u) ==
  /\ proc[u].pc = "quiet" /\ ~alive[u]
  /\ Exits(u, 2)
  /\ UNCHANGED <<session, wire, alive, store, holder, shown, lost, outcome, meant>>

-----------------------------------------------------------------------------
(* yrmcds_recv, past the frame: the value of a counter, or the data, which  *)
(* is decompressed when the flag says so, if there is memory for it.  Less  *)
(* than four bytes are no length: what is read behind them makes one, but   *)
(* the rest of the data is then of a negative size, which the decoder       *)
(* refuses whatever the length was.                                         *)
ntoh32(d) == ((d[1] * Byte + d[2]) * Byte + d[3]) * Byte + d[4]

Undecoded == [ok |-> FALSE, data |-> <<>>]

Decoded(r) ==
  LET size == ntoh32(r.data)
      got  == Unpack(SubSeq(r.data, 5, Len(r.data)), size)
  IN IF ~Compressed(r.flags) THEN {[ok |-> TRUE, data |-> r.data]}
     ELSE {Undecoded} \cup
          (IF Len(r.data) >= 4 /\ size <= U32 \div 2 - 1 /\ got.d = size
           THEN {[ok |-> TRUE, data |-> got.out]} ELSE {})

Written(plan, r, data) ==
  CASE plan.prints = "data"    -> data
    [] plan.prints = "value"   -> <<r.value>>
    [] plan.prints = "ok"      -> <<"OK">>
    [] plan.prints = "keys"    -> r.key
    [] plan.prints = "nothing" -> <<>>

(* write_data gives up without a word when the output cannot be written, and *)
(* so does printf: what is written then is a part, and the command goes on. *)
write_data(u, text) ==
  \E n \in 0..Len(text) :
    /\ shown' = [shown EXCEPT ![u] = @ \o SubSeq(text, 1, n)]
    /\ lost' = [lost EXCEPT ![u] = @ \/ n < Len(text)]

(* The response that ends the loop of the command.                          *)
Ends(u, r) ==
  CASE proc[u].plan.until = "first"  -> TRUE
    [] proc[u].plan.until = "serial" -> r.serial = proc[u].serial
    [] proc[u].plan.until = "empty"  -> r.key = <<>>

(* Mutant: the status is looked at only in the response that is waited for. *)
CheckLast(u, r) == r.status = "OK" \/ ~Ends(u, r)

(* CHECK_RESPONSE.                                                          *)
Accepted(u, r) == r.status = "OK"

Listed(plan, r) == IF plan.prints = "keys" THEN r.key ELSE <<>>

(* One turn of the receive loop.                                            *)
Recv(u) ==
  /\ proc[u].pc = "receiving" /\ back[u] # <<>>
  /\ \E r \in {Head(back[u])} : \E decoded \in Decoded(r) :
       LET plan == proc[u].plan
           fine == decoded.ok /\ Accepted(u, r)
           code == IF ~decoded.ok THEN 2 ELSE IF Accepted(u, r) THEN 0 ELSE 3
       IN /\ write_data(u, CASE fine /\ Ends(u, r)  -> Written(plan, r, decoded.data)
                             [] fine /\ ~Ends(u, r) -> Listed(plan, r)
                             [] OTHER               -> <<>>)
          /\ meant' = [meant EXCEPT ![u] = IF fine /\ Ends(u, r) THEN r.plain ELSE @]
          /\ IF ~fine \/ (Ends(u, r) /\ ~plan.prompts) THEN Exits(u, code)
             ELSE /\ proc' = [proc EXCEPT ![u].pc = IF Ends(u, r) THEN "prompt" ELSE @]
                  /\ back' = [back EXCEPT ![u] = Tail(@)]
                  /\ UNCHANGED link
          /\ UNCHANGED <<session, wire, alive, store, holder, outcome>>

RecvFails(u) ==
  /\ proc[u].pc = "receiving" /\ back[u] = <<>> /\ ~alive[u]
  /\ Exits(u, 2)
  /\ UNCHANGED <<session, wire, alive, store, holder, shown, lost, outcome, meant>>

(* "Press enter to unlock."                                                 *)
Enter(u) ==
  /\ proc[u].pc = "prompt"
  /\ Exits(u, 0)
  /\ UNCHANGED <<session, wire, alive, store, holder, shown, lost, outcome, meant>>

-----------------------------------------------------------------------------
(* The server (external): objects, locks that end with the connection that  *)
(* holds them.                                                              *)
Has(k) == k \in DOMAIN store
Locked(u, k) == k \in DOMAIN holder /\ holder[k] # u
Holds(u, k) == k \in DOMAIN holder /\ holder[k] = u

Loud(cmd) ==
  CASE cmd = "LAGQ" -> "LAG"   [] cmd = "LAGKQ" -> "LAG"  [] cmd = "LAGK" -> "LAG"
    [] cmd = "LOCKQ" -> "LOCK" [] cmd = "UNLOCKQ" -> "UNLOCK" [] cmd = "RAUQ" -> "RAU"
    [] cmd = "SETQ" -> "SET"   [] cmd = "ADDQ" -> "ADD"   [] cmd = "REPLACEQ" -> "REPLACE"
    [] cmd = "APPENDQ" -> "APPEND" [] cmd = "PREPENDQ" -> "PREPEND"
    [] cmd = "DELETEQ" -> "DELETE" [] cmd = "INCREMENTQ" -> "INCREMENT"
    [] cmd = "DECREMENTQ" -> "DECREMENT" [] cmd = "FLUSHQ" -> "FLUSH"
    [] cmd = "UNLOCKALLQ" -> "UNLOCKALL" [] cmd = "QUITQ" -> "QUIT"
    [] cmd \in Gets \ {"LAG", "LAGQ", "LAGK", "LAGKQ"} -> "GET"
    [] OTHER -> cmd

(* What may come of a request: the first of these that applies.             *)
Statuses(u, q) ==
  LET cmd == Loud(q.cmd)  has == Has(q.key)  locked == Locked(u, q.key) IN
  IF cmd \in Sure THEN {"OK"}
  ELSE IF cmd = "UNLOCK" THEN IF Holds(u, q.key) THEN {"OK"} ELSE {"NOTLOCKED"}
  ELSE IF cmd = "RAU" THEN IF has /\ Holds(u, q.key) THEN {"OK"} ELSE {"NOTLOCKED"}
  ELSE IF cmd = "ADD" /\ has THEN {"EXISTS"}
  ELSE IF cmd \notin {"ADD", "SET", "INCREMENT", "DECREMENT"} /\ ~has THEN {"NOTFOUND"}
  ELSE IF cmd \in {"INCREMENT", "DECREMENT"} /\ ~has
       THEN IF q.extras[3] = U32 - 1 THEN {"NOTFOUND"} ELSE {"OK"}
  ELSE IF cmd \in {"INCREMENT", "DECREMENT"}
          /\ (Len(store[q.key].data) # 1 \/ store[q.key].flags # 0) THEN {"NONNUMERIC"}
  ELSE IF cmd # "GET" /\ locked THEN {"LOCKED"}
  ELSE IF q.cas # 0 THEN {"OK", "EXISTS"}
  ELSE {"OK"}

(* Counters are unsigned: incr wraps, decr stops at zero.                   *)
Counted(q) ==
  LET now == store[q.key].data[1] IN
  CASE ~Has(q.key) -> q.extras[2]
    [] Has(q.key) /\ Loud(q.cmd) = "INCREMENT" -> Uint64(now + q.extras[1])
    [] Has(q.key) /\ Loud(q.cmd) = "DECREMENT" ->
         IF now > q.extras[1] THEN now - q.extras[1] ELSE 0

Stored(q) ==
  LET old == store[q.key] IN
  CASE Loud(q.cmd) \in {"SET", "ADD", "REPLACE", "RAU"} ->
         [data |-> q.data, flags |-> q.extras[1], plain |-> q.plain]
    [] Loud(q.cmd) = "APPEND" ->
         [old EXCEPT !.data = @ \o q.data, !.plain = @ \o q.plain]
    [] Loud(q.cmd) = "PREPEND" ->
         [old EXCEPT !.data = q.data \o @, !.plain = q.plain \o @]
    [] Loud(q.cmd) \in {"INCREMENT", "DECREMENT"} ->
         [data |-> <<Counted(q)>>, flags |-> 0, plain |-> <<Counted(q)>>]

Answer(q, status, key) ==
  LET gives == status = "OK" /\ q.cmd \in Gets IN
  [serial |-> q.serial, status |-> status,
   key   |-> IF gives /\ q.cmd \in GetKs THEN q.key ELSE key,
   data  |-> IF gives THEN store[q.key].data ELSE <<>>,
   flags |-> IF gives THEN store[q.key].flags ELSE 0,
   plain |-> IF gives THEN store[q.key].plain ELSE <<>>,
   value |-> IF status = "OK" /\ Loud(q.cmd) \in {"INCREMENT", "DECREMENT"}
             THEN Counted(q) ELSE 0]

Answers(q, status) ==
  CASE Silent(q, status) -> <<>>
    [] q.cmd \in {"STAT", "KEYS"} -> <<Answer(q, status, <<"name">>), Answer(q, status, <<>>)>>
    [] OTHER -> <<Answer(q, status, <<>>)>>

Released(u) == [k \in {x \in DOMAIN holder : holder[x] # u} |-> holder[k]]

Handle(u) ==
  /\ alive[u] /\ wire[u] # <<>>
  /\ LET q == Head(wire[u])  cmd == Loud(q.cmd) IN
     \E status \in Statuses(u, q) :
       /\ wire' = [wire EXCEPT ![u] = Tail(@)]
       /\ back' = IF link[u].stage = "open"
                  THEN [back EXCEPT ![u] = @ \o Answers(q, status)] ELSE back
       /\ outcome' = [outcome EXCEPT ![u] = IF q.serial = 1 THEN status ELSE @]
       /\ alive' = [alive EXCEPT ![u] = cmd # "QUIT"]
       /\ store' = CASE status = "OK" /\ q.cmd \in Writes -> With(store, q.key, Stored(q))
                     [] status = "OK" /\ cmd = "DELETE" -> Without(store, q.key)
                     [] cmd = "FLUSH" /\ q.extras = <<>> ->
                          [k \in DOMAIN store \cap DOMAIN holder |-> store[k]]
                     [] OTHER -> store
       /\ holder' = CASE status = "OK" /\ cmd \in {"LOCK", "LAG"} -> With(holder, q.key, u)
                      [] status = "OK" /\ cmd \in {"UNLOCK", "RAU", "DELETE"} -> Without(holder, q.key)
                      [] cmd \in {"UNLOCKALL", "QUIT"} -> Released(u)
                      [] OTHER -> holder
  /\ UNCHANGED <<link, session, proc, shown, lost, meant>>

(* The server sees that a connection is closed, or closes it itself: what   *)
(* it has not handled is lost, and its locks end.                           *)
Lose(u) ==
  /\ alive' = [alive EXCEPT ![u] = FALSE]
  /\ holder' = Released(u)
  /\ wire' = [wire EXCEPT ![u] = <<>>]
  /\ UNCHANGED <<link, session, proc, back, store, shown, lost, outcome, meant>>

Hangup(u) == alive[u] /\ wire[u] = <<>> /\ link[u].stage # "open" /\ Lose(u)

Drop(u) == alive[u] /\ link[u].stage = "open" /\ Lose(u)

-----------------------------------------------------------------------------
Process(u) ==
  \/ Connecting(u) \/ ConnectFailed(u) \/ Run(u) \/ Flush(u) \/ SendFails(u)
  \/ Recv(u) \/ RecvFails(u) \/ Enter(u)

YcNext == \E u \in Users : Start(u) \/ Process(u) \/ Handle(u) \/ Hangup(u) \/ Drop(u)

YcSpec == YcInit /\ [][YcNext]_ycVars

(* The tool runs, poll and getaddrinfo come back, users press enter and the  *)
(* server answers.                                                          *)
YcFairness ==
  \A u \in Users : WF_ycVars(Process(u)) /\ WF_ycVars(Handle(u)) /\ WF_ycVars(Hangup(u))

YcFairSpec == YcSpec /\ YcFairness

-----------------------------------------------------------------------------
(* Properties.                                                             *)

Over(u, code) == proc[u].pc = "exited" /\ proc[u].code = code /\ proc[u].plan.exit = -1

IsGet(u) == proc[u].plan.request.cmd \in Gets

(* An exit code of 0 means that the server did what was asked, except that a *)
(* quiet get says 0 also when there is nothing to get; 3 means it did not.   *)
(* As the usage text says, rau and unlock always fail: a lock does not       *)
(* outlive the connection of the command that took it.                      *)
ZeroMeansDone ==
  \A u \in Users :
    /\ Over(u, 0) /\ proc[u].plan.until # "none" =>
         outcome[u] = "OK" \/ (IsGet(u) /\ Now(u).quiet /\ outcome[u] = "NOTFOUND")
    /\ Over(u, 3) => outcome[u] \notin {"none", "OK"}
    /\ Over(u, 0) => Now(u).cmd \notin {"rau", "unlock"}

(* What an invocation stores.                                               *)
Plain(i) == IF Len(i.args) > 1 THEN i.args[2] ELSE <<>>

(* What it stores is compressed.                                            *)
Packs(i) == i.cmd \in Keeping /\ HasFile(i) /\ Len(i.args[2]) > i.compress

(* Some user stores something long under a key.                             *)
PackedKey(k) ==
  \E u \in Users : \E n \in 1..Len(session[u]) :
    Packs(session[u][n]) /\ session[u][n].args[1] = k

(* A careful user stores less than an int can count, leaves the flag bit of *)
(* compression to the library that uses it (yrmcds.h:225), and puts nothing *)
(* in front of what may be compressed (yrmcds.h:631).                       *)
Careful(i) ==
  HasFile(i) =>
    /\ i.cmd \in Keeping => Len(i.args[2]) < U32 \div 2 /\ ~Compressed(Flags(i))
    /\ i.cmd = "prepend" => ~PackedKey(i.args[1])

CarefulUsers == \A u \in Users : \A n \in 1..Len(session[u]) : Careful(session[u][n])

(* Everything that was meant to be stored, or the part that the output took. *)
Printed(u) ==
  IF lost[u] THEN \E n \in 0..(Len(meant[u]) - 1) : shown[u] = SubSeq(meant[u], 1, n)
  ELSE shown[u] = meant[u]

(* A get that exits with 0 has printed what was meant to be stored, however  *)
(* large and with whatever threshold it was stored, or the beginning of it   *)
(* when the output could not be written; never anything else.                *)
PrintsStored ==
  CarefulUsers =>
    \A u \in Users : Over(u, 0) /\ IsGet(u) /\ ~Now(u).quiet => Printed(u)

(* While a user is told to press enter to unlock, the lock is held, unless   *)
(* the connection has been lost: two users are never told so for one key.   *)
(* A quiet lag that found nothing is the exception.                         *)
PromptHasLock ==
  \A u \in Users :
    proc[u].pc = "prompt" /\ alive[u] =>
      \/ Holds(u, proc[u].plan.request.key)
      \/ IsGet(u) /\ Now(u).quiet /\ outcome[u] = "NOTFOUND"

(* Every command ends, and with it the lock it took.                        *)
InvocationEnds ==
  \A u \in Users : proc[u].pc \notin {"idle", "exited"} ~> proc[u].pc = "exited" /\ ~alive[u]
=============================================================================
