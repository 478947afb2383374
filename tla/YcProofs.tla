------------------------------ MODULE YcProofs ------------------------------
(* Theorems about yc, for every set of users, whatever they do and however  *)
(* the server orders it: connections are opened and closed only as connect.c *)
(* and close.c do, and so leak nothing; exit codes tell what the server did; *)
(* a prompt to unlock is shown only to a user who holds the lock; and get     *)
(* prints what was stored, through compression and back, or the beginning   *)
(* of it when its output fails.                                             *)
EXTENDS Yc, Lz4Proofs, TLAPS

(* What each stage of a connection holds.                                   *)
Holding(l) ==
  /\ l.stage \in {"closed", "failed", "resolving"} => ~l.fd /\ ~l.res /\ ~l.buf
  /\ l.stage = "resolved" => ~l.fd /\ l.res /\ ~l.buf
  /\ l.stage = "socket" => l.fd /\ l.res /\ ~l.buf
  /\ l.stage \in {"polling", "options", "connected", "open"} => l.fd /\ ~l.res
  /\ l.stage \in {"polling", "options", "connected"} => ~l.buf
  /\ l.stage = "open" => l.buf
  /\ l.stage \notin {"closed", "failed"} => l.mutex /\ l.error = "OK"
  /\ l.stage = "closed" \/ l.error = "OUT_OF_MEMORY" => ~l.mutex

ConnectInv == ConnectTypeOK /\ \A u \in Users : Holding(link[u])

(* No connection has anything at first.                                     *)
LEMMA ConnectInitInv == ConnectInit => ConnectInv
BY DEF ConnectInit, ConnectInv, ConnectTypeOK, Holding, NoLink, Stages

(* One step of one connection.                                              *)
LEMMA StepKeeps ==
  ASSUME NEW u \in Users, ConnectInv,
         StartConnect(u) \/ MutexFails(u) \/ ConnectStep(u) \/ CloseLink(u)
  PROVE  ConnectInv'
<1> USE DEF ConnectInv, ConnectTypeOK, Holding, Stages, NoLink
<1>1. CASE StartConnect(u) BY <1>1 DEF StartConnect
<1>2. CASE MutexFails(u) BY <1>2 DEF MutexFails
<1>3. CASE Resolve(u) BY <1>3 DEF Resolve
<1>4. CASE ResolveAgain(u) BY <1>4 DEF ResolveAgain
<1>5. CASE ResolveFails(u) BY <1>5 DEF ResolveFails, Fails
<1>6. CASE OpenSocket(u) BY <1>6 DEF OpenSocket, Fails
<1>7. CASE ConnectSocket(u) BY <1>7 DEF ConnectSocket, Fails
<1>8. CASE PollSocket(u)
  <2>1. CASE Goes(u, "options")
    BY <1>8, <2>1 DEF PollSocket, Goes
  <2>2. ASSUME NEW why \in {"TIMEOUT", "DISCONNECTED", "SYSTEM_ERROR"}, Fails(u, why)
        PROVE  ConnectInv'
    BY <1>8, <2>2 DEF PollSocket, Fails
  <2> QED BY <1>8, <2>1, <2>2 DEF PollSocket
<1>9. CASE SetOptions(u) BY <1>9 DEF SetOptions, Fails, Goes
<1>10. CASE Allocate(u) BY <1>10 DEF Allocate
<1>11. CASE CloseLink(u) BY <1>11 DEF CloseLink
<1>12. QED BY <1>1, <1>2, <1>3, <1>4, <1>5, <1>6, <1>7, <1>8, <1>9, <1>10, <1>11
           DEF ConnectStep

(* Every step of the tool is a step of one connection, or of none.          *)
LEMMA ToolConnects == [YcNext]_ycVars => [ConnectNext]_connectVars
<1> SUFFICES ASSUME [YcNext]_ycVars PROVE [ConnectNext]_connectVars
  OBVIOUS
<1>1. CASE UNCHANGED ycVars BY <1>1 DEF ycVars, connectVars
<1>2. ASSUME NEW u \in Users,
             Start(u) \/ Process(u) \/ Handle(u) \/ Hangup(u) \/ Drop(u)
      PROVE  [ConnectNext]_connectVars
  <2> USE DEF connectVars
  <2>1. CASE Start(u) BY <2>1 DEF Start, ConnectNext
  <2>2. CASE Connecting(u) BY <2>2 DEF Connecting, ConnectNext
  <2>3. CASE ConnectFailed(u) BY <2>3 DEF ConnectFailed
  <2>4. CASE Run(u) BY <2>4 DEF Run, Exits, ConnectNext
  <2>5. CASE Flush(u) BY <2>5 DEF Flush
  <2>6. CASE SendFails(u) BY <2>6 DEF SendFails, Exits, ConnectNext
  <2>7. CASE Recv(u) BY <2>7 DEF Recv, Exits, ConnectNext
  <2>8. CASE RecvFails(u) BY <2>8 DEF RecvFails, Exits, ConnectNext
  <2>9. CASE Enter(u) BY <2>9 DEF Enter, Exits, ConnectNext
  <2>10. CASE Handle(u) BY <2>10 DEF Handle
  <2>11. CASE Hangup(u) \/ Drop(u) BY <2>11 DEF Hangup, Drop, Lose
  <2>12. QED BY <1>2, <2>1, <2>2, <2>3, <2>4, <2>5, <2>6, <2>7, <2>8, <2>9, <2>10, <2>11
             DEF Process
<1>3. QED BY <1>1, <1>2 DEF YcNext

(* connect.c and close.c release on every path what the path has taken.     *)
THEOREM ConnectLeaksNothing == ConnectSpec => []NothingLeaks
<1>1. ConnectInv /\ [ConnectNext]_connectVars => ConnectInv'
  <2>1. ConnectInv /\ UNCHANGED connectVars => ConnectInv'
    BY DEF ConnectInv, ConnectTypeOK, Holding, connectVars
  <2>2. QED BY <2>1, StepKeeps DEF ConnectNext
<1>2. ConnectInv => NothingLeaks
  BY DEF ConnectInv, Holding, NothingLeaks
<1>3. QED BY <1>1, <1>2, ConnectInitInv, PTL DEF ConnectSpec

(* yc is a correct user of the connections: each of its behaviours is one    *)
(* that connect.c and close.c allow.                                        *)
THEOREM ToolImplementsConnect == YcSpec => ConnectSpec
<1>1. YcInit => ConnectInit BY DEF YcInit
<1>2. QED BY <1>1, ToolConnects, PTL DEF YcSpec, ConnectSpec

(* No invocation of yc, however it ends, leaks a descriptor, an address list *)
(* or a buffer.                                                             *)
THEOREM ToolLeaksNothing == YcSpec => []NothingLeaks
BY ConnectLeaksNothing, ToolImplementsConnect, PTL

-----------------------------------------------------------------------------
(* The plans of the commands.                                              *)

Locking   == {"LOCK", "LOCKQ", "LAG", "LAGQ", "LAGK", "LAGKQ"}
Unlocking == {"UNLOCK", "UNLOCKQ", "RAU", "RAUQ"}
Quitting  == {"QUIT", "QUITQ"}

(* What is always true of a plan that sends something.                      *)
Sound(i, p) ==
  /\ p.until \in {"first", "serial", "empty", "none"}
  /\ p.noop => p.until = "serial" /\ p.request.cmd \notin Quitting
  /\ p.prompts => p.until = "serial" /\ p.request.cmd \in Locking
  /\ p.until = "none" => p.request.cmd \in Quitting
  /\ p.request.cmd \in Gets \cap Quiets => i.quiet
  /\ i.cmd \in {"rau", "unlock"} => p.request.cmd \in Unlocking

Planned(i, p) ==
  /\ p.exit \in {-1, 1, 2}
  /\ p.exit = -1 => Sound(i, p)

(* A request of a command that goes out, or none.                           *)
Carries(i, r, loud, silent) ==
  r.out = "send" => r.cmd = IF i.quiet THEN silent ELSE loud

(* A plan that stops at the arguments is sound.                             *)
LEMMA StopPlanned ==
  ASSUME NEW i, NEW code \in {1, 2}
  PROVE  Planned(i, Stop(code))
BY DEF Planned, Stop

(* A plan is sound when its request is,                                     *)
LEMMA SendsPlanned ==
  ASSUME NEW i, NEW r, NEW noop, NEW until, NEW prints, NEW prompts,
         r.out = "send" => Sound(i, [exit |-> -1, request |-> r, noop |-> noop, until |-> until,
                                     prints |-> prints, prompts |-> prompts])
  PROVE  Planned(i, Sends(r, noop, until, prints, prompts))
BY StopPlanned DEF Planned, Sends

(* A command that waits for the serial of its last request.                 *)
Fitting(i, loud, silent) ==
  /\ loud \notin Quitting \cup Quiets /\ silent \notin Quitting
  /\ i.cmd \in {"rau", "unlock"} => loud \in Unlocking /\ silent \in Unlocking

(* in particular one that waits for the answer to a request that fits the   *)
(* command,                                                                 *)
LEMMA AwaitsPlanned ==
  ASSUME NEW i, NEW r, NEW prints, NEW loud, NEW silent, NEW counts,
         Carries(i, r, loud, silent), Fitting(i, loud, silent), i.quiet \in BOOLEAN
  PROVE  /\ Planned(i, Awaits(i, r, prints))
         /\ Planned(i, Count(i, counts, Awaits(i, r, prints)))
         /\ Planned(i, Count(i, counts, read_data(i, Awaits(i, r, prints))))
         /\ loud \in Locking /\ silent \in Locking =>
              Planned(i, Count(i, counts, Prompts(i, r, prints)))
<1>1. ASSUME NEW prompts \in BOOLEAN, prompts => loud \in Locking /\ silent \in Locking,
             r.out = "send"
      PROVE  Sound(i, [exit |-> -1, request |-> r, noop |-> i.quiet, until |-> "serial",
                       prints |-> prints, prompts |-> prompts])
  BY <1>1 DEF Sound, Carries, Fitting
<1>2. Planned(i, Awaits(i, r, prints))
  BY <1>1, SendsPlanned DEF Awaits
<1>3. loud \in Locking /\ silent \in Locking => Planned(i, Prompts(i, r, prints))
  BY <1>1, SendsPlanned DEF Prompts
<1>4. \A p : Planned(i, p) => Planned(i, Count(i, counts, p)) /\ Planned(i, read_data(i, p))
  BY StopPlanned DEF Count, read_data
<1>5. QED BY <1>2, <1>3, <1>4

(* The requests of the library, by the command they carry.                  *)
LEMMA KeyPlanned ==
  ASSUME NEW i, NEW loud, NEW silent, NEW key, NEW extras, NEW prints, NEW counts,
         Fitting(i, loud, silent), i.quiet \in BOOLEAN
  PROVE  LET r == OnKey(Either(i.quiet, loud, silent), key, extras) IN
         /\ Planned(i, Count(i, counts, Awaits(i, r, prints)))
         /\ loud \in Locking /\ silent \in Locking =>
              Planned(i, Count(i, counts, Prompts(i, r, prints)))
<1> DEFINE r == OnKey(Either(i.quiet, loud, silent), key, extras)
<1>1. Carries(i, r, loud, silent)
  BY DEF Carries, OnKey, Either, Request, BadArgument
<1> HIDE DEF r
<1>2. /\ Planned(i, Count(i, counts, Awaits(i, r, prints)))
      /\ loud \in Locking /\ silent \in Locking =>
           Planned(i, Count(i, counts, Prompts(i, r, prints)))
  BY <1>1, AwaitsPlanned
<1>3. QED BY <1>2 DEF r

(* or one that stores what read_data has read.                              *)
LEMMA DataPlanned ==
  ASSUME NEW i, NEW c, NEW loud, NEW silent, NEW key, NEW data, NEW flags, NEW expire, NEW cas,
         NEW prints, NEW counts, Fitting(i, loud, silent), i.quiet \in BOOLEAN
  PROVE  Planned(i, Count(i, counts, read_data(i, Awaits(i,
           SendData(c, Either(i.quiet, loud, silent), key, data, flags, expire, cas), prints))))
<1> DEFINE r == SendData(c, Either(i.quiet, loud, silent), key, data, flags, expire, cas)
<1>1. Carries(i, r, loud, silent)
  BY DEF Carries, SendData, Either, Request, BadArgument, CompressFailed
<1> HIDE DEF r
<1>2. Planned(i, Count(i, counts, read_data(i, Awaits(i, r, prints))))
  BY <1>1, AwaitsPlanned
<1>3. QED BY <1>2 DEF r

(* The plans of the commands that read, touch, delete or lock,              *)
LEMMA ReadsPlanned ==
  ASSUME NEW i, NEW c, i.quiet \in BOOLEAN, i.cmd \notin {"rau", "unlock"}
  PROVE  /\ Planned(i, cmd_get(i, c)) /\ Planned(i, cmd_getk(i, c))
         /\ Planned(i, cmd_gat(i, c)) /\ Planned(i, cmd_gatk(i, c))
         /\ Planned(i, cmd_lag(i, c)) /\ Planned(i, cmd_lagk(i, c))
         /\ Planned(i, cmd_touch(i, c)) /\ Planned(i, cmd_delete(i, c))
         /\ Planned(i, cmd_lock(i, c))
<1>0. /\ Fitting(i, "GET", "GETQ") /\ Fitting(i, "GETK", "GETKQ") /\ Fitting(i, "GAT", "GATQ")
      /\ Fitting(i, "GATK", "GATKQ") /\ Fitting(i, "LAG", "LAGQ") /\ Fitting(i, "LAGK", "LAGKQ")
      /\ Fitting(i, "DELETE", "DELETEQ") /\ Fitting(i, "LOCK", "LOCKQ")
      /\ Fitting(i, "TOUCH", "TOUCH")
  BY DEF Fitting, Quitting, Quiets
<1>1. Planned(i, cmd_get(i, c))
  BY <1>0, KeyPlanned DEF cmd_get, yrmcds_get
<1>2. Planned(i, cmd_getk(i, c))
  BY <1>0, KeyPlanned DEF cmd_getk, yrmcds_getk
<1>3. Planned(i, cmd_gat(i, c))
  BY <1>0, KeyPlanned DEF cmd_gat, yrmcds_get_touch
<1>4. Planned(i, cmd_gatk(i, c))
  BY <1>0, KeyPlanned DEF cmd_gatk, yrmcds_getk_touch
<1>5. /\ "LAG" \in Locking /\ "LAGQ" \in Locking /\ "LAGK" \in Locking /\ "LAGKQ" \in Locking
      /\ "LOCK" \in Locking /\ "LOCKQ" \in Locking
  BY DEF Locking
<1>6. Planned(i, cmd_lag(i, c))
  BY <1>0, <1>5, KeyPlanned DEF cmd_lag, yrmcds_lock_get
<1>7. Planned(i, cmd_lagk(i, c))
  BY <1>0, <1>5, KeyPlanned DEF cmd_lagk, yrmcds_lock_getk
<1>8. Planned(i, cmd_delete(i, c))
  BY <1>0, KeyPlanned DEF cmd_delete, yrmcds_remove
<1>9. Planned(i, cmd_lock(i, c))
  BY <1>0, <1>5, KeyPlanned DEF cmd_lock, yrmcds_lock
<1>10. Planned(i, cmd_touch(i, c))
  <2>1. yrmcds_touch(i.args[1], Uint32(i.args[2]), i.quiet)
          = OnKey(Either(i.quiet, "TOUCH", "TOUCH"), i.args[1], <<Uint32(i.args[2])>>)
    BY DEF yrmcds_touch, Either
  <2>2. QED BY <1>0, <2>1, KeyPlanned DEF cmd_touch
<1>11. QED BY <1>1, <1>2, <1>3, <1>4, <1>6, <1>7, <1>8, <1>9, <1>10

(* those of the commands that store or unlock,                              *)
LEMMA WritesPlanned ==
  ASSUME NEW i, NEW c, i.quiet \in BOOLEAN
  PROVE  /\ i.cmd \notin {"rau", "unlock"} =>
              /\ Planned(i, cmd_set(i, c)) /\ Planned(i, cmd_replace(i, c))
              /\ Planned(i, cmd_add(i, c))
              /\ Planned(i, cmd_append(i, c)) /\ Planned(i, cmd_prepend(i, c))
         /\ Planned(i, cmd_rau(i, c)) /\ Planned(i, cmd_unlock(i, c))
<1>1. /\ i.cmd \notin {"rau", "unlock"} =>
           /\ Fitting(i, "SET", "SETQ") /\ Fitting(i, "REPLACE", "REPLACEQ")
           /\ Fitting(i, "ADD", "ADDQ") /\ Fitting(i, "APPEND", "APPENDQ")
           /\ Fitting(i, "PREPEND", "PREPENDQ")
      /\ Fitting(i, "RAU", "RAUQ") /\ Fitting(i, "UNLOCK", "UNLOCKQ")
  BY DEF Fitting, Quitting, Quiets, Unlocking
<1>2. i.cmd \notin {"rau", "unlock"} => Planned(i, cmd_set(i, c))
  BY <1>1, DataPlanned DEF cmd_set, yrmcds_set
<1>3. i.cmd \notin {"rau", "unlock"} => Planned(i, cmd_replace(i, c))
  BY <1>1, DataPlanned DEF cmd_replace, yrmcds_replace
<1>4. i.cmd \notin {"rau", "unlock"} => Planned(i, cmd_add(i, c))
  BY <1>1, DataPlanned DEF cmd_add, yrmcds_add
<1>5. ASSUME i.cmd \notin {"rau", "unlock"} PROVE Planned(i, cmd_append(i, c))
  <2>1. PICK r : r = yrmcds_append(i.args[1], i.args[2], i.quiet)
    OBVIOUS
  <2>2. Carries(i, r, "APPEND", "APPENDQ")
    BY <2>1 DEF Carries, yrmcds_append, Either, Request, BadArgument
  <2>3. Planned(i, Count(i, {2}, read_data(i, Awaits(i, r, "nothing"))))
    BY <1>1, <1>5, <2>2, AwaitsPlanned
  <2>4. QED BY <2>1, <2>3 DEF cmd_append
<1>6. ASSUME i.cmd \notin {"rau", "unlock"} PROVE Planned(i, cmd_prepend(i, c))
  <2>1. PICK r : r = yrmcds_prepend(i.args[1], i.args[2], i.quiet)
    OBVIOUS
  <2>2. Carries(i, r, "PREPEND", "PREPENDQ")
    BY <2>1 DEF Carries, yrmcds_prepend, Either, Request, BadArgument
  <2>3. Planned(i, Count(i, {2}, read_data(i, Awaits(i, r, "nothing"))))
    BY <1>1, <1>6, <2>2, AwaitsPlanned
  <2>4. QED BY <2>1, <2>3 DEF cmd_prepend
<1>7. Planned(i, cmd_rau(i, c))
  BY <1>1, DataPlanned DEF cmd_rau, yrmcds_replace_unlock
<1>8. Planned(i, cmd_unlock(i, c))
  BY <1>1, KeyPlanned DEF cmd_unlock, yrmcds_unlock
<1>9. QED BY <1>2, <1>3, <1>4, <1>5, <1>6, <1>7, <1>8

(* those of the commands that count,                                        *)
LEMMA CountersPlanned ==
  ASSUME NEW i, NEW c, i.quiet \in BOOLEAN, i.cmd \notin {"rau", "unlock"}
  PROVE  Planned(i, cmd_incr(i, c)) /\ Planned(i, cmd_decr(i, c))
<1>1. Fitting(i, "INCREMENT", "INCREMENTQ") /\ Fitting(i, "DECREMENT", "DECREMENTQ")
  BY DEF Fitting, Quitting, Quiets
<1>2. Planned(i, cmd_incr(i, c))
  <2>1. PICK r : r = IF Len(i.args) = 2 THEN yrmcds_incr(i.args[1], Uint64(i.args[2]), i.quiet)
                     ELSE yrmcds_incr2(i.args[1], Uint64(i.args[2]), Uint64(i.args[3]),
                                       Uint32(Arg(i, 4, 0)), i.quiet)
    OBVIOUS
  <2>2. Carries(i, r, "INCREMENT", "INCREMENTQ")
    BY <2>1 DEF Carries, yrmcds_incr, yrmcds_incr2, OnKey, Either, Request, BadArgument
  <2>3. Planned(i, Count(i, 2..4, Awaits(i, r, "value")))
    BY <1>1, <2>2, AwaitsPlanned
  <2>4. QED BY <2>1, <2>3 DEF cmd_incr
<1>3. Planned(i, cmd_decr(i, c))
  <2>1. PICK r : r = IF Len(i.args) = 2 THEN yrmcds_decr(i.args[1], Uint64(i.args[2]), i.quiet)
                     ELSE yrmcds_decr2(i.args[1], Uint64(i.args[2]), Uint64(i.args[3]),
                                       Uint32(Arg(i, 4, 0)), i.quiet)
    OBVIOUS
  <2>2. Carries(i, r, "DECREMENT", "DECREMENTQ")
    BY <2>1 DEF Carries, yrmcds_decr, yrmcds_decr2, OnKey, Either, Request, BadArgument
  <2>3. Planned(i, Count(i, 2..4, Awaits(i, r, "value")))
    BY <1>1, <2>2, AwaitsPlanned
  <2>4. QED BY <2>1, <2>3 DEF cmd_decr
<1>4. QED BY <1>2, <1>3

(* and all others,                                                          *)
LEMMA RestPlanned ==
  ASSUME NEW i, NEW c, i.quiet \in BOOLEAN, i.cmd \notin {"rau", "unlock"}
  PROVE  /\ Planned(i, cmd_noop(i, c)) /\ Planned(i, cmd_version(i, c))
         /\ Planned(i, cmd_quit(i, c)) /\ Planned(i, cmd_keys(i, c))
         /\ Planned(i, cmd_stat(i, c)) /\ Planned(i, cmd_flush(i, c))
         /\ Planned(i, cmd_unlockall(i, c))
<1>1. ASSUME NEW r, NEW until \in {"first", "empty"}, NEW prints,
             r.out = "send" => r.cmd \notin Gets \cap Quiets
      PROVE  Planned(i, Sends(r, FALSE, until, prints, FALSE))
  BY <1>1, SendsPlanned DEF Sound
<1>2. Planned(i, cmd_noop(i, c))
  <2>1. yrmcds_noop.out = "send" => yrmcds_noop.cmd \notin Gets \cap Quiets
    BY DEF yrmcds_noop, Request, BadArgument, Gets
  <2>2. QED BY <1>1, <2>1 DEF cmd_noop
<1>3. Planned(i, cmd_version(i, c))
  <2>1. yrmcds_version.out = "send" => yrmcds_version.cmd \notin Gets \cap Quiets
    BY DEF yrmcds_version, Request, BadArgument, Gets
  <2>2. QED BY <1>1, <2>1 DEF cmd_version
<1>4. Planned(i, cmd_keys(i, c))
  <2>1. PICK r : r = yrmcds_keys(Len(i.args) = 1, IF Len(i.args) = 1 THEN i.args[1] ELSE <<>>)
    OBVIOUS
  <2>2. r.out = "send" => r.cmd \notin Gets \cap Quiets
    BY <2>1 DEF yrmcds_keys, Request, BadArgument, Gets
  <2>3. QED BY <1>1, <2>1, <2>2 DEF cmd_keys
<1>5. Planned(i, cmd_stat(i, c))
  <2>1. ASSUME NEW key PROVE Planned(i, Sends(Request("STAT", 0, key, <<>>, <<>>), FALSE, "empty", "keys", FALSE))
    <3>1. PICK r : r = Request("STAT", 0, key, <<>>, <<>>)
      OBVIOUS
    <3>2. r.out = "send" => r.cmd \notin Gets \cap Quiets
      BY <3>1 DEF Request, BadArgument, Gets
    <3>3. QED BY <1>1, <3>1, <3>2
  <2>2. QED BY <2>1, StopPlanned DEF cmd_stat, yrmcds_stat_general, yrmcds_stat_settings,
               yrmcds_stat_items, yrmcds_stat_sizes
<1>6. Planned(i, cmd_quit(i, c))
  <2>1. PICK r, until : r = yrmcds_quit(i.quiet) /\ until = (IF i.quiet THEN "none" ELSE "first")
    OBVIOUS
  <2>2. r.out = "send" => r.cmd \in Quitting
    BY <2>1 DEF yrmcds_quit, Request, BadArgument, Either, Quitting
  <2>3. Quitting \cap Gets = {}
    BY DEF Quitting, Gets
  <2>4. Planned(i, Sends(r, FALSE, until, "nothing", FALSE))
    BY <2>1, <2>2, <2>3, SendsPlanned DEF Sound
  <2>5. QED BY <2>1, <2>4 DEF cmd_quit
<1>7. Fitting(i, "FLUSH", "FLUSHQ") /\ Fitting(i, "UNLOCKALL", "UNLOCKALLQ")
  BY DEF Fitting, Quitting, Quiets
<1>8. Planned(i, cmd_flush(i, c))
  <2>1. PICK r : r = yrmcds_flush(IF Len(i.args) = 1 THEN Uint32(i.args[1]) ELSE 0, i.quiet)
    OBVIOUS
  <2>2. Carries(i, r, "FLUSH", "FLUSHQ")
    BY <2>1 DEF Carries, yrmcds_flush, Either, Request, BadArgument
  <2>3. QED BY <1>7, <2>1, <2>2, AwaitsPlanned DEF cmd_flush
<1>9. Planned(i, cmd_unlockall(i, c))
  <2>1. PICK r : r = yrmcds_unlockall(i.quiet)
    OBVIOUS
  <2>2. Carries(i, r, "UNLOCKALL", "UNLOCKALLQ")
    BY <2>1 DEF Carries, yrmcds_unlockall, Either, Request, BadArgument
  <2>3. QED BY <1>7, <2>1, <2>2, AwaitsPlanned DEF cmd_unlockall
<1>10. QED BY <1>2, <1>3, <1>4, <1>5, <1>6, <1>8, <1>9

(* so the plan of every command is sound.                                   *)
LEMMA CommandPlanned ==
  ASSUME NEW i, NEW c, i.quiet \in BOOLEAN
  PROVE  Planned(i, Command(i, c))
<1>1. CASE i.cmd \in {"rau", "unlock"}
  BY <1>1, WritesPlanned DEF Command
<1>2. CASE i.cmd \notin {"rau", "unlock"}
  <2>1. CASE i.cmd \in {"get", "getk", "gat", "gatk", "lag", "lagk", "touch", "delete", "lock"}
    BY <1>2, <2>1, ReadsPlanned DEF Command
  <2>2. CASE i.cmd \in {"set", "replace", "add", "append", "prepend"}
    BY <1>2, <2>2, WritesPlanned DEF Command
  <2>3. CASE i.cmd \in {"incr", "decr"}
    BY <1>2, <2>3, CountersPlanned DEF Command
  <2>4. CASE i.cmd \in {"noop", "version", "quit", "keys", "stat", "flush", "unlockall"}
    BY <1>2, <2>4, RestPlanned DEF Command
  <2>5. CASE i.cmd \notin {"get", "getk", "gat", "gatk", "lag", "lagk", "touch", "delete", "lock",
                           "set", "replace", "add", "append", "prepend", "incr", "decr", "noop",
                           "version", "quit", "keys", "stat", "flush", "unlockall"}
    BY <1>2, <2>5, StopPlanned DEF Command
  <2>6. QED BY <2>1, <2>2, <2>3, <2>4, <2>5
<1>3. QED BY <1>1, <1>2

-----------------------------------------------------------------------------
(* The inductive invariant: the process of a user, the requests and the     *)
(* responses of its connection, and its locks.                              *)

Active == {"quiet", "receiving", "prompt"}

IsProc(p) ==
  p = [pc |-> p.pc, n |-> p.n, plan |-> p.plan, serial |-> p.serial, code |-> p.code]

Domains ==
  /\ ConnectInv
  /\ DOMAIN proc = Users /\ DOMAIN wire = Users /\ DOMAIN back = Users
  /\ DOMAIN alive = Users /\ DOMAIN outcome = Users

Invocations(u) ==
  /\ Len(session[u]) \in Nat
  /\ \A n \in 1..Len(session[u]) : session[u][n].quiet \in BOOLEAN

Typed(u) ==
  /\ Invocations(u)
  /\ IsProc(proc[u])
  /\ proc[u].pc \in {"idle", "connecting", "quiet", "receiving", "prompt", "exited"}
  /\ proc[u].n \in 0..Len(session[u]) /\ proc[u].code \in 0..3
  /\ proc[u].pc # "idle" => proc[u].n >= 1
  /\ proc[u].serial \in 0..2
  /\ alive[u] \in BOOLEAN
  /\ proc[u].pc \in Active => link[u].stage = "open"
  /\ proc[u].pc \in {"idle", "exited"} => link[u].stage # "open"

(* Before its request is out, a process has nothing on its connection.      *)
Going(u) ==
  /\ proc[u].plan.exit = -1 => Sound(Now(u), proc[u].plan)
  /\ proc[u].pc \in Active => proc[u].plan.exit = -1
  /\ proc[u].pc = "idle" => proc[u].plan.exit # -1 /\ proc[u].serial = 0
  /\ proc[u].pc = "connecting" =>
       /\ proc[u].plan.exit # -1 /\ proc[u].serial = 0 /\ proc[u].code = 0
       /\ outcome[u] = "none"
       /\ link[u].stage # "open" => ~alive[u]
  /\ proc[u].pc = "quiet" => proc[u].plan.noop /\ proc[u].serial = 1
  /\ proc[u].pc = "prompt" => proc[u].plan.prompts

(* Sequences of whatever elements.                                         *)
IsSeq(s) == \E S : s \in Seq(S)

(* Its request, as long as the server has not handled it, and a noop.       *)
First(u, q) ==
  /\ q.serial = 1 /\ proc[u].plan.exit = -1 /\ outcome[u] = "none"
  /\ q.cmd = proc[u].plan.request.cmd /\ q.key = proc[u].plan.request.key

Second(u, q) ==
  q.serial = 2 /\ q.cmd = "NOOP" /\ proc[u].plan.noop /\ proc[u].serial = 2

Requests(u) ==
  /\ \/ wire[u] = <<>>
     \/ \E q : wire[u] = <<q>> /\ (First(u, q) \/ (Second(u, q) /\ outcome[u] # "none"))
     \/ \E q, r : wire[u] = <<q, r>> /\ First(u, q) /\ Second(u, r)
  /\ ~alive[u] => wire[u] = <<>>
  /\ proc[u].pc = "quiet" /\ alive[u] /\ wire[u] = <<>> => outcome[u] # "none"

(* The server did not do what was asked, and says so.                       *)
Refused(u) ==
  /\ outcome[u] \notin {"none", "OK"}
  /\ ~(proc[u].plan.request.cmd \in Gets \cap Quiets /\ outcome[u] = "NOTFOUND")

Done(u) == outcome[u] # "none" /\ ~Refused(u)

Responses(u) ==
  /\ IsSeq(back[u])
  /\ \A i \in 1..Len(back[u]) : back[u][i].status \in {outcome[u], "OK"}
  /\ back[u] # <<>> => outcome[u] # "none" /\ proc[u].pc \in Active
  /\ Refused(u) /\ proc[u].pc \in {"quiet", "receiving"} =>
       back[u] # <<>> /\ Head(back[u]).status # "OK"
  /\ proc[u].pc = "prompt" => Done(u)
  /\ Over(u, 0) /\ proc[u].plan.until # "none" => Done(u)
  /\ Over(u, 3) => outcome[u] \notin {"none", "OK"}

Locks(u) ==
  /\ \A k : Holds(u, k) => alive[u] /\ outcome[u] # "none"
  /\ proc[u].plan.exit = -1 /\ outcome[u] = "OK" =>
       /\ proc[u].plan.request.cmd \notin Unlocking
       /\ proc[u].plan.request.cmd \in Locking /\ alive[u] =>
            Holds(u, proc[u].plan.request.key)

UserInv(u) == Typed(u) /\ Going(u) /\ Requests(u) /\ Responses(u) /\ Locks(u)

YcInv ==
  /\ Domains
  /\ \A k \in DOMAIN holder : holder[k] \in Users
  /\ \A u \in Users : UserInv(u)

-----------------------------------------------------------------------------
(* The steps of one user leave the others alone.                            *)

Elsewhere(u) ==
  \A d \in Users \ {u} :
    /\ link'[d] = link[d] /\ proc'[d] = proc[d] /\ wire'[d] = wire[d]
    /\ back'[d] = back[d] /\ alive'[d] = alive[d] /\ outcome'[d] = outcome[d]

LocksElsewhere(u) ==
  /\ \A k \in DOMAIN holder' : holder'[k] \in Users
  /\ \A d \in Users \ {u} : \A k : Holds(d, k)' <=> Holds(d, k)

(* A step of one user disturbs no other.                                    *)
LEMMA UserStep ==
  ASSUME YcInv, Domains', UNCHANGED session, NEW u \in Users,
         Elsewhere(u), LocksElsewhere(u), UserInv(u)'
  PROVE  YcInv'
<1>1. ASSUME NEW d \in Users, d # u PROVE UserInv(d)'
  <2>1. UserInv(d)
    BY DEF YcInv
  <2>2. /\ link'[d] = link[d] /\ proc'[d] = proc[d] /\ wire'[d] = wire[d]
        /\ back'[d] = back[d] /\ alive'[d] = alive[d] /\ outcome'[d] = outcome[d]
        /\ \A k : Holds(d, k)' <=> Holds(d, k)
    BY <1>1 DEF Elsewhere, LocksElsewhere
  <2>3. Typed(d)' /\ Going(d)'
    BY <2>1, <2>2, SMTT(30) DEF UserInv, Typed, Invocations, IsProc, Going, Sound, Now
  <2>4. Requests(d)'
    BY <2>1, <2>2 DEF UserInv, Requests, First, Second
  <2>5. Responses(d)'
    BY <2>1, <2>2 DEF UserInv, Responses, Refused, Done, Over
  <2>6. Locks(d)'
    BY <2>1, <2>2 DEF UserInv, Locks
  <2>7. QED BY <2>3, <2>4, <2>5, <2>6 DEF UserInv
<1>2. QED BY <1>1 DEF YcInv, LocksElsewhere

(* Every step of a connect or a close keeps what its stage holds.           *)
LEMMA ConnectKeeps == ConnectInv /\ [ConnectNext]_connectVars => ConnectInv'
<1>1. ConnectInv /\ UNCHANGED connectVars => ConnectInv'
  BY DEF ConnectInv, ConnectTypeOK, Holding, connectVars
<1>2. QED BY <1>1, StepKeeps DEF ConnectNext

(* The empty sequence.                                                      *)
LEMMA EmptyIsSeq == IsSeq(<<>>) /\ Len(<<>>) = 0
BY EmptySeq DEF IsSeq

(* No user has begun at first.                                              *)
LEMMA YcInitInv == YcInit => YcInv
<1> SUFFICES ASSUME YcInit PROVE YcInv
  OBVIOUS
<1>1. ConnectInv
  BY ConnectInitInv DEF YcInit
<1>2. Domains
  BY <1>1 DEF YcInit, Domains
<1>3. ASSUME NEW u \in Users PROVE UserInv(u)
  <2>1. /\ proc[u] = [pc |-> "idle", n |-> 0, plan |-> NoPlan, serial |-> 0, code |-> 0]
        /\ wire[u] = <<>> /\ back[u] = <<>> /\ alive[u] = FALSE /\ outcome[u] = "none"
        /\ link[u].stage = "closed" /\ DOMAIN holder = {} /\ session \in Sessions
    BY DEF YcInit, ConnectInit, NoLink
  <2>2. proc[u].plan.exit # -1
    BY <2>1 DEF NoPlan, Stop
  <2>3. Typed(u)
    <3>1. Invocations(u) /\ Len(session[u]) \in Nat
      BY <2>1, SessionsAssumption DEF Invocations, IsInvocation
    <3>2. /\ proc[u].pc = "idle" /\ proc[u].n = 0 /\ proc[u].serial = 0 /\ proc[u].code = 0
          /\ IsProc(proc[u])
      BY <2>1 DEF IsProc
    <3>3. proc[u].n \in 0..Len(session[u]) /\ proc[u].code \in 0..3
      BY <3>1, <3>2
    <3>4. proc[u].serial \in 0..2
      BY <3>1, <3>2
    <3>5. alive[u] \in BOOLEAN
      BY <2>1
    <3>6. /\ proc[u].pc \in Active => link[u].stage = "open"
          /\ link[u].stage # "open"
      BY <2>1, <3>2 DEF Active
    <3>7. QED BY <3>1, <3>2, <3>3, <3>4, <3>5, <3>6 DEF Typed
  <2>4. Going(u)
    BY <2>1, <2>2 DEF Going, Active
  <2>5. Requests(u)
    BY <2>1 DEF Requests
  <2>6. Responses(u)
    BY <2>1, <2>2, EmptyIsSeq DEF Responses, Refused, Over
  <2>7. Locks(u)
    BY <2>1, <2>2 DEF Locks, Holds
  <2>8. QED BY <2>3, <2>4, <2>5, <2>6, <2>7 DEF UserInv
<1>4. \A k \in DOMAIN holder : holder[k] \in Users
  BY DEF YcInit
<1>5. QED BY <1>2, <1>3, <1>4 DEF YcInv

(* What the options of an invocation come to: go on, or stop with 0 or 1.   *)
LEMMA OptionsIs ==
  ASSUME NEW i
  PROVE  Options(i) \in {-1, 0, 1}
BY DEF Options

(* A command begins, on a connection the server has forgotten.              *)
LEMMA StartKeeps ==
  ASSUME YcInv, Domains', NEW u \in Users, Start(u)
  PROVE  YcInv'
<1> USE DEF YcInv
<1>1. UserInv(u) /\ Domains
  OBVIOUS
<1>2. PICK code : code = Options(session[u][proc[u].n + 1])
  OBVIOUS
<1>3. code \in {-1, 0, 1}
  BY <1>2, OptionsIs
<1>4. /\ proc[u].pc \in {"idle", "exited"} /\ proc[u].n < Len(session[u]) /\ ~alive[u]
      /\ proc' = [proc EXCEPT ![u] = [pc |-> IF code = -1 THEN "connecting" ELSE "exited",
                                      n |-> proc[u].n + 1, plan |-> NoPlan, serial |-> 0,
                                      code |-> IF code = -1 THEN 0 ELSE code]]
      /\ IF code = -1 THEN StartConnect(u) \/ MutexFails(u) ELSE UNCHANGED link
      /\ outcome' = [outcome EXCEPT ![u] = "none"]
      /\ UNCHANGED <<session, wire, back, alive, holder>>
  BY <1>2 DEF Start
<1>5. /\ proc'[u] = [pc |-> IF code = -1 THEN "connecting" ELSE "exited",
                     n |-> proc[u].n + 1, plan |-> NoPlan, serial |-> 0,
                     code |-> IF code = -1 THEN 0 ELSE code]
      /\ outcome'[u] = "none" /\ alive'[u] = FALSE
      /\ \A d \in Users \ {u} : proc'[d] = proc[d] /\ outcome'[d] = outcome[d]
  BY <1>1, <1>4 DEF Domains, UserInv, Typed
<1>6. /\ \A d \in Users \ {u} : link'[d] = link[d]
      /\ link'[u].stage # "open"
  <2>1. CASE code = -1
    <3>1. DOMAIN link = Users
      BY <1>1 DEF Domains, ConnectInv, ConnectTypeOK
    <3>2. CASE StartConnect(u)
      BY <3>1, <3>2 DEF StartConnect, NoLink
    <3>3. CASE MutexFails(u)
      BY <3>1, <3>3 DEF MutexFails, NoLink
    <3>4. QED BY <1>4, <2>1, <3>2, <3>3
  <2>2. CASE code # -1
    BY <1>1, <1>4, <2>2 DEF UserInv, Typed
  <2>3. QED BY <2>1, <2>2
<1>7. Elsewhere(u) /\ LocksElsewhere(u)
  BY <1>4, <1>5, <1>6 DEF Elsewhere, LocksElsewhere, Holds
<1>8. wire'[u] = <<>> /\ back'[u] = <<>>
  BY <1>1, <1>4 DEF UserInv, Requests, Responses, Active
<1>9. proc'[u].plan.exit # -1
  BY <1>5 DEF NoPlan, Stop
<1>10. Typed(u)'
  <2>1. Len(session[u]) \in Nat /\ proc[u].n \in 0..Len(session[u]) /\ Invocations(u)'
    BY <1>1, <1>4 DEF UserInv, Typed, Invocations
  <2>2. proc[u].n + 1 \in 0..Len(session[u]) /\ proc[u].n + 1 >= 1
    BY <1>4, <2>1
  <2>3. IsProc(proc[u])'
    BY <1>5 DEF IsProc
  <2>4. /\ proc'[u].pc \in {"connecting", "exited"} /\ proc'[u].n = proc[u].n + 1
        /\ proc'[u].serial = 0 /\ proc'[u].code \in 0..3
    BY <1>3, <1>5
  <2>5. proc'[u].n \in 0..Len(session'[u]) /\ proc'[u].n >= 1
    BY <1>4, <2>2, <2>4
  <2>6. proc'[u].serial \in 0..2 /\ alive'[u] \in BOOLEAN /\ proc'[u].pc \notin Active
    <3>1. alive'[u] \in BOOLEAN
      BY <1>5
    <3>2. proc'[u].serial \in 0..2 /\ proc'[u].pc \notin Active
      BY <2>4 DEF Active
    <3>3. QED BY <3>1, <3>2
  <2>7. proc'[u].pc \in {"idle", "connecting", "quiet", "receiving", "prompt", "exited"}
    BY <2>4
  <2>8. QED BY <1>6, <2>1, <2>3, <2>4, <2>5, <2>6, <2>7 DEF Typed
<1>11. Going(u)'
  BY <1>4, <1>5, <1>9 DEF Going, Active
<1>12. Requests(u)'
  BY <1>5, <1>8 DEF Requests
<1>13. Responses(u)'
  BY <1>5, <1>8, <1>9, EmptyIsSeq DEF Responses, Refused, Over
<1>14. Locks(u)'
  BY <1>1, <1>4, <1>5, <1>9 DEF Locks, UserInv, Holds
<1>15. QED BY <1>4, <1>7, <1>10, <1>11, <1>12, <1>13, <1>14, UserStep DEF UserInv

(* A process that goes on with its command.                                 *)
LEMMA TypedStep ==
  ASSUME NEW u \in Users, Typed(u), UNCHANGED session,
         proc'[u].n = proc[u].n, IsProc(proc[u])', proc[u].pc # "idle",
         proc'[u].pc \in {"connecting", "quiet", "receiving", "prompt", "exited"},
         proc'[u].code \in 0..3, proc'[u].serial \in 0..2, alive'[u] \in BOOLEAN,
         proc'[u].pc \in Active => link'[u].stage = "open",
         proc'[u].pc = "exited" => link'[u].stage # "open"
  PROVE  Typed(u)' /\ Now(u)' = Now(u)
<1>1. Invocations(u)' /\ proc'[u].n \in 0..Len(session'[u]) /\ proc'[u].n >= 1
  BY DEF Typed, Invocations
<1>2. Now(u)' = Now(u)
  BY DEF Now
<1>3. proc'[u].pc \in {"idle", "connecting", "quiet", "receiving", "prompt", "exited"}
      /\ proc'[u].pc # "idle"
  OBVIOUS
<1>4. QED BY <1>1, <1>2, <1>3 DEF Typed

(* yc connecting takes a step of Connect.                                   *)
LEMMA ConnectingKeeps ==
  ASSUME YcInv, Domains', NEW u \in Users, Connecting(u)
  PROVE  YcInv'
<1> USE DEF YcInv
<1>1. UserInv(u) /\ Domains
  OBVIOUS
<1>2. /\ proc[u].pc = "connecting" /\ ConnectStep(u)
      /\ alive' = [alive EXCEPT ![u] = link'[u].stage = "open"]
      /\ UNCHANGED <<session, proc, wire, back, holder, outcome>>
  BY DEF Connecting
<1>3. link[u].stage # "open" /\ \A d \in Users \ {u} : link'[d] = link[d]
  <2> USE <1>1 DEF Domains, ConnectInv, ConnectTypeOK
  <2>1. CASE Resolve(u) BY <2>1 DEF Resolve
  <2>2. CASE ResolveAgain(u) BY <2>2 DEF ResolveAgain
  <2>3. CASE ResolveFails(u) BY <2>3 DEF ResolveFails, Fails
  <2>4. CASE OpenSocket(u) BY <2>4 DEF OpenSocket, Fails
  <2>5. CASE ConnectSocket(u) BY <2>5 DEF ConnectSocket, Fails
  <2>6. CASE PollSocket(u) BY <2>6 DEF PollSocket, Fails, Goes
  <2>7. CASE SetOptions(u) BY <2>7 DEF SetOptions, Fails, Goes
  <2>8. CASE Allocate(u) BY <2>8 DEF Allocate
  <2>9. QED BY <1>2, <2>1, <2>2, <2>3, <2>4, <2>5, <2>6, <2>7, <2>8 DEF ConnectStep
<1>4. /\ ~alive[u] /\ outcome[u] = "none"
      /\ proc[u].plan.exit # -1 /\ proc[u].serial = 0 /\ proc[u].code = 0
  BY <1>1, <1>2, <1>3 DEF UserInv, Going
<1>5. /\ alive'[u] = (link'[u].stage = "open")
      /\ \A d \in Users \ {u} : alive'[d] = alive[d]
  BY <1>1, <1>2 DEF Domains
<1>6. Elsewhere(u) /\ LocksElsewhere(u)
  BY <1>2, <1>3, <1>5 DEF Elsewhere, LocksElsewhere, Holds
<1>7. Typed(u)'
  <2>1. Typed(u) /\ IsProc(proc[u])' /\ proc'[u] = proc[u] /\ alive'[u] \in BOOLEAN
    BY <1>1, <1>2, <1>5 DEF UserInv, Typed, IsProc
  <2>2. proc'[u].code \in 0..3 /\ proc'[u].serial \in 0..2
    BY <2>1 DEF Typed
  <2>3. QED BY <1>2, <2>1, <2>2, TypedStep DEF Active
<1>8. Going(u)'
  BY <1>2, <1>4, <1>5 DEF Going, Active
<1>9. wire[u] = <<>> /\ back[u] = <<>>
  BY <1>1, <1>2, <1>4 DEF UserInv, Requests, Responses, Active
<1>10. Requests(u)'
  BY <1>2, <1>9 DEF Requests
<1>11. Responses(u)'
  BY <1>2, <1>4, <1>9, EmptyIsSeq DEF Responses, Refused, Over
<1>12. Locks(u)'
  BY <1>1, <1>2, <1>4 DEF UserInv, Locks, Holds
<1>13. QED BY <1>1, <1>2, <1>6, <1>7, <1>8, <1>10, <1>11, <1>12, UserStep DEF UserInv

(* What is left of a process that ends: an exit code, and its plan.         *)
LEMMA ExitsKeeps ==
  ASSUME YcInv, Domains', NEW u \in Users,
         proc[u].pc \notin {"idle", "exited"}, NEW code \in 0..3,
         proc'[u] = [proc[u] EXCEPT !.pc = "exited", !.code = code],
         \A d \in Users \ {u} : proc'[d] = proc[d],
         link'[u].stage # "open", \A d \in Users \ {u} : link'[d] = link[d],
         back'[u] = <<>>, \A d \in Users \ {u} : back'[d] = back[d],
         UNCHANGED <<session, wire, alive, holder, outcome>>,
         proc[u].plan.exit = -1 /\ code = 0 => Done(u),
         proc[u].plan.exit = -1 /\ code = 3 => outcome[u] \notin {"none", "OK"}
  PROVE  YcInv'
<1> USE DEF YcInv
<1>1. UserInv(u) /\ Domains
  OBVIOUS
<1>2. IsProc(proc[u])
  BY <1>1 DEF UserInv, Typed
<1>3. /\ proc'[u].pc = "exited" /\ proc'[u].code = code /\ proc'[u].n = proc[u].n
      /\ proc'[u].plan = proc[u].plan /\ proc'[u].serial = proc[u].serial
      /\ IsProc(proc[u])'
  BY <1>2 DEF IsProc
<1>4. Elsewhere(u) /\ LocksElsewhere(u)
  BY DEF Elsewhere, LocksElsewhere, Holds
<1>5. Typed(u)' /\ Now(u)' = Now(u)
  <2>1. Typed(u) /\ proc'[u].serial \in 0..2 /\ alive'[u] \in BOOLEAN /\ proc[u].pc # "idle"
    BY <1>1, <1>3 DEF UserInv, Typed
  <2>2. QED BY <1>3, <2>1, TypedStep DEF Active
<1>6. Going(u)'
  BY <1>1, <1>3, <1>5, SMTT(30) DEF UserInv, Going, Sound, Active
<1>7. Requests(u)'
  BY <1>1, <1>3 DEF UserInv, Requests, First, Second
<1>8. Responses(u)'
  BY <1>1, <1>3, EmptyIsSeq DEF Responses, Refused, Done, Over
<1>9. Locks(u)'
  BY <1>1, <1>3, SMTT(30) DEF UserInv, Locks, Holds
<1>10. QED BY <1>1, <1>4, <1>5, <1>6, <1>7, <1>8, <1>9, UserStep DEF UserInv

(* An exit whose code is what came of the request.                          *)
LEMMA ExitKeeps ==
  ASSUME YcInv, Domains', NEW u \in Users, NEW code \in 0..3, Exits(u, code),
         proc[u].pc \notin {"idle", "exited"},
         UNCHANGED <<session, wire, alive, holder, outcome>>,
         proc[u].plan.exit = -1 /\ code = 0 => Done(u),
         proc[u].plan.exit = -1 /\ code = 3 => outcome[u] \notin {"none", "OK"}
  PROVE  YcInv'
<1>1. DOMAIN proc = Users /\ DOMAIN back = Users /\ DOMAIN link = Users /\ IsProc(proc[u])
  BY DEF YcInv, Domains, ConnectInv, ConnectTypeOK, UserInv, Typed
<1>2. /\ link'[u].stage # "open" /\ \A d \in Users \ {u} : link'[d] = link[d]
      /\ back'[u] = <<>> /\ \A d \in Users \ {u} : back'[d] = back[d]
  BY <1>1 DEF Exits, CloseLink, NoLink
<1>3. proc'[u] = [proc[u] EXCEPT !.pc = "exited", !.code = code]
      /\ \A d \in Users \ {u} : proc'[d] = proc[d]
  BY <1>1 DEF Exits
<1>4. QED BY <1>2, <1>3, ExitsKeeps

(* Every way out of a process but an exit code of the command.               *)
LEMMA EndsKeep ==
  ASSUME YcInv, Domains', NEW u \in Users,
         ConnectFailed(u) \/ SendFails(u) \/ RecvFails(u) \/ Enter(u)
  PROVE  YcInv'
<1>1. UserInv(u) /\ Domains /\ DOMAIN proc = Users /\ DOMAIN back = Users
  BY SMTT(30) DEF YcInv, Domains
<1>2. CASE ConnectFailed(u)
  <2>1. /\ proc[u].pc = "connecting" /\ link[u].stage = "failed"
        /\ proc' = [proc EXCEPT ![u].pc = "exited", ![u].code = 2]
        /\ UNCHANGED <<link, session, wire, back, alive, holder, outcome>>
    BY <1>2 DEF ConnectFailed
  <2>2. back[u] = <<>>
    BY <1>1, <2>1 DEF UserInv, Responses, Active
  <2>3. proc'[u] = [proc[u] EXCEPT !.pc = "exited", !.code = 2]
        /\ \A d \in Users \ {u} : proc'[d] = proc[d]
    BY <1>1, <2>1
  <2>4. /\ proc[u].pc \notin {"idle", "exited"} /\ 2 \in 0..3 /\ 2 # 0 /\ 2 # 3
        /\ link'[u].stage # "open" /\ \A d \in Users \ {u} : link'[d] = link[d]
        /\ back'[u] = <<>> /\ \A d \in Users \ {u} : back'[d] = back[d]
        /\ UNCHANGED <<session, wire, alive, holder, outcome>>
    BY <2>1, <2>2
  <2>5. QED BY <2>3, <2>4, ExitsKeeps
<1>3. 2 \in 0..3 /\ 0 \in 0..3 /\ 2 # 0 /\ 2 # 3 /\ 0 # 3
  OBVIOUS
<1>4. CASE SendFails(u)
  BY <1>3, <1>4, ExitKeeps DEF SendFails
<1>5. CASE RecvFails(u)
  BY <1>3, <1>5, ExitKeeps DEF RecvFails
<1>6. CASE Enter(u)
  <2>1. Done(u)
    BY <1>1, <1>6 DEF Enter, UserInv, Responses
  <2>2. QED BY <1>3, <1>6, <2>1, ExitKeeps DEF Enter
<1>7. QED BY <1>2, <1>4, <1>5, <1>6

(* Where yc goes on when its request is sent.                               *)
LEMMA AfterSendIs ==
  ASSUME NEW i, NEW p, Sound(i, p)
  PROVE  /\ p.until # "none" => AfterSend(p) = "receiving"
         /\ p.until = "none" => AfterSend(p) = "exited"
BY DEF Sound, AfterSend

(* The request goes out, or the command ends without one.                   *)
LEMMA RunKeeps ==
  ASSUME YcInv, Domains', NEW u \in Users, Run(u)
  PROVE  YcInv'
<1>1. UserInv(u) /\ Domains
  BY DEF YcInv
<1>2. PICK plan : plan = Command(Now(u), [threshold |-> Now(u).compress])
  OBVIOUS
<1>3. /\ proc[u].pc = "connecting" /\ link[u].stage = "open"
      /\ IF plan.exit # -1
         THEN Exits(u, plan.exit) /\ UNCHANGED wire
         ELSE /\ Put(u, plan.request)
              /\ proc' = [proc EXCEPT ![u].plan = plan, ![u].serial = 1,
                                      ![u].pc = IF plan.noop THEN "quiet" ELSE AfterSend(plan)]
              /\ IF ~plan.noop /\ AfterSend(plan) = "exited" THEN CloseLink(u) ELSE UNCHANGED link
              /\ UNCHANGED back
      /\ UNCHANGED <<session, alive, store, holder, shown, lost, outcome, meant>>
  BY <1>2 DEF Run
<1>4. /\ DOMAIN proc = Users /\ DOMAIN back = Users /\ DOMAIN link = Users /\ DOMAIN wire = Users
      /\ IsProc(proc[u]) /\ Typed(u) /\ alive[u] \in BOOLEAN
  BY <1>1 DEF Domains, ConnectInv, ConnectTypeOK, UserInv, Typed
<1>5. Planned(Now(u), plan)
  <2>1. proc[u].n \in 1..Len(session[u])
    BY <1>3, <1>4 DEF Typed, Invocations
  <2>2. Now(u).quiet \in BOOLEAN
    BY <1>4, <2>1 DEF Typed, Invocations, Now
  <2>3. QED BY <1>2, <2>2, CommandPlanned
<1>6. /\ proc[u].plan.exit # -1 /\ proc[u].serial = 0 /\ proc[u].code = 0
      /\ outcome[u] = "none" /\ wire[u] = <<>> /\ back[u] = <<>>
  <2>1. /\ proc[u].plan.exit # -1 /\ proc[u].serial = 0 /\ proc[u].code = 0
        /\ outcome[u] = "none" /\ back[u] = <<>>
    BY <1>1, <1>3 DEF UserInv, Going, Responses, Active
  <2>2. wire[u] = <<>>
    BY <1>1, <2>1, SMTT(30) DEF UserInv, Requests, First, Second
  <2>3. QED BY <2>1, <2>2
<1>7. CASE plan.exit # -1
  <2>1. Exits(u, plan.exit) /\ plan.exit \in 0..3
    BY <1>3, <1>5, <1>7 DEF Planned
  <2>2. /\ link'[u].stage # "open" /\ \A d \in Users \ {u} : link'[d] = link[d]
        /\ back'[u] = <<>> /\ \A d \in Users \ {u} : back'[d] = back[d]
    BY <1>4, <2>1 DEF Exits, CloseLink, NoLink
  <2>3. proc'[u] = [proc[u] EXCEPT !.pc = "exited", !.code = plan.exit]
        /\ \A d \in Users \ {u} : proc'[d] = proc[d]
    BY <1>4, <2>1 DEF Exits
  <2>4. proc[u].pc \notin {"idle", "exited"}
        /\ UNCHANGED <<session, wire, alive, holder, outcome>>
    BY <1>3, <1>7
  <2>5. QED BY <1>6, <2>1, <2>2, <2>3, <2>4, ExitsKeeps
<1>8. CASE plan.exit = -1
  <2>1. Sound(Now(u), plan)
    BY <1>5, <1>8 DEF Planned
  <2>2. PICK pc : pc = IF plan.noop THEN "quiet" ELSE AfterSend(plan)
    OBVIOUS
  <2>3. /\ plan.noop => pc = "quiet"
        /\ ~plan.noop /\ plan.until # "none" => pc = "receiving"
        /\ ~plan.noop /\ plan.until = "none" => pc = "exited"
        /\ pc \in {"quiet", "receiving", "exited"}
    BY <2>1, <2>2, AfterSendIs
  <2>4. /\ Put(u, plan.request)
        /\ proc' = [proc EXCEPT ![u].plan = plan, ![u].serial = 1, ![u].pc = pc]
        /\ IF pc = "exited" THEN CloseLink(u) ELSE UNCHANGED link
        /\ UNCHANGED <<session, back, alive, holder, outcome>>
    BY <1>3, <1>8, <2>2
  <2>5. /\ proc'[u] = [proc[u] EXCEPT !.plan = plan, !.serial = 1, !.pc = pc]
        /\ \A d \in Users \ {u} : proc'[d] = proc[d]
    BY <1>4, <2>4
  <2>6. /\ proc'[u].pc = pc /\ proc'[u].n = proc[u].n /\ proc'[u].plan = plan
        /\ proc'[u].serial = 1 /\ proc'[u].code = 0 /\ IsProc(proc[u])'
    BY <1>4, <1>6, <2>5 DEF IsProc
  <2>7. /\ \A d \in Users \ {u} : link'[d] = link[d]
        /\ pc = "exited" => link'[u].stage # "open"
        /\ pc # "exited" => link'[u].stage = "open"
    BY <1>3, <1>4, <2>4 DEF CloseLink, NoLink
  <2>8. PICK q : /\ q.serial = 1 /\ q.cmd = plan.request.cmd /\ q.key = plan.request.key
                 /\ wire' = [wire EXCEPT ![u] = IF ~alive[u] THEN @ ELSE Append(@, q)]
    <3>1. PICK q : q = [serial |-> proc[u].serial + 1, cmd |-> plan.request.cmd,
                        cas |-> plan.request.cas,
                        key |-> plan.request.key, extras |-> plan.request.extras,
                        data |-> plan.request.data,
                        plain |-> IF Len(Now(u).args) > 1 THEN Now(u).args[2] ELSE <<>>]
      OBVIOUS
    <3>2. q.serial = 1 /\ q.cmd = plan.request.cmd /\ q.key = plan.request.key
      BY <1>6, <3>1
    <3>3. wire' = [wire EXCEPT ![u] = IF ~alive[u] THEN @ ELSE Append(@, q)]
      BY <2>4, <3>1 DEF Put
    <3>4. QED BY <3>2, <3>3
  <2>9. /\ \A d \in Users \ {u} : wire'[d] = wire[d]
        /\ wire'[u] = IF alive[u] THEN <<q>> ELSE <<>>
    <3>1. /\ \A d \in Users \ {u} : wire'[d] = wire[d]
          /\ wire'[u] = IF ~alive[u] THEN <<>> ELSE Append(<<>>, q)
      BY <1>4, <1>6, <2>8
    <3>2. Append(<<>>, q) = <<q>>
      OBVIOUS
    <3>3. QED BY <3>1, <3>2
  <2>10. Elsewhere(u) /\ LocksElsewhere(u)
    BY <2>4, <2>5, <2>7, <2>9 DEF Elsewhere, LocksElsewhere, Holds, YcInv
  <2>11. Typed(u)' /\ Now(u)' = Now(u)
    <3>1. proc'[u].code \in 0..3 /\ proc'[u].serial \in 0..2 /\ alive'[u] \in BOOLEAN
      BY <1>4, <2>4, <2>6
    <3>2. proc'[u].pc \in {"connecting", "quiet", "receiving", "prompt", "exited"}
          /\ (proc'[u].pc \in Active => link'[u].stage = "open")
          /\ (proc'[u].pc = "exited" => link'[u].stage # "open")
          /\ proc[u].pc # "idle" /\ UNCHANGED session
      BY <1>3, <2>3, <2>4, <2>6, <2>7 DEF Active
    <3>3. QED BY <1>4, <2>6, <3>1, <3>2, TypedStep
  <2>12. Going(u)'
    BY <1>8, <2>1, <2>3, <2>6, <2>11 DEF Going, Active, Sound
  <2>13. Requests(u)'
    <3>1. First(u, q)'
      BY <1>6, <1>8, <2>4, <2>6, <2>8 DEF First
    <3>2. alive'[u] = alive[u] /\ (alive[u] => wire'[u] = <<q>>) /\ (~alive[u] => wire'[u] = <<>>)
      BY <2>4, <2>9
    <3>3. (proc[u].pc = "quiet" /\ alive[u] /\ wire[u] = <<>> => outcome[u] # "none")'
      <4>1. <<q>> # <<>>
        OBVIOUS
      <4>2. QED BY <3>2, <4>1
    <3>4. (\E e : wire'[u] = <<e>> /\ First(u, e)') \/ wire'[u] = <<>>
      BY <3>1, <3>2
    <3>5. (~alive[u])' => wire'[u] = <<>>
      BY <3>2
    <3>6. QED BY <3>3, <3>4, <3>5 DEF Requests
  <2>14. Responses(u)'
    BY <1>6, <2>1, <2>3, <2>4, <2>6, EmptyIsSeq DEF Responses, Refused, Done, Over, Sound
  <2>15. Locks(u)'
    BY <1>1, <1>6, <2>4 DEF UserInv, Locks, Holds
  <2>16. QED BY <1>3, <2>10, <2>11, <2>12, <2>13, <2>14, <2>15, UserStep DEF UserInv
<1>9. QED BY <1>7, <1>8

(* Append to one element.                                                   *)
LEMMA AppendSecond ==
  ASSUME NEW a, NEW b
  PROVE  Append(<<a>>, b) = <<a, b>>
<1>1. <<a>> \in Seq({a, b}) /\ <<a, b>> \in Seq({a, b}) /\ b \in {a, b}
  OBVIOUS
<1>2. /\ Append(<<a>>, b) \in Seq({a, b})
      /\ Len(Append(<<a>>, b)) = 2
      /\ \A i \in 1..1 : Append(<<a>>, b)[i] = <<a>>[i]
      /\ Append(<<a>>, b)[2] = b
  BY <1>1, AppendProperties
<1> DEFINE s == Append(<<a>>, b)
           t == <<a, b>>
<1>3. /\ s \in Seq({a, b}) /\ t \in Seq({a, b}) /\ Len(s) = 2 /\ Len(t) = 2
      /\ s[1] = t[1] /\ s[2] = t[2]
  BY <1>1, <1>2
<1> HIDE DEF s, t
<1>4. \A i \in 1..Len(s) : s[i] = t[i]
  <2>1. \A i \in 1..2 : i = 1 \/ i = 2
    OBVIOUS
  <2>2. QED BY <1>3, <2>1
<1>5. s = t
  BY <1>3, <1>4, SeqEqual
<1>6. QED BY <1>5 DEF s, t

(* The noop goes out behind a quiet request, or behind its answer.          *)
LEMMA FlushKeeps ==
  ASSUME YcInv, Domains', NEW u \in Users, Flush(u)
  PROVE  YcInv'
<1>1. UserInv(u) /\ Domains
  BY DEF YcInv
<1>2. /\ DOMAIN proc = Users /\ DOMAIN wire = Users
      /\ IsProc(proc[u]) /\ Typed(u) /\ alive[u] \in BOOLEAN
  BY <1>1 DEF Domains, UserInv, Typed
<1>3. /\ proc[u].pc = "quiet" /\ Put(u, yrmcds_noop)
      /\ proc' = [proc EXCEPT ![u].pc = AfterSend(proc[u].plan), ![u].serial = 2]
      /\ UNCHANGED <<link, session, back, alive, holder, outcome>>
  BY DEF Flush
<1>4. /\ proc[u].plan.exit = -1 /\ Sound(Now(u), proc[u].plan) /\ proc[u].plan.noop
      /\ proc[u].serial = 1 /\ link[u].stage = "open" /\ proc[u].plan.until = "serial"
  BY <1>1, <1>3 DEF UserInv, Typed, Going, Active, Sound
<1>5. AfterSend(proc[u].plan) = "receiving"
  BY <1>4, AfterSendIs
<1>6. /\ proc'[u] = [proc[u] EXCEPT !.pc = "receiving", !.serial = 2]
      /\ \A d \in Users \ {u} : proc'[d] = proc[d]
  BY <1>2, <1>3, <1>5
<1>7. /\ proc'[u].pc = "receiving" /\ proc'[u].n = proc[u].n /\ proc'[u].plan = proc[u].plan
      /\ proc'[u].serial = 2 /\ proc'[u].code = proc[u].code /\ IsProc(proc[u])'
  BY <1>2, <1>6 DEF IsProc
<1>8. PICK q : /\ q.serial = 2 /\ q.cmd = "NOOP"
               /\ wire' = [wire EXCEPT ![u] = IF ~alive[u] THEN @ ELSE Append(@, q)]
  <2>1. PICK q : q = [serial |-> proc[u].serial + 1, cmd |-> yrmcds_noop.cmd,
                      cas |-> yrmcds_noop.cas,
                      key |-> yrmcds_noop.key, extras |-> yrmcds_noop.extras,
                      data |-> yrmcds_noop.data,
                      plain |-> IF Len(Now(u).args) > 1 THEN Now(u).args[2] ELSE <<>>]
    OBVIOUS
  <2>2. yrmcds_noop.cmd = "NOOP"
    BY LimitAssumption, EmptyIsSeq DEF yrmcds_noop, Request
  <2>3. q.serial = 2 /\ q.cmd = "NOOP"
    BY <1>4, <2>1, <2>2
  <2>4. wire' = [wire EXCEPT ![u] = IF ~alive[u] THEN @ ELSE Append(@, q)]
    BY <1>3, <2>1 DEF Put
  <2>5. QED BY <2>3, <2>4
<1>9. /\ \A d \in Users \ {u} : wire'[d] = wire[d]
      /\ alive[u] => wire'[u] = Append(wire[u], q)
      /\ ~alive[u] => wire'[u] = wire[u]
  BY <1>2, <1>8
<1>10. Elsewhere(u) /\ LocksElsewhere(u)
  BY <1>3, <1>6, <1>9 DEF Elsewhere, LocksElsewhere, Holds, YcInv
<1>11. Typed(u)' /\ Now(u)' = Now(u)
  <2>1. proc'[u].code \in 0..3 /\ alive'[u] \in BOOLEAN
    BY <1>2, <1>3, <1>7 DEF Typed
  <2>2. proc'[u].serial \in 0..2
    BY <1>7
  <2>3. proc'[u].pc \in {"connecting", "quiet", "receiving", "prompt", "exited"}
        /\ (proc'[u].pc \in Active => link'[u].stage = "open")
        /\ (proc'[u].pc = "exited" => link'[u].stage # "open")
        /\ proc[u].pc # "idle" /\ UNCHANGED session
    BY <1>3, <1>4, <1>7
  <2>4. QED BY <1>2, <1>7, <2>1, <2>2, <2>3, TypedStep
<1>12. Going(u)'
  BY <1>4, <1>7, <1>11 DEF Going, Active, Sound
<1>13. Requests(u)'
  <2>1. wire[u] = <<>> \/ \E e : wire[u] = <<e>> /\ First(u, e)
    BY <1>1, <1>4 DEF UserInv, Requests, Second
  <2>2. Second(u, q)'
    BY <1>4, <1>7, <1>8 DEF Second
  <2>3. \A e : First(u, e)' <=> First(u, e)
    BY <1>3, <1>7 DEF First
  <2>4. outcome'[u] = outcome[u] /\ alive'[u] = alive[u] /\ proc'[u].pc # "quiet"
    BY <1>3, <1>7
  <2>5. CASE ~alive[u]
    <3>1. wire[u] = <<>>
      BY <1>1, <2>5 DEF UserInv, Requests
    <3>2. wire'[u] = <<>>
      BY <1>9, <2>5, <3>1
    <3>3. QED BY <2>4, <3>2 DEF Requests
  <2>6. CASE alive[u] /\ wire[u] = <<>>
    <3>1. Append(<<>>, q) = <<q>>
      OBVIOUS
    <3>2. wire'[u] = <<q>> /\ outcome'[u] # "none"
      BY <1>1, <1>3, <1>9, <2>4, <2>6, <3>1 DEF UserInv, Requests
    <3>3. QED BY <2>2, <2>4, <2>6, <3>2 DEF Requests
  <2>7. CASE alive[u] /\ \E e : wire[u] = <<e>> /\ First(u, e)
    <3>1. PICK e : wire[u] = <<e>> /\ First(u, e)
      BY <2>7
    <3>2. Append(<<e>>, q) = <<e, q>>
      BY AppendSecond
    <3>3. wire'[u] = <<e, q>>
      BY <1>9, <2>7, <3>1, <3>2
    <3>4. QED BY <2>2, <2>3, <2>4, <2>7, <3>1, <3>3 DEF Requests
  <2>8. QED BY <2>1, <2>5, <2>6, <2>7, <1>2
<1>14. Responses(u)'
  BY <1>1, <1>3, <1>7 DEF UserInv, Responses, Refused, Done, Over, Active
<1>15. Locks(u)'
  BY <1>1, <1>3, <1>7 DEF UserInv, Locks, Holds
<1>16. QED BY <1>3, <1>10, <1>11, <1>12, <1>13, <1>14, <1>15, UserStep DEF UserInv

(* What Tail does to a sequence of any kind.                                *)
LEMMA TailIsSeq ==
  ASSUME NEW s, IsSeq(s), s # <<>>
  PROVE  /\ IsSeq(Tail(s)) /\ Head(s) = s[1] /\ 1 \in 1..Len(s)
         /\ \A i \in 1..Len(Tail(s)) : i + 1 \in 1..Len(s) /\ Tail(s)[i] = s[i + 1]
<1>1. PICK S : s \in Seq(S)
  BY DEF IsSeq
<1>2. /\ Tail(s) \in Seq(S) /\ Len(Tail(s)) = Len(s) - 1
      /\ \A i \in 1..Len(Tail(s)) : Tail(s)[i] = s[i + 1]
  BY <1>1, HeadTailProperties
<1>3. Len(s) \in Nat /\ Len(s) > 0
  BY <1>1, EmptySeq
<1>4. QED BY <1>2, <1>3 DEF IsSeq

(* One turn of the receive loop.                                            *)
LEMMA RecvKeeps ==
  ASSUME YcInv, Domains', NEW u \in Users, Recv(u)
  PROVE  YcInv'
<1>1. UserInv(u) /\ Domains
  BY DEF YcInv
<1>a. PICK r, decoded :
        /\ r = Head(back[u])
        /\ IF ~(decoded.ok /\ Accepted(u, r)) \/ (Ends(u, r) /\ ~proc[u].plan.prompts)
           THEN Exits(u, IF ~decoded.ok THEN 2 ELSE IF Accepted(u, r) THEN 0 ELSE 3)
           ELSE /\ proc' = [proc EXCEPT ![u].pc = IF Ends(u, r) THEN "prompt" ELSE @]
                /\ back' = [back EXCEPT ![u] = Tail(@)]
                /\ UNCHANGED link
        /\ UNCHANGED <<session, wire, alive, store, holder, outcome>>
  BY Zenon DEF Recv
<1>2. PICK fine, code :
        /\ fine = (decoded.ok /\ r.status = "OK")
        /\ code = (IF ~decoded.ok THEN 2 ELSE IF r.status = "OK" THEN 0 ELSE 3)
  OBVIOUS
<1>3. /\ proc[u].pc = "receiving" /\ back[u] # <<>>
      /\ IF ~fine \/ (Ends(u, r) /\ ~proc[u].plan.prompts) THEN Exits(u, code)
         ELSE /\ proc' = [proc EXCEPT ![u].pc = IF Ends(u, r) THEN "prompt" ELSE @]
              /\ back' = [back EXCEPT ![u] = Tail(@)]
              /\ UNCHANGED link
      /\ UNCHANGED <<session, wire, alive, store, holder, outcome>>
  <2>1. proc[u].pc = "receiving" /\ back[u] # <<>>
    BY DEF Recv
  <2>2. fine = (decoded.ok /\ Accepted(u, r))
        /\ code = IF ~decoded.ok THEN 2 ELSE IF Accepted(u, r) THEN 0 ELSE 3
    BY <1>2 DEF Accepted
  <2>3. QED BY <1>a, <2>1, <2>2, Zenon
<1>4. /\ DOMAIN proc = Users /\ DOMAIN back = Users
      /\ IsProc(proc[u]) /\ Typed(u) /\ alive[u] \in BOOLEAN
      /\ proc[u].plan.exit = -1 /\ link[u].stage = "open"
  BY <1>1, <1>3 DEF Domains, UserInv, Typed, Going, Active
<1>5. /\ IsSeq(back[u]) /\ outcome[u] # "none" /\ r.status \in {outcome[u], "OK"}
      /\ r.status = "OK" => Done(u)
  <2>1. IsSeq(back[u]) /\ outcome[u] # "none"
    BY <1>1, <1>3 DEF UserInv, Responses
  <2>2. r = back[u][1] /\ 1 \in 1..Len(back[u])
    BY <1>a, <1>3, <2>1, TailIsSeq
  <2>3. r.status \in {outcome[u], "OK"}
    BY <1>1, <2>2 DEF UserInv, Responses
  <2>4. r.status = "OK" => ~Refused(u)
    BY <1>1, <1>a, <1>3 DEF UserInv, Responses
  <2>5. QED BY <2>1, <2>3, <2>4 DEF Done
<1>6. CASE ~fine \/ (Ends(u, r) /\ ~proc[u].plan.prompts)
  <2>1. Exits(u, code)
    BY <1>3, <1>6
  <2>2. code \in 0..3 /\ (code = 0 => r.status = "OK") /\ (code = 3 => r.status # "OK")
    BY <1>2
  <2>3. /\ code = 0 => Done(u)
        /\ code = 3 => outcome[u] \notin {"none", "OK"}
    BY <1>5, <2>2
  <2>4. QED BY <1>3, <2>1, <2>2, <2>3, ExitKeeps
<1>7. CASE fine /\ ~(Ends(u, r) /\ ~proc[u].plan.prompts)
  <2>1. PICK pc : pc = IF Ends(u, r) THEN "prompt" ELSE "receiving"
    OBVIOUS
  <2>2. /\ pc \in {"prompt", "receiving"}
        /\ pc = "prompt" => proc[u].plan.prompts
    BY <1>7, <2>1
  <2>3. /\ proc'[u] = [proc[u] EXCEPT !.pc = pc]
        /\ \A d \in Users \ {u} : proc'[d] = proc[d]
        /\ back'[u] = Tail(back[u])
        /\ \A d \in Users \ {u} : back'[d] = back[d]
        /\ UNCHANGED link
    <3>1. /\ proc' = [proc EXCEPT ![u].pc = IF Ends(u, r) THEN "prompt" ELSE @]
          /\ back' = [back EXCEPT ![u] = Tail(@)]
          /\ UNCHANGED link
      BY <1>3, <1>7
    <3>2. QED BY <1>3, <1>4, <2>1, <3>1
  <2>4. /\ proc'[u].pc = pc /\ proc'[u].n = proc[u].n /\ proc'[u].plan = proc[u].plan
        /\ proc'[u].serial = proc[u].serial /\ proc'[u].code = proc[u].code
        /\ IsProc(proc[u])'
    BY <1>4, <2>3 DEF IsProc
  <2>5. Elsewhere(u) /\ LocksElsewhere(u)
    BY <1>3, <2>3 DEF Elsewhere, LocksElsewhere, Holds, YcInv
  <2>6. Typed(u)' /\ Now(u)' = Now(u)
    <3>1. proc'[u].code \in 0..3 /\ proc'[u].serial \in 0..2 /\ alive'[u] \in BOOLEAN
      BY <1>3, <1>4, <2>4 DEF Typed
    <3>2. proc'[u].pc \in {"connecting", "quiet", "receiving", "prompt", "exited"}
          /\ (proc'[u].pc \in Active => link'[u].stage = "open")
          /\ (proc'[u].pc = "exited" => link'[u].stage # "open")
          /\ proc[u].pc # "idle" /\ UNCHANGED session
      BY <1>3, <1>4, <2>2, <2>3, <2>4
    <3>3. QED BY <1>4, <2>4, <3>1, <3>2, TypedStep
  <2>7. Going(u)'
    BY <1>1, <1>4, <2>2, <2>4, <2>6 DEF UserInv, Going, Active, Sound
  <2>8. Requests(u)'
    BY <1>1, <1>3, <2>2, <2>4 DEF UserInv, Requests, First, Second
  <2>9. Responses(u)'
    <3>1. Done(u)' /\ ~Refused(u)'
      BY <1>2, <1>3, <1>5, <1>7, <2>4 DEF Done, Refused
    <3>2. IsSeq(back[u])'
      BY <1>3, <1>5, <2>3, TailIsSeq
    <3>3. \A i \in 1..Len(back'[u]) : back'[u][i].status \in {outcome'[u], "OK"}
      BY <1>1, <1>3, <1>5, <2>3, TailIsSeq DEF UserInv, Responses
    <3>4. outcome'[u] # "none" /\ proc'[u].pc \in Active
      BY <1>3, <1>5, <2>2, <2>4 DEF Active
    <3>5. QED BY <2>2, <2>4, <3>1, <3>2, <3>3, <3>4 DEF Responses, Over
  <2>10. Locks(u)'
    BY <1>1, <1>3, <2>4 DEF UserInv, Locks, Holds
  <2>11. QED BY <1>3, <2>5, <2>6, <2>7, <2>8, <2>9, <2>10, UserStep DEF UserInv
<1>8. QED BY <1>2, <1>6, <1>7

(* The connection is lost, and its locks with it.                           *)
LEMMA LoseKeeps ==
  ASSUME YcInv, Domains', NEW u \in Users, Lose(u)
  PROVE  YcInv'
<1>1. UserInv(u) /\ Domains
  BY DEF YcInv
<1>2. /\ alive' = [alive EXCEPT ![u] = FALSE] /\ wire' = [wire EXCEPT ![u] = <<>>]
      /\ holder' = Released(u)
      /\ UNCHANGED <<link, session, proc, back, outcome>>
  BY DEF Lose
<1>3. /\ alive'[u] = FALSE /\ wire'[u] = <<>>
      /\ \A d \in Users \ {u} : alive'[d] = alive[d] /\ wire'[d] = wire[d]
  BY <1>1, <1>2 DEF Domains
<1>4. /\ DOMAIN holder' = {k \in DOMAIN holder : holder[k] # u}
      /\ \A k \in DOMAIN holder' : holder'[k] = holder[k]
  BY <1>2 DEF Released
<1>5. LocksElsewhere(u) /\ \A k : ~Holds(u, k)'
  BY <1>4 DEF LocksElsewhere, Holds, YcInv
<1>6. Elsewhere(u)
  BY <1>2, <1>3 DEF Elsewhere
<1>7. Typed(u)' /\ Now(u)' = Now(u)
  BY <1>1, <1>2, <1>3 DEF UserInv, Typed, Invocations, IsProc, Now
<1>8. Going(u)'
  BY <1>1, <1>2, <1>3, <1>7 DEF UserInv, Going, Sound, Active
<1>9. Requests(u)'
  BY <1>3 DEF Requests
<1>10. Responses(u)'
  BY <1>1, <1>2 DEF UserInv, Responses, Refused, Done, Over
<1>11. Locks(u)'
  BY <1>1, <1>2, <1>3, <1>5 DEF UserInv, Locks
<1>12. QED BY <1>2, <1>5, <1>6, <1>7, <1>8, <1>9, <1>10, <1>11, UserStep DEF UserInv

(* The server.                                                             *)
LEMMA LoudIs ==
  ASSUME NEW cmd
  PROVE  /\ cmd \in Locking => Loud(cmd) \in {"LOCK", "LAG"}
         /\ cmd \in Unlocking => Loud(cmd) \in {"UNLOCK", "RAU"}
         /\ Loud(cmd) = "QUIT" => cmd \in Quitting
         /\ cmd = "NOOP" => Loud(cmd) = "NOOP"
BY DEF Loud, Locking, Unlocking, Quitting, Gets

(* The server answers with success only to one that may have it: locks are  *)
(* taken from nobody.                                                       *)
LEMMA StatusIs ==
  ASSUME NEW u, NEW q, NEW status \in Statuses(u, q)
  PROVE  /\ status # "none"
         /\ Loud(q.cmd) \in {"UNLOCK", "RAU"} /\ status = "OK" => Holds(u, q.key)
         /\ Loud(q.cmd) \in {"LOCK", "LAG", "DELETE"} /\ status = "OK" => ~Locked(u, q.key)
         /\ Loud(q.cmd) = "NOOP" => status = "OK"
<1> DEFINE cmd == Loud(q.cmd)
           has == Has(q.key)
           locked == Locked(u, q.key)
           holds == Holds(u, q.key)
<1>1. status \in
        IF cmd \in Sure THEN {"OK"}
        ELSE IF cmd = "UNLOCK" THEN IF holds THEN {"OK"} ELSE {"NOTLOCKED"}
        ELSE IF cmd = "RAU" THEN IF has /\ holds THEN {"OK"} ELSE {"NOTLOCKED"}
        ELSE IF cmd = "ADD" /\ has THEN {"EXISTS"}
        ELSE IF cmd \notin {"ADD", "SET", "INCREMENT", "DECREMENT"} /\ ~has THEN {"NOTFOUND"}
        ELSE IF cmd \in {"INCREMENT", "DECREMENT"} /\ ~has
             THEN IF q.extras[3] = U32 - 1 THEN {"NOTFOUND"} ELSE {"OK"}
        ELSE IF cmd \in {"INCREMENT", "DECREMENT"}
                /\ (Len(store[q.key].data) # 1 \/ store[q.key].flags # 0) THEN {"NONNUMERIC"}
        ELSE IF cmd # "GET" /\ locked THEN {"LOCKED"}
        ELSE IF q.cas # 0 THEN {"OK", "EXISTS"}
        ELSE {"OK"}
  BY DEF Statuses
<1> HIDE DEF cmd, has, locked, holds
<1>2. /\ status # "none"
      /\ cmd \in {"UNLOCK", "RAU"} /\ status = "OK" => holds
      /\ cmd \in {"LOCK", "LAG", "DELETE"} /\ status = "OK" => ~locked
      /\ cmd = "NOOP" => status = "OK"
  BY <1>1 DEF Sure
<1>3. QED BY <1>2 DEF cmd, locked, holds

(* The answers to a request carry its status, and a loud request has at     *)
(* least one.                                                               *)
LEMMA AnswersAre ==
  ASSUME NEW q, NEW status
  PROVE  /\ IsSeq(Answers(q, status))
         /\ \A i \in 1..Len(Answers(q, status)) : Answers(q, status)[i].status = status
         /\ ~Silent(q, status) => 1 \in 1..Len(Answers(q, status))
<1> DEFINE a(key) == Answer(q, status, key)
<1>1. \A key : a(key).status = status
  BY DEF Answer
<1>2. CASE Silent(q, status)
  <2>1. Answers(q, status) = <<>>
    BY <1>2 DEF Answers, Silent, Quiets
  <2>2. QED BY <1>2, <2>1, EmptyIsSeq
<1>3. CASE ~Silent(q, status) /\ q.cmd \in {"STAT", "KEYS"}
  <2>1. PICK s, t : s = a(<<"name">>) /\ t = a(<<>>)
    OBVIOUS
  <2>2. Answers(q, status) = <<s, t>> /\ s.status = status /\ t.status = status
    BY <1>1, <1>3, <2>1 DEF Answers
  <2>3. <<s, t>> \in Seq({s, t}) /\ Len(<<s, t>>) = 2 /\ <<s, t>>[1] = s /\ <<s, t>>[2] = t
    OBVIOUS
  <2>4. PICK w : w = <<s, t>>
    OBVIOUS
  <2>5. w \in Seq({s, t}) /\ Len(w) = 2 /\ w[1] = s /\ w[2] = t /\ Answers(q, status) = w
    BY <2>2, <2>3, <2>4
  <2>6. \A i \in 1..2 : i = 1 \/ i = 2
    OBVIOUS
  <2>7. IsSeq(w) /\ 1 \in 1..Len(w) /\ \A i \in 1..Len(w) : w[i].status = status
    BY <2>2, <2>5, <2>6 DEF IsSeq
  <2>8. QED BY <2>5, <2>7
<1>4. CASE ~Silent(q, status) /\ q.cmd \notin {"STAT", "KEYS"}
  <2>1. PICK s : s = a(<<>>)
    OBVIOUS
  <2>2. Answers(q, status) = <<s>> /\ s.status = status
    BY <1>1, <1>4, <2>1 DEF Answers
  <2>3. <<s>> \in Seq({s}) /\ Len(<<s>>) = 1 /\ <<s>>[1] = s
    OBVIOUS
  <2>4. PICK w : w = <<s>>
    OBVIOUS
  <2>5. w \in Seq({s}) /\ Len(w) = 1 /\ w[1] = s /\ Answers(q, status) = w
    BY <2>2, <2>3, <2>4
  <2>6. \A i \in 1..1 : i = 1
    OBVIOUS
  <2>7. IsSeq(w) /\ 1 \in 1..Len(w) /\ \A i \in 1..Len(w) : w[i].status = status
    BY <2>2, <2>5, <2>6 DEF IsSeq
  <2>8. QED BY <2>5, <2>7
<1>5. QED BY <1>2, <1>3, <1>4

(* What a request does to the locks.                                        *)
LEMMA LocksStep ==
  ASSUME YcInv, NEW u \in Users, NEW q, NEW status \in Statuses(u, q),
         holder' = CASE status = "OK" /\ Loud(q.cmd) \in {"LOCK", "LAG"} -> With(holder, q.key, u)
                     [] status = "OK" /\ Loud(q.cmd) \in {"UNLOCK", "RAU", "DELETE"} ->
                          Without(holder, q.key)
                     [] Loud(q.cmd) \in {"UNLOCKALL", "QUIT"} -> Released(u)
                     [] OTHER -> holder
  PROVE  /\ LocksElsewhere(u)
         /\ Loud(q.cmd) = "QUIT" => \A k : ~Holds(u, k)'
         /\ Loud(q.cmd) \in {"LOCK", "LAG"} /\ status = "OK" => Holds(u, q.key)'
         /\ Loud(q.cmd) = "NOOP" => holder' = holder
<1>1. PICK cmd : cmd = Loud(q.cmd)
  OBVIOUS
<1>2. \A k \in DOMAIN holder : holder[k] \in Users
  BY DEF YcInv
<1>3. CASE status = "OK" /\ cmd \in {"LOCK", "LAG"}
  <2>1. holder' = With(holder, q.key, u) /\ ~Locked(u, q.key)
    BY <1>1, <1>3, StatusIs
  <2>2. QED BY <1>1, <1>2, <1>3, <2>1 DEF With, LocksElsewhere, Holds, Locked
<1>4. CASE status = "OK" /\ cmd \in {"UNLOCK", "RAU", "DELETE"}
  <2>1. holder' = Without(holder, q.key) /\ ~Locked(u, q.key)
    BY <1>1, <1>4, StatusIs DEF Holds, Locked
  <2>2. QED BY <1>1, <1>2, <1>4, <2>1 DEF Without, LocksElsewhere, Holds, Locked
<1>5. CASE cmd \in {"UNLOCKALL", "QUIT"}
  <2>1. holder' = Released(u)
    BY <1>1, <1>5
  <2>2. QED BY <1>1, <1>2, <1>5, <2>1 DEF Released, LocksElsewhere, Holds
<1>6. CASE /\ ~(status = "OK" /\ cmd \in {"LOCK", "LAG"})
           /\ ~(status = "OK" /\ cmd \in {"UNLOCK", "RAU", "DELETE"})
           /\ cmd \notin {"UNLOCKALL", "QUIT"}
  <2>1. holder' = holder
    BY <1>1, <1>6
  <2>2. QED BY <1>1, <1>2, <1>6, <2>1 DEF LocksElsewhere, Holds
<1>7. QED BY <1>3, <1>4, <1>5, <1>6

(* A sequence over S is one over any larger set.                            *)
LEMMA Widened ==
  ASSUME NEW S, NEW T, NEW s \in Seq(S)
  PROVE  s \in Seq(S \cup T)
BY SeqDef

(* A queue of responses after one more request has been handled.            *)
LEMMA QueueIs ==
  ASSUME NEW s, IsSeq(s), NEW q, NEW status,
         NEW Old, \A i \in 1..Len(s) : s[i].status \in Old,
         NEW t, t = s \o Answers(q, status)
  PROVE  /\ IsSeq(t)
         /\ \A i \in 1..Len(t) : t[i].status \in Old \cup {status}
         /\ s # <<>> => t # <<>> /\ Head(t) = Head(s)
         /\ Len(s) = 0 /\ ~Silent(q, status) => t # <<>> /\ Head(t).status = status
<1>1. PICK a : a = Answers(q, status)
  OBVIOUS
<1>2. /\ IsSeq(a) /\ \A i \in 1..Len(a) : a[i].status = status
      /\ ~Silent(q, status) => 1 \in 1..Len(a)
  BY <1>1, AnswersAre
<1>3. PICK S : s \in Seq(S)
  BY DEF IsSeq
<1>4. PICK T : a \in Seq(T)
  BY <1>2 DEF IsSeq
<1>5. s \in Seq(S \cup T) /\ a \in Seq(S \cup T)
  BY <1>3, <1>4, Widened, S \cup T = T \cup S
<1>6. t = s \o a
  BY <1>1
<1>7. /\ t \in Seq(S \cup T) /\ Len(s) \in Nat /\ Len(a) \in Nat
      /\ Len(t) = Len(s) + Len(a)
      /\ \A i \in 1..Len(s) : t[i] = s[i]
      /\ \A i \in (Len(s) + 1)..(Len(s) + Len(a)) : t[i] = a[i - Len(s)]
  <2>1. s \o a \in Seq(S \cup T)
    BY <1>5
  <2>2. QED BY <1>5, <1>6, <2>1
<1>8. \A i \in 1..Len(t) : t[i].status \in Old \cup {status}
  <2>1. ASSUME NEW i \in 1..Len(t) PROVE t[i].status \in Old \cup {status}
    <3>1. CASE i \in 1..Len(s)
      BY <1>7, <3>1
    <3>2. CASE i \notin 1..Len(s)
      <4>1. i \in (Len(s) + 1)..(Len(s) + Len(a)) /\ i - Len(s) \in 1..Len(a)
        BY <1>7, <3>2
      <4>2. QED BY <1>2, <1>7, <4>1
    <3>3. QED BY <3>1, <3>2
  <2>2. QED BY <2>1
<1>9. s # <<>> => t # <<>> /\ Head(t) = Head(s)
  <2>1. SUFFICES ASSUME s # <<>> PROVE t # <<>> /\ Head(t) = Head(s)
    OBVIOUS
  <2>2. Len(s) > 0 /\ Head(s) = s[1]
    BY <1>3, <2>1, EmptySeq
  <2>3. Len(t) > 0 /\ t[1] = s[1]
    BY <1>7, <2>2
  <2>4. t # <<>> /\ Head(t) = t[1]
    BY <1>7, <2>3, EmptySeq
  <2>5. QED BY <2>2, <2>3, <2>4
<1>10. Len(s) = 0 /\ ~Silent(q, status) => t # <<>> /\ Head(t).status = status
  <2>1. SUFFICES ASSUME Len(s) = 0, ~Silent(q, status) PROVE t # <<>> /\ Head(t).status = status
    OBVIOUS
  <2>2. Len(s) = 0 /\ 1 \in 1..Len(a)
    BY <1>2, <2>1, EmptyIsSeq
  <2>3. Len(t) > 0 /\ t[1] = a[1] /\ a[1].status = status
    BY <1>2, <1>7, <2>2
  <2>4. t # <<>> /\ Head(t) = t[1]
    BY <1>7, <2>3, EmptySeq
  <2>5. QED BY <2>3, <2>4
<1>11. QED BY <1>1, <1>6, <1>7, <1>8, <1>9, <1>10 DEF IsSeq

(* Sequences of one and of two elements.                                    *)
LEMMA TailsOf ==
  ASSUME NEW a, NEW b
  PROVE  /\ Head(<<a>>) = a /\ Tail(<<a>>) = <<>>
         /\ Head(<<a, b>>) = a /\ Tail(<<a, b>>) = <<b>>
         /\ <<a>> # <<>> /\ <<a, b>> # <<>> /\ <<b>> # <<>>
<1>1. /\ <<a>> # <<>> /\ <<a, b>> # <<>> /\ <<b>> # <<>>
      /\ Head(<<a>>) = a /\ Head(<<a, b>>) = a
  OBVIOUS
<1>2. Tail(<<a>>) = <<>>
  <2>1. <<a>> \in Seq({a}) /\ Len(<<a>>) = 1
    OBVIOUS
  <2>2. Tail(<<a>>) \in Seq({a}) /\ Len(Tail(<<a>>)) = 0
    BY <1>1, <2>1, HeadTailProperties
  <2>3. QED BY <2>2, EmptySeq
<1>3. Tail(<<a, b>>) = <<b>>
  <2>1. <<a, b>> \in Seq({a, b}) /\ Len(<<a, b>>) = 2 /\ <<a, b>>[2] = b
    OBVIOUS
  <2> DEFINE s == Tail(<<a, b>>)
             t == <<b>>
  <2>2. s \in Seq({a, b}) /\ Len(s) = 1 /\ \A i \in 1..Len(s) : s[i] = <<a, b>>[i + 1]
    BY <1>1, <2>1, HeadTailProperties
  <2>3. t \in Seq({a, b}) /\ Len(t) = 1 /\ t[1] = b /\ s[1] = b
    BY <2>1, <2>2
  <2> HIDE DEF s, t
  <2>4. \A i \in 1..Len(s) : s[i] = t[i]
    <3>1. \A i \in 1..1 : i = 1
      OBVIOUS
    <3>2. QED BY <2>2, <2>3, <3>1
  <2>5. s = t
    BY <2>2, <2>3, <2>4, SeqEqual
  <2>6. QED BY <2>5 DEF s, t
<1>4. QED BY <1>1, <1>2, <1>3

(* The server handles a request: its own or the noop of the process.        *)
LEMMA HandleKeeps ==
  ASSUME YcInv, Domains', NEW u \in Users, Handle(u)
  PROVE  YcInv'
<1>1. UserInv(u) /\ Domains
  BY DEF YcInv
<1>2. PICK q, status :
        /\ q = Head(wire[u]) /\ status \in Statuses(u, q) /\ alive[u] /\ wire[u] # <<>>
        /\ wire' = [wire EXCEPT ![u] = Tail(@)]
        /\ back' = IF link[u].stage = "open"
                   THEN [back EXCEPT ![u] = @ \o Answers(q, status)] ELSE back
        /\ outcome' = [outcome EXCEPT ![u] = IF q.serial = 1 THEN status ELSE @]
        /\ alive' = [alive EXCEPT ![u] = Loud(q.cmd) # "QUIT"]
        /\ holder' = CASE status = "OK" /\ Loud(q.cmd) \in {"LOCK", "LAG"} -> With(holder, q.key, u)
                       [] status = "OK" /\ Loud(q.cmd) \in {"UNLOCK", "RAU", "DELETE"} ->
                            Without(holder, q.key)
                       [] Loud(q.cmd) \in {"UNLOCKALL", "QUIT"} -> Released(u)
                       [] OTHER -> holder
        /\ UNCHANGED <<link, session, proc>>
  BY DEF Handle
<1>3. /\ wire'[u] = Tail(wire[u])
      /\ link[u].stage = "open" => back'[u] = back[u] \o Answers(q, status)
      /\ link[u].stage # "open" => back'[u] = back[u]
      /\ q.serial = 1 => outcome'[u] = status
      /\ q.serial # 1 => outcome'[u] = outcome[u]
      /\ alive'[u] = (Loud(q.cmd) # "QUIT")
      /\ proc'[u] = proc[u] /\ link'[u] = link[u]
  BY <1>1, <1>2 DEF Domains
<1>4. /\ LocksElsewhere(u)
      /\ Loud(q.cmd) = "QUIT" => \A k : ~Holds(u, k)'
      /\ Loud(q.cmd) \in {"LOCK", "LAG"} /\ status = "OK" => Holds(u, q.key)'
      /\ Loud(q.cmd) = "NOOP" => holder' = holder
  BY <1>2, LocksStep
<1>5. Elsewhere(u)
  BY <1>1, <1>2 DEF Domains, Elsewhere
<1>6. \/ wire[u] = <<q>> /\ First(u, q)
      \/ wire[u] = <<q>> /\ Second(u, q) /\ outcome[u] # "none"
      \/ \E r : wire[u] = <<q, r>> /\ First(u, q) /\ Second(u, r)
  <2>1. \/ \E e : wire[u] = <<e>> /\ (First(u, e) \/ (Second(u, e) /\ outcome[u] # "none"))
        \/ \E e, r : wire[u] = <<e, r>> /\ First(u, e) /\ Second(u, r)
    BY <1>1, <1>2 DEF UserInv, Requests
  <2>2. CASE \E e : wire[u] = <<e>> /\ (First(u, e) \/ (Second(u, e) /\ outcome[u] # "none"))
    <3>1. PICK e : wire[u] = <<e>> /\ (First(u, e) \/ (Second(u, e) /\ outcome[u] # "none"))
      BY <2>2
    <3>2. q = e
      BY <1>2, <3>1, TailsOf
    <3>3. QED BY <3>1, <3>2
  <2>3. CASE \E e, r : wire[u] = <<e, r>> /\ First(u, e) /\ Second(u, r)
    <3>1. PICK e, r : wire[u] = <<e, r>> /\ First(u, e) /\ Second(u, r)
      BY <2>3
    <3>2. q = e
      BY <1>2, <3>1, TailsOf
    <3>3. QED BY <3>1, <3>2
  <2>4. QED BY <2>1, <2>2, <2>3
<1>7. proc[u].pc \in {"quiet", "receiving", "prompt", "exited"} /\ alive'[u] \in BOOLEAN
  <2>1. proc[u].plan.exit = -1 \/ proc[u].serial = 2
    BY <1>6 DEF First, Second
  <2>2. proc[u].pc # "connecting"
    BY <1>1, <2>1 DEF UserInv, Going
  <2>3. proc[u].pc # "idle"
    BY <1>1, <2>1 DEF UserInv, Going
  <2>4. QED BY <1>1, <1>3, <2>2, <2>3 DEF UserInv, Typed
<1>8. Typed(u)' /\ Now(u)' = Now(u)
  BY <1>1, <1>2, <1>7 DEF UserInv, Typed, Invocations, IsProc, Now
<1>9. Going(u)'
  BY <1>1, <1>2, <1>7, <1>8 DEF UserInv, Going, Sound, Active
<1>10. /\ status # "none"
       /\ Loud(q.cmd) \in {"UNLOCK", "RAU"} /\ status = "OK" => Holds(u, q.key)
       /\ Loud(q.cmd) = "NOOP" => status = "OK"
  BY <1>2, StatusIs
<1>11. CASE First(u, q)
  <2>1. /\ q.serial = 1 /\ proc[u].plan.exit = -1 /\ outcome[u] = "none"
        /\ q.cmd = proc[u].plan.request.cmd /\ q.key = proc[u].plan.request.key
        /\ outcome'[u] = status
    BY <1>3, <1>11 DEF First
  <2>2. /\ back[u] = <<>> /\ proc[u].pc # "prompt" /\ \A k : ~Holds(u, k)
        /\ ~(Over(u, 0) /\ proc[u].plan.until # "none") /\ ~Over(u, 3)
    BY <1>1, <2>1 DEF UserInv, Responses, Locks, Done
  <2>3. wire'[u] = <<>> \/ \E r : wire'[u] = <<r>> /\ Second(u, r)
    <3>1. CASE wire[u] = <<q>>
      BY <1>3, <3>1, TailsOf
    <3>2. CASE \E r : wire[u] = <<q, r>> /\ First(u, q) /\ Second(u, r)
      BY <1>3, <3>2, TailsOf
    <3>3. QED BY <1>6, <3>1, <3>2
  <2>4. Requests(u)'
    <3>1. \A r : Second(u, r)' <=> Second(u, r)
      BY <1>3 DEF Second
    <3>2. outcome'[u] # "none"
      BY <1>10, <2>1
    <3>3. (~alive[u])' => wire'[u] = <<>>
      <4>1. SUFFICES ASSUME (~alive[u])', wire'[u] # <<>> PROVE FALSE
        OBVIOUS
      <4>2. q.cmd \in Quitting
        BY <1>3, <4>1, LoudIs
      <4>3. proc[u].plan.noop
        BY <2>3, <4>1 DEF Second
      <4>4. QED BY <1>1, <2>1, <4>2, <4>3 DEF UserInv, Going, Sound
    <3>4. QED BY <2>3, <3>1, <3>2, <3>3 DEF Requests
  <2>5. Refused(u)' => ~Silent(q, status)
    BY <1>3, <2>1 DEF Refused, Silent
  <2>6. Responses(u)'
    <3>1. ~(Over(u, 0)' /\ proc'[u].plan.until # "none") /\ ~Over(u, 3)' /\ proc'[u].pc # "prompt"
      BY <1>3, <2>2 DEF Over
    <3>2. CASE link[u].stage = "open"
      <4>1. proc[u].pc \in Active
        BY <1>1, <1>7, <3>2 DEF UserInv, Typed, Active
      <4>2. PICK s : s = back'[u] /\ s = <<>> \o Answers(q, status)
        BY <1>3, <2>2, <3>2
      <4>3. PICK old, Old : /\ old = <<>> /\ Old = {} /\ IsSeq(old)
                            /\ \A i \in 1..Len(old) : old[i].status \in Old
        BY EmptyIsSeq, SMTT(30)
      <4>4. /\ s = old \o Answers(q, status) /\ IsSeq(old)
            /\ \A i \in 1..Len(old) : old[i].status \in Old
        BY <4>2, <4>3
      <4>5. /\ IsSeq(s)
            /\ \A i \in 1..Len(s) : s[i].status \in Old \cup {status}
            /\ old # <<>> => s # <<>> /\ Head(s) = Head(old)
            /\ Len(old) = 0 /\ ~Silent(q, status) => s # <<>> /\ Head(s).status = status
        BY <4>4, QueueIs, ZenonT(60)
      <4>6. /\ IsSeq(s) /\ \A i \in 1..Len(s) : s[i].status = status
            /\ ~Silent(q, status) => s # <<>> /\ Head(s).status = status
        BY <4>3, <4>5, EmptyIsSeq
      <4>7. Refused(u)' => status # "OK"
        BY <2>1 DEF Refused
      <4>8. \A i \in 1..Len(back'[u]) : back'[u][i].status \in {outcome'[u], "OK"}
        BY <2>1, <4>2, <4>6
      <4>9. Refused(u)' => back'[u] # <<>> /\ Head(back'[u]).status # "OK"
        BY <2>5, <4>2, <4>6, <4>7
      <4>10. outcome'[u] # "none" /\ proc'[u].pc \in Active /\ IsSeq(back[u])'
        BY <1>3, <1>10, <2>1, <4>1, <4>2, <4>6
      <4>11. QED BY <3>1, <4>8, <4>9, <4>10 DEF Responses
    <3>3. CASE link[u].stage # "open"
      <4>1. proc'[u].pc \notin Active /\ back'[u] = <<>>
        BY <1>1, <1>3, <2>2, <3>3 DEF UserInv, Typed
      <4>2. proc'[u].pc \notin {"quiet", "receiving"}
        BY <4>1 DEF Active
      <4>3. QED BY <3>1, <4>1, <4>2, EmptyIsSeq DEF Responses
    <3>4. QED BY <3>2, <3>3
  <2>7. Locks(u)'
    <3>1. q.cmd \in Unlocking => status # "OK"
      BY <1>10, <2>2, LoudIs
    <3>2. q.cmd \in Locking /\ status = "OK" => Holds(u, q.key)'
      BY <1>4, LoudIs
    <3>3. \A k : Holds(u, k)' => alive'[u] /\ outcome'[u] # "none"
      BY <1>3, <1>4, <1>10, <2>1
    <3>4. /\ proc'[u].plan.request.cmd = q.cmd /\ proc'[u].plan.request.key = q.key
          /\ outcome'[u] = status
      BY <1>3, <2>1
    <3>5. outcome'[u] = "OK" /\ proc'[u].plan.request.cmd \in Locking =>
            Holds(u, proc[u].plan.request.key)'
      BY <3>2, <1>3, <2>1
    <3>6. QED BY <3>1, <3>3, <3>4, <3>5 DEF Locks
  <2>8. QED BY <1>2, <1>4, <1>5, <1>8, <1>9, <2>4, <2>6, <2>7, UserStep DEF UserInv
<1>12. CASE wire[u] = <<q>> /\ Second(u, q) /\ outcome[u] # "none"
  <2>1. /\ q.serial = 2 /\ q.cmd = "NOOP" /\ Loud(q.cmd) = "NOOP" /\ status = "OK"
        /\ outcome'[u] = outcome[u] /\ alive'[u] = TRUE /\ wire'[u] = <<>>
        /\ holder' = holder
    <3>1. q.serial = 2 /\ q.cmd = "NOOP"
      BY <1>12 DEF Second
    <3>2. Loud(q.cmd) = "NOOP"
      BY <3>1, LoudIs
    <3>3. status = "OK" /\ holder' = holder /\ outcome'[u] = outcome[u]
      BY <1>3, <1>4, <1>10, <3>1, <3>2
    <3>4. alive'[u] = TRUE
      BY <1>3, <3>2
    <3>5. wire'[u] = <<>>
      BY <1>3, <1>12, TailsOf
    <3>6. QED BY <3>1, <3>2, <3>3, <3>4, <3>5
  <2>2. Requests(u)'
    BY <1>12, <2>1 DEF Requests
  <2>3. Locks(u)'
    BY <1>1, <1>2, <1>3, <2>1 DEF UserInv, Locks, Holds
  <2>4. Responses(u)'
    <3>1. IsSeq(back[u]) /\ \A i \in 1..Len(back[u]) : back[u][i].status \in {outcome[u], "OK"}
      BY <1>1 DEF UserInv, Responses
    <3>2. (Refused(u)' <=> Refused(u)) /\ (Done(u)' <=> Done(u))
          /\ (Over(u, 0)' <=> Over(u, 0)) /\ (Over(u, 3)' <=> Over(u, 3))
      BY <1>3, <2>1 DEF Refused, Done, Over
    <3>3. CASE link[u].stage = "open"
      <4>1. proc[u].pc \in Active
        BY <1>1, <1>7, <3>3 DEF UserInv, Typed, Active
      <4>2. PICK old, s : old = back[u] /\ s = back'[u] /\ s = old \o Answers(q, status)
        BY <1>3, <3>3
      <4>3. PICK Old : Old = {outcome[u], "OK"}
        OBVIOUS
      <4>4. /\ s = old \o Answers(q, status) /\ IsSeq(old)
            /\ \A i \in 1..Len(old) : old[i].status \in Old
        BY <3>1, <4>2, <4>3
      <4>5. /\ IsSeq(s) /\ \A i \in 1..Len(s) : s[i].status \in Old \cup {status}
            /\ old # <<>> => s # <<>> /\ Head(s) = Head(old)
        BY <4>4, QueueIs, ZenonT(60)
      <4>6. IsSeq(back[u])' /\ \A i \in 1..Len(back'[u]) : back'[u][i].status \in {outcome'[u], "OK"}
        BY <2>1, <4>2, <4>3, <4>5
      <4>7. Refused(u) /\ proc[u].pc \in {"quiet", "receiving"} =>
              back'[u] # <<>> /\ Head(back'[u]).status # "OK"
        BY <1>1, <4>2, <4>5 DEF UserInv, Responses
      <4>8. QED BY <1>1, <1>3, <1>12, <2>1, <3>2, <4>1, <4>6, <4>7 DEF UserInv, Responses
    <3>4. CASE link[u].stage # "open"
      BY <1>1, <1>3, <2>1, <3>2, <3>4 DEF UserInv, Responses
    <3>5. QED BY <3>3, <3>4
  <2>5. QED BY <1>2, <1>4, <1>5, <1>8, <1>9, <2>2, <2>3, <2>4, UserStep DEF UserInv
<1>13. QED BY <1>6, <1>11, <1>12

(* Every step keeps the invariant,                                          *)
LEMMA YcNextInv == YcInv /\ [YcNext]_ycVars => YcInv'
<1> SUFFICES ASSUME YcInv, [YcNext]_ycVars PROVE YcInv'
  OBVIOUS
<1>1. ConnectInv'
  BY ToolConnects, ConnectKeeps DEF YcInv, Domains
<1>2. CASE UNCHANGED ycVars
  <2>1. UNCHANGED <<link, session, proc, wire, back, alive, holder, outcome>>
    BY <1>2 DEF ycVars
  <2>2. Domains' /\ \A k \in DOMAIN holder' : holder'[k] \in Users
    BY <1>1, <2>1 DEF YcInv, Domains
  <2>3. ASSUME NEW u \in Users PROVE UserInv(u)'
    <3>1. UserInv(u)
      BY DEF YcInv
    <3>2. Typed(u)' /\ Going(u)'
      BY <2>1, <3>1 DEF UserInv, Typed, Invocations, IsProc, Going, Sound, Now
    <3>3. Requests(u)'
      BY <2>1, <3>1 DEF UserInv, Requests, First, Second
    <3>4. Responses(u)' /\ Locks(u)'
      BY <2>1, <3>1 DEF UserInv, Responses, Refused, Done, Over, Locks, Holds
    <3>5. QED BY <3>2, <3>3, <3>4 DEF UserInv
  <2>4. QED BY <2>2, <2>3 DEF YcInv
<1>3. ASSUME NEW u \in Users,
             Start(u) \/ Process(u) \/ Handle(u) \/ Hangup(u) \/ Drop(u)
      PROVE  YcInv'
  <2>1. Domains
    BY DEF YcInv
  <2>2. /\ DOMAIN proc' = Users /\ DOMAIN wire' = Users /\ DOMAIN back' = Users
        /\ DOMAIN alive' = Users /\ DOMAIN outcome' = Users
    <3> USE <2>1 DEF Domains
    <3>1. CASE Start(u) BY <3>1 DEF Start
    <3>2. CASE Connecting(u) BY <3>2 DEF Connecting
    <3>3. CASE ConnectFailed(u) BY <3>3 DEF ConnectFailed
    <3>4. CASE Run(u) BY <3>4 DEF Run, Exits, Put
    <3>5. CASE Flush(u) BY <3>5 DEF Flush, Put
    <3>6. CASE SendFails(u) BY <3>6 DEF SendFails, Exits
    <3>7. CASE Recv(u) BY <3>7 DEF Recv, Exits
    <3>8. CASE RecvFails(u) BY <3>8 DEF RecvFails, Exits
    <3>9. CASE Enter(u) BY <3>9 DEF Enter, Exits
    <3>10. CASE Handle(u) BY <3>10 DEF Handle
    <3>11. CASE Hangup(u) \/ Drop(u) BY <3>11 DEF Hangup, Drop, Lose
    <3>12. QED BY <1>3, <3>1, <3>2, <3>3, <3>4, <3>5, <3>6, <3>7, <3>8, <3>9, <3>10, <3>11
               DEF Process
  <2>3. Domains'
    BY <1>1, <2>2 DEF Domains
  <2>4. CASE Start(u) BY <2>3, <2>4, StartKeeps
  <2>5. CASE Connecting(u) BY <2>3, <2>5, ConnectingKeeps
  <2>6. CASE ConnectFailed(u) \/ SendFails(u) \/ RecvFails(u) \/ Enter(u)
    BY <2>3, <2>6, EndsKeep
  <2>7. CASE Run(u) BY <2>3, <2>7, RunKeeps
  <2>8. CASE Flush(u) BY <2>3, <2>8, FlushKeeps
  <2>9. CASE Recv(u) BY <2>3, <2>9, RecvKeeps
  <2>10. CASE Handle(u) BY <2>3, <2>10, HandleKeeps
  <2>11. CASE Hangup(u) \/ Drop(u)
    BY <2>3, <2>11, LoseKeeps DEF Hangup, Drop
  <2>12. QED BY <1>3, <2>4, <2>5, <2>6, <2>7, <2>8, <2>9, <2>10, <2>11 DEF Process
<1>4. QED BY <1>2, <1>3 DEF YcNext

(* so it holds in every state.                                              *)
LEMMA YcAlways == YcSpec => []YcInv
BY YcInitInv, YcNextInv, PTL DEF YcSpec

(* The invariant has the types,                                             *)
LEMMA YcInvTypes == YcInv => YcTypeOK
<1> SUFFICES ASSUME YcInv PROVE YcTypeOK
  OBVIOUS
<1>1. ConnectTypeOK
  BY DEF YcInv, Domains, ConnectInv
<1>2. ASSUME NEW u \in Users
      PROVE  /\ proc[u].pc \in {"idle", "connecting", "quiet", "receiving", "prompt", "exited"}
             /\ proc[u].n \in 0..Len(session[u]) /\ proc[u].code \in 0..3
             /\ proc[u].serial \in 0..2
             /\ proc[u].pc \in {"quiet", "receiving", "prompt"} => link[u].stage = "open"
             /\ Len(wire[u]) <= 2
  <2>1. UserInv(u)
    BY DEF YcInv
  <2>2. Len(wire[u]) <= 2
    <3>1. \/ wire[u] = <<>>
          \/ \E q : wire[u] = <<q>>
          \/ \E q, r : wire[u] = <<q, r>>
      BY <2>1 DEF UserInv, Requests
    <3>2. ASSUME NEW q, wire[u] = <<q>> PROVE Len(wire[u]) <= 2
      <4>1. Len(<<q>>) = 1
        OBVIOUS
      <4>2. QED BY <3>2, <4>1
    <3>3. ASSUME NEW q, NEW r, wire[u] = <<q, r>> PROVE Len(wire[u]) <= 2
      <4>1. Len(<<q, r>>) = 2
        OBVIOUS
      <4>2. QED BY <3>3, <4>1
    <3>4. QED BY <3>1, <3>2, <3>3, EmptyIsSeq
  <2>3. QED BY <2>1, <2>2 DEF UserInv, Typed, Active
<1>3. \A k \in DOMAIN holder : holder[k] \in Users /\ alive[holder[k]]
  <2>1. ASSUME NEW k \in DOMAIN holder PROVE holder[k] \in Users /\ alive[holder[k]]
    <3>1. holder[k] \in Users /\ Holds(holder[k], k)
      BY DEF YcInv, Holds
    <3>2. QED BY <3>1 DEF YcInv, UserInv, Locks
  <2>2. QED BY <2>1
<1>4. QED BY <1>1, <1>2, <1>3 DEF YcTypeOK

(* the exit codes,                                                          *)
LEMMA YcInvDone == YcInv => ZeroMeansDone
<1> SUFFICES ASSUME YcInv, NEW u \in Users
    PROVE  /\ Over(u, 0) /\ proc[u].plan.until # "none" =>
                outcome[u] = "OK" \/ (IsGet(u) /\ Now(u).quiet /\ outcome[u] = "NOTFOUND")
           /\ Over(u, 3) => outcome[u] \notin {"none", "OK"}
           /\ Over(u, 0) => Now(u).cmd \notin {"rau", "unlock"}
  BY DEF ZeroMeansDone
<1>1. Going(u) /\ Responses(u) /\ Locks(u)
  BY DEF YcInv, UserInv
<1>2. Over(u, 3) => outcome[u] \notin {"none", "OK"}
  BY <1>1 DEF Responses
<1>3. ASSUME Over(u, 0) PROVE Sound(Now(u), proc[u].plan) /\ proc[u].plan.exit = -1
  BY <1>1, <1>3 DEF Over, Going
<1>4. ASSUME Over(u, 0), proc[u].plan.until # "none"
      PROVE  outcome[u] = "OK" \/
             (proc[u].plan.request.cmd \in Gets \cap Quiets /\ outcome[u] = "NOTFOUND")
  BY <1>1, <1>4 DEF Responses, Done, Refused
<1>5. Over(u, 0) /\ proc[u].plan.until # "none" =>
        outcome[u] = "OK" \/ (IsGet(u) /\ Now(u).quiet /\ outcome[u] = "NOTFOUND")
  BY <1>3, <1>4 DEF Sound, IsGet
<1>6. ASSUME Over(u, 0) PROVE Now(u).cmd \notin {"rau", "unlock"}
  <2>1. SUFFICES ASSUME Now(u).cmd \in {"rau", "unlock"} PROVE FALSE
    OBVIOUS
  <2>2. proc[u].plan.request.cmd \in Unlocking
    BY <1>3, <1>6, <2>1 DEF Sound
  <2>3. Unlocking \cap Quitting = {} /\ Unlocking \cap Gets = {}
    BY DEF Unlocking, Quitting, Gets
  <2>4. proc[u].plan.until # "none"
    BY <1>3, <1>6, <2>2, <2>3 DEF Sound
  <2>5. outcome[u] = "OK"
    BY <1>4, <1>6, <2>2, <2>3, <2>4
  <2>6. QED BY <1>1, <1>3, <1>6, <2>2, <2>5 DEF Locks
<1>7. QED BY <1>2, <1>5, <1>6

(* and the locks that prompts wait with.                                    *)
LEMMA YcInvPrompts == YcInv => PromptHasLock
<1> SUFFICES ASSUME YcInv, NEW u \in Users, proc[u].pc = "prompt", alive[u]
    PROVE  \/ Holds(u, proc[u].plan.request.key)
           \/ IsGet(u) /\ Now(u).quiet /\ outcome[u] = "NOTFOUND"
  BY DEF PromptHasLock
<1>1. Going(u) /\ Responses(u) /\ Locks(u)
  BY DEF YcInv, UserInv
<1>2. proc[u].plan.exit = -1 /\ Sound(Now(u), proc[u].plan) /\ proc[u].plan.prompts /\ Done(u)
  BY <1>1 DEF Going, Responses, Active
<1>3. outcome[u] = "OK" \/
      (proc[u].plan.request.cmd \in Gets \cap Quiets /\ outcome[u] = "NOTFOUND")
  BY <1>2 DEF Done, Refused
<1>4. outcome[u] = "OK" => Holds(u, proc[u].plan.request.key)
  BY <1>1, <1>2 DEF Locks, Sound
<1>5. QED BY <1>2, <1>3, <1>4 DEF Sound, IsGet

(* Every invocation of yc is in a state its main can be in: it awaits or     *)
(* prompts only on an open connection, leaves at most two requests on it,   *)
(* and a lock belongs to a connection the server still has.                 *)
THEOREM ToolTypes == YcSpec => []YcTypeOK
BY YcAlways, YcInvTypes, PTL

(* The exit code of yc can be relied on, whatever the users do at the same   *)
(* time and whenever a connection is lost: after 0 the server did what was  *)
(* asked (or had nothing to get, quietly), after 3 it did not, and rau and  *)
(* unlock never end with 0.                                                 *)
THEOREM ExitCodesTellTheOutcome == YcSpec => []ZeroMeansDone
BY YcAlways, YcInvDone, PTL

(* A user that is told to press enter to unlock holds the lock, as long as   *)
(* the connection lasts.                                                    *)
THEOREM PromptsHoldTheirLock == YcSpec => []PromptHasLock
BY YcAlways, YcInvPrompts, PTL

-----------------------------------------------------------------------------
(* What is printed.                                                        *)

(* The requests by what they do with the data they carry.                  *)
Setting    == {"SET", "SETQ", "ADD", "ADDQ", "REPLACE", "REPLACEQ", "RAU", "RAUQ"}
Prepending == {"PREPEND", "PREPENDQ"}
Extending  == {"APPEND", "APPENDQ"} \cup Prepending

(* Pack and Unpack are the functions of lz4.c, on the bytes of files.       *)
Lz4Packs ==
  /\ Byte = BYTE_MAX + 1
  /\ \A s \in Seq(Bytes) : Pack(s) = LZ4_compress(s)
  /\ \A block \in Seq(Nat) : \A size \in Nat :
       Unpack(block, size) = LZ4_decompress_safe(block, size)

(* A block of data with its length, and what has been appended to it since. *)
Block(data, plain) ==
  \E s \in Seq(Bytes) : \E t \in Seq(Nat) :
    Pack(s) # <<>> /\ data = hton32(Len(s)) \o (Pack(s) \o t) /\ plain = s \o t

(* What is stored or sent stands for plain.                                 *)
Faithful(data, flags, plain) ==
  /\ Compressed(flags) => Block(data, plain)
  /\ ~Compressed(flags) => IsSeq(data) /\ data = plain

(* Bytes are numbers.                                                      *)
LEMMA BytesAreNumbers ==
  ASSUME NEW s \in Seq(Bytes)
  PROVE  s \in Seq(Nat)
<1>1. Bytes \subseteq Nat
  BY DEF Bytes
<1> QED BY <1>1, SeqMonotonic

(* What LZ4_compress returns is bytes, and decoded when it is something.     *)
LEMMA BlockIs ==
  ASSUME Lz4Packs, NEW s \in Seq(Bytes), Pack(s) # <<>>, NEW t \in Seq(Nat)
  PROVE  /\ Pack(s) \in Seq(Nat) /\ Pack(s) \o t \in Seq(Nat) /\ Len(s) \in Nat
         /\ Unpack(Pack(s) \o t, Len(s)) = IF t = <<>> THEN [d |-> Len(s), out |-> s] ELSE Broken
<1>1. Pack(s) = LZ4_compress(s) /\ Len(s) \in Nat
  BY DEF Lz4Packs
<1>2. LZ4_compress(s) = WholeBlock(s) /\ ~(Len(s) > LZ4_MAX_INPUT_SIZE)
  BY <1>1 DEF LZ4_compress
<1>3. LZ4_compress(s) \in Seq(Nat)
  BY <1>2, BlockBytes
<1>4. LZ4_compress(s) \o t \in Seq(Nat)
  BY <1>3, Joined
<1>5. LZ4_decompress_safe(LZ4_compress(s) \o t, Len(s))
        = IF t = <<>> THEN [d |-> Len(s), out |-> s] ELSE Broken
  BY <1>2, LZ4RoundTrip
<1>6. Unpack(LZ4_compress(s) \o t, Len(s)) = LZ4_decompress_safe(LZ4_compress(s) \o t, Len(s))
  BY <1>1, <1>4 DEF Lz4Packs
<1> QED BY <1>1, <1>3, <1>4, <1>5, <1>6, Zenon

(* A number is put together from the bytes it was taken apart into.         *)
LEMMA NumberBack ==
  ASSUME NEW n \in Nat
  PROVE  /\ hton32(n) \in Seq(Nat) /\ Len(hton32(n)) = 4
         /\ ((hton32(n)[1] * Byte + hton32(n)[2]) * Byte + hton32(n)[3]) * Byte + hton32(n)[4] = n
<1>1. PICK B \in Nat \ {0} : B = Byte
  BY WidthAssumption
<1>2. PICK a \in Nat, r \in Nat : a = n \div B /\ r = n % B /\ n = B * a + r
  BY DivMod
<1>3. PICK b \in Nat, q \in Nat : b = a \div B /\ q = a % B /\ a = B * b + q
  BY DivMod
<1>4. PICK c \in Nat, p \in Nat : c = b \div B /\ p = b % B /\ b = B * c + p
  BY DivMod
<1>5. hton32(n) = <<c, p, q, r>>
  BY <1>1, <1>2, <1>3, <1>4 DEF hton32
<1>6. b * B + q = a /\ a * B + r = n /\ c * B + p = b
  BY <1>2, <1>3, <1>4
<1>7. ((c * B + p) * B + q) * B + r = n
  BY <1>6
<1>8. /\ <<c, p, q, r>> \in Seq(Nat) /\ Len(<<c, p, q, r>>) = 4
      /\ <<c, p, q, r>>[1] = c /\ <<c, p, q, r>>[2] = p
      /\ <<c, p, q, r>>[3] = q /\ <<c, p, q, r>>[4] = r
  OBVIOUS
<1> QED BY <1>1, <1>5, <1>7, <1>8, Zenon

(* A sequence with a number before it.                                      *)
LEMMA HeadOf ==
  ASSUME NEW x \in Seq(Nat), NEW n \in Nat
  PROVE  /\ hton32(n) \o x \in Seq(Nat) /\ Len(hton32(n) \o x) >= 4
         /\ ntoh32(hton32(n) \o x) = n
         /\ SubSeq(hton32(n) \o x, 5, Len(hton32(n) \o x)) = x
<1>1. PICK h \in Seq(Nat) : h = hton32(n)
  BY NumberBack
<1>2. Len(h) = 4 /\ ((h[1] * Byte + h[2]) * Byte + h[3]) * Byte + h[4] = n
  BY <1>1, NumberBack
<1>3. PICK m \in Nat : m = Len(x)
  OBVIOUS
<1>4. PICK y \in Seq(Nat) : y = h \o x
  BY Joined
<1>5. /\ Len(y) = 4 + m
      /\ y[1] = h[1] /\ y[2] = h[2] /\ y[3] = h[3] /\ y[4] = h[4]
      /\ \A i \in 1..m : y[i + 4] = x[i]
  <2>1. /\ Len(y) = Len(h) + Len(x)
        /\ \A i \in 1..(Len(h) + Len(x)) : y[i] = IF i <= Len(h) THEN h[i] ELSE x[i - Len(h)]
    BY <1>4, ConcatProperties
  <2>2. /\ Len(y) = 4 + m
        /\ \A i \in 1..(4 + m) : y[i] = IF i <= 4 THEN h[i] ELSE x[i - 4]
    BY <1>2, <1>3, <2>1, Zenon
  <2>3. \A i \in 1..4 : y[i] = h[i]
    <3> SUFFICES ASSUME NEW i \in 1..4 PROVE y[i] = h[i]
      OBVIOUS
    <3>1. i \in 1..(4 + m) /\ i <= 4
      BY <1>3
    <3> QED BY <2>2, <3>1, Zenon
  <2>4. \A i \in 1..m : y[i + 4] = x[i]
    <3> SUFFICES ASSUME NEW i \in 1..m PROVE y[i + 4] = x[i]
      OBVIOUS
    <3>1. PICK k \in Nat : k = i + 4 /\ ~(k <= 4) /\ k \in 1..(4 + m) /\ k - 4 = i
      OBVIOUS
    <3> QED BY <2>2, <3>1
  <2>5. 1 \in 1..4 /\ 2 \in 1..4 /\ 3 \in 1..4 /\ 4 \in 1..4
    OBVIOUS
  <2> QED BY <2>2, <2>3, <2>4, <2>5
<1>6. ntoh32(y) = n
  BY <1>2, <1>5, Zenon DEF ntoh32
<1>7. SubSeq(y, 5, Len(y)) = x
  <2>1. 4 + m <= Len(y)
    BY <1>5
  <2>2. /\ SubSeq(y, 4 + 1, 4 + m) \in Seq(Nat) /\ Len(SubSeq(y, 4 + 1, 4 + m)) = m
        /\ \A k \in 1..m : SubSeq(y, 4 + 1, 4 + m)[k] = y[4 + k]
    <3>1. PICK p \in Nat : p = 4
      OBVIOUS
    <3>2. p + m <= Len(y)
      BY <2>1, <3>1
    <3>3. /\ SubSeq(y, p + 1, p + m) \in Seq(Nat) /\ Len(SubSeq(y, p + 1, p + m)) = m
          /\ \A k \in 1..m : SubSeq(y, p + 1, p + m)[k] = y[p + k]
      <4>1. SubSeq(y, p + 1, p + m) \in Seq(Nat)
        BY <3>2, Slice
      <4>2. Len(SubSeq(y, p + 1, p + m)) = m
        BY <3>2, Slice
      <4>3. \A k \in 1..m : SubSeq(y, p + 1, p + m)[k] = y[p + k]
        BY <3>2, Slice
      <4> QED BY <4>1, <4>2, <4>3
    <3> QED BY <3>1, <3>3, Zenon
  <2>3. PICK z \in Seq(Nat) : z = SubSeq(y, 4 + 1, 4 + m)
    BY <2>2
  <2>4. Len(z) = Len(x) /\ \A k \in 1..Len(z) : z[k] = x[k]
    BY <1>3, <1>5, <2>2, <2>3
  <2>5. z = x
    BY <2>4, SeqEqual
  <2>6. 4 + 1 = 5
    OBVIOUS
  <2> QED BY <1>5, <2>3, <2>5, <2>6
<1>8. Len(y) >= 4
  BY <1>5
<1> QED BY <1>1, <1>4, <1>6, <1>7, <1>8

(* The receiver gets back what data stands for, or an error.                *)
LEMMA DecodedIs ==
  ASSUME Lz4Packs, NEW r, Faithful(r.data, r.flags, r.plain), NEW decoded \in Decoded(r), decoded.ok
  PROVE  decoded.data = r.plain
<1>1. CASE ~Compressed(r.flags)
  <2>1. decoded = [ok |-> TRUE, data |-> r.data]
    BY <1>1 DEF Decoded
  <2> QED BY <1>1, <2>1 DEF Faithful
<1>2. CASE Compressed(r.flags)
  <2>1. PICK s \in Seq(Bytes) : \E t \in Seq(Nat) :
          Pack(s) # <<>> /\ r.data = hton32(Len(s)) \o (Pack(s) \o t) /\ r.plain = s \o t
    BY <1>2 DEF Faithful, Block
  <2>2. PICK t \in Seq(Nat) :
          Pack(s) # <<>> /\ r.data = hton32(Len(s)) \o (Pack(s) \o t) /\ r.plain = s \o t
    BY <2>1
  <2>3. /\ Pack(s) \o t \in Seq(Nat) /\ Len(s) \in Nat
        /\ Unpack(Pack(s) \o t, Len(s)) = IF t = <<>> THEN [d |-> Len(s), out |-> s] ELSE Broken
    BY <2>2, BlockIs
  <2>4. ntoh32(r.data) = Len(s) /\ SubSeq(r.data, 5, Len(r.data)) = Pack(s) \o t
    BY <2>2, <2>3, HeadOf
  <2>5. PICK size, got : size = ntoh32(r.data) /\ got = Unpack(SubSeq(r.data, 5, Len(r.data)), size)
    OBVIOUS
  <2>6. decoded = [ok |-> TRUE, data |-> got.out] /\ got.d = size
    BY <1>2, <2>5 DEF Decoded, Undecoded
  <2>7. t = <<>> /\ got.out = s
    <3>1. got = IF t = <<>> THEN [d |-> Len(s), out |-> s] ELSE Broken
      BY <2>3, <2>4, <2>5
    <3>2. Broken.d # Len(s)
      BY <2>3 DEF Broken
    <3>3. t = <<>>
      BY <2>4, <2>5, <2>6, <3>1, <3>2
    <3> QED BY <3>1, <3>3
  <2>8. s \o <<>> = s
    OBVIOUS
  <2> QED BY <2>2, <2>6, <2>7, <2>8
<1> QED BY <1>1, <1>2

(* Data that stands for something is a sequence, and so is what it stands    *)
(* for.                                                                    *)
LEMMA FaithfulSeqs ==
  ASSUME Lz4Packs, NEW data, NEW flags, NEW plain, Faithful(data, flags, plain)
  PROVE  IsSeq(data) /\ IsSeq(plain)
<1>1. CASE ~Compressed(flags)
  BY <1>1 DEF Faithful
<1>2. CASE Compressed(flags)
  <2>1. PICK s \in Seq(Bytes) : \E t \in Seq(Nat) :
          Pack(s) # <<>> /\ data = hton32(Len(s)) \o (Pack(s) \o t) /\ plain = s \o t
    BY <1>2 DEF Faithful, Block
  <2>2. PICK t \in Seq(Nat) :
          Pack(s) # <<>> /\ data = hton32(Len(s)) \o (Pack(s) \o t) /\ plain = s \o t
    BY <2>1
  <2>3. Pack(s) \o t \in Seq(Nat) /\ Len(s) \in Nat /\ s \in Seq(Nat)
    BY <2>2, BlockIs, BytesAreNumbers
  <2>4. data \in Seq(Nat) /\ plain \in Seq(Nat)
    BY <2>2, <2>3, HeadOf, Joined
  <2> QED BY <2>4 DEF IsSeq
<1> QED BY <1>1, <1>2

(* More bytes behind what is stored stand for more behind what it means.    *)
LEMMA AppendFaithful ==
  ASSUME Lz4Packs, NEW data, NEW flags, NEW plain, Faithful(data, flags, plain),
         NEW more \in Seq(Nat)
  PROVE  Faithful(data \o more, flags, plain \o more)
<1>1. CASE ~Compressed(flags)
  <2>1. PICK S : data \in Seq(S)
    BY <1>1 DEF Faithful, IsSeq
  <2>2. data \in Seq(S \cup Nat) /\ more \in Seq(S \cup Nat)
    BY <2>1, Widened, S \cup Nat = Nat \cup S
  <2>3. data \o more \in Seq(S \cup Nat)
    BY <2>2
  <2> QED BY <1>1, <2>3 DEF Faithful, IsSeq
<1>2. CASE Compressed(flags)
  <2>1. PICK s \in Seq(Bytes) : \E t \in Seq(Nat) :
          Pack(s) # <<>> /\ data = hton32(Len(s)) \o (Pack(s) \o t) /\ plain = s \o t
    BY <1>2 DEF Faithful, Block
  <2>2. PICK t \in Seq(Nat) :
          Pack(s) # <<>> /\ data = hton32(Len(s)) \o (Pack(s) \o t) /\ plain = s \o t
    BY <2>1
  <2>3. PICK b \in Seq(Nat) : b = Pack(s)
    BY <2>2, BlockIs
  <2>4. Len(s) \in Nat /\ s \in Seq(Nat) /\ b \o t \in Seq(Nat) /\ t \o more \in Seq(Nat)
    BY <2>3, BytesAreNumbers, Joined
  <2>5. PICK x \in Seq(Nat) : x = hton32(Len(s))
    BY <2>4, NumberBack
  <2>6. (x \o (b \o t)) \o more = x \o (b \o (t \o more))
    <3>1. (x \o (b \o t)) \o more = x \o ((b \o t) \o more)
      BY <2>4, ConcatAssociative, SMTT(60)
    <3>2. (b \o t) \o more = b \o (t \o more)
      BY <2>4, ConcatAssociative, SMTT(60)
    <3> QED BY <3>1, <3>2
  <2>7. (s \o t) \o more = s \o (t \o more)
    BY <2>4, ConcatAssociative, SMTT(60)
  <2>8. data \o more = hton32(Len(s)) \o (Pack(s) \o (t \o more)) /\ plain \o more = s \o (t \o more)
    BY <2>2, <2>3, <2>5, <2>6, <2>7, Zenon
  <2>9. Block(data \o more, plain \o more)
    BY <2>2, <2>4, <2>8 DEF Block
  <2> QED BY <1>2, <2>9 DEF Faithful
<1> QED BY <1>1, <1>2

(* Something in front of data that is not compressed.                       *)
LEMMA PrependFaithful ==
  ASSUME NEW data, NEW flags, NEW plain, Faithful(data, flags, plain), ~Compressed(flags),
         NEW more \in Seq(Nat)
  PROVE  Faithful(more \o data, flags, more \o plain)
<1>1. PICK S : data \in Seq(S)
  BY DEF Faithful, IsSeq
<1>2. data \in Seq(S \cup Nat) /\ more \in Seq(S \cup Nat)
  BY <1>1, Widened, S \cup Nat = Nat \cup S
<1>3. more \o data \in Seq(S \cup Nat)
  BY <1>2
<1> QED BY <1>3 DEF Faithful, IsSeq

(* Flags and lengths.                                                      *)
LEMMA FlagIs == CompressFlag \in Nat \ {0} /\ U32 \in Nat \ {0} /\ ~Compressed(0)
<1>1. PICK w \in Nat : w = U32 /\ w >= 8
  BY WidthAssumption
<1>2. w \div 4 \in Nat \ {0}
  BY <1>1
<1>3. PICK f \in Nat \ {0} : f = w \div 4
  BY <1>2
<1>4. 0 \div f = 0
  BY <1>3
<1>5. CompressFlag = f
  BY <1>1, <1>3 DEF CompressFlag
<1> QED BY <1>1, <1>3, <1>4, <1>5 DEF Compressed

(* The flag bit is set by adding it.                                        *)
LEMMA FlagAdded ==
  ASSUME NEW flags \in Nat, ~Compressed(flags)
  PROVE  Compressed(flags + CompressFlag)
<1>1. PICK f \in Nat \ {0} : f = CompressFlag
  BY FlagIs
<1>2. PICK q \in Nat, r \in 0..(f - 1) : q = flags \div f /\ flags = f * q + r
  BY DivMod
<1>3. q + 1 \in Nat /\ (q + 1) * f + r = flags + f
  BY <1>2
<1>4. ((q + 1) * f + r) \div f = q + 1
  BY <1>3, Digits
<1>5. q % 2 # 1
  BY <1>1, <1>2 DEF Compressed
<1>6. (q + 1) % 2 = 1
  BY <1>5
<1>7. (flags + f) \div f = q + 1
  BY <1>3, <1>4
<1> QED BY <1>1, <1>6, <1>7 DEF Compressed

(* Data shorter than an int can say is compressed as a whole.               *)
LEMMA LengthsFit ==
  ASSUME NEW s \in Seq(Bytes), Len(s) < U32 \div 2
  PROVE  /\ Int32(Len(s)) = Len(s) /\ Uint32(Len(s)) = Len(s)
         /\ SubSeq(s, 1, Int32(Len(s))) = s
<1>1. PICK n \in Nat, w \in Nat \ {0} : n = Len(s) /\ w = U32
  BY FlagIs
<1>2. n < w \div 2 /\ n < w
  BY <1>1
<1>3. n \in 0..(w - 1) /\ 0 * w + n = n
  BY <1>2
<1>4. (0 * w + n) % w = n
  BY <1>3, Digits
<1>5. n % w = n
  BY <1>3, <1>4
<1>6. Int32(Len(s)) = Len(s) /\ Uint32(Len(s)) = Len(s)
  BY <1>1, <1>2, <1>5 DEF Int32, Uint32
<1>7. SubSeq(s, 1, Len(s)) = s
  BY SubSeqFull
<1> QED BY <1>6, <1>7, Zenon

-----------------------------------------------------------------------------
(* What users do.                                                          *)

(* What a careful user stores is bytes, shorter than an int can say, and     *)
(* the flag bit of compression is not among its flags.                      *)
Sober(i) ==
  /\ HasFile(i) => i.args[2] \in Seq(Bytes)
  /\ i.cmd \in Keeping /\ HasFile(i) =>
       Len(i.args[2]) < U32 \div 2 /\ Flags(i) \in Nat /\ ~Compressed(Flags(i))

(* Numbers are taken modulo 2^32.                                           *)
LEMMA CarefulSober ==
  ASSUME Lz4Packs, NEW i, IsInvocation(i), Careful(i)
  PROVE  Sober(i)
<1>1. HasFile(i) => i.args[2] \in Seq(Bytes)
  <2>1. Byte - 1 = BYTE_MAX
    <3>1. Byte \in Nat
      BY WidthAssumption
    <3>2. BYTE_MAX \in Nat
      BY Sizes
    <3> QED BY <3>1, <3>2 DEF Lz4Packs
  <2> QED BY <2>1 DEF IsInvocation, Bytes
<1>2. i.cmd \in Keeping /\ HasFile(i) => Flags(i) \in Nat
  <2>1. PICK w \in Nat \ {0} : w = U32
    BY FlagIs
  <2>2. \A n \in Int : n % w \in Nat
    BY <2>1
  <2>3. i.cmd \in Keeping => Arg(i, 4, 0) \in Int
    BY DEF IsInvocation, Arg
  <2> QED BY <2>1, <2>2, <2>3 DEF Flags, Uint32
<1> QED BY <1>1, <1>2 DEF Careful, Sober

(* A request that carries what its invocation stores.                       *)
Means(i, q) ==
  /\ q.cmd \in Setting =>
       /\ Faithful(q.data, q.extras[1], Plain(i))
       /\ Compressed(q.extras[1]) => Packs(i) /\ q.key = i.args[1]
  /\ q.cmd \in Extending => q.data \in Seq(Nat) /\ q.data = Plain(i)
  /\ q.cmd \in Prepending =>
       i.cmd = "prepend" /\ q.key = i.args[1] /\ HasFile(i)

(* A plan that sends such a request, and prints the data of the answer when *)
(* it gets some.                                                            *)
Right(i, p) ==
  p.exit = -1 => /\ Means(i, p.request)
                 /\ p.request.cmd \in Gets => p.prints = "data"

(* Plans are right when their requests are.                                 *)
LEMMA RightWhen ==
  ASSUME NEW i, NEW r, NEW prints, NEW counts, NEW noop, NEW until, NEW prompts,
         r.out = "send" => Means(i, r) /\ (r.cmd \in Gets => prints = "data")
  PROVE  /\ Right(i, Sends(r, noop, until, prints, prompts))
         /\ Right(i, Awaits(i, r, prints)) /\ Right(i, Prompts(i, r, prints))
         /\ Right(i, Count(i, counts, Awaits(i, r, prints)))
         /\ Right(i, Count(i, counts, Prompts(i, r, prints)))
<1>1. ASSUME NEW n, NEW t, NEW p PROVE Right(i, Sends(r, n, t, prints, p))
  BY DEF Right, Sends, Stop
<1>2. Right(i, Awaits(i, r, prints)) /\ Right(i, Prompts(i, r, prints))
  BY <1>1 DEF Awaits, Prompts
<1>3. \A n : Right(i, Stop(n)) \/ n = -1
  BY DEF Right, Stop
<1>4. Right(i, Stop(1))
  BY <1>3
<1> QED BY <1>1, <1>2, <1>4 DEF Count

Others == {"NOOP", "GET", "GETQ", "GETK", "GETKQ", "GAT", "GATQ", "GATK", "GATKQ",
           "LAG", "LAGQ", "LAGK", "LAGKQ", "DELETE", "DELETEQ", "LOCK", "LOCKQ", "TOUCH",
           "UNLOCK", "UNLOCKQ", "UNLOCKALL", "UNLOCKALLQ", "FLUSH", "FLUSHQ", "QUIT", "QUITQ",
           "STAT", "KEYS", "VERSION", "INCREMENT", "INCREMENTQ", "DECREMENT", "DECREMENTQ"}

(* Requests that store nothing are all right.                               *)
LEMMA OthersMean ==
  ASSUME NEW i, NEW r, r.cmd \in Others
  PROVE  Means(i, r)
BY DEF Means, Others, Setting, Extending, Prepending

(* A pair of commands, loud and quiet, whose answers are printed rightly.    *)
Asks(loud, silent, prints) ==
  /\ loud \in Others /\ silent \in Others
  /\ loud \in Gets \/ silent \in Gets => prints = "data"

(* Requests on a key,                                                      *)
LEMMA KeyRight ==
  ASSUME NEW i, NEW loud, NEW silent, NEW key, NEW extras, NEW prints,
         NEW counts, Asks(loud, silent, prints)
  PROVE  /\ Right(i, Count(i, counts,
                 Awaits(i, OnKey(Either(i.quiet, loud, silent), key, extras), prints)))
         /\ Right(i, Count(i, counts,
                 Prompts(i, OnKey(Either(i.quiet, loud, silent), key, extras), prints)))
<1>1. PICK r : r = OnKey(Either(i.quiet, loud, silent), key, extras)
  OBVIOUS
<1>2. r.out = "send" => r.cmd = Either(i.quiet, loud, silent)
  BY <1>1 DEF OnKey, Request, BadArgument
<1>3. Either(i.quiet, loud, silent) \in {loud, silent}
  BY DEF Either
<1>4. r.out = "send" => Means(i, r) /\ (r.cmd \in Gets => prints = "data")
  BY <1>2, <1>3, OthersMean DEF Asks
<1> QED BY <1>1, <1>4, RightWhen

(* and requests on none.                                                    *)
LEMMA NoKeyRight ==
  ASSUME NEW i, NEW cmd \in Others \ Gets, NEW key, NEW extras, NEW prints,
         NEW noop, NEW until, NEW prompts
  PROVE  /\ Right(i, Sends(Request(cmd, 0, key, extras, <<>>), noop, until, prints, prompts))
         /\ Right(i, Awaits(i, Request(cmd, 0, key, extras, <<>>), prints))
<1>1. PICK r : r = Request(cmd, 0, key, extras, <<>>)
  OBVIOUS
<1>2. r.out = "send" => r.cmd = cmd
  BY <1>1 DEF Request, BadArgument
<1>3. r.out = "send" => Means(i, r) /\ (r.cmd \in Gets => prints = "data")
  BY <1>2, OthersMean
<1> QED BY <1>1, <1>3, RightWhen

(* Data and flags that send_data sends stand for the data it is given.      *)
LEMMA DataMeans ==
  ASSUME Lz4Packs, NEW i, Sober(i), i.cmd \in Keeping, Len(i.args) > 1, i.args[2] # NULL,
         NEW cmd \in Setting, NEW c, c.threshold = i.compress, NEW expire, NEW cas, NEW r,
         r = SendData(c, cmd, i.args[1], i.args[2], Flags(i), expire, cas), r.out = "send"
  PROVE  Means(i, r) /\ r.cmd \notin Gets
<1>1. PICK s \in Seq(Bytes), flags \in Nat :
        s = i.args[2] /\ flags = Flags(i) /\ Len(s) < U32 \div 2 /\ ~Compressed(flags)
  BY DEF Sober, HasFile
<1>2. Plain(i) = s
  BY <1>1 DEF Plain
<1>3. cmd \notin Extending /\ cmd \notin Prepending /\ cmd \notin Gets
  BY DEF Setting, Extending, Prepending, Gets
<1>4. PICK packs : packs = (c.threshold > 0 /\ Len(s) > c.threshold)
  OBVIOUS
<1>5. /\ Int32(Len(s)) = Len(s) /\ Uint32(Len(s)) = Len(s)
      /\ SubSeq(s, 1, Int32(Len(s))) = s
  BY <1>1, LengthsFit
<1>6. PICK block : block = Pack(SubSeq(s, 1, Int32(Len(s)))) /\ block = Pack(s)
  BY <1>5
<1>7. r = CASE i.args[1] = <<>> \/ s = <<>> -> BadArgument
            [] i.args[1] # <<>> /\ s # <<>> /\ ~packs ->
                 Request(cmd, cas, i.args[1], <<flags, expire>>, s)
            [] OTHER ->
                 IF Compressed(<<flags, expire>>[1]) THEN BadArgument
                 ELSE IF Int32(Len(s)) < 0 \/ block = <<>> THEN CompressFailed
                 ELSE Request(cmd, cas, i.args[1],
                        [<<flags, expire>> EXCEPT ![1] = @ + CompressFlag],
                        hton32(Uint32(Len(s))) \o block)
  BY <1>1, <1>4, <1>6 DEF SendData
<1>8. PICK extras, data :
        /\ r.cmd = cmd /\ r.key = i.args[1] /\ r.extras = extras /\ r.data = data
        /\ \/ ~packs /\ extras = <<flags, expire>> /\ data = s
           \/ /\ packs /\ extras = [<<flags, expire>> EXCEPT ![1] = @ + CompressFlag]
              /\ data = hton32(Uint32(Len(s))) \o block /\ block # <<>>
  <2>1. BadArgument.out # "send" /\ CompressFailed.out # "send"
    BY DEF BadArgument, CompressFailed
  <2>2. PICK extras, data :
          /\ r = Request(cmd, cas, i.args[1], extras, data)
          /\ \/ ~packs /\ extras = <<flags, expire>> /\ data = s
             \/ /\ packs /\ extras = [<<flags, expire>> EXCEPT ![1] = @ + CompressFlag]
                /\ data = hton32(Uint32(Len(s))) \o block /\ block # <<>>
    BY <1>7, <2>1, Zenon
  <2>3. r = [out |-> "send", cmd |-> cmd, cas |-> cas, key |-> i.args[1],
             extras |-> extras, data |-> data]
    BY <2>1, <2>2 DEF Request
  <2> QED BY <2>2, <2>3
<1>9. CASE ~packs /\ extras = <<flags, expire>> /\ data = s
  <2>1. extras[1] = flags /\ IsSeq(s)
    BY <1>9 DEF IsSeq
  <2>2. Faithful(data, extras[1], s)
    BY <1>1, <1>9, <2>1 DEF Faithful
  <2> QED BY <1>1, <1>2, <1>3, <1>8, <2>1, <2>2 DEF Means
<1>10. CASE /\ packs /\ extras = [<<flags, expire>> EXCEPT ![1] = @ + CompressFlag]
            /\ data = hton32(Uint32(Len(s))) \o block /\ block # <<>>
  <2>1. extras[1] = flags + CompressFlag
    BY <1>10
  <2>2. Compressed(flags + CompressFlag)
    BY <1>1, FlagAdded
  <2>3. PICK b \in Seq(Nat) : b = Pack(s)
    BY <1>6, <1>10, BlockIs, EmptySeq
  <2>4. b \o <<>> = b /\ s \o <<>> = s /\ <<>> \in Seq(Nat)
    OBVIOUS
  <2>5. data = hton32(Len(s)) \o (Pack(s) \o <<>>)
    BY <1>5, <1>6, <1>10, <2>3, <2>4, Zenon
  <2>6. Block(data, s)
    BY <1>6, <1>10, <2>4, <2>5 DEF Block
  <2>7. Faithful(data, extras[1], s)
    BY <2>1, <2>2, <2>6 DEF Faithful
  <2>8. Packs(i)
    BY <1>1, <1>4, <1>10 DEF Packs, HasFile, Keeping
  <2> QED BY <1>2, <1>3, <1>8, <2>7, <2>8 DEF Means
<1> QED BY <1>8, <1>9, <1>10

(* A command that reads a file ends without a request, or goes on.          *)
LEMMA ReadRight ==
  ASSUME NEW i, NEW counts, NEW p,
         Len(i.args) \in counts /\ i.args[2] # NULL => Right(i, p)
  PROVE  Right(i, Count(i, counts, read_data(i, p)))
<1>1. Right(i, Stop(1)) /\ Right(i, Stop(2))
  BY DEF Right, Stop
<1> QED BY <1>1 DEF Count, read_data

(* The commands that store,                                                *)
LEMMA StoresRight ==
  ASSUME Lz4Packs, NEW i, Sober(i), i.cmd \in Keeping, NEW c, c.threshold = i.compress,
         NEW loud \in Setting, NEW silent \in Setting, NEW counts, counts \subseteq 2..5,
         NEW expire, NEW cas
  PROVE  Right(i, Count(i, counts, read_data(i, Awaits(i,
           SendData(c, Either(i.quiet, loud, silent), i.args[1], i.args[2], Flags(i), expire, cas),
           "nothing"))))
<1>1. PICK r, cmd : /\ cmd = Either(i.quiet, loud, silent)
                    /\ r = SendData(c, cmd, i.args[1], i.args[2], Flags(i), expire, cas)
  OBVIOUS
<1>2. cmd \in Setting
  BY <1>1 DEF Either
<1>3. ASSUME Len(i.args) \in counts, i.args[2] # NULL PROVE Right(i, Awaits(i, r, "nothing"))
  <2>1. Len(i.args) > 1
    BY <1>3
  <2>2. r.out = "send" => Means(i, r) /\ r.cmd \notin Gets
    BY <1>1, <1>2, <1>3, <2>1, DataMeans
  <2> QED BY <2>2, RightWhen
<1>4. Right(i, Count(i, counts, read_data(i, Awaits(i, r, "nothing"))))
  BY <1>3, ReadRight
<1> QED BY <1>1, <1>4

(* They are set, replace, add and rau.                                      *)
LEMMA KeepingRight ==
  ASSUME Lz4Packs, NEW i, Sober(i), NEW c, c.threshold = i.compress
  PROVE  /\ i.cmd = "set" => Right(i, cmd_set(i, c))
         /\ i.cmd = "replace" => Right(i, cmd_replace(i, c))
         /\ i.cmd = "add" => Right(i, cmd_add(i, c))
         /\ i.cmd = "rau" => Right(i, cmd_rau(i, c))
<1>1. 2..5 \subseteq 2..5 /\ 2..4 \subseteq 2..5 /\ {"set", "replace", "add", "rau"} \subseteq Keeping
      /\ {"SET", "SETQ", "ADD", "ADDQ", "REPLACE", "REPLACEQ", "RAU", "RAUQ"} \subseteq Setting
  BY DEF Keeping, Setting
<1>2. i.cmd = "set" => Right(i, cmd_set(i, c))
  BY <1>1, StoresRight DEF cmd_set, yrmcds_set
<1>3. i.cmd = "replace" => Right(i, cmd_replace(i, c))
  BY <1>1, StoresRight DEF cmd_replace, yrmcds_replace
<1>4. i.cmd = "add" => Right(i, cmd_add(i, c))
  BY <1>1, StoresRight DEF cmd_add, yrmcds_add
<1>5. i.cmd = "rau" => Right(i, cmd_rau(i, c))
  BY <1>1, StoresRight DEF cmd_rau, yrmcds_replace_unlock
<1> QED BY <1>2, <1>3, <1>4, <1>5

(* those that add to what is stored,                                        *)
LEMMA ExtendsRight ==
  ASSUME NEW i, Sober(i)
  PROVE  /\ i.cmd = "append" => Right(i, cmd_append(i, {}))
         /\ i.cmd = "prepend" => Right(i, cmd_prepend(i, {}))
<1>1. ASSUME NEW r, NEW loud, NEW silent, loud \in Extending, silent \in Extending,
             r = IF i.args[1] = <<>> \/ i.args[2] = <<>> THEN BadArgument
                 ELSE Request(Either(i.quiet, loud, silent), 0, i.args[1], <<>>, i.args[2]),
             i.cmd \in {"append", "prepend"},
             loud \in Prepending \/ silent \in Prepending => i.cmd = "prepend"
      PROVE  Right(i, Count(i, {2}, read_data(i, Awaits(i, r, "nothing"))))
  <2>1. ASSUME Len(i.args) \in {2}, i.args[2] # NULL PROVE Right(i, Awaits(i, r, "nothing"))
    <3>1. i.args[2] \in Seq(Bytes) /\ Plain(i) = i.args[2] /\ Len(i.args) > 1
      BY <1>1, <2>1 DEF Sober, HasFile, Plain
    <3>2. i.args[2] \in Seq(Nat)
      BY <3>1, BytesAreNumbers
    <3>3. r.out = "send" =>
            r.cmd \in {loud, silent} /\ r.key = i.args[1] /\ r.data = i.args[2]
      BY <1>1 DEF Request, BadArgument, Either
    <3>4. Extending \cap Setting = {} /\ Extending \cap Gets = {}
      BY DEF Extending, Prepending, Setting, Gets
    <3>5. r.out = "send" => Means(i, r) /\ r.cmd \notin Gets
      BY <1>1, <2>1, <3>1, <3>2, <3>3, <3>4 DEF Means, HasFile
    <3> QED BY <3>5, RightWhen
  <2> QED BY <2>1, ReadRight
<1>2. ASSUME i.cmd = "append" PROVE Right(i, cmd_append(i, {}))
  <2>1. "APPEND" \in Extending /\ "APPENDQ" \in Extending
        /\ "APPEND" \notin Prepending /\ "APPENDQ" \notin Prepending
    BY DEF Extending, Prepending
  <2>2. PICK r : r = yrmcds_append(i.args[1], i.args[2], i.quiet)
    OBVIOUS
  <2>3. Right(i, Count(i, {2}, read_data(i, Awaits(i, r, "nothing"))))
    BY <1>1, <1>2, <2>1, <2>2 DEF yrmcds_append
  <2> QED BY <2>2, <2>3 DEF cmd_append
<1>3. ASSUME i.cmd = "prepend" PROVE Right(i, cmd_prepend(i, {}))
  <2>1. "PREPEND" \in Extending /\ "PREPENDQ" \in Extending
    BY DEF Extending, Prepending
  <2>2. PICK r : r = yrmcds_prepend(i.args[1], i.args[2], i.quiet)
    OBVIOUS
  <2>3. Right(i, Count(i, {2}, read_data(i, Awaits(i, r, "nothing"))))
    BY <1>1, <1>3, <2>1, <2>2 DEF yrmcds_prepend
  <2> QED BY <2>2, <2>3 DEF cmd_prepend
<1> QED BY <1>2, <1>3

(* those on a key,                                                         *)
LEMMA KeysRight ==
  ASSUME NEW i, NEW c
  PROVE  /\ Right(i, cmd_get(i, c)) /\ Right(i, cmd_getk(i, c)) /\ Right(i, cmd_gat(i, c))
         /\ Right(i, cmd_gatk(i, c)) /\ Right(i, cmd_lag(i, c)) /\ Right(i, cmd_lagk(i, c))
         /\ Right(i, cmd_touch(i, c)) /\ Right(i, cmd_delete(i, c)) /\ Right(i, cmd_lock(i, c))
         /\ Right(i, cmd_unlock(i, c)) /\ Right(i, cmd_incr(i, c)) /\ Right(i, cmd_decr(i, c))
<1>1. /\ Asks("GET", "GETQ", "data") /\ Asks("GETK", "GETKQ", "data")
      /\ Asks("GAT", "GATQ", "data") /\ Asks("GATK", "GATKQ", "data")
      /\ Asks("LAG", "LAGQ", "data") /\ Asks("LAGK", "LAGKQ", "data")
      /\ Asks("DELETE", "DELETEQ", "data")
  BY DEF Asks, Others
<1>2. /\ Asks("LOCK", "LOCKQ", "nothing") /\ Asks("UNLOCK", "UNLOCKQ", "nothing")
      /\ Asks("TOUCH", "TOUCH", "nothing") /\ Asks("INCREMENT", "INCREMENTQ", "value")
      /\ Asks("DECREMENT", "DECREMENTQ", "value")
  BY DEF Asks, Others, Gets
<1>3. Right(i, cmd_get(i, c)) /\ Right(i, cmd_getk(i, c))
  <2>1. Right(i, cmd_get(i, c)) BY <1>1, KeyRight DEF cmd_get, yrmcds_get
  <2>2. Right(i, cmd_getk(i, c)) BY <1>1, KeyRight DEF cmd_getk, yrmcds_getk
  <2> QED BY <2>1, <2>2
<1>4. Right(i, cmd_gat(i, c)) /\ Right(i, cmd_gatk(i, c))
  <2>1. Right(i, cmd_gat(i, c)) BY <1>1, KeyRight DEF cmd_gat, yrmcds_get_touch
  <2>2. Right(i, cmd_gatk(i, c)) BY <1>1, KeyRight DEF cmd_gatk, yrmcds_getk_touch
  <2> QED BY <2>1, <2>2
<1>5. Right(i, cmd_lag(i, c)) /\ Right(i, cmd_lagk(i, c))
  <2>1. Right(i, cmd_lag(i, c)) BY <1>1, KeyRight DEF cmd_lag, yrmcds_lock_get
  <2>2. Right(i, cmd_lagk(i, c)) BY <1>1, KeyRight DEF cmd_lagk, yrmcds_lock_getk
  <2> QED BY <2>1, <2>2
<1>6. Right(i, cmd_delete(i, c))
  BY <1>1, KeyRight DEF cmd_delete, yrmcds_remove
<1>7. Right(i, cmd_lock(i, c)) /\ Right(i, cmd_unlock(i, c))
  <2>1. Right(i, cmd_lock(i, c)) BY <1>2, KeyRight DEF cmd_lock, yrmcds_lock
  <2>2. Right(i, cmd_unlock(i, c)) BY <1>2, KeyRight DEF cmd_unlock, yrmcds_unlock
  <2> QED BY <2>1, <2>2
<1>8. Right(i, cmd_touch(i, c))
  <2>1. yrmcds_touch(i.args[1], Uint32(i.args[2]), i.quiet)
          = OnKey(Either(i.quiet, "TOUCH", "TOUCH"), i.args[1], <<Uint32(i.args[2])>>)
    BY DEF yrmcds_touch, Either
  <2> QED BY <1>2, <2>1, KeyRight DEF cmd_touch
<1>9. ASSUME NEW loud, NEW silent, NEW r, NEW key, NEW extras,
             Asks(loud, silent, "value"),
             r = OnKey(Either(i.quiet, loud, silent), key, extras)
      PROVE  Right(i, Count(i, 2..4, Awaits(i, r, "value")))
  BY <1>9, KeyRight
<1>10. Right(i, cmd_incr(i, c))
  <2>1. PICK r : r = IF Len(i.args) = 2 THEN yrmcds_incr(i.args[1], Uint64(i.args[2]), i.quiet)
                     ELSE yrmcds_incr2(i.args[1], Uint64(i.args[2]), Uint64(i.args[3]),
                                       Uint32(Arg(i, 4, 0)), i.quiet)
    OBVIOUS
  <2>2. \E key, extras : r = OnKey(Either(i.quiet, "INCREMENT", "INCREMENTQ"), key, extras)
    BY <2>1, Zenon DEF yrmcds_incr, yrmcds_incr2
  <2>3. Right(i, Count(i, 2..4, Awaits(i, r, "value")))
    BY <1>2, <1>9, <2>2
  <2> QED BY <2>1, <2>3 DEF cmd_incr
<1>11. Right(i, cmd_decr(i, c))
  <2>1. PICK r : r = IF Len(i.args) = 2 THEN yrmcds_decr(i.args[1], Uint64(i.args[2]), i.quiet)
                     ELSE yrmcds_decr2(i.args[1], Uint64(i.args[2]), Uint64(i.args[3]),
                                       Uint32(Arg(i, 4, 0)), i.quiet)
    OBVIOUS
  <2>2. \E key, extras : r = OnKey(Either(i.quiet, "DECREMENT", "DECREMENTQ"), key, extras)
    BY <2>1, Zenon DEF yrmcds_decr, yrmcds_decr2
  <2>3. Right(i, Count(i, 2..4, Awaits(i, r, "value")))
    BY <1>2, <1>9, <2>2
  <2> QED BY <2>1, <2>3 DEF cmd_decr
<1> QED BY <1>3, <1>4, <1>5, <1>6, <1>7, <1>8, <1>10, <1>11

(* and all others.                                                         *)
LEMMA RestRight ==
  ASSUME NEW i, NEW c
  PROVE  /\ Right(i, cmd_noop(i, c)) /\ Right(i, cmd_version(i, c)) /\ Right(i, cmd_quit(i, c))
         /\ Right(i, cmd_keys(i, c)) /\ Right(i, cmd_stat(i, c)) /\ Right(i, cmd_flush(i, c))
         /\ Right(i, cmd_unlockall(i, c))
<1>1. {"NOOP", "VERSION", "QUIT", "QUITQ", "KEYS", "STAT", "FLUSH", "FLUSHQ", "UNLOCKALL",
       "UNLOCKALLQ"} \subseteq Others \ Gets
  BY DEF Others, Gets
<1>2. Right(i, cmd_noop(i, c)) /\ Right(i, cmd_version(i, c)) /\ Right(i, cmd_keys(i, c))
  <2>1. Right(i, cmd_noop(i, c)) /\ Right(i, cmd_version(i, c))
    BY <1>1, NoKeyRight DEF cmd_noop, yrmcds_noop, cmd_version, yrmcds_version
  <2>2. ASSUME NEW given, NEW prefix
        PROVE  Right(i, Sends(yrmcds_keys(given, prefix), FALSE, "empty", "keys", FALSE))
    <3>1. CASE given /\ prefix = <<>>
      <4>1. yrmcds_keys(given, prefix).out # "send"
        BY <3>1 DEF yrmcds_keys, BadArgument
      <4> QED BY <4>1, RightWhen
    <3>2. CASE ~(given /\ prefix = <<>>)
      <4>1. yrmcds_keys(given, prefix) = Request("KEYS", 0, prefix, <<>>, <<>>)
        BY <3>2 DEF yrmcds_keys
      <4> QED BY <1>1, <4>1, NoKeyRight
    <3> QED BY <3>1, <3>2
  <2> QED BY <2>1, <2>2 DEF cmd_keys
<1>3. Right(i, cmd_quit(i, c))
  BY <1>1, NoKeyRight DEF cmd_quit, yrmcds_quit, Either
<1>4. Right(i, cmd_stat(i, c))
  <2>1. Right(i, Stop(1))
    BY DEF Right, Stop
  <2>2. \A key : Right(i, Sends(Request("STAT", 0, key, <<>>, <<>>), FALSE, "empty", "keys", FALSE))
    BY <1>1, NoKeyRight
  <2> QED BY <2>1, <2>2 DEF cmd_stat, yrmcds_stat_general, yrmcds_stat_settings,
               yrmcds_stat_items, yrmcds_stat_sizes
<1>5. Right(i, cmd_flush(i, c))
  <2>1. PICK delay : delay = IF Len(i.args) = 1 THEN Uint32(i.args[1]) ELSE 0
    OBVIOUS
  <2>2. PICK cmd, extras : /\ cmd = Either(i.quiet, "FLUSH", "FLUSHQ")
                           /\ extras = IF delay = 0 THEN <<>> ELSE <<delay>>
    OBVIOUS
  <2>3. Right(i, Awaits(i, Request(cmd, 0, <<>>, extras, <<>>), "nothing"))
    <3>1. cmd \in {"FLUSH", "FLUSHQ"}
      BY <2>2 DEF Either
    <3> QED BY <1>1, <3>1, NoKeyRight
  <2>4. yrmcds_flush(delay, i.quiet) = Request(cmd, 0, <<>>, extras, <<>>)
    BY <2>2, Zenon DEF yrmcds_flush
  <2> QED BY <2>1, <2>3, <2>4 DEF cmd_flush
<1>6. Right(i, cmd_unlockall(i, c))
  <2>1. PICK cmd : cmd \in {"UNLOCKALL", "UNLOCKALLQ"} /\ cmd = Either(i.quiet, "UNLOCKALL", "UNLOCKALLQ")
    BY DEF Either
  <2>2. Right(i, Awaits(i, Request(cmd, 0, <<>>, <<>>, <<>>), "nothing"))
    BY <1>1, <2>1, NoKeyRight
  <2> QED BY <2>1, <2>2 DEF cmd_unlockall, yrmcds_unlockall
<1> QED BY <1>2, <1>3, <1>4, <1>5, <1>6

(* So the plan of every command of a careful user is right.                 *)
LEMMA CommandRight ==
  ASSUME Lz4Packs, NEW i, Sober(i), NEW c, c.threshold = i.compress
  PROVE  Right(i, Command(i, c))
<1>1. CASE i.cmd \in {"set", "replace", "add", "rau"}
  BY <1>1, KeepingRight DEF Command
<1>2. CASE i.cmd \in {"append", "prepend"}
  <2>1. cmd_append(i, c) = cmd_append(i, {}) /\ cmd_prepend(i, c) = cmd_prepend(i, {})
    BY DEF cmd_append, cmd_prepend
  <2> QED BY <1>2, <2>1, ExtendsRight DEF Command
<1>3. CASE i.cmd \in {"get", "getk", "gat", "gatk", "lag", "lagk", "touch", "delete", "lock",
                      "unlock", "incr", "decr"}
  BY <1>3, KeysRight DEF Command
<1>4. CASE i.cmd \in {"noop", "version", "quit", "keys", "stat", "flush", "unlockall"}
  BY <1>4, RestRight DEF Command
<1>5. CASE i.cmd \notin {"get", "getk", "gat", "gatk", "lag", "lagk", "touch", "delete", "lock",
                         "unlock", "set", "replace", "add", "rau", "append", "prepend", "incr",
                         "decr", "noop", "version", "quit", "keys", "stat", "flush", "unlockall"}
  <2>1. Command(i, c) = Stop(1)
    BY <1>5 DEF Command
  <2> QED BY <2>1 DEF Right, Stop
<1> QED BY <1>1, <1>2, <1>3, <1>4, <1>5

-----------------------------------------------------------------------------
(* The inductive invariant: what is stored, sent and received stands for     *)
(* what users mean, and what is shown is that.                              *)

(* A request of the wire carries what stands for what its user means; only   *)
(* keys that may be compressed get a block, and never something before it.  *)
Sincere(q) ==
  /\ q.cmd \in Setting =>
       /\ Faithful(q.data, q.extras[1], q.plain)
       /\ Compressed(q.extras[1]) => PackedKey(q.key)
  /\ q.cmd \in Extending => q.data \in Seq(Nat) /\ q.plain = q.data
  /\ q.cmd \in Prepending => ~PackedKey(q.key)

(* What is stored stands for what was meant.                                *)
Entry(k, e) ==
  /\ e = [data |-> e.data, flags |-> e.flags, plain |-> e.plain]
  /\ Faithful(e.data, e.flags, e.plain)
  /\ Compressed(e.flags) => PackedKey(k)

(* And so does an answer.                                                   *)
Honest(r) == Faithful(r.data, r.flags, r.plain)

(* Nothing has been printed.                                               *)
Blank(u) == shown[u] = <<>> /\ lost[u] = FALSE

(* What a get shows: nothing before its answer, what is meant at its end.    *)
Printing(u) ==
  /\ proc[u].pc = "connecting" => Blank(u)
  /\ proc[u].plan.exit = -1 /\ proc[u].plan.request.cmd \in Gets =>
       /\ proc[u].plan.prints = "data"
       /\ proc[u].pc \in {"quiet", "receiving"} => Blank(u)
       /\ proc[u].pc = "prompt" \/ (proc[u].pc = "exited" /\ proc[u].code = 0) =>
            Printed(u)

(* Both directions of a connection.                                         *)
Carried(u) ==
  /\ wire[u] # <<>> => Sincere(Head(wire[u]))
  /\ \A j \in 1..Len(back[u]) : Honest(back[u][j])

(* The whole store.                                                         *)
Entries == \A k \in DOMAIN store : Entry(k, store[k])

(* Users do what they may.                                                 *)
Invoked == \A u \in Users : \A n \in 1..Len(session[u]) : IsInvocation(session[u][n])

(* What every step keeps.                                                   *)
PrintInv ==
  /\ CarefulUsers /\ Invoked /\ Entries
  /\ DOMAIN shown = Users /\ DOMAIN lost = Users /\ DOMAIN meant = Users
  /\ \A u \in Users : Printing(u) /\ Carried(u)

(* What the users do does not change.                                       *)
LEMMA SameUse ==
  ASSUME UNCHANGED session
  PROVE  /\ \A k : PackedKey(k)' <=> PackedKey(k)
         /\ CarefulUsers' <=> CarefulUsers
         /\ Invoked' <=> Invoked
         /\ \A q : Sincere(q)' <=> Sincere(q)
         /\ \A k, e : Entry(k, e)' <=> Entry(k, e)
<1>1. \A k : PackedKey(k)' <=> PackedKey(k)
  BY DEF PackedKey
<1>2. CarefulUsers' <=> CarefulUsers
  BY <1>1 DEF CarefulUsers, Careful
<1>5. Invoked' <=> Invoked
  BY DEF Invoked
<1>3. \A q : Sincere(q)' <=> Sincere(q)
  BY <1>1 DEF Sincere
<1>4. \A k, e : Entry(k, e)' <=> Entry(k, e)
  BY <1>1 DEF Entry
<1> QED BY <1>1, <1>2, <1>3, <1>4, <1>5

(* A step of one user disturbs no other.                                    *)
LEMMA PrintStep ==
  ASSUME PrintInv, UNCHANGED session, NEW u \in Users,
         DOMAIN shown' = Users, DOMAIN lost' = Users, DOMAIN meant' = Users, Elsewhere(u),
         \A d \in Users \ {u} : shown'[d] = shown[d] /\ lost'[d] = lost[d] /\ meant'[d] = meant[d],
         Entries', Printing(u)', Carried(u)'
  PROVE  PrintInv'
<1>1. ASSUME NEW d \in Users, d # u PROVE Printing(d)' /\ Carried(d)'
  <2>1. /\ Printing(d) /\ Carried(d) /\ proc'[d] = proc[d] /\ wire'[d] = wire[d]
        /\ back'[d] = back[d] /\ shown'[d] = shown[d] /\ lost'[d] = lost[d] /\ meant'[d] = meant[d]
    BY <1>1 DEF PrintInv, Elsewhere
  <2>2. Printing(d)'
    BY <2>1 DEF Printing, Blank, Printed
  <2>3. Carried(d)'
    BY <2>1, SameUse DEF Carried
  <2> QED BY <2>2, <2>3
<1>2. CarefulUsers' /\ Invoked'
  BY SameUse DEF PrintInv
<1> QED BY <1>1, <1>2 DEF PrintInv

(* Entries that are not touched stay what they are.                         *)
LEMMA EntriesSame ==
  ASSUME PrintInv, UNCHANGED <<session, store>>
  PROVE  Entries'
BY SameUse DEF PrintInv, Entries

(* Nothing is stored or shown at first.                                     *)
LEMMA PrintInitInv == YcInit /\ CarefulUsers => PrintInv
<1> SUFFICES ASSUME YcInit, CarefulUsers PROVE PrintInv
  OBVIOUS
<1>1. Entries /\ DOMAIN shown = Users /\ DOMAIN lost = Users /\ DOMAIN meant = Users
  BY DEF YcInit, Entries
<1>2. ASSUME NEW u \in Users PROVE Printing(u) /\ Carried(u)
  <2>1. /\ proc[u] = [pc |-> "idle", n |-> 0, plan |-> NoPlan, serial |-> 0, code |-> 0]
        /\ wire[u] = <<>> /\ back[u] = <<>> /\ Blank(u)
    BY <1>2 DEF YcInit, Blank
  <2>2. proc[u].plan.exit # -1
    BY <2>1 DEF NoPlan, Stop
  <2> QED BY <2>1, <2>2, EmptyIsSeq DEF Printing, Carried
<1>3. Invoked
  BY SessionsAssumption DEF YcInit, Invoked
<1> QED BY <1>1, <1>2, <1>3 DEF PrintInv

(* A command begins.                                                       *)
LEMMA StartPrints ==
  ASSUME YcInv, PrintInv, NEW u \in Users, Start(u)
  PROVE  PrintInv'
<1>1. DOMAIN proc = Users /\ DOMAIN outcome = Users /\ DOMAIN link = Users
      /\ DOMAIN shown = Users /\ DOMAIN lost = Users /\ DOMAIN meant = Users
  BY DEF YcInv, Domains, ConnectInv, ConnectTypeOK, PrintInv
<1>2. PICK code : code = Options(session[u][proc[u].n + 1])
  OBVIOUS
<1>3. /\ proc' = [proc EXCEPT ![u] = [pc |-> IF code = -1 THEN "connecting" ELSE "exited",
                                      n |-> proc[u].n + 1, plan |-> NoPlan, serial |-> 0,
                                      code |-> IF code = -1 THEN 0 ELSE code]]
      /\ IF code = -1 THEN StartConnect(u) \/ MutexFails(u) ELSE UNCHANGED link
      /\ shown' = [shown EXCEPT ![u] = <<>>]
      /\ lost' = [lost EXCEPT ![u] = FALSE]
      /\ outcome' = [outcome EXCEPT ![u] = "none"]
      /\ meant' = [meant EXCEPT ![u] = <<>>]
      /\ UNCHANGED <<session, wire, back, alive, store, holder>>
  BY <1>2 DEF Start
<1>4. proc'[u].plan.exit # -1 /\ Blank(u)'
  <2>1. proc'[u].plan = NoPlan /\ Blank(u)'
    BY <1>1, <1>3 DEF Blank
  <2> QED BY <2>1 DEF NoPlan, Stop
<1>5. Printing(u)'
  BY <1>4 DEF Printing
<1>6. Carried(u)'
  BY <1>3, SameUse DEF PrintInv, Carried
<1>7. \A d \in Users \ {u} : link'[d] = link[d]
  <2>1. CASE StartConnect(u)
    BY <1>1, <2>1 DEF StartConnect, NoLink
  <2>2. CASE MutexFails(u)
    BY <1>1, <2>2 DEF MutexFails, NoLink
  <2> QED BY <1>3, <2>1, <2>2
<1>8. Elsewhere(u)
  BY <1>1, <1>3, <1>7 DEF Elsewhere
<1>9. /\ DOMAIN shown' = Users /\ DOMAIN lost' = Users /\ DOMAIN meant' = Users
      /\ \A d \in Users \ {u} : shown'[d] = shown[d] /\ lost'[d] = lost[d] /\ meant'[d] = meant[d]
  BY <1>1, <1>3
<1> QED BY <1>3, <1>5, <1>6, <1>8, <1>9, EntriesSame, PrintStep

(* A connection is being made, or given up.                                 *)
LEMMA ConnectingPrints ==
  ASSUME YcInv, PrintInv, NEW u \in Users, Connecting(u) \/ ConnectFailed(u)
  PROVE  PrintInv'
<1>1. DOMAIN proc = Users /\ DOMAIN alive = Users /\ DOMAIN link = Users /\ IsProc(proc[u])
      /\ DOMAIN shown = Users /\ DOMAIN lost = Users /\ DOMAIN meant = Users
  BY DEF YcInv, Domains, ConnectInv, ConnectTypeOK, PrintInv, UserInv, Typed
<1>2. /\ UNCHANGED <<session, wire, back, store, holder, shown, lost, outcome, meant>>
      /\ proc[u].pc = "connecting"
  BY DEF Connecting, ConnectFailed
<1>3. proc[u].plan.exit # -1
  BY <1>2 DEF YcInv, UserInv, Going
<1>4. /\ proc'[u].plan = proc[u].plan /\ proc'[u].pc \in {"connecting", "exited"}
      /\ \A d \in Users \ {u} : proc'[d] = proc[d] /\ alive'[d] = alive[d] /\ link'[d] = link[d]
  <2>1. CASE Connecting(u)
    <3>1. /\ ConnectStep(u) /\ alive' = [alive EXCEPT ![u] = link'[u].stage = "open"]
          /\ proc' = proc
      BY <2>1 DEF Connecting
    <3>2. \A d \in Users \ {u} : link'[d] = link[d]
      <4> USE <1>1
      <4>1. CASE Resolve(u) BY <4>1 DEF Resolve
      <4>2. CASE ResolveAgain(u) BY <4>2 DEF ResolveAgain
      <4>3. CASE ResolveFails(u) BY <4>3 DEF ResolveFails, Fails
      <4>4. CASE OpenSocket(u) BY <4>4 DEF OpenSocket, Fails
      <4>5. CASE ConnectSocket(u) BY <4>5 DEF ConnectSocket, Fails
      <4>6. CASE PollSocket(u) BY <4>6 DEF PollSocket, Fails, Goes
      <4>7. CASE SetOptions(u) BY <4>7 DEF SetOptions, Fails, Goes
      <4>8. CASE Allocate(u) BY <4>8 DEF Allocate
      <4>9. QED BY <3>1, <4>1, <4>2, <4>3, <4>4, <4>5, <4>6, <4>7, <4>8 DEF ConnectStep
    <3> QED BY <1>1, <1>2, <3>1, <3>2
  <2>2. CASE ConnectFailed(u)
    <3>1. proc' = [proc EXCEPT ![u].pc = "exited", ![u].code = 2] /\ UNCHANGED <<link, alive>>
      BY <2>2 DEF ConnectFailed
    <3>2. proc'[u] = [proc[u] EXCEPT !.pc = "exited", !.code = 2]
          /\ \A d \in Users \ {u} : proc'[d] = proc[d]
      BY <1>1, <3>1
    <3>3. proc'[u].plan = proc[u].plan /\ proc'[u].pc = "exited"
      BY <1>1, <3>2 DEF IsProc
    <3> QED BY <3>1, <3>2, <3>3
  <2> QED BY <2>1, <2>2
<1>5. Printing(u)'
  <2>1. proc'[u].plan.exit # -1 /\ (proc'[u].pc = "connecting" => Blank(u)')
    BY <1>2, <1>3, <1>4 DEF PrintInv, Printing, Blank
  <2> QED BY <2>1 DEF Printing
<1>6. Carried(u)'
  BY <1>2, SameUse DEF PrintInv, Carried
<1>7. Elsewhere(u)
  BY <1>2, <1>4 DEF Elsewhere
<1> QED BY <1>1, <1>2, <1>5, <1>6, <1>7, EntriesSame, PrintStep

(* A process ends: what it has shown stays.                                 *)
LEMMA ExitPrints ==
  ASSUME YcInv, PrintInv, NEW u \in Users, NEW code, Exits(u, code),
         UNCHANGED <<session, wire, alive, store, holder, outcome>>,
         DOMAIN shown' = Users, DOMAIN lost' = Users, DOMAIN meant' = Users,
         \A d \in Users \ {u} : shown'[d] = shown[d] /\ lost'[d] = lost[d] /\ meant'[d] = meant[d],
         proc[u].plan.exit = -1 /\ proc[u].plan.request.cmd \in Gets /\ code = 0 =>
           Printed(u)'
  PROVE  PrintInv'
<1>1. DOMAIN proc = Users /\ DOMAIN back = Users /\ DOMAIN link = Users /\ IsProc(proc[u])
  BY DEF YcInv, Domains, ConnectInv, ConnectTypeOK, UserInv, Typed
<1>2. /\ \A d \in Users \ {u} : link'[d] = link[d] /\ back'[d] = back[d]
      /\ back'[u] = <<>>
  BY <1>1 DEF Exits, CloseLink, NoLink
<1>3. proc'[u] = [proc[u] EXCEPT !.pc = "exited", !.code = code]
      /\ \A d \in Users \ {u} : proc'[d] = proc[d]
  BY <1>1 DEF Exits
<1>4. proc'[u].pc = "exited" /\ proc'[u].code = code /\ proc'[u].plan = proc[u].plan
  BY <1>1, <1>3 DEF IsProc
<1>5. Printing(u)'
  BY <1>4 DEF Printing, PrintInv
<1>6. Carried(u)'
  BY <1>2, SameUse, EmptyIsSeq DEF PrintInv, Carried
<1>7. Elsewhere(u)
  BY <1>2, <1>3 DEF Elsewhere
<1> QED BY <1>5, <1>6, <1>7, EntriesSame, PrintStep

(* Every way out but an exit code of the command.                           *)
LEMMA EndsPrint ==
  ASSUME YcInv, PrintInv, NEW u \in Users, SendFails(u) \/ RecvFails(u) \/ Enter(u)
  PROVE  PrintInv'
<1>1. /\ UNCHANGED <<session, wire, alive, store, holder, shown, lost, outcome, meant>>
      /\ DOMAIN shown' = Users /\ DOMAIN lost' = Users /\ DOMAIN meant' = Users
      /\ \A d \in Users \ {u} : shown'[d] = shown[d] /\ lost'[d] = lost[d] /\ meant'[d] = meant[d]
  BY DEF SendFails, RecvFails, Enter, PrintInv
<1>2. CASE SendFails(u) \/ RecvFails(u)
  <2>1. PICK code : code = 2 /\ code # 0
    OBVIOUS
  <2>2. Exits(u, code)
    BY <1>2, <2>1 DEF SendFails, RecvFails
  <2> QED BY <1>1, <2>1, <2>2, ExitPrints
<1>3. CASE Enter(u)
  <2>1. proc[u].pc = "prompt" /\ Exits(u, 0)
    BY <1>3 DEF Enter
  <2>2. proc[u].plan.exit = -1 /\ proc[u].plan.request.cmd \in Gets => Printed(u)'
    BY <1>1, <2>1 DEF PrintInv, Printing, Printed
  <2> QED BY <1>1, <2>1, <2>2, ExitPrints
<1> QED BY <1>2, <1>3

(* The connection is lost, and with it the requests on it.                  *)
LEMMA LosePrints ==
  ASSUME YcInv, PrintInv, NEW u \in Users, Lose(u)
  PROVE  PrintInv'
<1>1. /\ alive' = [alive EXCEPT ![u] = FALSE] /\ wire' = [wire EXCEPT ![u] = <<>>]
      /\ UNCHANGED <<link, session, proc, back, store, shown, lost, outcome, meant>>
  BY DEF Lose
<1>2. /\ wire'[u] = <<>>
      /\ \A d \in Users \ {u} : alive'[d] = alive[d] /\ wire'[d] = wire[d]
  BY <1>1 DEF YcInv, Domains
<1>3. Elsewhere(u)
  BY <1>1, <1>2 DEF Elsewhere
<1>4. Printing(u)'
  BY <1>1 DEF PrintInv, Printing, Blank, Printed
<1>5. Carried(u)'
  BY <1>1, <1>2, SameUse DEF PrintInv, Carried
<1>6. /\ DOMAIN shown' = Users /\ DOMAIN lost' = Users /\ DOMAIN meant' = Users /\ UNCHANGED session
      /\ \A d \in Users \ {u} : shown'[d] = shown[d] /\ lost'[d] = lost[d] /\ meant'[d] = meant[d]
  BY <1>1 DEF PrintInv
<1>7. Entries'
  BY <1>1, EntriesSame
<1> QED BY <1>3, <1>4, <1>5, <1>6, <1>7, PrintStep

(* A command sends its request, or ends.                                    *)
LEMMA RunPrints ==
  ASSUME Lz4Packs, YcInv, PrintInv, NEW u \in Users, Run(u)
  PROVE  PrintInv'
<1>1. UserInv(u) /\ Domains
  BY DEF YcInv
<1>2. PICK c, plan : c = [threshold |-> Now(u).compress] /\ plan = Command(Now(u), c)
  OBVIOUS
<1>3. /\ proc[u].pc = "connecting" /\ link[u].stage = "open"
      /\ IF plan.exit # -1
         THEN Exits(u, plan.exit) /\ UNCHANGED wire
         ELSE /\ Put(u, plan.request)
              /\ proc' = [proc EXCEPT ![u].plan = plan, ![u].serial = 1,
                                      ![u].pc = IF plan.noop THEN "quiet" ELSE AfterSend(plan)]
              /\ IF ~plan.noop /\ AfterSend(plan) = "exited" THEN CloseLink(u) ELSE UNCHANGED link
              /\ UNCHANGED back
      /\ UNCHANGED <<session, alive, store, holder, shown, lost, outcome, meant>>
  BY <1>2 DEF Run
<1>4. /\ DOMAIN proc = Users /\ DOMAIN back = Users /\ DOMAIN link = Users /\ DOMAIN wire = Users
      /\ IsProc(proc[u]) /\ Typed(u) /\ alive[u] \in BOOLEAN
      /\ DOMAIN shown = Users /\ DOMAIN lost = Users /\ DOMAIN meant = Users
  BY <1>1 DEF Domains, ConnectInv, ConnectTypeOK, UserInv, Typed, PrintInv
<1>5. /\ DOMAIN shown' = Users /\ DOMAIN lost' = Users /\ DOMAIN meant' = Users
      /\ \A d \in Users \ {u} : shown'[d] = shown[d] /\ lost'[d] = lost[d] /\ meant'[d] = meant[d]
  BY <1>3, <1>4
<1>6. /\ Sober(Now(u)) /\ Now(u).quiet \in BOOLEAN
      /\ Now(u).cmd = "prepend" /\ HasFile(Now(u)) => ~PackedKey(Now(u).args[1])
      /\ Packs(Now(u)) => PackedKey(Now(u).args[1])
  <2>1. PICK n : n = proc[u].n
    OBVIOUS
  <2>2. n \in 1..Len(session[u]) /\ Now(u) = session[u][n]
    BY <1>3, <1>4, <2>1 DEF Typed, Invocations, Now
  <2>3. Now(u).quiet \in BOOLEAN
    BY <1>4, <2>2 DEF Typed, Invocations
  <2>4. Packs(Now(u)) => PackedKey(Now(u).args[1])
    BY <2>2 DEF PackedKey
  <2>5. Careful(Now(u)) /\ IsInvocation(Now(u))
    BY <2>2 DEF PrintInv, CarefulUsers, Invoked
  <2>6. Sober(Now(u))
    BY <2>5, CarefulSober
  <2>7. Now(u).cmd = "prepend" /\ HasFile(Now(u)) => ~PackedKey(Now(u).args[1])
    BY <2>5 DEF Careful
  <2> QED BY <2>3, <2>4, <2>6, <2>7
<1>7. Planned(Now(u), plan) /\ Right(Now(u), plan)
  <2>1. c.threshold = Now(u).compress
    BY <1>2
  <2> QED BY <1>2, <1>6, <2>1, CommandPlanned, CommandRight
<1>8. proc[u].plan.exit # -1 /\ wire[u] = <<>> /\ back[u] = <<>> /\ Blank(u)
      /\ proc[u].serial = 0
  <2>1. /\ proc[u].plan.exit # -1 /\ proc[u].serial = 0
        /\ outcome[u] = "none" /\ back[u] = <<>>
    BY <1>1, <1>3 DEF UserInv, Going, Responses, Active
  <2>2. wire[u] = <<>>
    BY <1>1, <2>1, SMTT(30) DEF UserInv, Requests, First, Second
  <2>3. Blank(u)
    BY <1>3 DEF PrintInv, Printing
  <2> QED BY <2>1, <2>2, <2>3
<1>9. CASE plan.exit # -1
  <2>1. PICK code : code = plan.exit
    OBVIOUS
  <2>2. Exits(u, code) /\ UNCHANGED <<session, wire, alive, store, holder, outcome>>
    BY <1>3, <1>9, <2>1
  <2> QED BY <1>5, <1>8, <2>2, ExitPrints
<1>10. CASE plan.exit = -1
  <2>1. Sound(Now(u), plan) /\ Means(Now(u), plan.request)
        /\ (plan.request.cmd \in Gets => plan.prints = "data")
    BY <1>7, <1>10 DEF Planned, Right
  <2>2. PICK pc : pc = IF plan.noop THEN "quiet" ELSE AfterSend(plan)
    OBVIOUS
  <2>3. /\ pc \in {"quiet", "receiving", "exited"}
        /\ pc = "exited" => plan.request.cmd \in Quitting
    BY <2>1, <2>2, AfterSendIs DEF Sound
  <2>4. /\ Put(u, plan.request)
        /\ proc' = [proc EXCEPT ![u].plan = plan, ![u].serial = 1, ![u].pc = pc]
        /\ IF pc = "exited" THEN CloseLink(u) ELSE UNCHANGED link
        /\ UNCHANGED <<session, back, alive, store, holder, shown, lost, outcome, meant>>
    BY <1>3, <1>10, <2>2, <2>3, AfterSendIs, <2>1
  <2>5. /\ proc'[u] = [proc[u] EXCEPT !.plan = plan, !.serial = 1, !.pc = pc]
        /\ \A d \in Users \ {u} : proc'[d] = proc[d]
    BY <1>4, <2>4
  <2>6. proc'[u].pc = pc /\ proc'[u].plan = plan
    BY <1>4, <2>5 DEF IsProc
  <2>7. \A d \in Users \ {u} : link'[d] = link[d]
    BY <1>4, <2>4 DEF CloseLink, NoLink
  <2>8. PICK q : q = [serial |-> proc[u].serial + 1, cmd |-> plan.request.cmd,
                      cas |-> plan.request.cas,
                      key |-> plan.request.key, extras |-> plan.request.extras,
                      data |-> plan.request.data, plain |-> Plain(Now(u))]
    OBVIOUS
  <2>9. wire' = [wire EXCEPT ![u] = IF ~alive[u] THEN @ ELSE Append(@, q)]
    BY <2>4, <2>8 DEF Put, Plain
  <2>10. /\ \A d \in Users \ {u} : wire'[d] = wire[d]
         /\ wire'[u] = <<>> \/ wire'[u] = <<q>>
    <3>1. Append(<<>>, q) = <<q>>
      OBVIOUS
    <3> QED BY <1>4, <1>8, <2>9, <3>1
  <2>11. Sincere(q)
    <3>1. /\ q.cmd = plan.request.cmd /\ q.key = plan.request.key /\ q.data = plan.request.data
          /\ q.extras = plan.request.extras /\ q.plain = Plain(Now(u))
      BY <2>8
    <3> QED BY <1>6, <2>1, <3>1 DEF Means, Sincere
  <2>12. Carried(u)'
    <3>1. back'[u] = <<>>
      BY <1>8, <2>4
    <3>2. Head(<<q>>) = q
      OBVIOUS
    <3>3. Sincere(q)'
      BY <1>3, <2>11, SameUse
    <3> QED BY <2>10, <3>1, <3>2, <3>3, EmptyIsSeq DEF Carried
  <2>13. Quitting \cap Gets = {}
    BY DEF Quitting, Gets
  <2>14. Printing(u)'
    <3>1. proc'[u].plan.request.cmd \in Gets => pc \in {"quiet", "receiving"} /\ plan.prints = "data"
      BY <2>1, <2>3, <2>6, <2>13
    <3>2. Blank(u)'
      BY <1>3, <1>8 DEF Blank
    <3> QED BY <2>3, <2>6, <3>1, <3>2 DEF Printing
  <2>15. Elsewhere(u)
    BY <1>4, <2>4, <2>5, <2>7, <2>10 DEF Elsewhere
  <2>16. Entries' /\ UNCHANGED session
    BY <1>3, EntriesSame
  <2> QED BY <1>5, <2>12, <2>14, <2>15, <2>16, PrintStep
<1> QED BY <1>9, <1>10

(* The noop goes out.                                                      *)
LEMMA FlushPrints ==
  ASSUME YcInv, PrintInv, NEW u \in Users, Flush(u)
  PROVE  PrintInv'
<1>1. UserInv(u) /\ Domains
  BY DEF YcInv
<1>2. /\ DOMAIN proc = Users /\ DOMAIN wire = Users /\ IsProc(proc[u]) /\ alive[u] \in BOOLEAN
      /\ DOMAIN shown = Users /\ DOMAIN lost = Users /\ DOMAIN meant = Users
  BY <1>1 DEF Domains, UserInv, Typed, PrintInv
<1>3. /\ proc[u].pc = "quiet" /\ Put(u, yrmcds_noop)
      /\ proc' = [proc EXCEPT ![u].pc = AfterSend(proc[u].plan), ![u].serial = 2]
      /\ UNCHANGED <<link, session, back, alive, store, holder, shown, lost, outcome, meant>>
  BY DEF Flush
<1>4. AfterSend(proc[u].plan) = "receiving"
  <2>1. Sound(Now(u), proc[u].plan) /\ proc[u].plan.noop
    BY <1>1, <1>3 DEF UserInv, Going, Active
  <2> QED BY <2>1, AfterSendIs DEF Sound
<1>5. /\ proc'[u] = [proc[u] EXCEPT !.pc = "receiving", !.serial = 2]
      /\ \A d \in Users \ {u} : proc'[d] = proc[d]
  BY <1>2, <1>3, <1>4
<1>6. proc'[u].pc = "receiving" /\ proc'[u].plan = proc[u].plan
  BY <1>2, <1>5 DEF IsProc
<1>7. Printing(u)'
  BY <1>3, <1>6 DEF PrintInv, Printing, Blank, Printed
<1>8. PICK q : /\ q.cmd = "NOOP"
               /\ wire' = [wire EXCEPT ![u] = IF ~alive[u] THEN @ ELSE Append(@, q)]
  <2>1. PICK q : q = [serial |-> proc[u].serial + 1, cmd |-> yrmcds_noop.cmd,
                      cas |-> yrmcds_noop.cas,
                      key |-> yrmcds_noop.key, extras |-> yrmcds_noop.extras,
                      data |-> yrmcds_noop.data,
                      plain |-> IF Len(Now(u).args) > 1 THEN Now(u).args[2] ELSE <<>>]
    OBVIOUS
  <2>2. yrmcds_noop.cmd = "NOOP"
    BY LimitAssumption, EmptyIsSeq DEF yrmcds_noop, Request
  <2>3. q.cmd = "NOOP"
    BY <2>1, <2>2
  <2>4. wire' = [wire EXCEPT ![u] = IF ~alive[u] THEN @ ELSE Append(@, q)]
    BY <1>3, <2>1 DEF Put
  <2> QED BY <2>3, <2>4
<1>9. /\ \A d \in Users \ {u} : wire'[d] = wire[d]
      /\ wire'[u] = wire[u] \/ wire'[u] = Append(wire[u], q)
  BY <1>2, <1>8
<1>10. wire'[u] # <<>> => Head(wire'[u]) = q \/ (wire[u] # <<>> /\ Head(wire'[u]) = Head(wire[u]))
  <2>1. CASE wire'[u] = wire[u]
    BY <2>1
  <2>2. CASE wire'[u] = Append(wire[u], q)
    <3>1. wire[u] = <<>> \/ \E e : wire[u] = <<e>>
      <4>1. proc[u].serial = 1
        BY <1>1, <1>3 DEF UserInv, Going
      <4> QED BY <1>1, <4>1 DEF UserInv, Requests, Second
    <3>2. CASE wire[u] = <<>>
      <4>1. Append(<<>>, q) = <<q>> /\ Head(<<q>>) = q
        OBVIOUS
      <4> QED BY <2>2, <3>2, <4>1
    <3>3. CASE \E e : wire[u] = <<e>>
      <4>1. PICK e : wire[u] = <<e>>
        BY <3>3
      <4>2. Append(<<e>>, q) = <<e, q>>
        BY AppendSecond
      <4>3. Head(<<e, q>>) = e /\ Head(<<e>>) = e /\ <<e>> # <<>>
        OBVIOUS
      <4> QED BY <2>2, <4>1, <4>2, <4>3
    <3> QED BY <3>1, <3>2, <3>3
  <2> QED BY <1>9, <2>1, <2>2
<1>11. Sincere(q)
  BY <1>8 DEF Sincere, Setting, Extending, Prepending
<1>12. Carried(u)'
  BY <1>3, <1>10, <1>11, SameUse DEF PrintInv, Carried
<1>13. Elsewhere(u)
  BY <1>3, <1>5, <1>9 DEF Elsewhere
<1>14. /\ DOMAIN shown' = Users /\ DOMAIN lost' = Users /\ DOMAIN meant' = Users /\ UNCHANGED session /\ Entries'
       /\ \A d \in Users \ {u} : shown'[d] = shown[d] /\ lost'[d] = lost[d] /\ meant'[d] = meant[d]
  BY <1>2, <1>3, EntriesSame
<1> QED BY <1>7, <1>12, <1>13, <1>14, PrintStep

(* Something behind nothing.                                               *)
LEMMA BehindNothing ==
  ASSUME NEW s, IsSeq(s)
  PROVE  <<>> \o s = s
<1>1. PICK S : s \in Seq(S)
  BY DEF IsSeq
<1> QED BY <1>1

(* What write_data adds to nothing: everything, or a proper beginning.      *)
LEMMA WrittenIs ==
  ASSUME NEW text, IsSeq(text), NEW n \in 0..Len(text)
  PROVE  /\ n < Len(text) => /\ <<>> \o SubSeq(text, 1, n) = SubSeq(text, 1, n)
                             /\ n \in 0..(Len(text) - 1)
         /\ ~(n < Len(text)) => <<>> \o SubSeq(text, 1, n) = text
<1>1. PICK S : text \in Seq(S)
  BY DEF IsSeq
<1>2. Len(text) \in Nat /\ SubSeq(text, 1, n) \in Seq(S)
  BY <1>1
<1>3. <<>> \o SubSeq(text, 1, n) = SubSeq(text, 1, n)
  BY <1>2
<1>4. ~(n < Len(text)) => n = Len(text)
  BY <1>2
<1>5. SubSeq(text, 1, Len(text)) = text
  BY <1>1
<1>6. n < Len(text) => n \in 0..(Len(text) - 1)
  BY <1>2
<1> QED BY <1>3, <1>4, <1>5, <1>6

(* One turn of the receive loop: what a get shows is what its answer means. *)
LEMMA RecvPrints ==
  ASSUME Lz4Packs, YcInv, PrintInv, NEW u \in Users, Recv(u)
  PROVE  PrintInv'
<1>1. UserInv(u) /\ Domains
  BY DEF YcInv
<1>a. PICK r, decoded :
        /\ r = Head(back[u]) /\ decoded \in Decoded(r)
        /\ write_data(u, CASE (decoded.ok /\ Accepted(u, r)) /\ Ends(u, r) ->
                                  Written(proc[u].plan, r, decoded.data)
                            [] (decoded.ok /\ Accepted(u, r)) /\ ~Ends(u, r) -> Listed(proc[u].plan, r)
                            [] OTHER               -> <<>>)
        /\ meant' = [meant EXCEPT ![u] =
             IF (decoded.ok /\ Accepted(u, r)) /\ Ends(u, r) THEN r.plain ELSE @]
        /\ IF ~(decoded.ok /\ Accepted(u, r)) \/ (Ends(u, r) /\ ~proc[u].plan.prompts)
           THEN Exits(u, IF ~decoded.ok THEN 2 ELSE IF Accepted(u, r) THEN 0 ELSE 3)
           ELSE /\ proc' = [proc EXCEPT ![u].pc = IF Ends(u, r) THEN "prompt" ELSE @]
                /\ back' = [back EXCEPT ![u] = Tail(@)]
                /\ UNCHANGED link
        /\ UNCHANGED <<session, wire, alive, store, holder, outcome>>
  BY Zenon DEF Recv
<1>2. PICK text, n :
        /\ r = Head(back[u]) /\ decoded \in Decoded(r) /\ n \in 0..Len(text)
        /\ text = CASE (decoded.ok /\ Accepted(u, r)) /\ Ends(u, r) ->
                          Written(proc[u].plan, r, decoded.data)
                    [] (decoded.ok /\ Accepted(u, r)) /\ ~Ends(u, r) -> Listed(proc[u].plan, r)
                    [] OTHER               -> <<>>
        /\ shown' = [shown EXCEPT ![u] = @ \o SubSeq(text, 1, n)]
        /\ lost' = [lost EXCEPT ![u] = @ \/ n < Len(text)]
        /\ meant' = [meant EXCEPT ![u] =
             IF (decoded.ok /\ Accepted(u, r)) /\ Ends(u, r) THEN r.plain ELSE @]
        /\ IF ~(decoded.ok /\ Accepted(u, r)) \/ (Ends(u, r) /\ ~proc[u].plan.prompts)
           THEN Exits(u, IF ~decoded.ok THEN 2 ELSE IF Accepted(u, r) THEN 0 ELSE 3)
           ELSE /\ proc' = [proc EXCEPT ![u].pc = IF Ends(u, r) THEN "prompt" ELSE @]
                /\ back' = [back EXCEPT ![u] = Tail(@)]
                /\ UNCHANGED link
        /\ UNCHANGED <<session, wire, alive, store, holder, outcome>>
  BY <1>a, Zenon DEF write_data
<1> DEFINE plan == proc[u].plan
           fine == decoded.ok /\ Accepted(u, r)
           code == IF ~decoded.ok THEN 2 ELSE IF Accepted(u, r) THEN 0 ELSE 3
<1>4. /\ proc[u].pc = "receiving" /\ back[u] # <<>>
      /\ text = CASE fine /\ Ends(u, r)  -> Written(plan, r, decoded.data)
                  [] fine /\ ~Ends(u, r) -> Listed(plan, r)
                  [] OTHER               -> <<>>
      /\ shown' = [shown EXCEPT ![u] = @ \o SubSeq(text, 1, n)]
      /\ lost' = [lost EXCEPT ![u] = @ \/ n < Len(text)]
      /\ meant' = [meant EXCEPT ![u] = IF fine /\ Ends(u, r) THEN r.plain ELSE @]
      /\ IF ~fine \/ (Ends(u, r) /\ ~plan.prompts) THEN Exits(u, code)
         ELSE /\ proc' = [proc EXCEPT ![u].pc = IF Ends(u, r) THEN "prompt" ELSE @]
              /\ back' = [back EXCEPT ![u] = Tail(@)]
              /\ UNCHANGED link
      /\ UNCHANGED <<session, wire, alive, store, holder, outcome>>
  <2>1. proc[u].pc = "receiving" /\ back[u] # <<>>
    BY DEF Recv
  <2> QED BY <1>2, <2>1, Zenon
<1>3. code = 0 => fine
  OBVIOUS
<1> HIDE DEF fine, code
<1>5. /\ DOMAIN proc = Users /\ DOMAIN back = Users /\ DOMAIN link = Users
      /\ DOMAIN shown = Users /\ DOMAIN lost = Users /\ DOMAIN meant = Users
      /\ IsProc(proc[u]) /\ IsSeq(back[u]) /\ plan.exit = -1
  BY <1>1, <1>4 DEF Domains, ConnectInv, ConnectTypeOK, UserInv, Typed, Going, Active,
                          Responses, PrintInv
<1>6. Honest(r)
  <2>1. r = back[u][1] /\ 1 \in 1..Len(back[u])
    BY <1>2, <1>4, <1>5, TailIsSeq
  <2> QED BY <2>1 DEF PrintInv, Carried
<1>7. /\ DOMAIN shown' = Users /\ DOMAIN lost' = Users /\ DOMAIN meant' = Users
      /\ \A d \in Users \ {u} : shown'[d] = shown[d] /\ lost'[d] = lost[d] /\ meant'[d] = meant[d]
      /\ shown'[u] = shown[u] \o SubSeq(text, 1, n)
      /\ lost'[u] = (lost[u] \/ n < Len(text))
      /\ meant'[u] = IF fine /\ Ends(u, r) THEN r.plain ELSE meant[u]
  BY <1>4, <1>5, Zenon
<1>8. ASSUME plan.request.cmd \in Gets
      PROVE  /\ plan.prints = "data" /\ Blank(u)
             /\ fine /\ Ends(u, r) => Printed(u)'
             /\ fine /\ ~Ends(u, r) => Blank(u)'
  <2>1. plan.prints = "data" /\ Blank(u)
    BY <1>4, <1>5, <1>8 DEF PrintInv, Printing
  <2>2. Written(plan, r, decoded.data) = decoded.data /\ Listed(plan, r) = <<>>
    BY <2>1 DEF Written, Listed
  <2>3. ASSUME fine, Ends(u, r) PROVE Printed(u)'
    <3>1. text = decoded.data /\ meant'[u] = r.plain
      BY <1>4, <1>7, <2>2, <2>3
    <3>2. decoded.data = r.plain /\ IsSeq(r.plain)
      BY <1>2, <1>6, <2>3, DecodedIs, FaithfulSeqs DEF Honest, fine
    <3>3. IsSeq(text) /\ meant'[u] = text
      BY <3>1, <3>2
    <3>4. shown'[u] = <<>> \o SubSeq(text, 1, n) /\ (lost'[u] <=> n < Len(text))
      BY <1>7, <2>1, Zenon DEF Blank
    <3>5. CASE n < Len(text)
      <4>1. shown'[u] = SubSeq(text, 1, n) /\ n \in 0..(Len(text) - 1)
        BY <1>2, <3>3, <3>4, <3>5, WrittenIs, Zenon
      <4> QED BY <3>3, <3>4, <3>5, <4>1, Zenon DEF Printed
    <3>6. CASE ~(n < Len(text))
      <4>1. shown'[u] = text
        BY <1>2, <3>3, <3>4, <3>6, WrittenIs, Zenon
      <4> QED BY <3>3, <3>4, <3>6, <4>1, Zenon DEF Printed
    <3> QED BY <3>5, <3>6
  <2>4. ASSUME fine, ~Ends(u, r) PROVE Blank(u)'
    <3>1. text = <<>>
      BY <1>4, <2>2, <2>4
    <3>2. n \in 0..0 /\ ~(n < Len(text))
      BY <1>2, <3>1, EmptyIsSeq
    <3>3. shown'[u] = <<>> \o SubSeq(text, 1, n)
      BY <1>7, <2>1, Zenon DEF Blank
    <3>4. shown'[u] = <<>>
      BY <1>2, <3>1, <3>2, <3>3, WrittenIs, EmptyIsSeq, Zenon
    <3>5. lost'[u] = FALSE
      BY <1>7, <2>1, <3>2 DEF Blank
    <3> QED BY <3>4, <3>5 DEF Blank
  <2> QED BY <2>1, <2>3, <2>4
<1>9. CASE ~fine \/ (Ends(u, r) /\ ~plan.prompts)
  <2>1. Exits(u, code)
    BY <1>4, <1>9
  <2>3. proc[u].plan.exit = -1 /\ proc[u].plan.request.cmd \in Gets /\ code = 0 =>
          Printed(u)'
    BY <1>3, <1>8, <1>9
  <2> QED BY <1>4, <1>7, <2>1, <2>3, ExitPrints
<1>10. CASE fine /\ ~(Ends(u, r) /\ ~plan.prompts)
  <2>1. PICK pc : pc = IF Ends(u, r) THEN "prompt" ELSE "receiving"
    OBVIOUS
  <2>2. /\ proc'[u] = [proc[u] EXCEPT !.pc = pc]
        /\ \A d \in Users \ {u} : proc'[d] = proc[d]
        /\ back'[u] = Tail(back[u])
        /\ \A d \in Users \ {u} : back'[d] = back[d]
        /\ UNCHANGED link
    <3>1. /\ proc' = [proc EXCEPT ![u].pc = IF Ends(u, r) THEN "prompt" ELSE @]
          /\ back' = [back EXCEPT ![u] = Tail(@)]
          /\ UNCHANGED link
      BY <1>4, <1>10
    <3> QED BY <1>4, <1>5, <2>1, <3>1
  <2>3. proc'[u].pc = pc /\ proc'[u].plan = plan
    BY <1>5, <2>2 DEF IsProc
  <2>4. Printing(u)'
    <3>1. pc \in {"prompt", "receiving"} /\ (pc = "prompt" => Ends(u, r))
          /\ (pc = "receiving" => ~Ends(u, r))
      BY <2>1
    <3>2. plan.request.cmd \in Gets =>
            /\ plan.prints = "data"
            /\ pc = "prompt" => Printed(u)'
            /\ pc = "receiving" => Blank(u)'
      BY <1>8, <1>10, <3>1
    <3> QED BY <2>3, <3>1, <3>2 DEF Printing
  <2>5. Carried(u)'
    <3>1. \A j \in 1..Len(back'[u]) : j + 1 \in 1..Len(back[u]) /\ back'[u][j] = back[u][j + 1]
      BY <1>4, <1>5, <2>2, TailIsSeq
    <3>2. \A j \in 1..Len(back'[u]) : Honest(back'[u][j])
      BY <3>1 DEF PrintInv, Carried
    <3>3. (wire[u] # <<>> => Sincere(Head(wire[u])))'
      BY <1>4, SameUse DEF PrintInv, Carried
    <3> QED BY <3>2, <3>3 DEF Carried, Honest
  <2>6. Elsewhere(u)
    BY <1>4, <2>2 DEF Elsewhere
  <2>7. Entries' /\ UNCHANGED session
    BY <1>4, EntriesSame
  <2> QED BY <1>7, <2>4, <2>5, <2>6, <2>7, PrintStep
<1> QED BY <1>2, <1>9, <1>10

-----------------------------------------------------------------------------
(* What the server gives and keeps.                                         *)

(* Success means that there was something to get or to add to.              *)
LEMMA FoundIs ==
  ASSUME NEW u, NEW q, NEW status \in Statuses(u, q), status = "OK",
         Loud(q.cmd) \in {"GET", "LAG", "APPEND", "PREPEND"}
  PROVE  Has(q.key)
<1> DEFINE cmd == Loud(q.cmd)
           has == Has(q.key)
           locked == Locked(u, q.key)
           holds == Holds(u, q.key)
<1>1. status \in
        IF cmd \in Sure THEN {"OK"}
        ELSE IF cmd = "UNLOCK" THEN IF holds THEN {"OK"} ELSE {"NOTLOCKED"}
        ELSE IF cmd = "RAU" THEN IF has /\ holds THEN {"OK"} ELSE {"NOTLOCKED"}
        ELSE IF cmd = "ADD" /\ has THEN {"EXISTS"}
        ELSE IF cmd \notin {"ADD", "SET", "INCREMENT", "DECREMENT"} /\ ~has THEN {"NOTFOUND"}
        ELSE IF cmd \in {"INCREMENT", "DECREMENT"} /\ ~has
             THEN IF q.extras[3] = U32 - 1 THEN {"NOTFOUND"} ELSE {"OK"}
        ELSE IF cmd \in {"INCREMENT", "DECREMENT"}
                /\ (Len(store[q.key].data) # 1 \/ store[q.key].flags # 0) THEN {"NONNUMERIC"}
        ELSE IF cmd # "GET" /\ locked THEN {"LOCKED"}
        ELSE IF q.cas # 0 THEN {"OK", "EXISTS"}
        ELSE {"OK"}
  BY DEF Statuses
<1>2. cmd \in {"GET", "LAG", "APPEND", "PREPEND"}
  OBVIOUS
<1> HIDE DEF cmd, has, locked, holds
<1>3. has
  BY <1>1, <1>2 DEF Sure
<1> QED BY <1>3 DEF has

(* What the loud command says of a quiet one.                               *)
LEMMA LoudOf ==
  ASSUME NEW cmd
  PROVE  /\ cmd \in Gets => Loud(cmd) \in {"GET", "LAG"}
         /\ Loud(cmd) \in {"SET", "ADD", "REPLACE", "RAU"} => cmd \in Setting
         /\ Loud(cmd) = "APPEND" => cmd \in Extending
         /\ Loud(cmd) = "PREPEND" => cmd \in Extending /\ cmd \in Prepending
         /\ cmd \in Writes => Loud(cmd) \in {"SET", "ADD", "REPLACE", "RAU", "APPEND", "PREPEND",
                                             "INCREMENT", "DECREMENT"}
BY DEF Loud, Gets, Setting, Extending, Prepending, Writes

(* An answer is honest.                                                    *)
LEMMA AnswerHonest ==
  ASSUME PrintInv, NEW u, NEW q, NEW status \in Statuses(u, q), NEW key
  PROVE  Honest(Answer(q, status, key))
<1>1. PICK gives, r : gives = (status = "OK" /\ q.cmd \in Gets) /\ r = Answer(q, status, key)
  OBVIOUS
<1>2. /\ r.data  = (IF gives THEN store[q.key].data ELSE <<>>)
      /\ r.flags = (IF gives THEN store[q.key].flags ELSE 0)
      /\ r.plain = (IF gives THEN store[q.key].plain ELSE <<>>)
  BY <1>1 DEF Answer
<1>3. CASE gives
  <2>1. Has(q.key)
    BY <1>1, <1>3, FoundIs, LoudOf
  <2>2. Entry(q.key, store[q.key])
    BY <2>1 DEF Has, PrintInv, Entries
  <2> QED BY <1>1, <1>2, <1>3, <2>2 DEF Entry, Honest
<1>4. CASE ~gives
  BY <1>1, <1>2, <1>4, FlagIs, EmptyIsSeq DEF Honest, Faithful
<1> QED BY <1>1, <1>3, <1>4

(* and so are all answers to a request.                                     *)
LEMMA AnswersHonest ==
  ASSUME PrintInv, NEW u, NEW q, NEW status \in Statuses(u, q)
  PROVE  \A j \in 1..Len(Answers(q, status)) : Honest(Answers(q, status)[j])
<1>1. \A key : Honest(Answer(q, status, key))
  BY AnswerHonest
<1>2. PICK a, s, t : /\ a = Answers(q, status)
                     /\ s = Answer(q, status, <<"name">>) /\ t = Answer(q, status, <<>>)
  OBVIOUS
<1>3. Honest(s) /\ Honest(t)
  BY <1>1, <1>2
<1>4. a = <<>> \/ a = <<s, t>> \/ a = <<t>>
  BY <1>2 DEF Answers
<1>5. CASE a = <<>>
  BY <1>2, <1>5, EmptyIsSeq
<1>6. CASE a = <<s, t>>
  <2>1. Len(a) = 2 /\ a[1] = s /\ a[2] = t
    BY <1>6
  <2>2. \A j \in 1..2 : j = 1 \/ j = 2
    OBVIOUS
  <2>3. \A j \in 1..Len(a) : Honest(a[j])
    BY <1>3, <2>1, <2>2
  <2> QED BY <1>2, <2>3
<1>7. CASE a = <<t>>
  <2>1. Len(a) = 1 /\ a[1] = t
    BY <1>7
  <2>2. \A j \in 1..1 : j = 1
    OBVIOUS
  <2>3. \A j \in 1..Len(a) : Honest(a[j])
    BY <1>3, <2>1, <2>2
  <2> QED BY <1>2, <2>3
<1> QED BY <1>4, <1>5, <1>6, <1>7

(* A queue with answers behind it.                                         *)
LEMMA QueueHonest ==
  ASSUME NEW s, IsSeq(s), NEW a, IsSeq(a),
         \A j \in 1..Len(s) : Honest(s[j]), \A j \in 1..Len(a) : Honest(a[j])
  PROVE  \A j \in 1..Len(s \o a) : Honest((s \o a)[j])
<1>1. PICK S : s \in Seq(S)
  BY DEF IsSeq
<1>2. PICK T : a \in Seq(T)
  BY DEF IsSeq
<1>3. s \in Seq(S \cup T) /\ a \in Seq(S \cup T)
  BY <1>1, <1>2, Widened, S \cup T = T \cup S
<1>4. PICK t : t = s \o a
  OBVIOUS
<1>5. /\ Len(s) \in Nat /\ Len(a) \in Nat /\ Len(t) = Len(s) + Len(a)
      /\ \A i \in 1..Len(s) : t[i] = s[i]
      /\ \A i \in (Len(s) + 1)..(Len(s) + Len(a)) : t[i] = a[i - Len(s)]
  BY <1>3, <1>4
<1>6. ASSUME NEW j \in 1..Len(t) PROVE Honest(t[j])
  <2>1. CASE j \in 1..Len(s)
    BY <1>5, <2>1
  <2>2. CASE j \notin 1..Len(s)
    <3>1. j \in (Len(s) + 1)..(Len(s) + Len(a)) /\ j - Len(s) \in 1..Len(a)
      BY <1>5, <2>2
    <3> QED BY <1>5, <3>1
  <2> QED BY <2>1, <2>2
<1> QED BY <1>4, <1>6

(* What a request leaves in the store stands for what its user means.       *)
LEMMA StoredIs ==
  ASSUME Lz4Packs, PrintInv, NEW u, NEW q, NEW status \in Statuses(u, q), status = "OK",
         q.cmd \in Writes, Sincere(q)
  PROVE  Entry(q.key, Stored(q))
<1>1. PICK cmd, e : cmd = Loud(q.cmd) /\ e = Stored(q)
  OBVIOUS
<1>2. cmd \in {"SET", "ADD", "REPLACE", "RAU", "APPEND", "PREPEND", "INCREMENT", "DECREMENT"}
  BY <1>1, LoudOf
<1>3. CASE cmd \in {"SET", "ADD", "REPLACE", "RAU"}
  <2>1. e = [data |-> q.data, flags |-> q.extras[1], plain |-> q.plain]
    BY <1>1, <1>3 DEF Stored
  <2>2. q.cmd \in Setting
    BY <1>1, <1>3, LoudOf
  <2> QED BY <1>1, <2>1, <2>2 DEF Sincere, Entry
<1>4. ASSUME cmd \in {"APPEND", "PREPEND"}
      PROVE  /\ Entry(q.key, store[q.key])
             /\ q.data \in Seq(Nat) /\ q.plain = q.data
  <2>1. Has(q.key)
    BY <1>1, <1>4, FoundIs
  <2> QED BY <1>1, <1>4, <2>1, LoudOf DEF Has, PrintInv, Entries, Sincere
<1>5. CASE cmd = "APPEND"
  <2>1. PICK old : old = store[q.key]
    OBVIOUS
  <2>2. e = [old EXCEPT !.data = @ \o q.data, !.plain = @ \o q.plain]
    BY <1>1, <1>5, <2>1 DEF Stored
  <2>3. old = [data |-> old.data, flags |-> old.flags, plain |-> old.plain]
        /\ Faithful(old.data, old.flags, old.plain)
        /\ (Compressed(old.flags) => PackedKey(q.key))
    BY <1>4, <1>5, <2>1 DEF Entry
  <2>4. e = [data |-> old.data \o q.data, flags |-> old.flags, plain |-> old.plain \o q.data]
    BY <1>4, <1>5, <2>2, <2>3
  <2>5. Faithful(old.data \o q.data, old.flags, old.plain \o q.data)
    BY <1>4, <1>5, <2>3, AppendFaithful
  <2> QED BY <1>1, <2>3, <2>4, <2>5 DEF Entry
<1>6. CASE cmd = "PREPEND"
  <2>1. PICK old : old = store[q.key]
    OBVIOUS
  <2>2. e = [old EXCEPT !.data = q.data \o @, !.plain = q.plain \o @]
    BY <1>1, <1>6, <2>1 DEF Stored
  <2>3. old = [data |-> old.data, flags |-> old.flags, plain |-> old.plain]
        /\ Faithful(old.data, old.flags, old.plain)
        /\ (Compressed(old.flags) => PackedKey(q.key))
    BY <1>4, <1>6, <2>1 DEF Entry
  <2>4. e = [data |-> q.data \o old.data, flags |-> old.flags, plain |-> q.data \o old.plain]
    BY <1>4, <1>6, <2>2, <2>3
  <2>5. ~Compressed(old.flags)
    BY <1>1, <1>6, <2>3, LoudOf DEF Sincere
  <2>6. Faithful(q.data \o old.data, old.flags, q.data \o old.plain)
    BY <1>4, <1>6, <2>3, <2>5, PrependFaithful
  <2> QED BY <1>1, <2>3, <2>4, <2>6 DEF Entry
<1>7. CASE cmd \in {"INCREMENT", "DECREMENT"}
  <2>1. PICK d : d = <<Counted(q)>>
    OBVIOUS
  <2>2. e = [data |-> d, flags |-> 0, plain |-> d]
    BY <1>1, <1>7, <2>1 DEF Stored
  <2>3. IsSeq(d)
    <3>1. d \in Seq({Counted(q)})
      BY <2>1
    <3> QED BY <3>1 DEF IsSeq
  <2> QED BY <1>1, <2>2, <2>3, FlagIs DEF Entry, Faithful
<1> QED BY <1>2, <1>3, <1>5, <1>6, <1>7

(* The server handles a request.                                            *)
LEMMA HandlePrints ==
  ASSUME Lz4Packs, YcInv, PrintInv, NEW u \in Users, Handle(u)
  PROVE  PrintInv'
<1>1. UserInv(u) /\ Domains
  BY DEF YcInv
<1>2. PICK q, status :
        /\ q = Head(wire[u]) /\ status \in Statuses(u, q) /\ alive[u] /\ wire[u] # <<>>
        /\ wire' = [wire EXCEPT ![u] = Tail(@)]
        /\ back' = IF link[u].stage = "open"
                   THEN [back EXCEPT ![u] = @ \o Answers(q, status)] ELSE back
        /\ outcome' = [outcome EXCEPT ![u] = IF q.serial = 1 THEN status ELSE @]
        /\ alive' = [alive EXCEPT ![u] = Loud(q.cmd) # "QUIT"]
        /\ store' = CASE status = "OK" /\ q.cmd \in Writes -> With(store, q.key, Stored(q))
                      [] status = "OK" /\ Loud(q.cmd) = "DELETE" -> Without(store, q.key)
                      [] Loud(q.cmd) = "FLUSH" /\ q.extras = <<>> ->
                           [k \in DOMAIN store \cap DOMAIN holder |-> store[k]]
                      [] OTHER -> store
        /\ UNCHANGED <<link, session, proc, shown, lost, meant>>
  BY DEF Handle
<1>3. /\ DOMAIN back = Users /\ DOMAIN wire = Users /\ IsSeq(back[u])
      /\ DOMAIN shown = Users /\ DOMAIN lost = Users /\ DOMAIN meant = Users
      /\ DOMAIN alive = Users /\ DOMAIN outcome = Users
  BY <1>1 DEF Domains, UserInv, Responses, PrintInv
<1>4. Sincere(q)
  BY <1>2 DEF PrintInv, Carried
<1>5. Elsewhere(u)
  BY <1>2, <1>3 DEF Elsewhere
<1>6. Entries'
  <2>1. ASSUME NEW k \in DOMAIN store' PROVE Entry(k, store'[k])
    <3>1. \A x \in DOMAIN store : Entry(x, store[x])
      BY DEF PrintInv, Entries
    <3>2. CASE status = "OK" /\ q.cmd \in Writes
      <4>1. store' = With(store, q.key, Stored(q))
        <5>1. Loud(q.cmd) # "DELETE" /\ Loud(q.cmd) # "FLUSH"
          BY <3>2, LoudOf
        <5> QED BY <1>2, <3>2, <5>1
      <4>2. Entry(q.key, Stored(q))
        BY <1>2, <1>4, <3>2, StoredIs
      <4>3. \/ k = q.key /\ store'[k] = Stored(q)
            \/ k \in DOMAIN store /\ store'[k] = store[k]
        <5>1. k \in DOMAIN store \cup {q.key}
          BY <4>1 DEF With
        <5>2. store'[k] = IF k = q.key THEN Stored(q) ELSE store[k]
          BY <4>1, <5>1 DEF With
        <5> QED BY <5>1, <5>2
      <4> QED BY <3>1, <4>2, <4>3
    <3>3. CASE ~(status = "OK" /\ q.cmd \in Writes)
      <4>1. store' \in {Without(store, q.key), [x \in DOMAIN store \cap DOMAIN holder |-> store[x]],
                        store}
        BY <1>2, <3>3
      <4>2. k \in DOMAIN store /\ store'[k] = store[k]
        BY <4>1 DEF Without
      <4> QED BY <3>1, <4>2
    <3> QED BY <3>2, <3>3
  <2>2. UNCHANGED session
    BY <1>2
  <2>3. \A k \in DOMAIN store' : (Entry(k, store[k]))'
    BY <2>1, <2>2 DEF Entry, PackedKey
  <2> QED BY <2>3 DEF Entries
<1>7. Printing(u)'
  BY <1>2 DEF PrintInv, Printing, Blank, Printed
<1>8. wire'[u] = <<>> \/ \E r : wire'[u] = <<r>> /\ Second(u, r)
  <2>1. \/ \E e : wire[u] = <<e>>
        \/ \E e, r : wire[u] = <<e, r>> /\ First(u, e) /\ Second(u, r)
    BY <1>1, <1>2 DEF UserInv, Requests
  <2>2. wire'[u] = Tail(wire[u])
    BY <1>2, <1>3
  <2>3. CASE \E e : wire[u] = <<e>>
    BY <2>2, <2>3, TailsOf
  <2>4. CASE \E e, r : wire[u] = <<e, r>> /\ First(u, e) /\ Second(u, r)
    <3>1. PICK e, r : wire[u] = <<e, r>> /\ Second(u, r)
      BY <2>4
    <3>2. wire'[u] = <<r>>
      BY <2>2, <3>1, TailsOf
    <3> QED BY <3>1, <3>2
  <2> QED BY <2>1, <2>3, <2>4
<1>9. wire'[u] # <<>> => Sincere(Head(wire'[u]))
  <2>1. ASSUME NEW r, wire'[u] = <<r>>, Second(u, r) PROVE Sincere(Head(wire'[u]))
    <3>1. Head(wire'[u]) = r
      BY <2>1, TailsOf
    <3>2. Sincere(r)
      BY <2>1 DEF Second, Sincere, Setting, Extending, Prepending
    <3> QED BY <3>1, <3>2
  <2> QED BY <1>8, <2>1
<1>10. \A j \in 1..Len(back'[u]) : Honest(back'[u][j])
  <2>1. \A j \in 1..Len(back[u]) : Honest(back[u][j])
    BY DEF PrintInv, Carried
  <2>2. CASE back'[u] = back[u]
    BY <2>1, <2>2
  <2>3. CASE back'[u] = back[u] \o Answers(q, status)
    <3>1. IsSeq(Answers(q, status))
      BY AnswersAre
    <3>2. \A j \in 1..Len(Answers(q, status)) : Honest(Answers(q, status)[j])
      BY <1>2, AnswersHonest
    <3> QED BY <1>3, <2>1, <2>3, <3>1, <3>2, QueueHonest
  <2> QED BY <1>2, <1>3, <2>2, <2>3
<1>11. Carried(u)'
  <2>1. (wire[u] # <<>> => Sincere(Head(wire[u])))'
    BY <1>2, <1>9 DEF Sincere, PackedKey
  <2> QED BY <1>10, <2>1 DEF Carried, Honest
<1>12. /\ DOMAIN shown' = Users /\ DOMAIN lost' = Users /\ DOMAIN meant' = Users /\ UNCHANGED session
       /\ \A d \in Users \ {u} : shown'[d] = shown[d] /\ lost'[d] = lost[d] /\ meant'[d] = meant[d]
  BY <1>2, <1>3
<1> QED BY <1>5, <1>6, <1>7, <1>11, <1>12, PrintStep

(* Every step keeps it.                                                    *)
LEMMA PrintNextInv ==
  ASSUME Lz4Packs, YcInv, PrintInv, [YcNext]_ycVars
  PROVE  PrintInv'
<1>1. CASE UNCHANGED ycVars
  <2>1. UNCHANGED <<session, proc, wire, back, store, shown, lost, meant>>
    BY <1>1 DEF ycVars
  <2>2. \A u \in Users : Printing(u)' /\ Carried(u)'
    BY <2>1, SameUse DEF PrintInv, Printing, Carried, Blank, Printed
  <2> QED BY <2>1, <2>2, SameUse, EntriesSame DEF PrintInv
<1>2. ASSUME NEW u \in Users,
             Start(u) \/ Process(u) \/ Handle(u) \/ Hangup(u) \/ Drop(u)
      PROVE  PrintInv'
  <2>1. CASE Start(u) BY <2>1, StartPrints
  <2>2. CASE Connecting(u) \/ ConnectFailed(u) BY <2>2, ConnectingPrints
  <2>3. CASE Run(u) BY <2>3, RunPrints
  <2>4. CASE Flush(u) BY <2>4, FlushPrints
  <2>5. CASE Recv(u) BY <2>5, RecvPrints
  <2>6. CASE SendFails(u) \/ RecvFails(u) \/ Enter(u) BY <2>6, EndsPrint
  <2>7. CASE Handle(u) BY <2>7, HandlePrints
  <2>8. CASE Hangup(u) \/ Drop(u) BY <2>8, LosePrints DEF Hangup, Drop
  <2> QED BY <1>2, <2>1, <2>2, <2>3, <2>4, <2>5, <2>6, <2>7, <2>8 DEF Process
<1> QED BY <1>1, <1>2 DEF YcNext

(* The users' commands are the same for good.                               *)
LEMMA SessionStays == [YcNext]_ycVars => UNCHANGED session
<1>1. CASE UNCHANGED ycVars
  BY <1>1 DEF ycVars
<1>2. ASSUME NEW u \in Users,
             Start(u) \/ Process(u) \/ Handle(u) \/ Hangup(u) \/ Drop(u)
      PROVE  UNCHANGED session
  BY <1>2, Zenon DEF Start, Process, Connecting, ConnectFailed, Run, Flush, SendFails, Recv,
                     RecvFails, Enter, Handle, Hangup, Drop, Lose
<1> QED BY <1>1, <1>2 DEF YcNext

(* What is shown is what was stored, or the beginning of it.                 *)
LEMMA PrintInvShows == (CarefulUsers => PrintInv) => PrintsStored
BY DEF PrintInv, Printing, PrintsStored, Over, IsGet

(* A get that ends with 0 prints what careful users stored, or the beginning *)
(* of it when its output cannot be written: with the block format of lz4.c,  *)
(* any data, compressed or not and with appends since, any thresholds, any  *)
(* interleaving and any loss of connections.  Users are careful when they   *)
(* leave the flag bit of compression to the library, keep data below the    *)
(* length of an int, and prepend nothing to what may be compressed          *)
(* (yrmcds.h:631): without any of these it is not true.                     *)
THEOREM GetsPrintWhatWasStored == Lz4Packs /\ YcSpec => []PrintsStored
<1> DEFINE Inv == CarefulUsers => PrintInv
<1>1. Lz4Packs /\ YcInv /\ Inv /\ [YcNext]_ycVars => Inv'
  BY PrintNextInv, SessionStays, SameUse
<1>2. YcInit => Inv
  BY PrintInitInv
<1>3. Lz4Packs /\ YcSpec => []Inv
  <2>1. ASSUME Lz4Packs PROVE YcSpec => []Inv
    <3>1. YcInv /\ Inv /\ [YcNext]_ycVars => Inv'
      BY <1>1, <2>1
    <3> HIDE DEF Inv
    <3> QED BY <1>2, <3>1, YcAlways, PTL DEF YcSpec
  <2> QED BY <2>1
<1>4. Inv => PrintsStored
  BY PrintInvShows
<1> HIDE DEF Inv
<1> QED BY <1>3, <1>4, PTL
=============================================================================
