--------------------------- MODULE PersistentPool ---------------------------
(***************************************************************************)
(* The life of a connection inside one PHP worker: yrmcds.c, from          *)
(* php_yrmcds_t to Client::__construct, with the client object's           *)
(* destructor and the methods that use the connection.                     *)
(*                                                                         *)
(* A worker is single-threaded, so at most one handler runs.  A handler is *)
(* cut exactly where it blocks on the socket (connect, recv): `job` says   *)
(* which handler is waiting, and for what.  While it waits, the server     *)
(* goes on: requests travel in `wire`, answers come back in `resp`, late,  *)
(* in order, or never.  The server is yrmcds itself and is external: its   *)
(* actions say what the client code relies on, no more.                    *)
(***************************************************************************)
EXTENDS Naturals, Sequences, FiniteSets

CONSTANTS
  Clients,        \* slots for \yrmcds\Client objects
  Ids,            \* persistent ids
  Conns,          \* addresses of php_yrmcds_t structures
  Keys,           \* names of cached objects
  NULL,           \* the null pointer
  DetectStale,    \* the values yrmcds.detect_stale_connection may have
  Locking,        \* the server is yrmcds (TRUE) or memcached (FALSE)
  TimeoutFires,   \* yrmcds.default_timeout is not 0
  Sharing,        \* two live clients may name the same persistent id
  Reconstruct,    \* __construct may be called on a constructed object
  MaxSerial,      \* bound on the serials one connection hands out
  MaxFlight       \* bound on the requests a program leaves unanswered

ASSUME NullAssumption == NULL \notin Clients \cup Ids \cup Conns \cup Keys
ASSUME FlagAssumption ==
  /\ DetectStale \subseteq BOOLEAN
  /\ {Locking, TimeoutFires, Sharing, Reconstruct} \subseteq BOOLEAN
ASSUME BoundAssumption == MaxSerial \in Nat /\ MaxFlight \in Nat
ASSUME ClientsAssumption == IsFiniteSet(Clients)

VARIABLES
  conn,             \* obj->conn of each client object
  alive,            \* the php_yrmcds_t structures not freed yet
  mem,              \* their contents
  persistent_list,  \* EG(persistent_list): persistent id -> structure
  peer,             \* the server's view of the connection's socket
  wire,             \* requests written and not yet processed
  resp,             \* responses not yet consumed by yrmcds_recv
  holder,           \* server side: who holds the lock of each key
  job,              \* the handler that is blocked on the socket, if any
  detect            \* YRMCDS_G(detect_stale_connection), set for the process

vars == <<conn, alive, mem, persistent_list, peer, wire, resp, holder, job,
          detect>>

-----------------------------------------------------------------------------
(* php_yrmcds_t, with the parts of struct yrmcds that matter here.          *)
Mem == [pkey    : Ids \cup {NULL},
        refs    : Nat,
        serial  : Nat,
        timeout : {"default", "check", "user"},
        invalid : BOOLEAN]

(* Mutant: the structure is entered without counting its first user.        *)
NewMemUncounted(id) == [pkey |-> id, refs |-> 0, serial |-> 0,
                        timeout |-> "default", invalid |-> FALSE]

NewMem(id) == [pkey |-> id, refs |-> 1, serial |-> 0,
               timeout |-> "default", invalid |-> FALSE]

(* The contents of a structure nobody may look at any more.                 *)
Blank == [NewMem(NULL) EXCEPT !.refs = 0]

Ops == {"lock", "unlock", "unlockall", "noop", "get", "torn"}

(* `by` is history: the client that asked, NULL for the extension itself on  *)
(* a connection it has from nobody.                                         *)
Request  == [op : Ops, key : Keys \cup {NULL}, serial : Nat,
             by : Clients \cup {NULL}]

(* A "garbled" response is one yrmcds_recv rejects as a protocol error.     *)
Status   == {"ok", "locked", "unknown", "error", "garbled"}
Response == [serial : Nat, status : Status, by : Clients \cup {NULL}]

Nobody == [conn |-> NULL, by |-> NULL]
Holder == [conn : Conns \cup {NULL}, by : Clients \cup {NULL}]

Idle == [at |-> "idle", cl |-> NULL, id |-> NULL, conn |-> NULL, serial |-> 0]
Job  == [at     : {"idle", "connect", "check", "destruct"},
         cl     : Clients \cup {NULL},
         id     : Ids \cup {NULL},
         conn   : Conns \cup {NULL},
         serial : Nat]

TypeOK ==
  /\ conn \in [Clients -> Conns \cup {NULL}]
  /\ alive \in SUBSET Conns
  /\ mem \in [Conns -> Mem]
  /\ persistent_list \in [Ids -> Conns \cup {NULL}]
  /\ peer \in [Conns -> {"none", "open", "gone", "eof"}]
  /\ wire \in [Conns -> Seq(Request)]
  /\ resp \in [Conns -> Seq(Response)]
  /\ holder \in [Keys -> Holder]
  /\ job \in Job
  /\ detect \in BOOLEAN

Init ==
  /\ conn = [cl \in Clients |-> NULL]
  /\ alive = {}
  /\ mem = [c \in Conns |-> Blank]
  /\ persistent_list = [id \in Ids |-> NULL]
  /\ peer = [c \in Conns |-> "none"]
  /\ wire = [c \in Conns |-> <<>>]
  /\ resp = [c \in Conns |-> <<>>]
  /\ holder = [k \in Keys |-> Nobody]
  /\ job = Idle
  /\ detect \in DetectStale

-----------------------------------------------------------------------------
(* What the library calls do to one connection.                             *)

Flight(c) == Len(wire[c]) + Len(resp[c])

(* send_command takes the next serial before it writes anything.            *)
NextSerial(m, c) == [m EXCEPT ![c].serial = @ + 1]

(* The bytes reach the server unless it has closed its side.                *)
Written(c, op, key, serial, by) ==
  wire' = IF peer[c] = "open"
          THEN [wire EXCEPT ![c] =
                  Append(@, [op |-> op, key |-> key,
                             serial |-> serial, by |-> by])]
          ELSE wire

(* A socket has a send timeout, which is what can cut a frame in two.       *)
HasTimeout(timeout) == timeout # "default" \/ TimeoutFires

(* writev fails: nothing written to a peer that is gone, or a frame left    *)
(* unfinished when the send timed out.                                      *)
SendFails(c, timeout, serial, by) ==
  \/ peer[c] = "gone" /\ UNCHANGED wire
  \/ /\ peer[c] = "open" /\ HasTimeout(timeout)
     /\ Written(c, "torn", NULL, serial, by)

(* yrmcds_close and pefree: the server will see the end of the stream.      *)
FreeConn(c, m) ==
  /\ alive' = alive \ {c}
  /\ mem' = [m EXCEPT ![c] = Blank]
  /\ peer' = [peer EXCEPT ![c] = IF @ = "open" THEN "eof" ELSE "none"]
  /\ resp' = [resp EXCEPT ![c] = <<>>]

(* Mutants of BrokenConnection: it frees without removing the entry, frees  *)
(* although others use the connection, or removes the entry and leaves the  *)
(* socket open.                                                             *)
BrokenKeepsEntry(c, m) ==
  IF m[c].refs = 0
  THEN FreeConn(c, m) /\ UNCHANGED persistent_list
  ELSE mem' = m /\ UNCHANGED <<persistent_list, alive, peer, resp>>

BrokenFreesShared(c, m) ==
  /\ persistent_list' = [persistent_list EXCEPT ![m[c].pkey] = NULL]
  /\ FreeConn(c, m)

BrokenLeavesOpen(c, m) ==
  /\ mem' = m
  /\ persistent_list' = IF m[c].refs = 0
                        THEN [persistent_list EXCEPT ![m[c].pkey] = NULL]
                        ELSE persistent_list
  /\ UNCHANGED <<alive, peer, resp>>

(* on_broken_connection_detected, with m the memory it is called with: the  *)
(* entry under the connection's key is deleted, hence destroyed, only when  *)
(* nobody is counted as a user.                                             *)
BrokenConnection(c, m) ==
  LET id == m[c].pkey IN
  IF m[c].refs = 0 /\ persistent_list[id] # NULL
  THEN /\ persistent_list' = [persistent_list EXCEPT ![id] = NULL]
       /\ FreeConn(persistent_list[id], m)
  ELSE /\ mem' = m
       /\ UNCHANGED <<persistent_list, alive, peer, resp>>

-----------------------------------------------------------------------------
(* Client::__construct.                                                     *)

(* The lookup in EG(persistent_list); without an id there is none.          *)
Entry(id) == IF id = NULL THEN NULL ELSE persistent_list[id]

(* Whether a program may run `new Client` for this id now: environments     *)
(* without Sharing never name an id that a live client uses.                *)
MayConstruct(cl, id) ==
  /\ job = Idle
  /\ Reconstruct \/ conn[cl] = NULL
  /\ \/ Sharing \/ Entry(id) = NULL
     \/ \A other \in Clients \ {cl} : conn[other] # Entry(id)

(* UEPC_NOT_FOUND, or no persistent id: go and connect.                     *)
ConstructNotFound(cl, id) ==
  /\ MayConstruct(cl, id)
  /\ Entry(id) = NULL
  /\ job' = [Idle EXCEPT !.at = "connect", !.cl = cl, !.id = id]
  /\ UNCHANGED <<conn, alive, mem, persistent_list, peer, wire, resp,
                 holder, detect>>

(* UEPC_OK without detection: the entry is used as it is.                   *)
ConstructReuse(cl, id) ==
  /\ MayConstruct(cl, id)
  /\ ~detect /\ Entry(id) # NULL
  /\ LET c == persistent_list[id] IN
       /\ mem[c].serial < MaxSerial
       /\ mem' = [mem EXCEPT ![c].refs = @ + 1]
       /\ conn' = [conn EXCEPT ![cl] = c]
  /\ UNCHANGED <<alive, persistent_list, peer, wire, resp, holder,
                 job, detect>>

(* check_persistent_connection up to its first recv: one second of timeout  *)
(* and a noop, whose response the handler will wait for.                    *)
ConstructCheck(cl, id) ==
  /\ MayConstruct(cl, id)
  /\ detect /\ Entry(id) # NULL
  /\ LET c == persistent_list[id]
         m == NextSerial([mem EXCEPT ![c].timeout = "check"], c)
         by == IF conn[cl] = c THEN cl ELSE NULL IN
       /\ mem[c].serial < MaxSerial
       /\ Written(c, "noop", NULL, m[c].serial, by)
       /\ mem' = m
       /\ job' = [at |-> "check", cl |-> cl, id |-> id, conn |-> c,
                  serial |-> m[c].serial]
  /\ UNCHANGED <<conn, alive, persistent_list, peer, resp, holder, detect>>

(* What the constructor does once the check has failed: UEPC_BROKEN goes on *)
(* to connect, UEPC_BROKEN_AND_OCCUPIED throws.                             *)
AfterBrokenCheck(cl, id, c) ==
  job' = IF mem[c].refs = 0
         THEN [Idle EXCEPT !.at = "connect", !.cl = cl, !.id = id]
         ELSE Idle

(* The noop cannot be sent.                                                 *)
ConstructCheckUnsent(cl, id) ==
  /\ MayConstruct(cl, id)
  /\ detect /\ Entry(id) # NULL
  /\ LET c == persistent_list[id]
         m == NextSerial([mem EXCEPT ![c].timeout = "check"], c)
         by == IF conn[cl] = c THEN cl ELSE NULL IN
       /\ mem[c].serial < MaxSerial
       /\ SendFails(c, "check", m[c].serial, by)
       /\ BrokenConnection(c, m)
       /\ AfterBrokenCheck(cl, id, c)
  /\ UNCHANGED <<conn, holder, detect>>

(* yrmcds_connect, set_compression and set_timeout succeed; a persistent    *)
(* connection is then entered in the list.                                  *)
Connected(c) ==
  /\ job.at = "connect"
  /\ c \notin alive /\ peer[c] = "none"
  /\ alive' = alive \cup {c}
  /\ mem' = [mem EXCEPT ![c] = NewMem(job.id)]
  /\ peer' = [peer EXCEPT ![c] = "open"]
  /\ conn' = [conn EXCEPT ![job.cl] = c]
  /\ persistent_list' = IF job.id = NULL THEN persistent_list
                        ELSE [persistent_list EXCEPT ![job.id] = c]
  /\ job' = Idle
  /\ UNCHANGED <<wire, resp, holder, detect>>

(* One of the three fails: exception.  The new php_yrmcds_t is lost, not    *)
(* freed, and nothing refers to it.                                         *)
ConnectFailed ==
  /\ job.at = "connect"
  /\ job' = Idle
  /\ UNCHANGED <<conn, alive, mem, persistent_list, peer, wire, resp,
                 holder, detect>>

-----------------------------------------------------------------------------
(* The loop `do recv while (r.serial != serial)` of the stale check and of  *)
(* the destructor.                                                          *)

Draining == job.at \in {"check", "destruct"}

CanRecv(c) == /\ ~mem[c].invalid
              /\ resp[c] # <<>> /\ Head(resp[c]).status # "garbled"

(* A response to something else is read and thrown away.                    *)
DrainSkip ==
  /\ Draining
  /\ CanRecv(job.conn) /\ Head(resp[job.conn]).serial # job.serial
  /\ resp' = [resp EXCEPT ![job.conn] = Tail(@)]
  /\ UNCHANGED <<conn, alive, mem, persistent_list, peer, wire, holder,
                 job, detect>>

(* Mutant: the first response ends the loop, whatever its serial.           *)
AwaitedFirst(status) ==
  /\ Draining
  /\ CanRecv(job.conn)
  /\ Head(resp[job.conn]).status \in status

(* The response the loop waits for has come.                                *)
Awaited(status) ==
  /\ Draining
  /\ CanRecv(job.conn) /\ Head(resp[job.conn]).serial = job.serial
  /\ Head(resp[job.conn]).status \in status

(* Mutant: a silent server is waited for without end.                       *)
RecvNeverTimesOut(c) ==
  \/ mem[c].invalid
  \/ resp[c] # <<>> /\ Head(resp[c]).status = "garbled"
  \/ resp[c] = <<>> /\ peer[c] = "gone"

(* yrmcds_recv fails: sticky or new protocol error, end of stream, or the   *)
(* receive timeout, which is 1 second in the check.                         *)
RecvFails(c) ==
  \/ mem[c].invalid
  \/ resp[c] # <<>> /\ Head(resp[c]).status = "garbled"
  \/ resp[c] = <<>> /\ \/ peer[c] = "gone"
                       \/ HasTimeout(mem[c].timeout)

(* recv marks the connection when it meets a response it cannot accept.     *)
MarkInvalid(c) ==
  [mem EXCEPT ![c].invalid =
     @ \/ (resp[c] # <<>> /\ Head(resp[c]).status = "garbled")]

(* Mutants of CheckPasses: the new user is not counted, or the one-second   *)
(* timeout of the check stays.                                              *)
CheckPassesUncounted ==
  /\ job.at = "check" /\ Awaited({"ok"})
  /\ resp' = [resp EXCEPT ![job.conn] = Tail(@)]
  /\ mem' = [mem EXCEPT ![job.conn].timeout = "default"]
  /\ conn' = [conn EXCEPT ![job.cl] = job.conn]
  /\ job' = Idle
  /\ UNCHANGED <<alive, persistent_list, peer, wire, holder, detect>>

CheckPassesShortTimeout ==
  /\ job.at = "check" /\ Awaited({"ok"})
  /\ resp' = [resp EXCEPT ![job.conn] = Tail(@)]
  /\ mem' = [mem EXCEPT ![job.conn].refs = @ + 1]
  /\ conn' = [conn EXCEPT ![job.cl] = job.conn]
  /\ job' = Idle
  /\ UNCHANGED <<alive, persistent_list, peer, wire, holder, detect>>

(* The check succeeds: the default timeout comes back, one more user.       *)
CheckPasses ==
  /\ job.at = "check" /\ Awaited({"ok"})
  /\ LET c == job.conn IN
       /\ resp' = [resp EXCEPT ![c] = Tail(@)]
       /\ mem' = [mem EXCEPT ![c].timeout = "default", ![c].refs = @ + 1]
       /\ conn' = [conn EXCEPT ![job.cl] = c]
  /\ job' = Idle
  /\ UNCHANGED <<alive, persistent_list, peer, wire, holder, detect>>

(* The check fails: the entry goes if nobody uses it.                       *)
CheckBreaks ==
  /\ job.at = "check"
  /\ RecvFails(job.conn) \/ Awaited(Status \ {"ok"})
  /\ BrokenConnection(job.conn, MarkInvalid(job.conn))
  /\ AfterBrokenCheck(job.cl, job.id, job.conn)
  /\ UNCHANGED <<conn, wire, holder, detect>>

-----------------------------------------------------------------------------
(* The destructor of a client object: yrmcds_client_delete, destruct_conn.  *)

(* Mutants of Detached: the reference is kept, or the client's timeout is.  *)
DetachedCounted(c) == NextSerial([mem EXCEPT ![c].timeout = "default"], c)

DetachedOwnTimeout(c) == NextSerial([mem EXCEPT ![c].refs = @ - 1], c)

(* The memory after `reference_count -= 1`, the timeout reset and the       *)
(* serial taken for unlockall.                                              *)
Detached(c) ==
  NextSerial([mem EXCEPT ![c].refs = @ - 1, ![c].timeout = "default"], c)

(* A non-persistent connection is closed and freed at once.                 *)
DestructPlain(cl) ==
  /\ job = Idle /\ conn[cl] # NULL /\ mem[conn[cl]].pkey = NULL
  /\ FreeConn(conn[cl], mem)
  /\ conn' = [conn EXCEPT ![cl] = NULL]
  /\ UNCHANGED <<persistent_list, wire, holder, job, detect>>

(* Mutant: the destructor drains with noop and forgets the locks.           *)
DestructWithNoop(cl) ==
  /\ job = Idle /\ conn[cl] # NULL /\ mem[conn[cl]].pkey # NULL
  /\ LET c == conn[cl] IN
       /\ Written(c, "noop", NULL, Detached(c)[c].serial, NULL)
       /\ mem' = Detached(c)
       /\ job' = [at |-> "destruct", cl |-> cl, id |-> NULL, conn |-> c,
                  serial |-> Detached(c)[c].serial]
  /\ UNCHANGED <<conn, alive, persistent_list, peer, resp, holder, detect>>

(* A persistent one is finalised: unlockall, then wait for its response.    *)
DestructPersistent(cl) ==
  /\ job = Idle /\ conn[cl] # NULL /\ mem[conn[cl]].pkey # NULL
  /\ LET c == conn[cl] IN
       /\ Written(c, "unlockall", NULL, Detached(c)[c].serial, NULL)
       /\ mem' = Detached(c)
       /\ job' = [at |-> "destruct", cl |-> cl, id |-> NULL, conn |-> c,
                  serial |-> Detached(c)[c].serial]
  /\ UNCHANGED <<conn, alive, persistent_list, peer, resp, holder, detect>>

DestructUnsent(cl) ==
  /\ job = Idle /\ conn[cl] # NULL /\ mem[conn[cl]].pkey # NULL
  /\ LET c == conn[cl] IN
       /\ SendFails(c, "default", Detached(c)[c].serial, NULL)
       /\ BrokenConnection(c, Detached(c))
  /\ conn' = [conn EXCEPT ![cl] = NULL]
  /\ UNCHANGED <<holder, job, detect>>

(* memcached does not know unlockall: that answer is as good as success.    *)
DestructDone ==
  /\ job.at = "destruct" /\ Awaited({"ok", "unknown"})
  /\ resp' = [resp EXCEPT ![job.conn] = Tail(@)]
  /\ conn' = [conn EXCEPT ![job.cl] = NULL]
  /\ job' = Idle
  /\ UNCHANGED <<alive, mem, persistent_list, peer, wire, holder, detect>>

(* Mutant: an error while draining is ignored and the entry stays.          *)
DestructBreaksIgnored ==
  /\ job.at = "destruct"
  /\ RecvFails(job.conn) \/ Awaited(Status \ {"ok", "unknown"})
  /\ conn' = [conn EXCEPT ![job.cl] = NULL]
  /\ job' = Idle
  /\ UNCHANGED <<alive, mem, persistent_list, peer, wire, resp,
                 holder, detect>>

DestructBreaks ==
  /\ job.at = "destruct"
  /\ RecvFails(job.conn) \/ Awaited(Status \ {"ok", "unknown"})
  /\ BrokenConnection(job.conn, MarkInvalid(job.conn))
  /\ conn' = [conn EXCEPT ![job.cl] = NULL]
  /\ job' = Idle
  /\ UNCHANGED <<wire, holder, detect>>

-----------------------------------------------------------------------------
(* The methods a program calls on a client between the two.                 *)

Using(cl) == job = Idle /\ conn[cl] # NULL

(* lock, unlock and get stand for the command methods: one that takes a     *)
(* server-side lock, one that gives it back, one that does neither.         *)
Command(cl, op, key) ==
  /\ Using(cl)
  /\ LET c == conn[cl] IN
       /\ mem[c].serial < MaxSerial /\ Flight(c) < MaxFlight
       /\ mem' = NextSerial(mem, c)
       /\ Written(c, op, key, mem[c].serial + 1, cl)
  /\ UNCHANGED <<conn, alive, persistent_list, peer, resp, holder,
                 job, detect>>

CommandFails(cl) ==
  /\ Using(cl)
  /\ LET c == conn[cl] IN
       /\ mem[c].serial < MaxSerial /\ Flight(c) < MaxFlight
       /\ mem' = NextSerial(mem, c)
       /\ SendFails(c, mem[c].timeout, mem[c].serial + 1, cl)
  /\ UNCHANGED <<conn, alive, persistent_list, peer, resp, holder,
                 job, detect>>

(* Client::recv with a response to return; a recv that fails for want of    *)
(* one throws and changes nothing.                                          *)
Recv(cl) ==
  /\ Using(cl) /\ CanRecv(conn[cl])
  /\ resp' = [resp EXCEPT ![conn[cl]] = Tail(@)]
  /\ UNCHANGED <<conn, alive, mem, persistent_list, peer, wire, holder,
                 job, detect>>

RecvGarbled(cl) ==
  /\ Using(cl) /\ ~mem[conn[cl]].invalid
  /\ resp[conn[cl]] # <<>> /\ Head(resp[conn[cl]]).status = "garbled"
  /\ mem' = MarkInvalid(conn[cl])
  /\ UNCHANGED <<conn, alive, persistent_list, peer, wire, resp, holder,
                 job, detect>>

SetTimeout(cl) ==
  /\ Using(cl)
  /\ mem' = [mem EXCEPT ![conn[cl]].timeout = "user"]
  /\ UNCHANGED <<conn, alive, persistent_list, peer, wire, resp, holder,
                 job, detect>>

(* The worker process ends after a request: every entry of the list goes    *)
(* through php_yrmcds_resource_pdtor, and every other socket is closed.     *)
ProcessEnds ==
  /\ job = Idle /\ \A cl \in Clients : conn[cl] = NULL
  /\ alive # {}
  /\ alive' = {}
  /\ mem' = [c \in Conns |-> Blank]
  /\ peer' = [c \in Conns |-> CASE c \notin alive       -> peer[c]
                                [] peer[c] = "open"     -> "eof"
                                [] OTHER                -> "none"]
  /\ resp' = [c \in Conns |-> <<>>]
  /\ persistent_list' = [id \in Ids |-> NULL]
  /\ UNCHANGED <<conn, wire, holder, job, detect>>

-----------------------------------------------------------------------------
(* The server (external).  It processes the requests of a session in order, *)
(* and its answers are lost when the client has closed.                     *)

Serving(c, op) ==
  /\ peer[c] \in {"open", "eof"}
  /\ wire[c] # <<>> /\ Head(wire[c]).op = op

(* Answer the request at the head of the wire, consuming n requests.        *)
Reply(c, n, status) ==
  /\ wire' = [wire EXCEPT ![c] = SubSeq(@, n + 1, Len(@))]
  /\ resp' = IF peer[c] = "open"
             THEN [resp EXCEPT ![c] =
                     Append(@, [serial |-> Head(wire[c]).serial,
                                status |-> status,
                                by     |-> Head(wire[c]).by])]
             ELSE resp

Unlocked(c) == [k \in Keys |-> IF holder[k].conn = c THEN Nobody ELSE holder[k]]

ServeLock(c) ==
  /\ Serving(c, "lock")
  /\ LET q == Head(wire[c]) IN
     \/ ~Locking /\ Reply(c, 1, "unknown") /\ UNCHANGED holder
     \/ /\ Locking /\ holder[q.key] = Nobody
        /\ holder' = [holder EXCEPT ![q.key] = [conn |-> c, by |-> q.by]]
        /\ Reply(c, 1, "ok")
     \/ /\ Locking /\ holder[q.key] # Nobody
        /\ Reply(c, 1, "locked") /\ UNCHANGED holder
  /\ UNCHANGED <<conn, alive, mem, persistent_list, peer, job, detect>>

ServeUnlock(c) ==
  /\ Serving(c, "unlock")
  /\ LET q == Head(wire[c]) IN
     \/ ~Locking /\ Reply(c, 1, "unknown") /\ UNCHANGED holder
     \/ /\ Locking /\ holder[q.key].conn = c
        /\ holder' = [holder EXCEPT ![q.key] = Nobody]
        /\ Reply(c, 1, "ok")
     \/ /\ Locking /\ holder[q.key].conn # c
        /\ Reply(c, 1, "error") /\ UNCHANGED holder
  /\ UNCHANGED <<conn, alive, mem, persistent_list, peer, job, detect>>

(* unlockall may be refused, in which case it releases nothing.             *)
ServeUnlockAll(c) ==
  /\ Serving(c, "unlockall")
  /\ \/ ~Locking /\ Reply(c, 1, "unknown") /\ UNCHANGED holder
     \/ Locking /\ Reply(c, 1, "ok") /\ holder' = Unlocked(c)
     \/ Locking /\ Reply(c, 1, "error") /\ UNCHANGED holder
  /\ UNCHANGED <<conn, alive, mem, persistent_list, peer, job, detect>>

ServeNoop(c) ==
  /\ Serving(c, "noop") /\ Reply(c, 1, "ok")
  /\ UNCHANGED <<conn, alive, mem, persistent_list, peer, holder, job, detect>>

(* A value may be one the client cannot decode.                             *)
ServeGet(c) ==
  /\ Serving(c, "get")
  /\ Reply(c, 1, "ok") \/ Reply(c, 1, "garbled")
  /\ UNCHANGED <<conn, alive, mem, persistent_list, peer, holder, job, detect>>

(* An unfinished frame swallows the bytes of the next one.                  *)
ServeTorn(c) ==
  /\ Serving(c, "torn") /\ Len(wire[c]) > 1
  /\ Reply(c, 2, "ok")
  /\ UNCHANGED <<conn, alive, mem, persistent_list, peer, holder, job, detect>>

(* The server ends a session the client still has open (crash, restart, an  *)
(* idle limit, a frame it does not understand).  Answers already sent may   *)
(* still arrive.                                                            *)
ServerCloses(c) ==
  /\ peer[c] = "open"
  /\ peer' = [peer EXCEPT ![c] = "gone"]
  /\ wire' = [wire EXCEPT ![c] = <<>>]
  /\ \/ UNCHANGED resp
     \/ resp' = [resp EXCEPT ![c] = <<>>]
  /\ holder' = Unlocked(c)
  /\ UNCHANGED <<conn, alive, mem, persistent_list, job, detect>>

(* The server notices that the client has closed.                           *)
SessionReaped(c) ==
  /\ peer[c] = "eof"
  /\ peer' = [peer EXCEPT ![c] = "none"]
  /\ wire' = [wire EXCEPT ![c] = <<>>]
  /\ holder' = Unlocked(c)
  /\ UNCHANGED <<conn, alive, mem, persistent_list, resp, job, detect>>

-----------------------------------------------------------------------------
Serve(c) == \/ ServeLock(c) \/ ServeUnlock(c) \/ ServeUnlockAll(c)
            \/ ServeNoop(c) \/ ServeGet(c) \/ ServeTorn(c)

(* A handler that is waiting goes on.                                       *)
Resume == \/ DrainSkip \/ CheckPasses \/ CheckBreaks
          \/ DestructDone \/ DestructBreaks
          \/ ConnectFailed \/ \E c \in Conns : Connected(c)

Next ==
  \/ \E cl \in Clients, id \in Ids \cup {NULL} : ConstructNotFound(cl, id)
  \/ \E cl \in Clients, id \in Ids : \/ ConstructReuse(cl, id)
                                     \/ ConstructCheck(cl, id)
                                     \/ ConstructCheckUnsent(cl, id)
  \/ \E cl \in Clients : \/ DestructPlain(cl)
                         \/ DestructPersistent(cl)
                         \/ DestructUnsent(cl)
                         \/ CommandFails(cl)
                         \/ Recv(cl) \/ RecvGarbled(cl)
                         \/ SetTimeout(cl)
  \/ \E cl \in Clients, key \in Keys : \/ Command(cl, "lock", key)
                                       \/ Command(cl, "unlock", key)
  \/ \E cl \in Clients : Command(cl, "get", NULL)
  \/ Resume
  \/ ProcessEnds
  \/ \E c \in Conns : Serve(c) \/ ServerCloses(c) \/ SessionReaped(c)

Spec == Init /\ [][Next]_vars

(* A blocked call returns (it has an answer, an error, or the timeout), and *)
(* the server notices a closed connection.  Nothing makes it answer.        *)
Fairness == /\ WF_vars(Resume)
            /\ \A c \in Conns : WF_vars(SessionReaped(c))

FairSpec == Spec /\ Fairness

-----------------------------------------------------------------------------
(* Properties.                                                             *)

(* The clients that count as users of c: one that is being destructed has   *)
(* given its reference back before its handler waits for the server.        *)
Users(c) == {cl \in Clients :
               conn[cl] = c /\ ~(job.at = "destruct" /\ job.cl = cl)}

(* reference_count is the number of users, at every moment the code could   *)
(* test it: "the last user" of on_broken_connection_detected is the last.   *)
RefcountExact == \A c \in alive : mem[c].refs = Cardinality(Users(c))

(* No pointer outlives its target.  A client's connection, the connection a *)
(* handler waits on and every list entry are structures that have not been  *)
(* freed; a live structure is in the list under its own key or has none;    *)
(* nobody shares a connection without a key.                                *)
PoolSound ==
  /\ \A cl \in Clients : conn[cl] = NULL \/ conn[cl] \in alive
  /\ job.conn = NULL \/ job.conn \in alive
  /\ \A id \in Ids : \/ persistent_list[id] = NULL
                     \/ /\ persistent_list[id] \in alive
                        /\ mem[persistent_list[id]].pkey = id
  /\ \A c \in alive : mem[c].pkey # NULL => persistent_list[mem[c].pkey] = c
  /\ \A cl1, cl2 \in Clients :
       conn[cl1] = conn[cl2] /\ conn[cl1] # NULL /\ mem[conn[cl1]].pkey = NULL
         => cl1 = cl2

(* A persistent connection that waits in the list for its next client is    *)
(* as good as new, whatever its last client left behind and however its     *)
(* finalisation went: nothing in flight in either direction, no lock held   *)
(* by its session, the default timeout, no protocol error seen.             *)
Clean(c) ==
  /\ wire[c] = <<>> /\ resp[c] = <<>>
  /\ \A k \in Keys : holder[k].conn # c
  /\ mem[c].timeout = "default"
  /\ ~mem[c].invalid

IdleIsClean ==
  job = Idle =>
    \A id \in Ids : LET c == persistent_list[id] IN
                    c # NULL /\ mem[c].refs = 0 => Clean(c)

(* What is in flight on a client's connection, and the locks its session    *)
(* holds, were asked for by that client and by nobody before it.            *)
OwnTraffic ==
  job = Idle =>
    \A cl \in Clients : LET c == conn[cl] IN
      c # NULL =>
        /\ \A i \in 1..Len(wire[c]) : wire[c][i].by = cl
        /\ \A i \in 1..Len(resp[c]) : resp[c][i].by = cl
        /\ \A k \in Keys : holder[k].conn = c => holder[k].by = cl

(* With stale detection, the connection a constructor picks from the list   *)
(* has nothing left in flight and the default timeout at that moment, even  *)
(* if another live client shares it.                                        *)
AdoptsDrained ==
  [][\A cl \in Clients :
       LET c == conn'[cl] IN
       detect /\ c # conn[cl] /\ c \in alive =>
         /\ wire'[c] = <<>> /\ resp'[c] = <<>>
         /\ mem'[c].timeout = "default" /\ ~mem'[c].invalid]_vars

(* Constructor and destructor come back to the program even when the server *)
(* never answers.                                                           *)
HandlerReturns == job # Idle ~> job = Idle

(* A lock does not stay with a connection no client has any more.           *)
AbandonedLocksEnd ==
  \A k \in Keys, c \in Conns :
    (holder[k].conn = c /\ \A cl \in Clients : conn[cl] # c)
      ~> holder[k].conn # c

(* USAGE.md:32: at the end of a request, the locks "acquired by this        *)
(* client" are released.  Those another live client acquired are not.       *)
OthersKeepLocks ==
  [][\A k \in Keys, c \in Conns :
       /\ holder[k].conn = c /\ peer[c] = "open" /\ peer'[c] = "open"
       /\ holder'[k] = Nobody
       /\ wire[c] # <<>> /\ Head(wire[c]).op = "unlockall"
       => holder[k].by \notin Users(c)]_vars
=============================================================================
