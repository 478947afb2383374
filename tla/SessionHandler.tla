--------------------------- MODULE SessionHandler ---------------------------
(* yrmcds_session.php: PHP workers that keep their sessions in yrmcds, each *)
(* with a client and a handler of its own for the time of a request.        *)
(*                                                                         *)
(* A worker is blocked in recv or in time_nanosleep between the steps of    *)
(* read; write and destroy are quiet commands, which the server carries out *)
(* later, and answers only if it refuses them.                              *)
EXTENDS Naturals, Sequences, FiniteSets

CONSTANTS
  Workers,     \* PHP workers
  Ids,         \* session ids
  NULL,        \* no id, no worker
  Timeouts,    \* what `$timeout != 0` may be
  SerialMod,   \* serials are counted modulo this (2^32)
  MaxFlight    \* bound on the commands a worker leaves unanswered

ASSUME NullAssumption == NULL \notin Workers \cup Ids
ASSUME TimeoutsAssumption == Timeouts \subseteq BOOLEAN
ASSUME SessionBounds == SerialMod \in Nat /\ MaxFlight \in Nat \ {0} /\ MaxFlight < SerialMod
ASSUME FiniteAssumption == IsFiniteSet(Workers) /\ IsFiniteSet(Ids)

VARIABLES
  handler,   \* the session handler of each worker, and where it is
  conn,      \* the connection of its client
  wire,      \* commands sent and not yet carried out
  resp,      \* responses not yet received
  store,     \* server: the version of each session's data, 0 if there is none
  holder     \* server: the worker whose connection holds a session's lock

sessionVars == <<handler, conn, wire, resp, store, holder>>

-----------------------------------------------------------------------------
(* at: "lockGet" and "getTouch" wait for that response, "touch" for the     *)
(* next one, "sleep" is between two attempts, "open" is a started session.  *)
(* timeout: it is not 0.  late: $timeout seconds have passed since wait_lock *)
(* began.                                                                   *)
(* base is history: the version read, 0 for none.                           *)
Handler == [at      : {"idle", "lockGet", "sleep", "touch", "getTouch", "open"},
            id      : Ids \cup {NULL},
            timeout : BOOLEAN,
            locked  : BOOLEAN,
            late    : BOOLEAN,
            serial  : 0..(SerialMod - 1),
            base    : Nat]

(* __construct, with the serial of a new connection.                        *)
NewHandler(timeout) ==
  [at |-> "idle", id |-> NULL, timeout |-> timeout, locked |-> FALSE,
   late |-> FALSE, serial |-> 0, base |-> 0]

(* A write also carries the version it writes and the one it comes from.    *)
Command == [op      : {"lockGet", "getTouch", "touch", "replaceUnlock", "set",
                       "delete"},
            id      : Ids,
            serial  : 0..(SerialMod - 1),
            base    : Nat,
            version : Nat]

Answer == [op      : {"lockGet", "getTouch", "touch", "replaceUnlock", "set",
                      "delete"},
           serial  : 0..(SerialMod - 1),
           status  : {"ok", "locked", "refused"},
           version : Nat]

SessionTypeOK ==
  /\ handler \in [Workers -> Handler]
  /\ conn \in [Workers -> {"open", "gone", "eof", "closed"}]
  /\ wire \in [Workers -> Seq(Command)]
  /\ resp \in [Workers -> Seq(Answer)]
  /\ store \in [Ids -> Nat]
  /\ holder \in [Ids -> Workers \cup {NULL}]

(* Some sessions exist when the workers start.                              *)
SessionInit ==
  /\ handler = [w \in Workers |-> NewHandler(FALSE)]
  /\ conn = [w \in Workers |-> "closed"]
  /\ wire = [w \in Workers |-> <<>>]
  /\ resp = [w \in Workers |-> <<>>]
  /\ store \in [Ids -> {0, 1}]
  /\ holder = [i \in Ids |-> NULL]

-----------------------------------------------------------------------------
Flight(w) == Len(wire[w]) + Len(resp[w])

(* Mutant: a serial wider than the one on the wire.                         *)
NextSerialWide(serial) == serial + 1

NextSerial(serial) == (serial + 1) % SerialMod

(* What is left of a handler when a call ends: its fields, the serial.      *)
Left(h) ==
  [NewHandler(h.timeout) EXCEPT !.locked = h.locked, !.serial = h.serial]

(* A command of h, sent by worker w with the next serial.  It is lost if    *)
(* the server has ended the connection.                                     *)
Written(w, op, h, version) ==
  wire' = IF conn[w] = "open"
          THEN [wire EXCEPT ![w] =
                  Append(@, [op |-> op, id |-> h.id,
                             serial |-> NextSerial(h.serial),
                             base |-> h.base, version |-> version])]
          ELSE wire

Sent(h) == [h EXCEPT !.serial = NextSerial(@)]

At(w, where) == conn[w] \in {"open", "gone"} /\ handler[w].at \in where

-----------------------------------------------------------------------------
(* read.                                                                    *)

(* session_start: read sends lockGet, or getTouch if there is no locking.   *)
Start(w, id) ==
  /\ At(w, {"idle"}) /\ Flight(w) < MaxFlight
  /\ LET op == IF handler[w].timeout THEN "lockGet" ELSE "getTouch"
         h  == [handler[w] EXCEPT !.at = op, !.id = id]
     IN Written(w, op, h, 0) /\ handler' = [handler EXCEPT ![w] = Sent(h)]
  /\ UNCHANGED <<conn, resp, store, holder>>

(* The loop until `$r->serial == $serial`.                                  *)
Skip(w) ==
  /\ At(w, {"lockGet", "getTouch"})
  /\ resp[w] # <<>> /\ Head(resp[w]).serial # handler[w].serial
  /\ resp' = [resp EXCEPT ![w] = Tail(@)]
  /\ UNCHANGED <<handler, conn, wire, store, holder>>

(* Mutant: the first response is taken for the answer.                      *)
AnsweredByAny(w, where) ==
  /\ At(w, where)
  /\ resp[w] # <<>>
  /\ resp' = [resp EXCEPT ![w] = Tail(@)]

(* The response waited for is here, and is consumed.                        *)
Answered(w, where) ==
  /\ At(w, where)
  /\ resp[w] # <<>> /\ Head(resp[w]).serial = handler[w].serial
  /\ resp' = [resp EXCEPT ![w] = Tail(@)]

(* Mutant: no TimeoutException.                                             *)
LockedAgain(w) ==
  /\ Answered(w, {"lockGet"}) /\ Head(resp[w]).status = "locked"
  /\ handler' = [handler EXCEPT ![w].at = "sleep"]
  /\ UNCHANGED <<conn, wire, store, holder>>

(* STATUS_LOCKED: TimeoutException after $timeout seconds, else sleep.      *)
Locked(w) ==
  /\ Answered(w, {"lockGet"}) /\ Head(resp[w]).status = "locked"
  /\ handler' = [handler EXCEPT ![w] = IF @.late THEN Left(@)
                                               ELSE [@ EXCEPT !.at = "sleep"]]
  /\ UNCHANGED <<conn, wire, store, holder>>

Retry(w) ==
  /\ At(w, {"sleep"})
  /\ Written(w, "lockGet", handler[w], 0)
  /\ handler' = [handler EXCEPT ![w] = [Sent(@) EXCEPT !.at = "lockGet"]]
  /\ UNCHANGED <<conn, resp, store, holder>>

(* STATUS_OK: the session is locked; touch it.                              *)
Granted(w) ==
  /\ Answered(w, {"lockGet"}) /\ Head(resp[w]).status = "ok"
  /\ Written(w, "touch", handler[w], 0)
  /\ handler' = [handler EXCEPT ![w] =
       [Sent(@) EXCEPT !.at = "touch", !.locked = TRUE, !.late = FALSE,
                       !.base = Head(resp[w]).version]]
  /\ UNCHANGED <<conn, store, holder>>

(* Any other status: there is no such session, and `locked` stays as it is. *)
NotFound(w) ==
  /\ Answered(w, {"lockGet"}) /\ Head(resp[w]).status = "refused"
  /\ handler' = [handler EXCEPT ![w].at = "open", ![w].late = FALSE]
  /\ UNCHANGED <<conn, wire, store, holder>>

(* The recv after touch takes the next response, whatever it is.            *)
Touched(w) ==
  /\ At(w, {"touch"}) /\ resp[w] # <<>>
  /\ resp' = [resp EXCEPT ![w] = Tail(@)]
  /\ handler' = [handler EXCEPT ![w].at = "open"]
  /\ UNCHANGED <<conn, wire, store, holder>>

(* Without locking the data is used whatever the status.                    *)
GotTouched(w) ==
  /\ Answered(w, {"getTouch"})
  /\ handler' = [handler EXCEPT ![w].at = "open", ![w].base = Head(resp[w]).version]
  /\ UNCHANGED <<conn, wire, store, holder>>

(* recv throws (timeout, end of the connection), and read with it.          *)
ReadThrows(w) ==
  /\ At(w, {"lockGet", "getTouch", "touch"}) /\ resp[w] = <<>>
  /\ handler' = [handler EXCEPT ![w] = Left(@)]
  /\ UNCHANGED <<conn, wire, resp, store, holder>>

TimePasses(w) ==
  /\ At(w, {"lockGet", "sleep"}) /\ ~handler[w].late
  /\ handler' = [handler EXCEPT ![w].late = TRUE]
  /\ UNCHANGED <<conn, wire, resp, store, holder>>

-----------------------------------------------------------------------------
(* write, destroy and close.                                                *)

(* A version that nobody refers to.                                         *)
Queued(queue) == UNION {{queue[w][n] : n \in 1..Len(queue[w])} : w \in Workers}

Versions ==
  {store[i] : i \in Ids} \cup {handler[w].base : w \in Workers}
  \cup {q.version : q \in Queued(wire)} \cup {q.base : q \in Queued(wire)}
  \cup {r.version : r \in Queued(resp)}

NewVersion == CHOOSE v \in 1..(Cardinality(Versions) + 1) : v \notin Versions

(* The command write uses for data that is not empty.                       *)
StoreCommand(w) == IF handler[w].locked THEN "replaceUnlock" ELSE "set"

(* $id is the id of the session that read has opened: PHP calls write with  *)
(* the id of its open session, and PHP 7 gives a session another id by      *)
(* closing it and reading the new one.                                      *)
Write(w) ==
  /\ At(w, {"open"}) /\ Flight(w) < MaxFlight
  /\ Written(w, StoreCommand(w), handler[w], NewVersion)
  /\ handler' = [handler EXCEPT ![w] = Left(Sent(@))]
  /\ UNCHANGED <<conn, resp, store, holder>>

(* Empty data, or session_destroy: the session is deleted.                  *)
Destroy(w) ==
  /\ At(w, {"open"}) /\ Flight(w) < MaxFlight
  /\ Written(w, "delete", handler[w], 0)
  /\ handler' = [handler EXCEPT ![w] = Left(Sent(@))]
  /\ UNCHANGED <<conn, resp, store, holder>>

(* session_abort: close without write.  The lock is left to the client.     *)
Abort(w) ==
  /\ At(w, {"open"})
  /\ handler' = [handler EXCEPT ![w] = Left(@)]
  /\ UNCHANGED <<conn, wire, resp, store, holder>>

(* The request ends, or its process is killed, and the client with it       *)
(* (destruct_conn without a persistent id).                                 *)
EndRequest(w) ==
  /\ conn[w] \in {"open", "gone"}
  /\ conn' = [conn EXCEPT ![w] = IF @ = "open" THEN "eof" ELSE "closed"]
  /\ resp' = [resp EXCEPT ![w] = <<>>]
  /\ handler' = [handler EXCEPT ![w] = NewHandler(FALSE)]
  /\ UNCHANGED <<wire, store, holder>>

(* The next request: a new client, and a new handler.                       *)
NewRequest(w, timeout) ==
  /\ conn[w] = "closed"
  /\ conn' = [conn EXCEPT ![w] = "open"]
  /\ handler' = [handler EXCEPT ![w] = NewHandler(timeout)]
  /\ UNCHANGED <<wire, resp, store, holder>>

-----------------------------------------------------------------------------
(* yrmcds (external).  It carries out the commands of a connection in       *)
(* order, also those that were on their way when the client closed.         *)

Serving(w, op) ==
  /\ conn[w] \in {"open", "eof"}
  /\ wire[w] # <<>> /\ Head(wire[w]).op = op
  /\ wire' = [wire EXCEPT ![w] = Tail(@)]

Reply(w, status, version) ==
  resp' = IF conn[w] = "open"
          THEN [resp EXCEPT ![w] =
                  Append(@, [op |-> Head(wire[w]).op, serial |-> Head(wire[w]).serial,
                             status |-> status, version |-> version])]
          ELSE resp

Others(w, i) == holder[i] \notin {NULL, w}

(* A lock the same connection already holds may be refused or given again.  *)
ServeLockGet(w) ==
  /\ Serving(w, "lockGet")
  /\ LET i == Head(wire[w]).id IN
     \/ /\ store[i] = 0
        /\ Reply(w, "refused", 0) /\ UNCHANGED holder
     \/ /\ store[i] # 0 /\ holder[i] # NULL
        /\ Reply(w, "locked", 0) /\ UNCHANGED holder
     \/ /\ store[i] # 0 /\ ~Others(w, i)
        /\ Reply(w, "ok", store[i]) /\ holder' = [holder EXCEPT ![i] = w]
  /\ UNCHANGED <<handler, conn, store>>

ServeTouch(w) ==
  /\ Serving(w, "touch")
  /\ Reply(w, "ok", 0) \/ Reply(w, "refused", 0)
  /\ UNCHANGED <<handler, conn, store, holder>>

(* A locked object may be read all the same, or be refused.                 *)
ServeGetTouch(w) ==
  /\ Serving(w, "getTouch")
  /\ LET i == Head(wire[w]).id IN
     \/ store[i] # 0 /\ Reply(w, "ok", store[i])
     \/ (store[i] = 0 \/ Others(w, i)) /\ Reply(w, "refused", 0)
  /\ UNCHANGED <<handler, conn, store, holder>>

(* Carried out for the holder of the lock, who then holds it no more.       *)
ServeReplaceUnlock(w) ==
  /\ Serving(w, "replaceUnlock")
  /\ LET q == Head(wire[w]) IN
     \/ /\ holder[q.id] = w
        /\ store' = [store EXCEPT ![q.id] = q.version]
        /\ holder' = [holder EXCEPT ![q.id] = NULL]
        /\ UNCHANGED resp
     \/ /\ holder[q.id] # w
        /\ Reply(w, "refused", 0) /\ UNCHANGED <<store, holder>>
  /\ UNCHANGED <<handler, conn>>

ServeSet(w) ==
  /\ Serving(w, "set")
  /\ LET q == Head(wire[w]) IN
     \/ /\ ~Others(w, q.id)
        /\ store' = [store EXCEPT ![q.id] = q.version]
        /\ UNCHANGED resp
     \/ /\ Others(w, q.id)
        /\ Reply(w, "locked", 0) /\ UNCHANGED store
  /\ UNCHANGED <<handler, conn, holder>>

ServeDelete(w) ==
  /\ Serving(w, "delete")
  /\ LET i == Head(wire[w]).id IN
     \/ /\ store[i] # 0 /\ ~Others(w, i)
        /\ store' = [store EXCEPT ![i] = 0]
        /\ holder' = [holder EXCEPT ![i] = NULL]
        /\ UNCHANGED resp
     \/ /\ store[i] = 0 \/ Others(w, i)
        /\ Reply(w, "refused", 0) /\ UNCHANGED <<store, holder>>
  /\ UNCHANGED <<handler, conn>>

(* A session nobody has locked expires.                                     *)
Expires(i) ==
  /\ store[i] # 0 /\ holder[i] = NULL
  /\ store' = [store EXCEPT ![i] = 0]
  /\ UNCHANGED <<handler, conn, wire, resp, holder>>

(* A connection ends, by its client or from the server, and what is left on *)
(* it is dropped, with its locks.                                           *)
Disconnects(w) ==
  /\ conn[w] \in {"open", "eof"}
  /\ conn' = [conn EXCEPT ![w] = IF @ = "open" THEN "gone" ELSE "closed"]
  /\ wire' = [wire EXCEPT ![w] = <<>>]
  /\ holder' = [i \in Ids |-> IF holder[i] = w THEN NULL ELSE holder[i]]
  /\ UNCHANGED <<handler, resp, store>>

-----------------------------------------------------------------------------
Serve(w) == \/ ServeLockGet(w) \/ ServeTouch(w) \/ ServeGetTouch(w)
            \/ ServeReplaceUnlock(w) \/ ServeSet(w) \/ ServeDelete(w)

(* read goes on.                                                            *)
Read(w) == \/ Skip(w) \/ Locked(w) \/ Retry(w) \/ Granted(w) \/ NotFound(w)
           \/ Touched(w) \/ GotTouched(w) \/ ReadThrows(w)

SessionNext ==
  \/ \E w \in Workers : \/ \E id \in Ids : Start(w, id)
                       \/ Read(w) \/ TimePasses(w)
                       \/ Write(w) \/ Destroy(w) \/ Abort(w)
                       \/ EndRequest(w)
                       \/ \E timeout \in Timeouts : NewRequest(w, timeout)
                       \/ Serve(w) \/ Disconnects(w)
  \/ \E i \in Ids : Expires(i)

SessionSpec == SessionInit /\ [][SessionNext]_sessionVars

(* A worker that can go on does, and time passes.  Nothing is assumed of    *)
(* the server, nor of what the program does with an open session.           *)
SessionFairness == \A w \in Workers : WF_sessionVars(Read(w)) /\ WF_sessionVars(TimePasses(w))

SessionFairSpec == SessionSpec /\ SessionFairness

-----------------------------------------------------------------------------
(* Properties.                                                             *)

(* While a session is open after a locked read, the lock is still there and *)
(* the data is still the data that was read, unless the connection is gone. *)
OwnerHolds ==
  \A w \in Workers :
    At(w, {"open"}) /\ conn[w] = "open" /\ handler[w].timeout /\ handler[w].base # 0
      => /\ holder[handler[w].id] = w
         /\ store[handler[w].id] = handler[w].base

(* No lost update: the data that a locked write replaces is the data its    *)
(* writer had read, in spite of retries, timeouts, workers that do not      *)
(* lock, expiry and broken connections.                                     *)
ReplacesWhatWasRead ==
  [][\A w \in Workers :
       wire[w] # <<>> /\ Head(wire[w]).op = "replaceUnlock" =>
         LET q == Head(wire[w]) IN
         store'[q.id] = q.version => store[q.id] = q.base]_sessionVars

(* The response read takes for that of touch is that of touch.              *)
TouchAnswered ==
  \A w \in Workers :
    At(w, {"touch"}) /\ resp[w] # <<>>
      => Head(resp[w]).op = "touch" /\ Head(resp[w]).serial = handler[w].serial

(* session_start comes back, with a session or an exception.                *)
StartReturns ==
  \A w \in Workers :
    At(w, {"lockGet", "sleep", "touch", "getTouch"})
      ~> ~At(w, {"lockGet", "sleep", "touch", "getTouch"})

(* yrmcds-api.php:513: replaceUnlock "will fail unless the object has been  *)
(* locked by this client".  So write should send it only then: its answer   *)
(* is never read, and write has returned TRUE.                              *)
NeverRefused ==
  \A w \in Workers :
    conn[w] = "open" /\ wire[w] # <<>> /\ Head(wire[w]).op = "replaceUnlock"
      => holder[Head(wire[w]).id] = w
=============================================================================
