------------------------------ MODULE Php5Pool ------------------------------
(***************************************************************************)
(* The life of a connection in a PHP 5 worker: yrmcds_php5.c, a second     *)
(* source of what PersistentPool models for yrmcds.c.  Here the client     *)
(* object has no C structure of its own: its connection is the resource in *)
(* its property "conn", `conn[cl]` below, and the destructor is that of    *)
(* the resource, which runs when the property goes away with the object.   *)
(* The last line of the constructor removes the object's write_property    *)
(* handler, so the property can be written once.                           *)
(***************************************************************************)
EXTENDS PersistentPool

(* add_property_resource, the first time.                                   *)
FirstTime(cl) == conn[cl] = NULL

(* The worker dies: the server sees the end of every stream.                *)
WorkerDies ==
  /\ conn' = [cl \in Clients |-> NULL]
  /\ alive' = {}
  /\ mem' = [c \in Conns |-> Blank]
  /\ peer' = [c \in Conns |-> CASE c \notin alive   -> peer[c]
                                [] peer[c] = "open" -> "eof"
                                [] OTHER            -> "none"]
  /\ resp' = [c \in Conns |-> <<>>]
  /\ persistent_list' = [id \in Ids |-> NULL]
  /\ job' = Idle
  /\ UNCHANGED <<wire, holder, detect>>

-----------------------------------------------------------------------------
(* use_existing_persistent_connection, up to its result: a connection       *)
(* nobody checks is taken at once, one that is checked waits for the noop.  *)
UseExisting(cl, id) == \/ FirstTime(cl) /\ ConstructReuse(cl, id)
                       \/ ConstructCheck(cl, id)
                       \/ ConstructCheckUnsent(cl, id)

(* The constructor has a connection for the object it runs on.              *)
Obtained(cl) ==
  \/ \E id \in Ids : MayConstruct(cl, id) /\ ~detect /\ Entry(id) # NULL
  \/ job.cl = cl /\ job.at = "check" /\ Awaited({"ok"})
  \/ job.cl = cl /\ job.at = "connect"

(* Mutant: the property is overwritten and nobody counts the old reference  *)
(* back.                                                                    *)
WritesOver(cl) ==
  /\ ~FirstTime(cl) /\ job = Idle
  /\ \E id \in Ids :
       /\ Entry(id) # NULL
       /\ mem' = [mem EXCEPT ![Entry(id)].refs = @ + 1]
       /\ conn' = [conn EXCEPT ![cl] = Entry(id)]
  /\ UNCHANGED <<alive, persistent_list, peer, wire, resp, holder, job, detect>>

(* A second __construct on the same object: by now it has no write_property *)
(* handler to store the new resource with, and the call through the missing *)
(* handler ends the process.                                                *)
ConstructAgain(cl) == ~FirstTime(cl) /\ Obtained(cl) /\ WorkerDies

(* The constructor comes back from connect.                                 *)
Connect(c) == job # Idle /\ FirstTime(job.cl) /\ Connected(c)

(* check_persistent_connection has its answer.                              *)
CheckReturns == job # Idle /\ FirstTime(job.cl) /\ CheckPasses

(* The resource destructor up to its recv loop, and the loop's two ends.    *)
ResourceDtor(cl) ==
  DestructPlain(cl) \/ DestructPersistent(cl) \/ DestructUnsent(cl)

ResourceDtorReturns == DestructDone \/ DestructBreaks

(* php_yrmcds_resource_pdtor, for every entry of the list.                  *)
ResourcePdtor == ProcessEnds

-----------------------------------------------------------------------------
(* The methods do the same to a connection as those of yrmcds.c.            *)
Methods(cl) ==
  \/ \E key \in Keys : Command(cl, "lock", key) \/ Command(cl, "unlock", key)
  \/ Command(cl, "get", NULL)
  \/ CommandFails(cl)
  \/ Recv(cl) \/ RecvGarbled(cl)
  \/ SetTimeout(cl)

Php5Next ==
  \/ \E cl \in Clients, id \in Ids \cup {NULL} : ConstructNotFound(cl, id)
  \/ \E cl \in Clients, id \in Ids : UseExisting(cl, id)
  \/ \E cl \in Clients : ConstructAgain(cl) \/ ResourceDtor(cl) \/ Methods(cl)
  \/ \E c \in Conns : Connect(c)
  \/ ConnectFailed \/ DrainSkip
  \/ CheckReturns \/ CheckBreaks \/ ResourceDtorReturns
  \/ ResourcePdtor
  \/ \E c \in Conns : Serve(c) \/ ServerCloses(c) \/ SessionReaped(c)

Php5Spec == Init /\ [][Php5Next]_vars
=============================================================================
