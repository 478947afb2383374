------------------------ MODULE PersistentPoolProofs ------------------------
(* Theorems about PersistentPool and Php5Pool, for every set of clients,     *)
(* ids, addresses and keys, and every bound: first what the structures and   *)
(* their counts are, then that the connections are clean.                    *)
EXTENDS Php5Pool, FiniteSetTheorems, TLAPS

-----------------------------------------------------------------------------
(* Type correctness: one lemma per operator that several actions share, one *)
(* step per action.                                                         *)

(* A send leaves well-formed requests on every wire.                        *)
LEMMA WrittenType ==
  ASSUME TypeOK, NEW c \in Conns, NEW op \in Ops, NEW key \in Keys \cup {NULL},
         NEW n \in Nat, NEW by \in Clients \cup {NULL},
         Written(c, op, key, n, by)
  PROVE  wire' \in [Conns -> Seq(Request)]
<1> DEFINE q == [op |-> op, key |-> key, serial |-> n, by |-> by]
<1>1. q \in Request
  BY DEF Request
<1>2. wire \in [Conns -> Seq(Request)]
  BY DEF TypeOK
<1>3. Append(wire[c], q) \in Seq(Request)
  BY <1>1, <1>2
<1>4. wire' = [wire EXCEPT ![c] = Append(wire[c], q)] \/ wire' = wire
  BY DEF Written
<1> HIDE DEF q
<1> QED BY <1>2, <1>3, <1>4

(* So does a send that fails.                                               *)
LEMMA SendFailsType ==
  ASSUME TypeOK, NEW c \in Conns, NEW n \in Nat, NEW t,
         NEW by \in Clients \cup {NULL}, SendFails(c, t, n, by)
  PROVE  wire' \in [Conns -> Seq(Request)]
<1>1. CASE UNCHANGED wire
  BY <1>1 DEF TypeOK
<1>2. CASE Written(c, "torn", NULL, n, by)
  <2>1. "torn" \in Ops
    BY DEF Ops
  <2> QED BY <1>2, <2>1, WrittenType
<1> QED BY <1>1, <1>2 DEF SendFails

(* Closing and freeing a connection, from memory m.                         *)
LEMMA FreeConnType ==
  ASSUME TypeOK, NEW c \in Conns, NEW m \in [Conns -> Mem], FreeConn(c, m)
  PROVE  /\ alive' \in SUBSET Conns
         /\ mem' \in [Conns -> Mem]
         /\ peer' \in [Conns -> {"none", "open", "gone", "eof"}]
         /\ resp' \in [Conns -> Seq(Response)]
<1>1. Blank \in Mem
  BY DEF Blank, NewMem, Mem
<1>2. <<>> \in Seq(Response)
  OBVIOUS
<1> QED BY <1>1, <1>2 DEF TypeOK, FreeConn

(* A connection that breaks leaves the types right.                         *)
LEMMA BrokenConnectionType ==
  ASSUME TypeOK, NEW c \in Conns, NEW m \in [Conns -> Mem],
         m[c].pkey # NULL, BrokenConnection(c, m)
  PROVE  /\ alive' \in SUBSET Conns
         /\ mem' \in [Conns -> Mem]
         /\ persistent_list' \in [Ids -> Conns \cup {NULL}]
         /\ peer' \in [Conns -> {"none", "open", "gone", "eof"}]
         /\ resp' \in [Conns -> Seq(Response)]
<1> DEFINE id == m[c].pkey
<1>1. id \in Ids
  BY DEF Mem
<1>2. CASE m[c].refs = 0 /\ persistent_list[id] # NULL
  <2>1. persistent_list[id] \in Conns
    BY <1>1, <1>2 DEF TypeOK
  <2>2. FreeConn(persistent_list[id], m)
    BY <1>2 DEF BrokenConnection
  <2>3. persistent_list' = [persistent_list EXCEPT ![id] = NULL]
    BY <1>2 DEF BrokenConnection
  <2> QED BY <2>1, <2>2, <2>3, FreeConnType DEF TypeOK
<1>3. CASE ~(m[c].refs = 0 /\ persistent_list[id] # NULL)
  BY <1>3 DEF BrokenConnection, TypeOK
<1> QED BY <1>2, <1>3

(* The server's answer keeps both queues well formed.                       *)
LEMMA ReplyType ==
  ASSUME TypeOK, NEW c \in Conns, NEW n \in {1, 2}, NEW status \in Status,
         wire[c] # <<>>, n <= Len(wire[c]), Reply(c, n, status)
  PROVE  /\ wire' \in [Conns -> Seq(Request)]
         /\ resp' \in [Conns -> Seq(Response)]
<1>1. wire[c] \in Seq(Request) /\ resp[c] \in Seq(Response)
  BY DEF TypeOK
<1>2. Head(wire[c]) \in Request
  BY <1>1
<1>3. SubSeq(wire[c], n + 1, Len(wire[c])) \in Seq(Request)
  BY <1>1
<1>4. [serial |-> Head(wire[c]).serial, status |-> status,
       by |-> Head(wire[c]).by] \in Response
  BY <1>2 DEF Request, Response
<1> QED BY <1>1, <1>3, <1>4 DEF Reply, TypeOK

-----------------------------------------------------------------------------
(* The inductive invariant of the reference counts.  RefcountExact and      *)
(* PoolSound need each other, and both need to know what the blocked        *)
(* handler has already done and has still to do.                            *)

JobSound ==
  /\ job.at = "idle" => job = Idle
  /\ job.at # "idle" => job.cl \in Clients
  /\ job.at = "connect" => job.conn = NULL /\ Entry(job.id) = NULL
  /\ job.at \in {"check", "destruct"} =>
       job.conn \in alive /\ mem[job.conn].pkey # NULL
  /\ job.at = "check" => job.id = mem[job.conn].pkey
  /\ job.at = "destruct" => conn[job.cl] = job.conn
  /\ ~Reconstruct /\ job.at \in {"connect", "check"} => conn[job.cl] = NULL

(* A second __construct leaks a reference, so in general the count is only  *)
(* an upper bound.                                                          *)
Counted ==
  \A c \in alive : /\ Cardinality(Users(c)) <= mem[c].refs
                   /\ ~Reconstruct => mem[c].refs = Cardinality(Users(c))

Inv == TypeOK /\ PoolSound /\ JobSound /\ Counted

(* The users of a connection are finitely many.                             *)
LEMMA UsersFinite ==
  ASSUME NEW c
  PROVE  /\ IsFiniteSet(Users(c))
         /\ Cardinality(Users(c)) \in Nat
         /\ Cardinality(Users(c)) = 0 <=> Users(c) = {}
<1>1. Users(c) \subseteq Clients
  BY DEF Users
<1>2. IsFiniteSet(Users(c))
  BY <1>1, ClientsAssumption, FS_Subset
<1> QED BY <1>2, FS_CardinalityType, FS_EmptySet

(* Steps that leave pointers and counts alone.                              *)
LEMMA QuietStep ==
  ASSUME Inv, TypeOK', UNCHANGED <<conn, alive, persistent_list, job>>,
         \A c \in Conns : /\ mem'[c].pkey = mem[c].pkey
                          /\ mem'[c].refs = mem[c].refs
  PROVE  Inv'
<1>1. alive \subseteq Conns
  BY DEF Inv, TypeOK
<1>2. \A cl \in Clients : conn[cl] = NULL \/ conn[cl] \in Conns
  BY DEF Inv, TypeOK
<1>3. \A id \in Ids : persistent_list[id] = NULL \/ persistent_list[id] \in Conns
  BY DEF Inv, TypeOK
<1>4. job.conn = NULL \/ job.conn \in Conns
  BY DEF Inv, TypeOK, Job
<1>5. PoolSound'
  BY <1>1, <1>2, <1>3 DEF Inv, PoolSound
<1>6. JobSound'
  BY <1>1, <1>4 DEF Inv, JobSound, Entry
<1>7. \A c : Users(c)' = Users(c)
  BY DEF Users
<1>8. Counted'
  BY <1>1, <1>7 DEF Inv, Counted
<1> QED BY <1>5, <1>6, <1>8 DEF Inv

-----------------------------------------------------------------------------
(* Every action keeps the types.  That a destructor's decrement stays a     *)
(* natural number needs the counts.                                         *)

(* What the changes of a connection's memory keep.                          *)
LEMMA MemTypes ==
  ASSUME TypeOK, NEW c \in Conns
  PROVE  /\ NextSerial(mem, c) \in [Conns -> Mem]
         /\ \A t \in {"default", "check", "user"} :
              /\ [mem EXCEPT ![c].timeout = t] \in [Conns -> Mem]
              /\ NextSerial([mem EXCEPT ![c].timeout = t], c) \in [Conns -> Mem]
         /\ [mem EXCEPT ![c].refs = @ + 1] \in [Conns -> Mem]
         /\ [mem EXCEPT ![c].timeout = "default", ![c].refs = @ + 1]
              \in [Conns -> Mem]
         /\ MarkInvalid(c) \in [Conns -> Mem]
         /\ mem[c].refs # 0 => Detached(c) \in [Conns -> Mem]
<1>1. mem \in [Conns -> Mem] /\ mem[c] \in Mem
  BY DEF TypeOK
<1>2. ASSUME NEW m \in [Conns -> Mem]
      PROVE  NextSerial(m, c) \in [Conns -> Mem]
  BY <1>2 DEF NextSerial, Mem
<1>3. ASSUME NEW t \in {"default", "check", "user"}
      PROVE  [mem EXCEPT ![c].timeout = t] \in [Conns -> Mem]
  BY <1>1 DEF Mem
<1>4. [mem EXCEPT ![c].refs = @ + 1] \in [Conns -> Mem]
  BY <1>1 DEF Mem
<1>5. [mem EXCEPT ![c].timeout = "default", ![c].refs = @ + 1]
        \in [Conns -> Mem]
  <2> DEFINE m1 == [mem EXCEPT ![c].timeout = "default"]
  <2>1. m1 \in [Conns -> Mem]
    BY <1>1 DEF Mem
  <2> HIDE DEF m1
  <2>2. [m1 EXCEPT ![c].refs = @ + 1] \in [Conns -> Mem]
    BY <2>1 DEF Mem
  <2> QED BY <2>2 DEF m1
<1>6. MarkInvalid(c) \in [Conns -> Mem]
  BY <1>1 DEF MarkInvalid, Mem
<1>7. ASSUME mem[c].refs # 0
      PROVE  [mem EXCEPT ![c].refs = @ - 1, ![c].timeout = "default"]
               \in [Conns -> Mem]
  <2> DEFINE m1 == [mem EXCEPT ![c].refs = @ - 1]
  <2>1. m1 \in [Conns -> Mem]
    BY <1>1, <1>7 DEF Mem
  <2>2. [m1 EXCEPT ![c].timeout = "default"] \in [Conns -> Mem]
    BY <2>1, ZenonT(60) DEF Mem
  <2> QED BY <2>2
<1> QED BY <1>1, <1>2, <1>3, <1>4, <1>5, <1>6, <1>7 DEF Detached

(* A client that is not being destructed is counted by its connection.      *)
LEMMA AttachedCounted ==
  ASSUME Inv, NEW cl \in Clients, conn[cl] # NULL,
         ~(job.at = "destruct" /\ job.cl = cl)
  PROVE  /\ conn[cl] \in alive
         /\ conn[cl] \in Conns
         /\ mem[conn[cl]].refs \in Nat \ {0}
         /\ mem[conn[cl]].pkey \in Ids \cup {NULL}
<1> DEFINE c == conn[cl]
<1>1. c \in alive /\ c \in Conns
  BY DEF Inv, TypeOK, PoolSound
<1>2. cl \in Users(c)
  BY DEF Users
<1>3. Cardinality(Users(c)) \in Nat \ {0}
  BY <1>2, UsersFinite
<1>4. mem[c] \in Mem
  BY <1>1 DEF Inv, TypeOK
<1>5. Cardinality(Users(c)) <= mem[c].refs
  BY <1>1 DEF Inv, Counted
<1> QED BY <1>1, <1>3, <1>4, <1>5 DEF Mem

(* __construct up to its first wait.                                        *)
LEMMA ConstructTypes ==
  ASSUME Inv, NEW cl \in Clients, NEW id \in Ids \cup {NULL},
         \/ ConstructNotFound(cl, id)
         \/ id \in Ids /\ \/ ConstructReuse(cl, id)
                          \/ ConstructCheck(cl, id)
                          \/ ConstructCheckUnsent(cl, id)
  PROVE  TypeOK'
<1> DEFINE c == persistent_list[id]
<1>1. CASE ConstructNotFound(cl, id)
  BY <1>1 DEF Inv, TypeOK, ConstructNotFound, Idle, Job
<1>2. ASSUME id \in Ids, Entry(id) # NULL
      PROVE  c \in Conns /\ c \in alive /\ mem[c].pkey = id
  BY <1>2, NullAssumption DEF Inv, TypeOK, PoolSound, Entry
<1>3. CASE id \in Ids /\ ConstructReuse(cl, id)
  BY <1>2, <1>3, MemTypes DEF Inv, TypeOK, ConstructReuse
<1>4. CASE id \in Ids /\ ConstructCheck(cl, id)
  <2> DEFINE m == NextSerial([mem EXCEPT ![c].timeout = "check"], c)
  <2>1. c \in Conns /\ m \in [Conns -> Mem]
    BY <1>2, <1>4, MemTypes DEF ConstructCheck, Inv
  <2>2. m[c].serial \in Nat
    BY <2>1 DEF Mem
  <2>3. "noop" \in Ops
    BY DEF Ops
  <2>4. wire' \in [Conns -> Seq(Request)]
    BY <1>4, <2>1, <2>2, <2>3, WrittenType DEF ConstructCheck, Inv
  <2>5. job' \in Job
    BY <1>4, <2>1, <2>2 DEF ConstructCheck, Job
  <2> QED BY <1>4, <2>1, <2>4, <2>5 DEF ConstructCheck, Inv, TypeOK
<1>5. CASE id \in Ids /\ ConstructCheckUnsent(cl, id)
  <2> DEFINE m == NextSerial([mem EXCEPT ![c].timeout = "check"], c)
  <2>1. c \in Conns /\ m \in [Conns -> Mem]
    BY <1>2, <1>5, MemTypes DEF ConstructCheckUnsent, Inv
  <2>2. m[c].serial \in Nat /\ m[c].pkey = mem[c].pkey
    BY <2>1 DEF Mem, NextSerial, Inv, TypeOK
  <2>3. m[c].pkey # NULL
    BY <1>2, <1>5, <2>2, NullAssumption DEF ConstructCheckUnsent
  <2>4. wire' \in [Conns -> Seq(Request)]
    BY <1>5, <2>1, <2>2, SendFailsType DEF ConstructCheckUnsent, Inv
  <2>5. BrokenConnection(c, m)
    BY <1>5 DEF ConstructCheckUnsent
  <2>6. job' \in Job
    BY <1>5 DEF ConstructCheckUnsent, AfterBrokenCheck, Idle, Job
  <2> HIDE DEF c, m
  <2> QED BY <1>5, <2>1, <2>3, <2>4, <2>5, <2>6, BrokenConnectionType
          DEF ConstructCheckUnsent, Inv, TypeOK
<1> QED BY <1>1, <1>3, <1>4, <1>5

(* The connection a handler drains is live and persistent.                  *)
LEMMA DrainedConn ==
  ASSUME Inv, Draining
  PROVE  /\ job.conn \in alive /\ job.conn \in Conns
         /\ mem[job.conn].pkey \in Ids
         /\ persistent_list[mem[job.conn].pkey] = job.conn
         /\ job.cl \in Clients
         /\ mem[job.conn].refs \in Nat
         /\ job.serial \in Nat
<1>1. job.conn \in alive /\ mem[job.conn].pkey # NULL /\ job.cl \in Clients
  BY DEF Inv, JobSound, Draining
<1>2. job.conn \in Conns /\ mem[job.conn] \in Mem
  BY <1>1 DEF Inv, TypeOK
<1>3. job.serial \in Nat
  BY DEF Inv, TypeOK, Job
<1> QED BY <1>1, <1>2, <1>3 DEF Mem, Inv, PoolSound

(* __construct after it.                                                    *)
LEMMA ResumeTypes ==
  ASSUME Inv, Resume
  PROVE  TypeOK'
<1>1. Idle \in Job
  BY DEF Idle, Job
<1> DEFINE c == job.conn
<1>2. ASSUME Draining
      PROVE  /\ c \in Conns
             /\ resp[c] # <<>> => [resp EXCEPT ![c] = Tail(@)]
                                    \in [Conns -> Seq(Response)]
             /\ \A x \in Conns \cup {NULL} :
                  [conn EXCEPT ![job.cl] = x] \in [Clients -> Conns \cup {NULL}]
             /\ MarkInvalid(c) \in [Conns -> Mem]
             /\ MarkInvalid(c)[c].pkey # NULL
  <2>1. c \in Conns /\ mem[c].pkey # NULL
    BY <1>2, DrainedConn, NullAssumption
  <2>2. MarkInvalid(c) \in [Conns -> Mem]
    BY <2>1, MemTypes DEF Inv
  <2>3. MarkInvalid(c)[c].pkey = mem[c].pkey
    BY <2>1 DEF MarkInvalid, Inv, TypeOK, Mem
  <2>4. resp[c] # <<>> => Tail(resp[c]) \in Seq(Response)
    BY <2>1 DEF Inv, TypeOK
  <2>5. resp[c] # <<>> => [resp EXCEPT ![c] = Tail(@)]
                            \in [Conns -> Seq(Response)]
    BY <2>1, <2>4 DEF Inv, TypeOK
  <2> QED BY <2>1, <2>2, <2>3, <2>5 DEF Inv, TypeOK
<1>3. CASE DrainSkip
  BY <1>2, <1>3 DEF DrainSkip, CanRecv, Inv, TypeOK
<1>4. CASE CheckPasses
  <2>1. Draining /\ c \in Conns /\ resp[c] # <<>>
    BY <1>2, <1>4 DEF CheckPasses, Awaited, CanRecv, Draining
  <2>2. mem' \in [Conns -> Mem]
    BY <1>4, <2>1, MemTypes DEF CheckPasses, Inv
  <2>3. resp' \in [Conns -> Seq(Response)]
    BY <1>2, <1>4, <2>1 DEF CheckPasses
  <2>4. conn' \in [Clients -> Conns \cup {NULL}]
    BY <1>2, <1>4, <2>1 DEF CheckPasses
  <2> QED BY <1>1, <1>4, <2>2, <2>3, <2>4 DEF CheckPasses, Inv, TypeOK
<1>5. CASE CheckBreaks
  <2>1. Draining
    BY <1>5 DEF CheckBreaks, Draining
  <2>2. BrokenConnection(c, MarkInvalid(c))
    BY <1>5 DEF CheckBreaks
  <2>3. job' \in Job
    BY <1>5 DEF CheckBreaks, AfterBrokenCheck, Idle, Job, Inv, TypeOK
  <2> HIDE DEF c
  <2> QED BY <1>2, <1>5, <2>1, <2>2, <2>3, BrokenConnectionType
          DEF CheckBreaks, Inv, TypeOK
<1>6. CASE DestructDone
  <2>1. Draining /\ resp[c] # <<>>
    BY <1>6 DEF DestructDone, Awaited, CanRecv, Draining
  <2> QED BY <1>1, <1>2, <1>6, <2>1 DEF DestructDone, Inv, TypeOK
<1>7. CASE DestructBreaks
  <2>1. Draining
    BY <1>7 DEF DestructBreaks, Draining
  <2>2. BrokenConnection(c, MarkInvalid(c))
    BY <1>7 DEF DestructBreaks
  <2>3. conn' \in [Clients -> Conns \cup {NULL}]
    BY <1>2, <1>7, <2>1 DEF DestructBreaks
  <2> HIDE DEF c
  <2> QED BY <1>1, <1>2, <1>7, <2>1, <2>2, <2>3, BrokenConnectionType
          DEF DestructBreaks, Inv, TypeOK
<1>8. CASE ConnectFailed
  BY <1>1, <1>8 DEF ConnectFailed, Inv, TypeOK
<1>9. ASSUME NEW d \in Conns, Connected(d)
      PROVE  TypeOK'
  <2>1. NewMem(job.id) \in Mem
    BY DEF NewMem, Mem, Inv, TypeOK, Job
  <2> QED BY <1>1, <1>9, <2>1 DEF Connected, Inv, TypeOK
<1> QED BY <1>3, <1>4, <1>5, <1>6, <1>7, <1>8, <1>9 DEF Resume

(* The finalisation of an object.                                           *)
LEMMA DestructTypes ==
  ASSUME Inv, NEW cl \in Clients,
         DestructPlain(cl) \/ DestructPersistent(cl) \/ DestructUnsent(cl)
  PROVE  TypeOK'
<1> DEFINE c == conn[cl]
<1>1. /\ job = Idle /\ c # NULL
      /\ c \in alive /\ c \in Conns /\ mem[c].refs \in Nat \ {0}
      /\ Detached(c) \in [Conns -> Mem]
      /\ Detached(c)[c].serial \in Nat
      /\ Detached(c)[c].pkey = mem[c].pkey
  <2>1. job = Idle /\ c # NULL
    BY DEF DestructPlain, DestructPersistent, DestructUnsent
  <2>2. c \in alive /\ c \in Conns /\ mem[c].refs \in Nat \ {0}
    BY <2>1, AttachedCounted DEF Idle
  <2>3. Detached(c) \in [Conns -> Mem]
    BY <2>2, MemTypes DEF Inv
  <2>4. Detached(c)[c].pkey = mem[c].pkey
    BY <2>2 DEF Detached, NextSerial, Inv, TypeOK, Mem
  <2> QED BY <2>1, <2>2, <2>3, <2>4 DEF Mem
<1>2. [conn EXCEPT ![cl] = NULL] \in [Clients -> Conns \cup {NULL}]
  BY DEF Inv, TypeOK
<1>3. CASE DestructPlain(cl)
  <2>1. mem \in [Conns -> Mem] /\ FreeConn(c, mem)
    BY <1>3 DEF DestructPlain, Inv, TypeOK
  <2> HIDE DEF c
  <2> QED BY <1>1, <1>2, <1>3, <2>1, FreeConnType DEF DestructPlain, Inv, TypeOK
<1>4. CASE DestructPersistent(cl)
  <2>1. "unlockall" \in Ops
    BY DEF Ops
  <2>2. wire' \in [Conns -> Seq(Request)]
    BY <1>1, <1>4, <2>1, WrittenType DEF DestructPersistent, Inv
  <2>3. job' \in Job
    BY <1>1, <1>4 DEF DestructPersistent, Job
  <2> QED BY <1>1, <1>4, <2>2, <2>3 DEF DestructPersistent, Inv, TypeOK
<1>5. CASE DestructUnsent(cl)
  <2>1. wire' \in [Conns -> Seq(Request)]
    BY <1>1, <1>5, SendFailsType DEF DestructUnsent, Inv
  <2>2. BrokenConnection(c, Detached(c)) /\ mem[c].pkey # NULL
    BY <1>5 DEF DestructUnsent
  <2> HIDE DEF c
  <2> QED BY <1>1, <1>2, <1>5, <2>1, <2>2, BrokenConnectionType
          DEF DestructUnsent, Inv, TypeOK, c
<1> QED BY <1>3, <1>4, <1>5

(* A method of an object.                                                   *)
LEMMA MethodTypes ==
  ASSUME Inv, NEW cl \in Clients,
         \/ \E op \in {"lock", "unlock"}, key \in Keys : Command(cl, op, key)
         \/ Command(cl, "get", NULL)
         \/ CommandFails(cl) \/ Recv(cl) \/ RecvGarbled(cl) \/ SetTimeout(cl)
  PROVE  TypeOK'
<1> DEFINE c == conn[cl]
<1>1. c \in Conns /\ mem[c].serial + 1 \in Nat
  <2>1. Using(cl)
    BY DEF Command, CommandFails, Recv, RecvGarbled, SetTimeout
  <2>2. c \in Conns
    BY <2>1, AttachedCounted DEF Using, Idle
  <2> QED BY <2>2 DEF Inv, TypeOK, Mem
<1>2. NextSerial(mem, c) \in [Conns -> Mem] /\ MarkInvalid(c) \in [Conns -> Mem]
  BY <1>1, MemTypes DEF Inv
<1>3. ASSUME NEW op \in {"lock", "unlock", "get"}, NEW key \in Keys \cup {NULL},
             Command(cl, op, key)
      PROVE  TypeOK'
  <2>1. op \in Ops
    BY DEF Ops
  <2>2. wire' \in [Conns -> Seq(Request)]
    BY <1>1, <1>3, <2>1, WrittenType DEF Command, Inv
  <2> QED BY <1>2, <1>3, <2>2 DEF Command, Inv, TypeOK
<1>4. CASE CommandFails(cl)
  <2>1. wire' \in [Conns -> Seq(Request)]
    BY <1>1, <1>4, SendFailsType DEF CommandFails, Inv
  <2> QED BY <1>2, <1>4, <2>1 DEF CommandFails, Inv, TypeOK
<1>5. CASE Recv(cl)
  <2>1. Tail(resp[c]) \in Seq(Response)
    BY <1>1, <1>5 DEF Recv, CanRecv, Inv, TypeOK
  <2> QED BY <1>5, <2>1 DEF Recv, Inv, TypeOK
<1>6. CASE RecvGarbled(cl)
  BY <1>2, <1>6 DEF RecvGarbled, Inv, TypeOK
<1>7. CASE SetTimeout(cl)
  BY <1>1, <1>7, MemTypes DEF SetTimeout, Inv, TypeOK
<1> QED BY <1>3, <1>4, <1>5, <1>6, <1>7

(* A step of the server.                                                    *)
LEMMA ServerTypes ==
  ASSUME TypeOK, NEW c \in Conns,
         Serve(c) \/ ServerCloses(c) \/ SessionReaped(c)
  PROVE  TypeOK'
<1>1. Nobody \in Holder
  BY DEF Nobody, Holder
<1>2. Unlocked(c) \in [Keys -> Holder]
  BY <1>1 DEF Unlocked, TypeOK
<1>3. ASSUME NEW op, Serving(c, op)
      PROVE  /\ wire[c] # <<>> /\ 1 <= Len(wire[c])
             /\ Head(wire[c]) \in Request
  <2>1. wire[c] \in Seq(Request) /\ wire[c] # <<>>
    BY <1>3 DEF TypeOK, Serving
  <2> QED BY <2>1
<1>4. \A st \in {"ok", "unknown", "locked", "error", "garbled"} : st \in Status
  BY DEF Status
<1>5. ASSUME NEW n \in {1, 2}, NEW st \in Status, NEW op, Serving(c, op),
             n <= Len(wire[c]), Reply(c, n, st)
      PROVE  /\ wire' \in [Conns -> Seq(Request)]
             /\ resp' \in [Conns -> Seq(Response)]
  BY <1>3, <1>5, ReplyType
<1>6. CASE ServeLock(c)
  <2>1. wire' \in [Conns -> Seq(Request)] /\ resp' \in [Conns -> Seq(Response)]
    BY <1>3, <1>4, <1>5, <1>6 DEF ServeLock
  <2>2. [conn |-> c, by |-> Head(wire[c]).by] \in Holder
    BY <1>3, <1>6 DEF ServeLock, Request, Holder
  <2>3. holder' \in [Keys -> Holder]
    BY <1>6, <2>2 DEF ServeLock, TypeOK
  <2> QED BY <1>6, <2>1, <2>3 DEF ServeLock, TypeOK
<1>7. CASE ServeUnlock(c)
  <2>1. wire' \in [Conns -> Seq(Request)] /\ resp' \in [Conns -> Seq(Response)]
    BY <1>3, <1>4, <1>5, <1>7 DEF ServeUnlock
  <2>2. holder' \in [Keys -> Holder]
    BY <1>1, <1>7 DEF ServeUnlock, TypeOK
  <2> QED BY <1>7, <2>1, <2>2 DEF ServeUnlock, TypeOK
<1>8. CASE ServeUnlockAll(c)
  <2>1. wire' \in [Conns -> Seq(Request)] /\ resp' \in [Conns -> Seq(Response)]
    BY <1>3, <1>4, <1>5, <1>8 DEF ServeUnlockAll
  <2> QED BY <1>2, <1>8, <2>1 DEF ServeUnlockAll, TypeOK
<1>9. CASE ServeNoop(c)
  <2>1. wire' \in [Conns -> Seq(Request)] /\ resp' \in [Conns -> Seq(Response)]
    BY <1>3, <1>4, <1>5, <1>9 DEF ServeNoop
  <2> QED BY <1>9, <2>1 DEF ServeNoop, TypeOK
<1>10. CASE ServeGet(c)
  <2>1. wire' \in [Conns -> Seq(Request)] /\ resp' \in [Conns -> Seq(Response)]
    BY <1>3, <1>4, <1>5, <1>10 DEF ServeGet
  <2> QED BY <1>10, <2>1 DEF ServeGet, TypeOK
<1>11. CASE ServeTorn(c)
  <2>1. 2 <= Len(wire[c])
    BY <1>11 DEF ServeTorn, TypeOK
  <2>2. wire' \in [Conns -> Seq(Request)] /\ resp' \in [Conns -> Seq(Response)]
    BY <1>3, <1>4, <1>5, <1>11, <2>1 DEF ServeTorn
  <2> QED BY <1>11, <2>2 DEF ServeTorn, TypeOK
<1>12. CASE ServerCloses(c)
  <2>1. <<>> \in Seq(Request) /\ <<>> \in Seq(Response)
    OBVIOUS
  <2> QED BY <1>2, <1>12, <2>1 DEF ServerCloses, TypeOK
<1>13. CASE SessionReaped(c)
  BY <1>2, <1>13 DEF SessionReaped, TypeOK
<1> QED BY <1>6, <1>7, <1>8, <1>9, <1>10, <1>11, <1>12, <1>13 DEF Serve

(* The end of the process.                                                  *)
LEMMA ProcessEndsTypes ==
  ASSUME TypeOK, ProcessEnds
  PROVE  TypeOK'
<1>1. Blank \in Mem
  BY DEF Blank, NewMem, Mem
<1>2. mem' \in [Conns -> Mem]
  BY <1>1 DEF ProcessEnds
<1>3. peer' \in [Conns -> {"none", "open", "gone", "eof"}]
  BY DEF ProcessEnds, TypeOK
<1>4. resp' \in [Conns -> Seq(Response)]
  BY DEF ProcessEnds
<1>5. persistent_list' \in [Ids -> Conns \cup {NULL}]
  BY DEF ProcessEnds
<1> QED BY <1>2, <1>3, <1>4, <1>5 DEF ProcessEnds, TypeOK

(* The steps of a client's life, as Next groups them.                       *)
Construct == \/ \E cl \in Clients, id \in Ids \cup {NULL} :
                  ConstructNotFound(cl, id)
             \/ \E cl \in Clients, id \in Ids : \/ ConstructReuse(cl, id)
                                                \/ ConstructCheck(cl, id)
                                                \/ ConstructCheckUnsent(cl, id)
Destruct(cl) == DestructPlain(cl) \/ DestructPersistent(cl) \/ DestructUnsent(cl)
Method(cl) == \/ \E op \in {"lock", "unlock"}, key \in Keys : Command(cl, op, key)
              \/ Command(cl, "get", NULL)
              \/ CommandFails(cl) \/ Recv(cl) \/ RecvGarbled(cl) \/ SetTimeout(cl)
ServerStep(c) == Serve(c) \/ ServerCloses(c) \/ SessionReaped(c)

(* The actions, one by one.                                                 *)
LEMMA NextCases ==
  ASSUME Next
  PROVE  \/ Construct
         \/ Resume
         \/ \E cl \in Clients : Destruct(cl) \/ Method(cl)
         \/ ProcessEnds
         \/ \E c \in Conns : ServerStep(c)
  BY DEF Next, Construct, Destruct, Method, ServerStep

(* Every step keeps the types.                                              *)
LEMMA NextTypes ==
  ASSUME Inv, [Next]_vars
  PROVE  TypeOK'
<1>1. CASE Construct
  BY <1>1, ConstructTypes DEF Construct
<1>2. CASE Resume
  BY <1>2, ResumeTypes
<1>3. ASSUME NEW cl \in Clients, Destruct(cl)
      PROVE  TypeOK'
  BY <1>3, DestructTypes DEF Destruct
<1>4. ASSUME NEW cl \in Clients, Method(cl)
      PROVE  TypeOK'
  BY <1>4, MethodTypes DEF Method
<1>5. CASE ProcessEnds
  BY <1>5, ProcessEndsTypes DEF Inv
<1>6. ASSUME NEW c \in Conns, ServerStep(c)
      PROVE  TypeOK'
  BY <1>6, ServerTypes DEF Inv, ServerStep
<1>7. CASE UNCHANGED vars
  BY <1>7 DEF Inv, TypeOK, vars
<1> QED BY <1>1, <1>2, <1>3, <1>4, <1>5, <1>6, <1>7, NextCases

-----------------------------------------------------------------------------
(* How the pointers and the counts move: a client is attached, a client     *)
(* leaves, a structure is discarded.                                        *)

(* Adding or removing one user moves the count by one.                      *)
LEMMA UsersMove ==
  ASSUME NEW c, NEW cl
  PROVE  /\ Cardinality(Users(c) \cup {cl}) =
              IF cl \in Users(c) THEN Cardinality(Users(c))
              ELSE Cardinality(Users(c)) + 1
         /\ Cardinality(Users(c) \ {cl}) =
              IF cl \in Users(c) THEN Cardinality(Users(c)) - 1
              ELSE Cardinality(Users(c))
         /\ Cardinality(Users(c) \ {cl}) <= Cardinality(Users(c))
<1>1. IsFiniteSet(Users(c)) /\ Cardinality(Users(c)) \in Nat
  BY UsersFinite
<1>2. /\ Cardinality(Users(c) \cup {cl}) =
            IF cl \in Users(c) THEN Cardinality(Users(c))
            ELSE Cardinality(Users(c)) + 1
  BY <1>1, FS_AddElement
<1>3. /\ Cardinality(Users(c) \ {cl}) =
            IF cl \in Users(c) THEN Cardinality(Users(c)) - 1
            ELSE Cardinality(Users(c))
  BY <1>1, FS_RemoveElement
<1> QED BY <1>1, <1>2, <1>3

(* The constructor adopts an entry of the list.                             *)
LEMMA AttachStep ==
  ASSUME Inv, TypeOK', NEW c \in alive, NEW cl \in Clients,
         mem[c].pkey # NULL, job.at # "destruct", job' = Idle,
         conn' = [conn EXCEPT ![cl] = c],
         UNCHANGED <<alive, persistent_list>>,
         \A d \in Conns : mem'[d].pkey = mem[d].pkey,
         \A d \in Conns \ {c} : mem'[d].refs = mem[d].refs,
         mem'[c].refs = mem[c].refs + 1,
         ~Reconstruct => conn[cl] = NULL
  PROVE  Inv'
<1>1. c \in Conns /\ c # NULL /\ mem[c].refs \in Nat
  BY NullAssumption DEF Inv, TypeOK, Mem
<1>2. PoolSound'
  <2>1. \A x \in Clients : conn'[x] = NULL \/ conn'[x] \in alive'
    BY DEF Inv, TypeOK, PoolSound
  <2>2. job'.conn = NULL
    BY DEF Idle
  <2>3. \A id \in Ids : \/ persistent_list'[id] = NULL
                        \/ /\ persistent_list'[id] \in alive'
                           /\ mem'[persistent_list'[id]].pkey = id
    BY DEF Inv, TypeOK, PoolSound
  <2>4. \A d \in alive' : mem'[d].pkey # NULL => persistent_list'[mem'[d].pkey] = d
    BY DEF Inv, TypeOK, PoolSound
  <2>5. ASSUME NEW x \in Clients, NEW y \in Clients, conn'[x] = conn'[y],
               conn'[x] # NULL, mem'[conn'[x]].pkey = NULL
        PROVE  x = y
    <3>1. conn'[x] \in alive /\ conn'[x] \in Conns
      BY <2>1, <2>5 DEF Inv, TypeOK
    <3>2. mem[conn'[x]].pkey = NULL /\ conn'[x] # c
      BY <2>5, <3>1
    <3>3. conn'[x] = conn[x] /\ conn'[y] = conn[y]
      BY <2>5, <3>2 DEF Inv, TypeOK
    <3> QED BY <2>5, <3>2, <3>3 DEF Inv, PoolSound
  <2> QED BY <2>1, <2>2, <2>3, <2>4, <2>5 DEF PoolSound
<1>3. JobSound'
  BY DEF JobSound, Idle
<1>4. Users(c)' = Users(c) \cup {cl}
  BY <1>1 DEF Users, Inv, TypeOK, Idle
<1>5. \A d \in Conns \ {c} : Users(d)' = Users(d) \ {cl}
  BY <1>1 DEF Users, Inv, TypeOK, Idle
<1>6. ~Reconstruct => \A d \in Conns : cl \notin Users(d)
  BY NullAssumption DEF Users
<1>7. Counted'
  <2> SUFFICES ASSUME NEW d \in alive
               PROVE  /\ Cardinality(Users(d)') <= mem'[d].refs
                      /\ ~Reconstruct => mem'[d].refs = Cardinality(Users(d)')
    BY DEF Counted
  <2>1. d \in Conns /\ mem[d].refs \in Nat /\ Cardinality(Users(d)) \in Nat
    BY UsersFinite DEF Inv, TypeOK, Mem
  <2>2. /\ Cardinality(Users(d)) <= mem[d].refs
        /\ ~Reconstruct => mem[d].refs = Cardinality(Users(d))
    BY DEF Inv, Counted
  <2>3. CASE d = c
    <3>1. Users(d)' = Users(d) \cup {cl} /\ mem'[d].refs = mem[d].refs + 1
      BY <1>4, <2>3
    <3>2. Cardinality(Users(d) \cup {cl}) =
            IF cl \in Users(d) THEN Cardinality(Users(d))
            ELSE Cardinality(Users(d)) + 1
      BY UsersMove
    <3>3. ~Reconstruct => cl \notin Users(d)
      BY <1>6, <2>1
    <3> QED BY <2>1, <2>2, <3>1, <3>2, <3>3
  <2>4. CASE d # c
    <3>1. Users(d)' = Users(d) \ {cl} /\ mem'[d].refs = mem[d].refs
      BY <1>5, <2>1, <2>4
    <3>2. Cardinality(Users(d) \ {cl}) <= Cardinality(Users(d))
      BY UsersMove
    <3>3. Cardinality(Users(d) \ {cl}) \in Nat
      <4>1. IsFiniteSet(Users(d) \ {cl})
        BY UsersFinite, FS_RemoveElement
      <4> QED BY <4>1, FS_CardinalityType
    <3>4. ~Reconstruct => Cardinality(Users(d) \ {cl}) = Cardinality(Users(d))
      BY <1>6, <2>1, UsersMove
    <3> QED BY <2>1, <2>2, <3>1, <3>2, <3>3, <3>4
  <2> QED BY <2>3, <2>4
<1> QED BY <1>2, <1>3, <1>7 DEF Inv

(* A handler starts or ends and moves no pointer.                           *)
LEMMA JobStep ==
  ASSUME Inv, TypeOK', job.at # "destruct", job'.at # "destruct",
         UNCHANGED <<conn, alive, persistent_list>>,
         \A d \in Conns : /\ mem'[d].pkey = mem[d].pkey
                          /\ mem'[d].refs = mem[d].refs,
         job'.conn = NULL \/ job'.conn \in alive, JobSound'
  PROVE  Inv'
<1>1. alive \subseteq Conns
  BY DEF Inv, TypeOK
<1>2. \A c : Users(c)' = Users(c)
  BY DEF Users
<1>3. Counted'
  BY <1>1, <1>2 DEF Inv, Counted
<1>4. PoolSound'
  <2>1. \A cl \in Clients : conn[cl] = NULL \/ conn[cl] \in Conns
    BY DEF Inv, TypeOK
  <2>2. \A id \in Ids : persistent_list[id] = NULL \/ persistent_list[id] \in Conns
    BY DEF Inv, TypeOK
  <2> QED BY <1>1, <2>1, <2>2 DEF Inv, PoolSound
<1> QED BY <1>3, <1>4 DEF Inv

(* A new structure, attached to its client and perhaps listed.              *)
LEMMA ConnectedStep ==
  ASSUME Inv, TypeOK', NEW c \in Conns, Connected(c)
  PROVE  Inv'
<1> DEFINE cl == job.cl
           id == job.id
<1>1. /\ cl \in Clients /\ c \notin alive /\ c # NULL
      /\ Entry(id) = NULL /\ id \in Ids \cup {NULL}
      /\ ~Reconstruct => conn[cl] = NULL
  BY NullAssumption DEF Connected, Inv, JobSound, TypeOK, Job
<1>2. \A x \in Clients : conn[x] # c
  BY <1>1 DEF Inv, PoolSound
<1>3. \A d \in alive : d # c /\ mem'[d] = mem[d]
  BY <1>1 DEF Connected, Inv, TypeOK
<1>4. mem'[c] = NewMem(id) /\ mem'[c].pkey = id /\ mem'[c].refs = 1
  BY DEF Connected, Inv, TypeOK, NewMem
<1>5. \A d \in alive : mem[d].pkey = id => id = NULL
  BY <1>1, NullAssumption DEF Inv, PoolSound, Entry, TypeOK
<1>6. PoolSound'
  <2>1. \A x \in Clients : conn'[x] = NULL \/ conn'[x] \in alive'
    BY DEF Inv, TypeOK, PoolSound, Connected
  <2>2. job'.conn = NULL
    BY DEF Idle, Connected
  <2>3. ASSUME NEW i \in Ids
        PROVE  \/ persistent_list'[i] = NULL
               \/ /\ persistent_list'[i] \in alive'
                  /\ mem'[persistent_list'[i]].pkey = i
    <3>1. CASE i = id
      BY <1>4, <3>1, NullAssumption DEF Connected, Inv, TypeOK
    <3>2. CASE i # id
      <4>1. persistent_list'[i] = persistent_list[i]
        BY <3>2 DEF Connected, Inv, TypeOK
      <4> QED BY <1>3, <4>1 DEF Connected, Inv, PoolSound
    <3> QED BY <3>1, <3>2
  <2>4. ASSUME NEW d \in alive', mem'[d].pkey # NULL
        PROVE  persistent_list'[mem'[d].pkey] = d
    <3>1. CASE d = c
      BY <1>1, <1>4, <2>4, <3>1 DEF Connected, Inv, TypeOK
    <3>2. CASE d # c
      <4>1. d \in alive /\ d \in Conns /\ mem'[d] = mem[d]
        BY <1>3, <3>2 DEF Connected, Inv, TypeOK
      <4>2. mem[d].pkey # id /\ mem[d].pkey \in Ids
        BY <1>5, <2>4, <4>1 DEF Inv, TypeOK, Mem
      <4> QED BY <2>4, <4>1, <4>2 DEF Connected, Inv, TypeOK, PoolSound
    <3> QED BY <3>1, <3>2
  <2>5. ASSUME NEW x \in Clients, NEW y \in Clients, conn'[x] = conn'[y],
               conn'[x] # NULL, mem'[conn'[x]].pkey = NULL
        PROVE  x = y
    <3>1. CASE conn'[x] = c
      BY <1>2, <2>5, <3>1 DEF Connected, Inv, TypeOK
    <3>2. CASE conn'[x] # c
      <4>1. conn'[x] = conn[x] /\ conn'[y] = conn[y]
        BY <1>1, <2>5, <3>2 DEF Connected, Inv, TypeOK
      <4>2. conn[x] \in alive
        BY <2>5, <4>1 DEF Inv, PoolSound
      <4> QED BY <1>3, <2>5, <4>1, <4>2, ZenonT(60) DEF Inv, PoolSound
    <3> QED BY <3>1, <3>2
  <2> QED BY <2>1, <2>2, <2>3, <2>4, <2>5 DEF PoolSound
<1>7. JobSound'
  BY DEF JobSound, Idle, Connected
<1>8. Users(c)' = {cl}
  BY <1>1, <1>2 DEF Users, Connected, Inv, TypeOK, Idle
<1>9. \A d \in alive : Users(d)' = Users(d) \ {cl}
  BY <1>1 DEF Users, Connected, Inv, TypeOK, Idle
<1>10. ~Reconstruct => \A d \in alive : cl \notin Users(d)
  BY <1>1, NullAssumption DEF Users, Inv, TypeOK
<1>11. Counted'
  <2> SUFFICES ASSUME NEW d \in alive'
               PROVE  /\ Cardinality(Users(d)') <= mem'[d].refs
                      /\ ~Reconstruct => mem'[d].refs = Cardinality(Users(d)')
    BY DEF Counted
  <2>1. CASE d = c
    BY <1>4, <1>8, <2>1, FS_Singleton
  <2>2. CASE d # c
    <3>1. d \in alive /\ mem'[d].refs = mem[d].refs /\ mem[d].refs \in Nat
      BY <1>3, <2>2 DEF Connected, Inv, TypeOK, Mem
    <3>2. /\ Cardinality(Users(d)) <= mem[d].refs
          /\ ~Reconstruct => mem[d].refs = Cardinality(Users(d))
          /\ Cardinality(Users(d)) \in Nat
      BY <3>1, UsersFinite DEF Inv, Counted
    <3>3. Cardinality(Users(d) \ {cl}) <= Cardinality(Users(d))
      BY UsersMove
    <3>4. Cardinality(Users(d) \ {cl}) \in Nat
      BY UsersFinite, FS_RemoveElement, FS_CardinalityType
    <3>5. ~Reconstruct => Cardinality(Users(d) \ {cl}) = Cardinality(Users(d))
      BY <1>10, <3>1, UsersMove
    <3> QED BY <1>9, <3>1, <3>2, <3>3, <3>4, <3>5
  <2> QED BY <2>1, <2>2
<1> QED BY <1>6, <1>7, <1>11 DEF Inv

(* on_broken_connection_detected, from a live persistent connection: either *)
(* somebody is still counted and nothing happens, or c and its entry go.    *)
LEMMA BrokenCases ==
  ASSUME Inv, NEW c \in alive, mem[c].pkey # NULL, NEW m \in [Conns -> Mem],
         m[c].pkey = mem[c].pkey, BrokenConnection(c, m)
  PROVE  \/ /\ m[c].refs = 0
            /\ alive' = alive \ {c}
            /\ mem' = [m EXCEPT ![c] = Blank]
            /\ persistent_list' = [persistent_list EXCEPT ![mem[c].pkey] = NULL]
            /\ peer' = [peer EXCEPT ![c] = IF @ = "open" THEN "eof" ELSE "none"]
            /\ resp' = [resp EXCEPT ![c] = <<>>]
         \/ /\ m[c].refs # 0
            /\ mem' = m
            /\ UNCHANGED <<alive, persistent_list, peer, resp>>
<1>1. persistent_list[mem[c].pkey] = c /\ c # NULL
  BY NullAssumption DEF Inv, PoolSound, TypeOK
<1> QED BY <1>1 DEF BrokenConnection, FreeConn

(* A client `gone` leaves (or none does), and c is kept or discarded.       *)
LEMMA LeaveStep ==
  ASSUME Inv, TypeOK', NEW c \in alive, mem[c].pkey # NULL,
         NEW m \in [Conns -> Mem], NEW gone \in Clients \cup {NULL},
         \A d \in Conns : m[d].pkey = mem[d].pkey,
         \A d \in Conns \ {c} : m[d].refs = mem[d].refs,
         Cardinality(Users(c) \ {gone}) <= m[c].refs,
         ~Reconstruct => m[c].refs = Cardinality(Users(c) \ {gone}),
         gone # NULL => conn[gone] = c,
         conn' = [x \in Clients |-> IF x = gone THEN NULL ELSE conn[x]],
         job.at = "destruct" => job.cl = gone,
         job'.at # "destruct", job'.conn = NULL, JobSound',
         \/ BrokenConnection(c, m)
         \/ mem' = m /\ UNCHANGED <<alive, persistent_list>>
  PROVE  Inv'
<1>1. /\ c \in Conns /\ c # NULL /\ alive \subseteq Conns
      /\ m[c].refs \in Nat /\ mem[c].pkey \in Ids
      /\ persistent_list[mem[c].pkey] = c
      /\ m[c].pkey = mem[c].pkey
  <2>1. c \in Conns /\ c # NULL /\ alive \subseteq Conns
    BY NullAssumption DEF Inv, TypeOK
  <2>2. m[c] \in Mem /\ mem[c] \in Mem
    BY <2>1 DEF Inv, TypeOK
  <2>3. persistent_list[mem[c].pkey] = c
    BY DEF Inv, PoolSound
  <2> QED BY <2>1, <2>2, <2>3 DEF Mem
<1>2. ASSUME NEW x \in Clients
      PROVE  conn'[x] = NULL \/ (conn'[x] = conn[x] /\ x # gone)
  <2>1. conn'[x] = IF x = gone THEN NULL ELSE conn[x]
    OBVIOUS
  <2> QED BY <2>1
<1>3. Users(c)' = Users(c) \ {gone}
  BY <1>1 DEF Users
<1>4. \A d \in Conns \ {c} : Users(d)' = Users(d)
  BY NullAssumption DEF Users
<1>5. /\ IsFiniteSet(Users(c) \ {gone})
      /\ Cardinality(Users(c) \ {gone}) \in Nat
      /\ Cardinality(Users(c) \ {gone}) = 0 <=> Users(c) \ {gone} = {}
  <2>1. IsFiniteSet(Users(c) \ {gone})
    BY UsersFinite, FS_RemoveElement
  <2> QED BY <2>1, FS_CardinalityType, FS_EmptySet
<1>6. \A d \in Conns \ {c} :
        d \in alive => /\ Cardinality(Users(d)') <= m[d].refs
                       /\ ~Reconstruct => m[d].refs = Cardinality(Users(d)')
  BY <1>4 DEF Inv, Counted
<1>7. CASE mem' = m /\ UNCHANGED <<alive, persistent_list>>
  <2>1. PoolSound'
    <3>1. \A id \in Ids : \/ persistent_list'[id] = NULL
                          \/ /\ persistent_list'[id] \in alive'
                             /\ mem'[persistent_list'[id]].pkey = id
      BY <1>1, <1>7 DEF Inv, PoolSound
    <3>2. \A d \in alive' : mem'[d].pkey # NULL => persistent_list'[mem'[d].pkey] = d
      BY <1>1, <1>7 DEF Inv, PoolSound
    <3>3. \A x \in Clients : conn'[x] = NULL \/ conn'[x] \in alive'
      BY <1>2, <1>7 DEF Inv, PoolSound
    <3>4. \A x, y \in Clients :
            conn'[x] = conn'[y] /\ conn'[x] # NULL /\ mem'[conn'[x]].pkey = NULL
              => x = y
      BY <1>1, <1>2, <1>7, <3>3 DEF Inv, PoolSound
    <3> QED BY <3>1, <3>2, <3>3, <3>4 DEF PoolSound
  <2>2. Counted'
    <3> SUFFICES ASSUME NEW d \in alive
                 PROVE  /\ Cardinality(Users(d)') <= mem'[d].refs
                        /\ ~Reconstruct => mem'[d].refs = Cardinality(Users(d)')
      BY <1>7 DEF Counted
    <3>1. CASE d = c
      BY <1>3, <1>7, <3>1
    <3>2. CASE d # c
      BY <1>1, <1>6, <1>7, <3>2
    <3> QED BY <3>1, <3>2
  <2> QED BY <2>1, <2>2 DEF Inv
<1>8. CASE /\ m[c].refs = 0
           /\ alive' = alive \ {c}
           /\ mem' = [m EXCEPT ![c] = Blank]
           /\ persistent_list' = [persistent_list EXCEPT ![mem[c].pkey] = NULL]
  <2>1. Users(c) \ {gone} = {}
    BY <1>1, <1>5, <1>8
  <2>2. \A x \in Clients : conn'[x] # c
    <3> SUFFICES ASSUME NEW x \in Clients, conn'[x] = c PROVE FALSE
      OBVIOUS
    <3>1. x \in Users(c)'
      BY DEF Users
    <3> QED BY <1>3, <2>1, <3>1
  <2>3. \A d \in alive' : d \in alive /\ d # c /\ d \in Conns /\ mem'[d] = m[d]
    BY <1>1, <1>8
  <2>4. PoolSound'
    <3>1. \A x \in Clients : conn'[x] = NULL \/ conn'[x] \in alive'
      BY <1>2, <1>8, <2>2 DEF Inv, PoolSound
    <3>2. ASSUME NEW id \in Ids, persistent_list'[id] # NULL
          PROVE  /\ persistent_list'[id] \in alive'
                 /\ mem'[persistent_list'[id]].pkey = id
      <4>1. persistent_list'[id] = persistent_list[id] /\ id # mem[c].pkey
        BY <1>1, <1>8, <3>2 DEF Inv, TypeOK
      <4>2. persistent_list[id] \in alive /\ mem[persistent_list[id]].pkey = id
        BY <3>2, <4>1 DEF Inv, PoolSound
      <4>3. persistent_list[id] # c
        BY <4>1, <4>2
      <4> QED BY <1>1, <1>8, <2>3, <4>1, <4>2, <4>3
    <3>3. ASSUME NEW d \in alive', mem'[d].pkey # NULL
          PROVE  persistent_list'[mem'[d].pkey] = d
      <4>1. mem'[d].pkey = mem[d].pkey /\ d \in alive /\ d # c
        BY <2>3
      <4>2. persistent_list[mem[d].pkey] = d
        BY <3>3, <4>1 DEF Inv, PoolSound
      <4>3. mem[d].pkey # mem[c].pkey
        BY <1>1, <4>1, <4>2
      <4>4. mem[d].pkey \in Ids
        BY <3>3, <4>1, <1>1 DEF Inv, TypeOK, Mem
      <4> QED BY <1>8, <4>1, <4>2, <4>3, <4>4 DEF Inv, TypeOK
    <3>4. \A x, y \in Clients :
            conn'[x] = conn'[y] /\ conn'[x] # NULL /\ mem'[conn'[x]].pkey = NULL
              => x = y
      BY <1>2, <2>3, <3>1 DEF Inv, PoolSound
    <3> QED BY <3>1, <3>2, <3>3, <3>4 DEF PoolSound
  <2>5. Counted'
    BY <1>6, <2>3 DEF Counted
  <2> QED BY <2>4, <2>5 DEF Inv
<1> QED BY <1>1, <1>7, <1>8, BrokenCases

-----------------------------------------------------------------------------
(* Every action keeps the invariant.                                        *)

(* A check of entry c for client cl failed, before or after its first recv. *)
LEMMA BrokenCheckStep ==
  ASSUME Inv, TypeOK', NEW c \in alive, NEW cl \in Clients, NEW id \in Ids,
         job.at # "destruct", mem[c].pkey = id, NEW m \in [Conns -> Mem],
         \A d \in Conns : m[d].pkey = mem[d].pkey /\ m[d].refs = mem[d].refs,
         BrokenConnection(c, m), AfterBrokenCheck(cl, id, c),
         UNCHANGED conn, ~Reconstruct => conn[cl] = NULL
  PROVE  Inv'
<1>1. c \in Conns /\ id # NULL /\ m[c].refs = mem[c].refs
  BY NullAssumption DEF Inv, TypeOK
<1>2. Users(c) \ {NULL} = Users(c)
  BY NullAssumption DEF Users
<1>3. job'.at # "destruct" /\ job'.conn = NULL
  BY DEF AfterBrokenCheck, Idle
<1>4. JobSound'
  <2>1. CASE mem[c].refs = 0
    <3>1. Entry(id)' = NULL
      BY <1>1, <2>1, BrokenCases DEF Entry, Inv, TypeOK
    <3> QED BY <2>1, <3>1 DEF JobSound, AfterBrokenCheck, Idle, Entry
  <2>2. CASE mem[c].refs # 0
    BY <2>2 DEF JobSound, AfterBrokenCheck, Idle
  <2> QED BY <2>1, <2>2
<1>5. conn' = [x \in Clients |-> IF x = NULL THEN NULL ELSE conn[x]]
  BY NullAssumption DEF Inv, TypeOK
<1>6. /\ Cardinality(Users(c)) <= mem[c].refs
      /\ ~Reconstruct => mem[c].refs = Cardinality(Users(c))
  BY DEF Inv, Counted
<1>7. /\ Cardinality(Users(c) \ {NULL}) <= m[c].refs
      /\ ~Reconstruct => m[c].refs = Cardinality(Users(c) \ {NULL})
      /\ mem[c].pkey # NULL
      /\ \A d \in Conns : m[d].pkey = mem[d].pkey
      /\ \A d \in Conns \ {c} : m[d].refs = mem[d].refs
      /\ NULL \in Clients \cup {NULL}
  BY <1>1, <1>2, <1>6
<1> QED BY <1>3, <1>4, <1>5, <1>7, LeaveStep, ZenonT(60)

(* __construct up to its first wait.                                        *)
LEMMA ConstructInv ==
  ASSUME Inv, Construct
  PROVE  Inv'
<1>1. TypeOK'
  BY ConstructTypes DEF Construct
<1>2. ASSUME NEW cl \in Clients, NEW id, MayConstruct(cl, id)
      PROVE  /\ job = Idle /\ job.at = "idle" /\ job.conn = NULL
             /\ ~Reconstruct => conn[cl] = NULL
  BY <1>2 DEF MayConstruct, Idle
<1>3. ASSUME NEW cl \in Clients, NEW id \in Ids \cup {NULL},
             ConstructNotFound(cl, id)
      PROVE  Inv'
  <2>1. job.at # "destruct" /\ job'.at # "destruct" /\ job'.conn = NULL
    BY <1>2, <1>3 DEF ConstructNotFound, Idle
  <2>2. JobSound'
    BY <1>2, <1>3 DEF ConstructNotFound, Idle, JobSound, Entry
  <2> QED BY <1>1, <1>3, <2>1, <2>2, JobStep DEF ConstructNotFound
<1>4. ASSUME NEW id \in Ids, Entry(id) # NULL
      PROVE  /\ persistent_list[id] \in alive /\ persistent_list[id] \in Conns
             /\ mem[persistent_list[id]].pkey = id /\ id # NULL
  BY <1>4, NullAssumption DEF Inv, TypeOK, PoolSound, Entry
<1>5. ASSUME NEW cl \in Clients, NEW id \in Ids, ConstructReuse(cl, id)
      PROVE  Inv'
  <2> DEFINE c == persistent_list[id]
  <2>1. c \in alive /\ c \in Conns /\ mem[c].pkey # NULL
    BY <1>4, <1>5 DEF ConstructReuse
  <2>2. job.at # "destruct" /\ job' = Idle /\ (~Reconstruct => conn[cl] = NULL)
    BY <1>2, <1>5 DEF ConstructReuse
  <2>3. /\ \A d \in Conns : mem'[d].pkey = mem[d].pkey
        /\ \A d \in Conns \ {c} : mem'[d].refs = mem[d].refs
        /\ mem'[c].refs = mem[c].refs + 1
    BY <1>5, <2>1 DEF ConstructReuse, Inv, TypeOK, Mem
  <2>4. conn' = [conn EXCEPT ![cl] = c] /\ UNCHANGED <<alive, persistent_list>>
    BY <1>5 DEF ConstructReuse
  <2> HIDE DEF c
  <2> QED BY <1>1, <2>1, <2>2, <2>3, <2>4, AttachStep
<1>6. ASSUME NEW c \in Conns
      PROVE  \A d \in Conns :
               LET m == NextSerial([mem EXCEPT ![c].timeout = "check"], c) IN
               m[d].pkey = mem[d].pkey /\ m[d].refs = mem[d].refs
  BY DEF NextSerial, Inv, TypeOK, Mem
<1>7. ASSUME NEW cl \in Clients, NEW id \in Ids, ConstructCheck(cl, id)
      PROVE  Inv'
  <2> DEFINE c == persistent_list[id]
  <2>1. c \in alive /\ c \in Conns /\ mem[c].pkey = id /\ id # NULL
    BY <1>4, <1>7 DEF ConstructCheck
  <2>2. \A d \in Conns : mem'[d].pkey = mem[d].pkey /\ mem'[d].refs = mem[d].refs
    BY <1>6, <1>7, <2>1 DEF ConstructCheck
  <2>3. /\ job.at # "destruct" /\ job'.at = "check" /\ job'.conn = c
        /\ job'.cl = cl /\ job'.id = id
        /\ ~Reconstruct => conn[cl] = NULL
    BY <1>2, <1>7 DEF ConstructCheck
  <2>4. UNCHANGED <<conn, alive, persistent_list>>
    BY <1>7 DEF ConstructCheck
  <2>5. JobSound'
    BY <2>1, <2>2, <2>3, <2>4 DEF JobSound
  <2> QED BY <1>1, <2>1, <2>2, <2>3, <2>4, <2>5, JobStep
<1>8. ASSUME NEW cl \in Clients, NEW id \in Ids, ConstructCheckUnsent(cl, id)
      PROVE  Inv'
  <2> DEFINE c == persistent_list[id]
             m == NextSerial([mem EXCEPT ![c].timeout = "check"], c)
  <2>1. c \in alive /\ c \in Conns /\ mem[c].pkey = id /\ id # NULL
    BY <1>4, <1>8 DEF ConstructCheckUnsent
  <2>2. m \in [Conns -> Mem]
    BY <2>1, MemTypes DEF Inv
  <2>3. \A d \in Conns : m[d].pkey = mem[d].pkey /\ m[d].refs = mem[d].refs
    BY <1>6, <2>1
  <2>4. job.at # "destruct" /\ (~Reconstruct => conn[cl] = NULL)
    BY <1>2, <1>8 DEF ConstructCheckUnsent
  <2>5. /\ BrokenConnection(c, m) /\ AfterBrokenCheck(cl, id, c)
        /\ UNCHANGED conn
    BY <1>8 DEF ConstructCheckUnsent
  <2> HIDE DEF c, m
  <2> QED BY <1>1, <2>1, <2>2, <2>3, <2>4, <2>5, BrokenCheckStep
<1> QED BY <1>3, <1>5, <1>7, <1>8 DEF Construct

(* Marking a connection invalid leaves keys and counts alone.               *)
LEMMA MarkedSame ==
  ASSUME Inv, NEW c \in Conns
  PROVE  /\ MarkInvalid(c) \in [Conns -> Mem]
         /\ \A d \in Conns : /\ MarkInvalid(c)[d].pkey = mem[d].pkey
                             /\ MarkInvalid(c)[d].refs = mem[d].refs
<1>1. MarkInvalid(c) \in [Conns -> Mem]
  BY MemTypes DEF Inv
<1> QED BY <1>1 DEF MarkInvalid, Inv, TypeOK, Mem

(* __construct after it.                                                    *)
LEMMA ResumeInv ==
  ASSUME Inv, Resume
  PROVE  Inv'
<1>1. TypeOK'
  BY ResumeTypes
<1> DEFINE c == job.conn
<1>2. CASE DrainSkip
  BY <1>1, <1>2, QuietStep DEF DrainSkip
<1>3. CASE CheckPasses
  <2>1. Draining /\ job.at = "check" /\ job' = Idle
    BY <1>3 DEF CheckPasses, Draining
  <2>2. /\ c \in alive /\ c \in Conns /\ mem[c].pkey # NULL /\ job.cl \in Clients
        /\ ~Reconstruct => conn[job.cl] = NULL
    BY <2>1, DrainedConn, NullAssumption DEF Inv, JobSound
  <2>3. /\ \A d \in Conns : mem'[d].pkey = mem[d].pkey
        /\ \A d \in Conns \ {c} : mem'[d].refs = mem[d].refs
        /\ mem'[c].refs = mem[c].refs + 1
    BY <1>3, <2>2 DEF CheckPasses, Inv, TypeOK, Mem
  <2>4. /\ conn' = [conn EXCEPT ![job.cl] = c]
        /\ UNCHANGED <<alive, persistent_list>>
    BY <1>3 DEF CheckPasses
  <2> HIDE DEF c
  <2> QED BY <1>1, <2>1, <2>2, <2>3, <2>4, AttachStep
<1>4. CASE CheckBreaks
  <2>1. Draining /\ job.at = "check"
    BY <1>4 DEF CheckBreaks, Draining
  <2>2. /\ c \in alive /\ c \in Conns /\ mem[c].pkey \in Ids /\ job.cl \in Clients
        /\ job.id = mem[c].pkey
        /\ ~Reconstruct => conn[job.cl] = NULL
    BY <2>1, DrainedConn DEF Inv, JobSound
  <2>3. /\ BrokenConnection(c, MarkInvalid(c))
        /\ AfterBrokenCheck(job.cl, job.id, c)
        /\ UNCHANGED conn
    BY <1>4 DEF CheckBreaks
  <2> HIDE DEF c
  <2> QED BY <1>1, <2>1, <2>2, <2>3, MarkedSame, BrokenCheckStep
<1>5. ASSUME job.at = "destruct", conn' = [conn EXCEPT ![job.cl] = NULL],
             job' = Idle, NEW m \in [Conns -> Mem],
             \A d \in Conns : m[d].pkey = mem[d].pkey /\ m[d].refs = mem[d].refs,
             \/ BrokenConnection(c, m)
             \/ mem' = m /\ UNCHANGED <<alive, persistent_list>>
      PROVE  Inv'
  <2> DEFINE cl == job.cl
  <2>1. /\ c \in alive /\ c \in Conns /\ mem[c].pkey # NULL /\ cl \in Clients
        /\ conn[cl] = c
    BY <1>5, DrainedConn, NullAssumption DEF Draining, Inv, JobSound
  <2>2. Users(c) \ {cl} = Users(c)
    BY <1>5 DEF Users
  <2>3. /\ Cardinality(Users(c)) <= mem[c].refs
        /\ ~Reconstruct => mem[c].refs = Cardinality(Users(c))
    BY <2>1 DEF Inv, Counted
  <2>4. conn' = [x \in Clients |-> IF x = cl THEN NULL ELSE conn[x]]
    BY <1>5 DEF Inv, TypeOK
  <2>5. job'.at # "destruct" /\ job'.conn = NULL /\ JobSound'
    BY <1>5 DEF Idle, JobSound
  <2>6. m[c].refs = mem[c].refs
    BY <1>5, <2>1
  <2> HIDE DEF c, cl
  <2>7. job.at = "destruct" => job.cl = cl
    BY DEF cl
  <2>8. /\ Cardinality(Users(c) \ {cl}) <= m[c].refs
        /\ ~Reconstruct => m[c].refs = Cardinality(Users(c) \ {cl})
        /\ \A d \in Conns : m[d].pkey = mem[d].pkey
        /\ \A d \in Conns \ {c} : m[d].refs = mem[d].refs
    BY <1>5, <2>2, <2>3, <2>6
  <2>9. \/ BrokenConnection(c, m)
        \/ mem' = m /\ UNCHANGED <<alive, persistent_list>>
    BY <1>5
  <2> QED BY <1>1, <2>1, <2>4, <2>5, <2>7, <2>8, <2>9, LeaveStep
<1>6. CASE DestructDone
  <2>1. /\ job.at = "destruct" /\ conn' = [conn EXCEPT ![job.cl] = NULL]
        /\ job' = Idle
        /\ mem' = mem /\ UNCHANGED <<alive, persistent_list>>
    BY <1>6 DEF DestructDone
  <2>2. mem \in [Conns -> Mem]
    BY DEF Inv, TypeOK
  <2> QED BY <1>5, <2>1, <2>2
<1>7. CASE DestructBreaks
  <2>1. /\ job.at = "destruct" /\ conn' = [conn EXCEPT ![job.cl] = NULL]
        /\ job' = Idle
        /\ BrokenConnection(c, MarkInvalid(c))
    BY <1>7 DEF DestructBreaks
  <2>2. c \in Conns
    BY <2>1, DrainedConn DEF Draining
  <2> QED BY <1>5, <2>1, <2>2, MarkedSame
<1>8. CASE ConnectFailed
  <2>1. job.at # "destruct" /\ job'.at # "destruct" /\ job'.conn = NULL
    BY <1>8 DEF ConnectFailed, Idle
  <2>2. JobSound'
    BY <1>8 DEF ConnectFailed, Idle, JobSound
  <2> QED BY <1>1, <1>8, <2>1, <2>2, JobStep DEF ConnectFailed
<1>9. ASSUME NEW d \in Conns, Connected(d)
      PROVE  Inv'
  BY <1>1, <1>9, ConnectedStep
<1> QED BY <1>2, <1>3, <1>4, <1>6, <1>7, <1>8, <1>9 DEF Resume

(* Detaching a user takes one from the count of its connection.             *)
LEMMA DetachedSame ==
  ASSUME Inv, NEW c \in Conns, mem[c].refs # 0
  PROVE  /\ Detached(c) \in [Conns -> Mem]
         /\ \A d \in Conns : Detached(c)[d].pkey = mem[d].pkey
         /\ \A d \in Conns \ {c} : Detached(c)[d].refs = mem[d].refs
         /\ Detached(c)[c].refs = mem[c].refs - 1
<1>1. Detached(c) \in [Conns -> Mem]
  BY MemTypes DEF Inv
<1> QED BY <1>1 DEF Detached, NextSerial, Inv, TypeOK, Mem

(* A persistent client gives its reference back: the count still covers the *)
(* others.                                                                  *)
LEMMA ReferenceGivenBack ==
  ASSUME Inv, NEW cl \in Clients, job = Idle, conn[cl] # NULL
  PROVE  LET c == conn[cl] IN
         /\ c \in alive /\ c \in Conns /\ mem[c].refs # 0
         /\ Cardinality(Users(c) \ {cl}) <= mem[c].refs - 1
         /\ ~Reconstruct => mem[c].refs - 1 = Cardinality(Users(c) \ {cl})
<1> DEFINE c == conn[cl]
<1>1. c \in alive /\ c \in Conns /\ mem[c].refs \in Nat \ {0}
  BY AttachedCounted DEF Idle
<1>2. cl \in Users(c)
  BY DEF Users, Idle
<1>3. Cardinality(Users(c) \ {cl}) = Cardinality(Users(c)) - 1
  BY <1>2, UsersMove
<1>4. /\ Cardinality(Users(c)) <= mem[c].refs
      /\ ~Reconstruct => mem[c].refs = Cardinality(Users(c))
      /\ Cardinality(Users(c)) \in Nat
  BY <1>1, UsersFinite DEF Inv, Counted
<1> QED BY <1>1, <1>3, <1>4

(* The finalisation of an object.                                           *)
LEMMA DestructInv ==
  ASSUME Inv, NEW cl \in Clients, Destruct(cl)
  PROVE  Inv'
<1> DEFINE c == conn[cl]
<1>1. TypeOK'
  BY DestructTypes DEF Destruct
<1>2. job = Idle /\ c # NULL /\ job.at = "idle" /\ job.conn = NULL
  BY DEF Destruct, DestructPlain, DestructPersistent, DestructUnsent, Idle
<1>3. /\ c \in alive /\ c \in Conns /\ mem[c].refs # 0
      /\ Cardinality(Users(c) \ {cl}) <= mem[c].refs - 1
      /\ ~Reconstruct => mem[c].refs - 1 = Cardinality(Users(c) \ {cl})
  BY <1>2, ReferenceGivenBack
<1>4. alive \subseteq Conns
  BY DEF Inv, TypeOK
<1>5. CASE DestructPlain(cl)
  <2>1. /\ conn' = [conn EXCEPT ![cl] = NULL]
        /\ alive' = alive \ {c} /\ mem' = [mem EXCEPT ![c] = Blank]
        /\ mem[c].pkey = NULL
        /\ UNCHANGED <<persistent_list, job>>
    BY <1>5 DEF DestructPlain, FreeConn
  <2>2. \A x \in Clients : conn'[x] = NULL \/ (x # cl /\ conn'[x] = conn[x])
    BY <2>1 DEF Inv, TypeOK
  <2>3. \A x \in Clients : conn'[x] # c
    BY <1>2, <2>1, <2>2 DEF Inv, PoolSound
  <2>4. \A d \in alive' : d \in alive /\ d # c /\ d \in Conns /\ mem'[d] = mem[d]
    BY <1>4, <2>1 DEF Inv, TypeOK
  <2>5. PoolSound'
    <3>1. \A x \in Clients : conn'[x] = NULL \/ conn'[x] \in alive'
      BY <2>1, <2>2, <2>3 DEF Inv, PoolSound
    <3>2. job'.conn = NULL
      BY <1>2, <2>1
    <3>3. ASSUME NEW id \in Ids, persistent_list'[id] # NULL
          PROVE  /\ persistent_list'[id] \in alive'
                 /\ mem'[persistent_list'[id]].pkey = id
      <4>1. /\ persistent_list[id] \in alive
            /\ mem[persistent_list[id]].pkey = id /\ id # NULL
        BY <2>1, <3>3, NullAssumption DEF Inv, PoolSound
      <4>2. persistent_list[id] # c
        BY <2>1, <4>1
      <4> QED BY <2>1, <2>4, <4>1, <4>2
    <3>4. \A d \in alive' : mem'[d].pkey # NULL => persistent_list'[mem'[d].pkey] = d
      BY <2>1, <2>4 DEF Inv, PoolSound
    <3>5. \A x, y \in Clients :
            conn'[x] = conn'[y] /\ conn'[x] # NULL /\ mem'[conn'[x]].pkey = NULL
              => x = y
      BY <2>2, <2>4, <3>1 DEF Inv, PoolSound
    <3> QED BY <3>1, <3>2, <3>3, <3>4, <3>5 DEF PoolSound
  <2>6. JobSound'
    BY <1>2, <2>1 DEF JobSound, Idle
  <2>7. \A d \in alive' : Users(d)' = Users(d)
    BY <1>2, <2>1, <2>4, NullAssumption DEF Users, Inv, TypeOK, Idle
  <2>8. Counted'
    BY <2>4, <2>7 DEF Inv, Counted
  <2> QED BY <1>1, <2>5, <2>6, <2>8 DEF Inv
<1>6. CASE DestructPersistent(cl)
  <2>1. /\ mem' = Detached(c) /\ mem[c].pkey # NULL
        /\ job'.at = "destruct" /\ job'.cl = cl /\ job'.conn = c
        /\ UNCHANGED <<conn, alive, persistent_list>>
    BY <1>6 DEF DestructPersistent
  <2>2. /\ \A d \in Conns : mem'[d].pkey = mem[d].pkey
        /\ \A d \in Conns \ {c} : mem'[d].refs = mem[d].refs
        /\ mem'[c].refs = mem[c].refs - 1
    BY <1>3, <2>1, DetachedSame
  <2>3. PoolSound'
    <3>1. \A x \in Clients : conn[x] = NULL \/ conn[x] \in Conns
      BY DEF Inv, TypeOK
    <3>2. \A id \in Ids : persistent_list[id] = NULL \/ persistent_list[id] \in Conns
      BY DEF Inv, TypeOK
    <3>3. job'.conn \in alive'
      BY <1>3, <2>1
    <3> QED BY <1>4, <2>1, <2>2, <3>1, <3>2, <3>3 DEF Inv, PoolSound
  <2>4. JobSound'
    BY <1>3, <2>1, <2>2 DEF JobSound
  <2>5. Users(c)' = Users(c) \ {cl}
    BY <1>2, <2>1 DEF Users
  <2>6. \A d \in Conns \ {c} : Users(d)' = Users(d)
    BY <1>2, <2>1 DEF Users
  <2>7. Counted'
    <3> SUFFICES ASSUME NEW d \in alive
                 PROVE  /\ Cardinality(Users(d)') <= mem'[d].refs
                        /\ ~Reconstruct => mem'[d].refs = Cardinality(Users(d)')
      BY <2>1 DEF Counted
    <3>1. CASE d = c
      <4>1. Users(d)' = Users(d) \ {cl} /\ mem'[d].refs = mem[d].refs - 1
        BY <2>1, <2>2, <2>5, <3>1
      <4>2. /\ Cardinality(Users(d) \ {cl}) <= mem[d].refs - 1
            /\ ~Reconstruct => mem[d].refs - 1 = Cardinality(Users(d) \ {cl})
        BY <1>3, <3>1
      <4> QED BY <4>1, <4>2
    <3>2. CASE d # c
      BY <1>4, <2>2, <2>6, <3>2 DEF Inv, Counted
    <3> QED BY <3>1, <3>2
  <2> QED BY <1>1, <2>3, <2>4, <2>7 DEF Inv
<1>7. CASE DestructUnsent(cl)
  <2> DEFINE m == Detached(c)
  <2>1. /\ BrokenConnection(c, m) /\ mem[c].pkey # NULL
        /\ conn' = [x \in Clients |-> IF x = cl THEN NULL ELSE conn[x]]
        /\ job' = job
    BY <1>7 DEF DestructUnsent, Inv, TypeOK
  <2>2. /\ m \in [Conns -> Mem]
        /\ \A d \in Conns : m[d].pkey = mem[d].pkey
        /\ \A d \in Conns \ {c} : m[d].refs = mem[d].refs
        /\ m[c].refs = mem[c].refs - 1
    BY <1>3, DetachedSame
  <2>3. /\ Cardinality(Users(c) \ {cl}) <= m[c].refs
        /\ ~Reconstruct => m[c].refs = Cardinality(Users(c) \ {cl})
        /\ conn[cl] = c
    BY <1>3, <2>2
  <2>4. /\ job'.at # "destruct" /\ job'.conn = NULL /\ job.at # "destruct"
        /\ JobSound'
    BY <1>2, <2>1 DEF JobSound, Idle
  <2> HIDE DEF c, m
  <2> QED BY <1>1, <1>3, <2>1, <2>2, <2>3, <2>4, LeaveStep, SMTT(30)
<1> QED BY <1>5, <1>6, <1>7 DEF Destruct

(* A method of an object.                                                   *)
LEMMA MethodInv ==
  ASSUME Inv, NEW cl \in Clients, Method(cl)
  PROVE  Inv'
<1>1. TypeOK'
  BY MethodTypes DEF Method
<1>2. conn[cl] \in Conns
  <2>1. Using(cl)
    BY DEF Method, Command, CommandFails, Recv, RecvGarbled, SetTimeout
  <2> QED BY <2>1, AttachedCounted DEF Using, Idle
<1>3. UNCHANGED <<conn, alive, persistent_list, job>>
  BY DEF Method, Command, CommandFails, Recv, RecvGarbled, SetTimeout
<1>4. \/ mem' = mem \/ mem' = NextSerial(mem, conn[cl])
      \/ mem' = MarkInvalid(conn[cl])
      \/ mem' = [mem EXCEPT ![conn[cl]].timeout = "user"]
  BY DEF Method, Command, CommandFails, Recv, RecvGarbled, SetTimeout
<1>5. \A d \in Conns : mem'[d].pkey = mem[d].pkey /\ mem'[d].refs = mem[d].refs
  <2>1. mem \in [Conns -> Mem]
    BY DEF Inv, TypeOK
  <2>2. CASE mem' = mem
    BY <2>2
  <2>3. CASE mem' = NextSerial(mem, conn[cl])
    BY <1>2, <2>1, <2>3 DEF NextSerial, Mem
  <2>4. CASE mem' = MarkInvalid(conn[cl])
    BY <1>2, <2>4, MarkedSame
  <2>5. CASE mem' = [mem EXCEPT ![conn[cl]].timeout = "user"]
    BY <1>2, <2>1, <2>5 DEF Mem
  <2> QED BY <1>4, <2>2, <2>3, <2>4, <2>5
<1> QED BY <1>1, <1>3, <1>5, QuietStep

(* A step of the server.                                                    *)
LEMMA ServerInv ==
  ASSUME Inv, NEW c \in Conns, ServerStep(c)
  PROVE  Inv'
<1>1. TypeOK'
  BY ServerTypes DEF Inv, ServerStep
<1>2. UNCHANGED <<conn, alive, mem, persistent_list, job>>
  BY DEF ServerStep, Serve, ServeLock, ServeUnlock, ServeUnlockAll, ServeNoop,
         ServeGet, ServeTorn, ServerCloses, SessionReaped
<1> QED BY <1>1, <1>2, QuietStep

(* The end of the process.                                                  *)
LEMMA ProcessEndsInv ==
  ASSUME Inv, ProcessEnds
  PROVE  Inv'
<1>1. TypeOK'
  BY ProcessEndsTypes DEF Inv
<1>2. PoolSound'
  BY DEF ProcessEnds, PoolSound, Idle
<1>3. JobSound'
  BY DEF ProcessEnds, JobSound, Idle
<1>4. Counted'
  BY DEF ProcessEnds, Counted
<1> QED BY <1>1, <1>2, <1>3, <1>4 DEF Inv

(* Nothing is connected at first.                                           *)
LEMMA InitInv ==
  ASSUME Init
  PROVE  Inv
<1>1. TypeOK
  <2>1. Blank \in Mem
    BY DEF Blank, NewMem, Mem
  <2>2. Nobody \in Holder
    BY DEF Nobody, Holder
  <2>3. Idle \in Job
    BY DEF Idle, Job
  <2> QED BY <2>1, <2>2, <2>3, FlagAssumption DEF Init, TypeOK
<1>2. PoolSound
  BY DEF Init, PoolSound, Idle
<1>3. JobSound
  BY DEF Init, JobSound, Idle
<1>4. Counted
  BY DEF Init, Counted
<1> QED BY <1>1, <1>2, <1>3, <1>4 DEF Inv

(* Every step keeps the invariant.                                          *)
LEMMA NextInv ==
  ASSUME Inv, [Next]_vars
  PROVE  Inv'
<1>1. CASE Construct
  BY <1>1, ConstructInv
<1>2. CASE Resume
  BY <1>2, ResumeInv
<1>3. ASSUME NEW cl \in Clients, Destruct(cl)
      PROVE  Inv'
  BY <1>3, DestructInv
<1>4. ASSUME NEW cl \in Clients, Method(cl)
      PROVE  Inv'
  BY <1>4, MethodInv
<1>5. CASE ProcessEnds
  BY <1>5, ProcessEndsInv
<1>6. ASSUME NEW c \in Conns, ServerStep(c)
      PROVE  Inv'
  BY <1>6, ServerInv
<1>7. CASE UNCHANGED vars
  <2>1. TypeOK'
    BY <1>7, NextTypes
  <2> QED BY <1>7, <2>1, QuietStep DEF vars
<1> QED BY <1>1, <1>2, <1>3, <1>4, <1>5, <1>6, <1>7, NextCases

(* The invariant holds in every state: the initial states have it, and      *)
(* every action of a client, a handler or the server keeps it.              *)
THEOREM Invariance == Spec => []Inv
<1>1. Init => Inv
  BY InitInv
<1>2. Inv /\ [Next]_vars => Inv'
  BY NextInv
<1> QED BY <1>1, <1>2, PTL DEF Spec

(* Every variable keeps its type; in particular no destructor takes the     *)
(* size_t reference_count below zero.                                       *)
THEOREM TypeCorrect == Spec => []TypeOK
<1>1. Inv => TypeOK
  BY DEF Inv
<1> QED BY <1>1, Invariance, PTL

(* No client, handler or list entry ever refers to a php_yrmcds_t that was  *)
(* freed, and the list and the structures agree on the keys - even for      *)
(* programs that share ids or construct an object twice.                    *)
THEOREM NoDanglingPointer == Spec => []PoolSound
<1>1. Inv => PoolSound
  BY DEF Inv
<1> QED BY <1>1, Invariance, PTL

(* reference_count counts the clients, for programs that construct each     *)
(* object once.                                                             *)
THEOREM CountIsExact == ~Reconstruct /\ Spec => []RefcountExact
<1>1. ~Reconstruct /\ Inv => RefcountExact
  BY DEF Inv, Counted, RefcountExact
<1>2. CASE Reconstruct
  BY <1>2
<1>3. CASE ~Reconstruct
  <2>1. Inv => RefcountExact
    BY <1>1, <1>3
  <2> QED BY <2>1, Invariance, PTL
<1> QED BY <1>2, <1>3

-----------------------------------------------------------------------------
(* The promise of USAGE.md about persistent connections, for every value of *)
(* the constants: a connection that waits for its next client is clean, and *)
(* one that has a client carries nothing of another's, in the extension for *)
(* PHP 7 and in that for PHP 5.                                             *)
(*                                                                         *)
(* The argument.  Serials are handed out in increasing order, and neither   *)
(* the wire nor the server reorders, so what is in flight is always sorted  *)
(* (Ordered).  The destructor waits for the serial it took last; when that  *)
(* response is at the head, nothing can be behind it: the connection is     *)
(* empty, and the server processed unlockall after everything else.         *)

(* Sorted pipelines: w still to be processed, r answered, n the last serial *)
(* handed out.                                                              *)
Ordered(w, r, n) ==
  /\ \A i \in 1..Len(w) : w[i].serial <= n
  /\ \A i \in 1..Len(r) : r[i].serial <= n
  /\ \A i, j \in 1..Len(w) : i < j => w[i].serial < w[j].serial
  /\ \A i, j \in 1..Len(r) : i < j => r[i].serial < r[j].serial
  /\ \A i \in 1..Len(r), j \in 1..Len(w) : r[i].serial < w[j].serial

(* The serials on a wire are numbers.                                       *)
LEMMA Serials ==
  /\ \A w \in Seq(Request) : \A i \in 1..Len(w) : w[i].serial \in Nat
  /\ \A r \in Seq(Response) : \A i \in 1..Len(r) : r[i].serial \in Nat
<1>1. ASSUME NEW w \in Seq(Request), NEW i \in 1..Len(w)
      PROVE  w[i].serial \in Nat
  <2>1. w[i] \in Request
    OBVIOUS
  <2> QED BY <2>1 DEF Request
<1>2. ASSUME NEW r \in Seq(Response), NEW i \in 1..Len(r)
      PROVE  r[i].serial \in Nat
  <2>1. r[i] \in Response
    OBVIOUS
  <2> QED BY <2>1 DEF Response
<1> QED BY <1>1, <1>2

(* A request with a new serial goes behind the others.                      *)
LEMMA OrderedSend ==
  ASSUME NEW w \in Seq(Request), NEW r \in Seq(Response), NEW n \in Nat,
         Ordered(w, r, n), NEW q \in Request, q.serial = n + 1
  PROVE  Ordered(w, r, n + 1) /\ Ordered(Append(w, q), r, n + 1)
<1>1. /\ \A i \in 1..Len(w) : w[i].serial \in Nat
      /\ \A i \in 1..Len(r) : r[i].serial \in Nat
  BY Serials
<1>2. Ordered(w, r, n + 1)
  BY <1>1 DEF Ordered
<1> DEFINE v == Append(w, q)
<1>3. /\ Len(v) = Len(w) + 1
      /\ \A i \in 1..Len(w) : v[i] = w[i]
      /\ v[Len(w) + 1] = q
      /\ Len(w) \in Nat /\ Len(r) \in Nat
  OBVIOUS
<1> HIDE DEF v
<1>4. \A i \in 1..Len(v) : \/ i \in 1..Len(w) /\ v[i] = w[i]
                           \/ i = Len(w) + 1 /\ v[i] = q
  BY <1>3
<1>5. \A i \in 1..Len(v) : v[i].serial <= n + 1
  BY <1>1, <1>4 DEF Ordered
<1>6. \A i, j \in 1..Len(v) : i < j => v[i].serial < v[j].serial
  <2> SUFFICES ASSUME NEW i \in 1..Len(v), NEW j \in 1..Len(v), i < j
               PROVE  v[i].serial < v[j].serial
    OBVIOUS
  <2>1. i \in 1..Len(w) /\ v[i] = w[i]
    BY <1>3
  <2>2. CASE j \in 1..Len(w) /\ v[j] = w[j]
    BY <2>1, <2>2 DEF Ordered
  <2>3. CASE v[j] = q
    <3>1. w[i].serial <= n /\ w[i].serial \in Nat
      BY <1>1, <2>1 DEF Ordered
    <3> QED BY <2>1, <2>3, <3>1
  <2> QED BY <1>4, <2>2, <2>3
<1>7. \A i \in 1..Len(r), j \in 1..Len(v) : r[i].serial < v[j].serial
  BY <1>1, <1>4, SMTT(30) DEF Ordered
<1>8. Ordered(v, r, n + 1)
  BY <1>2, <1>5, <1>6, <1>7 DEF Ordered
<1> QED BY <1>2, <1>8 DEF v

(* The server takes k requests off the wire and answers the first, or its   *)
(* answer is lost.                                                          *)
LEMMA OrderedReply ==
  ASSUME NEW w \in Seq(Request), NEW r \in Seq(Response), NEW n \in Nat,
         Ordered(w, r, n), NEW k \in {1, 2}, k <= Len(w),
         NEW s \in Response, s.serial = Head(w).serial
  PROVE  /\ Ordered(SubSeq(w, k + 1, Len(w)), Append(r, s), n)
         /\ Ordered(SubSeq(w, k + 1, Len(w)), r, n)
<1>1. /\ \A i \in 1..Len(w) : w[i].serial \in Nat
      /\ \A i \in 1..Len(r) : r[i].serial \in Nat
      /\ s.serial \in Nat /\ Len(w) \in Nat /\ Len(r) \in Nat
      /\ Head(w) = w[1] /\ 1 \in 1..Len(w)
  <2>1. Len(w) \in Nat /\ Len(w) >= 1 /\ Head(w) = w[1] /\ Len(r) \in Nat
    OBVIOUS
  <2>2. s.serial \in Nat
    BY DEF Response
  <2> QED BY <2>1, <2>2, Serials
<1> DEFINE v == SubSeq(w, k + 1, Len(w))
           t == Append(r, s)
<1>2. /\ Len(v) = Len(w) - k
      /\ \A i \in 1..Len(v) : v[i] = w[i + k] /\ i + k \in 1..Len(w)
  <2>1. k + 1 \in 1..Len(w) + 1 /\ Len(w) \in Nat
    BY <1>1
  <2> QED BY <2>1
<1>3. /\ Len(t) = Len(r) + 1
      /\ \A i \in 1..Len(r) : t[i] = r[i]
      /\ t[Len(r) + 1] = s
  OBVIOUS
<1> HIDE DEF v, t
<1>4. \A i \in 1..Len(t) : \/ i \in 1..Len(r) /\ t[i] = r[i]
                           \/ i = Len(r) + 1 /\ t[i] = s
  BY <1>1, <1>3
<1>5. Ordered(v, r, n)
  <2>1. \A i \in 1..Len(v) : v[i].serial <= n
    BY <1>2 DEF Ordered
  <2>2. ASSUME NEW i \in 1..Len(v), NEW j \in 1..Len(v), i < j
        PROVE  v[i].serial < v[j].serial
    <3>1. i + k \in 1..Len(w) /\ j + k \in 1..Len(w) /\ i + k < j + k
      BY <1>2, <2>2
    <3>2. w[i + k].serial < w[j + k].serial
      BY <3>1 DEF Ordered
    <3> QED BY <1>2, <3>2
  <2>3. \A i \in 1..Len(r), j \in 1..Len(v) : r[i].serial < v[j].serial
    BY <1>2 DEF Ordered
  <2> QED BY <2>1, <2>2, <2>3 DEF Ordered
<1>6. \A i \in 1..Len(t) : t[i].serial <= n
  BY <1>1, <1>4 DEF Ordered
<1>7. \A i, j \in 1..Len(t) : i < j => t[i].serial < t[j].serial
  BY <1>1, <1>3, <1>4, SMTT(30) DEF Ordered
<1>8. \A i \in 1..Len(t), j \in 1..Len(v) : t[i].serial < v[j].serial
  <2>1. ASSUME NEW j \in 1..Len(v)
        PROVE  w[1].serial < v[j].serial
    <3>1. 1 \in 1..Len(w) /\ j + k \in 1..Len(w) /\ 1 < j + k
      BY <1>1, <1>2
    <3>2. w[1].serial < w[j + k].serial
      BY <3>1 DEF Ordered
    <3> QED BY <1>2, <3>2
  <2> QED BY <1>1, <1>4, <1>5, <2>1 DEF Ordered
<1>9. Ordered(v, t, n)
  BY <1>5, <1>6, <1>7, <1>8 DEF Ordered
<1> QED BY <1>5, <1>9 DEF v, t

(* Taking the first answer off leaves the rest in order; the newest is alone.*)
LEMMA OrderedRecv ==
  ASSUME NEW w \in Seq(Request), NEW r \in Seq(Response), NEW n \in Nat,
         Ordered(w, r, n), r # <<>>
  PROVE  /\ Ordered(w, Tail(r), n)
         /\ Head(r).serial = n => w = <<>> /\ Tail(r) = <<>>
<1>1. /\ \A i \in 1..Len(w) : w[i].serial \in Nat
      /\ \A i \in 1..Len(r) : r[i].serial \in Nat
      /\ Len(w) \in Nat /\ Len(r) \in Nat \ {0}
      /\ Head(r) = r[1] /\ 1 \in 1..Len(r)
  <2>1. Len(r) \in Nat \ {0} /\ Head(r) = r[1]
    OBVIOUS
  <2> QED BY <2>1, Serials
<1> DEFINE t == Tail(r)
<1>2. /\ Len(t) = Len(r) - 1
      /\ \A i \in 1..Len(t) : t[i] = r[i + 1] /\ i + 1 \in 1..Len(r)
  <2>1. Len(t) = Len(r) - 1
    BY <1>1
  <2>2. \A i \in 1..Len(t) : t[i] = r[i + 1]
    BY <1>1
  <2> QED BY <1>1, <2>1, <2>2
<1>3. t \in Seq(Response)
  OBVIOUS
<1> HIDE DEF t
<1>4. Ordered(w, t, n)
  <2>1. \A i \in 1..Len(t) : t[i].serial <= n
    BY <1>2 DEF Ordered
  <2>2. ASSUME NEW i \in 1..Len(t), NEW j \in 1..Len(t), i < j
        PROVE  t[i].serial < t[j].serial
    <3>1. i + 1 \in 1..Len(r) /\ j + 1 \in 1..Len(r) /\ i + 1 < j + 1
      BY <1>2, <2>2
    <3>2. r[i + 1].serial < r[j + 1].serial
      BY <3>1 DEF Ordered
    <3> QED BY <1>2, <3>2
  <2>3. \A i \in 1..Len(t), j \in 1..Len(w) : t[i].serial < w[j].serial
    BY <1>2 DEF Ordered
  <2> QED BY <2>1, <2>2, <2>3 DEF Ordered
<1>5. ASSUME r[1].serial = n
      PROVE  w = <<>> /\ t = <<>>
  <2>1. Len(w) = 0
    <3> SUFFICES ASSUME Len(w) # 0 PROVE FALSE
      OBVIOUS
    <3>1. 1 \in 1..Len(w)
      BY <1>1
    <3>2. r[1].serial < w[1].serial /\ w[1].serial <= n
      BY <1>1, <3>1 DEF Ordered
    <3> QED BY <1>1, <1>5, <3>1, <3>2
  <2>2. Len(t) = 0
    <3> SUFFICES ASSUME Len(t) # 0 PROVE FALSE
      OBVIOUS
    <3>1. 2 \in 1..Len(r)
      BY <1>1, <1>2
    <3>2. r[1].serial < r[2].serial /\ r[2].serial <= n
      BY <1>1, <3>1 DEF Ordered
    <3> QED BY <1>1, <1>5, <3>1, <3>2
  <2> QED BY <1>3, <2>1, <2>2
<1> QED BY <1>1, <1>4, <1>5 DEF t

-----------------------------------------------------------------------------
(* The inductive invariant, one connection at a time.                       *)

NoLock(c) == \A k \in Keys : holder[k].conn # c

(* While the destructor waits: the request it waits for is the unlockall it *)
(* sent, and a good answer to it means that the session holds no lock.      *)
Finalising(c) ==
  /\ mem[c].timeout = "default"
  /\ \A i \in 1..Len(wire[c]) :
       wire[c][i].serial = job.serial => wire[c][i].op = "unlockall"
  /\ \A i \in 1..Len(resp[c]) :
       /\ resp[c][i].serial = job.serial
       /\ resp[c][i].status \in {"ok", "unknown"}
       => NoLock(c)

ConnInv(c) ==
  /\ c \in alive => /\ peer[c] \in {"open", "gone"}
                    /\ Ordered(wire[c], resp[c], mem[c].serial)
  /\ c \notin alive => peer[c] \in {"none", "eof"} /\ resp[c] = <<>>
  /\ peer[c] \in {"none", "gone"} => wire[c] = <<>> /\ NoLock(c)
  /\ c \in alive /\ mem[c].pkey # NULL /\ mem[c].refs = 0 /\ c # job.conn
       => Clean(c)
  /\ Draining /\ c = job.conn => job.serial = mem[c].serial
  /\ job.at = "destruct" /\ c = job.conn => Finalising(c)

LocksNeedServer == ~Locking => \A k \in Keys : holder[k] = Nobody

CleanInv == Inv /\ LocksNeedServer /\ \A c \in Conns : ConnInv(c)

(* A connection the step does not touch.                                    *)
LEMMA Frame ==
  ASSUME NEW c \in Conns, ConnInv(c), (c \in alive') <=> (c \in alive),
         mem'[c] = mem[c], peer'[c] = peer[c],
         wire'[c] = wire[c], resp'[c] = resp[c], NoLock(c) => NoLock(c)',
         job' = job \/ (c # job.conn /\ c # job'.conn)
  PROVE  ConnInv(c)'
<1>1. Clean(c) => Clean(c)'
  BY DEF Clean, NoLock
<1>2. CASE job' = job
  <2>1. Finalising(c) => Finalising(c)'
    BY <1>2 DEF Finalising
  <2> QED BY <1>1, <1>2, <2>1 DEF ConnInv, Draining
<1>3. CASE c # job.conn /\ c # job'.conn
  BY <1>1, <1>3 DEF ConnInv
<1> QED BY <1>2, <1>3

(* What the invariant says of one connection.                               *)
LEMMA ConnTypes ==
  ASSUME CleanInv, NEW c \in Conns
  PROVE  /\ wire[c] \in Seq(Request) /\ resp[c] \in Seq(Response)
         /\ mem[c] \in Mem /\ mem[c].serial \in Nat /\ mem[c].refs \in Nat
         /\ ConnInv(c)
         /\ c # NULL
  BY NullAssumption DEF CleanInv, Inv, TypeOK, Mem

(* What a send, or a failed one, does to the wire of c.                     *)
LEMMA SendOrder ==
  ASSUME CleanInv, NEW c \in alive, NEW op \in Ops, NEW key \in Keys \cup {NULL},
         NEW by \in Clients \cup {NULL}, NEW n, n = mem[c].serial + 1,
         Written(c, op, key, n, by) \/ (UNCHANGED wire)
  PROVE  /\ Ordered(wire'[c], resp[c], n)
         /\ \A d \in Conns \ {c} : wire'[d] = wire[d]
         /\ peer[c] = "gone" => wire'[c] = <<>>
<1> DEFINE q == [op |-> op, key |-> key, serial |-> n, by |-> by]
<1>1. c \in Conns
  BY DEF CleanInv, Inv, TypeOK
<1>2. /\ wire[c] \in Seq(Request) /\ resp[c] \in Seq(Response)
      /\ mem[c].serial \in Nat
      /\ Ordered(wire[c], resp[c], mem[c].serial)
      /\ peer[c] = "gone" => wire[c] = <<>>
  BY <1>1, ConnTypes DEF ConnInv
<1>3. q \in Request /\ q.serial = mem[c].serial + 1
  BY <1>2 DEF Request
<1>4. Ordered(wire[c], resp[c], n) /\ Ordered(Append(wire[c], q), resp[c], n)
  BY <1>2, <1>3, OrderedSend
<1>5. /\ wire' = wire \/ (peer[c] = "open" /\ wire' = [wire EXCEPT ![c] = Append(@, q)])
  BY DEF Written
<1>6. wire \in [Conns -> Seq(Request)]
  BY DEF CleanInv, Inv, TypeOK
<1> HIDE DEF q
<1>7. CASE wire' = wire
  BY <1>2, <1>4, <1>7
<1>8. CASE peer[c] = "open" /\ wire' = [wire EXCEPT ![c] = Append(@, q)]
  BY <1>1, <1>4, <1>6, <1>8 DEF q
<1> QED BY <1>5, <1>7, <1>8

(* c is found broken: it is kept for its other users, or closed and freed.  *)
LEMMA BrokenStep ==
  ASSUME CleanInv, Inv', NEW c \in alive, mem[c].pkey # NULL,
         NEW m \in [Conns -> Mem], m[c].pkey = mem[c].pkey,
         \A d \in Conns \ {c} : m[d] = mem[d],
         BrokenConnection(c, m),
         Ordered(wire'[c], resp[c], m[c].serial),
         \A d \in Conns \ {c} : wire'[d] = wire[d],
         peer[c] = "gone" => wire'[c] = <<>>,
         holder' = holder, job.conn = NULL \/ job.conn = c, job'.conn = NULL
  PROVE  CleanInv'
<1>1. c \in Conns /\ ConnInv(c)
  BY DEF CleanInv, Inv, TypeOK
<1>2. \/ /\ m[c].refs = 0
         /\ alive' = alive \ {c}
         /\ mem' = [m EXCEPT ![c] = Blank]
         /\ peer' = [peer EXCEPT ![c] = IF @ = "open" THEN "eof" ELSE "none"]
         /\ resp' = [resp EXCEPT ![c] = <<>>]
      \/ /\ m[c].refs # 0
         /\ mem' = m
         /\ UNCHANGED <<alive, peer, resp>>
  BY BrokenCases DEF CleanInv
<1>3. LocksNeedServer'
  BY DEF CleanInv, LocksNeedServer
<1>4. NoLock(c)' = NoLock(c)
  BY DEF NoLock
<1>5. ASSUME NEW d \in Conns, d # c
      PROVE  ConnInv(d)'
  <2>1. /\ (d \in alive') <=> (d \in alive)
        /\ mem'[d] = mem[d] /\ peer'[d] = peer[d]
        /\ wire'[d] = wire[d] /\ resp'[d] = resp[d]
    BY <1>2, <1>5 DEF CleanInv, Inv, TypeOK
  <2>2. d # job.conn /\ d # job'.conn
    BY <1>5, NullAssumption
  <2>3. NoLock(d) => NoLock(d)'
    BY DEF NoLock
  <2> QED BY <2>1, <2>2, <2>3, Frame DEF CleanInv
<1>6. ConnInv(c)'
  <2>1. c # job'.conn
    BY <1>1, NullAssumption
  <2>2. CASE /\ m[c].refs = 0
             /\ alive' = alive \ {c}
             /\ mem' = [m EXCEPT ![c] = Blank]
             /\ peer' = [peer EXCEPT ![c] = IF @ = "open" THEN "eof" ELSE "none"]
             /\ resp' = [resp EXCEPT ![c] = <<>>]
    <3>1. c \notin alive' /\ resp'[c] = <<>>
      BY <1>1, <2>2 DEF CleanInv, Inv, TypeOK
    <3>2. peer'[c] = IF peer[c] = "open" THEN "eof" ELSE "none"
      BY <1>1, <2>2 DEF CleanInv, Inv, TypeOK
    <3>3. peer[c] \in {"open", "gone"} /\ (peer[c] = "gone" => NoLock(c))
      BY <1>1 DEF ConnInv
    <3> QED BY <1>4, <2>1, <3>1, <3>2, <3>3 DEF ConnInv
  <2>3. CASE /\ m[c].refs # 0
             /\ mem' = m
             /\ UNCHANGED <<alive, peer, resp>>
    <3>1. mem'[c].refs # 0 /\ mem'[c].serial = m[c].serial
      BY <2>3
    <3>2. Ordered(wire'[c], resp'[c], mem'[c].serial)
      BY <2>3, <3>1
    <3> QED BY <1>1, <1>4, <2>1, <2>3, <3>1, <3>2 DEF ConnInv
  <2> QED BY <1>2, <2>2, <2>3
<1> QED BY <1>3, <1>5, <1>6 DEF CleanInv

(* A step that only touches c, and only as ConnInv allows.                  *)
LEMMA OneConn ==
  ASSUME CleanInv, Inv', NEW c \in Conns, LocksNeedServer', ConnInv(c)',
         \A d \in Conns \ {c} :
           /\ (d \in alive') <=> (d \in alive)
           /\ mem'[d] = mem[d] /\ peer'[d] = peer[d]
           /\ wire'[d] = wire[d] /\ resp'[d] = resp[d]
           /\ NoLock(d) => NoLock(d)',
         job' = job \/ (job.conn \in {c, NULL} /\ job'.conn \in {c, NULL})
  PROVE  CleanInv'
<1>1. ASSUME NEW d \in Conns \ {c}
      PROVE  ConnInv(d)'
  <2>1. job' = job \/ (d # job.conn /\ d # job'.conn)
    BY NullAssumption
  <2> QED BY <2>1, Frame DEF CleanInv
<1> QED BY <1>1 DEF CleanInv

(* __construct up to its first wait.                                        *)
LEMMA ConstructClean ==
  ASSUME CleanInv, Construct
  PROVE  CleanInv'
<1>1. Inv'
  BY ConstructInv DEF CleanInv
<1>2. ASSUME NEW cl \in Clients, NEW id, MayConstruct(cl, id)
      PROVE  job.at = "idle" /\ job.conn = NULL /\ job = Idle
  BY <1>2 DEF MayConstruct, Idle
<1>3. ASSUME NEW cl \in Clients, NEW id \in Ids \cup {NULL},
             ConstructNotFound(cl, id)
      PROVE  CleanInv'
  <2>1. job.conn = NULL /\ job'.conn = NULL
    BY <1>2, <1>3 DEF ConstructNotFound, Idle
  <2>2. UNCHANGED <<alive, mem, peer, wire, resp, holder>>
    BY <1>3 DEF ConstructNotFound
  <2>3. LocksNeedServer' /\ \A c : NoLock(c)' = NoLock(c)
    BY <2>2 DEF CleanInv, LocksNeedServer, NoLock
  <2>4. \A c \in Conns : ConnInv(c)'
    BY <2>1, <2>2, <2>3, Frame, NullAssumption DEF CleanInv
  <2> QED BY <1>1, <2>3, <2>4 DEF CleanInv
<1>4. ASSUME NEW id \in Ids, Entry(id) # NULL
      PROVE  /\ persistent_list[id] \in alive /\ persistent_list[id] \in Conns
             /\ mem[persistent_list[id]].pkey = id /\ id # NULL
  BY <1>4, NullAssumption DEF CleanInv, Inv, TypeOK, PoolSound, Entry
<1>5. ASSUME NEW cl \in Clients, NEW id \in Ids, ConstructReuse(cl, id)
      PROVE  CleanInv'
  <2>1. PICK c \in Conns : c = persistent_list[id] /\ c \in alive
    BY <1>4, <1>5 DEF ConstructReuse
  <2>2. job.conn = NULL /\ job' = job /\ job.at = "idle"
    BY <1>2, <1>5 DEF ConstructReuse
  <2>3. UNCHANGED <<alive, peer, wire, resp, holder>>
    BY <1>5 DEF ConstructReuse
  <2>4. /\ \A d \in Conns \ {c} : mem'[d] = mem[d]
        /\ mem'[c].refs = mem[c].refs + 1 /\ mem'[c].serial = mem[c].serial
    BY <1>5, <2>1 DEF ConstructReuse, CleanInv, Inv, TypeOK, Mem
  <2>5. LocksNeedServer' /\ \A d : NoLock(d)' = NoLock(d)
    BY <2>3 DEF CleanInv, LocksNeedServer, NoLock
  <2>6. mem'[c].refs # 0
    BY <2>1, <2>4, ConnTypes
  <2>7. ConnInv(c)'
    BY <2>1, <2>2, <2>3, <2>4, <2>5, <2>6 DEF ConnInv, CleanInv, Draining
  <2> QED BY <1>1, <2>1, <2>2, <2>3, <2>4, <2>5, <2>7, OneConn
<1>6. ASSUME NEW c \in Conns
      PROVE  LET m == NextSerial([mem EXCEPT ![c].timeout = "check"], c) IN
             /\ m \in [Conns -> Mem]
             /\ m[c].serial = mem[c].serial + 1
             /\ m[c].pkey = mem[c].pkey
             /\ \A d \in Conns \ {c} : m[d] = mem[d]
  <2>1. NextSerial([mem EXCEPT ![c].timeout = "check"], c) \in [Conns -> Mem]
    BY MemTypes DEF CleanInv, Inv
  <2> QED BY <2>1 DEF NextSerial, CleanInv, Inv, TypeOK, Mem
<1>7. ASSUME NEW cl \in Clients, NEW id \in Ids, ConstructCheck(cl, id)
      PROVE  CleanInv'
  <2>1. PICK c \in Conns : c = persistent_list[id] /\ c \in alive
    BY <1>4, <1>7 DEF ConstructCheck
  <2> DEFINE m  == NextSerial([mem EXCEPT ![c].timeout = "check"], c)
             by == IF conn[cl] = c THEN cl ELSE NULL
  <2>2. /\ mem' = m /\ Written(c, "noop", NULL, m[c].serial, by)
        /\ job'.at = "check" /\ job'.conn = c /\ job'.serial = m[c].serial
        /\ UNCHANGED <<alive, peer, resp, holder>>
    BY <1>7, <2>1 DEF ConstructCheck
  <2>3. job.conn = NULL
    BY <1>2, <1>7 DEF ConstructCheck
  <2>4. /\ m[c].serial = mem[c].serial + 1
        /\ \A d \in Conns \ {c} : m[d] = mem[d]
    BY <1>6, <2>1
  <2>5. "noop" \in Ops /\ by \in Clients \cup {NULL}
    BY DEF Ops
  <2> HIDE DEF m, by
  <2>6. /\ Ordered(wire'[c], resp[c], m[c].serial)
        /\ \A d \in Conns \ {c} : wire'[d] = wire[d]
        /\ peer[c] = "gone" => wire'[c] = <<>>
    BY <2>1, <2>2, <2>4, <2>5, SendOrder
  <2>7. LocksNeedServer' /\ \A d : NoLock(d)' = NoLock(d)
    BY <2>2 DEF CleanInv, LocksNeedServer, NoLock
  <2>8. ConnInv(c)'
    BY <2>1, <2>2, <2>6, <2>7 DEF ConnInv, CleanInv
  <2> QED BY <1>1, <2>1, <2>2, <2>3, <2>4, <2>6, <2>7, <2>8, OneConn
<1>8. ASSUME NEW cl \in Clients, NEW id \in Ids, ConstructCheckUnsent(cl, id)
      PROVE  CleanInv'
  <2> DEFINE c  == persistent_list[id]
             m  == NextSerial([mem EXCEPT ![c].timeout = "check"], c)
             by == IF conn[cl] = c THEN cl ELSE NULL
  <2>1. c \in alive /\ c \in Conns /\ mem[c].pkey # NULL
    BY <1>4, <1>8 DEF ConstructCheckUnsent
  <2>2. /\ SendFails(c, "check", m[c].serial, by) /\ BrokenConnection(c, m)
        /\ holder' = holder /\ job'.conn = NULL
    BY <1>8 DEF ConstructCheckUnsent, AfterBrokenCheck, Idle
  <2>3. job.conn = NULL
    BY <1>2, <1>8 DEF ConstructCheckUnsent
  <2>4. /\ m \in [Conns -> Mem]
        /\ m[c].serial = mem[c].serial + 1 /\ m[c].pkey = mem[c].pkey
        /\ \A d \in Conns \ {c} : m[d] = mem[d]
    BY <1>6, <2>1
  <2>5. "torn" \in Ops /\ by \in Clients \cup {NULL}
    BY DEF Ops
  <2> HIDE DEF c, m, by
  <2>6. UNCHANGED wire \/ Written(c, "torn", NULL, m[c].serial, by)
    BY <2>2 DEF SendFails
  <2>7. /\ Ordered(wire'[c], resp[c], m[c].serial)
        /\ \A d \in Conns \ {c} : wire'[d] = wire[d]
        /\ peer[c] = "gone" => wire'[c] = <<>>
    BY <2>1, <2>4, <2>5, <2>6, SendOrder
  <2> QED BY <1>1, <2>1, <2>2, <2>3, <2>4, <2>7, BrokenStep
<1> QED BY <1>3, <1>5, <1>7, <1>8 DEF Construct

(* The response at the head is read.                                        *)
LEMMA RecvStep ==
  ASSUME CleanInv, NEW c \in alive, CanRecv(c),
         resp' = [resp EXCEPT ![c] = Tail(@)], UNCHANGED wire
  PROVE  /\ c \in Conns /\ ConnInv(c)
         /\ Ordered(wire'[c], resp'[c], mem[c].serial)
         /\ \A d \in Conns \ {c} : resp'[d] = resp[d]
         /\ Head(resp[c]).serial = mem[c].serial
              => wire'[c] = <<>> /\ resp'[c] = <<>>
         /\ resp'[c] = Tail(resp[c]) /\ resp[c] # <<>>
<1>1. /\ c \in Conns /\ ConnInv(c)
      /\ wire[c] \in Seq(Request) /\ resp[c] \in Seq(Response)
      /\ mem[c].serial \in Nat
  BY ConnTypes DEF CleanInv, Inv, TypeOK
<1>2. /\ resp'[c] = Tail(resp[c]) /\ resp[c] # <<>>
      /\ \A d \in Conns \ {c} : resp'[d] = resp[d]
  BY <1>1 DEF CanRecv, CleanInv, Inv, TypeOK
<1>3. Ordered(wire[c], resp[c], mem[c].serial)
  BY <1>1 DEF ConnInv
<1>4. /\ Ordered(wire[c], Tail(resp[c]), mem[c].serial)
      /\ Head(resp[c]).serial = mem[c].serial
           => wire[c] = <<>> /\ Tail(resp[c]) = <<>>
  BY <1>1, <1>2, <1>3, OrderedRecv
<1> QED BY <1>1, <1>2, <1>4

(* __construct after it.                                                    *)
LEMMA ResumeClean ==
  ASSUME CleanInv, Resume
  PROVE  CleanInv'
<1>1. Inv'
  BY ResumeInv DEF CleanInv
<1>2. ASSUME UNCHANGED holder
      PROVE  LocksNeedServer' /\ \A d : NoLock(d)' = NoLock(d)
  BY <1>2 DEF CleanInv, LocksNeedServer, NoLock
<1>3. ASSUME Draining
      PROVE  \E c \in alive : /\ c = job.conn /\ c \in Conns /\ ConnInv(c)
                              /\ mem[c].pkey # NULL /\ mem[c].refs \in Nat
                              /\ job.serial = mem[c].serial
  <2>1. job.conn \in alive /\ job.conn \in Conns /\ mem[job.conn].pkey # NULL
    BY <1>3, DrainedConn, NullAssumption DEF CleanInv
  <2>2. ConnInv(job.conn) /\ mem[job.conn].refs \in Nat
    BY <2>1, ConnTypes
  <2> QED BY <1>3, <2>1, <2>2 DEF ConnInv
<1>4. CASE DrainSkip
  <2>1. PICK c \in alive : /\ c = job.conn /\ c \in Conns /\ ConnInv(c)
                           /\ mem[c].pkey # NULL
    BY <1>3, <1>4 DEF DrainSkip
  <2>2. /\ CanRecv(c) /\ resp' = [resp EXCEPT ![c] = Tail(@)]
        /\ UNCHANGED <<alive, mem, peer, wire, holder, job>>
    BY <1>4, <2>1 DEF DrainSkip
  <2>3. /\ Ordered(wire'[c], resp'[c], mem[c].serial)
        /\ \A d \in Conns \ {c} : resp'[d] = resp[d]
        /\ resp'[c] = Tail(resp[c]) /\ resp[c] # <<>>
    BY <2>2, RecvStep
  <2>4. Finalising(c) => Finalising(c)'
    <3>1. resp[c] \in Seq(Response)
      BY <2>1, ConnTypes
    <3>2. \A i \in 1..Len(resp'[c]) :
            resp'[c][i] = resp[c][i + 1] /\ i + 1 \in 1..Len(resp[c])
      BY <2>3, <3>1
    <3> QED BY <1>2, <2>2, <3>2 DEF Finalising
  <2>5. ConnInv(c)'
    BY <1>2, <2>1, <2>2, <2>3, <2>4 DEF ConnInv, Draining
  <2>6. \A d \in Conns \ {c} :
          /\ (d \in alive') <=> (d \in alive)
          /\ mem'[d] = mem[d] /\ peer'[d] = peer[d]
          /\ wire'[d] = wire[d] /\ resp'[d] = resp[d]
          /\ NoLock(d) => NoLock(d)'
    BY <1>2, <2>2, <2>3
  <2> QED BY <1>1, <1>2, <2>1, <2>2, <2>5, <2>6, OneConn
<1>5. CASE CheckPasses
  <2>1. PICK c \in alive : /\ c = job.conn /\ c \in Conns /\ ConnInv(c)
                           /\ mem[c].refs \in Nat
    BY <1>3, <1>5 DEF CheckPasses, Awaited
  <2>2. /\ CanRecv(c) /\ resp' = [resp EXCEPT ![c] = Tail(@)]
        /\ UNCHANGED <<alive, peer, wire, holder>> /\ job' = Idle
        /\ mem' = [mem EXCEPT ![c].timeout = "default", ![c].refs = @ + 1]
    BY <1>5, <2>1 DEF CheckPasses, Awaited
  <2>3. /\ \A d \in Conns \ {c} : mem'[d] = mem[d]
        /\ mem'[c].refs = mem[c].refs + 1 /\ mem'[c].serial = mem[c].serial
    <3>1. mem[c] \in Mem
      BY <2>1 DEF CleanInv, Inv, TypeOK
    <3>2. mem' = [mem EXCEPT ![c] = [mem[c] EXCEPT !.timeout = "default",
                                                  !.refs = @ + 1]]
      BY <2>2
    <3>3. \A d \in Conns : mem'[d] =
            IF d = c THEN [mem[c] EXCEPT !.timeout = "default", !.refs = @ + 1]
            ELSE mem[d]
      BY <2>1, <3>2 DEF CleanInv, Inv, TypeOK
    <3> QED BY <2>1, <3>1, <3>3 DEF Mem
  <2>4. /\ Ordered(wire'[c], resp'[c], mem'[c].serial)
        /\ \A d \in Conns \ {c} : resp'[d] = resp[d]
    BY <2>2, <2>3, RecvStep
  <2>5. mem'[c].refs # 0 /\ job'.at = "idle" /\ job'.conn = NULL
    BY <2>1, <2>2, <2>3 DEF Idle
  <2>6. ConnInv(c)'
    BY <1>2, <2>1, <2>2, <2>4, <2>5 DEF ConnInv, Draining
  <2> QED BY <1>1, <1>2, <2>1, <2>2, <2>3, <2>4, <2>5, <2>6, OneConn
<1>6. ASSUME Draining, NEW c \in alive, c = job.conn, c \in Conns, ConnInv(c),
             mem[c].pkey # NULL, BrokenConnection(c, MarkInvalid(c)),
             UNCHANGED <<wire, holder>>, job'.conn = NULL
      PROVE  CleanInv'
  <2> DEFINE m == MarkInvalid(c)
  <2>1. /\ m \in [Conns -> Mem] /\ m[c].pkey = mem[c].pkey
    BY <1>6, MarkedSame DEF CleanInv
  <2>2. /\ \A d \in Conns \ {c} : m[d] = mem[d]
        /\ m[c].serial = mem[c].serial
    BY <1>6 DEF MarkInvalid, CleanInv, Inv, TypeOK, Mem
  <2> HIDE DEF m
  <2>3. /\ Ordered(wire'[c], resp[c], m[c].serial)
        /\ \A d \in Conns \ {c} : wire'[d] = wire[d]
        /\ peer[c] = "gone" => wire'[c] = <<>>
    BY <1>6, <2>2 DEF ConnInv
  <2>4. BrokenConnection(c, m)
    BY <1>6 DEF m
  <2> QED BY <1>1, <1>6, <2>1, <2>2, <2>3, <2>4, BrokenStep
<1>7. CASE CheckBreaks
  <2>1. PICK c \in alive : /\ c = job.conn /\ c \in Conns /\ ConnInv(c)
                           /\ mem[c].pkey # NULL
    BY <1>3, <1>7 DEF CheckBreaks, Draining
  <2>2. /\ BrokenConnection(c, MarkInvalid(c)) /\ UNCHANGED <<wire, holder>>
        /\ job'.conn = NULL /\ Draining
    BY <1>7, <2>1 DEF CheckBreaks, AfterBrokenCheck, Idle, Draining
  <2> QED BY <1>6, <2>1, <2>2
<1>8. CASE DestructBreaks
  <2>1. PICK c \in alive : /\ c = job.conn /\ c \in Conns /\ ConnInv(c)
                           /\ mem[c].pkey # NULL
    BY <1>3, <1>8 DEF DestructBreaks, Draining
  <2>2. /\ BrokenConnection(c, MarkInvalid(c)) /\ UNCHANGED <<wire, holder>>
        /\ job'.conn = NULL /\ Draining
    BY <1>8, <2>1 DEF DestructBreaks, Idle, Draining
  <2> QED BY <1>6, <2>1, <2>2
<1>9. CASE DestructDone
  <2>1. PICK c \in alive : /\ c = job.conn /\ c \in Conns /\ ConnInv(c)
                           /\ job.serial = mem[c].serial
    BY <1>3, <1>9 DEF DestructDone, Awaited
  <2>2. /\ CanRecv(c) /\ resp' = [resp EXCEPT ![c] = Tail(@)]
        /\ UNCHANGED <<alive, mem, peer, wire, holder>> /\ job' = Idle
        /\ Head(resp[c]).serial = job.serial
        /\ Head(resp[c]).status \in {"ok", "unknown"}
        /\ job.at = "destruct"
    BY <1>9, <2>1 DEF DestructDone, Awaited
  <2>3. /\ Ordered(wire'[c], resp'[c], mem[c].serial)
        /\ \A d \in Conns \ {c} : resp'[d] = resp[d]
        /\ wire'[c] = <<>> /\ resp'[c] = <<>>
    BY <2>1, <2>2, RecvStep
  <2>4. NoLock(c) /\ mem[c].timeout = "default" /\ ~mem[c].invalid
    <3>1. Finalising(c)
      BY <2>1, <2>2 DEF ConnInv
    <3>2. resp[c] \in Seq(Response) /\ resp[c] # <<>>
      BY <2>1, <2>2, ConnTypes DEF CanRecv
    <3>3. Head(resp[c]) = resp[c][1] /\ 1 \in 1..Len(resp[c])
      BY <3>2
    <3> QED BY <2>2, <3>1, <3>3 DEF Finalising, CanRecv
  <2>5. Clean(c)'
    BY <2>2, <2>3, <2>4 DEF Clean, NoLock
  <2>6. job'.at = "idle" /\ job'.conn = NULL
    BY <2>2 DEF Idle
  <2>7. ConnInv(c)'
    BY <1>2, <2>1, <2>2, <2>3, <2>5, <2>6 DEF ConnInv, Draining
  <2> QED BY <1>1, <1>2, <2>1, <2>2, <2>3, <2>6, <2>7, OneConn
<1>10. CASE ConnectFailed
  <2>1. /\ job.conn = NULL /\ job'.conn = NULL
        /\ UNCHANGED <<alive, mem, peer, wire, resp, holder>>
    BY <1>10 DEF ConnectFailed, Idle, CleanInv, Inv, JobSound
  <2>2. \A c \in Conns : ConnInv(c)'
    BY <1>2, <2>1, Frame, NullAssumption DEF CleanInv
  <2> QED BY <1>1, <1>2, <2>1, <2>2 DEF CleanInv
<1>11. ASSUME NEW c \in Conns, Connected(c)
       PROVE  CleanInv'
  <2>1. /\ job.conn = NULL /\ job'.conn = NULL /\ job'.at = "idle"
        /\ UNCHANGED <<wire, resp, holder>>
        /\ c \notin alive /\ peer[c] = "none"
    BY <1>11 DEF Connected, Idle, CleanInv, Inv, JobSound
  <2>2. /\ c \in alive' /\ peer'[c] = "open"
        /\ mem'[c].refs = 1 /\ mem'[c].serial = 0
        /\ \A d \in Conns \ {c} : /\ (d \in alive') <=> (d \in alive)
                                  /\ mem'[d] = mem[d] /\ peer'[d] = peer[d]
    BY <1>11 DEF Connected, NewMem, CleanInv, Inv, TypeOK
  <2>3. wire'[c] = <<>> /\ resp'[c] = <<>>
    BY <2>1, ConnTypes DEF ConnInv
  <2>4. Ordered(<<>>, <<>>, 0)
    BY DEF Ordered
  <2>5. ConnInv(c)'
    BY <2>1, <2>2, <2>3, <2>4 DEF ConnInv, Draining
  <2> QED BY <1>1, <1>2, <2>1, <2>2, <2>5, OneConn
<1> QED BY <1>4, <1>5, <1>7, <1>8, <1>9, <1>10, <1>11 DEF Resume

(* The finalisation of an object.                                           *)
LEMMA DestructClean ==
  ASSUME CleanInv, NEW cl \in Clients, Destruct(cl)
  PROVE  CleanInv'
<1>1. Inv'
  BY DestructInv DEF CleanInv
<1>2. /\ job = Idle /\ conn[cl] # NULL /\ UNCHANGED holder
      /\ job.at = "idle" /\ job.conn = NULL
  BY DEF Destruct, DestructPlain, DestructPersistent, DestructUnsent, Idle
<1>3. LocksNeedServer' /\ \A d : NoLock(d)' = NoLock(d)
  BY <1>2 DEF CleanInv, LocksNeedServer, NoLock
<1>4. PICK c \in alive : /\ c = conn[cl] /\ c \in Conns /\ ConnInv(c)
                         /\ mem[c].refs \in Nat \ {0} /\ mem[c].serial \in Nat
  BY <1>2, AttachedCounted, ConnTypes DEF CleanInv
<1> DEFINE m == Detached(c)
<1>5. /\ m \in [Conns -> Mem] /\ m[c].pkey = mem[c].pkey
  BY <1>4, DetachedSame DEF CleanInv
<1>6. /\ m[c].serial = mem[c].serial + 1 /\ m[c].timeout = "default"
      /\ \A d \in Conns \ {c} : m[d] = mem[d]
  <2>1. mem[c] \in Mem
    BY <1>4 DEF CleanInv, Inv, TypeOK
  <2>2. \A d \in Conns : m[d] =
          IF d = c THEN [mem[c] EXCEPT !.refs = @ - 1, !.timeout = "default",
                                       !.serial = @ + 1]
          ELSE mem[d]
    BY <1>4 DEF Detached, NextSerial, CleanInv, Inv, TypeOK
  <2> QED BY <1>4, <2>1, <2>2 DEF Mem
<1> HIDE DEF m
<1>7. CASE DestructPlain(cl)
  <2>1. /\ FreeConn(c, mem) /\ UNCHANGED <<wire, job>>
    BY <1>4, <1>7 DEF DestructPlain
  <2>2. /\ c \notin alive' /\ resp'[c] = <<>>
        /\ peer'[c] = IF peer[c] = "open" THEN "eof" ELSE "none"
        /\ \A d \in Conns \ {c} :
             /\ (d \in alive') <=> (d \in alive)
             /\ mem'[d] = mem[d] /\ peer'[d] = peer[d] /\ resp'[d] = resp[d]
    BY <1>4, <2>1 DEF FreeConn, CleanInv, Inv, TypeOK
  <2>3. peer[c] \in {"open", "gone"}
        /\ (peer[c] = "gone" => wire[c] = <<>> /\ NoLock(c))
    BY <1>4 DEF ConnInv
  <2>4. ConnInv(c)'
    BY <1>2, <1>3, <1>4, <2>1, <2>2, <2>3 DEF ConnInv, Draining
  <2> QED BY <1>1, <1>3, <1>4, <2>1, <2>2, <2>4, OneConn
<1>8. CASE DestructPersistent(cl)
  <2>1. /\ Written(c, "unlockall", NULL, m[c].serial, NULL)
        /\ mem' = m /\ UNCHANGED <<alive, peer, resp>>
        /\ job'.at = "destruct" /\ job'.conn = c /\ job'.serial = m[c].serial
    BY <1>4, <1>8 DEF DestructPersistent, m
  <2>2. "unlockall" \in Ops
    BY DEF Ops
  <2>3. /\ Ordered(wire'[c], resp[c], m[c].serial)
        /\ \A d \in Conns \ {c} : wire'[d] = wire[d]
        /\ peer[c] = "gone" => wire'[c] = <<>>
    BY <1>4, <1>6, <2>1, <2>2, SendOrder
  <2>4. /\ \A i \in 1..Len(wire[c]) : wire[c][i].serial # m[c].serial
        /\ \A i \in 1..Len(resp[c]) : resp[c][i].serial # m[c].serial
        /\ wire[c] \in Seq(Request)
    <3>1. wire[c] \in Seq(Request) /\ resp[c] \in Seq(Response)
      BY <1>4, ConnTypes
    <3>2. /\ \A i \in 1..Len(wire[c]) : wire[c][i].serial <= mem[c].serial
          /\ \A i \in 1..Len(resp[c]) : resp[c][i].serial <= mem[c].serial
      BY <1>4 DEF ConnInv, Ordered
    <3> QED BY <1>4, <1>6, <3>1, <3>2, Serials
  <2>5. \A i \in 1..Len(wire'[c]) :
          wire'[c][i].serial = m[c].serial => wire'[c][i].op = "unlockall"
    <3> DEFINE q == [op |-> "unlockall", key |-> NULL,
                     serial |-> m[c].serial, by |-> NULL]
    <3>1. CASE wire'[c] = wire[c]
      BY <2>4, <3>1
    <3>2. CASE wire'[c] = Append(wire[c], q)
      <4>1. q.op = "unlockall"
        OBVIOUS
      <4> HIDE DEF q
      <4>2. \A i \in 1..Len(wire'[c]) : \/ i \in 1..Len(wire[c])
                                           /\ wire'[c][i] = wire[c][i]
                                        \/ wire'[c][i] = q
        BY <2>4, <3>2
      <4> QED BY <2>4, <4>1, <4>2
    <3>3. wire'[c] = wire[c] \/ wire'[c] = Append(wire[c], q)
      <4>1. wire \in [Conns -> Seq(Request)]
        BY DEF CleanInv, Inv, TypeOK
      <4>2. wire' = wire \/ wire' = [wire EXCEPT ![c] = Append(@, q)]
        BY <2>1 DEF Written
      <4> HIDE DEF q
      <4> QED BY <1>4, <4>1, <4>2
    <3> QED BY <3>1, <3>2, <3>3
  <2>6. Finalising(c)'
    BY <1>6, <2>1, <2>4, <2>5 DEF Finalising
  <2>7. ConnInv(c)'
    BY <1>3, <1>4, <2>1, <2>3, <2>6 DEF ConnInv, Draining
  <2> QED BY <1>1, <1>2, <1>3, <1>4, <1>6, <2>1, <2>3, <2>7, OneConn
<1>9. CASE DestructUnsent(cl)
  <2>1. /\ SendFails(c, "default", m[c].serial, NULL) /\ BrokenConnection(c, m)
        /\ mem[c].pkey # NULL /\ job'.conn = NULL
    BY <1>2, <1>4, <1>9 DEF DestructUnsent, m
  <2>2. UNCHANGED wire \/ Written(c, "torn", NULL, m[c].serial, NULL)
    BY <2>1 DEF SendFails
  <2>3. "torn" \in Ops
    BY DEF Ops
  <2>4. /\ Ordered(wire'[c], resp[c], m[c].serial)
        /\ \A d \in Conns \ {c} : wire'[d] = wire[d]
        /\ peer[c] = "gone" => wire'[c] = <<>>
    BY <1>4, <1>6, <2>2, <2>3, SendOrder
  <2> QED BY <1>1, <1>2, <1>4, <1>5, <1>6, <2>1, <2>4, BrokenStep
<1> QED BY <1>7, <1>8, <1>9 DEF Destruct

(* A method of an object.                                                   *)
LEMMA MethodClean ==
  ASSUME CleanInv, NEW cl \in Clients, Method(cl)
  PROVE  CleanInv'
<1>1. Inv'
  BY MethodInv DEF CleanInv
<1>2. /\ job = Idle /\ conn[cl] # NULL
      /\ UNCHANGED <<alive, peer, holder, job>>
      /\ job.at = "idle" /\ job.conn = NULL
  BY DEF Method, Command, CommandFails, Recv, RecvGarbled, SetTimeout, Using, Idle
<1>3. LocksNeedServer' /\ \A d : NoLock(d)' = NoLock(d)
  BY <1>2 DEF CleanInv, LocksNeedServer, NoLock
<1>4. PICK c \in alive : /\ c = conn[cl] /\ c \in Conns /\ ConnInv(c)
                         /\ mem[c].refs \in Nat \ {0} /\ mem[c].serial \in Nat
  BY <1>2, AttachedCounted, ConnTypes DEF CleanInv
<1>5. ASSUME \A d \in Conns \ {c} :
               mem'[d] = mem[d] /\ wire'[d] = wire[d] /\ resp'[d] = resp[d],
             mem'[c].refs = mem[c].refs,
             Ordered(wire'[c], resp'[c], mem'[c].serial),
             peer[c] = "gone" => wire'[c] = <<>>
      PROVE  CleanInv'
  <2>1. ConnInv(c)'
    BY <1>2, <1>3, <1>4, <1>5 DEF ConnInv, Draining
  <2> QED BY <1>1, <1>2, <1>3, <1>4, <1>5, <2>1, OneConn
<1>6. ASSUME NEW op \in Ops, NEW key \in Keys \cup {NULL}, resp' = resp,
             mem' = NextSerial(mem, c),
             UNCHANGED wire \/ Written(c, op, key, mem[c].serial + 1, cl)
      PROVE  CleanInv'
  <2>1. /\ mem'[c].serial = mem[c].serial + 1 /\ mem'[c].refs = mem[c].refs
        /\ \A d \in Conns \ {c} : mem'[d] = mem[d]
    BY <1>4, <1>6 DEF NextSerial, CleanInv, Inv, TypeOK, Mem
  <2>2. /\ Ordered(wire'[c], resp[c], mem[c].serial + 1)
        /\ \A d \in Conns \ {c} : wire'[d] = wire[d]
        /\ peer[c] = "gone" => wire'[c] = <<>>
    <3>1. PICK n : n = mem[c].serial + 1
      OBVIOUS
    <3>2. UNCHANGED wire \/ Written(c, op, key, n, cl)
      BY <1>6, <3>1
    <3> QED BY <1>4, <3>1, <3>2, SendOrder
  <2> QED BY <1>5, <1>6, <2>1, <2>2
<1>7. ASSUME NEW op \in {"lock", "unlock", "get"}, NEW key \in Keys \cup {NULL},
             Command(cl, op, key)
      PROVE  CleanInv'
  <2>1. op \in Ops
    BY DEF Ops
  <2>2. resp' = resp /\ mem' = NextSerial(mem, c)
        /\ Written(c, op, key, mem[c].serial + 1, cl)
    BY <1>4, <1>7 DEF Command
  <2> QED BY <1>6, <2>1, <2>2
<1>8. CASE CommandFails(cl)
  <2>1. resp' = resp /\ mem' = NextSerial(mem, c)
    BY <1>4, <1>8 DEF CommandFails
  <2>2. UNCHANGED wire \/ Written(c, "torn", NULL, mem[c].serial + 1, cl)
    BY <1>4, <1>8 DEF CommandFails, SendFails
  <2>3. "torn" \in Ops
    BY DEF Ops
  <2> QED BY <1>6, <2>1, <2>2, <2>3
<1>9. CASE Recv(cl)
  <2>1. /\ CanRecv(c) /\ resp' = [resp EXCEPT ![c] = Tail(@)]
        /\ UNCHANGED <<mem, wire>>
    BY <1>4, <1>9 DEF Recv
  <2>2. /\ Ordered(wire'[c], resp'[c], mem[c].serial)
        /\ \A d \in Conns \ {c} : resp'[d] = resp[d]
    BY <2>1, RecvStep
  <2>3. peer[c] = "gone" => wire'[c] = <<>>
    BY <1>4, <2>1 DEF ConnInv
  <2> QED BY <1>5, <2>1, <2>2, <2>3
<1>10. ASSUME RecvGarbled(cl) \/ SetTimeout(cl)
       PROVE  CleanInv'
  <2>1. UNCHANGED <<wire, resp>>
        /\ (mem' = MarkInvalid(c) \/ mem' = [mem EXCEPT ![c].timeout = "user"])
    BY <1>4, <1>10 DEF RecvGarbled, SetTimeout
  <2>2. /\ mem'[c].serial = mem[c].serial /\ mem'[c].refs = mem[c].refs
        /\ \A d \in Conns \ {c} : mem'[d] = mem[d]
    BY <1>4, <2>1 DEF MarkInvalid, CleanInv, Inv, TypeOK, Mem
  <2>3. /\ Ordered(wire[c], resp[c], mem[c].serial)
        /\ peer[c] = "gone" => wire[c] = <<>>
    BY <1>4 DEF ConnInv
  <2> QED BY <1>5, <2>1, <2>2, <2>3
<1> QED BY <1>7, <1>8, <1>9, <1>10 DEF Method

(* The end of the process.                                                  *)
LEMMA ProcessEndsClean ==
  ASSUME CleanInv, ProcessEnds
  PROVE  CleanInv'
<1>1. Inv'
  BY ProcessEndsInv DEF CleanInv
<1>2. /\ job = Idle /\ UNCHANGED <<wire, holder, job>>
      /\ alive' = {} /\ \A c \in Conns : resp'[c] = <<>>
  BY DEF ProcessEnds
<1>3. LocksNeedServer' /\ \A d : NoLock(d)' = NoLock(d)
  BY <1>2 DEF CleanInv, LocksNeedServer, NoLock
<1>4. ASSUME NEW c \in Conns
      PROVE  ConnInv(c)'
  <2>1. ConnInv(c) /\ c # NULL /\ job.conn = NULL /\ job.at = "idle"
    BY <1>2, ConnTypes DEF Idle
  <2>2. peer'[c] = CASE c \notin alive   -> peer[c]
                     [] peer[c] = "open" -> "eof"
                     [] OTHER            -> "none"
    BY DEF ProcessEnds
  <2>3. CASE c \notin alive
    BY <1>2, <1>3, <2>1, <2>2, <2>3 DEF ConnInv, Draining
  <2>4. CASE c \in alive
    <3>1. \/ peer[c] = "open" /\ peer'[c] = "eof"
          \/ peer[c] = "gone" /\ peer'[c] = "none"
      BY <2>1, <2>2, <2>4 DEF ConnInv
    <3> QED BY <1>2, <1>3, <2>1, <2>4, <3>1 DEF ConnInv, Draining
  <2> QED BY <2>3, <2>4
<1> QED BY <1>1, <1>3, <1>4 DEF CleanInv

-----------------------------------------------------------------------------
(* The server.  Only the answer to the destructor's own unlockall bears on  *)
(* Finalising, and when it is given every earlier answer is already out.    *)
LEMMA ReplyStep ==
  ASSUME CleanInv, Inv', NEW c \in Conns, NEW op, NEW n \in {1, 2},
         NEW status \in Status, Serving(c, op), n <= Len(wire[c]),
         Reply(c, n, status), UNCHANGED <<alive, mem, peer, job>>,
         LocksNeedServer',
         \A d \in Conns \ {c} : NoLock(d) => NoLock(d)',
         op = "unlockall" /\ status \in {"ok", "unknown"} => NoLock(c)'
  PROVE  CleanInv'
<1>1. /\ wire[c] \in Seq(Request) /\ resp[c] \in Seq(Response)
      /\ mem[c].serial \in Nat /\ ConnInv(c)
  BY ConnTypes
<1> DEFINE s == [serial |-> Head(wire[c]).serial, status |-> status,
                 by |-> Head(wire[c]).by]
           v == SubSeq(wire[c], n + 1, Len(wire[c]))
<1>2. /\ wire[c] # <<>> /\ Head(wire[c]) = wire[c][1] /\ wire[c][1].op = op
      /\ 1 \in 1..Len(wire[c]) /\ peer[c] \in {"open", "eof"}
      /\ wire[c][1].serial \in Nat
  <2>1. wire[c] # <<>> /\ Head(wire[c]).op = op /\ peer[c] \in {"open", "eof"}
    BY DEF Serving
  <2>2. Head(wire[c]) = wire[c][1] /\ 1 \in 1..Len(wire[c])
    BY <1>1, <2>1
  <2> QED BY <1>1, <2>1, <2>2, Serials
<1>3. s \in Response /\ s.serial = wire[c][1].serial /\ s.status = status
  <2>1. wire[c][1] \in Request
    BY <1>1, <1>2
  <2> QED BY <1>2, <2>1 DEF Request, Response
<1>4. /\ wire'[c] = v
      /\ IF peer[c] = "open" THEN resp'[c] = Append(resp[c], s)
                             ELSE resp'[c] = resp[c]
      /\ \A d \in Conns \ {c} : wire'[d] = wire[d] /\ resp'[d] = resp[d]
  <2>1. /\ wire' = [wire EXCEPT ![c] = v]
        /\ resp' = IF peer[c] = "open"
                   THEN [resp EXCEPT ![c] = Append(@, s)] ELSE resp
    BY DEF Reply
  <2> HIDE DEF v, s
  <2> QED BY <2>1 DEF CleanInv, Inv, TypeOK
<1>5. \A i \in 1..Len(v) : v[i] = wire[c][i + n] /\ i + n \in 1..Len(wire[c])
  <2>1. n + 1 \in 1..Len(wire[c]) + 1 /\ Len(wire[c]) \in Nat
    BY <1>1
  <2>2. Len(v) = Len(wire[c]) - n
    BY <1>1, <2>1
  <2>3. \A i \in 1..Len(v) : v[i] = wire[c][i + n]
    BY <1>1, <2>1, <2>2
  <2> QED BY <2>1, <2>2, <2>3
<1>6. /\ Ordered(wire[c], resp[c], mem[c].serial) =>
           Ordered(v, Append(resp[c], s), mem[c].serial)
  BY <1>1, <1>2, <1>3, OrderedReply
<1> HIDE DEF v, s
<1>7. ASSUME c \in alive
      PROVE  Ordered(wire'[c], resp'[c], mem[c].serial)
             /\ resp'[c] = Append(resp[c], s)
  BY <1>1, <1>2, <1>4, <1>6, <1>7 DEF ConnInv
<1>8. ASSUME job.at = "destruct", c = job.conn
      PROVE  Finalising(c)'
  <2>1. /\ c \in alive /\ job.serial = mem[c].serial
        /\ Finalising(c) /\ Ordered(wire[c], resp[c], mem[c].serial)
    BY <1>1, <1>8, DrainedConn DEF ConnInv, CleanInv, Draining
  <2>2. resp'[c] = Append(resp[c], s)
    BY <1>7, <2>1
  <2>3. \A i \in 1..Len(resp[c]) : resp[c][i].serial # job.serial
    <3>1. \A i \in 1..Len(resp[c]) : resp[c][i].serial \in Nat
      BY <1>1, Serials
    <3>2. \A i \in 1..Len(resp[c]) : resp[c][i].serial < wire[c][1].serial
      BY <1>2, <2>1 DEF Ordered
    <3>3. wire[c][1].serial <= mem[c].serial
      BY <1>2, <2>1 DEF Ordered
    <3> QED BY <1>1, <1>2, <2>1, <3>1, <3>2, <3>3
  <2>4. s.serial = job.serial /\ s.status \in {"ok", "unknown"} => NoLock(c)'
    <3>1. s.serial = job.serial => op = "unlockall"
      BY <1>2, <1>3, <2>1 DEF Finalising
    <3> QED BY <1>3, <3>1
  <2>5. \A i \in 1..Len(resp'[c]) : \/ i \in 1..Len(resp[c])
                                       /\ resp'[c][i] = resp[c][i]
                                    \/ resp'[c][i] = s
    BY <1>1, <1>3, <2>2
  <2>6. \A i \in 1..Len(wire'[c]) :
          wire'[c][i].serial = job.serial => wire'[c][i].op = "unlockall"
    BY <1>4, <1>5, <2>1 DEF Finalising
  <2>7. \A i \in 1..Len(resp'[c]) :
          /\ resp'[c][i].serial = job.serial
          /\ resp'[c][i].status \in {"ok", "unknown"}
          => NoLock(c)'
    BY <2>3, <2>4, <2>5
  <2> QED BY <2>1, <2>6, <2>7 DEF Finalising
<1>9. ~Clean(c)
  BY <1>2 DEF Clean
<1>10. ConnInv(c)'
  BY <1>1, <1>2, <1>4, <1>7, <1>8, <1>9 DEF ConnInv, Draining
<1> QED BY <1>4, <1>10, OneConn

(* A step of the server.                                                    *)
LEMMA ServerClean ==
  ASSUME CleanInv, NEW c \in Conns, ServerStep(c)
  PROVE  CleanInv'
<1>1. Inv'
  BY ServerInv DEF CleanInv
<1>2. UNCHANGED <<alive, mem, job>> /\ c # NULL /\ Nobody.conn = NULL
  BY ConnTypes DEF ServerStep, Serve, ServeLock, ServeUnlock, ServeUnlockAll,
       ServeNoop, ServeGet, ServeTorn, ServerCloses, SessionReaped, Nobody
<1>3. /\ wire[c] \in Seq(Request) /\ ConnInv(c)
      /\ wire[c] # <<>> => 1 <= Len(wire[c])
  BY ConnTypes
<1>4. ASSUME UNCHANGED holder
      PROVE  LocksNeedServer' /\ \A d : NoLock(d)' = NoLock(d)
  BY <1>4 DEF CleanInv, LocksNeedServer, NoLock
<1>5. ASSUME holder' = Unlocked(c)
      PROVE  /\ LocksNeedServer' /\ NoLock(c)'
             /\ \A d \in Conns : NoLock(d) => NoLock(d)'
  <2>1. \A k \in Keys : \/ holder'[k] = Nobody
                        \/ holder'[k] = holder[k] /\ holder[k].conn # c
    BY <1>5 DEF Unlocked
  <2>2. \A d \in Conns : Nobody.conn # d
    BY <1>2, NullAssumption
  <2> QED BY <2>1, <2>2 DEF CleanInv, LocksNeedServer, NoLock
<1>6. Status = {"ok", "locked", "unknown", "error", "garbled"}
  BY DEF Status
<1>7. ASSUME NEW op, NEW n \in {1, 2}, NEW status \in Status, Serving(c, op),
             n <= Len(wire[c]), Reply(c, n, status), UNCHANGED peer,
             LocksNeedServer', \A d \in Conns \ {c} : NoLock(d) => NoLock(d)',
             op = "unlockall" /\ status \in {"ok", "unknown"} => NoLock(c)'
      PROVE  CleanInv'
  BY <1>1, <1>2, <1>7, ReplyStep
<1>8. CASE ServeLock(c)
  <2> DEFINE q == Head(wire[c])
  <2>1. Serving(c, "lock") /\ 1 <= Len(wire[c]) /\ UNCHANGED peer
    BY <1>3, <1>8 DEF ServeLock, Serving
  <2>2. PICK status \in Status : Reply(c, 1, status)
    BY <1>6, <1>8 DEF ServeLock
  <2>3. \/ UNCHANGED holder
        \/ Locking /\ holder' = [holder EXCEPT ![q.key] = [conn |-> c, by |-> q.by]]
    BY <1>8 DEF ServeLock
  <2>4. LocksNeedServer' /\ \A d \in Conns \ {c} : NoLock(d) => NoLock(d)'
    <3>1. CASE UNCHANGED holder
      BY <1>4, <3>1
    <3>2. CASE Locking /\ holder' = [holder EXCEPT ![q.key] =
                                      [conn |-> c, by |-> q.by]]
      <4> DEFINE h == [conn |-> c, by |-> q.by]
      <4>1. h.conn = c
        OBVIOUS
      <4> HIDE DEF h
      <4>2. \A k \in Keys : holder'[k] = holder[k] \/ holder'[k] = h
        BY <3>2 DEF CleanInv, Inv, TypeOK, h
      <4> QED BY <3>2, <4>1, <4>2 DEF LocksNeedServer, NoLock
    <3> QED BY <2>3, <3>1, <3>2
  <2> QED BY <1>7, <2>1, <2>2, <2>4
<1>9. CASE ServeUnlock(c)
  <2> DEFINE q == Head(wire[c])
  <2>1. Serving(c, "unlock") /\ 1 <= Len(wire[c]) /\ UNCHANGED peer
    BY <1>3, <1>9 DEF ServeUnlock, Serving
  <2>2. PICK status \in Status : Reply(c, 1, status)
    BY <1>6, <1>9 DEF ServeUnlock
  <2>3. \/ UNCHANGED holder
        \/ Locking /\ holder' = [holder EXCEPT ![q.key] = Nobody]
    BY <1>9 DEF ServeUnlock
  <2>4. \A d \in Conns : Nobody.conn # d
    BY <1>2, NullAssumption
  <2>5. LocksNeedServer' /\ \A d \in Conns \ {c} : NoLock(d) => NoLock(d)'
    BY <1>4, <2>3, <2>4 DEF CleanInv, Inv, TypeOK, LocksNeedServer, NoLock
  <2> QED BY <1>7, <2>1, <2>2, <2>5
<1>10. CASE ServeUnlockAll(c)
  <2>1. Serving(c, "unlockall") /\ 1 <= Len(wire[c]) /\ UNCHANGED peer
    BY <1>3, <1>10 DEF ServeUnlockAll, Serving
  <2>2. CASE ~Locking /\ Reply(c, 1, "unknown") /\ UNCHANGED holder
    <3>1. NoLock(c)'
      BY <1>2, <2>2 DEF CleanInv, LocksNeedServer, NoLock
    <3> QED BY <1>4, <1>6, <1>7, <2>1, <2>2, <3>1
  <2>3. CASE Locking /\ Reply(c, 1, "ok") /\ holder' = Unlocked(c)
    BY <1>5, <1>6, <1>7, <2>1, <2>3
  <2>4. CASE Locking /\ Reply(c, 1, "error") /\ UNCHANGED holder
    BY <1>4, <1>6, <1>7, <2>1, <2>4
  <2> QED BY <1>10, <2>2, <2>3, <2>4 DEF ServeUnlockAll
<1>11. CASE ServeNoop(c)
  <2>1. /\ Serving(c, "noop") /\ 1 <= Len(wire[c]) /\ UNCHANGED <<peer, holder>>
        /\ Reply(c, 1, "ok")
    BY <1>3, <1>11 DEF ServeNoop, Serving
  <2> QED BY <1>4, <1>6, <1>7, <2>1
<1>12. CASE ServeGet(c)
  <2>1. Serving(c, "get") /\ 1 <= Len(wire[c]) /\ UNCHANGED <<peer, holder>>
    BY <1>3, <1>12 DEF ServeGet, Serving
  <2>2. PICK status \in Status : Reply(c, 1, status)
    BY <1>6, <1>12 DEF ServeGet
  <2> QED BY <1>4, <1>7, <2>1, <2>2
<1>13. CASE ServeTorn(c)
  <2>1. /\ Serving(c, "torn") /\ 2 <= Len(wire[c]) /\ UNCHANGED <<peer, holder>>
        /\ Reply(c, 2, "ok")
    BY <1>3, <1>13 DEF ServeTorn, Serving
  <2> QED BY <1>4, <1>6, <1>7, <2>1
<1>14. CASE ServerCloses(c)
  <2>1. /\ holder' = Unlocked(c) /\ peer[c] = "open"
        /\ peer'[c] = "gone" /\ wire'[c] = <<>>
        /\ resp'[c] = resp[c] \/ resp'[c] = <<>>
        /\ \A d \in Conns \ {c} : /\ peer'[d] = peer[d] /\ wire'[d] = wire[d]
                                  /\ resp'[d] = resp[d]
    <3>1. /\ peer \in [Conns -> {"none", "open", "gone", "eof"}]
          /\ wire \in [Conns -> Seq(Request)]
          /\ resp \in [Conns -> Seq(Response)]
      BY DEF CleanInv, Inv, TypeOK
    <3> QED BY <1>14, <3>1 DEF ServerCloses
  <2>2. c \in alive /\ Ordered(wire[c], resp[c], mem[c].serial)
        /\ LocksNeedServer' /\ NoLock(c)'
    BY <1>3, <1>5, <2>1 DEF ConnInv
  <2>3. Ordered(wire'[c], resp'[c], mem[c].serial)
    BY <2>1, <2>2 DEF Ordered
  <2>4. Clean(c) => Clean(c)'
    BY <1>2, <2>1, <2>2 DEF Clean, NoLock
  <2>5. Finalising(c) => Finalising(c)'
    BY <1>2, <2>1, <2>2 DEF Finalising
  <2>6. ConnInv(c)'
    BY <1>2, <1>3, <2>1, <2>2, <2>3, <2>4, <2>5 DEF ConnInv, Draining
  <2> QED BY <1>1, <1>2, <1>5, <2>1, <2>2, <2>6, OneConn
<1>15. CASE SessionReaped(c)
  <2>1. /\ holder' = Unlocked(c) /\ peer[c] = "eof"
        /\ peer'[c] = "none" /\ wire'[c] = <<>> /\ resp' = resp
        /\ \A d \in Conns \ {c} : peer'[d] = peer[d] /\ wire'[d] = wire[d]
    BY <1>15 DEF SessionReaped, CleanInv, Inv, TypeOK
  <2>2. c \notin alive /\ resp[c] = <<>> /\ LocksNeedServer' /\ NoLock(c)'
    BY <1>3, <1>5, <2>1 DEF ConnInv
  <2>3. ~Draining \/ c # job.conn
    BY <2>2, DrainedConn DEF CleanInv
  <2>4. ConnInv(c)'
    BY <1>2, <2>1, <2>2, <2>3 DEF ConnInv, Draining
  <2> QED BY <1>1, <1>2, <1>5, <2>1, <2>2, <2>4, OneConn
<1> QED BY <1>8, <1>9, <1>10, <1>11, <1>12, <1>13, <1>14, <1>15
        DEF ServerStep, Serve

-----------------------------------------------------------------------------
(* Nothing is connected at first.                                           *)
LEMMA InitClean ==
  ASSUME Init
  PROVE  CleanInv
<1>1. Inv
  BY InitInv
<1>2. LocksNeedServer /\ \A c \in Conns : NoLock(c)
  BY NullAssumption DEF Init, LocksNeedServer, NoLock, Nobody
<1>3. \A c \in Conns : ConnInv(c)
  BY <1>2, NullAssumption DEF Init, ConnInv, Draining, Idle
<1> QED BY <1>1, <1>2, <1>3 DEF CleanInv

(* Every step keeps the invariant.                                          *)
LEMMA NextClean ==
  ASSUME CleanInv, [Next]_vars
  PROVE  CleanInv'
<1>1. CASE UNCHANGED vars
  <2>1. Inv'
    BY NextInv DEF CleanInv
  <2>2. UNCHANGED <<alive, mem, peer, wire, resp, holder, job>>
    BY <1>1 DEF vars
  <2>3. LocksNeedServer' /\ \A d : NoLock(d)' = NoLock(d)
    BY <2>2 DEF CleanInv, LocksNeedServer, NoLock
  <2>4. \A c \in Conns : ConnInv(c)'
    BY <2>2, <2>3, Frame DEF CleanInv
  <2> QED BY <2>1, <2>3, <2>4 DEF CleanInv
<1>2. CASE Next
  BY <1>2, NextCases, ConstructClean, ResumeClean, DestructClean, MethodClean,
     ProcessEndsClean, ServerClean
<1> QED BY <1>1, <1>2

(* The connection that the next request will pick from the list is clean,   *)
(* whatever the last one left in flight, whatever it locked, and whether    *)
(* its finalisation succeeded, failed or timed out: destruct_conn and       *)
(* on_broken_connection_detected, yrmcds.c 132-184.                         *)
THEOREM IdleConnectionIsClean == Spec => []IdleIsClean
<1>1. Init => CleanInv
  BY InitClean
<1>2. CleanInv /\ [Next]_vars => CleanInv'
  BY NextClean
<1>3. CleanInv => IdleIsClean
  <2> SUFFICES ASSUME CleanInv, job = Idle, NEW id \in Ids,
                      persistent_list[id] # NULL, mem[persistent_list[id]].refs = 0
               PROVE  Clean(persistent_list[id])
    BY DEF IdleIsClean
  <2>1. PICK c \in Conns : /\ c = persistent_list[id] /\ c \in alive
                           /\ mem[c].pkey = id
    BY DEF CleanInv, Inv, TypeOK, PoolSound
  <2>2. job.conn = NULL /\ id # NULL /\ ConnInv(c) /\ c # NULL
    BY ConnTypes, NullAssumption DEF Idle
  <2> QED BY <2>1, <2>2 DEF ConnInv
<1> QED BY <1>1, <1>2, <1>3, PTL DEF Spec

(* check_persistent_connection waits for the noop it sent last, so with     *)
(* detection on a constructor only ever takes a drained connection from the *)
(* list, also one that other clients are using.                             *)
THEOREM AdoptedIsDrained == Spec => AdoptsDrained
<1> DEFINE Drained(c) == /\ wire'[c] = <<>> /\ resp'[c] = <<>>
                         /\ mem'[c].timeout = "default" /\ ~mem'[c].invalid
           Adopts == \A cl \in Clients :
                       detect /\ conn'[cl] # conn[cl] /\ conn'[cl] \in alive
                         => Drained(conn'[cl])
<1>1. Init => CleanInv
  BY InitClean
<1>2. CleanInv /\ [Next]_vars => CleanInv'
  BY NextClean
<1>3. CleanInv /\ [Next]_vars => [Adopts]_vars
  <2> SUFFICES ASSUME CleanInv, Next, NEW cl \in Clients, detect,
                      conn'[cl] # conn[cl], conn'[cl] \in alive
               PROVE  Drained(conn'[cl])
    OBVIOUS
  <2>1. conn \in [Clients -> Conns \cup {NULL}] /\ NULL \notin Conns /\ alive \subseteq Conns
    BY NullAssumption DEF CleanInv, Inv, TypeOK
  <2>2. CASE CheckPasses
    <3>1. PICK c \in Conns : c = conn'[cl]
      BY <2>1
    <3>2. c = job.conn /\ job.at = "check"
      BY <2>1, <2>2, <3>1 DEF CheckPasses
    <3>3. /\ resp[c] # <<>> /\ Head(resp[c]).serial = job.serial /\ ~mem[c].invalid
          /\ wire' = wire /\ resp' = [resp EXCEPT ![c] = Tail(@)]
          /\ mem' = [mem EXCEPT ![c].timeout = "default", ![c].refs = @ + 1]
      BY <2>2, <3>2 DEF CheckPasses, Awaited, CanRecv
    <3>4. /\ wire[c] \in Seq(Request) /\ resp[c] \in Seq(Response) /\ mem[c] \in Mem
          /\ mem[c].serial \in Nat /\ ConnInv(c) /\ c \in alive
      BY <3>1, ConnTypes
    <3>5. Ordered(wire[c], resp[c], mem[c].serial) /\ job.serial = mem[c].serial
      BY <3>2, <3>4 DEF ConnInv, Draining
    <3>6. wire[c] = <<>> /\ Tail(resp[c]) = <<>>
      BY <3>3, <3>4, <3>5, OrderedRecv
    <3>7. /\ mem \in [Conns -> Mem] /\ resp \in [Conns -> Seq(Response)]
      BY DEF CleanInv, Inv, TypeOK
    <3>8. resp'[c] = <<>> /\ wire'[c] = <<>>
      BY <3>3, <3>6, <3>7
    <3>9. mem'[c].timeout = "default" /\ mem'[c].invalid = mem[c].invalid
      BY <3>3, <3>4, <3>7 DEF Mem
    <3> QED BY <3>1, <3>3, <3>8, <3>9
  <2>3. CASE \E c \in Conns : Connected(c)
    <3>1. PICK c \in Conns : Connected(c)
      BY <2>3
    <3>2. conn'[cl] = c /\ c \notin alive
      BY <2>1, <3>1 DEF Connected
    <3> QED BY <3>2
  <2>4. CASE ~CheckPasses /\ ~(\E c \in Conns : Connected(c))
    <3>1. conn'[cl] \in {conn[cl], NULL}
      <4> USE DEF Next, Resume
      <4>1. CASE \E o \in Clients, id \in Ids :
                   ConstructReuse(o, id) \/ ConstructCheck(o, id) \/ ConstructCheckUnsent(o, id)
        BY <4>1 DEF ConstructReuse, ConstructCheck, ConstructCheckUnsent
      <4>2. CASE \E o \in Clients, id \in Ids \cup {NULL} : ConstructNotFound(o, id)
        BY <4>2 DEF ConstructNotFound
      <4>3. CASE \E o \in Clients : \/ DestructPlain(o) \/ DestructPersistent(o)
                                    \/ DestructUnsent(o) \/ CommandFails(o)
                                    \/ Recv(o) \/ RecvGarbled(o) \/ SetTimeout(o)
        BY <2>1, <4>3 DEF DestructPlain, DestructPersistent, DestructUnsent,
                          CommandFails, Recv, RecvGarbled, SetTimeout
      <4>4. CASE \E o \in Clients, op \in Ops, key \in Keys \cup {NULL} : Command(o, op, key)
        BY <4>4 DEF Command
      <4>5. CASE DrainSkip \/ CheckBreaks \/ DestructDone \/ DestructBreaks \/ ConnectFailed
                 \/ ProcessEnds
        BY <2>1, <4>5 DEF DrainSkip, CheckBreaks, DestructDone, DestructBreaks,
                          ConnectFailed, ProcessEnds
      <4>6. CASE \E c \in Conns : Serve(c) \/ ServerCloses(c) \/ SessionReaped(c)
        BY <4>6 DEF Serve, ServeLock, ServeUnlock, ServeUnlockAll, ServeNoop, ServeGet,
                    ServeTorn, ServerCloses, SessionReaped
      <4> QED BY <2>4, <4>1, <4>2, <4>3, <4>4, <4>5, <4>6 DEF Ops
    <3> QED BY <2>1, <3>1
  <2> QED BY <2>2, <2>3, <2>4
<1>4. Spec => [][Adopts]_vars
  BY <1>1, <1>2, <1>3, PTL DEF Spec
<1> QED BY <1>4 DEF AdoptsDrained

-----------------------------------------------------------------------------
(* Whose traffic a connection carries.  Two live clients never share one    *)
(* when no program names the id of a live client; what is on a connection   *)
(* was asked for by the client that has it, until its destructor starts;    *)
(* and while a constructor checks an entry that is not the object's own,    *)
(* the session is one nobody uses, with nothing on its wire but noops.      *)

ByOnly(c, by) ==
  /\ \A i \in 1..Len(wire[c]) : wire[c][i].by = by
  /\ \A i \in 1..Len(resp[c]) : resp[c][i].by = by
  /\ \A k \in Keys : holder[k].conn = c => holder[k].by = by

Unused(c) == NoLock(c) /\ \A i \in 1..Len(wire[c]) : wire[c][i].op = "noop"

OneOwner ==
  \A cl1, cl2 \in Clients : conn[cl1] = conn[cl2] /\ conn[cl1] # NULL => cl1 = cl2

Leaving(cl) == job.at = "destruct" /\ job.cl = cl

Owned ==
  \A cl \in Clients, c \in Conns : conn[cl] = c /\ ~Leaving(cl) => ByOnly(c, cl)

CheckAlone ==
  \A c \in Conns :
    job.at = "check" /\ job.conn = c =>
      /\ \A cl \in Clients \ {job.cl} : conn[cl] # c
      /\ conn[job.cl] # c => Unused(c)

OwnInv == OneOwner /\ Owned /\ CheckAlone

(* Nothing new appears on c: what is there after the step was there before. *)
Shrinks(c) ==
  /\ \A i \in 1..Len(wire'[c]) : \E j \in 1..Len(wire[c]) : wire'[c][i] = wire[c][j]
  /\ \A i \in 1..Len(resp'[c]) : \E j \in 1..Len(resp[c]) : resp'[c][i] = resp[c][j]
  /\ \A k \in Keys : holder'[k].conn = c => holder'[k] = holder[k]

(* Then it stays its owner's, and an unused session stays unused.           *)
LEMMA ShrinksKeeps ==
  ASSUME NEW c, Shrinks(c)
  PROVE  /\ \A by : ByOnly(c, by) => ByOnly(c, by)'
         /\ Unused(c) => Unused(c)'
<1>1. ASSUME NEW by, ByOnly(c, by)
      PROVE  ByOnly(c, by)'
  <2>1. \A i \in 1..Len(wire'[c]) : wire'[c][i].by = by
    BY <1>1 DEF Shrinks, ByOnly
  <2>2. \A i \in 1..Len(resp'[c]) : resp'[c][i].by = by
    BY <1>1 DEF Shrinks, ByOnly
  <2>3. \A k \in Keys : holder'[k].conn = c => holder'[k].by = by
    BY <1>1 DEF Shrinks, ByOnly
  <2> QED BY <2>1, <2>2, <2>3 DEF ByOnly
<1>2. ASSUME Unused(c)
      PROVE  Unused(c)'
  BY <1>2 DEF Shrinks, Unused, NoLock
<1> QED BY <1>1, <1>2

(* The steps that shrink: nothing, taking the first response off, closing.  *)
LEMMA ShrinkCases ==
  ASSUME CleanInv, NEW c \in Conns, wire'[c] = wire[c], holder' = holder,
         \/ resp'[c] = resp[c]
         \/ resp'[c] = <<>>
         \/ resp[c] # <<>> /\ resp'[c] = Tail(resp[c])
  PROVE  Shrinks(c)
<1>1. resp[c] \in Seq(Response)
  BY ConnTypes
<1>2. \A i \in 1..Len(resp'[c]) : \E j \in 1..Len(resp[c]) : resp'[c][i] = resp[c][j]
  <2>1. CASE resp'[c] = resp[c]
    BY <2>1
  <2>2. CASE resp'[c] = <<>>
    BY <2>2
  <2>3. CASE resp[c] # <<>> /\ resp'[c] = Tail(resp[c])
    <3>1. \A i \in 1..Len(Tail(resp[c])) :
            Tail(resp[c])[i] = resp[c][i + 1] /\ i + 1 \in 1..Len(resp[c])
      BY <1>1, <2>3
    <3> QED BY <2>3, <3>1
  <2> QED BY <2>1, <2>2, <2>3
<1> QED BY <1>2 DEF Shrinks

(* A request of client `by` goes on its connection.                         *)
LEMMA SentByOwner ==
  ASSUME CleanInv, NEW c \in Conns, NEW by, NEW op, NEW key, NEW n,
         Written(c, op, key, n, by) \/ UNCHANGED wire,
         holder' = holder, resp'[c] = resp[c] \/ resp'[c] = <<>>
  PROVE  /\ ByOnly(c, by) => ByOnly(c, by)'
         /\ \A d \in Conns \ {c} : wire'[d] = wire[d]
         /\ op = "noop" /\ Unused(c) => Unused(c)'
<1> DEFINE q == [op |-> op, key |-> key, serial |-> n, by |-> by]
<1>1. wire' = wire \/ wire' = [wire EXCEPT ![c] = Append(@, q)]
  BY DEF Written
<1>2. q.op = op /\ q.by = by
  OBVIOUS
<1>3. wire[c] \in Seq(Request) /\ wire \in [Conns -> Seq(Request)]
  BY DEF CleanInv, Inv, TypeOK
<1> HIDE DEF q
<1>4. /\ wire'[c] = wire[c] \/ wire'[c] = Append(wire[c], q)
      /\ \A d \in Conns \ {c} : wire'[d] = wire[d]
  BY <1>1, <1>3
<1>5. \A i \in 1..Len(wire'[c]) : \/ wire'[c][i] = q
                                  \/ i \in 1..Len(wire[c]) /\ wire'[c][i] = wire[c][i]
  <2>1. CASE wire'[c] = wire[c]
    BY <2>1
  <2>2. CASE wire'[c] = Append(wire[c], q)
    BY <1>3, <2>2
  <2> QED BY <1>4, <2>1, <2>2
<1>6. ASSUME ByOnly(c, by)
      PROVE  ByOnly(c, by)'
  <2>1. \A i \in 1..Len(wire'[c]) : wire'[c][i].by = by
    BY <1>2, <1>5, <1>6 DEF ByOnly
  <2>2. \A i \in 1..Len(resp'[c]) : resp'[c][i].by = by
    <3>1. CASE resp'[c] = resp[c]
      BY <1>6, <3>1 DEF ByOnly
    <3>2. CASE resp'[c] = <<>>
      BY <3>2
    <3> QED BY <3>1, <3>2
  <2> QED BY <1>6, <2>1, <2>2 DEF ByOnly
<1>7. ASSUME op = "noop", Unused(c)
      PROVE  Unused(c)'
  BY <1>2, <1>5, <1>7 DEF Unused, NoLock
<1> QED BY <1>4, <1>6, <1>7

(* Steps that give nobody a connection.                                     *)
LEMMA OwnStep ==
  ASSUME CleanInv, OwnInv,
         \A cl \in Clients : conn'[cl] = conn[cl] \/ conn'[cl] = NULL,
         \A cl \in Clients, c \in Conns : conn'[cl] = c /\ ~Leaving(cl)' =>
           ~Leaving(cl) /\ (ByOnly(c, cl) => ByOnly(c, cl)'),
         job'.at = "check" =>
           /\ job' = job /\ UNCHANGED conn
           /\ \A c \in Conns : Unused(c) => Unused(c)'
  PROVE  OwnInv'
<1>1. OneOwner'
  BY DEF OwnInv, OneOwner
<1>2. Owned'
  <2> SUFFICES ASSUME NEW cl \in Clients, NEW c \in Conns, conn'[cl] = c, ~Leaving(cl)'
               PROVE  ByOnly(c, cl)'
    BY DEF Owned
  <2>1. conn[cl] = c
    BY NullAssumption
  <2> QED BY <2>1 DEF OwnInv, Owned
<1>3. CheckAlone'
  <2> SUFFICES ASSUME NEW c \in Conns, job'.at = "check", job'.conn = c
               PROVE  /\ \A cl \in Clients \ {job'.cl} : conn'[cl] # c
                      /\ conn'[job'.cl] # c => Unused(c)'
    BY DEF CheckAlone
  <2>1. job' = job /\ conn' = conn /\ (Unused(c) => Unused(c)')
    OBVIOUS
  <2>2. /\ \A cl \in Clients \ {job.cl} : conn[cl] # c
        /\ conn[job.cl] # c => Unused(c)
    BY <2>1 DEF OwnInv, CheckAlone
  <2> QED BY <2>1, <2>2
<1> QED BY <1>1, <1>2, <1>3 DEF OwnInv

(* A client gets c, which no other client has.                              *)
LEMMA OwnAttach ==
  ASSUME CleanInv, OwnInv, NEW c \in Conns, NEW cl \in Clients,
         job.at # "destruct", job'.at = "idle",
         conn' = [conn EXCEPT ![cl] = c],
         \A x \in Clients \ {cl} : conn[x] # c,
         ByOnly(c, cl)', \A d \in Conns \ {c} : Shrinks(d)
  PROVE  OwnInv'
<1>1. \A x \in Clients : conn'[x] = IF x = cl THEN c ELSE conn[x]
  BY DEF CleanInv, Inv, TypeOK
<1>2. OneOwner'
  BY <1>1 DEF OwnInv, OneOwner
<1>3. Owned'
  <2> SUFFICES ASSUME NEW x \in Clients, NEW d \in Conns, conn'[x] = d
               PROVE  ByOnly(d, x)'
    BY DEF Owned
  <2>1. CASE x = cl
    BY <1>1, <2>1
  <2>2. CASE x # cl
    <3>1. conn[x] = d /\ d # c
      BY <1>1, <2>2
    <3>2. ByOnly(d, x)
      BY <3>1 DEF OwnInv, Owned, Leaving
    <3> QED BY <3>1, <3>2, ShrinksKeeps
  <2> QED BY <2>1, <2>2
<1>4. CheckAlone'
  BY DEF CheckAlone
<1> QED BY <1>2, <1>3, <1>4 DEF OwnInv

(* The entry a constructor finds belongs to no other live client, if        *)
(* programs do not share ids; and it is clean unless it is the object's own.*)
LEMMA EntryOfNoOther ==
  ASSUME CleanInv, RefcountExact, ~Sharing, NEW cl \in Clients, NEW id \in Ids,
         MayConstruct(cl, id), Entry(id) # NULL, NEW c, c = persistent_list[id]
  PROVE  /\ c \in alive /\ c \in Conns /\ mem[c].pkey = id /\ id # NULL
         /\ job = Idle /\ job.at = "idle" /\ job.conn = NULL
         /\ \A x \in Clients \ {cl} : conn[x] # c
         /\ conn[cl] # c => Clean(c)
<1>1. /\ c \in alive /\ c \in Conns /\ mem[c].pkey = id /\ id # NULL /\ c # NULL
      /\ Entry(id) = c
  BY NullAssumption DEF CleanInv, Inv, TypeOK, PoolSound, Entry
<1>2. job = Idle /\ job.at = "idle" /\ job.conn = NULL
  BY DEF MayConstruct, Idle
<1>3. \A x \in Clients \ {cl} : conn[x] # c
  BY <1>1 DEF MayConstruct
<1>4. ASSUME conn[cl] # c
      PROVE  Clean(c)
  <2>1. Users(c) = {}
    BY <1>3, <1>4 DEF Users
  <2>2. mem[c].refs = 0
    BY <1>1, <2>1, UsersFinite DEF RefcountExact
  <2>3. ConnInv(c)
    BY <1>1 DEF CleanInv
  <2> QED BY <1>1, <1>2, <2>2, <2>3 DEF ConnInv
<1> QED BY <1>1, <1>2, <1>3, <1>4

(* Nothing on a clean connection is anybody's.                              *)
LEMMA CleanIsUnused ==
  ASSUME NEW c, Clean(c)
  PROVE  Unused(c) /\ \A by : ByOnly(c, by)
BY DEF Clean, Unused, NoLock, ByOnly

(* The constructor up to its first wait.                                    *)
LEMMA ConstructOwn ==
  ASSUME CleanInv, RefcountExact, ~Sharing, OwnInv, Construct
  PROVE  OwnInv'
<1>1. ASSUME NEW cl \in Clients, NEW id \in Ids \cup {NULL},
             ConstructNotFound(cl, id)
      PROVE  OwnInv'
  <2>1. /\ job.at = "idle" /\ job'.at = "connect"
        /\ UNCHANGED <<conn, wire, resp, holder>>
    BY <1>1 DEF ConstructNotFound, MayConstruct, Idle
  <2>2. \A c, by : ByOnly(c, by) => ByOnly(c, by)'
    BY <2>1 DEF ByOnly
  <2> QED BY <2>1, <2>2, OwnStep DEF Leaving
<1>2. ASSUME NEW cl \in Clients, NEW id \in Ids, ConstructReuse(cl, id)
      PROVE  OwnInv'
  <2>1. PICK c : c = persistent_list[id]
    OBVIOUS
  <2>2. /\ MayConstruct(cl, id) /\ Entry(id) # NULL
        /\ conn' = [conn EXCEPT ![cl] = c]
        /\ UNCHANGED <<wire, resp, holder, job>>
    BY <1>2, <2>1 DEF ConstructReuse
  <2>3. /\ c \in Conns /\ job.at = "idle"
        /\ \A x \in Clients \ {cl} : conn[x] # c
        /\ conn[cl] # c => Clean(c)
    BY <2>1, <2>2, EntryOfNoOther
  <2>4. ByOnly(c, cl)
    <3>1. CASE conn[cl] = c
      BY <2>3, <3>1 DEF OwnInv, Owned, Leaving
    <3>2. CASE conn[cl] # c
      BY <2>3, <3>2, CleanIsUnused
    <3> QED BY <3>1, <3>2
  <2>5. ByOnly(c, cl)'
    BY <2>2, <2>4 DEF ByOnly
  <2>6. \A d \in Conns \ {c} : Shrinks(d)
    BY <2>2, ShrinkCases
  <2>7. job.at # "destruct" /\ job'.at = "idle"
    BY <2>2, <2>3
  <2> QED BY <2>2, <2>3, <2>5, <2>6, <2>7, OwnAttach
<1>3. ASSUME NEW cl \in Clients, NEW id \in Ids, ConstructCheck(cl, id)
      PROVE  OwnInv'
  <2>1. PICK c : c = persistent_list[id]
    OBVIOUS
  <2>2. PICK by : by = IF conn[cl] = c THEN cl ELSE NULL
    OBVIOUS
  <2>3. /\ MayConstruct(cl, id) /\ Entry(id) # NULL
        /\ \E n : Written(c, "noop", NULL, n, by)
        /\ job'.at = "check" /\ job'.cl = cl /\ job'.conn = c
        /\ UNCHANGED <<conn, resp, holder>>
    BY <1>3, <2>1, <2>2 DEF ConstructCheck
  <2>4. /\ c \in Conns /\ job.at = "idle"
        /\ \A x \in Clients \ {cl} : conn[x] # c
        /\ conn[cl] # c => Clean(c)
    BY <2>1, <2>3, EntryOfNoOther
  <2>5. /\ ByOnly(c, by) => ByOnly(c, by)'
        /\ \A d \in Conns \ {c} : wire'[d] = wire[d]
        /\ Unused(c) => Unused(c)'
    BY <2>3, <2>4, SentByOwner
  <2>6. OneOwner'
    BY <2>3 DEF OwnInv, OneOwner
  <2>7. Owned'
    <3> SUFFICES ASSUME NEW x \in Clients, NEW d \in Conns, conn[x] = d
                 PROVE  ByOnly(d, x)'
      BY <2>3 DEF Owned
    <3>1. ByOnly(d, x)
      BY <2>4 DEF OwnInv, Owned, Leaving
    <3>2. CASE d = c
      <4>1. x = cl /\ by = cl
        BY <2>2, <2>4, <3>2
      <4> QED BY <2>5, <3>1, <3>2, <4>1
    <3>3. CASE d # c
      <4>1. Shrinks(d)
        BY <2>3, <2>5, <3>3, ShrinkCases
      <4> QED BY <3>1, <4>1, ShrinksKeeps
    <3> QED BY <3>2, <3>3
  <2>8. CheckAlone'
    <3>1. conn[cl] # c => Unused(c)'
      BY <2>4, <2>5, CleanIsUnused
    <3>2. conn'[cl] # c => Unused(c)'
      BY <2>3, <3>1
    <3>3. \A x \in Clients \ {cl} : conn'[x] # c
      BY <2>3, <2>4
    <3> QED BY <2>3, <3>2, <3>3 DEF CheckAlone
  <2> QED BY <2>6, <2>7, <2>8 DEF OwnInv
<1>4. ASSUME NEW cl \in Clients, NEW id \in Ids, ConstructCheckUnsent(cl, id)
      PROVE  OwnInv'
  <2>1. PICK c : c = persistent_list[id]
    OBVIOUS
  <2>2. PICK by : by = IF conn[cl] = c THEN cl ELSE NULL
    OBVIOUS
  <2>3. PICK m : m = NextSerial([mem EXCEPT ![c].timeout = "check"], c)
    OBVIOUS
  <2>4. /\ MayConstruct(cl, id) /\ Entry(id) # NULL
        /\ SendFails(c, "check", m[c].serial, by) /\ BrokenConnection(c, m)
        /\ job'.at \in {"connect", "idle"}
        /\ UNCHANGED <<conn, holder>>
    BY <1>4, <2>1, <2>2, <2>3 DEF ConstructCheckUnsent, AfterBrokenCheck, Idle
  <2>5. /\ c \in Conns /\ c \in alive /\ job.at = "idle"
        /\ mem[c].pkey = id /\ id # NULL
        /\ \A x \in Clients \ {cl} : conn[x] # c
    BY <2>1, <2>4, EntryOfNoOther
  <2>6. m \in [Conns -> Mem] /\ m[c].pkey = mem[c].pkey
    <3>1. m \in [Conns -> Mem]
      BY <2>3, <2>5, MemTypes DEF CleanInv, Inv
    <3>2. m[c].pkey = mem[c].pkey
      BY <2>3, <2>5 DEF NextSerial, CleanInv, Inv, TypeOK, Mem
    <3> QED BY <3>1, <3>2
  <2>7. /\ resp'[c] = resp[c] \/ resp'[c] = <<>>
        /\ \A d \in Conns \ {c} : resp'[d] = resp[d]
    <3>1. resp' = [resp EXCEPT ![c] = <<>>] \/ resp' = resp
      BY <2>4, <2>5, <2>6, BrokenCases DEF CleanInv
    <3> QED BY <3>1, <2>5 DEF CleanInv, Inv, TypeOK
  <2>8. \E n : Written(c, "torn", NULL, n, by) \/ UNCHANGED wire
    BY <2>4 DEF SendFails
  <2>9. /\ ByOnly(c, by) => ByOnly(c, by)'
        /\ \A d \in Conns \ {c} : wire'[d] = wire[d]
    BY <2>4, <2>5, <2>7, <2>8, SentByOwner
  <2>10. ASSUME NEW x \in Clients, NEW d \in Conns, conn[x] = d, ByOnly(d, x)
         PROVE  ByOnly(d, x)'
    <3>1. CASE d = c
      <4>1. x = cl /\ by = cl
        BY <2>2, <2>5, <2>10, <3>1
      <4> QED BY <2>9, <2>10, <3>1, <4>1
    <3>2. CASE d # c
      <4>1. Shrinks(d)
        BY <2>4, <2>7, <2>9, <3>2, ShrinkCases
      <4> QED BY <2>10, <4>1, ShrinksKeeps
    <3> QED BY <3>1, <3>2
  <2>11. /\ \A x \in Clients : conn'[x] = conn[x] \/ conn'[x] = NULL
         /\ job'.at # "check"
         /\ \A x \in Clients, d \in Conns : conn'[x] = d /\ ~Leaving(x)' =>
              ~Leaving(x) /\ (ByOnly(d, x) => ByOnly(d, x)')
    BY <2>4, <2>5, <2>10 DEF Leaving
  <2> QED BY <2>11, OwnStep
<1> QED BY <1>1, <1>2, <1>3, <1>4 DEF Construct

(* The constructor and the destructor after a wait.                         *)
LEMMA ResumeOwn ==
  ASSUME CleanInv, OwnInv, Resume
  PROVE  OwnInv'
<1>1. ASSUME Draining
      PROVE  \E c \in alive : /\ c = job.conn /\ c \in Conns
                              /\ mem[c].pkey # NULL
                              /\ job.serial = mem[c].serial
                              /\ job.cl \in Clients
  <2>1. /\ job.conn \in alive /\ job.conn \in Conns /\ job.cl \in Clients
        /\ mem[job.conn].pkey # NULL
    BY <1>1, DrainedConn, NullAssumption DEF CleanInv
  <2>2. ConnInv(job.conn)
    BY <2>1, ConnTypes
  <2> QED BY <1>1, <2>1, <2>2 DEF ConnInv
<1>2. ASSUME NEW c \in Conns, \A d \in Conns \ {c} : resp'[d] = resp[d],
             UNCHANGED <<wire, holder>>,
             \/ resp'[c] = resp[c]
             \/ resp'[c] = <<>>
             \/ resp[c] # <<>> /\ resp'[c] = Tail(resp[c])
      PROVE  \A d \in Conns : Shrinks(d)
  BY <1>2, ShrinkCases
<1>3. ASSUME NEW c \in alive, c \in Conns, mem[c].pkey # NULL,
             BrokenConnection(c, MarkInvalid(c))
      PROVE  /\ \A d \in Conns \ {c} : resp'[d] = resp[d]
             /\ resp'[c] = resp[c] \/ resp'[c] = <<>>
  <2>1. PICK m : m = MarkInvalid(c)
    OBVIOUS
  <2>2. m \in [Conns -> Mem] /\ m[c].pkey = mem[c].pkey /\ BrokenConnection(c, m)
    BY <1>3, <2>1, MarkedSame DEF CleanInv
  <2>3. resp' = [resp EXCEPT ![c] = <<>>] \/ resp' = resp
    BY <1>3, <2>2, BrokenCases DEF CleanInv
  <2> QED BY <1>3, <2>3 DEF CleanInv, Inv, TypeOK
<1>4. CASE DrainSkip
  <2>1. PICK c \in alive : c = job.conn /\ c \in Conns
    BY <1>1, <1>4 DEF DrainSkip
  <2>2. /\ CanRecv(c) /\ resp' = [resp EXCEPT ![c] = Tail(@)]
        /\ UNCHANGED <<conn, wire, holder, job>>
    BY <1>4, <2>1 DEF DrainSkip
  <2>3. \A d \in Conns : Shrinks(d)
    <3>1. /\ \A d \in Conns \ {c} : resp'[d] = resp[d]
          /\ resp'[c] = Tail(resp[c]) /\ resp[c] # <<>>
      BY <2>2, RecvStep
    <3> QED BY <1>2, <2>1, <2>2, <3>1
  <2>4. /\ \A d \in Conns : \A by : ByOnly(d, by) => ByOnly(d, by)'
        /\ \A d \in Conns : Unused(d) => Unused(d)'
    BY <2>3, ShrinksKeeps
  <2> QED BY <2>2, <2>4, OwnStep DEF Leaving
<1>5. CASE CheckPasses
  <2>1. PICK c \in alive : /\ c = job.conn /\ c \in Conns /\ job.cl \in Clients
                           /\ job.serial = mem[c].serial
    BY <1>1, <1>5 DEF CheckPasses, Awaited
  <2>2. PICK cl \in Clients : cl = job.cl
    BY <2>1
  <2>3. /\ CanRecv(c) /\ Head(resp[c]).serial = mem[c].serial
        /\ resp' = [resp EXCEPT ![c] = Tail(@)]
        /\ UNCHANGED <<wire, holder>> /\ job.at = "check" /\ job' = Idle
        /\ conn' = [conn EXCEPT ![cl] = c]
    BY <1>5, <2>1, <2>2 DEF CheckPasses, Awaited
  <2>4. /\ \A d \in Conns \ {c} : resp'[d] = resp[d]
        /\ wire'[c] = <<>> /\ resp'[c] = <<>>
    BY <2>3, RecvStep
  <2>5. /\ \A x \in Clients \ {cl} : conn[x] # c
        /\ conn[cl] # c => NoLock(c)
    BY <2>1, <2>2, <2>3 DEF OwnInv, CheckAlone, Unused
  <2>6. ByOnly(c, cl)'
    <3>1. CASE conn[cl] = c
      <4>1. ByOnly(c, cl)
        BY <2>1, <2>3, <3>1 DEF OwnInv, Owned, Leaving
      <4> QED BY <2>3, <2>4, <4>1 DEF ByOnly
    <3>2. CASE conn[cl] # c
      <4>1. \A k \in Keys : holder'[k].conn # c
        BY <2>3, <2>5, <3>2 DEF NoLock
      <4>2. Len(wire'[c]) = 0 /\ Len(resp'[c]) = 0
        BY <2>4
      <4> QED BY <4>1, <4>2 DEF ByOnly
    <3> QED BY <3>1, <3>2
  <2>7. \A d \in Conns \ {c} : Shrinks(d)
    BY <2>3, <2>4, ShrinkCases
  <2>8. job.at # "destruct" /\ job'.at = "idle"
    BY <2>3 DEF Idle
  <2> QED BY <2>1, <2>3, <2>5, <2>6, <2>7, <2>8, OwnAttach
<1>6. CASE CheckBreaks
  <2>1. PICK c \in alive : c = job.conn /\ c \in Conns /\ mem[c].pkey # NULL
    BY <1>1, <1>6 DEF CheckBreaks, Draining
  <2>2. /\ BrokenConnection(c, MarkInvalid(c)) /\ UNCHANGED <<conn, wire, holder>>
        /\ job.at = "check" /\ job'.at \in {"connect", "idle"}
    BY <1>6, <2>1 DEF CheckBreaks, AfterBrokenCheck, Idle
  <2>3. \A d \in Conns : Shrinks(d)
    BY <1>2, <1>3, <2>1, <2>2
  <2>4. \A d \in Conns : \A by : ByOnly(d, by) => ByOnly(d, by)'
    BY <2>3, ShrinksKeeps
  <2>5. job'.at # "check"
    BY <2>2
  <2> QED BY <2>2, <2>4, <2>5, OwnStep DEF Leaving
<1>7. ASSUME job.at = "destruct", NEW c \in Conns, c = job.conn,
             conn' = [conn EXCEPT ![job.cl] = NULL], job' = Idle,
             \A d \in Conns : Shrinks(d)
      PROVE  OwnInv'
  <2>1. \A d \in Conns : \A by : ByOnly(d, by) => ByOnly(d, by)'
    BY <1>7, ShrinksKeeps
  <2>2. /\ \A x \in Clients : conn'[x] = IF x = job.cl THEN NULL ELSE conn[x]
        /\ job'.at = "idle" /\ NULL \notin Conns
    BY <1>7, NullAssumption DEF CleanInv, Inv, TypeOK, Idle
  <2>3. \A x \in Clients : conn'[x] = conn[x] \/ conn'[x] = NULL
    BY <2>2
  <2>4. \A x \in Clients, d \in Conns : conn'[x] = d /\ ~Leaving(x)' =>
          ~Leaving(x) /\ (ByOnly(d, x) => ByOnly(d, x)')
    BY <2>1, <2>2 DEF Leaving
  <2>5. job'.at # "check"
    BY <2>2
  <2> QED BY <2>3, <2>4, <2>5, OwnStep
<1>8. CASE DestructDone
  <2>1. PICK c \in alive : c = job.conn /\ c \in Conns
    BY <1>1, <1>8 DEF DestructDone, Awaited
  <2>2. /\ CanRecv(c) /\ resp' = [resp EXCEPT ![c] = Tail(@)]
        /\ UNCHANGED <<wire, holder>> /\ job.at = "destruct" /\ job' = Idle
        /\ conn' = [conn EXCEPT ![job.cl] = NULL]
    BY <1>8, <2>1 DEF DestructDone, Awaited
  <2>3. \A d \in Conns : Shrinks(d)
    <3>1. /\ \A d \in Conns \ {c} : resp'[d] = resp[d]
          /\ resp'[c] = Tail(resp[c]) /\ resp[c] # <<>>
      BY <2>2, RecvStep
    <3> QED BY <1>2, <2>1, <2>2, <3>1
  <2> QED BY <1>7, <2>1, <2>2, <2>3
<1>9. CASE DestructBreaks
  <2>1. PICK c \in alive : c = job.conn /\ c \in Conns /\ mem[c].pkey # NULL
    BY <1>1, <1>9 DEF DestructBreaks, Draining
  <2>2. /\ BrokenConnection(c, MarkInvalid(c)) /\ UNCHANGED <<wire, holder>>
        /\ job.at = "destruct" /\ job' = Idle
        /\ conn' = [conn EXCEPT ![job.cl] = NULL]
    BY <1>9, <2>1 DEF DestructBreaks
  <2>3. \A d \in Conns : Shrinks(d)
    BY <1>2, <1>3, <2>1, <2>2
  <2> QED BY <1>7, <2>1, <2>2, <2>3
<1>10. CASE ConnectFailed
  <2>1. /\ job.at = "connect" /\ job'.at = "idle"
        /\ UNCHANGED <<conn, wire, resp, holder>>
    BY <1>10 DEF ConnectFailed, Idle
  <2>2. \A d \in Conns : \A by : ByOnly(d, by) => ByOnly(d, by)'
    BY <2>1 DEF ByOnly
  <2> QED BY <2>1, <2>2, OwnStep DEF Leaving
<1>11. ASSUME NEW c \in Conns, Connected(c)
       PROVE  OwnInv'
  <2>1. PICK cl \in Clients : cl = job.cl
    BY <1>11 DEF Connected, CleanInv, Inv, JobSound
  <2>2. /\ job.at = "connect" /\ job'.at = "idle" /\ UNCHANGED <<wire, resp, holder>>
        /\ c \notin alive /\ peer[c] = "none" /\ conn' = [conn EXCEPT ![cl] = c]
    BY <1>11, <2>1 DEF Connected, Idle
  <2>3. wire[c] = <<>> /\ resp[c] = <<>> /\ NoLock(c) /\ c # NULL
    BY <2>2, ConnTypes DEF ConnInv
  <2>4. ByOnly(c, cl)'
    BY <2>2, <2>3 DEF ByOnly, NoLock
  <2>5. \A x \in Clients \ {cl} : conn[x] # c
    BY <2>2, <2>3 DEF CleanInv, Inv, PoolSound
  <2>6. \A d \in Conns \ {c} : Shrinks(d)
    BY <2>2, ShrinkCases
  <2>7. job.at # "destruct"
    BY <2>2
  <2> QED BY <2>2, <2>4, <2>5, <2>6, <2>7, OwnAttach
<1> QED BY <1>4, <1>5, <1>6, <1>8, <1>9, <1>10, <1>11 DEF Resume

(* The destructor up to its wait.                                           *)
LEMMA DestructOwn ==
  ASSUME CleanInv, OwnInv, NEW cl \in Clients, Destruct(cl)
  PROVE  OwnInv'
<1>1. /\ job = Idle /\ job.at = "idle" /\ conn[cl] # NULL /\ UNCHANGED holder
  BY DEF Destruct, DestructPlain, DestructPersistent, DestructUnsent, Idle
<1>2. PICK c \in alive : c = conn[cl] /\ c \in Conns
  BY <1>1, AttachedCounted DEF CleanInv
<1>3. \A x \in Clients \ {cl} : conn[x] # c
  BY <1>1, <1>2 DEF OwnInv, OneOwner
<1>4. ASSUME \A d \in Conns \ {c} : wire'[d] = wire[d] /\ resp'[d] = resp[d],
             job'.at # "check",
             \/ job'.at = "destruct" /\ job'.cl = cl /\ UNCHANGED conn
             \/ job' = job /\ conn' = [conn EXCEPT ![cl] = NULL]
      PROVE  OwnInv'
  <2>1. \A d \in Conns \ {c} : \A by : ByOnly(d, by) => ByOnly(d, by)'
    BY <1>1, <1>4, ShrinkCases, ShrinksKeeps
  <2>2. /\ \A x \in Clients : conn'[x] = conn[x] \/ conn'[x] = NULL
        /\ Leaving(cl)' \/ conn'[cl] = NULL
    BY <1>4 DEF CleanInv, Inv, TypeOK, Leaving
  <2>3. \A x \in Clients, d \in Conns : conn'[x] = d /\ ~Leaving(x)' =>
          ~Leaving(x) /\ (ByOnly(d, x) => ByOnly(d, x)')
    BY <1>1, <1>3, <2>1, <2>2, NullAssumption DEF Leaving
  <2> QED BY <1>4, <2>2, <2>3, OwnStep
<1>5. CASE DestructPlain(cl)
  BY <1>1, <1>2, <1>4, <1>5 DEF DestructPlain, FreeConn, CleanInv, Inv, TypeOK
<1>6. CASE DestructPersistent(cl)
  <2>1. /\ \E n : Written(c, "unlockall", NULL, n, NULL)
        /\ job'.at = "destruct" /\ job'.cl = cl /\ UNCHANGED <<conn, resp>>
    BY <1>2, <1>6 DEF DestructPersistent
  <2>2. \A d \in Conns \ {c} : wire'[d] = wire[d]
    BY <1>1, <1>2, <2>1, SentByOwner
  <2> QED BY <1>4, <2>1, <2>2
<1>7. CASE DestructUnsent(cl)
  <2>1. PICK m : m = Detached(c)
    OBVIOUS
  <2>2. /\ SendFails(c, "default", m[c].serial, NULL) /\ BrokenConnection(c, m)
        /\ mem[c].pkey # NULL /\ UNCHANGED job /\ conn' = [conn EXCEPT ![cl] = NULL]
    BY <1>2, <1>7, <2>1 DEF DestructUnsent
  <2>3. m \in [Conns -> Mem] /\ m[c].pkey = mem[c].pkey
    <3>1. mem[c].refs \in Nat \ {0}
      BY <1>1, <1>2, AttachedCounted DEF CleanInv
    <3> QED BY <1>2, <2>1, <3>1, DetachedSame DEF CleanInv
  <2>4. /\ \A d \in Conns \ {c} : resp'[d] = resp[d]
        /\ resp'[c] = resp[c] \/ resp'[c] = <<>>
    <3>1. resp' = [resp EXCEPT ![c] = <<>>] \/ resp' = resp
      BY <2>2, <2>3, BrokenCases DEF CleanInv
    <3> QED BY <1>2, <3>1 DEF CleanInv, Inv, TypeOK
  <2>5. \E n : Written(c, "torn", NULL, n, NULL) \/ UNCHANGED wire
    BY <2>2 DEF SendFails
  <2>6. \A d \in Conns \ {c} : wire'[d] = wire[d]
    BY <1>1, <1>2, <2>4, <2>5, SentByOwner
  <2> QED BY <1>1, <1>4, <2>2, <2>4, <2>6
<1> QED BY <1>5, <1>6, <1>7 DEF Destruct

(* A method of the client.                                                  *)
LEMMA MethodOwn ==
  ASSUME CleanInv, OwnInv, NEW cl \in Clients, Method(cl)
  PROVE  OwnInv'
<1>1. /\ job = Idle /\ job.at = "idle" /\ conn[cl] # NULL
      /\ UNCHANGED <<conn, holder, job>>
  BY DEF Method, Command, CommandFails, Recv, RecvGarbled, SetTimeout, Using, Idle
<1>2. PICK c \in alive : c = conn[cl] /\ c \in Conns
  BY <1>1, AttachedCounted DEF CleanInv
<1>3. \A x \in Clients \ {cl} : conn[x] # c
  BY <1>1, <1>2 DEF OwnInv, OneOwner
<1>4. ASSUME ByOnly(c, cl) => ByOnly(c, cl)',
             \A d \in Conns \ {c} : wire'[d] = wire[d] /\ resp'[d] = resp[d]
      PROVE  OwnInv'
  <2>1. \A d \in Conns \ {c} : \A by : ByOnly(d, by) => ByOnly(d, by)'
    BY <1>1, <1>4, ShrinkCases, ShrinksKeeps
  <2>2. \A x \in Clients, d \in Conns : conn'[x] = d /\ ~Leaving(x)' =>
          ~Leaving(x) /\ (ByOnly(d, x) => ByOnly(d, x)')
    BY <1>1, <1>2, <1>3, <1>4, <2>1 DEF Leaving
  <2>3. job'.at # "check"
    BY <1>1
  <2> QED BY <1>1, <2>2, <2>3, OwnStep
<1>5. ASSUME UNCHANGED resp,
             \E op, key, n : Written(c, op, key, n, cl) \/ UNCHANGED wire
      PROVE  OwnInv'
  <2>1. PICK op, key, n : Written(c, op, key, n, cl) \/ UNCHANGED wire
    BY <1>5
  <2>2. /\ ByOnly(c, cl) => ByOnly(c, cl)'
        /\ \A d \in Conns \ {c} : wire'[d] = wire[d]
    BY <1>1, <1>2, <1>5, <2>1, SentByOwner
  <2> QED BY <1>4, <1>5, <2>2
<1>6. ASSUME NEW op, NEW key, Command(cl, op, key)
      PROVE  OwnInv'
  <2>1. UNCHANGED resp /\ Written(c, op, key, mem[c].serial + 1, cl)
    BY <1>2, <1>6 DEF Command
  <2> QED BY <1>5, <2>1
<1>7. CASE CommandFails(cl)
  <2>1. UNCHANGED resp /\ SendFails(c, mem[c].timeout, mem[c].serial + 1, cl)
    BY <1>2, <1>7 DEF CommandFails
  <2>2. UNCHANGED wire \/ Written(c, "torn", NULL, mem[c].serial + 1, cl)
    BY <2>1 DEF SendFails
  <2> QED BY <1>5, <2>1, <2>2
<1>8. CASE Recv(cl)
  <2>1. CanRecv(c) /\ resp' = [resp EXCEPT ![c] = Tail(@)] /\ UNCHANGED wire
    BY <1>2, <1>8 DEF Recv
  <2>2. /\ \A d \in Conns \ {c} : resp'[d] = resp[d]
        /\ resp'[c] = Tail(resp[c]) /\ resp[c] # <<>>
    BY <2>1, RecvStep
  <2>3. Shrinks(c)
    BY <1>1, <1>2, <2>1, <2>2, ShrinkCases
  <2> QED BY <1>4, <2>1, <2>2, <2>3, ShrinksKeeps
<1>9. CASE RecvGarbled(cl) \/ SetTimeout(cl)
  <2>1. UNCHANGED <<wire, resp>>
    BY <1>9 DEF RecvGarbled, SetTimeout
  <2> QED BY <1>5, <2>1
<1> QED BY <1>6, <1>7, <1>8, <1>9 DEF Method

(* The server answers a request in the name of the client that made it, and *)
(* gives a lock to that client.                                             *)
LEMMA ReplyOwn ==
  ASSUME CleanInv, NEW c \in Conns, NEW n \in {1, 2}, NEW status, NEW op,
         Serving(c, op), n <= Len(wire[c]), Reply(c, n, status),
         \A k \in Keys : \/ holder'[k] = holder[k]
                         \/ holder'[k] = Nobody
                         \/ op = "lock" /\ holder'[k] = [conn |-> c, by |-> Head(wire[c]).by]
  PROVE  /\ \A d \in Conns \ {c} : Shrinks(d)
         /\ \A by : ByOnly(c, by) => ByOnly(c, by)'
         /\ Unused(c) => Unused(c)'
<1> DEFINE s == [serial |-> Head(wire[c]).serial, status |-> status,
                 by |-> Head(wire[c]).by]
           v == SubSeq(wire[c], n + 1, Len(wire[c]))
           h == [conn |-> c, by |-> Head(wire[c]).by]
<1>1. /\ wire[c] \in Seq(Request) /\ resp[c] \in Seq(Response)
      /\ wire[c] # <<>> /\ Head(wire[c]) = wire[c][1] /\ wire[c][1].op = op
      /\ 1 \in 1..Len(wire[c])
  <2>1. wire[c] \in Seq(Request) /\ resp[c] \in Seq(Response)
    BY ConnTypes
  <2>2. wire[c] # <<>> /\ Head(wire[c]).op = op
    BY DEF Serving
  <2> QED BY <2>1, <2>2
<1>2. /\ s.by = wire[c][1].by /\ h.conn = c /\ h.by = wire[c][1].by
  BY <1>1
<1>3. /\ wire'[c] = v
      /\ resp'[c] = resp[c] \/ resp'[c] = Append(resp[c], s)
      /\ \A d \in Conns \ {c} : wire'[d] = wire[d] /\ resp'[d] = resp[d]
  <2>1. /\ wire' = [wire EXCEPT ![c] = v]
        /\ resp' = IF peer[c] = "open"
                   THEN [resp EXCEPT ![c] = Append(@, s)] ELSE resp
    BY DEF Reply
  <2> HIDE DEF v, s
  <2> QED BY <2>1 DEF CleanInv, Inv, TypeOK
<1>4. \A i \in 1..Len(v) : v[i] = wire[c][i + n] /\ i + n \in 1..Len(wire[c])
  <2>1. n + 1 \in 1..Len(wire[c]) + 1 /\ Len(wire[c]) \in Nat
    BY <1>1
  <2>2. Len(v) = Len(wire[c]) - n
    BY <1>1, <2>1
  <2>3. \A i \in 1..Len(v) : v[i] = wire[c][i + n]
    BY <1>1, <2>1, <2>2
  <2> QED BY <2>1, <2>2, <2>3
<1>5. \A k \in Keys : \/ holder'[k] = holder[k]
                      \/ holder'[k] = Nobody
                      \/ op = "lock" /\ holder'[k] = h
  OBVIOUS
<1>6. Nobody.conn = NULL /\ NULL \notin Conns
  BY NullAssumption DEF Nobody
<1> HIDE DEF v, s, h
<1>7. \A i \in 1..Len(resp'[c]) : \/ i \in 1..Len(resp[c]) /\ resp'[c][i] = resp[c][i]
                                  \/ resp'[c][i] = s
  <2>1. CASE resp'[c] = resp[c]
    BY <2>1
  <2>2. CASE resp'[c] = Append(resp[c], s)
    BY <1>1, <2>2
  <2> QED BY <1>3, <2>1, <2>2
<1>8. ASSUME NEW d \in Conns \ {c}
      PROVE  Shrinks(d)
  <2>1. \A k \in Keys : holder'[k].conn = d => holder'[k] = holder[k]
    BY <1>2, <1>5, <1>6
  <2>2. wire'[d] = wire[d] /\ resp'[d] = resp[d]
    BY <1>3
  <2> QED BY <2>1, <2>2 DEF Shrinks
<1>9. ASSUME NEW by, ByOnly(c, by)
      PROVE  ByOnly(c, by)'
  <2>1. wire[c][1].by = by
    BY <1>1, <1>9 DEF ByOnly
  <2>2. \A i \in 1..Len(wire'[c]) : wire'[c][i].by = by
    BY <1>3, <1>4, <1>9, SMTT(30) DEF ByOnly
  <2>3. \A i \in 1..Len(resp'[c]) : resp'[c][i].by = by
    BY <1>2, <1>7, <1>9, <2>1 DEF ByOnly
  <2>4. \A k \in Keys : holder'[k].conn = c => holder'[k].by = by
    BY <1>2, <1>5, <1>6, <1>9, <2>1 DEF ByOnly
  <2> QED BY <2>2, <2>3, <2>4 DEF ByOnly
<1>10. ASSUME Unused(c)
       PROVE  Unused(c)'
  <2>1. op # "lock"
    BY <1>1, <1>10 DEF Unused
  <2>2. NoLock(c)'
    BY <1>5, <1>6, <1>10, <2>1 DEF Unused, NoLock
  <2>3. \A i \in 1..Len(wire'[c]) : wire'[c][i].op = "noop"
    BY <1>3, <1>4, <1>10 DEF Unused
  <2> QED BY <2>2, <2>3 DEF Unused
<1> QED BY <1>8, <1>9, <1>10

(* A step of the server.                                                    *)
LEMMA ServerOwn ==
  ASSUME CleanInv, OwnInv, NEW c \in Conns, ServerStep(c)
  PROVE  OwnInv'
<1>1. UNCHANGED <<conn, job>>
  BY DEF ServerStep, Serve, ServeLock, ServeUnlock, ServeUnlockAll, ServeNoop,
       ServeGet, ServeTorn, ServerCloses, SessionReaped
<1>2. ASSUME \A d \in Conns : /\ \A by : ByOnly(d, by) => ByOnly(d, by)'
                              /\ Unused(d) => Unused(d)'
      PROVE  OwnInv'
  BY <1>1, <1>2, OwnStep DEF Leaving
<1>3. ASSUME NEW op, NEW n \in {1, 2}, NEW status, Serving(c, op),
             n <= Len(wire[c]), Reply(c, n, status),
             \A k \in Keys : \/ holder'[k] = holder[k]
                             \/ holder'[k] = Nobody
                             \/ op = "lock" /\ holder'[k] = [conn |-> c, by |-> Head(wire[c]).by]
      PROVE  OwnInv'
  <2>1. /\ \A d \in Conns \ {c} : Shrinks(d)
        /\ \A by : ByOnly(c, by) => ByOnly(c, by)'
        /\ Unused(c) => Unused(c)'
    BY <1>3, ReplyOwn
  <2>2. \A d \in Conns \ {c} : /\ \A by : ByOnly(d, by) => ByOnly(d, by)'
                               /\ Unused(d) => Unused(d)'
    BY <2>1, ShrinksKeeps
  <2> QED BY <1>2, <2>1, <2>2
<1>4. /\ wire[c] \in Seq(Request) /\ (wire[c] # <<>> => 1 <= Len(wire[c]))
      /\ holder \in [Keys -> Holder]
  BY ConnTypes DEF CleanInv, Inv, TypeOK
<1>5. \A k \in Keys : Unlocked(c)[k] = IF holder[k].conn = c THEN Nobody ELSE holder[k]
  BY DEF Unlocked
<1>6. CASE ServeLock(c)
  <2> DEFINE h == [conn |-> c, by |-> Head(wire[c]).by]
  <2>1. Serving(c, "lock") /\ 1 <= Len(wire[c])
    BY <1>4, <1>6 DEF ServeLock, Serving
  <2>2. \E status : Reply(c, 1, status)
    BY <1>6 DEF ServeLock
  <2>3. \/ UNCHANGED holder
        \/ holder' = [holder EXCEPT ![Head(wire[c]).key] = h]
    BY <1>6 DEF ServeLock
  <2>4. \A k \in Keys : holder'[k] = holder[k] \/ holder'[k] = h
    <3> HIDE DEF h
    <3> QED BY <1>4, <2>3
  <2> QED BY <1>3, <2>1, <2>2, <2>4
<1>7. CASE ServeUnlock(c)
  <2>1. Serving(c, "unlock") /\ 1 <= Len(wire[c])
    BY <1>4, <1>7 DEF ServeUnlock, Serving
  <2>2. \E status : Reply(c, 1, status)
    BY <1>7 DEF ServeUnlock
  <2>3. \/ UNCHANGED holder
        \/ holder' = [holder EXCEPT ![Head(wire[c]).key] = Nobody]
    BY <1>7 DEF ServeUnlock
  <2>4. \A k \in Keys : holder'[k] = holder[k] \/ holder'[k] = Nobody
    BY <1>4, <2>3
  <2> QED BY <1>3, <2>1, <2>2, <2>4
<1>8. CASE ServeUnlockAll(c)
  <2>1. Serving(c, "unlockall") /\ 1 <= Len(wire[c])
    BY <1>4, <1>8 DEF ServeUnlockAll, Serving
  <2>2. \E status : Reply(c, 1, status)
    BY <1>8 DEF ServeUnlockAll
  <2>3. UNCHANGED holder \/ holder' = Unlocked(c)
    BY <1>8 DEF ServeUnlockAll
  <2>4. \A k \in Keys : holder'[k] = holder[k] \/ holder'[k] = Nobody
    BY <1>5, <2>3
  <2> QED BY <1>3, <2>1, <2>2, <2>4
<1>9. ASSUME ServeNoop(c) \/ ServeGet(c)
      PROVE  OwnInv'
  <2>1. \E op : Serving(c, op) /\ 1 <= Len(wire[c])
    BY <1>4, <1>9 DEF ServeNoop, ServeGet, Serving
  <2>2. (\E status : Reply(c, 1, status)) /\ UNCHANGED holder
    BY <1>9 DEF ServeNoop, ServeGet
  <2> QED BY <1>3, <2>1, <2>2
<1>10. CASE ServeTorn(c)
  <2>1. /\ Serving(c, "torn") /\ 2 <= Len(wire[c]) /\ UNCHANGED holder
        /\ Reply(c, 2, "ok")
    BY <1>4, <1>10 DEF ServeTorn, Serving
  <2> QED BY <1>3, <2>1
<1>11. CASE ServerCloses(c) \/ SessionReaped(c)
  <2>1. /\ wire' = [wire EXCEPT ![c] = <<>>] /\ holder' = Unlocked(c)
        /\ resp' = resp \/ resp' = [resp EXCEPT ![c] = <<>>]
    BY <1>11 DEF ServerCloses, SessionReaped
  <2>2. /\ wire'[c] = <<>> /\ (resp'[c] = resp[c] \/ resp'[c] = <<>>)
        /\ \A d \in Conns \ {c} : wire'[d] = wire[d] /\ resp'[d] = resp[d]
    BY <2>1 DEF CleanInv, Inv, TypeOK
  <2>3. \A k \in Keys : holder'[k] = holder[k] \/ holder'[k].conn = NULL
    BY <1>5, <2>1 DEF Nobody
  <2>4. \A d \in Conns, k \in Keys : holder'[k].conn = d => holder'[k] = holder[k]
    BY <2>3, NullAssumption
  <2>5. ASSUME NEW d \in Conns
        PROVE  Shrinks(d)
    <3>1. Len(<<>>) = 0
      OBVIOUS
    <3>2. \A i \in 1..Len(wire'[d]) : \E j \in 1..Len(wire[d]) : wire'[d][i] = wire[d][j]
      BY <2>2, <3>1
    <3>3. \A i \in 1..Len(resp'[d]) : \E j \in 1..Len(resp[d]) : resp'[d][i] = resp[d][j]
      BY <2>2, <3>1
    <3> QED BY <2>4, <3>2, <3>3 DEF Shrinks
  <2> QED BY <1>2, <2>5, ShrinksKeeps
<1> QED BY <1>6, <1>7, <1>8, <1>9, <1>10, <1>11 DEF ServerStep, Serve

(* Every step keeps the owners.                                             *)
LEMMA NextOwn ==
  ASSUME CleanInv, RefcountExact, ~Sharing, OwnInv, [Next]_vars
  PROVE  OwnInv'
<1>1. CASE UNCHANGED vars
  BY <1>1 DEF vars, OwnInv, OneOwner, Owned, CheckAlone, Leaving, ByOnly, Unused, NoLock
<1>2. CASE ProcessEnds
  <2>1. /\ job' = job /\ job.at = "idle"
        /\ \A cl \in Clients : conn'[cl] = conn[cl] /\ conn[cl] = NULL
    BY <1>2 DEF ProcessEnds, Idle
  <2> QED BY <2>1, NullAssumption DEF OwnInv, OneOwner, Owned, CheckAlone
<1>3. CASE Next
  BY <1>2, <1>3, NextCases, ConstructOwn, ResumeOwn, DestructOwn, MethodOwn, ServerOwn
<1> QED BY <1>1, <1>3

(* The property.                                                            *)
LEMMA OwnIsOwn ==
  ASSUME CleanInv, OwnInv
  PROVE  OwnTraffic
<1> SUFFICES ASSUME job = Idle, NEW cl \in Clients, conn[cl] # NULL
             PROVE  ByOnly(conn[cl], cl)
  BY DEF OwnTraffic, ByOnly
<1>1. conn[cl] \in Conns /\ job.at = "idle"
  BY DEF CleanInv, Inv, TypeOK, Idle
<1> QED BY <1>1 DEF OwnInv, Owned, Leaving

(* No client has a connection at first.                                     *)
LEMMA InitOwn ==
  ASSUME Init
  PROVE  OwnInv
BY NullAssumption DEF Init, Idle, OwnInv, OneOwner, Owned, CheckAlone

(* A client of yrmcds.c finds on its connection only its own requests,      *)
(* answers and locks, never those of an object that had it before, as long  *)
(* as no program names the id of a live client and __construct runs once    *)
(* per object: check_persistent_connection and destruct_conn.               *)
THEOREM TrafficIsOwn == ~Sharing /\ ~Reconstruct /\ Spec => []OwnTraffic
<1>1. CASE Sharing \/ Reconstruct
  BY <1>1
<1>2. CASE ~Sharing /\ ~Reconstruct
  <2>1. Init => CleanInv /\ OwnInv
    BY InitClean, InitOwn
  <2>2. CleanInv => RefcountExact
    BY <1>2 DEF CleanInv, Inv, Counted, RefcountExact
  <2>3. CleanInv /\ OwnInv /\ [Next]_vars => CleanInv' /\ OwnInv'
    BY <1>2, <2>2, NextClean, NextOwn
  <2>4. CleanInv /\ OwnInv => OwnTraffic
    BY OwnIsOwn
  <2> QED BY <2>1, <2>3, <2>4, PTL DEF Spec
<1> QED BY <1>1, <1>2

-----------------------------------------------------------------------------
(* PHP 5.  A second __construct ends the process there, so its counts are   *)
(* exact although the program may call __construct again.                   *)

(* Steps that move no client and no count.                                  *)
LEMMA CountKept ==
  ASSUME RefcountExact, alive' \subseteq alive,
         \A d \in alive' : mem'[d].refs = mem[d].refs /\ Users(d)' = Users(d)
  PROVE  RefcountExact'
BY DEF RefcountExact

(* A client without a connection gets c.                                    *)
LEMMA CountAttached ==
  ASSUME CleanInv, RefcountExact, NEW c \in alive, NEW cl \in Clients,
         conn[cl] = NULL, conn' = [conn EXCEPT ![cl] = c],
         job.at # "destruct", job'.at # "destruct", UNCHANGED alive,
         \A d \in Conns \ {c} : mem'[d].refs = mem[d].refs,
         mem'[c].refs = mem[c].refs + 1
  PROVE  RefcountExact'
<1>1. /\ conn \in [Clients -> Conns \cup {NULL}] /\ alive \subseteq Conns
      /\ NULL \notin Conns
  BY NullAssumption DEF CleanInv, Inv, TypeOK
<1>2. Users(c)' = Users(c) \cup {cl} /\ cl \notin Users(c)
  BY <1>1 DEF Users
<1>3. \A d \in Conns \ {c} : Users(d)' = Users(d)
  BY <1>1 DEF Users
<1>4. Cardinality(Users(c) \cup {cl}) = Cardinality(Users(c)) + 1
  BY <1>2, UsersMove
<1> QED BY <1>1, <1>2, <1>3, <1>4 DEF RefcountExact

(* The client cl gives c back, and c is kept or freed.                      *)
LEMMA CountLeft ==
  ASSUME CleanInv, RefcountExact, NEW c \in alive, NEW cl \in Clients,
         conn[cl] = c, job.at # "destruct",
         \/ conn' = [conn EXCEPT ![cl] = NULL] /\ job'.at # "destruct"
         \/ UNCHANGED conn /\ job'.at = "destruct" /\ job'.cl = cl,
         alive' \subseteq alive,
         \A d \in Conns \ {c} : mem'[d].refs = mem[d].refs,
         c \in alive' => mem'[c].refs = mem[c].refs - 1
  PROVE  RefcountExact'
<1>1. /\ conn \in [Clients -> Conns \cup {NULL}] /\ alive \subseteq Conns
      /\ NULL \notin Conns
  BY NullAssumption DEF CleanInv, Inv, TypeOK
<1>2. Users(c)' = Users(c) \ {cl} /\ cl \in Users(c)
  BY <1>1 DEF Users
<1>3. \A d \in Conns \ {c} : Users(d)' = Users(d)
  BY <1>1 DEF Users
<1>4. Cardinality(Users(c) \ {cl}) = Cardinality(Users(c)) - 1
  BY <1>2, UsersMove
<1> QED BY <1>1, <1>2, <1>3, <1>4, ZenonT(60) DEF RefcountExact

(* A connection that breaks goes only with a count of 0.                    *)
LEMMA BrokenCounts ==
  ASSUME CleanInv, NEW c \in alive, mem[c].pkey # NULL, NEW m \in [Conns -> Mem],
         m[c].pkey = mem[c].pkey, \A d \in Conns \ {c} : m[d].refs = mem[d].refs,
         BrokenConnection(c, m)
  PROVE  /\ alive' \subseteq alive
         /\ \A d \in Conns \ {c} : mem'[d].refs = mem[d].refs
         /\ c \in alive' => mem'[c].refs = m[c].refs
<1>1. c \in Conns /\ alive \subseteq Conns
  BY DEF CleanInv, Inv, TypeOK
<1>2. \/ alive' = alive \ {c} /\ mem' = [m EXCEPT ![c] = Blank]
      \/ mem' = m /\ UNCHANGED alive
  BY BrokenCases DEF CleanInv
<1> QED BY <1>1, <1>2

(* The process dies during a constructor.                                   *)
LEMMA WorkerDiesStep ==
  ASSUME CleanInv, WorkerDies
  PROVE  CleanInv' /\ RefcountExact' /\ OwnInv'
<1>1. /\ UNCHANGED <<wire, holder, detect>> /\ job' = Idle /\ alive' = {}
      /\ \A c \in Conns : resp'[c] = <<>>
      /\ \A cl \in Clients : conn'[cl] = NULL
      /\ job'.at = "idle" /\ job'.conn = NULL
  BY DEF WorkerDies, Idle
<1>2. TypeOK'
  <2>1. Blank \in Mem /\ Idle \in Job
    BY DEF Blank, NewMem, Mem, Idle, Job
  <2>2. mem' \in [Conns -> Mem]
    BY <2>1 DEF WorkerDies
  <2>3. peer' \in [Conns -> {"none", "open", "gone", "eof"}]
    BY DEF WorkerDies, CleanInv, Inv, TypeOK
  <2>4. resp' \in [Conns -> Seq(Response)]
    BY DEF WorkerDies
  <2>5. /\ persistent_list' \in [Ids -> Conns \cup {NULL}]
        /\ conn' \in [Clients -> Conns \cup {NULL}]
    BY DEF WorkerDies
  <2> QED BY <1>1, <2>1, <2>2, <2>3, <2>4, <2>5 DEF CleanInv, Inv, TypeOK
<1>3. PoolSound' /\ JobSound' /\ Counted'
  <2>1. \A id \in Ids : persistent_list'[id] = NULL
    BY DEF WorkerDies
  <2> QED BY <1>1, <2>1 DEF PoolSound, JobSound, Counted
<1>4. LocksNeedServer' /\ \A d : NoLock(d)' = NoLock(d)
  BY <1>1 DEF CleanInv, LocksNeedServer, NoLock
<1>5. ASSUME NEW c \in Conns
      PROVE  ConnInv(c)'
  <2>1. ConnInv(c) /\ c # NULL
    BY ConnTypes
  <2>2. peer'[c] = CASE c \notin alive   -> peer[c]
                     [] peer[c] = "open" -> "eof"
                     [] OTHER            -> "none"
    BY DEF WorkerDies
  <2>3. CASE c \notin alive
    BY <1>1, <1>4, <2>1, <2>2, <2>3 DEF ConnInv, Draining
  <2>4. CASE c \in alive
    <3>1. \/ peer[c] = "open" /\ peer'[c] = "eof"
          \/ peer[c] = "gone" /\ peer'[c] = "none"
      BY <2>1, <2>2, <2>4 DEF ConnInv
    <3> QED BY <1>1, <1>4, <2>1, <2>4, <3>1 DEF ConnInv, Draining
  <2> QED BY <2>3, <2>4
<1>6. RefcountExact'
  BY <1>1 DEF RefcountExact
<1>7. OwnInv'
  BY <1>1, NullAssumption DEF OwnInv, OneOwner, Owned, CheckAlone
<1> QED BY <1>2, <1>3, <1>4, <1>5, <1>6, <1>7 DEF CleanInv, Inv

(* The counts stay exact while __construct finds the property unset.        *)
LEMMA ConstructCount ==
  ASSUME CleanInv, RefcountExact, NEW cl \in Clients, NEW id \in Ids,
         UseExisting(cl, id)
  PROVE  RefcountExact'
<1>1. /\ MayConstruct(cl, id) /\ Entry(id) # NULL /\ job.at = "idle"
  BY DEF UseExisting, ConstructReuse, ConstructCheck, ConstructCheckUnsent,
         MayConstruct, Idle
<1>2. PICK c : c = persistent_list[id]
  OBVIOUS
<1>3. c \in alive /\ c \in Conns /\ mem[c].pkey # NULL /\ alive \subseteq Conns
  BY <1>1, <1>2, NullAssumption DEF CleanInv, Inv, TypeOK, PoolSound, Entry
<1>4. CASE FirstTime(cl) /\ ConstructReuse(cl, id)
  <2>1. /\ conn[cl] = NULL /\ conn' = [conn EXCEPT ![cl] = c]
        /\ mem' = [mem EXCEPT ![c].refs = @ + 1] /\ UNCHANGED <<alive, job>>
    BY <1>2, <1>4 DEF FirstTime, ConstructReuse
  <2>2. /\ \A d \in Conns \ {c} : mem'[d].refs = mem[d].refs
        /\ mem'[c].refs = mem[c].refs + 1
    BY <1>3, <2>1 DEF CleanInv, Inv, TypeOK, Mem
  <2> QED BY <1>1, <1>3, <2>1, <2>2, CountAttached
<1>5. PICK m : m = NextSerial([mem EXCEPT ![c].timeout = "check"], c)
  OBVIOUS
<1>6. /\ m \in [Conns -> Mem] /\ m[c].pkey = mem[c].pkey
      /\ \A d \in Conns : m[d].refs = mem[d].refs
  <2>1. m \in [Conns -> Mem]
    BY <1>3, <1>5, MemTypes DEF CleanInv, Inv
  <2> QED BY <1>3, <1>5, <2>1 DEF NextSerial, CleanInv, Inv, TypeOK, Mem
<1>7. CASE ConstructCheck(cl, id)
  <2>1. UNCHANGED <<conn, alive>> /\ mem' = m /\ job'.at = "check"
    BY <1>2, <1>5, <1>7 DEF ConstructCheck
  <2>2. \A d : Users(d)' = Users(d)
    BY <1>1, <2>1 DEF Users
  <2> QED BY <1>3, <1>6, <2>1, <2>2, CountKept
<1>8. CASE ConstructCheckUnsent(cl, id)
  <2>1. UNCHANGED conn /\ BrokenConnection(c, m) /\ job'.at \in {"connect", "idle"}
    BY <1>2, <1>5, <1>8 DEF ConstructCheckUnsent, AfterBrokenCheck, Idle
  <2>2. \A d : Users(d)' = Users(d)
    BY <1>1, <2>1 DEF Users
  <2>3. /\ alive' \subseteq alive
        /\ \A d \in Conns \ {c} : mem'[d].refs = mem[d].refs
        /\ c \in alive' => mem'[c].refs = m[c].refs
    BY <1>3, <1>6, <2>1, BrokenCounts
  <2> QED BY <1>3, <1>6, <2>2, <2>3, CountKept
<1> QED BY <1>4, <1>7, <1>8 DEF UseExisting

(* So they do when a blocked handler goes on.                               *)
LEMMA ResumeCount ==
  ASSUME CleanInv, RefcountExact,
         \/ \E c \in Conns : Connect(c)
         \/ ConnectFailed \/ DrainSkip
         \/ CheckReturns \/ CheckBreaks \/ ResourceDtorReturns
  PROVE  RefcountExact'
<1>1. ASSUME Draining
      PROVE  \E c \in alive : /\ c = job.conn /\ c \in Conns
                              /\ mem[c].pkey # NULL /\ mem[c].refs \in Nat
                              /\ job.cl \in Clients
  BY <1>1, DrainedConn, NullAssumption DEF CleanInv
<1>2. alive \subseteq Conns /\ conn \in [Clients -> Conns \cup {NULL}] /\ NULL \notin Conns
  BY NullAssumption DEF CleanInv, Inv, TypeOK
<1>3. ASSUME NEW c \in Conns, Connect(c)
      PROVE  RefcountExact'
  <2>1. PICK cl \in Clients : cl = job.cl
    BY <1>3 DEF Connect, Connected, CleanInv, Inv, JobSound
  <2>2. /\ job.at = "connect" /\ job'.at = "idle" /\ c \notin alive /\ c # NULL
        /\ alive' = alive \cup {c} /\ mem' = [mem EXCEPT ![c] = NewMem(job.id)]
        /\ conn' = [conn EXCEPT ![cl] = c] /\ conn[cl] = NULL
    BY <1>2, <1>3, <2>1 DEF Connect, Connected, FirstTime, Idle
  <2>3. \A x \in Clients : conn[x] # c
    BY <2>2 DEF CleanInv, Inv, PoolSound
  <2>4. Users(c)' = {cl}
    BY <1>2, <2>2, <2>3 DEF Users
  <2>5. \A d \in alive : Users(d)' = Users(d)
    BY <1>2, <2>2 DEF Users
  <2>6. mem'[c].refs = 1 /\ \A d \in alive : mem'[d].refs = mem[d].refs
    BY <1>2, <2>2 DEF NewMem, CleanInv, Inv, TypeOK
  <2>7. Cardinality({cl}) = 1
    BY FS_Singleton
  <2> QED BY <2>2, <2>4, <2>5, <2>6, <2>7 DEF RefcountExact
<1>4. CASE ConnectFailed \/ DrainSkip
  <2>1. /\ UNCHANGED <<conn, alive, mem>>
        /\ job' = job \/ (job.at # "destruct" /\ job'.at # "destruct")
    BY <1>4 DEF ConnectFailed, DrainSkip, Idle
  <2>2. \A d : Users(d)' = Users(d)
    BY <2>1 DEF Users
  <2> QED BY <2>1, <2>2, CountKept
<1>5. CASE CheckReturns
  <2>1. PICK c \in alive : c = job.conn /\ c \in Conns /\ job.cl \in Clients
    BY <1>1, <1>5 DEF CheckReturns, CheckPasses, Awaited
  <2>2. /\ conn[job.cl] = NULL /\ conn' = [conn EXCEPT ![job.cl] = c]
        /\ mem' = [mem EXCEPT ![c].timeout = "default", ![c].refs = @ + 1]
        /\ UNCHANGED alive /\ job.at = "check" /\ job'.at = "idle"
    BY <1>5, <2>1 DEF CheckReturns, FirstTime, CheckPasses, Idle
  <2>3. /\ \A d \in Conns \ {c} : mem'[d].refs = mem[d].refs
        /\ mem'[c].refs = mem[c].refs + 1
    <3>1. mem[c] \in Mem
      BY <2>1 DEF CleanInv, Inv, TypeOK
    <3>2. mem' = [mem EXCEPT ![c] = [mem[c] EXCEPT !.timeout = "default",
                                                  !.refs = @ + 1]]
      BY <2>2
    <3>3. \A d \in Conns : mem'[d] =
            IF d = c THEN [mem[c] EXCEPT !.timeout = "default", !.refs = @ + 1]
            ELSE mem[d]
      BY <2>1, <3>2 DEF CleanInv, Inv, TypeOK
    <3> QED BY <2>1, <3>1, <3>3 DEF Mem
  <2> QED BY <2>1, <2>2, <2>3, CountAttached
<1>6. ASSUME NEW c \in alive, c \in Conns, mem[c].pkey # NULL,
             BrokenConnection(c, MarkInvalid(c)), \A d \in Conns : Users(d)' = Users(d)
      PROVE  RefcountExact'
  <2>1. PICK m : m = MarkInvalid(c)
    OBVIOUS
  <2>2. /\ m \in [Conns -> Mem] /\ m[c].pkey = mem[c].pkey /\ BrokenConnection(c, m)
        /\ \A d \in Conns : m[d].refs = mem[d].refs
    BY <1>6, <2>1, MarkedSame DEF CleanInv
  <2>3. /\ alive' \subseteq alive
        /\ \A d \in Conns \ {c} : mem'[d].refs = mem[d].refs
        /\ c \in alive' => mem'[c].refs = m[c].refs
    BY <1>6, <2>2, BrokenCounts
  <2> QED BY <1>2, <1>6, <2>2, <2>3, CountKept
<1>7. CASE CheckBreaks
  <2>1. PICK c \in alive : c = job.conn /\ c \in Conns /\ mem[c].pkey # NULL
    BY <1>1, <1>7 DEF CheckBreaks, Draining
  <2>2. /\ BrokenConnection(c, MarkInvalid(c)) /\ UNCHANGED conn
        /\ job.at = "check" /\ job'.at \in {"connect", "idle"}
    BY <1>7, <2>1 DEF CheckBreaks, AfterBrokenCheck, Idle
  <2>3. \A d : Users(d)' = Users(d)
    BY <2>2 DEF Users
  <2> QED BY <1>6, <2>1, <2>2, <2>3
<1>8. ASSUME job.at = "destruct", job'.at = "idle",
             conn' = [conn EXCEPT ![job.cl] = NULL]
      PROVE  \A d \in Conns : Users(d)' = Users(d)
  BY <1>2, <1>8 DEF Users
<1>9. CASE DestructDone
  <2>1. /\ job.at = "destruct" /\ job'.at = "idle" /\ UNCHANGED <<alive, mem>>
        /\ conn' = [conn EXCEPT ![job.cl] = NULL]
    BY <1>9 DEF DestructDone, Idle
  <2> QED BY <1>2, <1>8, <2>1, CountKept
<1>10. CASE DestructBreaks
  <2>1. PICK c \in alive : c = job.conn /\ c \in Conns /\ mem[c].pkey # NULL
    BY <1>1, <1>10 DEF DestructBreaks, Draining
  <2>2. /\ BrokenConnection(c, MarkInvalid(c)) /\ conn' = [conn EXCEPT ![job.cl] = NULL]
        /\ job.at = "destruct" /\ job'.at = "idle"
    BY <1>10, <2>1 DEF DestructBreaks, Idle
  <2> QED BY <1>6, <1>8, <2>1, <2>2
<1> QED BY <1>3, <1>4, <1>5, <1>7, <1>9, <1>10 DEF ResourceDtorReturns

(* The resource destructor up to its wait.                                  *)
LEMMA DestructCount ==
  ASSUME CleanInv, RefcountExact, NEW cl \in Clients, ResourceDtor(cl)
  PROVE  RefcountExact'
<1>1. /\ job = Idle /\ job.at = "idle" /\ conn[cl] # NULL
  BY DEF ResourceDtor, DestructPlain, DestructPersistent, DestructUnsent, Idle
<1>2. PICK c \in alive : c = conn[cl] /\ c \in Conns /\ mem[c].refs \in Nat \ {0}
  BY <1>1, AttachedCounted DEF CleanInv
<1>3. PICK m : m = Detached(c)
  OBVIOUS
<1>4. /\ m \in [Conns -> Mem] /\ m[c].pkey = mem[c].pkey
      /\ \A d \in Conns \ {c} : m[d].refs = mem[d].refs
      /\ m[c].refs = mem[c].refs - 1
  BY <1>2, <1>3, DetachedSame DEF CleanInv
<1>5. CASE DestructPlain(cl)
  <2>1. /\ alive' = alive \ {c} /\ mem' = [mem EXCEPT ![c] = Blank]
        /\ conn' = [conn EXCEPT ![cl] = NULL] /\ UNCHANGED job
    BY <1>2, <1>5 DEF DestructPlain, FreeConn
  <2>2. \A d \in Conns \ {c} : mem'[d].refs = mem[d].refs
    BY <2>1 DEF CleanInv, Inv, TypeOK
  <2> QED BY <1>1, <1>2, <2>1, <2>2, CountLeft
<1>6. CASE DestructPersistent(cl)
  <2>1. /\ mem' = m /\ UNCHANGED <<conn, alive>>
        /\ job'.at = "destruct" /\ job'.cl = cl
    BY <1>2, <1>3, <1>6 DEF DestructPersistent
  <2> QED BY <1>1, <1>2, <1>4, <2>1, CountLeft
<1>7. CASE DestructUnsent(cl)
  <2>1. /\ BrokenConnection(c, m) /\ mem[c].pkey # NULL
        /\ conn' = [conn EXCEPT ![cl] = NULL] /\ UNCHANGED job
    BY <1>2, <1>3, <1>7 DEF DestructUnsent
  <2>2. /\ alive' \subseteq alive
        /\ \A d \in Conns \ {c} : mem'[d].refs = mem[d].refs
        /\ c \in alive' => mem'[c].refs = m[c].refs
    BY <1>2, <1>4, <2>1, BrokenCounts
  <2> QED BY <1>1, <1>2, <1>4, <2>1, <2>2, CountLeft
<1> QED BY <1>5, <1>6, <1>7 DEF ResourceDtor

(* Neither methods nor the server move a client or a count.                 *)
LEMMA QuietCount ==
  ASSUME CleanInv, RefcountExact,
         \/ \E cl \in Clients, id \in Ids \cup {NULL} : ConstructNotFound(cl, id)
         \/ \E cl \in Clients : Method(cl)
         \/ \E c \in Conns : ServerStep(c)
  PROVE  RefcountExact'
<1>1. ASSUME UNCHANGED <<conn, alive>>,
             job' = job \/ (job.at # "destruct" /\ job'.at # "destruct"),
             \A d \in Conns : mem'[d].refs = mem[d].refs
      PROVE  RefcountExact'
  <2>1. \A d : Users(d)' = Users(d)
    BY <1>1 DEF Users
  <2> QED BY <1>1, <2>1, CountKept DEF CleanInv, Inv, TypeOK
<1>2. ASSUME NEW cl \in Clients, NEW id \in Ids \cup {NULL}, ConstructNotFound(cl, id)
      PROVE  RefcountExact'
  BY <1>1, <1>2 DEF ConstructNotFound, MayConstruct, Idle
<1>3. ASSUME NEW cl \in Clients, Method(cl)
      PROVE  RefcountExact'
  <2>1. UNCHANGED <<conn, alive, job>> /\ job.at = "idle" /\ conn[cl] # NULL
    BY <1>3 DEF Method, Command, CommandFails, Recv, RecvGarbled, SetTimeout, Using, Idle
  <2>2. conn[cl] \in Conns
    BY <2>1 DEF CleanInv, Inv, TypeOK
  <2>3. \/ mem' = mem
        \/ mem' = NextSerial(mem, conn[cl])
        \/ mem' = MarkInvalid(conn[cl])
        \/ mem' = [mem EXCEPT ![conn[cl]].timeout = "user"]
    BY <1>3 DEF Method, Command, CommandFails, Recv, RecvGarbled, SetTimeout
  <2>4. \A d \in Conns : mem'[d].refs = mem[d].refs
    <3>1. PICK c \in Conns : c = conn[cl]
      BY <2>2
    <3>2. CASE mem' = mem
      BY <3>2
    <3>3. CASE mem' = NextSerial(mem, c)
      BY <3>3 DEF NextSerial, CleanInv, Inv, TypeOK, Mem
    <3>4. CASE mem' = MarkInvalid(c)
      BY <3>4, MarkedSame DEF CleanInv
    <3>5. CASE mem' = [mem EXCEPT ![c].timeout = "user"]
      BY <3>5 DEF CleanInv, Inv, TypeOK, Mem
    <3> QED BY <2>3, <3>1, <3>2, <3>3, <3>4, <3>5
  <2> QED BY <1>1, <2>1, <2>4, SMTT(30)
<1>4. ASSUME NEW c \in Conns, ServerStep(c)
      PROVE  RefcountExact'
  <2>1. UNCHANGED <<conn, alive, mem, job>>
    BY <1>4 DEF ServerStep, Serve, ServeLock, ServeUnlock, ServeUnlockAll, ServeNoop,
                ServeGet, ServeTorn, ServerCloses, SessionReaped
  <2> QED BY <1>1, <2>1, SMTT(30)
<1> QED BY <1>2, <1>3, <1>4

(* Every step of the PHP 5 extension but the end of the process is one that *)
(* the PHP 7 extension could take.                                          *)
LEMMA Php5Cases ==
  ASSUME Php5Next
  PROVE  \/ WorkerDies
         \/ Next /\ \/ \E cl \in Clients, id \in Ids : UseExisting(cl, id)
                    \/ \/ \E c \in Conns : Connect(c)
                       \/ ConnectFailed \/ DrainSkip
                       \/ CheckReturns \/ CheckBreaks \/ ResourceDtorReturns
                    \/ \E cl \in Clients : ResourceDtor(cl)
                    \/ \/ \E cl \in Clients, id \in Ids \cup {NULL} : ConstructNotFound(cl, id)
                       \/ \E cl \in Clients : Method(cl)
                       \/ \E c \in Conns : ServerStep(c)
                    \/ ProcessEnds
<1>1. ASSUME NEW cl \in Clients, ConstructAgain(cl)
      PROVE  WorkerDies
  BY <1>1 DEF ConstructAgain
<1>2. ASSUME NEW cl \in Clients, NEW id \in Ids, UseExisting(cl, id)
      PROVE  Next
  BY <1>2 DEF UseExisting, Next
<1>3. ASSUME \/ \E c \in Conns : Connect(c)
             \/ ConnectFailed \/ DrainSkip
             \/ CheckReturns \/ CheckBreaks \/ ResourceDtorReturns
      PROVE  Next
  BY <1>3 DEF Connect, CheckReturns, ResourceDtorReturns, Resume, Next
<1>4. ASSUME NEW cl \in Clients, ResourceDtor(cl)
      PROVE  Next
  BY <1>4 DEF ResourceDtor, Next
<1>5. ASSUME NEW cl \in Clients, Methods(cl)
      PROVE  Next /\ Method(cl)
  BY <1>5 DEF Methods, Method, Next
<1>6. ASSUME NEW c \in Conns, Serve(c) \/ ServerCloses(c) \/ SessionReaped(c)
      PROVE  Next /\ ServerStep(c)
  BY <1>6 DEF ServerStep, Next
<1>7. ASSUME NEW cl \in Clients, NEW id \in Ids \cup {NULL}, ConstructNotFound(cl, id)
      PROVE  Next
  BY <1>7 DEF Next
<1>8. ASSUME ResourcePdtor
      PROVE  Next /\ ProcessEnds
  BY <1>8 DEF ResourcePdtor, Next
<1> QED BY <1>1, <1>2, <1>3, <1>4, <1>5, <1>6, <1>7, <1>8 DEF Php5Next

(* The counts stay exact, and CleanInv with them.                           *)
LEMMA Php5NextCount ==
  ASSUME CleanInv, RefcountExact, [Php5Next]_vars
  PROVE  CleanInv' /\ RefcountExact'
<1>1. CASE UNCHANGED vars
  <2>1. UNCHANGED <<conn, alive, mem, job>>
    BY <1>1 DEF vars
  <2>2. \A d : Users(d)' = Users(d)
    BY <2>1 DEF Users
  <2> QED BY <1>1, <2>1, <2>2, CountKept, NextClean
<1>2. CASE WorkerDies
  BY <1>2, WorkerDiesStep
<1>3. CASE ProcessEnds
  <2>1. alive' = {}
    BY <1>3 DEF ProcessEnds
  <2> QED BY <1>3, <2>1, ProcessEndsClean DEF RefcountExact
<1>4. CASE Php5Next
  BY <1>2, <1>3, <1>4, Php5Cases, NextClean, ConstructCount, ResumeCount,
     DestructCount, QuietCount
<1> QED BY <1>1, <1>4

(* In PHP 5, reference_count is the number of users, for programs that call *)
(* __construct again as well: yrmcds_php5.c.                                *)
THEOREM Php5CountIsExact == Php5Spec => []RefcountExact
<1>1. Init => CleanInv /\ RefcountExact
  BY InitClean DEF Init, RefcountExact
<1>2. CleanInv /\ RefcountExact /\ [Php5Next]_vars => CleanInv' /\ RefcountExact'
  BY Php5NextCount
<1> QED BY <1>1, <1>2, PTL DEF Php5Spec

(* In PHP 5, a client finds on its connection only its own requests,        *)
(* answers and locks, for programs that call __construct again as well, as  *)
(* long as none names the id of a live client.                              *)
THEOREM Php5TrafficIsOwn == ~Sharing /\ Php5Spec => []OwnTraffic
<1>1. CASE Sharing
  BY <1>1
<1>2. CASE ~Sharing
  <2>1. Init => CleanInv /\ RefcountExact /\ OwnInv
    BY InitClean, InitOwn DEF Init, RefcountExact
  <2>2. CleanInv /\ RefcountExact /\ OwnInv /\ [Php5Next]_vars
          => CleanInv' /\ RefcountExact' /\ OwnInv'
    <3> SUFFICES ASSUME CleanInv, RefcountExact, OwnInv, [Php5Next]_vars
                 PROVE  CleanInv' /\ RefcountExact' /\ OwnInv'
      OBVIOUS
    <3>1. CleanInv' /\ RefcountExact'
      BY Php5NextCount
    <3>2. CASE WorkerDies
      BY <3>2, WorkerDiesStep
    <3>3. CASE [Next]_vars
      BY <1>2, <3>1, <3>3, NextOwn
    <3>4. WorkerDies \/ [Next]_vars
      BY Php5Cases
    <3> QED BY <3>1, <3>2, <3>3, <3>4
  <2>3. CleanInv /\ OwnInv => OwnTraffic
    BY OwnIsOwn
  <2> QED BY <2>1, <2>2, <2>3, PTL DEF Php5Spec
<1> QED BY <1>1, <1>2
=============================================================================
