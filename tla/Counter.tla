------------------------------ MODULE Counter ------------------------------
(* The counter client of libyrmcds (counter.c) and the tool on it (yc-cnt.c): *)
(* users that run one command after another against a server that counts     *)
(* resources.  A response is taken apart from the bytes that have arrived,   *)
(* wherever they were cut.                                                   *)
(*                                                                         *)
(* A field of a frame is one unit, whatever its width, and so is a character *)
(* of a name or value.                                                      *)
EXTENDS Integers, SequencesExt

CONSTANTS
  Users,
  Sessions,   \* what the users may do: [Users -> sequence of invocations]
  NULL,       \* a number sscanf cannot read
  MaxName,    \* UINT16_MAX
  RecvSize,   \* RECV_SIZE, and the capacity yrmcds_cnt_connect gives
  Stats       \* what the server tells of itself: names with values

(* A command line: the command, how many arguments follow it and what they    *)
(* are, the options, and how often its program calls recv again.            *)
Invocation ==
  [cmd : STRING, argc : Nat, name : Seq(Nat), resources : Nat \cup {NULL},
   initial : Nat \cup {NULL}, port : Int, help : BOOLEAN, retries : Nat]

ASSUME UsersAssumption    == IsFiniteSet(Users)
ASSUME SessionsAssumption == Sessions \subseteq [Users -> Seq(Invocation)]
ASSUME NullAssumption     == NULL \notin Nat
ASSUME SizeAssumption     == RecvSize \in Nat \ {0} /\ MaxName \in Nat
ASSUME StatsAssumption    == Stats \in Seq([name : Seq(Nat), value : Seq(Nat)])

VARIABLES
  session,  \* what each user does
  proc,     \* the process of each: pc, invocation, serial, receives left, exit code
  cnt,      \* the buffer of its yrmcds_cnt
  wire,     \* its request under way
  answer,   \* the responses of the server to it
  sent,     \* how many of them are on the socket
  stream,   \* what the server has sent it and the buffer has not dropped
  alive,    \* the server has the connection
  held,     \* resources each user holds of each counter
  limit,    \* maximum of each counter
  shown,    \* what the invocation has written to its output
  told      \* history: the answer of the server: its status, Garbage or Nothing,
            \* and what each of its responses says

counterVars ==
  <<session, proc, cnt, wire, answer, sent, stream, alive, held, limit, shown, told>>

(* magic, command, status, body length, serial.                             *)
Header == 5
Magic  == 145

CMD == [noop |-> 0, get |-> 1, acquire |-> 2, release |-> 3, stats |-> 16, dump |-> 17]
STATUS == [OK |-> 0, NOT_FOUND |-> 1, RESOURCE_NOT_AVAILABLE |-> 33, NOT_ACQUIRED |-> 34]

Garbage == -1
Nothing == -2

(* nomem is history: append_stat has found no memory.                        *)
NoCnt == [used |-> 0, last |-> 0, capacity |-> RecvSize, invalid |-> FALSE, nomem |-> FALSE]

CntTypeOK ==
  \A u \in Users :
    /\ proc[u].pc \in {"idle", "connecting", "open", "calling", "reading", "exited"}
    /\ proc[u].n \in 0..Len(session[u]) /\ proc[u].code \in 0..2
    /\ cnt[u].last <= cnt[u].used /\ cnt[u].used <= cnt[u].capacity
    /\ cnt[u].used <= Len(stream[u])
    /\ Len(wire[u]) <= 1

CounterInit ==
  /\ session \in Sessions
  /\ proc = [u \in Users |-> [pc |-> "idle", n |-> 0, serial |-> 0, retries |-> 0, code |-> 0]]
  /\ cnt = [u \in Users |-> NoCnt]
  /\ wire = [u \in Users |-> <<>>]
  /\ answer = [u \in Users |-> <<>>]
  /\ sent = [u \in Users |-> 0]
  /\ stream = [u \in Users |-> <<>>]
  /\ alive = [u \in Users |-> FALSE]
  /\ held = <<>> /\ limit = <<>>
  /\ shown = [u \in Users |-> <<>>]
  /\ told = [u \in Users |-> [status |-> Nothing, out |-> <<>>]]

Now(u) == session[u][proc[u].n]

-----------------------------------------------------------------------------
(* The commands of the library: a request, or a refusal.                    *)
BadArgument == [cmd |-> -1, name |-> <<>>, resources |-> 0, initial |-> 0]

Request(cmd, name, resources, initial) ==
  [cmd |-> cmd, name |-> name, resources |-> resources, initial |-> initial]

Named(name, request) == IF Len(name) \in 1..MaxName THEN request ELSE BadArgument

yrmcds_cnt_noop      == Request(CMD.noop, <<>>, 0, 0)
yrmcds_cnt_get(name) == Named(name, Request(CMD.get, name, 0, 0))

yrmcds_cnt_acquire(name, resources, initial) ==
  IF resources \in 1..initial
  THEN Named(name, Request(CMD.acquire, name, resources, initial)) ELSE BadArgument

yrmcds_cnt_release(name, resources) == Named(name, Request(CMD.release, name, resources, 0))
yrmcds_cnt_stats == Request(CMD.stats, <<>>, 0, 0)
yrmcds_cnt_dump  == Request(CMD.dump, <<>>, 0, 0)

(* main, past the connection: the request of a command; NULL for a wrong     *)
(* number of arguments, a number that is none, and an unknown command.      *)
Command(i) ==
  LET counted(n, request) == IF i.argc = n THEN request ELSE BadArgument
      read(n, request)    == IF n = NULL THEN BadArgument ELSE request
  IN CASE i.cmd = "noop"    -> counted(0, yrmcds_cnt_noop)
       [] i.cmd = "get"     -> counted(1, yrmcds_cnt_get(i.name))
       [] i.cmd = "acquire" -> counted(3, read(i.resources, read(i.initial,
                                 yrmcds_cnt_acquire(i.name, i.resources, i.initial))))
       [] i.cmd = "release" -> counted(2, read(i.resources,
                                 yrmcds_cnt_release(i.name, i.resources)))
       [] i.cmd = "stats"   -> counted(0, yrmcds_cnt_stats)
       [] i.cmd = "dump"    -> counted(0, yrmcds_cnt_dump)
       [] OTHER             -> BadArgument

Options(i) == i.help \/ i.port \notin 1..65535 \/ i.cmd = ""

-----------------------------------------------------------------------------
Start(u) ==
  /\ proc[u].pc \in {"idle", "exited"} /\ proc[u].n < Len(session[u]) /\ ~alive[u]
  /\ LET i == session[u][proc[u].n + 1] IN
     proc' = [proc EXCEPT ![u] =
       [pc |-> IF Options(i) THEN "exited" ELSE "connecting", n |-> proc[u].n + 1, serial |-> 0,
        retries |-> i.retries, code |-> IF Options(i) THEN 1 ELSE 0]]
  /\ shown' = [shown EXCEPT ![u] = <<>>]
  /\ told' = [told EXCEPT ![u] = [status |-> Nothing, out |-> <<>>]]
  /\ answer' = [answer EXCEPT ![u] = <<>>]
  /\ sent' = [sent EXCEPT ![u] = 0]
  /\ UNCHANGED <<session, cnt, wire, stream, alive, held, limit>>

(* The process ends: yrmcds_cnt_close.                                      *)
Exits(u, code) ==
  /\ proc' = [proc EXCEPT ![u].pc = "exited", ![u].code = code]
  /\ cnt' = [cnt EXCEPT ![u] = NoCnt]
  /\ stream' = [stream EXCEPT ![u] = <<>>]

(* yrmcds_cnt_connect; what connect_to_server does in it is in Connect.     *)
Connects(u) ==
  /\ proc[u].pc = "connecting"
  /\ \/ /\ proc' = [proc EXCEPT ![u].pc = "open"]
        /\ cnt' = [cnt EXCEPT ![u] = NoCnt]
        /\ alive' = [alive EXCEPT ![u] = TRUE]
        /\ UNCHANGED stream
     \/ Exits(u, 1) /\ UNCHANGED alive
  /\ UNCHANGED <<session, wire, answer, sent, held, limit, shown, told>>

(* send_command.                                                            *)
Sends(u) ==
  /\ proc[u].pc = "open" /\ Command(Now(u)) # BadArgument
  /\ proc' = [proc EXCEPT ![u].pc = "calling", ![u].serial = @ + 1]
  /\ wire' = [wire EXCEPT ![u] = IF alive[u]
       THEN <<[serial |-> proc[u].serial + 1, request |-> Command(Now(u))]>> ELSE @]
  /\ UNCHANGED <<session, cnt, answer, sent, stream, alive, held, limit, shown, told>>

(* Refused by main or by the library, or writev failed on a connection that *)
(* is lost.                                                                 *)
SendFails(u) ==
  /\ proc[u].pc = "open" /\ (Command(Now(u)) = BadArgument \/ ~alive[u])
  /\ Exits(u, 1)
  /\ UNCHANGED <<session, wire, answer, sent, alive, held, limit, shown, told>>

-----------------------------------------------------------------------------
(* yrmcds_cnt_recv.                                                         *)

(* Mutant: all that has arrived is dropped with the last response.          *)
DropsRest(u) ==
  /\ proc[u].pc = "calling" /\ ~cnt[u].invalid
  /\ stream' = [stream EXCEPT ![u] = IF cnt[u].last = 0 THEN @ ELSE SubSeq(@, cnt[u].used + 1, Len(@))]
  /\ cnt' = [cnt EXCEPT ![u].used = IF cnt[u].last = 0 THEN @ ELSE 0, ![u].last = 0]
  /\ proc' = [proc EXCEPT ![u].pc = "reading"]
  /\ UNCHANGED <<session, wire, answer, sent, alive, held, limit, shown, told>>

(* A call drops the response of the last one and moves the rest to the front. *)
BeginRecv(u) ==
  /\ proc[u].pc = "calling" /\ ~cnt[u].invalid
  /\ stream' = [stream EXCEPT ![u] = SubSeq(@, cnt[u].last + 1, Len(@))]
  /\ cnt' = [cnt EXCEPT ![u].used = @ - cnt[u].last, ![u].last = 0]
  /\ proc' = [proc EXCEPT ![u].pc = "reading"]
  /\ UNCHANGED <<session, wire, answer, sent, alive, held, limit, shown, told>>

(* The header, once it has arrived.                                         *)
Field(u, n) == stream[u][n]
WrongMagic(u) == Field(u, 1) # Magic
BodyLength(u) == Field(u, 4)

NeedsData(u) ==
  cnt[u].used >= Header => ~WrongMagic(u) /\ cnt[u].used < Header + BodyLength(u)

(* Mutant: the buffer grows only when it is full.                           *)
GrownWhenFull(u) == IF cnt[u].used = cnt[u].capacity THEN 2 * cnt[u].capacity ELSE cnt[u].capacity

(* recv_data.                                                               *)
Grown(u) ==
  IF cnt[u].capacity - cnt[u].used < RecvSize THEN 2 * cnt[u].capacity ELSE cnt[u].capacity

RecvData(u) ==
  /\ proc[u].pc = "reading" /\ NeedsData(u)
  /\ \E k \in 1..RecvSize :
       /\ cnt[u].used + k <= Len(stream[u])
       /\ cnt' = [cnt EXCEPT ![u].used = @ + k, ![u].capacity = Grown(u)]
  /\ UNCHANGED <<session, proc, wire, answer, sent, stream, alive, held, limit, shown, told>>

(* Mutant: no receive timeout is set.                                       *)
NeverTimesOut(u) ==
  /\ proc[u].pc = "reading" /\ NeedsData(u)
  /\ ~alive[u] /\ cnt[u].used = Len(stream[u])
  /\ Exits(u, 1)
  /\ UNCHANGED <<session, wire, answer, sent, alive, held, limit, shown, told>>

(* The timeout of a second, no memory, or the end of the stream.  yc-cnt     *)
(* exits; another program may call yrmcds_cnt_recv again.                   *)
RecvDataFails(u) ==
  /\ proc[u].pc = "reading" /\ NeedsData(u)
  /\ \/ /\ proc[u].retries > 0
        /\ proc' = [proc EXCEPT ![u].pc = "calling", ![u].retries = @ - 1]
        /\ UNCHANGED <<cnt, stream>>
     \/ Exits(u, 1)
  /\ UNCHANGED <<session, wire, answer, sent, alive, held, limit, shown, told>>

(* parse_statistics: the pairs from position p on, unless one of them is     *)
(* longer than the body; AppendStatFails is where it runs out of memory.    *)
parse_statistics(body) ==
  LET end == Len(body)
      size(p) == 2 + body[p] + body[p + 1]
      from[p \in 1..(end + 1)] ==
        IF p = end + 1 THEN [ok |-> TRUE, out |-> <<>>]
        ELSE IF p + 1 > end \/ p + size(p) > end + 1 THEN [ok |-> FALSE, out |-> <<>>]
        ELSE [ok  |-> from[p + size(p)].ok,
              out |-> SubSeq(body, p + 2, p + size(p) - 1) \o from[p + size(p)].out]
  IN from[1]

(* Mutant: a name that fills the record is taken for too long.              *)
NameMustEnd(body) ==
  LET fits == Len(body) >= 3 /\ Len(body) > 3 + body[3]
  IN [ok  |-> body = <<>> \/ fits,
      out |-> IF fits THEN SubSeq(body, 1, 2) \o SubSeq(body, 4, 3 + body[3]) ELSE <<>>]

(* Consumption, maximum and name; an empty body ends the dump.              *)
parse_dump_record(body) ==
  LET fits == Len(body) >= 3 /\ Len(body) >= 3 + body[3]
  IN [ok  |-> body = <<>> \/ fits,
      out |-> IF fits THEN SubSeq(body, 1, 2) \o SubSeq(body, 4, 3 + body[3]) ELSE <<>>]

(* What a body says, by the command in the header.                          *)
Parsed(command, body) ==
  CASE command \in {CMD.get, CMD.acquire} ->
         [ok |-> body # <<>>, out |-> IF body = <<>> THEN <<>> ELSE <<Head(body)>>]
    [] command = CMD.stats -> parse_statistics(body)
    [] command = CMD.dump  -> parse_dump_record(body)
    [] OTHER               -> [ok |-> TRUE, out |-> <<>>]

(* recv_or_die waits for the response to its own request.                   *)
Own(u) == Field(u, 5) = proc[u].serial

(* A dump goes on until a record is empty.                                  *)
GoesOn(u, body) == Now(u).cmd = "dump" /\ Field(u, 3) = STATUS.OK /\ body # <<>>

(* Header and body are complete, or the header is wrong; what the command    *)
(* makes of it.                                                             *)
Received(u) ==
  /\ proc[u].pc = "reading" /\ ~NeedsData(u)
  /\ LET body == SubSeq(stream[u], Header + 1, Header + BodyLength(u))
         got  == Parsed(Field(u, 2), body)
         fine == ~WrongMagic(u) /\ (Field(u, 3) # STATUS.OK \/ got.ok)
         more == ~Own(u) \/ GoesOn(u, body)
         keep == cnt' = [cnt EXCEPT ![u].invalid = ~fine, ![u].last =
                           IF WrongMagic(u) THEN @ ELSE Header + BodyLength(u)]
     IN \/ ~fine /\ proc[u].retries > 0 /\ keep /\ UNCHANGED <<stream, shown>>
           /\ proc' = [proc EXCEPT ![u].pc = "calling"]
        \/ ~fine /\ proc[u].retries = 0 /\ Exits(u, 1) /\ UNCHANGED shown
        \/ /\ fine /\ more /\ keep /\ UNCHANGED stream
           /\ proc' = [proc EXCEPT ![u].pc = "calling"]
           /\ shown' = [shown EXCEPT ![u] = IF Own(u) THEN Append(@, got.out) ELSE @]
        \/ /\ fine /\ ~more
           /\ Exits(u, IF Field(u, 3) = STATUS.OK THEN 0 ELSE 2)
           /\ shown' = [shown EXCEPT ![u] = IF Field(u, 3) = STATUS.OK THEN Append(@, got.out) ELSE @]
  /\ UNCHANGED <<session, wire, answer, sent, alive, held, limit, told>>

(* append_stat finds no memory for a pair of the statistics, which leaves the *)
(* connection as invalid as an answer that is garbled does.                 *)
AppendStatFails(u) ==
  /\ proc[u].pc = "reading" /\ ~NeedsData(u) /\ ~WrongMagic(u)
  /\ Field(u, 2) = CMD.stats /\ Field(u, 3) = STATUS.OK /\ BodyLength(u) > 0
  /\ parse_statistics(SubSeq(stream[u], Header + 1, Header + BodyLength(u))).ok
  /\ \/ /\ proc[u].retries > 0
        /\ cnt' = [cnt EXCEPT ![u].invalid = TRUE, ![u].nomem = TRUE, ![u].last = Header + BodyLength(u)]
        /\ proc' = [proc EXCEPT ![u].pc = "calling"]
        /\ UNCHANGED stream
     \/ proc[u].retries = 0 /\ Exits(u, 1)
  /\ UNCHANGED <<session, wire, answer, sent, alive, held, limit, shown, told>>

(* Every later call on an invalid connection fails at once.                 *)
RecvInvalid(u) ==
  /\ proc[u].pc = "calling" /\ cnt[u].invalid
  /\ Exits(u, 1)
  /\ UNCHANGED <<session, wire, answer, sent, alive, held, limit, shown, told>>

-----------------------------------------------------------------------------
(* The server (external): counters, and what each connection holds of them. *)
Total(name) == Cardinality({p \in Users \X (1..limit[name]) : p[2] <= held[name][p[1]]})

Known(name) == name \in DOMAIN limit

Frame(serial, cmd, status, body) == <<Magic, cmd, status, Len(body), serial>> \o body

(* The statistics: the pairs with their lengths.                            *)
Pair(stat) == <<Len(stat.name), Len(stat.value)>> \o stat.name \o stat.value
StatsBody  == FlattenSeq([n \in 1..Len(Stats) |-> Pair(Stats[n])])
StatsSaid  == FlattenSeq([n \in 1..Len(Stats) |-> Stats[n].name \o Stats[n].value])

(* A name as the body carries it, and the counters in some order.           *)
Record(name) == <<Total(name), limit[name], Len(name)>> \o name
Listing == CHOOSE s \in [1..Cardinality(DOMAIN limit) -> DOMAIN limit] :
             \A m, n \in DOMAIN s : s[m] = s[n] => m = n

Status(u, q) ==
  CASE q.cmd \in {CMD.get, CMD.release} /\ ~Known(q.name) -> STATUS.NOT_FOUND
    [] q.cmd = CMD.release /\ Known(q.name) /\ held[q.name][u] < q.resources -> STATUS.NOT_ACQUIRED
    [] q.cmd = CMD.acquire
         /\ (IF Known(q.name) THEN Total(q.name) + q.resources > limit[q.name]
             ELSE q.resources > q.initial) -> STATUS.RESOURCE_NOT_AVAILABLE
    [] OTHER -> STATUS.OK

(* The bodies of the responses to a request, and what they say.             *)
Bodies(q, status) ==
  IF status # STATUS.OK THEN << <<7>> >>
  ELSE CASE q.cmd = CMD.get     -> << <<Total(q.name)>> >>
         [] q.cmd = CMD.acquire -> << <<q.resources>> >>
         [] q.cmd = CMD.stats   -> <<StatsBody>>
         [] q.cmd = CMD.dump    -> Append([n \in DOMAIN Listing |-> Record(Listing[n])], <<>>)
         [] OTHER -> << <<>> >>

Says(q, status) ==
  CASE status = STATUS.OK /\ q.cmd = CMD.stats -> <<StatsSaid>>
    [] status = STATUS.OK /\ q.cmd = CMD.dump  ->
         Append([n \in DOMAIN Listing |-> <<Total(Listing[n]), limit[Listing[n]]>> \o Listing[n]], <<>>)
    [] OTHER -> Bodies(q, status)

(* The first frame without its magic or without the end of its body.        *)
Garbled(frame) ==
  {[frame EXCEPT ![1] = 0]}
  \cup (IF frame[4] = 0 \/ frame[3] # STATUS.OK THEN {}
        ELSE {SubSeq([frame EXCEPT ![4] = @ - 1], 1, Len(frame) - 1)})

Handle(u) ==
  /\ alive[u] /\ wire[u] # <<>>
  /\ wire' = [wire EXCEPT ![u] = <<>>]
  /\ \E q \in {Head(wire[u]).request} : \E status \in {Status(u, q)} :
       LET bodies == Bodies(q, status)
           frames == [n \in DOMAIN bodies |-> Frame(Head(wire[u]).serial, q.cmd, status, bodies[n])]
       IN /\ \/ /\ answer' = [answer EXCEPT ![u] = frames]
                /\ told' = [told EXCEPT ![u] = [status |-> status, out |-> Says(q, status)]]
             \/ /\ \E frame \in Garbled(frames[1]) :
                     answer' = [answer EXCEPT ![u] = [frames EXCEPT ![1] = frame]]
                /\ told' = [told EXCEPT ![u] = [status |-> Garbage, out |-> <<>>]]
          /\ held' = CASE status = STATUS.OK /\ q.cmd = CMD.acquire ->
                            [name \in DOMAIN held \cup {q.name} |-> [x \in Users |->
                               (IF name \in DOMAIN held THEN held[name][x] ELSE 0)
                               + (IF name = q.name /\ x = u THEN q.resources ELSE 0)]]
                       [] status = STATUS.OK /\ q.cmd = CMD.release ->
                            [held EXCEPT ![q.name][u] = @ - q.resources]
                       [] OTHER -> held
          /\ limit' = IF status = STATUS.OK /\ q.cmd = CMD.acquire /\ ~Known(q.name)
                      THEN [name \in DOMAIN limit \cup {q.name} |->
                              IF name = q.name THEN q.initial ELSE limit[name]]
                      ELSE limit
  /\ UNCHANGED <<session, proc, cnt, sent, stream, alive, shown>>

(* One response after the other goes to the socket while it is open.         *)
Reply(u) ==
  /\ alive[u] /\ sent[u] < Len(answer[u]) /\ proc[u].pc \in {"calling", "reading"}
  /\ stream' = [stream EXCEPT ![u] = @ \o answer[u][sent[u] + 1]]
  /\ sent' = [sent EXCEPT ![u] = @ + 1]
  /\ UNCHANGED <<session, proc, cnt, wire, answer, alive, held, limit, shown, told>>

(* The server sees that a connection is closed, or closes it itself, with     *)
(* any part of its responses still under way.                               *)
Lose(u) ==
  /\ alive' = [alive EXCEPT ![u] = FALSE]
  /\ wire' = [wire EXCEPT ![u] = <<>>]
  /\ held' = [name \in DOMAIN held |-> [held[name] EXCEPT ![u] = 0]]
  /\ UNCHANGED <<session, proc, cnt, answer, sent, limit, shown, told>>

Hangup(u) ==
  alive[u] /\ wire[u] = <<>> /\ proc[u].pc = "exited" /\ Lose(u) /\ UNCHANGED stream

Drop(u) ==
  /\ alive[u] /\ proc[u].pc # "exited" /\ Lose(u)
  /\ \E n \in cnt[u].used..Len(stream[u]) : stream' = [stream EXCEPT ![u] = SubSeq(@, 1, n)]

-----------------------------------------------------------------------------
Process(u) ==
  \/ Connects(u) \/ Sends(u) \/ SendFails(u) \/ BeginRecv(u)
  \/ RecvData(u) \/ RecvDataFails(u) \/ Received(u) \/ AppendStatFails(u) \/ RecvInvalid(u)

CounterNext == \E u \in Users :
  Start(u) \/ Process(u) \/ Handle(u) \/ Reply(u) \/ Hangup(u) \/ Drop(u)

CounterSpec == CounterInit /\ [][CounterNext]_counterVars

(* The tool runs, and the receive timeout ends a wait: nothing is asked of    *)
(* the server.                                                              *)
CounterFairSpec == CounterSpec /\ \A u \in Users : WF_counterVars(Process(u))

-----------------------------------------------------------------------------
(* Properties.                                                             *)

(* An exit with 0 has printed the answer of the server to this very request, *)
(* all of it and nothing else, however the bytes arrived; an exit with 2 is  *)
(* a refusal of the server; neither follows from an answer that is garbled.  *)
AnswerPrinted ==
  \A u \in Users :
    /\ proc[u].pc = "exited" /\ proc[u].code = 0 => told[u].status = STATUS.OK /\ shown[u] = told[u].out
    /\ proc[u].pc = "exited" /\ proc[u].code = 2 => told[u].status > STATUS.OK

(* A connection is given up as invalid only for an answer that is garbled,   *)
(* and for statistics there was no memory for: no other well-formed response *)
(* is refused, and none at all is read from its middle.                     *)
WellFormedAccepted ==
  \A u \in Users :
    /\ cnt[u].invalid => told[u].status = Garbage \/ (cnt[u].nomem /\ Now(u).cmd = "stats")
    /\ proc[u].pc = "reading" /\ cnt[u].used >= Header /\ WrongMagic(u) => told[u].status = Garbage

(* Every command ends, also when the server never answers.                  *)
CommandEnds ==
  \A u \in Users : proc[u].pc \notin {"idle", "exited"} ~> proc[u].pc = "exited"
=============================================================================
