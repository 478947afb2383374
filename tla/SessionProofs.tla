---------------------------- MODULE SessionProofs ----------------------------
(* Theorems about SessionHandler, for every number of workers and sessions,  *)
(* every width of the serials and every bound on the commands in flight.    *)
(*   1. The states have their types, and touch is answered by its own        *)
(*      response.                                                           *)
(*   2. An open session still has its lock, and its data is what was read.   *)
(*   3. A locked write replaces the data its writer has read.                *)
(* All of them follow from one inductive invariant, SessionInv.             *)
EXTENDS SessionHandler, SequenceTheorems, FiniteSetTheorems, TLAPS

-----------------------------------------------------------------------------
(* Serials, counted back from the last one.                                 *)
Serials == 0..(SerialMod - 1)

Back(serial, d) == IF d <= serial THEN serial - d ELSE serial + SerialMod - d

(* The serial after another is one more, and 0 after the last.              *)
LEMMA NextSerialIs ==
  ASSUME NEW serial \in Serials
  PROVE  /\ NextSerial(serial) = IF serial + 1 = SerialMod THEN 0 ELSE serial + 1
         /\ NextSerial(serial) \in Serials
<1>1. SerialMod \in Nat /\ SerialMod > 0
  BY SessionBounds
<1>2. CASE serial + 1 = SerialMod
  BY <1>1, <1>2 DEF NextSerial, Serials
<1>3. CASE serial + 1 < SerialMod
  <2>1. (serial + 1) % SerialMod = serial + 1
    BY <1>1, <1>3 DEF Serials
  <2>2. QED BY <1>1, <1>3, <2>1 DEF NextSerial, Serials
<1>4. QED BY <1>1, <1>2, <1>3 DEF Serials

(* A serial and the distance from the last one determine each other.        *)
LEMMA BackIs ==
  ASSUME NEW serial \in Serials, NEW d \in 0..(SerialMod - 1)
  PROVE  /\ Back(serial, d) \in Serials
         /\ Back(serial, d) = serial <=> d = 0
         /\ Back(serial, d) = NextSerial(serial) <=> d = SerialMod - 1
         /\ d + 1 < SerialMod => Back(NextSerial(serial), d + 1) = Back(serial, d)
<1>1. SerialMod \in Nat /\ SerialMod > 1
  BY SessionBounds
<1>2. QED BY <1>1, NextSerialIs DEF Back, Serials

-----------------------------------------------------------------------------
(* Queues.                                                                 *)
LEMMA TailOf ==
  ASSUME NEW S, NEW s \in Seq(S), s # <<>>
  PROVE  /\ Tail(s) \in Seq(S) /\ Len(s) \in Nat \ {0} /\ Len(Tail(s)) = Len(s) - 1
         /\ Head(s) = s[1] /\ s[1] \in S
         /\ \A n \in 1..Len(Tail(s)) : Tail(s)[n] = s[n + 1] /\ n + 1 \in 1..Len(s)
OBVIOUS

(* The empty queue has no element.                                          *)
LEMMA NothingIn == Len(<<>>) = 0
OBVIOUS

(* A queue with an element is not empty.                                    *)
LEMMA SomethingIn ==
  ASSUME NEW s, Len(s) \in Nat, Len(s) > 0
  PROVE  s # <<>>
OBVIOUS

(* The last element stays the last when the first leaves.                   *)
LEMMA LastTail ==
  ASSUME NEW S, NEW s \in Seq(S), s # <<>>
  PROVE  /\ Len(s) > 1 => Tail(s) # <<>> /\ Tail(s)[Len(Tail(s))] = s[Len(s)]
         /\ Tail(s) # <<>> => Len(s) > 1 /\ Len(Tail(s)) > 0 /\ 1 \in 1..Len(Tail(s))
<1>1. /\ Tail(s) \in Seq(S) /\ Len(s) \in Nat /\ Len(Tail(s)) = Len(s) - 1
      /\ \A n \in 1..Len(Tail(s)) : Tail(s)[n] = s[n + 1]
  BY TailOf
<1>2. Len(s) > 1 => Len(Tail(s)) \in Nat /\ Len(Tail(s)) > 0
  BY <1>1
<1>3. Len(s) > 1 => Tail(s) # <<>>
  BY <1>2, SomethingIn
<1>4. Len(s) > 1 => Tail(s)[Len(Tail(s))] = s[Len(s)]
  BY <1>1, <1>2
<1>5. Tail(s) # <<>> => Len(s) > 1
  OBVIOUS
<1>6. QED BY <1>2, <1>3, <1>4, <1>5

(* What Append does.                                                        *)
LEMMA AppendOf ==
  ASSUME NEW S, NEW s \in Seq(S), NEW e \in S
  PROVE  /\ Append(s, e) \in Seq(S) /\ Append(s, e) # <<>>
         /\ Len(s) \in Nat /\ Len(Append(s, e)) = Len(s) + 1
         /\ Append(s, e)[Len(s) + 1] = e
         /\ \A n \in 1..Len(s) : Append(s, e)[n] = s[n]
OBVIOUS

(* When a queue is empty, and what its elements are.                        *)
LEMMA EmptyIs ==
  ASSUME NEW S, NEW s \in Seq(S)
  PROVE  /\ Len(s) \in Nat /\ (s = <<>> <=> Len(s) = 0)
         /\ \A n \in 1..Len(s) : s[n] \in S
OBVIOUS

(* What a connection carries, in the order of the serials: sent has not been *)
(* carried out, got has not been received.                                  *)
InOrder(serial, sent, got) ==
  /\ \A n \in 1..Len(got) : got[n].serial = Back(serial, Len(sent) + Len(got) - n)
  /\ \A n \in 1..Len(sent) : sent[n].serial = Back(serial, Len(sent) - n)
  /\ Len(sent) + Len(got) <= MaxFlight

(* A recv keeps the serial order of a connection,                           *)
LEMMA ReceivedInOrder ==
  ASSUME NEW serial \in Serials, NEW sent \in Seq(Command), NEW got \in Seq(Answer),
         got # <<>>, InOrder(serial, sent, got)
  PROVE  InOrder(serial, sent, Tail(got))
<1>1. /\ Len(got) \in Nat /\ Len(Tail(got)) = Len(got) - 1 /\ Len(sent) \in Nat
      /\ \A n \in 1..Len(Tail(got)) : Tail(got)[n] = got[n + 1] /\ n + 1 \in 1..Len(got)
  BY TailOf, EmptyIs
<1>2. MaxFlight \in Nat
  BY SessionBounds
<1>3. \A n \in 1..Len(Tail(got)) :
        Tail(got)[n].serial = Back(serial, Len(sent) + Len(got) - (n + 1))
  BY <1>1 DEF InOrder
<1>4. \A n \in 1..Len(Tail(got)) : Len(sent) + Len(got) - (n + 1) = Len(sent) + Len(Tail(got)) - n
  BY <1>1
<1>5. QED BY <1>1, <1>2, <1>3, <1>4 DEF InOrder

(* and so does a send, which takes the next serial,                         *)
LEMMA SentInOrder ==
  ASSUME NEW serial \in Serials, NEW sent \in Seq(Command), NEW got \in Seq(Answer),
         NEW q \in Command, q.serial = NextSerial(serial),
         InOrder(serial, sent, got), Len(sent) + Len(got) < MaxFlight
  PROVE  InOrder(NextSerial(serial), Append(sent, q), got)
<1>1. /\ Len(got) \in Nat /\ Len(sent) \in Nat /\ Len(Append(sent, q)) = Len(sent) + 1
      /\ Append(sent, q)[Len(sent) + 1] = q
      /\ \A n \in 1..Len(sent) : Append(sent, q)[n] = sent[n]
  BY AppendOf, EmptyIs
<1>2. MaxFlight \in Nat /\ SerialMod \in Nat /\ MaxFlight < SerialMod
  BY SessionBounds
<1>3. ASSUME NEW d \in Nat, d < MaxFlight
      PROVE  Back(NextSerial(serial), d + 1) = Back(serial, d)
  BY <1>2, <1>3, BackIs
<1>4. ASSUME NEW n \in 1..Len(got)
      PROVE  got[n].serial = Back(NextSerial(serial), Len(sent) + 1 + Len(got) - n)
  <2>1. Len(sent) + Len(got) - n \in Nat /\ Len(sent) + Len(got) - n < MaxFlight
    BY <1>1, <1>2
  <2>2. Len(sent) + 1 + Len(got) - n = Len(sent) + Len(got) - n + 1
    BY <1>1
  <2>3. QED BY <1>3, <2>1, <2>2 DEF InOrder
<1>5. ASSUME NEW n \in 1..Len(sent)
      PROVE  sent[n].serial = Back(NextSerial(serial), Len(sent) + 1 - n)
  <2>1. Len(sent) - n \in Nat /\ Len(sent) - n < MaxFlight
    BY <1>1, <1>2
  <2>2. Len(sent) + 1 - n = Len(sent) - n + 1
    BY <1>1
  <2>3. QED BY <1>3, <2>1, <2>2 DEF InOrder
<1>6. q.serial = Back(NextSerial(serial), 0)
  BY NextSerialIs DEF Back, Serials
<1>7. QED BY <1>1, <1>2, <1>4, <1>5, <1>6 DEF InOrder

(* an answer of the server, which has the serial of its command,            *)
LEMMA AnsweredInOrder ==
  ASSUME NEW serial \in Serials, NEW sent \in Seq(Command), NEW got \in Seq(Answer),
         sent # <<>>, NEW a \in Answer, a.serial = Head(sent).serial,
         InOrder(serial, sent, got)
  PROVE  InOrder(serial, Tail(sent), Append(got, a))
<1>1. /\ Len(sent) \in Nat \ {0} /\ Len(Tail(sent)) = Len(sent) - 1 /\ Head(sent) = sent[1]
      /\ \A n \in 1..Len(Tail(sent)) : Tail(sent)[n] = sent[n + 1] /\ n + 1 \in 1..Len(sent)
      /\ Len(got) \in Nat /\ Len(Append(got, a)) = Len(got) + 1
      /\ Append(got, a)[Len(got) + 1] = a
      /\ \A n \in 1..Len(got) : Append(got, a)[n] = got[n]
  BY TailOf, AppendOf, EmptyIs
<1>2. MaxFlight \in Nat
  BY SessionBounds
<1>3. a.serial = Back(serial, Len(sent) - 1)
  BY <1>1 DEF InOrder
<1>4. \A n \in 1..Len(Tail(sent)) : Tail(sent)[n].serial = Back(serial, Len(sent) - (n + 1))
  BY <1>1 DEF InOrder
<1>5. \A n \in 1..Len(Tail(sent)) : Len(sent) - (n + 1) = Len(Tail(sent)) - n
  BY <1>1
<1>6. Len(Tail(sent)) + Len(Append(got, a)) = Len(sent) + Len(got)
  BY <1>1
<1>7. ASSUME NEW n \in 1..(Len(got) + 1)
      PROVE  Append(got, a)[n].serial = Back(serial, Len(sent) + Len(got) - n)
  <2>1. CASE n \in 1..Len(got)
    BY <1>1, <2>1 DEF InOrder
  <2>2. CASE n = Len(got) + 1
    BY <1>1, <1>3, <2>2
  <2>3. QED BY <1>1, <2>1, <2>2
<1>8. \A n \in 1..Len(Append(got, a)) : Append(got, a)[n].serial
              = Back(serial, Len(Tail(sent)) + Len(Append(got, a)) - n)
  BY <1>1, <1>6, <1>7
<1>9. \A n \in 1..Len(Tail(sent)) : Tail(sent)[n].serial = Back(serial, Len(Tail(sent)) - n)
  BY <1>4, <1>5
<1>10. Len(Tail(sent)) + Len(Append(got, a)) <= MaxFlight
  BY <1>6 DEF InOrder
<1>11. QED BY <1>8, <1>9, <1>10 DEF InOrder

(* and a command that is carried out without anyone to hear the answer.     *)
LEMMA DoneInOrder ==
  ASSUME NEW serial \in Serials, NEW sent \in Seq(Command), sent # <<>>,
         InOrder(serial, sent, <<>>)
  PROVE  InOrder(serial, Tail(sent), <<>>)
<1>1. /\ Len(sent) \in Nat \ {0} /\ Len(Tail(sent)) = Len(sent) - 1
      /\ \A n \in 1..Len(Tail(sent)) : Tail(sent)[n] = sent[n + 1] /\ n + 1 \in 1..Len(sent)
  BY TailOf
<1>2. MaxFlight \in Nat /\ Len(<<>>) = 0
  BY SessionBounds
<1>3. \A n \in 1..Len(Tail(sent)) : Tail(sent)[n].serial = Back(serial, Len(sent) - (n + 1))
  BY <1>1 DEF InOrder
<1>4. \A n \in 1..Len(Tail(sent)) : Len(sent) - (n + 1) = Len(Tail(sent)) - n
  BY <1>1
<1>5. QED BY <1>1, <1>2, <1>3, <1>4 DEF InOrder

-----------------------------------------------------------------------------
(* There is always a version that nobody refers to, as workers, sessions and *)
(* queues are finite.                                                       *)
LEMMA FiniteRange ==
  ASSUME NEW S, IsFiniteSet(S), NEW f
  PROVE  IsFiniteSet({f[x] : x \in S})
<1> DEFINE T == {f[x] : x \in S}
           g == [x \in S |-> f[x]]
<1>1. g \in Surjection(S, T)
  BY DEF Surjection
<1>2. QED BY <1>1, FS_Surjection

(* A union of finitely many finite sets is finite.                          *)
LEMMA FiniteUnion ==
  ASSUME NEW S, IsFiniteSet(S), NEW f, \A x \in S : IsFiniteSet(f[x])
  PROVE  IsFiniteSet(UNION {f[x] : x \in S})
BY FiniteRange, FS_UNION

(* What is queued on all connections is finite,                             *)
LEMMA FiniteQueues ==
  ASSUME NEW s, \A w \in Workers : Len(s[w]) \in Nat
  PROVE  IsFiniteSet(Queued(s))
<1> DEFINE f == [w \in Workers |-> {s[w][n] : n \in 1..Len(s[w])}]
<1>1. ASSUME NEW w \in Workers PROVE IsFiniteSet({s[w][n] : n \in 1..Len(s[w])})
  <2>1. IsFiniteSet(1..Len(s[w]))
    BY FS_Interval
  <2>2. QED BY <2>1, FiniteRange
<1>2. IsFiniteSet(UNION {f[w] : w \in Workers})
  <2>1. \A w \in Workers : IsFiniteSet(f[w])
    BY <1>1
  <2> HIDE DEF f
  <2>2. QED BY <2>1, FiniteAssumption, FiniteUnion
<1>3. {f[w] : w \in Workers} = {{s[w][n] : n \in 1..Len(s[w])} : w \in Workers}
  OBVIOUS
<1> HIDE DEF f
<1>4. QED BY <1>2, <1>3 DEF Queued

(* with the versions it writes and those it was made from,                  *)
LEMMA FiniteFields ==
  ASSUME NEW Q, IsFiniteSet(Q)
  PROVE  IsFiniteSet({q.version : q \in Q}) /\ IsFiniteSet({q.base : q \in Q})
<1> DEFINE f == [q \in Q |-> q.version]  g == [q \in Q |-> q.base]
<1>1. {f[q] : q \in Q} = {q.version : q \in Q} /\ {g[q] : q \in Q} = {q.base : q \in Q}
  OBVIOUS
<1> HIDE DEF f, g
<1>2. IsFiniteSet({f[q] : q \in Q}) /\ IsFiniteSet({g[q] : q \in Q})
  BY FiniteRange
<1>3. QED BY <1>1, <1>2

(* so there is always a version that nobody refers to.                      *)
LEMMA FreshVersion ==
  ASSUME SessionTypeOK
  PROVE  NewVersion \in Nat \ {0} /\ NewVersion \notin Versions
<1>1. \A w \in Workers : Len(wire[w]) \in Nat /\ Len(resp[w]) \in Nat
  BY EmptyIs DEF SessionTypeOK
<1>2. IsFiniteSet({store[i] : i \in Ids})
  BY FiniteAssumption, FiniteRange
<1>3. IsFiniteSet({handler[w].base : w \in Workers})
  <2> DEFINE f == [w \in Workers |-> handler[w].base]
  <2>1. {f[w] : w \in Workers} = {handler[w].base : w \in Workers}
    OBVIOUS
  <2> HIDE DEF f
  <2>2. QED BY <2>1, FiniteAssumption, FiniteRange
<1>4. IsFiniteSet(Queued(wire)) /\ IsFiniteSet(Queued(resp))
  BY <1>1, FiniteQueues
<1>5. /\ IsFiniteSet({q.version : q \in Queued(wire)})
      /\ IsFiniteSet({q.base : q \in Queued(wire)})
      /\ IsFiniteSet({r.version : r \in Queued(resp)})
  BY <1>4, FiniteFields
<1>6. IsFiniteSet(Versions)
  BY <1>2, <1>3, <1>5, FS_Union DEF Versions
<1> DEFINE N == Cardinality(Versions)
<1>7. N \in Nat
  BY <1>6, FS_CardinalityType
<1>8. \E v \in 1..(N + 1) : v \notin Versions
  <2>1. SUFFICES ASSUME 1..(N + 1) \subseteq Versions PROVE FALSE
    OBVIOUS
  <2>2. Cardinality(1..(N + 1)) <= N
    BY <1>6, <2>1, FS_Subset
  <2>3. Cardinality(1..(N + 1)) = N + 1
    BY <1>7, FS_Interval
  <2>4. QED BY <1>7, <2>2, <2>3
<1>9. NewVersion \in 1..(N + 1) /\ NewVersion \notin Versions
  BY <1>8 DEF NewVersion
<1>10. QED BY <1>7, <1>9

-----------------------------------------------------------------------------
(* The inductive invariant.                                                 *)
Writes == {"set", "replaceUnlock", "delete"}
Waits  == {"lockGet", "getTouch", "touch"}

(* The fields of a handler, by where it is.                                 *)
HandlerFits(c, h) ==
  /\ h.at = "idle" => h.id = NULL
  /\ h.at # "idle" => h.id \in Ids
  /\ h.at \in {"idle", "lockGet", "sleep", "getTouch"} => h.base = 0
  /\ h.at \in {"lockGet", "sleep", "touch"} => h.timeout
  /\ h.at = "getTouch" => ~h.timeout
  /\ h.locked => h.timeout
  /\ c \in {"eof", "closed"} => h.at = "idle"

(* A write goes out when nothing else is in flight.                         *)
WritesFirst(sent, got) ==
  \A n \in 1..Len(sent) : sent[n].op \in Writes => n = 1 /\ got = <<>>

(* While read waits, the last command in flight is the one it waits for.     *)
LastIs(h, sent, got) ==
  IF sent # <<>> THEN sent[Len(sent)].op = h.at /\ sent[Len(sent)].id = h.id
                 ELSE got # <<>> /\ got[Len(got)].op = h.at

OpenFits(h, sent, got) ==
  /\ InOrder(h.serial, sent, got)
  /\ h.at \in {"sleep", "open"} => sent = <<>> /\ got = <<>>
  /\ h.at \in Waits => LastIs(h, sent, got)
  /\ h.at = "touch" => Len(sent) + Len(got) <= 1

(* A connection the server has ended: no old response has the serial of a    *)
(* command that was lost.                                                   *)
GoneFits(h, got) ==
  /\ h.at \in {"sleep", "open"} => got = <<>>
  /\ h.at = "idle" => \A n \in 1..Len(got) : got[n].serial # NextSerial(h.serial)
  /\ h.at \in {"lockGet", "getTouch"} =>
       \A n \in 1..Len(got) : got[n].serial = h.serial => n >= Len(got) /\ got[n].op = h.at
  /\ h.at = "touch" /\ got # <<>> =>
       Len(got) <= 1 /\ got[1].op = "touch" /\ got[1].serial = h.serial

Traffic(c, h, sent, got) ==
  /\ WritesFirst(sent, got)
  /\ c \in {"gone", "closed"} => sent = <<>>
  /\ c \in {"eof", "closed"} => got = <<>>
  /\ c = "open" => OpenFits(h, sent, got)
  /\ c = "gone" => GoneFits(h, got)

(* The lock of a worker that was told it has it, or that it has it not.      *)
Owns(w, id, version) == version # 0 /\ holder[id] = w /\ store[id] = version

Told(w, id, r) == /\ r.status = "ok" => Owns(w, id, r.version)
                  /\ r.status = "refused" => holder[id] # w

Holding(w) ==
  LET h == handler[w] IN
  conn[w] = "open" =>
    /\ h.at = "lockGet" /\ wire[w] = <<>> => Told(w, h.id, resp[w][Len(resp[w])])
    /\ h.at = "touch" => Owns(w, h.id, h.base)
    /\ h.at = "open" /\ h.timeout =>
         Owns(w, h.id, h.base) \/ (h.base = 0 /\ holder[h.id] # w)

(* The locked write under way.                                              *)
Replacing(w) ==
  wire[w] # <<>> /\ wire[w][1].op = "replaceUnlock" /\ holder[wire[w][1].id] = w
    => store[wire[w][1].id] = wire[w][1].base

Own(w) ==
  /\ HandlerFits(conn[w], handler[w])
  /\ Traffic(conn[w], handler[w], wire[w], resp[w])
  /\ Holding(w) /\ Replacing(w)

(* Versions not yet stored are new.                                         *)
Stores(w) == wire[w] # <<>> /\ wire[w][1].op \in {"set", "replaceUnlock"}

Fresh ==
  \A w \in Workers : Stores(w) =>
    /\ wire[w][1].version # 0
    /\ \A i \in Ids : store[i] # wire[w][1].version
    /\ \A v \in Workers \ {w} : Stores(v) => wire[v][1].version # wire[w][1].version

SessionInv ==
  /\ SessionTypeOK
  /\ \A w \in Workers : Own(w)
  /\ \A i \in Ids : store[i] = 0 => holder[i] = NULL
  /\ Fresh

-----------------------------------------------------------------------------
(* What a step makes of the commands and answers of a connection.           *)
LEMMA EmptyFits ==
  ASSUME NEW c, NEW h \in Handler, h.at \in {"idle", "sleep", "open"}
  PROVE  Traffic(c, h, <<>>, <<>>)
<1>1. Len(<<>>) = 0 /\ MaxFlight \in Nat
  BY SessionBounds
<1>2. QED BY <1>1 DEF Traffic, WritesFirst, OpenFits, GoneFits, InOrder, Waits

(* A command is sent.                                                       *)
LEMMA SentFits ==
  ASSUME NEW h \in Handler, NEW k \in Handler, NEW q \in Command,
         NEW sent \in Seq(Command), NEW got \in Seq(Answer),
         WritesFirst(sent, got), InOrder(h.serial, sent, got),
         Len(sent) + Len(got) < MaxFlight,
         q.serial = NextSerial(h.serial), k.serial = NextSerial(h.serial),
         q.op \in Writes \cup {"touch"} => sent = <<>> /\ got = <<>>,
         k.at = "idle" \/ (k.at \in Waits /\ k.at = q.op /\ k.id = q.id)
  PROVE  WritesFirst(Append(sent, q), got) /\ OpenFits(k, Append(sent, q), got)
<1>1. /\ Len(sent) \in Nat /\ Len(got) \in Nat
      /\ Append(sent, q) # <<>> /\ Len(Append(sent, q)) = Len(sent) + 1
      /\ Append(sent, q)[Len(sent) + 1] = q
      /\ \A n \in 1..Len(sent) : Append(sent, q)[n] = sent[n]
      /\ Len(<<>>) = 0
  BY AppendOf, EmptyIs
<1>2. InOrder(k.serial, Append(sent, q), got)
  BY SentInOrder DEF Handler, Serials
<1>3. WritesFirst(Append(sent, q), got)
  <2>1. ASSUME NEW n \in 1..(Len(sent) + 1), Append(sent, q)[n].op \in Writes
        PROVE  n = 1 /\ got = <<>>
    <3>1. CASE n \in 1..Len(sent)
      BY <1>1, <2>1, <3>1 DEF WritesFirst
    <3>2. CASE n = Len(sent) + 1
      BY <1>1, <2>1, <3>2
    <3>3. QED BY <1>1, <3>1, <3>2
  <2>2. QED BY <1>1, <2>1 DEF WritesFirst
<1>4. k.at \in Waits => LastIs(k, Append(sent, q), got)
  BY <1>1 DEF LastIs, Waits
<1>5. QED BY <1>1, <1>2, <1>3, <1>4 DEF OpenFits, Waits

(* The response with the serial that read waits for is the last in flight.   *)
LEMMA TheAnswer ==
  ASSUME NEW c \in {"open", "gone"}, NEW h \in Handler, h.at \in {"lockGet", "getTouch"},
         NEW sent \in Seq(Command), NEW got \in Seq(Answer), Traffic(c, h, sent, got),
         got # <<>>, Head(got).serial = h.serial
  PROVE  /\ sent = <<>> /\ Tail(got) = <<>> /\ Len(got) = 1
         /\ Head(got) = got[1] /\ got[1].op = h.at
<1>1. /\ Len(sent) \in Nat /\ Len(got) \in Nat \ {0} /\ Head(got) = got[1]
      /\ Len(Tail(got)) = Len(got) - 1
      /\ Tail(got) \in Seq(Answer)
  BY TailOf, EmptyIs
<1>2. MaxFlight \in Nat /\ SerialMod \in Nat /\ MaxFlight < SerialMod /\ h.serial \in Serials
  BY SessionBounds DEF Handler, Serials
<1>3. CASE c = "open"
  <2> DEFINE d == Len(sent) + Len(got) - 1
  <2>1. got[1].serial = Back(h.serial, d) /\ d \in 0..(SerialMod - 1)
    BY <1>1, <1>2, <1>3 DEF Traffic, OpenFits, InOrder
  <2>2. d = 0
    BY <2>1, <1>1, <1>2, BackIs
  <2>3. Len(sent) = 0 /\ Len(got) = 1
    BY <2>2, <1>1
  <2>4. sent = <<>>
    BY <2>3, EmptyIs
  <2>5. got[1].op = h.at
    BY <1>3, <2>3, <2>4 DEF Traffic, OpenFits, LastIs, Waits
  <2>6. Tail(got) = <<>>
    BY <1>1, <2>3, EmptyIs
  <2>7. QED BY <1>1, <2>3, <2>4, <2>5, <2>6
<1>4. CASE c = "gone"
  <2>1. 1 >= Len(got) /\ got[1].op = h.at /\ sent = <<>>
    BY <1>1, <1>4 DEF Traffic, GoneFits
  <2>2. Tail(got) = <<>>
    BY <1>1, <2>1, EmptyIs
  <2>3. QED BY <1>1, <2>1, <2>2
<1>5. QED BY <1>3, <1>4

(* Any other response leaves that one to come.                              *)
LEMMA SkippedFits ==
  ASSUME NEW c \in {"open", "gone"}, NEW h \in Handler, h.at \in {"lockGet", "getTouch"},
         NEW sent \in Seq(Command), NEW got \in Seq(Answer), Traffic(c, h, sent, got),
         got # <<>>, Head(got).serial # h.serial
  PROVE  /\ Traffic(c, h, sent, Tail(got))
         /\ c = "open" /\ sent = <<>> =>
              Tail(got) # <<>> /\ Tail(got)[Len(Tail(got))] = got[Len(got)]
<1>1. /\ Len(sent) \in Nat /\ Len(got) \in Nat \ {0} /\ Head(got) = got[1]
      /\ Len(Tail(got)) = Len(got) - 1 /\ Tail(got) \in Seq(Answer)
      /\ \A n \in 1..Len(Tail(got)) : Tail(got)[n] = got[n + 1] /\ n + 1 \in 1..Len(got)
  BY TailOf, EmptyIs
<1>2. WritesFirst(sent, Tail(got))
  BY DEF Traffic, WritesFirst
<1>3. CASE c = "open"
  <2>1. InOrder(h.serial, sent, got) /\ LastIs(h, sent, got) /\ h.serial \in Serials
    BY <1>3 DEF Traffic, OpenFits, Waits, Handler, Serials
  <2>2. InOrder(h.serial, sent, Tail(got))
    BY <2>1, ReceivedInOrder
  <2>3. ASSUME sent = <<>>
        PROVE  Tail(got) # <<>> /\ Tail(got)[Len(Tail(got))] = got[Len(got)]
    <3>1. Len(got) > 1
      <4>1. SUFFICES ASSUME Len(got) <= 1 PROVE FALSE
        BY <1>1
      <4>2. Len(sent) + Len(got) - 1 = 0
        BY <1>1, <2>3, <4>1
      <4>3. got[1].serial = Back(h.serial, 0)
        BY <1>1, <2>1, <4>2 DEF InOrder
      <4>4. QED BY <1>1, <2>1, <4>3, SessionBounds DEF Back, Serials
    <3>2. QED BY <3>1, LastTail
  <2>4. LastIs(h, sent, Tail(got))
    BY <2>1, <2>3 DEF LastIs
  <2>5. OpenFits(h, sent, Tail(got))
    BY <2>2, <2>4 DEF OpenFits
  <2>6. QED BY <1>2, <1>3, <2>3, <2>5 DEF Traffic
<1>4. CASE c = "gone"
  <2>1. ASSUME NEW n \in 1..Len(Tail(got)), Tail(got)[n].serial = h.serial
        PROVE  n >= Len(Tail(got)) /\ Tail(got)[n].op = h.at
    <3>1. \A m \in 1..Len(got) : got[m].serial = h.serial => m >= Len(got) /\ got[m].op = h.at
      BY <1>4 DEF Traffic, GoneFits
    <3>2. PICK m \in 1..Len(got) : m = n + 1 /\ Tail(got)[n] = got[m]
      BY <1>1
    <3>3. m >= Len(got) /\ got[m].op = h.at
      BY <2>1, <3>1, <3>2
    <3>4. n >= Len(Tail(got))
      BY <1>1, <3>2, <3>3
    <3>5. QED BY <3>2, <3>3, <3>4
  <2>2. GoneFits(h, Tail(got))
    BY <2>1 DEF GoneFits
  <2>3. QED BY <1>2, <1>4, <2>2 DEF Traffic
<1>5. QED BY <1>3, <1>4

(* The response that touch waits for.                                       *)
LEMMA TouchIs ==
  ASSUME NEW c \in {"open", "gone"}, NEW h \in Handler, h.at = "touch",
         NEW sent \in Seq(Command), NEW got \in Seq(Answer), Traffic(c, h, sent, got),
         got # <<>>
  PROVE  /\ sent = <<>> /\ Tail(got) = <<>>
         /\ Head(got).op = "touch" /\ Head(got).serial = h.serial
<1>1. /\ Len(sent) \in Nat /\ Len(got) \in Nat \ {0} /\ Head(got) = got[1]
      /\ Len(Tail(got)) = Len(got) - 1 /\ Tail(got) \in Seq(Answer)
  BY TailOf, EmptyIs
<1>2. Len(got) <= 1 /\ Len(sent) = 0
  BY <1>1, NothingIn DEF Traffic, OpenFits, GoneFits
<1>3. sent = <<>> /\ Tail(got) = <<>>
  BY <1>1, <1>2, EmptyIs
<1>4. CASE c = "open"
  <2>1. got[1].serial = Back(h.serial, 0) /\ got[1].op = "touch"
    BY <1>1, <1>2, <1>3, <1>4 DEF Traffic, OpenFits, InOrder, LastIs, Waits
  <2>2. got[1].serial = h.serial
    BY <2>1, SessionBounds DEF Back, Handler
  <2>3. QED BY <1>1, <1>3, <2>1, <2>2
<1>5. CASE c = "gone"
  BY <1>1, <1>3, <1>5 DEF Traffic, GoneFits
<1>6. QED BY <1>4, <1>5

(* The server carries out the first command, and answers it or not.         *)
LEMMA ServedFits ==
  ASSUME NEW h \in Handler, NEW sent \in Seq(Command), NEW got \in Seq(Answer),
         Traffic("open", h, sent, got), sent # <<>>, NEW a \in Answer,
         a.op = Head(sent).op, a.serial = Head(sent).serial
  PROVE  /\ Traffic("open", h, Tail(sent), Append(got, a))
         /\ Tail(sent) = <<>> => Append(got, a)[Len(Append(got, a))] = a
         /\ Tail(sent) # <<>> => Tail(sent)[1].op \notin Writes
         /\ h.at \in Waits /\ Tail(sent) = <<>> => Head(sent).op = h.at /\ Head(sent).id = h.id
<1>1. /\ Len(sent) \in Nat \ {0} /\ Len(Tail(sent)) = Len(sent) - 1 /\ Head(sent) = sent[1]
      /\ \A n \in 1..Len(Tail(sent)) : Tail(sent)[n] = sent[n + 1] /\ n + 1 \in 1..Len(sent)
      /\ Tail(sent) \in Seq(Command)
      /\ Append(got, a) # <<>> /\ Append(got, a) \in Seq(Answer)
      /\ Len(got) \in Nat /\ Len(Append(got, a)) = Len(got) + 1
      /\ Append(got, a)[Len(got) + 1] = a
  BY TailOf, AppendOf, EmptyIs
<1>2. InOrder(h.serial, Tail(sent), Append(got, a))
  BY AnsweredInOrder DEF Traffic, OpenFits, Handler, Serials
<1>3. \A n \in 1..Len(Tail(sent)) : Tail(sent)[n].op \notin Writes
  BY <1>1 DEF Traffic, WritesFirst
<1>4. WritesFirst(Tail(sent), Append(got, a))
  BY <1>3 DEF WritesFirst
<1>5. CASE Tail(sent) = <<>>
  <2>1. Len(sent) <= 1
    BY <1>1, <1>5, LastTail
  <2>2. h.at \in Waits => sent[1].op = h.at /\ sent[1].id = h.id
    BY <2>1 DEF Traffic, OpenFits, LastIs
  <2>3. h.at \in Waits => LastIs(h, Tail(sent), Append(got, a))
    BY <1>1, <1>5, <2>2 DEF LastIs
  <2>4. OpenFits(h, Tail(sent), Append(got, a))
    BY <1>1, <1>2, <1>5, <2>1, <2>3 DEF Traffic, OpenFits
  <2>5. QED BY <1>1, <1>4, <1>5, <2>2, <2>4 DEF Traffic
<1>6. CASE Tail(sent) # <<>>
  <2>1. Len(Tail(sent)) > 0 /\ Tail(sent)[Len(Tail(sent))] = sent[Len(sent)]
    BY <1>6, LastTail
  <2>2. h.at \in Waits => LastIs(h, Tail(sent), Append(got, a))
    BY <1>1, <1>6, <2>1 DEF Traffic, OpenFits, LastIs
  <2>3. OpenFits(h, Tail(sent), Append(got, a))
    BY <1>1, <1>2, <2>1, <2>2 DEF Traffic, OpenFits
  <2>4. Tail(sent)[1].op \notin Writes
    BY <1>3, <1>6, LastTail
  <2>5. Traffic("open", h, Tail(sent), Append(got, a))
    BY <1>4, <2>3 DEF Traffic
  <2>6. QED BY <1>6, <2>4, <2>5
<1>7. QED BY <1>5, <1>6

(* When the server has carried out a write, no write is left on the wire,   *)
(* and what a handler that waits has asked for is.                          *)
LEMMA DoneFits ==
  ASSUME NEW h \in Handler, NEW sent \in Seq(Command),
         Traffic("open", h, sent, <<>>), sent # <<>>, Head(sent).op \in Writes
  PROVE  /\ Traffic("open", h, Tail(sent), <<>>)
         /\ Tail(sent) # <<>> => Tail(sent)[1].op \notin Writes
         /\ h.at \in Waits => h.at # "touch" /\ Tail(sent) # <<>>
<1>1. /\ Len(sent) \in Nat \ {0} /\ Len(Tail(sent)) = Len(sent) - 1 /\ Head(sent) = sent[1]
      /\ \A n \in 1..Len(Tail(sent)) : Tail(sent)[n] = sent[n + 1] /\ n + 1 \in 1..Len(sent)
      /\ Tail(sent) \in Seq(Command) /\ Len(<<>>) = 0
  BY TailOf
<1>2. InOrder(h.serial, Tail(sent), <<>>)
  BY DoneInOrder DEF Traffic, OpenFits, Handler, Serials
<1>3. \A n \in 1..Len(Tail(sent)) : Tail(sent)[n].op \notin Writes
  BY <1>1 DEF Traffic, WritesFirst
<1>4. WritesFirst(Tail(sent), <<>>)
  BY <1>3 DEF WritesFirst
<1>5. CASE h.at \in Waits
  <2>1. sent[Len(sent)].op = h.at /\ sent[Len(sent)].id = h.id
    BY <1>5 DEF Traffic, OpenFits, LastIs
  <2>2. Len(sent) > 1
    BY <1>1, <1>5, <2>1 DEF Writes, Waits
  <2>3. Len(Tail(sent)) > 0 /\ Tail(sent) # <<>>
    BY <2>2, LastTail
  <2>4. Tail(sent)[Len(Tail(sent))] = sent[Len(sent)]
    BY <2>2, LastTail
  <2>5. h.at # "touch"
    BY <1>1, <2>2 DEF Traffic, OpenFits
  <2>6. OpenFits(h, Tail(sent), <<>>)
    BY <1>2, <1>5, <2>1, <2>3, <2>4, <2>5 DEF OpenFits, LastIs, Waits
  <2>7. Tail(sent)[1].op \notin Writes
    BY <1>3, <2>3, LastTail
  <2>8. QED BY <1>4, <2>3, <2>5, <2>6, <2>7 DEF Traffic
<1>6. CASE h.at \notin Waits
  <2>1. h.at = "idle"
    BY <1>6 DEF Traffic, OpenFits, Handler, Waits
  <2>2. OpenFits(h, Tail(sent), <<>>)
    BY <1>2, <2>1 DEF OpenFits, Waits
  <2>3. Tail(sent) # <<>> => Tail(sent)[1].op \notin Writes
    BY <1>3, LastTail
  <2>4. QED BY <1>4, <1>6, <2>2, <2>3 DEF Traffic
<1>7. QED BY <1>5, <1>6

(* Also when the client has closed.                                         *)
LEMMA DoneAfterEof ==
  ASSUME NEW h, NEW sent \in Seq(Command), NEW got, Traffic("eof", h, sent, got), sent # <<>>
  PROVE  /\ Traffic("eof", h, Tail(sent), got)
         /\ Tail(sent) # <<>> => Tail(sent)[1].op \notin Writes
<1>1. /\ Len(sent) \in Nat \ {0} /\ Len(Tail(sent)) = Len(sent) - 1
      /\ \A n \in 1..Len(Tail(sent)) : Tail(sent)[n] = sent[n + 1] /\ n + 1 \in 1..Len(sent)
      /\ Tail(sent) \in Seq(Command)
  BY TailOf
<1>2. \A n \in 1..Len(Tail(sent)) : Tail(sent)[n].op \notin Writes
  BY <1>1 DEF Traffic, WritesFirst
<1>3. Tail(sent) # <<>> => Tail(sent)[1].op \notin Writes
  BY <1>2, LastTail
<1>4. QED BY <1>2, <1>3 DEF Traffic, WritesFirst

(* The server ends the connection: what was sent is lost.                   *)
LEMMA GoneFromOpen ==
  ASSUME NEW h \in Handler, NEW sent \in Seq(Command), NEW got \in Seq(Answer),
         Traffic("open", h, sent, got)
  PROVE  Traffic("gone", h, <<>>, got)
<1>1. Len(sent) \in Nat /\ Len(got) \in Nat /\ h.serial \in Serials /\ Len(<<>>) = 0
  BY EmptyIs DEF Handler, Serials
<1>2. MaxFlight \in Nat /\ SerialMod \in Nat /\ MaxFlight < SerialMod
  BY SessionBounds
<1>3. ASSUME NEW n \in 1..Len(got)
      PROVE  /\ got[n].serial # NextSerial(h.serial)
             /\ got[n].serial = h.serial => sent = <<>> /\ n = Len(got)
  <2> DEFINE d == Len(sent) + Len(got) - n
  <2>1. d \in 0..(SerialMod - 1) /\ d # SerialMod - 1
    BY <1>1, <1>2 DEF Traffic, OpenFits, InOrder
  <2>2. got[n].serial = Back(h.serial, d)
    BY DEF Traffic, OpenFits, InOrder
  <2>3. got[n].serial # NextSerial(h.serial) /\ (got[n].serial = h.serial => d = 0)
    BY <1>1, <2>1, <2>2, BackIs
  <2>4. d = 0 => n = Len(got) /\ Len(sent) = 0
    BY <1>1
  <2>5. QED BY <2>3, <2>4, EmptyIs
<1>4. h.at = "idle" => GoneFits(h, got)
  BY <1>3 DEF GoneFits
<1>5. h.at \in {"lockGet", "getTouch"} => GoneFits(h, got)
  BY <1>3 DEF GoneFits, Traffic, OpenFits, LastIs, Waits
<1>6. h.at = "touch" => GoneFits(h, got)
  <2>1. CASE h.at = "touch" /\ got # <<>>
    <3>1. Head(got).op = "touch" /\ Head(got).serial = h.serial /\ Head(got) = got[1]
      BY <2>1, TouchIs, TailOf
    <3>2. Len(got) <= 1
      BY <1>1, <2>1 DEF Traffic, OpenFits
    <3>3. QED BY <2>1, <3>1, <3>2 DEF GoneFits
  <2>2. QED BY <2>1 DEF GoneFits
<1>7. h.at \in {"sleep", "open"} => GoneFits(h, got)
  BY DEF GoneFits, Traffic, OpenFits
<1>8. GoneFits(h, got)
  BY <1>4, <1>5, <1>6, <1>7 DEF Handler
<1>9. QED BY <1>1, <1>8 DEF Traffic, WritesFirst

-----------------------------------------------------------------------------
(* What a step changes.                                                     *)
Elsewhere(w) ==
  \A v \in Workers \ {w} :
    /\ handler'[v] = handler[v] /\ conn'[v] = conn[v]
    /\ wire'[v] = wire[v] /\ resp'[v] = resp[v]

(* A step of another worker or of the server takes nothing from a worker    *)
(* whose sessions and locks it leaves alone.                                *)
LEMMA OthersKeep ==
  ASSUME NEW v \in Workers, Own(v),
         handler'[v] = handler[v], conn'[v] = conn[v], wire'[v] = wire[v], resp'[v] = resp[v],
         \A i \in Ids : holder[i] = v => holder'[i] = v /\ store'[i] = store[i],
         \A i \in Ids : holder[i] # v => holder'[i] # v,
         SessionTypeOK
  PROVE  Own(v)'
<1>1. HandlerFits(conn[v], handler[v])' /\ Traffic(conn[v], handler[v], wire[v], resp[v])'
  BY DEF Own
<1>2. handler[v].at # "idle" => handler[v].id \in Ids
  BY DEF Own, HandlerFits
<1>3. wire[v] # <<>> => wire[v][1].id \in Ids
  <2>1. wire[v] # <<>> => wire[v][1] \in Command
    BY TailOf DEF SessionTypeOK
  <2>2. QED BY <2>1 DEF Command
<1>4. Holding(v)'
  BY <1>2 DEF Own, Holding, Told, Owns
<1>5. Replacing(v)'
  BY <1>3 DEF Own, Replacing
<1>6. QED BY <1>1, <1>4, <1>5 DEF Own

(* A step of a worker that leaves what the server keeps alone.              *)
LEMMA LocalStep ==
  ASSUME SessionInv, NEW w \in Workers, Elsewhere(w), SessionTypeOK', Own(w)',
         UNCHANGED <<store, holder>>,
         Stores(w)' => Stores(w) /\ wire'[w][1].version = wire[w][1].version
  PROVE  SessionInv'
<1>1. ASSUME NEW v \in Workers PROVE Own(v)'
  <2>1. CASE v = w BY <2>1
  <2>2. CASE v # w BY <2>2, OthersKeep DEF SessionInv, Elsewhere
  <2>3. QED BY <2>1, <2>2
<1>2. \A v \in Workers : Stores(v)' => Stores(v) /\ wire'[v][1].version = wire[v][1].version
  BY DEF Elsewhere, Stores
<1>3. Fresh'
  BY <1>2 DEF SessionInv, Fresh
<1>4. QED BY <1>1, <1>3 DEF SessionInv

(* What a send puts on the wire of its own connection, and nowhere else.    *)
LEMMA WrittenIs ==
  ASSUME SessionTypeOK, NEW w \in Workers, NEW h \in Handler, h.id \in Ids,
         NEW op \in Writes \cup Waits, NEW version \in Nat, Written(w, op, h, version)
  PROVE  /\ wire' \in [Workers -> Seq(Command)]
         /\ \A v \in Workers \ {w} : wire'[v] = wire[v]
         /\ conn[w] # "open" => wire'[w] = wire[w]
         /\ conn[w] = "open" =>
              \E q \in Command :
                /\ q = [op |-> op, id |-> h.id, serial |-> NextSerial(h.serial),
                        base |-> h.base, version |-> version]
                /\ wire'[w] = Append(wire[w], q)
<1> DEFINE q == [op |-> op, id |-> h.id, serial |-> NextSerial(h.serial),
                 base |-> h.base, version |-> version]
<1>1. q \in Command
  BY NextSerialIs DEF Handler, Command, Writes, Waits, Serials
<1>2. Append(wire[w], q) \in Seq(Command)
  BY <1>1, AppendOf DEF SessionTypeOK
<1>3. wire' = IF conn[w] = "open" THEN [wire EXCEPT ![w] = Append(@, q)] ELSE wire
  BY DEF Written
<1> HIDE DEF q
<1>4. QED BY <1>1, <1>2, <1>3 DEF SessionTypeOK, q

(* What a send changes in the handler: its serial alone.                    *)
LEMMA SentIs ==
  ASSUME NEW h \in Handler
  PROVE  /\ Sent(h) \in Handler /\ Sent(h).serial = NextSerial(h.serial)
         /\ Sent(h).at = h.at /\ Sent(h).id = h.id /\ Sent(h).timeout = h.timeout
         /\ Sent(h).locked = h.locked /\ Sent(h).late = h.late /\ Sent(h).base = h.base
BY NextSerialIs DEF Sent, Handler, Serials

(* What close leaves of the handler: the flag locked among it.              *)
LEMMA LeftIs ==
  ASSUME NEW h \in Handler
  PROVE  /\ Left(h) \in Handler /\ Left(h).serial = h.serial /\ Left(h).at = "idle"
         /\ Left(h).id = NULL /\ Left(h).timeout = h.timeout
         /\ Left(h).locked = h.locked /\ Left(h).base = 0
BY DEF Left, NewHandler, Handler

(* A new handler has its types.                                             *)
LEMMA NewIs ==
  ASSUME NEW timeout \in BOOLEAN
  PROVE  NewHandler(timeout) \in Handler
BY SessionBounds DEF NewHandler, Handler

(* A head that is not a write is not a locked write either.                  *)
LEMMA NoWriteFirst ==
  ASSUME NEW w \in Workers, wire[w] # <<>> => wire[w][1].op \notin Writes
  PROVE  Replacing(w) /\ ~Stores(w)
BY DEF Replacing, Stores, Writes

(* The head of a queue that grows.                                          *)
LEMMA FirstStays ==
  ASSUME NEW S, NEW s \in Seq(S), NEW e \in S
  PROVE  /\ s # <<>> => Append(s, e)[1] = s[1]
         /\ s = <<>> => Append(s, e)[1] = e
OBVIOUS

-----------------------------------------------------------------------------
(* Each step of read keeps the invariant.                                   *)
LEMMA StartKeeps ==
  ASSUME SessionInv, NEW w \in Workers, NEW id \in Ids, Start(w, id)
  PROVE  SessionInv'
<1> DEFINE op == IF handler[w].timeout THEN "lockGet" ELSE "getTouch"
           h  == [handler[w] EXCEPT !.at = op, !.id = id]
<1>1. /\ handler[w] \in Handler /\ wire[w] \in Seq(Command) /\ resp[w] \in Seq(Answer)
      /\ conn[w] \in {"open", "gone"} /\ handler[w].at = "idle" /\ handler[w].base = 0
      /\ Own(w) /\ Len(wire[w]) + Len(resp[w]) < MaxFlight
  BY DEF SessionInv, SessionTypeOK, Start, At, Own, HandlerFits, Flight
<1>2. /\ h \in Handler /\ h.id = id /\ h.at = op /\ h.serial = handler[w].serial
      /\ h.base = 0 /\ h.timeout = handler[w].timeout /\ h.locked = handler[w].locked
      /\ op \in Waits /\ op \notin Writes \cup {"touch"}
      /\ IF handler[w].timeout THEN op = "lockGet" ELSE op = "getTouch"
  BY <1>1 DEF Handler, Waits, Writes
<1>3. Written(w, op, h, 0) /\ handler' = [handler EXCEPT ![w] = Sent(h)]
      /\ UNCHANGED <<conn, resp, store, holder>>
  BY DEF Start
<1> HIDE DEF h, op
<1>4. handler'[w] = Sent(h) /\ handler' \in [Workers -> Handler]
      /\ \A v \in Workers \ {w} : handler'[v] = handler[v]
  BY <1>2, <1>3, SentIs DEF SessionInv, SessionTypeOK
<1>5. Elsewhere(w) /\ SessionTypeOK'
  BY <1>2, <1>3, <1>4, WrittenIs DEF Elsewhere, SessionInv, SessionTypeOK
<1>6. HandlerFits(conn[w], handler[w])'
  BY <1>1, <1>2, <1>3, <1>4, SentIs DEF HandlerFits, Own
<1>7. CASE conn[w] = "open"
  <2>1. PICK q \in Command :
          /\ q = [op |-> op, id |-> id, serial |-> NextSerial(handler[w].serial),
                  base |-> 0, version |-> 0]
          /\ wire'[w] = Append(wire[w], q)
    BY <1>2, <1>3, <1>7, WrittenIs DEF SessionInv
  <2>2. Traffic("open", Sent(h), Append(wire[w], q), resp[w])
    <3>1. WritesFirst(wire[w], resp[w]) /\ InOrder(handler[w].serial, wire[w], resp[w])
      BY <1>1, <1>7 DEF Own, Traffic, OpenFits
    <3>2. WritesFirst(Append(wire[w], q), resp[w]) /\ OpenFits(Sent(h), Append(wire[w], q), resp[w])
      <4>1. q.op = op /\ q.id = id /\ q.serial = NextSerial(h.serial)
        BY <1>2, <2>1
      <4>2. Sent(h) \in Handler /\ Sent(h).serial = NextSerial(h.serial)
            /\ Sent(h).at = op /\ Sent(h).id = id
        BY <1>2, SentIs
      <4>3. QED BY <3>1, <1>1, <1>2, <4>1, <4>2, SentFits
    <3>3. QED BY <3>2 DEF Traffic
  <2>3. wire'[w] # <<>> /\ (wire[w] = <<>> => wire'[w][1] = q)
        /\ (wire[w] # <<>> => wire'[w][1] = wire[w][1])
    BY <1>1, <2>1, AppendOf, FirstStays
  <2>4. Holding(w)' /\ Replacing(w)'
    BY <1>1, <1>2, <1>3, <1>4, <1>7, <2>1, <2>3, SentIs DEF Holding, Replacing, Own, Writes
  <2>5. Stores(w)' => Stores(w) /\ wire'[w][1].version = wire[w][1].version
    BY <1>2, <2>1, <2>3 DEF Stores, Writes
  <2>6. Own(w)'
    BY <1>3, <1>4, <1>6, <1>7, <2>1, <2>2, <2>4 DEF Own
  <2>7. QED BY <1>3, <1>5, <2>5, <2>6, LocalStep
<1>8. CASE conn[w] = "gone"
  <2>1. wire'[w] = wire[w] /\ wire[w] = <<>>
    BY <1>1, <1>2, <1>3, <1>8, WrittenIs DEF SessionInv, Own, Traffic
  <2>2. Traffic("gone", Sent(h), <<>>, resp[w])
    BY <1>1, <1>2, <1>8, <2>1, SentIs DEF Own, Traffic, GoneFits, WritesFirst
  <2>3. Own(w)'
    BY <1>3, <1>4, <1>6, <1>8, <2>1, <2>2 DEF Own, Holding, Replacing
  <2>4. QED BY <1>3, <1>5, <2>1, <2>3, LocalStep DEF Stores
<1>9. QED BY <1>1, <1>7, <1>8

(* What a recv takes.                                                       *)
LEMMA ReceivedIs ==
  ASSUME SessionTypeOK, NEW w \in Workers, resp[w] # <<>>,
         resp' = [resp EXCEPT ![w] = Tail(@)]
  PROVE  /\ resp' \in [Workers -> Seq(Answer)] /\ resp'[w] = Tail(resp[w])
         /\ \A v \in Workers \ {w} : resp'[v] = resp[v]
         /\ Head(resp[w]) \in Answer
<1>1. Tail(resp[w]) \in Seq(Answer) /\ Head(resp[w]) \in Answer
  BY TailOf DEF SessionTypeOK
<1>2. QED BY <1>1 DEF SessionTypeOK

(* A step after which nothing is in flight.                                 *)
LEMMA QuietStep ==
  ASSUME SessionInv, NEW w \in Workers, conn[w] \in {"open", "gone"}, wire[w] = <<>>,
         NEW k \in Handler, handler' = [handler EXCEPT ![w] = k],
         UNCHANGED <<conn, wire, store, holder>>,
         resp' \in [Workers -> Seq(Answer)], resp'[w] = <<>>,
         \A v \in Workers \ {w} : resp'[v] = resp[v],
         k.at \in {"idle", "sleep", "open"}, HandlerFits(conn[w], k), Holding(w)'
  PROVE  SessionInv'
<1>1. handler' \in [Workers -> Handler] /\ handler'[w] = k
      /\ \A v \in Workers \ {w} : handler'[v] = handler[v]
  BY DEF SessionInv, SessionTypeOK
<1>2. SessionTypeOK' /\ Elsewhere(w)
  BY <1>1 DEF SessionInv, SessionTypeOK, Elsewhere
<1>3. Traffic(conn[w], k, <<>>, <<>>)
  BY EmptyFits
<1>4. Own(w)'
  BY <1>1, <1>3 DEF Own, Replacing
<1>5. QED BY <1>2, <1>4, LocalStep DEF Stores

(* The answer a handler waits for is the last one of its connection, and    *)
(* nothing is on the wire behind it.                                        *)
LEMMA AnswerIs ==
  ASSUME SessionInv, NEW w \in Workers, NEW op \in {"lockGet", "getTouch"}, Answered(w, {op})
  PROVE  /\ conn[w] \in {"open", "gone"} /\ handler[w] \in Handler /\ handler[w].at = op
         /\ handler[w].id \in Ids /\ handler[w].base = 0 /\ Own(w)
         /\ handler[w].timeout = (op = "lockGet")
         /\ wire[w] = <<>> /\ Head(resp[w]) \in Answer
         /\ Head(resp[w]) = resp[w][Len(resp[w])]
         /\ resp'[w] = <<>> /\ resp' \in [Workers -> Seq(Answer)]
         /\ \A v \in Workers \ {w} : resp'[v] = resp[v]
<1>1. /\ conn[w] \in {"open", "gone"} /\ handler[w] \in Handler /\ handler[w].at = op
      /\ wire[w] \in Seq(Command) /\ resp[w] \in Seq(Answer) /\ Own(w)
      /\ resp[w] # <<>> /\ Head(resp[w]).serial = handler[w].serial
      /\ resp' = [resp EXCEPT ![w] = Tail(@)]
  BY DEF Answered, At, SessionInv, SessionTypeOK
<1>2. /\ wire[w] = <<>> /\ Tail(resp[w]) = <<>> /\ Len(resp[w]) = 1
      /\ Head(resp[w]) = resp[w][1]
  BY <1>1, TheAnswer DEF Own
<1>3. handler[w].id \in Ids /\ handler[w].base = 0 /\ handler[w].timeout = (op = "lockGet")
  BY <1>1 DEF Own, HandlerFits, Handler
<1>4. QED BY <1>1, <1>2, <1>3, ReceivedIs DEF SessionInv

(* A recv in wait_lock that skips another serial.                           *)
LEMMA SkipKeeps ==
  ASSUME SessionInv, NEW w \in Workers, Skip(w)
  PROVE  SessionInv'
<1>1. /\ conn[w] \in {"open", "gone"} /\ handler[w] \in Handler
      /\ handler[w].at \in {"lockGet", "getTouch"} /\ Own(w)
      /\ wire[w] \in Seq(Command) /\ resp[w] \in Seq(Answer)
      /\ resp[w] # <<>> /\ Head(resp[w]).serial # handler[w].serial
      /\ resp' = [resp EXCEPT ![w] = Tail(@)]
      /\ UNCHANGED <<handler, conn, wire, store, holder>>
  BY DEF Skip, At, SessionInv, SessionTypeOK
<1>2. /\ resp' \in [Workers -> Seq(Answer)] /\ resp'[w] = Tail(resp[w])
      /\ \A v \in Workers \ {w} : resp'[v] = resp[v]
  BY <1>1, ReceivedIs DEF SessionInv
<1>3. /\ Traffic(conn[w], handler[w], wire[w], Tail(resp[w]))
      /\ conn[w] = "open" /\ wire[w] = <<>> =>
           Tail(resp[w])[Len(Tail(resp[w]))] = resp[w][Len(resp[w])]
  BY <1>1, SkippedFits DEF Own
<1>4. Own(w)'
  BY <1>1, <1>2, <1>3 DEF Own, Holding, Told, Owns, Replacing
<1>5. SessionTypeOK' /\ Elsewhere(w)
  BY <1>1, <1>2 DEF SessionInv, SessionTypeOK, Elsewhere
<1>6. QED BY <1>1, <1>4, <1>5, LocalStep DEF Stores

(* An attempt that finds the session locked.                                *)
LEMMA LockedKeeps ==
  ASSUME SessionInv, NEW w \in Workers, Locked(w)
  PROVE  SessionInv'
<1> DEFINE h == handler[w]
           k == IF h.late THEN Left(h) ELSE [h EXCEPT !.at = "sleep"]
<1>1. Answered(w, {"lockGet"}) /\ handler' = [handler EXCEPT ![w] = k]
      /\ UNCHANGED <<conn, wire, store, holder>>
  BY DEF Locked
<1>2. h \in Handler /\ h.id \in Ids /\ h.base = 0 /\ h.timeout /\ conn[w] \in {"open", "gone"}
  BY <1>1, AnswerIs
<1>3. k \in Handler /\ k.at \in {"idle", "sleep"} /\ HandlerFits(conn[w], k)
  BY <1>2, LeftIs DEF Handler, HandlerFits
<1>4. handler'[w] = k
  BY <1>1 DEF SessionInv, SessionTypeOK
<1>5. Holding(w)'
  BY <1>3, <1>4 DEF Holding
<1> HIDE DEF k
<1>6. QED BY <1>1, <1>2, <1>3, <1>5, AnswerIs, QuietStep

(* An attempt that finds no session.                                        *)
LEMMA NotFoundKeeps ==
  ASSUME SessionInv, NEW w \in Workers, NotFound(w)
  PROVE  SessionInv'
<1> DEFINE h == handler[w]
           k == [h EXCEPT !.at = "open", !.late = FALSE]
<1>1. Answered(w, {"lockGet"}) /\ Head(resp[w]).status = "refused"
      /\ handler' = [handler EXCEPT ![w] = k]
      /\ UNCHANGED <<conn, wire, store, holder>>
  BY DEF NotFound
<1>2. /\ h \in Handler /\ h.at = "lockGet" /\ h.id \in Ids /\ h.base = 0 /\ h.timeout
      /\ conn[w] \in {"open", "gone"} /\ Holding(w) /\ wire[w] = <<>>
      /\ Head(resp[w]) = resp[w][Len(resp[w])]
  BY <1>1, AnswerIs DEF Own
<1>3. k \in Handler /\ k.at = "open" /\ k.id = h.id /\ k.base = 0 /\ HandlerFits(conn[w], k)
  BY <1>2 DEF Handler, HandlerFits
<1>4. handler'[w] = k
  BY <1>1 DEF SessionInv, SessionTypeOK
<1>5. Holding(w)'
  BY <1>1, <1>2, <1>3, <1>4, ZenonT(60) DEF Holding, Told
<1> HIDE DEF k
<1>6. QED BY <1>1, <1>2, <1>3, <1>5, AnswerIs, QuietStep

(* The read without locking that finds its session.                         *)
LEMMA GotTouchedKeeps ==
  ASSUME SessionInv, NEW w \in Workers, GotTouched(w)
  PROVE  SessionInv'
<1> DEFINE h == handler[w]
           k == [h EXCEPT !.at = "open", !.base = Head(resp[w]).version]
<1>1. Answered(w, {"getTouch"}) /\ handler' = [handler EXCEPT ![w] = k]
      /\ UNCHANGED <<conn, wire, store, holder>>
  BY DEF GotTouched
<1>2. /\ h \in Handler /\ h.at = "getTouch" /\ h.id \in Ids /\ ~h.timeout /\ Own(w)
      /\ conn[w] \in {"open", "gone"} /\ Head(resp[w]) \in Answer
  BY <1>1, AnswerIs
<1>3. Head(resp[w]).version \in Nat /\ ~h.locked
  BY <1>2 DEF Answer, Own, HandlerFits
<1>4. k \in Handler /\ k.at = "open" /\ ~k.timeout /\ HandlerFits(conn[w], k)
  BY <1>2, <1>3 DEF Handler, HandlerFits
<1>5. handler'[w] = k
  BY <1>1 DEF SessionInv, SessionTypeOK
<1>6. Holding(w)'
  BY <1>4, <1>5 DEF Holding
<1> HIDE DEF k
<1>7. QED BY <1>1, <1>2, <1>4, <1>6, AnswerIs, QuietStep

(* The answer to the touch of a locked read.                                *)
LEMMA TouchedKeeps ==
  ASSUME SessionInv, NEW w \in Workers, Touched(w)
  PROVE  SessionInv'
<1> DEFINE h == handler[w]
           k == [h EXCEPT !.at = "open"]
<1>1. /\ h \in Handler /\ h.at = "touch" /\ conn[w] \in {"open", "gone"} /\ Own(w)
      /\ wire[w] \in Seq(Command) /\ resp[w] \in Seq(Answer) /\ resp[w] # <<>>
      /\ resp' = [resp EXCEPT ![w] = Tail(@)] /\ handler' = [handler EXCEPT ![w] = k]
      /\ UNCHANGED <<conn, wire, store, holder>>
  BY DEF Touched, At, SessionInv, SessionTypeOK
<1>2. wire[w] = <<>> /\ Tail(resp[w]) = <<>>
  BY <1>1, TouchIs DEF Own
<1>3. resp' \in [Workers -> Seq(Answer)] /\ resp'[w] = <<>>
      /\ \A v \in Workers \ {w} : resp'[v] = resp[v]
  BY <1>1, <1>2, ReceivedIs DEF SessionInv
<1>4. k \in Handler /\ k.at = "open" /\ k.id = h.id /\ k.base = h.base /\ HandlerFits(conn[w], k)
  BY <1>1 DEF Handler, HandlerFits, Own
<1>5. handler'[w] = k
  BY <1>1 DEF SessionInv, SessionTypeOK
<1>6. Holding(w)'
  BY <1>1, <1>4, <1>5 DEF Holding, Own, Owns
<1> HIDE DEF k
<1>7. QED BY <1>1, <1>2, <1>3, <1>4, <1>6, QuietStep

(* A read that throws.                                                      *)
LEMMA ReadThrowsKeeps ==
  ASSUME SessionInv, NEW w \in Workers, ReadThrows(w)
  PROVE  SessionInv'
<1> DEFINE h == handler[w]
           k == Left(h)
<1>1. /\ h \in Handler /\ conn[w] \in {"open", "gone"} /\ Own(w)
      /\ resp[w] = <<>> /\ handler' = [handler EXCEPT ![w] = k]
      /\ UNCHANGED <<conn, wire, resp, store, holder>>
  BY DEF ReadThrows, At, SessionInv, SessionTypeOK
<1>2. /\ k \in Handler /\ k.at = "idle" /\ k.serial = h.serial /\ k.id = NULL
      /\ k.timeout = h.timeout /\ k.locked = h.locked /\ k.base = 0
  BY <1>1, LeftIs
<1> HIDE DEF k
<1>3. handler'[w] = k /\ SessionTypeOK' /\ Elsewhere(w)
  BY <1>1, <1>2 DEF SessionInv, SessionTypeOK, Elsewhere
<1>4. HandlerFits(conn[w], k)
  BY <1>1, <1>2 DEF HandlerFits, Own
<1>5. Traffic(conn[w], k, wire[w], <<>>)
  BY <1>1, <1>2, NothingIn DEF Own, Traffic, OpenFits, GoneFits, Waits
<1>6. Own(w)'
  BY <1>1, <1>2, <1>3, <1>4, <1>5 DEF Own, Holding, Replacing
<1>7. QED BY <1>1, <1>3, <1>6, LocalStep DEF Stores

(* The wait for the lock that runs out.                                     *)
LEMMA TimePassesKeeps ==
  ASSUME SessionInv, NEW w \in Workers, TimePasses(w)
  PROVE  SessionInv'
<1> DEFINE h == handler[w]
           k == [h EXCEPT !.late = TRUE]
<1>1. /\ h \in Handler /\ conn[w] \in {"open", "gone"} /\ Own(w)
      /\ handler' = [handler EXCEPT ![w] = k]
      /\ UNCHANGED <<conn, wire, resp, store, holder>>
  BY DEF TimePasses, At, SessionInv, SessionTypeOK
<1>2. /\ k \in Handler /\ k.at = h.at /\ k.serial = h.serial /\ k.id = h.id
      /\ k.timeout = h.timeout /\ k.locked = h.locked /\ k.base = h.base
  BY <1>1 DEF Handler
<1> HIDE DEF k
<1>3. handler'[w] = k /\ SessionTypeOK' /\ Elsewhere(w)
  BY <1>1, <1>2 DEF SessionInv, SessionTypeOK, Elsewhere
<1>4. HandlerFits(conn[w], k)
  BY <1>1, <1>2 DEF HandlerFits, Own
<1>5. Traffic(conn[w], k, wire[w], resp[w])
  BY <1>1, <1>2 DEF Own, Traffic, OpenFits, GoneFits, LastIs
<1>6. Own(w)'
  BY <1>1, <1>2, <1>3, <1>4, <1>5 DEF Own, Holding, Told, Owns, Replacing
<1>7. QED BY <1>1, <1>3, <1>6, LocalStep DEF Stores

(* A command sent when nothing is in flight; k is the handler after it.     *)
LEMMA AloneStep ==
  ASSUME SessionInv, NEW w \in Workers, conn[w] \in {"open", "gone"}, wire[w] = <<>>,
         resp' \in [Workers -> Seq(Answer)], resp'[w] = <<>>,
         \A v \in Workers \ {w} : resp'[v] = resp[v],
         UNCHANGED <<conn, store, holder>>,
         NEW h \in Handler, h.id \in Ids, NEW op \in Writes \cup Waits, NEW version \in Nat,
         Written(w, op, h, version),
         NEW k \in Handler, handler' = [handler EXCEPT ![w] = k],
         HandlerFits(conn[w], k), k.serial = NextSerial(h.serial),
         k.at = "idle" \/ (k.at \in Waits /\ k.at = op /\ k.id = h.id),
         conn[w] = "open" /\ k.at = "touch" => Owns(w, k.id, k.base),
         conn[w] = "open" /\ op = "replaceUnlock" /\ holder[h.id] = w => store[h.id] = h.base,
         op \in {"set", "replaceUnlock"} =>
           /\ version # 0 /\ \A i \in Ids : store[i] # version
           /\ \A v \in Workers \ {w} : Stores(v) => wire[v][1].version # version
  PROVE  SessionInv'
<1>1. handler' \in [Workers -> Handler] /\ handler'[w] = k
      /\ \A v \in Workers \ {w} : handler'[v] = handler[v]
  BY DEF SessionInv, SessionTypeOK
<1>2. SessionTypeOK' /\ Elsewhere(w)
  BY <1>1, WrittenIs DEF SessionInv, SessionTypeOK, Elsewhere
<1>3. CASE conn[w] = "open"
  <2>1. PICK q \in Command :
          /\ q = [op |-> op, id |-> h.id, serial |-> NextSerial(h.serial),
                  base |-> h.base, version |-> version]
          /\ wire'[w] = Append(wire[w], q)
    BY <1>3, WrittenIs DEF SessionInv
  <2>2. q.op = op /\ q.id = h.id /\ q.serial = NextSerial(h.serial) /\ q.base = h.base
        /\ q.version = version
    BY <2>1
  <2>3. <<>> \in Seq(Command) /\ <<>> \in Seq(Answer)
        /\ WritesFirst(<<>>, <<>>) /\ InOrder(h.serial, <<>>, <<>>) /\ Len(<<>>) + Len(<<>>) < MaxFlight
    BY SessionBounds DEF WritesFirst, InOrder
  <2>4. WritesFirst(Append(<<>>, q), <<>>) /\ OpenFits(k, Append(<<>>, q), <<>>)
    BY <2>2, <2>3, SentFits
  <2>5. Traffic("open", k, wire'[w], <<>>)
    BY <2>1, <2>4 DEF Traffic
  <2>6. wire'[w] # <<>> /\ wire'[w][1] = q
    BY <2>1, <2>3, AppendOf, FirstStays
  <2>7. Holding(w)'
    BY <1>1, <1>3, <2>6 DEF Holding, Owns, Waits
  <2>8. Replacing(w)'
    BY <1>3, <2>2, <2>6 DEF Replacing
  <2>9. Own(w)'
    BY <1>1, <1>3, <2>5, <2>7, <2>8 DEF Own
  <2>10. \A v \in Workers : Own(v)'
    <3>1. ASSUME NEW v \in Workers, v # w PROVE Own(v)'
      BY <1>2, <3>1, OthersKeep DEF SessionInv, Elsewhere
    <3>2. QED BY <2>9, <3>1
  <2>11. \A v \in Workers \ {w} : wire'[v] = wire[v] /\ (Stores(v)' <=> Stores(v))
    BY <1>2 DEF Elsewhere, Stores
  <2>12. Stores(w)' => op \in {"set", "replaceUnlock"}
    BY <2>2, <2>6 DEF Stores
  <2>13. Fresh'
    <3>1. ASSUME NEW v \in Workers \ {w}, Stores(v)'
          PROVE  /\ wire'[v][1].version # 0
                 /\ \A i \in Ids : store'[i] # wire'[v][1].version
                 /\ \A u \in Workers \ {w} : u # v /\ Stores(u)' =>
                      wire'[u][1].version # wire'[v][1].version
      <4>1. Stores(v) /\ wire'[v] = wire[v] /\ store' = store
        BY <2>11, <3>1
      <4>2. /\ wire[v][1].version # 0 /\ \A i \in Ids : store[i] # wire[v][1].version
            /\ \A u \in Workers \ {v} : Stores(u) => wire[u][1].version # wire[v][1].version
        BY <4>1 DEF Fresh, SessionInv
      <4>3. \A u \in Workers \ {w} : u # v /\ Stores(u)' => wire'[u][1].version # wire'[v][1].version
        BY <2>11, <4>1, <4>2
      <4>4. QED BY <4>1, <4>2, <4>3
    <3>2. Stores(w)' =>
            /\ version # 0 /\ \A i \in Ids : store'[i] # version
            /\ \A v \in Workers \ {w} : Stores(v)' => wire'[v][1].version # version
      BY <2>11, <2>12
    <3>3. wire'[w][1].version = version
      BY <2>2, <2>6
    <3>4. QED BY <3>1, <3>2, <3>3 DEF Fresh
  <2>14. QED BY <1>2, <2>10, <2>13 DEF SessionInv
<1>4. CASE conn[w] = "gone"
  <2>1. wire'[w] = <<>>
    BY <1>4, WrittenIs DEF SessionInv
  <2>2. Traffic("gone", k, <<>>, <<>>)
    BY NothingIn DEF Traffic, WritesFirst, GoneFits
  <2>3. Own(w)'
    BY <1>1, <1>4, <2>1, <2>2 DEF Own, Holding, Replacing
  <2>4. QED BY <1>2, <2>1, <2>3, LocalStep DEF Stores
<1>5. QED BY <1>3, <1>4

(* The next attempt after the sleep.                                        *)
LEMMA RetryKeeps ==
  ASSUME SessionInv, NEW w \in Workers, Retry(w)
  PROVE  SessionInv'
<1> DEFINE h == handler[w]
           k == [Sent(h) EXCEPT !.at = "lockGet"]
<1>1. /\ h \in Handler /\ conn[w] \in {"open", "gone"} /\ Own(w) /\ h.at = "sleep"
      /\ handler' = [handler EXCEPT ![w] = k] /\ Written(w, "lockGet", h, 0)
      /\ UNCHANGED <<conn, resp, store, holder>> /\ resp \in [Workers -> Seq(Answer)]
  BY DEF Retry, At, SessionInv, SessionTypeOK
<1>2. wire[w] = <<>> /\ resp[w] = <<>> /\ h.id \in Ids
  BY <1>1 DEF Own, Traffic, OpenFits, GoneFits, HandlerFits
<1>3. /\ k \in Handler /\ k.at = "lockGet" /\ k.serial = NextSerial(h.serial) /\ k.id = h.id
      /\ k.timeout = h.timeout /\ k.locked = h.locked /\ k.base = h.base
  BY <1>1, SentIs DEF Handler
<1> HIDE DEF k
<1>4. HandlerFits(conn[w], k)
  BY <1>1, <1>3 DEF HandlerFits, Own
<1>5. QED BY <1>1, <1>2, <1>3, <1>4, AloneStep DEF Waits

(* The attempt that gets the lock, and sends the touch.                     *)
LEMMA GrantedKeeps ==
  ASSUME SessionInv, NEW w \in Workers, Granted(w)
  PROVE  SessionInv'
<1> DEFINE h == handler[w]
           k == [Sent(h) EXCEPT !.at = "touch", !.locked = TRUE, !.late = FALSE,
                                !.base = Head(resp[w]).version]
<1>1. Answered(w, {"lockGet"}) /\ Head(resp[w]).status = "ok"
      /\ handler' = [handler EXCEPT ![w] = k] /\ Written(w, "touch", h, 0)
      /\ UNCHANGED <<conn, store, holder>>
  BY DEF Granted
<1>2. /\ h \in Handler /\ h.at = "lockGet" /\ h.id \in Ids /\ h.timeout
      /\ conn[w] \in {"open", "gone"} /\ Holding(w) /\ wire[w] = <<>>
      /\ Head(resp[w]) = resp[w][Len(resp[w])] /\ Head(resp[w]) \in Answer
      /\ resp'[w] = <<>> /\ resp' \in [Workers -> Seq(Answer)]
      /\ \A v \in Workers \ {w} : resp'[v] = resp[v]
  BY <1>1, AnswerIs DEF Own
<1>3. Head(resp[w]).version \in Nat
  BY <1>2 DEF Answer
<1>4. /\ k \in Handler /\ k.at = "touch" /\ k.serial = NextSerial(h.serial) /\ k.id = h.id
      /\ k.timeout = h.timeout /\ k.base = Head(resp[w]).version
  <2>1. Sent(h) \in Handler /\ Sent(h).serial = NextSerial(h.serial)
        /\ Sent(h).id = h.id /\ Sent(h).timeout = h.timeout
    BY <1>2, SentIs
  <2> HIDE DEF h
  <2>2. QED BY <1>3, <2>1 DEF Handler
<1> HIDE DEF k
<1>5. HandlerFits(conn[w], k)
  BY <1>2, <1>4 DEF HandlerFits
<1>6. conn[w] = "open" => Owns(w, k.id, k.base)
  BY <1>1, <1>2, <1>4 DEF Holding, Told
<1>7. QED BY <1>1, <1>2, <1>4, <1>5, <1>6, AloneStep DEF Waits

-----------------------------------------------------------------------------
(* And so does each step of write, destroy and close.                       *)

(* An open session has nothing in flight.                                   *)
LEMMA OpenIs ==
  ASSUME SessionInv, NEW w \in Workers, At(w, {"open"})
  PROVE  /\ handler[w] \in Handler /\ handler[w].at = "open" /\ handler[w].id \in Ids
         /\ conn[w] \in {"open", "gone"} /\ Own(w)
         /\ wire[w] = <<>> /\ resp[w] = <<>> /\ resp \in [Workers -> Seq(Answer)]
<1>1. handler[w] \in Handler /\ handler[w].at = "open" /\ conn[w] \in {"open", "gone"}
      /\ Own(w) /\ resp \in [Workers -> Seq(Answer)]
  BY DEF At, SessionInv, SessionTypeOK
<1>2. QED BY <1>1 DEF Own, Traffic, OpenFits, GoneFits, HandlerFits

(* A handler that sends its last command and lets go of its session.        *)
LEMMA LeftSentIs ==
  ASSUME NEW h \in Handler, NEW c \in {"open", "gone"}, HandlerFits(c, h)
  PROVE  /\ Left(Sent(h)) \in Handler /\ Left(Sent(h)).at = "idle"
         /\ Left(Sent(h)).serial = NextSerial(h.serial)
         /\ HandlerFits(c, Left(Sent(h)))
         /\ HandlerFits(c, Left(h))
<1>1. /\ Sent(h) \in Handler /\ Sent(h).serial = NextSerial(h.serial)
      /\ Sent(h).timeout = h.timeout /\ Sent(h).locked = h.locked
  BY SentIs
<1>2. QED BY <1>1, LeftIs DEF HandlerFits

(* The write of a session.                                                  *)
LEMMA WriteKeeps ==
  ASSUME SessionInv, NEW w \in Workers, Write(w)
  PROVE  SessionInv'
<1> DEFINE h == handler[w]
           k == Left(Sent(h))
           op == StoreCommand(w)
           version == NewVersion
<1>1. /\ At(w, {"open"}) /\ Written(w, op, h, version)
      /\ handler' = [handler EXCEPT ![w] = k] /\ UNCHANGED <<conn, resp, store, holder>>
  BY DEF Write
<1>2. /\ h \in Handler /\ h.at = "open" /\ h.id \in Ids /\ conn[w] \in {"open", "gone"} /\ Own(w)
      /\ wire[w] = <<>> /\ resp[w] = <<>> /\ resp \in [Workers -> Seq(Answer)]
  BY <1>1, OpenIs
<1>3. k \in Handler /\ k.at = "idle" /\ k.serial = NextSerial(h.serial) /\ HandlerFits(conn[w], k)
  BY <1>2, LeftSentIs DEF Own
<1>4. op \in {"set", "replaceUnlock"} /\ (op = "replaceUnlock" => h.timeout)
  BY <1>2 DEF StoreCommand, Own, HandlerFits
<1>5. version \in Nat \ {0} /\ version \notin Versions
  BY FreshVersion DEF SessionInv
<1>6. \A i \in Ids : store[i] # version
  BY <1>5 DEF Versions
<1>7. ASSUME NEW v \in Workers, Stores(v) PROVE wire[v][1].version # version
  <2>1. wire[v] \in Seq(Command) /\ wire[v] # <<>>
    BY <1>7 DEF SessionInv, SessionTypeOK, Stores
  <2>2. 1 \in 1..Len(wire[v])
    BY <2>1
  <2>3. wire[v][1] \in Queued(wire)
    BY <2>2 DEF Queued
  <2>4. QED BY <2>3, <1>5 DEF Versions
<1>8. conn[w] = "open" /\ op = "replaceUnlock" /\ holder[h.id] = w => store[h.id] = h.base
  BY <1>2, <1>4 DEF Own, Holding, Owns
<1> HIDE DEF h, k, op, version
<1>9. conn[w] = "open" /\ k.at = "touch" => Owns(w, k.id, k.base)
  BY <1>3
<1>10. op \in Writes \cup Waits
  BY <1>4 DEF Writes
<1>11. QED BY <1>1, <1>2, <1>3, <1>5, <1>6, <1>7, <1>8, <1>9, <1>10, AloneStep, ZenonT(60)

(* The destruction of a session.                                            *)
LEMMA DestroyKeeps ==
  ASSUME SessionInv, NEW w \in Workers, Destroy(w)
  PROVE  SessionInv'
<1> DEFINE h == handler[w]
           k == Left(Sent(h))
<1>1. /\ At(w, {"open"}) /\ Written(w, "delete", h, 0)
      /\ handler' = [handler EXCEPT ![w] = k] /\ UNCHANGED <<conn, resp, store, holder>>
  BY DEF Destroy
<1>2. /\ h \in Handler /\ h.id \in Ids /\ conn[w] \in {"open", "gone"} /\ Own(w)
      /\ wire[w] = <<>> /\ resp[w] = <<>> /\ resp \in [Workers -> Seq(Answer)]
  BY <1>1, OpenIs
<1>3. k \in Handler /\ k.at = "idle" /\ k.serial = NextSerial(h.serial) /\ HandlerFits(conn[w], k)
  BY <1>2, LeftSentIs DEF Own
<1> HIDE DEF h, k
<1>4. "delete" \in Writes \cup Waits /\ 0 \in Nat
  BY DEF Writes
<1>5. QED BY <1>1, <1>2, <1>3, <1>4, AloneStep

(* A close without a write.                                                 *)
LEMMA AbortKeeps ==
  ASSUME SessionInv, NEW w \in Workers, Abort(w)
  PROVE  SessionInv'
<1> DEFINE h == handler[w]
           k == Left(h)
<1>1. /\ At(w, {"open"}) /\ handler' = [handler EXCEPT ![w] = k]
      /\ UNCHANGED <<conn, wire, resp, store, holder>>
  BY DEF Abort
<1>2. /\ h \in Handler /\ conn[w] \in {"open", "gone"} /\ Own(w)
      /\ wire[w] = <<>> /\ resp[w] = <<>> /\ resp \in [Workers -> Seq(Answer)]
  BY <1>1, OpenIs
<1>3. k \in Handler /\ k.at = "idle" /\ HandlerFits(conn[w], k)
  BY <1>2, LeftIs, LeftSentIs DEF Own
<1>4. handler'[w] = k
  BY <1>1 DEF SessionInv, SessionTypeOK
<1>5. Holding(w)'
  BY <1>3, <1>4 DEF Holding
<1> HIDE DEF h, k
<1>6. QED BY <1>1, <1>2, <1>3, <1>5, QuietStep

(* The end of a PHP request, which closes the connection.                   *)
LEMMA EndRequestKeeps ==
  ASSUME SessionInv, NEW w \in Workers, EndRequest(w)
  PROVE  SessionInv'
<1> DEFINE k == NewHandler(FALSE)
           c == IF conn[w] = "open" THEN "eof" ELSE "closed"
<1>1. /\ conn[w] \in {"open", "gone"} /\ Own(w)
      /\ conn' = [conn EXCEPT ![w] = c] /\ resp' = [resp EXCEPT ![w] = <<>>]
      /\ handler' = [handler EXCEPT ![w] = k] /\ UNCHANGED <<wire, store, holder>>
  BY DEF EndRequest, SessionInv
<1>2. k \in Handler /\ k.at = "idle" /\ k.id = NULL /\ k.base = 0 /\ ~k.locked
  BY NewIs DEF NewHandler
<1>3. c \in {"eof", "closed"} /\ (c = "closed" => conn[w] = "gone")
  BY <1>1
<1> HIDE DEF k, c
<1>4. /\ handler'[w] = k /\ conn'[w] = c /\ resp'[w] = <<>> /\ wire'[w] = wire[w]
      /\ SessionTypeOK' /\ Elsewhere(w)
  BY <1>1, <1>2, <1>3 DEF SessionInv, SessionTypeOK, Elsewhere
<1>5. HandlerFits(c, k)
  BY <1>2 DEF HandlerFits
<1>6. Traffic(c, k, wire[w], <<>>)
  BY <1>1, <1>3 DEF Own, Traffic, WritesFirst
<1>7. Own(w)'
  BY <1>1, <1>3, <1>4, <1>5, <1>6 DEF Own, Holding, Replacing
<1>8. QED BY <1>1, <1>4, <1>7, LocalStep DEF Stores

(* The next PHP request, with a new handler.                                *)
LEMMA NewRequestKeeps ==
  ASSUME SessionInv, NEW w \in Workers, NEW timeout \in Timeouts, NewRequest(w, timeout)
  PROVE  SessionInv'
<1> DEFINE k == NewHandler(timeout)
<1>1. /\ conn[w] = "closed" /\ Own(w)
      /\ conn' = [conn EXCEPT ![w] = "open"] /\ handler' = [handler EXCEPT ![w] = k]
      /\ UNCHANGED <<wire, resp, store, holder>>
  BY DEF NewRequest, SessionInv
<1>2. k \in Handler /\ k.at = "idle" /\ k.id = NULL /\ k.base = 0 /\ ~k.locked
  BY TimeoutsAssumption, NewIs DEF NewHandler
<1> HIDE DEF k
<1>3. /\ handler'[w] = k /\ conn'[w] = "open" /\ wire[w] = <<>> /\ resp[w] = <<>>
      /\ SessionTypeOK' /\ Elsewhere(w)
  BY <1>1, <1>2 DEF SessionInv, SessionTypeOK, Elsewhere, Own, Traffic
<1>4. HandlerFits("open", k) /\ Traffic("open", k, <<>>, <<>>)
  BY <1>2, EmptyFits DEF HandlerFits
<1>5. Own(w)'
  BY <1>1, <1>2, <1>3, <1>4 DEF Own, Holding, Replacing
<1>6. QED BY <1>1, <1>3, <1>5, LocalStep DEF Stores

-----------------------------------------------------------------------------
(* What the server does with a command.                                     *)
LEMMA ServingIs ==
  ASSUME SessionInv, NEW w \in Workers, NEW op, Serving(w, op)
  PROVE  /\ conn[w] \in {"open", "eof"} /\ handler[w] \in Handler /\ Own(w)
         /\ wire[w] \in Seq(Command) /\ resp[w] \in Seq(Answer) /\ wire[w] # <<>>
         /\ Head(wire[w]) = wire[w][1] /\ Head(wire[w]) \in Command /\ Head(wire[w]).op = op
         /\ Head(wire[w]).id \in Ids /\ Head(wire[w]).version \in Nat
         /\ wire' \in [Workers -> Seq(Command)] /\ wire'[w] = Tail(wire[w])
         /\ \A v \in Workers \ {w} : wire'[v] = wire[v]
<1>1. /\ conn[w] \in {"open", "eof"} /\ handler[w] \in Handler /\ Own(w)
      /\ wire[w] \in Seq(Command) /\ resp[w] \in Seq(Answer) /\ wire[w] # <<>>
      /\ Head(wire[w]).op = op /\ wire' = [wire EXCEPT ![w] = Tail(@)]
  BY DEF Serving, SessionInv, SessionTypeOK
<1>2. Head(wire[w]) = wire[w][1] /\ Head(wire[w]) \in Command /\ Tail(wire[w]) \in Seq(Command)
  BY <1>1, TailOf
<1>3. Head(wire[w]).id \in Ids /\ Head(wire[w]).version \in Nat
  BY <1>2 DEF Command
<1>4. QED BY <1>1, <1>2, <1>3 DEF SessionInv, SessionTypeOK

(* Other connections do not notice, as far as they have no lock in it.      *)
LEMMA ServedStep ==
  ASSUME SessionInv, NEW w \in Workers, NEW op, Serving(w, op),
         UNCHANGED <<handler, conn>>, resp' \in [Workers -> Seq(Answer)],
         \A v \in Workers \ {w} : resp'[v] = resp[v],
         store' \in [Ids -> Nat], holder' \in [Ids -> Workers \cup {NULL}],
         \A i \in Ids : store'[i] = 0 => holder'[i] = NULL,
         \A i \in Ids : \A v \in Workers \ {w} :
           /\ holder[i] = v => holder'[i] = v /\ store'[i] = store[i]
           /\ holder[i] # v => holder'[i] # v,
         \A i \in Ids : \/ store'[i] \in {store[i], 0}
                        \/ Stores(w) /\ store'[i] = wire[w][1].version,
         Own(w)', ~Stores(w)'
  PROVE  SessionInv'
<1>1. SessionTypeOK' /\ Elsewhere(w)
  BY ServingIs DEF SessionInv, SessionTypeOK, Elsewhere
<1>2. ASSUME NEW v \in Workers PROVE Own(v)'
  <2>1. CASE v = w BY <2>1
  <2>2. CASE v # w BY <1>1, <2>2, OthersKeep DEF SessionInv, Elsewhere
  <2>3. QED BY <2>1, <2>2
<1>3. \A v \in Workers : Stores(v)' => v # w /\ Stores(v) /\ wire'[v] = wire[v]
  BY <1>1 DEF Elsewhere, Stores
<1>4. ASSUME NEW v \in Workers, Stores(v)'
      PROVE  /\ wire'[v][1].version # 0
             /\ \A i \in Ids : store'[i] # wire'[v][1].version
             /\ \A u \in Workers \ {v} : Stores(u)' => wire'[u][1].version # wire'[v][1].version
  <2>1. v # w /\ Stores(v) /\ wire'[v] = wire[v]
    BY <1>3, <1>4
  <2>2. /\ wire[v][1].version # 0 /\ \A i \in Ids : store[i] # wire[v][1].version
        /\ \A u \in Workers \ {v} : Stores(u) => wire[u][1].version # wire[v][1].version
    BY <2>1 DEF Fresh, SessionInv
  <2>3. \A i \in Ids : store'[i] # wire[v][1].version
    BY <2>1, <2>2
  <2>4. \A u \in Workers \ {v} : Stores(u)' => wire'[u][1].version # wire[v][1].version
    BY <1>3, <2>2
  <2>5. QED BY <2>1, <2>2, <2>3, <2>4
<1>5. Fresh'
  BY <1>4 DEF Fresh
<1>6. QED BY <1>1, <1>2, <1>5 DEF SessionInv

(* What an answer of the server puts on the connection.                     *)
LEMMA ReplyIs ==
  ASSUME SessionInv, NEW w \in Workers, NEW op, Serving(w, op),
         NEW status \in {"ok", "locked", "refused"}, NEW version \in Nat,
         Reply(w, status, version)
  PROVE  /\ resp' \in [Workers -> Seq(Answer)]
         /\ \A v \in Workers \ {w} : resp'[v] = resp[v]
         /\ conn[w] # "open" => resp'[w] = resp[w]
         /\ conn[w] = "open" =>
              \E a \in Answer :
                /\ a.op = op /\ a.serial = Head(wire[w]).serial
                /\ a.status = status /\ a.version = version
                /\ resp'[w] = Append(resp[w], a)
<1> DEFINE a == [op |-> Head(wire[w]).op, serial |-> Head(wire[w]).serial,
                 status |-> status, version |-> version]
<1>1. Head(wire[w]) \in Command /\ Head(wire[w]).op = op
  BY ServingIs
<1>2. a \in Answer /\ a.op = op /\ a.serial = Head(wire[w]).serial
      /\ a.status = status /\ a.version = version
  BY <1>1 DEF Command, Answer
<1>3. resp' = IF conn[w] = "open" THEN [resp EXCEPT ![w] = Append(@, a)] ELSE resp
  BY DEF Reply
<1> HIDE DEF a
<1>4. Append(resp[w], a) \in Seq(Answer)
  BY <1>2, ServingIs, AppendOf
<1>5. QED BY <1>2, <1>3, <1>4 DEF SessionInv, SessionTypeOK

(* It answers.                                                              *)
LEMMA ReplyStep ==
  ASSUME SessionInv, NEW w \in Workers, NEW op, Serving(w, op),
         UNCHANGED <<handler, conn, store>>,
         NEW status \in {"ok", "locked", "refused"}, NEW version \in Nat,
         Reply(w, status, version),
         holder' \in [Ids -> Workers \cup {NULL}],
         \A i \in Ids : store[i] = 0 => holder'[i] = NULL,
         \A i \in Ids : \A v \in Workers \ {w} : holder[i] = v <=> holder'[i] = v,
         \A i \in Ids : holder[i] = w => holder'[i] = w,
         op = "lockGet" =>
           /\ status = "ok" => /\ version # 0 /\ holder'[Head(wire[w]).id] = w
                               /\ store[Head(wire[w]).id] = version
           /\ status = "refused" => holder'[Head(wire[w]).id] # w
  PROVE  SessionInv'
<1> DEFINE h == handler[w]
           sent == Tail(wire[w])
<1>1. /\ conn[w] \in {"open", "eof"} /\ h \in Handler /\ Own(w)
      /\ wire[w] \in Seq(Command) /\ resp[w] \in Seq(Answer) /\ wire[w] # <<>>
      /\ Head(wire[w]).op = op /\ Head(wire[w]).id \in Ids /\ wire'[w] = sent
  BY ServingIs
<1>2. /\ resp' \in [Workers -> Seq(Answer)] /\ \A v \in Workers \ {w} : resp'[v] = resp[v]
      /\ store' = store /\ store' \in [Ids -> Nat]
  BY ReplyIs DEF SessionInv, SessionTypeOK
<1>3. ASSUME conn[w] = "open" PROVE Own(w)' /\ ~Stores(w)'
  <2>1. PICK a \in Answer : /\ a.op = op /\ a.serial = Head(wire[w]).serial
                            /\ a.status = status /\ a.version = version
                            /\ resp'[w] = Append(resp[w], a)
    BY <1>3, ReplyIs
  <2> DEFINE got == Append(resp[w], a)
  <2>2. /\ Traffic("open", h, sent, got)
        /\ sent = <<>> => got[Len(got)] = a
        /\ sent # <<>> => sent[1].op \notin Writes
        /\ h.at \in Waits /\ sent = <<>> => op = h.at /\ Head(wire[w]).id = h.id
    <3>1. Traffic("open", h, wire[w], resp[w])
      BY <1>1, <1>3 DEF Own
    <3> HIDE DEF h
    <3>2. QED BY <1>1, <2>1, <3>1, ServedFits, SMTT(30)
  <2>3. h.at # "open" /\ (h.at # "idle" => h.id \in Ids)
    BY <1>1, <1>3 DEF Own, Traffic, OpenFits, HandlerFits
  <2>4. ASSUME h.at = "lockGet", sent = <<>>
        PROVE  /\ resp'[w][Len(resp'[w])].status = "ok" =>
                    /\ resp'[w][Len(resp'[w])].version # 0 /\ holder'[h.id] = w
                    /\ store[h.id] = resp'[w][Len(resp'[w])].version
               /\ resp'[w][Len(resp'[w])].status = "refused" => holder'[h.id] # w
    <3>1. op = "lockGet" /\ Head(wire[w]).id = h.id /\ resp'[w][Len(resp'[w])] = a
      BY <2>1, <2>2, <2>4 DEF Waits
    <3> HIDE DEF h, sent, got
    <3>2. QED BY <2>1, <3>1
  <2>5. h.at = "touch" => h.base # 0 /\ holder'[h.id] = w /\ store[h.id] = h.base
    BY <1>1, <1>3, <2>3 DEF Own, Holding, Owns
  <2>6. Holding(w)'
    <3>1. handler'[w] = h /\ store' = store /\ wire'[w] = sent
      BY <1>1
    <3> HIDE DEF h, sent, got
    <3>2. QED BY <2>3, <2>4, <2>5, <3>1 DEF Holding, Told, Owns
  <2>7. Replacing(w)' /\ ~Stores(w)'
    BY <1>1, <2>2 DEF Replacing, Stores, Writes
  <2>8. Own(w)'
    BY <1>1, <1>3, <2>1, <2>2, <2>6, <2>7 DEF Own
  <2>9. QED BY <2>7, <2>8
<1>4. ASSUME conn[w] = "eof" PROVE Own(w)' /\ ~Stores(w)'
  <2>1. resp'[w] = resp[w]
    BY <1>4, ReplyIs
  <2>2. /\ Traffic("eof", h, sent, resp[w])
        /\ sent # <<>> => sent[1].op \notin Writes
    <3>1. Traffic("eof", h, wire[w], resp[w])
      BY <1>1, <1>4 DEF Own
    <3> HIDE DEF h
    <3>2. QED BY <1>1, <3>1, DoneAfterEof
  <2>3. Replacing(w)' /\ ~Stores(w)'
    BY <1>1, <2>2 DEF Replacing, Stores, Writes
  <2>4. Own(w)'
    BY <1>1, <1>4, <2>1, <2>2, <2>3 DEF Own, Holding
  <2>5. QED BY <2>3, <2>4
<1>5. Own(w)' /\ ~Stores(w)'
  BY <1>1, <1>3, <1>4
<1> HIDE DEF h, sent
<1>6. UNCHANGED <<handler, conn>> /\ Serving(w, op)
  OBVIOUS
<1>7. \A i \in Ids : store'[i] = 0 => holder'[i] = NULL
  BY <1>2
<1>8. \A i \in Ids : \A v \in Workers \ {w} :
        /\ holder[i] = v => holder'[i] = v /\ store'[i] = store[i]
        /\ holder[i] # v => holder'[i] # v
  BY <1>2
<1>9. \A i \in Ids : \/ store'[i] \in {store[i], 0}
                     \/ Stores(w) /\ store'[i] = wire[w][1].version
  BY <1>2
<1>10. QED BY <1>2, <1>5, <1>6, <1>7, <1>8, <1>9, ServedStep

(* It carries out a write, without an answer.                               *)
LEMMA DoneStep ==
  ASSUME SessionInv, NEW w \in Workers, NEW op \in Writes, Serving(w, op),
         UNCHANGED <<handler, conn, resp>>,
         store' \in [Ids -> Nat], holder' \in [Ids -> Workers \cup {NULL}],
         \A i \in Ids : store'[i] = 0 => holder'[i] = NULL,
         \A i \in Ids : \A v \in Workers \ {w} :
           /\ holder[i] = v => holder'[i] = v /\ store'[i] = store[i]
           /\ holder[i] # v => holder'[i] # v,
         \A i \in Ids : \/ store'[i] \in {store[i], 0}
                        \/ Stores(w) /\ store'[i] = wire[w][1].version
  PROVE  SessionInv'
<1> DEFINE h == handler[w]
           sent == Tail(wire[w])
<1>1. /\ conn[w] \in {"open", "eof"} /\ h \in Handler /\ Own(w)
      /\ wire[w] \in Seq(Command) /\ resp[w] \in Seq(Answer) /\ wire[w] # <<>>
      /\ Head(wire[w]).op = op /\ Head(wire[w]) = wire[w][1] /\ wire'[w] = sent
  BY ServingIs
<1>2. CASE conn[w] = "open"
  <2>1. Traffic("open", h, wire[w], resp[w])
    BY <1>1, <1>2 DEF Own
  <2>2. resp[w] = <<>>
    <3>1. 1 \in 1..Len(wire[w])
      BY <1>1
    <3>2. QED BY <1>1, <2>1, <3>1 DEF Traffic, WritesFirst
  <2>3. /\ Traffic("open", h, sent, <<>>)
        /\ sent # <<>> => sent[1].op \notin Writes
        /\ h.at \in Waits => h.at # "touch" /\ sent # <<>>
    <3> HIDE DEF h
    <3>1. QED BY <1>1, <2>1, <2>2, DoneFits
  <2>4. h.at # "open"
    BY <1>1, <2>1 DEF Traffic, OpenFits
  <2>5. Holding(w)'
    BY <1>1, <2>3, <2>4 DEF Holding, Waits
  <2>6. Replacing(w)' /\ ~Stores(w)'
    BY <1>1, <2>3 DEF Replacing, Stores, Writes
  <2>7. Own(w)'
    BY <1>1, <1>2, <2>2, <2>3, <2>5, <2>6 DEF Own
  <2>8. QED BY <2>6, <2>7, ServedStep DEF SessionInv, SessionTypeOK
<1>3. CASE conn[w] = "eof"
  <2>1. /\ Traffic("eof", h, sent, resp[w])
        /\ sent # <<>> => sent[1].op \notin Writes
    <3>1. Traffic("eof", h, wire[w], resp[w])
      BY <1>1, <1>3 DEF Own
    <3> HIDE DEF h
    <3>2. QED BY <1>1, <3>1, DoneAfterEof
  <2>2. Replacing(w)' /\ ~Stores(w)'
    BY <1>1, <2>1 DEF Replacing, Stores, Writes
  <2>3. Own(w)'
    BY <1>1, <1>3, <2>1, <2>2 DEF Own, Holding
  <2>4. QED BY <2>2, <2>3, ServedStep DEF SessionInv, SessionTypeOK
<1>4. QED BY <1>1, <1>2, <1>3

(* The server grants the lock, or refuses it.                               *)
LEMMA ServeLockGetKeeps ==
  ASSUME SessionInv, NEW w \in Workers, ServeLockGet(w)
  PROVE  SessionInv'
<1> DEFINE i == Head(wire[w]).id
<1>1. Serving(w, "lockGet") /\ UNCHANGED <<handler, conn, store>>
  BY DEF ServeLockGet
<1>2. i \in Ids /\ store \in [Ids -> Nat] /\ holder \in [Ids -> Workers \cup {NULL}]
      /\ NULL \notin Workers /\ \A j \in Ids : store[j] = 0 => holder[j] = NULL
  BY <1>1, ServingIs, NullAssumption DEF SessionInv, SessionTypeOK
<1> HIDE DEF i
<1>3. CASE store[i] = 0 /\ Reply(w, "refused", 0) /\ UNCHANGED holder
  BY <1>1, <1>2, <1>3, ReplyStep DEF i
<1>4. CASE store[i] # 0 /\ Reply(w, "locked", 0) /\ UNCHANGED holder
  BY <1>1, <1>2, <1>4, ReplyStep DEF i
<1>5. CASE store[i] # 0 /\ ~Others(w, i) /\ Reply(w, "ok", store[i])
           /\ holder' = [holder EXCEPT ![i] = w]
  <2>1. /\ holder' \in [Ids -> Workers \cup {NULL}] /\ holder'[i] = w
        /\ \A j \in Ids : j # i => holder'[j] = holder[j]
        /\ holder[i] \in {NULL, w}
    BY <1>2, <1>5 DEF Others
  <2>2. \A j \in Ids : store[j] = 0 => holder'[j] = NULL
    BY <1>2, <1>5, <2>1
  <2>3. \A j \in Ids : \A v \in Workers \ {w} : holder[j] = v <=> holder'[j] = v
    BY <1>2, <2>1
  <2>4. store[i] \in Nat /\ \A j \in Ids : holder[j] = w => holder'[j] = w
    BY <1>2, <2>1
  <2>5. QED BY <1>1, <1>5, <2>1, <2>2, <2>3, <2>4, ReplyStep DEF i
<1>6. QED BY <1>3, <1>4, <1>5 DEF ServeLockGet, i

(* Any other answer leaves the locks alone.                                 *)
LEMMA OtherReply ==
  ASSUME SessionInv, NEW w \in Workers, NEW op, op # "lockGet", Serving(w, op),
         NEW status \in {"ok", "locked", "refused"}, NEW version \in Nat,
         Reply(w, status, version), UNCHANGED <<handler, conn, store, holder>>
  PROVE  SessionInv'
<1>1. /\ holder' \in [Ids -> Workers \cup {NULL}]
      /\ \A j \in Ids : store[j] = 0 => holder'[j] = NULL
  BY DEF SessionInv, SessionTypeOK
<1>2. QED BY <1>1, ReplyStep

(* The server carries out the touch of a locked read.                       *)
LEMMA ServeTouchKeeps ==
  ASSUME SessionInv, NEW w \in Workers, ServeTouch(w)
  PROVE  SessionInv'
BY OtherReply DEF ServeTouch

(* The server reads a session without locking it.                           *)
LEMMA ServeGetTouchKeeps ==
  ASSUME SessionInv, NEW w \in Workers, ServeGetTouch(w)
  PROVE  SessionInv'
<1>1. Serving(w, "getTouch") /\ UNCHANGED <<handler, conn, store, holder>>
  BY DEF ServeGetTouch
<1>2. store[Head(wire[w]).id] \in Nat
  BY <1>1, ServingIs DEF SessionInv, SessionTypeOK
<1>3. \/ Reply(w, "ok", store[Head(wire[w]).id])
      \/ Reply(w, "refused", 0)
  BY DEF ServeGetTouch
<1>4. QED BY <1>1, <1>2, <1>3, OtherReply

(* A version that is stored is new, and not 0.                              *)
LEMMA StoredIs ==
  ASSUME SessionInv, NEW w \in Workers, NEW op \in {"set", "replaceUnlock"}, Serving(w, op)
  PROVE  /\ Stores(w) /\ Head(wire[w]) = wire[w][1] /\ op \in Writes
         /\ wire[w][1].id \in Ids /\ wire[w][1].version \in Nat \ {0}
<1>1. Stores(w) /\ Head(wire[w]) = wire[w][1]
  BY ServingIs DEF Stores
<1>2. wire[w][1].version # 0
  BY <1>1 DEF SessionInv, Fresh
<1>3. QED BY <1>1, <1>2, ServingIs DEF Writes

(* The server carries out a locked write, or refuses it.                    *)
LEMMA ServeReplaceUnlockKeeps ==
  ASSUME SessionInv, NEW w \in Workers, ServeReplaceUnlock(w)
  PROVE  SessionInv'
<1> DEFINE q == wire[w][1]
<1>1. Serving(w, "replaceUnlock") /\ UNCHANGED <<handler, conn>>
  BY DEF ServeReplaceUnlock
<1>2. /\ Stores(w) /\ Head(wire[w]) = q /\ q.id \in Ids /\ q.version \in Nat \ {0}
      /\ "replaceUnlock" \in Writes
  BY <1>1, StoredIs
<1>3. store \in [Ids -> Nat] /\ holder \in [Ids -> Workers \cup {NULL}]
      /\ NULL \notin Workers /\ \A j \in Ids : store[j] = 0 => holder[j] = NULL
  BY NullAssumption DEF SessionInv, SessionTypeOK
<1>4. \/ /\ holder[q.id] = w /\ store' = [store EXCEPT ![q.id] = q.version]
         /\ holder' = [holder EXCEPT ![q.id] = NULL] /\ UNCHANGED resp
      \/ Reply(w, "refused", 0) /\ UNCHANGED <<store, holder>>
  BY <1>2 DEF ServeReplaceUnlock
<1> HIDE DEF q
<1>5. CASE /\ holder[q.id] = w /\ store' = [store EXCEPT ![q.id] = q.version]
           /\ holder' = [holder EXCEPT ![q.id] = NULL] /\ UNCHANGED resp
  <2>1. /\ store' \in [Ids -> Nat] /\ holder' \in [Ids -> Workers \cup {NULL}]
        /\ store'[q.id] = q.version /\ holder'[q.id] = NULL
        /\ \A j \in Ids : j # q.id => store'[j] = store[j] /\ holder'[j] = holder[j]
    BY <1>2, <1>3, <1>5
  <2>2. \A j \in Ids : store'[j] = 0 => holder'[j] = NULL
    BY <1>3, <2>1
  <2>3. \A j \in Ids : \A v \in Workers \ {w} :
          /\ holder[j] = v => holder'[j] = v /\ store'[j] = store[j]
          /\ holder[j] # v => holder'[j] # v
    BY <1>3, <1>5, <2>1
  <2>4. \A j \in Ids : \/ store'[j] \in {store[j], 0}
                       \/ Stores(w) /\ store'[j] = wire[w][1].version
    BY <1>2, <2>1 DEF q
  <2>5. QED BY <1>1, <1>2, <1>5, <2>1, <2>2, <2>3, <2>4, DoneStep
<1>6. CASE Reply(w, "refused", 0) /\ UNCHANGED <<store, holder>>
  BY <1>1, <1>6, OtherReply
<1>7. QED BY <1>4, <1>5, <1>6

(* The server carries out an unlocked write, or refuses it.                 *)
LEMMA ServeSetKeeps ==
  ASSUME SessionInv, NEW w \in Workers, ServeSet(w)
  PROVE  SessionInv'
<1> DEFINE q == wire[w][1]
<1>1. Serving(w, "set") /\ UNCHANGED <<handler, conn, holder>>
  BY DEF ServeSet
<1>2. /\ Stores(w) /\ Head(wire[w]) = q /\ q.id \in Ids /\ q.version \in Nat \ {0}
      /\ "set" \in Writes
  BY <1>1, StoredIs
<1>3. store \in [Ids -> Nat] /\ holder \in [Ids -> Workers \cup {NULL}]
      /\ NULL \notin Workers /\ \A j \in Ids : store[j] = 0 => holder[j] = NULL
  BY NullAssumption DEF SessionInv, SessionTypeOK
<1>4. \/ /\ holder[q.id] \in {NULL, w} /\ store' = [store EXCEPT ![q.id] = q.version]
         /\ UNCHANGED resp
      \/ Reply(w, "locked", 0) /\ UNCHANGED store
  BY <1>2 DEF ServeSet, Others
<1> HIDE DEF q
<1>5. CASE /\ holder[q.id] \in {NULL, w} /\ store' = [store EXCEPT ![q.id] = q.version]
           /\ UNCHANGED resp
  <2>1. /\ store' \in [Ids -> Nat] /\ holder' \in [Ids -> Workers \cup {NULL}]
        /\ store'[q.id] = q.version
        /\ \A j \in Ids : holder'[j] = holder[j] /\ (j # q.id => store'[j] = store[j])
    BY <1>1, <1>2, <1>3, <1>5
  <2>2. \A j \in Ids : store'[j] = 0 => holder'[j] = NULL
    BY <1>2, <1>3, <2>1
  <2>3. \A j \in Ids : \A v \in Workers \ {w} :
          /\ holder[j] = v => holder'[j] = v /\ store'[j] = store[j]
          /\ holder[j] # v => holder'[j] # v
    BY <1>3, <1>5, <2>1
  <2>4. \A j \in Ids : \/ store'[j] \in {store[j], 0}
                       \/ Stores(w) /\ store'[j] = wire[w][1].version
    BY <1>2, <2>1 DEF q
  <2>5. QED BY <1>1, <1>2, <1>5, <2>1, <2>2, <2>3, <2>4, DoneStep
<1>6. CASE Reply(w, "locked", 0) /\ UNCHANGED store
  BY <1>1, <1>6, OtherReply
<1>7. QED BY <1>4, <1>5, <1>6

(* The server deletes a session, or refuses to.                             *)
LEMMA ServeDeleteKeeps ==
  ASSUME SessionInv, NEW w \in Workers, ServeDelete(w)
  PROVE  SessionInv'
<1> DEFINE i == Head(wire[w]).id
<1>1. Serving(w, "delete") /\ UNCHANGED <<handler, conn>>
  BY DEF ServeDelete
<1>2. /\ i \in Ids /\ store \in [Ids -> Nat] /\ holder \in [Ids -> Workers \cup {NULL}]
      /\ NULL \notin Workers /\ \A j \in Ids : store[j] = 0 => holder[j] = NULL
      /\ "delete" \in Writes
  BY <1>1, ServingIs, NullAssumption DEF SessionInv, SessionTypeOK, Writes
<1>3. \/ /\ holder[i] \in {NULL, w} /\ store' = [store EXCEPT ![i] = 0]
         /\ holder' = [holder EXCEPT ![i] = NULL] /\ UNCHANGED resp
      \/ Reply(w, "refused", 0) /\ UNCHANGED <<store, holder>>
  BY DEF ServeDelete, Others
<1> HIDE DEF i
<1>4. CASE /\ holder[i] \in {NULL, w} /\ store' = [store EXCEPT ![i] = 0]
           /\ holder' = [holder EXCEPT ![i] = NULL] /\ UNCHANGED resp
  <2>1. /\ store' \in [Ids -> Nat] /\ holder' \in [Ids -> Workers \cup {NULL}]
        /\ store'[i] = 0 /\ holder'[i] = NULL
        /\ \A j \in Ids : j # i => store'[j] = store[j] /\ holder'[j] = holder[j]
    BY <1>2, <1>4
  <2>2. \A j \in Ids : store'[j] = 0 => holder'[j] = NULL
    BY <1>2, <2>1
  <2>3. \A j \in Ids : \A v \in Workers \ {w} :
          /\ holder[j] = v => holder'[j] = v /\ store'[j] = store[j]
          /\ holder[j] # v => holder'[j] # v
    BY <1>2, <1>4, <2>1
  <2>4. \A j \in Ids : store'[j] \in {store[j], 0}
    BY <2>1
  <2>5. QED BY <1>1, <1>2, <1>4, <2>1, <2>2, <2>3, <2>4, DoneStep
<1>5. CASE Reply(w, "refused", 0) /\ UNCHANGED <<store, holder>>
  BY <1>1, <1>5, OtherReply
<1>6. QED BY <1>3, <1>4, <1>5

(* A session expires.                                                       *)
LEMMA ExpiresKeeps ==
  ASSUME SessionInv, NEW i \in Ids, Expires(i)
  PROVE  SessionInv'
<1>1. /\ holder[i] = NULL /\ store' = [store EXCEPT ![i] = 0]
      /\ UNCHANGED <<handler, conn, wire, resp, holder>>
      /\ store \in [Ids -> Nat] /\ NULL \notin Workers
  BY NullAssumption DEF Expires, SessionInv, SessionTypeOK
<1>2. store' \in [Ids -> Nat] /\ \A j \in Ids : store'[j] = IF j = i THEN 0 ELSE store[j]
  BY <1>1
<1>3. SessionTypeOK'
  BY <1>1, <1>2 DEF SessionInv, SessionTypeOK
<1>4. ASSUME NEW v \in Workers PROVE Own(v)'
  BY <1>1, <1>2, OthersKeep DEF SessionInv
<1>5. \A v \in Workers : Stores(v)' <=> Stores(v)
  BY <1>1 DEF Stores
<1>6. Fresh'
  BY <1>1, <1>2, <1>5 DEF SessionInv, Fresh
<1>7. QED BY <1>1, <1>2, <1>3, <1>4, <1>6 DEF SessionInv

(* A connection is lost, with its locks.                                    *)
LEMMA DisconnectsKeeps ==
  ASSUME SessionInv, NEW w \in Workers, Disconnects(w)
  PROVE  SessionInv'
<1> DEFINE c == IF conn[w] = "open" THEN "gone" ELSE "closed"
<1>1. /\ conn[w] \in {"open", "eof"} /\ Own(w) /\ handler[w] \in Handler
      /\ wire[w] \in Seq(Command) /\ resp[w] \in Seq(Answer)
      /\ conn' = [conn EXCEPT ![w] = c] /\ wire' = [wire EXCEPT ![w] = <<>>]
      /\ UNCHANGED <<handler, resp, store>>
  BY DEF Disconnects, SessionInv, SessionTypeOK
<1>2. c \in {"gone", "closed"} /\ (c = "gone" <=> conn[w] = "open")
  BY <1>1
<1> HIDE DEF c
<1>3. /\ holder' \in [Ids -> Workers \cup {NULL}] /\ NULL \notin Workers
      /\ \A i \in Ids : holder'[i] = IF holder[i] = w THEN NULL ELSE holder[i]
  BY NullAssumption DEF Disconnects, SessionInv, SessionTypeOK
<1>4. /\ conn'[w] = c /\ wire'[w] = <<>> /\ SessionTypeOK' /\ Elsewhere(w)
  BY <1>1, <1>2, <1>3 DEF SessionInv, SessionTypeOK, Elsewhere
<1>5. Traffic(c, handler[w], <<>>, resp[w])
  <2>1. CASE conn[w] = "open"
    BY <1>1, <1>2, <2>1, GoneFromOpen DEF Own
  <2>2. CASE conn[w] = "eof"
    BY <1>1, <1>2, <2>2, NothingIn DEF Own, Traffic, WritesFirst
  <2>3. QED BY <1>1, <2>1, <2>2
<1>6. HandlerFits(c, handler[w])
  BY <1>1, <1>2 DEF Own, HandlerFits
<1>7. Own(w)'
  BY <1>1, <1>2, <1>4, <1>5, <1>6 DEF Own, Holding, Replacing
<1>8. ASSUME NEW v \in Workers PROVE Own(v)'
  <2>1. CASE v = w BY <1>7, <2>1
  <2>2. CASE v # w
    <3>1. \A i \in Ids : /\ holder[i] = v => holder'[i] = v /\ store'[i] = store[i]
                         /\ holder[i] # v => holder'[i] # v
      BY <1>1, <1>3, <2>2
    <3>2. QED BY <1>4, <2>2, <3>1, OthersKeep DEF SessionInv, Elsewhere
  <2>3. QED BY <2>1, <2>2
<1>9. \A v \in Workers : Stores(v)' => Stores(v) /\ wire'[v] = wire[v]
  BY <1>4 DEF Stores, Elsewhere
<1>10. Fresh'
  BY <1>1, <1>9 DEF SessionInv, Fresh
<1>11. \A i \in Ids : store'[i] = 0 => holder'[i] = NULL
  BY <1>1, <1>3 DEF SessionInv
<1>12. QED BY <1>4, <1>8, <1>10, <1>11 DEF SessionInv

-----------------------------------------------------------------------------
(* The invariant holds.                                                     *)
LEMMA SessionStarts ==
  ASSUME SessionInit
  PROVE  SessionInv
<1>1. NewHandler(FALSE) \in Handler /\ NewHandler(FALSE).at = "idle"
      /\ NewHandler(FALSE).id = NULL /\ NewHandler(FALSE).base = 0 /\ ~NewHandler(FALSE).locked
  BY NewIs DEF NewHandler
<1>2. \A w \in Workers : /\ handler[w] = NewHandler(FALSE) /\ conn[w] = "closed"
                         /\ wire[w] = <<>> /\ resp[w] = <<>>
  BY DEF SessionInit
<1>3. SessionTypeOK
  <2>1. handler \in [Workers -> Handler]
    BY <1>1 DEF SessionInit
  <2>2. wire \in [Workers -> Seq(Command)] /\ resp \in [Workers -> Seq(Answer)]
    <3>1. <<>> \in Seq(Command) /\ <<>> \in Seq(Answer)
      OBVIOUS
    <3>2. QED BY <3>1 DEF SessionInit
  <2>3. store \in [Ids -> Nat] /\ holder \in [Ids -> Workers \cup {NULL}]
    BY DEF SessionInit
  <2>4. conn \in [Workers -> {"open", "gone", "eof", "closed"}]
    BY DEF SessionInit
  <2>5. QED BY <2>1, <2>2, <2>3, <2>4 DEF SessionTypeOK
<1>4. ASSUME NEW w \in Workers PROVE Own(w)
  <2>1. HandlerFits("closed", NewHandler(FALSE))
    BY <1>1 DEF HandlerFits
  <2>2. Traffic("closed", NewHandler(FALSE), <<>>, <<>>)
    BY <1>1, EmptyFits
  <2>3. QED BY <1>2, <2>1, <2>2 DEF Own, Holding, Replacing
<1>5. Fresh
  BY <1>2 DEF Fresh, Stores
<1>6. \A i \in Ids : holder[i] = NULL
  BY DEF SessionInit
<1>7. QED BY <1>3, <1>4, <1>5, <1>6 DEF SessionInv

(* Every step keeps the invariant.                                          *)
LEMMA SessionKeeps ==
  ASSUME SessionInv, [SessionNext]_sessionVars
  PROVE  SessionInv'
<1>1. ASSUME NEW w \in Workers, NEW id \in Ids, Start(w, id) PROVE SessionInv'
  BY <1>1, StartKeeps
<1>2. ASSUME NEW w \in Workers, Read(w) PROVE SessionInv'
  BY <1>2, SkipKeeps, LockedKeeps, RetryKeeps, GrantedKeeps, NotFoundKeeps, TouchedKeeps,
     GotTouchedKeeps, ReadThrowsKeeps DEF Read
<1>3. ASSUME NEW w \in Workers, TimePasses(w) \/ Write(w) \/ Destroy(w) \/ Abort(w)
      PROVE  SessionInv'
  BY <1>3, TimePassesKeeps, WriteKeeps, DestroyKeeps, AbortKeeps
<1>4. ASSUME NEW w \in Workers, EndRequest(w) \/ \E timeout \in Timeouts : NewRequest(w, timeout)
      PROVE  SessionInv'
  BY <1>4, EndRequestKeeps, NewRequestKeeps
<1>5. ASSUME NEW w \in Workers, Serve(w) \/ Disconnects(w) PROVE SessionInv'
  BY <1>5, ServeLockGetKeeps, ServeTouchKeeps, ServeGetTouchKeeps, ServeReplaceUnlockKeeps,
     ServeSetKeeps, ServeDeleteKeeps, DisconnectsKeeps DEF Serve
<1>6. ASSUME NEW i \in Ids, Expires(i) PROVE SessionInv'
  BY <1>6, ExpiresKeeps
<1>7. CASE UNCHANGED sessionVars
  <2>1. SessionTypeOK' /\ \A i \in Ids : store'[i] = 0 => holder'[i] = NULL
    BY <1>7 DEF sessionVars, SessionInv, SessionTypeOK
  <2>2. ASSUME NEW w \in Workers PROVE Own(w)'
    BY <1>7, OthersKeep DEF sessionVars, SessionInv
  <2>3. Fresh'
    BY <1>7 DEF sessionVars, SessionInv, Fresh, Stores
  <2>4. QED BY <2>1, <2>2, <2>3 DEF SessionInv
<1>8. QED BY <1>1, <1>2, <1>3, <1>4, <1>5, <1>6, <1>7 DEF SessionNext

(* In every reachable state, for any finite numbers of workers and sessions: *)
(* what a connection carries is in the order of its serials, read waits for  *)
(* a response that is under way or will never come, a worker that was told   *)
(* it holds a lock does hold it, and the versions under way are new.         *)
THEOREM SessionInvariant == SessionSpec => []SessionInv
<1>1. SessionInit => SessionInv
  BY SessionStarts
<1>2. SessionInv /\ [SessionNext]_sessionVars => SessionInv'
  BY SessionKeeps
<1>3. QED BY <1>1, <1>2, PTL DEF SessionSpec

(* Every state of the workers, the connections and the server has its type. *)
THEOREM SessionTypes == SessionSpec => []SessionTypeOK
<1>1. SessionInv => SessionTypeOK
  BY DEF SessionInv
<1>2. QED BY <1>1, SessionInvariant, PTL

(* The recv after touch does not look at the serial, and need not: the next  *)
(* response is that of touch (yrmcds_session.php:102-104).                   *)
THEOREM TouchIsAnswered == SessionSpec => []TouchAnswered
<1>1. ASSUME SessionInv, NEW w \in Workers, At(w, {"touch"}), resp[w] # <<>>
      PROVE  Head(resp[w]).op = "touch" /\ Head(resp[w]).serial = handler[w].serial
  <2>1. /\ handler[w] \in Handler /\ handler[w].at = "touch" /\ conn[w] \in {"open", "gone"}
        /\ wire[w] \in Seq(Command) /\ resp[w] \in Seq(Answer) /\ Own(w)
    BY <1>1 DEF At, SessionInv, SessionTypeOK
  <2>2. QED BY <1>1, <2>1, TouchIs DEF Own
<1>2. SessionInv => TouchAnswered
  BY <1>1 DEF TouchAnswered
<1>3. QED BY <1>2, SessionInvariant, PTL

(* While a session that was locked by read is open on a live connection, it  *)
(* is still locked by its worker, and its data is what read returned.        *)
THEOREM OpenSessionsAreHeld == SessionSpec => []OwnerHolds
<1>1. ASSUME SessionInv, NEW w \in Workers, At(w, {"open"}), conn[w] = "open",
             handler[w].timeout, handler[w].base # 0
      PROVE  holder[handler[w].id] = w /\ store[handler[w].id] = handler[w].base
  BY <1>1 DEF SessionInv, Own, Holding, Owns, At
<1>2. SessionInv => OwnerHolds
  BY <1>1 DEF OwnerHolds
<1>3. QED BY <1>2, SessionInvariant, PTL

(* Who stores a version that is new.                                        *)
LEMMA StoredBy ==
  ASSUME SessionInv, SessionNext, NEW i \in Ids
  PROVE  \/ store'[i] \in {store[i], 0}
         \/ \E v \in Workers :
              /\ Stores(v) /\ store'[i] = wire[v][1].version
              /\ wire[v][1].op = "replaceUnlock" => holder[wire[v][1].id] = v
<1>1. store \in [Ids -> Nat]
  BY DEF SessionInv, SessionTypeOK
<1>2. ASSUME NEW v \in Workers, ServeReplaceUnlock(v) \/ ServeSet(v),
             store' # store
      PROVE  /\ Stores(v) /\ store' = [store EXCEPT ![wire[v][1].id] = wire[v][1].version]
             /\ wire[v][1].op = "replaceUnlock" => holder[wire[v][1].id] = v
  <2>1. CASE ServeReplaceUnlock(v)
    <3>1. Stores(v) /\ Head(wire[v]) = wire[v][1]
      BY <2>1, StoredIs DEF ServeReplaceUnlock
    <3>2. QED BY <1>2, <2>1, <3>1 DEF ServeReplaceUnlock
  <2>2. CASE ServeSet(v)
    <3>1. Stores(v) /\ Head(wire[v]) = wire[v][1] /\ wire[v][1].op = "set"
      BY <2>2, StoredIs DEF ServeSet, Serving
    <3>2. QED BY <1>2, <2>2, <3>1 DEF ServeSet
  <2>3. QED BY <1>2, <2>1, <2>2
<1>3. ASSUME NEW v \in Workers, ServeDelete(v) \/ \E j \in Ids : Expires(j)
      PROVE  store'[i] \in {store[i], 0}
  BY <1>1, <1>3 DEF ServeDelete, Expires
<1>4. ASSUME NEW j \in Ids, Expires(j)
      PROVE  store'[i] \in {store[i], 0}
  BY <1>1, <1>4 DEF Expires
<1>5. ASSUME NEW v \in Workers,
             \/ \E id \in Ids : Start(v, id)
             \/ Read(v) \/ TimePasses(v) \/ Write(v) \/ Destroy(v) \/ Abort(v)
             \/ EndRequest(v) \/ \E timeout \in Timeouts : NewRequest(v, timeout)
             \/ ServeLockGet(v) \/ ServeTouch(v) \/ ServeGetTouch(v) \/ Disconnects(v)
      PROVE  store' = store
  <2>1. CASE Read(v)
    BY <2>1 DEF Read, Skip, Locked, Retry, Granted, NotFound, Touched, GotTouched, ReadThrows
  <2>2. CASE \E id \in Ids : Start(v, id)
    BY <2>2 DEF Start
  <2>3. QED BY <1>5, <2>1, <2>2 DEF TimePasses, Write, Destroy, Abort, EndRequest, NewRequest,
               ServeLockGet, ServeTouch, ServeGetTouch, Disconnects
<1>6. QED BY <1>1, <1>2, <1>3, <1>4, <1>5 DEF SessionNext, Serve

(* No lost update: the version a locked write stores replaces the version    *)
(* its worker had read.  SessionInv says that only the server storing that    *)
(* very write can make it the version of the session.                        *)
THEOREM LockedWritesReplaceWhatWasRead == SessionSpec => ReplacesWhatWasRead
<1> DEFINE Replaced(w) ==
             wire[w] # <<>> /\ Head(wire[w]).op = "replaceUnlock" =>
               LET q == Head(wire[w]) IN
               store'[q.id] = q.version => store[q.id] = q.base
<1>1. ASSUME SessionInv, SessionNext, NEW w \in Workers
      PROVE  Replaced(w)
  <2>1. SUFFICES ASSUME wire[w] # <<>>, Head(wire[w]).op = "replaceUnlock",
                        store'[Head(wire[w]).id] = Head(wire[w]).version
                 PROVE  store[Head(wire[w]).id] = Head(wire[w]).base
    OBVIOUS
  <2>2. Head(wire[w]) = wire[w][1] /\ wire[w][1] \in Command
    BY <1>1, <2>1, TailOf DEF SessionInv, SessionTypeOK
  <2>3. Stores(w) /\ wire[w][1].id \in Ids
    BY <2>1, <2>2 DEF Stores, Command
  <2>4. /\ wire[w][1].version # 0 /\ store[wire[w][1].id] # wire[w][1].version
        /\ \A v \in Workers \ {w} : Stores(v) => wire[v][1].version # wire[w][1].version
    BY <1>1, <2>3 DEF SessionInv, Fresh
  <2>5. holder[wire[w][1].id] = w
    BY <1>1, <2>1, <2>2, <2>3, <2>4, StoredBy
  <2>6. QED BY <1>1, <2>1, <2>2, <2>5 DEF SessionInv, Own, Replacing
<1>2. SessionInv /\ SessionNext => \A w \in Workers : Replaced(w)
  BY <1>1
<1>3. SessionInv /\ [SessionNext]_sessionVars => [\A w \in Workers : Replaced(w)]_sessionVars
  BY <1>2
<1>4. QED BY <1>3, SessionInvariant, PTL DEF SessionSpec, ReplacesWhatWasRead
=============================================================================
