--------------------------- MODULE ReceiverProofs ---------------------------
(* Proofs about Receiver: the safety properties its run checks, for every   *)
(* size of header, read, buffer and body, and any number of responses.      *)
(*                                                                         *)
(* The argument is about the whole stream.  Around every byte lies its      *)
(* frame (Frames), frames are numbered upwards (Numbers), and the server    *)
(* leaves none unfinished before the stream ends (Complete).  The buffer    *)
(* then starts between two frames (Position), because the only thing it     *)
(* ever moves past is a frame that was complete.                            *)
EXTENDS Receiver, SequenceTheorems, TLAPS

-----------------------------------------------------------------------------
(* Byte i is byte off of its frame, whose other bytes lie around it.        *)
Frames(s) ==
  /\ \A i \in 1..Len(s) : s[i].off <= i /\ s[i].off <= s[i].size
  /\ \A i, k \in 1..Len(s) :
       i < s[i].off + k /\ k + s[i].off <= i + s[i].size =>
         /\ s[k].n    = s[i].n
         /\ s[k].off  = s[i].off + k - i
         /\ s[k].size = s[i].size
         /\ s[k].kind = s[i].kind

(* Numbers do not decrease, and bytes of one number are of one frame.       *)
Numbers(s) ==
  \A i, j \in 1..Len(s) :
    i < j => /\ s[i].n <= s[j].n
             /\ s[i].n = s[j].n => i - s[i].off = j - s[j].off

Complete(s) == \A i \in 1..Len(s) : i - s[i].off + s[i].size <= Len(s)

(* A frame, or nothing, ends at b.                                          *)
Boundary(b) == b > 0 => line[b].off = line[b].size

Position ==
  /\ Boundary(base) /\ Boundary(base + lastSize)
  /\ receiving => lastSize = 0

(* The buffer has room for a read after one doubling.                       *)
Roomy == RecvSize <= capacity

ReceiverInv ==
  /\ ReceiverTypeOK
  /\ Frames(line) /\ Numbers(line) /\ (~down => Complete(line))
  /\ Position
  /\ Roomy /\ BufferSafe
  /\ ExactlyOnce

-----------------------------------------------------------------------------
(* What yrmcds_recv finds at the start of the buffer once it has a header.  *)
LEMMA FirstIsFirst ==
  ASSUME ReceiverInv, base < Len(line)
  PROVE  First \in Byte /\ First.off = 1 /\ First.size > 0
<1>1. base + 1 \in 1..Len(line) /\ base \in Nat /\ Len(line) \in Nat
  BY DEF ReceiverInv, ReceiverTypeOK
<1>2. First \in Byte
  BY <1>1 DEF ReceiverInv, ReceiverTypeOK, First
<1>3. First.off \in Nat \ {0} /\ First.size \in Nat
  BY <1>2 DEF Byte
<1>4. First.off <= base + 1 /\ First.off <= First.size
  BY <1>1 DEF ReceiverInv, Frames, First
<1>5. ASSUME First.off # 1 PROVE FALSE
  <2>1. base \in 1..Len(line) /\ base + 1 < First.off + base
        /\ base + First.off <= base + 1 + First.size
    BY <1>1, <1>3, <1>4, <1>5
  <2>2. line[base].off = First.off + base - (base + 1) /\ line[base].size = First.size
    BY <1>1, <2>1 DEF ReceiverInv, Frames, First
  <2>3. line[base].off = line[base].size
    BY <2>1 DEF ReceiverInv, Position, Boundary
  <2> QED BY <1>1, <1>3, <1>4, <2>2, <2>3
<1> QED BY <1>2, <1>3, <1>4, <1>5

(* When the loops end, the header is here, and the whole response if it is  *)
(* one that the header does not rule out.                                   *)
LEMMA DataIsHere ==
  ASSUME ReceiverInv, ~NeedsData
  PROVE  /\ base < Len(line)
         /\ ~HeaderWrong => First.size <= used
<1>1. used >= Header
  BY HeaderAssumption DEF NeedsData, ReceiverInv, ReceiverTypeOK
<1>2. base < Len(line)
  BY <1>1, HeaderAssumption DEF ReceiverInv, ReceiverTypeOK
<1> QED BY <1>1, <1>2, FirstIsFirst DEF NeedsData, ReceiverInv, ReceiverTypeOK, Byte

(* The bytes of the first response, and those before them.                  *)
LEMMA FirstFrame ==
  ASSUME ReceiverInv, ~NeedsData, ~HeaderWrong
  PROVE  /\ base + First.size <= got
         /\ line[base + First.size].off = line[base + First.size].size
         /\ \A i \in (base + 1)..(base + First.size) :
              line[i].n = First.n /\ line[i].kind = First.kind
         /\ \A i \in 1..base : line[i].n < First.n
<1> base < Len(line) /\ First.size <= used /\ First \in Byte /\ First.off = 1
    /\ First.size > 0
  BY DataIsHere, FirstIsFirst
<1>1. base + 1 \in 1..Len(line) /\ base + First.size <= got /\ got <= Len(line)
      /\ base \in Nat /\ got \in Nat /\ Len(line) \in Nat /\ First.size \in Nat
  BY SMTT(30) DEF ReceiverInv, ReceiverTypeOK, Byte
<1>2. ASSUME NEW i \in (base + 1)..(base + First.size)
      PROVE  /\ line[i].n = First.n /\ line[i].kind = First.kind
             /\ line[i].size = First.size /\ line[i].off = First.off + i - (base + 1)
  <2>1. i \in 1..Len(line) /\ base + 1 < First.off + i
        /\ i + First.off <= base + 1 + First.size
    BY <1>1
  <2> QED BY <1>1, <2>1 DEF ReceiverInv, Frames, First
<1>3. line[base + First.size].off = line[base + First.size].size
  <2>1. base + First.size \in (base + 1)..(base + First.size)
    BY <1>1
  <2>2. /\ line[base + First.size].size = First.size
        /\ line[base + First.size].off = First.off + (base + First.size) - (base + 1)
    BY <1>2, <2>1
  <2> QED BY <1>1, <2>2
<1>4. ASSUME NEW i \in 1..base PROVE line[i].n < First.n
  <2>1. i \in 1..Len(line) /\ i < base + 1 /\ line[i] \in Byte
    BY <1>1 DEF ReceiverInv, ReceiverTypeOK
  <2>2. line[i].n <= First.n
        /\ (line[i].n = First.n => i - line[i].off = base + 1 - First.off)
    BY <1>1, <2>1 DEF ReceiverInv, Numbers, First
  <2> QED BY <1>1, <2>1, <2>2 DEF Byte
<1> QED BY <1>1, <1>2, <1>3, <1>4

-----------------------------------------------------------------------------
(* A new connection: an empty stream and an empty buffer.                   *)
LEMMA InitOK == ReceiverInit => ReceiverInv
<1> SUFFICES ASSUME ReceiverInit PROVE ReceiverInv
  OBVIOUS
<1>1. ReceiverTypeOK
  <2>1. line \in Seq(Byte) /\ delivered \in Seq(Nat) /\ Len(line) = 0
    BY DEF ReceiverInit
  <2>2. /\ got \in 0..Len(line) /\ base \in 0..got /\ used = got - base
        /\ lastSize \in 0..used /\ capacity \in Nat
    BY <2>1, CapacityAssumption DEF ReceiverInit
  <2>3. down \in BOOLEAN /\ invalid \in BOOLEAN /\ receiving \in BOOLEAN
    BY DEF ReceiverInit
  <2> QED BY <2>1, <2>2, <2>3 DEF ReceiverTypeOK
<1>2. Frames(line) /\ Numbers(line) /\ Complete(line)
  BY DEF ReceiverInit, Frames, Numbers, Complete
<1>3. base = 0 /\ lastSize = 0 /\ base + lastSize = 0 /\ ~receiving
  BY DEF ReceiverInit
<1>4. Position
  BY <1>3 DEF Position, Boundary
<1>5. Roomy /\ BufferSafe
  BY CapacityAssumption DEF ReceiverInit, Roomy, BufferSafe
<1>6. ExactlyOnce
  BY DEF ReceiverInit, ExactlyOnce
<1> QED BY <1>1, <1>2, <1>4, <1>5, <1>6 DEF ReceiverInv

-----------------------------------------------------------------------------
(* The calls leave the stream alone: only the buffer's part is to be shown. *)
LEMMA BeginOK == ReceiverInv /\ Begin => ReceiverInv'
<1> SUFFICES ASSUME ReceiverInv, Begin PROVE ReceiverInv'
  OBVIOUS
<1> /\ line' = line /\ down' = down /\ got' = got /\ capacity' = capacity
    /\ invalid' = invalid /\ delivered' = delivered
    /\ base' = base + lastSize /\ used' = used - lastSize /\ lastSize' = 0
    /\ receiving' = TRUE
  BY DEF Begin
<1>1. base \in Nat /\ lastSize \in Nat /\ used \in Nat /\ base' + lastSize' = base + lastSize
  BY DEF ReceiverInv, ReceiverTypeOK
<1>2. ReceiverTypeOK'
  BY <1>1 DEF ReceiverInv, ReceiverTypeOK
<1>3. Frames(line)' /\ Numbers(line)' /\ (~down => Complete(line))'
  BY DEF ReceiverInv, Frames, Numbers, Complete
<1>4. Position'
  BY <1>1 DEF ReceiverInv, Position, Boundary
<1>5. Roomy' /\ BufferSafe'
  BY <1>1 DEF ReceiverInv, ReceiverTypeOK, Roomy, BufferSafe
<1>6. ExactlyOnce'
  BY <1>1 DEF ReceiverInv, ExactlyOnce
<1> QED BY <1>2, <1>3, <1>4, <1>5, <1>6 DEF ReceiverInv

(* What a doubling of the buffer is enough for.                             *)
LEMMA GrownIsEnough ==
  ASSUME ReceiverInv, NeedsData, base < Len(line) \/ used = 0
  PROVE  /\ Grown \in Nat /\ capacity <= Grown /\ used + RecvSize <= Grown
         /\ Grown <= InitialCapacity \/ Grown <= 2 * (Header + MaxBody + RecvSize)
<1>1. used \in Nat /\ capacity \in Nat /\ used <= capacity /\ RecvSize <= capacity
      /\ (capacity <= InitialCapacity \/ capacity <= 2 * (Header + MaxBody + RecvSize))
  BY DEF ReceiverInv, ReceiverTypeOK, Roomy, BufferSafe
<1>2. used < Header + MaxBody
  <2>1. CASE used < Header
    BY <2>1, <1>1, HeaderAssumption
  <2>2. CASE used >= Header
    <3>1. used < First.size /\ ~(First.size > Header + MaxBody)
      BY <2>2 DEF NeedsData, HeaderWrong
    <3>2. First.size \in Nat
      BY <1>1, <2>2, HeaderAssumption, FirstIsFirst DEF Byte
    <3> QED BY <1>1, <3>1, <3>2, HeaderAssumption
  <2> QED BY <2>1, <2>2, <1>1, HeaderAssumption
<1> QED BY <1>1, <1>2, HeaderAssumption, CapacityAssumption DEF Grown

(* A reading call always has the stream to look at, or an empty buffer.     *)
LEMMA SomethingOrNothing ==
  ReceiverInv => base < Len(line) \/ used = 0
BY DEF ReceiverInv, ReceiverTypeOK

(* A read that returns bytes.                                               *)
LEMMA RecvDataOK ==
  ASSUME ReceiverInv, NEW k \in 1..RecvSize, RecvData(k)
  PROVE  ReceiverInv'
<1> /\ line' = line /\ down' = down /\ got' = got + k /\ capacity' = Grown
    /\ invalid' = invalid /\ delivered' = delivered
    /\ base' = base /\ used' = used + k /\ lastSize' = lastSize
    /\ receiving' = receiving /\ got + k <= Len(line) /\ NeedsData
  BY DEF RecvData
<1>1. /\ base \in Nat /\ lastSize \in Nat /\ used \in Nat /\ got \in Nat
      /\ k \in Nat /\ Len(line) \in Nat /\ k <= RecvSize
  BY CapacityAssumption DEF ReceiverInv, ReceiverTypeOK
<1>2. /\ Grown \in Nat /\ capacity <= Grown /\ used + RecvSize <= Grown
      /\ Grown <= InitialCapacity \/ Grown <= 2 * (Header + MaxBody + RecvSize)
  BY GrownIsEnough, SomethingOrNothing
<1>3. ReceiverTypeOK'
  BY <1>1, <1>2 DEF ReceiverInv, ReceiverTypeOK
<1>4. Frames(line)' /\ Numbers(line)' /\ (~down => Complete(line))'
  BY DEF ReceiverInv, Frames, Numbers, Complete
<1>5. Position'
  BY DEF ReceiverInv, Position, Boundary
<1>6. Roomy' /\ BufferSafe'
  BY <1>1, <1>2, CapacityAssumption DEF ReceiverInv, ReceiverTypeOK, Roomy, BufferSafe
<1>7. ExactlyOnce'
  BY ZenonT(60) DEF ReceiverInv, ExactlyOnce
<1> QED BY <1>3, <1>4, <1>5, <1>6, <1>7 DEF ReceiverInv

(* An error of recv_data, and the two ends of a call that consume nothing.  *)
LEMMA FailureOK ==
  ReceiverInv /\ (RecvDataFails \/ AcceptFails \/ Reject) => ReceiverInv'
<1> SUFFICES ASSUME ReceiverInv, RecvDataFails \/ AcceptFails \/ Reject
             PROVE  ReceiverInv'
  OBVIOUS
<1> /\ line' = line /\ down' = down /\ got' = got /\ delivered' = delivered
    /\ base' = base /\ used' = used /\ lastSize' = lastSize /\ receiving' = FALSE
  BY DEF RecvDataFails, AcceptFails, Reject
<1>1. invalid' \in BOOLEAN
  BY DEF RecvDataFails, AcceptFails, Reject, ReceiverInv, ReceiverTypeOK
<1>2. /\ capacity' \in Nat /\ capacity <= capacity'
      /\ capacity' <= InitialCapacity \/ capacity' <= 2 * (Header + MaxBody + RecvSize)
  <2>1. CASE RecvDataFails
    <3>1. capacity' \in {capacity, Grown} /\ NeedsData
      BY <2>1 DEF RecvDataFails
    <3>2. capacity \in Nat
          /\ (capacity <= InitialCapacity \/ capacity <= 2 * (Header + MaxBody + RecvSize))
      BY DEF ReceiverInv, ReceiverTypeOK, BufferSafe
    <3> QED BY <3>1, <3>2, GrownIsEnough, SomethingOrNothing
  <2>2. CASE AcceptFails \/ Reject
    <3>1. capacity' = capacity
      BY <2>2 DEF AcceptFails, Reject
    <3> QED BY <3>1 DEF ReceiverInv, ReceiverTypeOK, BufferSafe
  <2> QED BY <2>1, <2>2
<1>3. ReceiverTypeOK'
  BY <1>1, <1>2 DEF ReceiverInv, ReceiverTypeOK
<1>4. Frames(line)' /\ Numbers(line)' /\ (~down => Complete(line))'
  BY DEF ReceiverInv, Frames, Numbers, Complete
<1>5. Position'
  BY DEF ReceiverInv, Position, Boundary
<1>6. Roomy' /\ BufferSafe'
  <2>1. used \in Nat /\ capacity \in Nat
    BY DEF ReceiverInv, ReceiverTypeOK
  <2> QED BY <1>2, <2>1, CapacityAssumption DEF ReceiverInv, Roomy, BufferSafe
<1>7. ExactlyOnce'
  BY DEF ReceiverInv, ExactlyOnce
<1> QED BY <1>3, <1>4, <1>5, <1>6, <1>7 DEF ReceiverInv

(* The response that is accepted lies before the next boundary, and its     *)
(* number is above all that were returned.                                  *)
LEMMA AcceptOK == ReceiverInv /\ Accept => ReceiverInv'
<1> SUFFICES ASSUME ReceiverInv, Accept PROVE ReceiverInv'
  OBVIOUS
<1> /\ line' = line /\ down' = down /\ got' = got /\ capacity' = capacity
    /\ base' = base /\ used' = used /\ invalid' = invalid
    /\ lastSize' = First.size /\ delivered' = Append(delivered, First.n)
    /\ receiving' = FALSE /\ First.kind \in {"good", "packed"}
    /\ ~NeedsData /\ ~HeaderWrong /\ receiving
  BY DEF Accept
<1>1. /\ base \in Nat /\ got \in Nat /\ used = got - base /\ lastSize = 0
      /\ base + lastSize = base /\ delivered \in Seq(Nat)
  BY DEF ReceiverInv, ReceiverTypeOK, Position
<1>2. /\ First.size \in Nat /\ First.size > 0 /\ First.n \in Nat
      /\ First.size <= used
  BY DataIsHere, FirstIsFirst DEF Byte
<1>3. /\ base + First.size <= got
      /\ line[base + First.size].off = line[base + First.size].size
      /\ \A i \in (base + 1)..(base + First.size) :
           line[i].n = First.n /\ line[i].kind = First.kind
      /\ \A i \in 1..base : line[i].n < First.n
  BY FirstFrame
<1>4. ReceiverTypeOK'
  <2>1. Append(delivered, First.n) \in Seq(Nat)
    BY <1>1, <1>2
  <2>2. First.size \in 0..used
    BY <1>1, <1>2 DEF ReceiverInv, ReceiverTypeOK
  <2> QED BY <2>1, <2>2 DEF ReceiverInv, ReceiverTypeOK
<1>5. Frames(line)' /\ Numbers(line)' /\ (~down => Complete(line))'
  BY DEF ReceiverInv, Frames, Numbers, Complete
<1>6. Position'
  BY <1>1, <1>3 DEF ReceiverInv, Position, Boundary
<1>7. Roomy' /\ BufferSafe'
  BY DEF ReceiverInv, Roomy, BufferSafe
<1>8. ExactlyOnce'
  <2> DEFINE D == delivered
             m == Len(delivered)
             A == Append(delivered, First.n)
  <2>1. /\ m \in Nat /\ Len(A) = m + 1 /\ A[m + 1] = First.n
        /\ \A i \in 1..m : A[i] = D[i] /\ D[i] \in Nat
    BY <1>1, <1>2
  <2>2. /\ \A i, j \in 1..m : i < j => D[i] < D[j]
        /\ {D[i] : i \in 1..m} = {line[i].n : i \in 1..base}
        /\ \A i \in 1..base : line[i].kind \notin {"magic", "body"}
    BY <1>1 DEF ReceiverInv, ExactlyOnce
  <2>3. \A i \in 1..m : D[i] < First.n
    <3> TAKE i \in 1..m
    <3>1. D[i] \in {line[h].n : h \in 1..base}
      BY <2>2
    <3> QED BY <1>3, <3>1
  <2>4. \A i, j \in 1..Len(A) : i < j => A[i] < A[j]
    BY <2>1, <2>2, <2>3
  <2>5. {A[i] : i \in 1..Len(A)} = {line[i].n : i \in 1..(base + First.size)}
    <3>1. {A[i] : i \in 1..Len(A)} = {D[i] : i \in 1..m} \cup {First.n}
      BY <2>1
    <3>2. base + 1 \in (base + 1)..(base + First.size)
          /\ \A i : i \in 1..(base + First.size)
                   <=> i \in 1..base \/ i \in (base + 1)..(base + First.size)
      BY <1>1, <1>2
    <3>3. {line[i].n : i \in 1..(base + First.size)}
            = {line[i].n : i \in 1..base} \cup {First.n}
      BY <1>3, <3>2
    <3> QED BY <2>2, <3>1, <3>3
  <2>6. ASSUME NEW i \in 1..(base + First.size)
        PROVE  line[i].kind \notin {"magic", "body"}
    <3>1. i \in 1..base \/ i \in (base + 1)..(base + First.size)
      BY <1>1, <1>2
    <3> QED BY <1>3, <2>2, <3>1
  <2> HIDE DEF A, D, m
  <2> QED BY <2>4, <2>5, <2>6, ZenonT(60) DEF ExactlyOnce, A
<1> QED BY <1>4, <1>5, <1>6, <1>7, <1>8 DEF ReceiverInv

-----------------------------------------------------------------------------
(* t is s with a frame of this number, size and kind behind it.             *)
Appended(s, t, num, size, kind) ==
  /\ Len(t) = Len(s) + size
  /\ \A i \in 1..Len(s) : t[i] = s[i] /\ s[i].n < num
  /\ \A i \in (Len(s) + 1)..(Len(s) + size) :
       t[i].n = num /\ t[i].off = i - Len(s) /\ t[i].size = size /\ t[i].kind = kind

(* A new frame goes behind complete ones, with a larger number.             *)
LEMMA FrameAppended ==
  ASSUME NEW s \in Seq(Byte), Frames(s), Numbers(s), Complete(s),
         NEW t, NEW num \in Nat, NEW size \in Nat, size > 0, NEW kind,
         Appended(s, t, num, size, kind)
  PROVE  Frames(t) /\ Numbers(t) /\ Complete(t)
<1>a. PICK L \in Nat : L = Len(s)
  OBVIOUS
<1> /\ Len(s) = L /\ Len(t) = L + size
    /\ \A i \in 1..L : t[i] = s[i] /\ s[i].n < num
    /\ \A i \in (L + 1)..(L + size) :
         t[i].n = num /\ t[i].off = i - L /\ t[i].size = size /\ t[i].kind = kind
  BY <1>a, Zenon DEF Appended
<1>1. \A i \in 1..L : /\ s[i].off \in Nat /\ s[i].size \in Nat /\ s[i].n \in Nat
                      /\ s[i].off <= i /\ s[i].off <= s[i].size
                      /\ s[i].off > 0
                      /\ i + s[i].size <= L + s[i].off
  <2>1. \A i \in 1..L : s[i] \in Byte
    OBVIOUS
  <2>2. \A i \in 1..L : s[i].off \in Nat \ {0} /\ s[i].size \in Nat /\ s[i].n \in Nat
    BY <2>1 DEF Byte
  <2> QED BY <2>2, SMTT(30) DEF Frames, Complete
<1>2. \A i : i \in 1..(L + size) => i \in 1..L \/ i \in (L + 1)..(L + size)
  OBVIOUS
<1>3. ASSUME NEW i \in 1..(L + size)
      PROVE  t[i].off <= i /\ t[i].off <= t[i].size /\ i - t[i].off + t[i].size <= L + size
  <2>1. CASE i \in 1..L
    <3>1. t[i] = s[i]
      BY <2>1
    <3> QED BY <1>1, <2>1, <3>1, SMTT(30)
  <2>2. CASE i \in (L + 1)..(L + size)
    <3>1. t[i].off = i - L /\ t[i].size = size
      BY <2>2
    <3> QED BY <2>2, <3>1
  <2> QED BY <1>2, <2>1, <2>2
<1>4. ASSUME NEW i \in 1..(L + size), NEW k \in 1..(L + size),
             i < t[i].off + k, k + t[i].off <= i + t[i].size
      PROVE  /\ t[k].n = t[i].n /\ t[k].off = t[i].off + k - i
             /\ t[k].size = t[i].size /\ t[k].kind = t[i].kind
  <2>1. CASE i \in 1..L
    <3>1. t[i] = s[i]
      BY <2>1
    <3>2. i < s[i].off + k /\ k + s[i].off <= i + s[i].size
      BY <1>4, <3>1
    <3>3. k \in 1..L
      BY <1>1, <2>1, <3>2
    <3>4. t[k] = s[k]
      BY <3>3
    <3> QED BY <2>1, <3>1, <3>2, <3>3, <3>4 DEF Frames
  <2>2. CASE i \in (L + 1)..(L + size)
    <3>1. t[i].off = i - L /\ t[i].size = size /\ t[i].n = num /\ t[i].kind = kind
      BY <2>2
    <3>2. k \in (L + 1)..(L + size)
      BY <1>4, <2>2, <3>1
    <3>3. t[k].off = k - L /\ t[k].size = size /\ t[k].n = num /\ t[k].kind = kind
      BY <3>2
    <3> QED BY <2>2, <3>1, <3>2, <3>3
  <2> QED BY <1>2, <2>1, <2>2
<1>5. ASSUME NEW i \in 1..(L + size), NEW j \in 1..(L + size), i < j
      PROVE  t[i].n <= t[j].n /\ (t[i].n = t[j].n => i - t[i].off = j - t[j].off)
  <2>1. CASE j \in 1..L
    <3>1. i \in 1..L
      BY <1>5, <2>1
    <3>2. t[i] = s[i] /\ t[j] = s[j]
      BY <2>1, <3>1
    <3> QED BY <1>5, <2>1, <3>1, <3>2 DEF Numbers
  <2>2. CASE j \in (L + 1)..(L + size)
    <3>1. t[j].n = num /\ t[j].off = j - L
      BY <2>2
    <3>2. CASE i \in 1..L
      <4>1. t[i].n < num /\ t[i].n \in Nat
        BY <1>1, <3>2
      <4> QED BY <3>1, <4>1
    <3>3. CASE i \in (L + 1)..(L + size)
      <4>1. t[i].n = num /\ t[i].off = i - L
        BY <3>3
      <4>2. num <= num /\ i - (i - L) = j - (j - L)
        BY <2>2, <3>3
      <4> QED BY <3>1, <4>1, <4>2
    <3> QED BY <1>2, <3>2, <3>3
  <2> QED BY <1>2, <2>1, <2>2
<1>6. Frames(t)
  BY <1>3, <1>4 DEF Frames
<1>7. Numbers(t)
  BY <1>5 DEF Numbers
<1>8. Complete(t)
  BY <1>3 DEF Complete
<1> QED BY <1>6, <1>7, <1>8

(* The last number of the stream is the largest.                            *)
LEMMA NumberedIsLargest ==
  ASSUME line \in Seq(Byte), Numbers(line)
  PROVE  Numbered \in Nat /\ \A i \in 1..Len(line) : line[i].n < Numbered + 1
<1>1. PICK L \in Nat : L = Len(line)
  OBVIOUS
<1>2. \A i \in 1..L : line[i].n \in Nat
  <2>1. \A i \in 1..L : line[i] \in Byte
    BY <1>1
  <2> QED BY <2>1 DEF Byte
<1>3. CASE L = 0
  <2>1. line = <<>>
    BY <1>1, <1>3, EmptySeq
  <2>2. Numbered = 0
    BY <2>1 DEF Numbered
  <2> QED BY <1>1, <1>3, <2>2
<1>4. CASE L > 0
  <2>1. L \in 1..L /\ line # <<>>
    BY <1>1, <1>4
  <2>2. Numbered = line[L].n
    BY <1>1, <2>1 DEF Numbered
  <2>3. ASSUME NEW i \in 1..L PROVE line[i].n <= line[L].n
    <3>1. CASE i = L
      BY <1>2, <2>1, <3>1
    <3>2. CASE i < L
      BY <1>1, <2>1, <3>2 DEF Numbers
    <3> QED BY <1>1, <3>1, <3>2
  <2> QED BY <1>1, <1>2, <2>1, <2>2, <2>3
<1> QED BY <1>1, <1>3, <1>4

(* What the server sends next is a frame behind the others.                 *)
LEMMA BytesAppended ==
  ASSUME NEW s \in Seq(Byte), NEW num \in Nat, \A i \in 1..Len(s) : s[i].n < num,
         NEW body \in Nat, NEW kind \in Kinds
  PROVE  /\ s \o Bytes(num, body, kind) \in Seq(Byte)
         /\ Appended(s, s \o Bytes(num, body, kind), num, Header + body, kind)
<1>1. PICK B : B = Bytes(num, body, kind)
  OBVIOUS
<1>2. PICK size \in Nat : size = Header + body
  BY HeaderAssumption
<1>3. /\ B \in Seq(Byte) /\ Len(B) = size
      /\ \A i \in 1..size :
           B[i].n = num /\ B[i].off = i /\ B[i].size = size /\ B[i].kind = kind
  <2>1. B = [i \in 1..size |-> [n |-> num, off |-> i, size |-> size, kind |-> kind]]
    BY <1>1, <1>2 DEF Bytes
  <2>2. \A i \in 1..size : [n |-> num, off |-> i, size |-> size, kind |-> kind] \in Byte
    BY DEF Byte
  <2>3. B \in [1..size -> Byte]
    BY <2>1, <2>2
  <2>4. B \in Seq(Byte) /\ Len(B) = size
    BY <2>3
  <2> QED BY <2>1, <2>4
<1>4. PICK L \in Nat : L = Len(s)
  OBVIOUS
<1>5. /\ s \o B \in Seq(Byte) /\ Len(s \o B) = L + size
      /\ \A i \in 1..(L + size) :
           (s \o B)[i] = IF i <= L THEN s[i] ELSE B[i - L]
  <2>1. /\ s \o B \in Seq(Byte) /\ Len(s \o B) = Len(s) + Len(B)
        /\ \A i \in 1..(Len(s) + Len(B)) :
             (s \o B)[i] = IF i <= Len(s) THEN s[i] ELSE B[i - Len(s)]
    <3>1. s \in Seq(Byte) /\ B \in Seq(Byte)
      BY <1>3
    <3> QED BY <3>1, ConcatProperties
  <2>2. Len(B) = size /\ Len(s) = L
    BY <1>3, <1>4
  <2> QED BY <2>1, <2>2
<1>6. ASSUME NEW i \in 1..L PROVE (s \o B)[i] = s[i] /\ s[i].n < num
  BY <1>2, <1>4, <1>5
<1>7. ASSUME NEW i \in (L + 1)..(L + size)
      PROVE  /\ (s \o B)[i].n = num /\ (s \o B)[i].off = i - L
             /\ (s \o B)[i].size = size /\ (s \o B)[i].kind = kind
  <2>1. i - L \in 1..size /\ i \in 1..(L + size) /\ ~(i <= L)
    BY <1>2, <1>4
  <2>2. (s \o B)[i] = B[i - L]
    BY <2>1, <1>5
  <2> QED BY <1>3, <2>1, <2>2
<1>8. Appended(s, s \o B, num, size, kind)
  BY <1>4, <1>5, <1>6, <1>7 DEF Appended
<1> QED BY <1>1, <1>2, <1>5, <1>8

(* The stream grows by one whole response.                                  *)
LEMMA ServerSendsOK ==
  ASSUME ReceiverInv, NEW body \in Bodies, NEW kind \in Kinds,
         ServerSends(Numbered + 1, body, kind)
  PROVE  ReceiverInv'
<1>1. PICK num \in Nat : num = Numbered + 1 /\ \A i \in 1..Len(line) : line[i].n < num
  <2>1. line \in Seq(Byte) /\ Numbers(line)
    BY DEF ReceiverInv, ReceiverTypeOK
  <2>2. Numbered \in Nat /\ \A i \in 1..Len(line) : line[i].n < Numbered + 1
    BY <2>1, NumberedIsLargest
  <2>3. Numbered + 1 \in Nat
    BY <2>2
  <2> QED BY <2>2, <2>3
<1>2. line' = line \o Bytes(num, body, kind)
  BY <1>1 DEF ServerSends
<1> /\ down' = down /\ got' = got /\ capacity' = capacity
    /\ base' = base /\ used' = used /\ invalid' = invalid /\ lastSize' = lastSize
    /\ delivered' = delivered /\ receiving' = receiving /\ ~down
  BY DEF ServerSends
<1>3. PICK size \in Nat : size = Header + body /\ size > 0
  BY HeaderAssumption, BodiesAssumption
<1>4. PICK L \in Nat : L = Len(line)
  BY DEF ReceiverInv, ReceiverTypeOK
<1>5. /\ line \in Seq(Byte) /\ base \in Nat /\ lastSize \in Nat /\ got \in Nat
      /\ base + lastSize <= got /\ got <= L
  BY <1>4 DEF ReceiverInv, ReceiverTypeOK
<1>6. line' \in Seq(Byte) /\ Appended(line, line', num, size, kind)
  <2>1. body \in Nat
    BY BodiesAssumption
  <2> QED BY <1>1, <1>2, <1>3, <1>5, <2>1, BytesAppended
<1>7. Len(line') = L + size /\ \A i \in 1..L : line'[i] = line[i]
  BY <1>4, <1>6 DEF Appended
<1>8. Frames(line') /\ Numbers(line') /\ Complete(line')
  <2>1. Frames(line) /\ Numbers(line) /\ Complete(line) /\ line \in Seq(Byte)
    BY <1>5 DEF ReceiverInv
  <2> QED BY <1>3, <1>6, <2>1, FrameAppended
<1>9. ReceiverTypeOK'
  BY <1>4, <1>5, <1>6, <1>7 DEF ReceiverInv, ReceiverTypeOK
<1>10. \A i \in 1..got : line'[i] = line[i]
  BY <1>5, <1>7
<1>11. Position'
  BY <1>5, <1>10 DEF ReceiverInv, Position, Boundary
<1>12. Roomy' /\ BufferSafe'
  BY DEF ReceiverInv, Roomy, BufferSafe
<1>13. ExactlyOnce'
  <2>1. \A i \in 1..(base + lastSize) : line'[i] = line[i]
    BY <1>5, <1>10
  <2>2. {line'[i].n : i \in 1..(base + lastSize)} = {line[i].n : i \in 1..(base + lastSize)}
    BY <2>1
  <2> QED BY <2>1, <2>2 DEF ReceiverInv, ExactlyOnce
<1> QED BY <1>8, <1>9, <1>11, <1>12, <1>13 DEF ReceiverInv

(* The stream ends behind what has been read: a prefix of it remains.       *)
LEMMA StreamEndsOK ==
  ASSUME ReceiverInv, NEW k \in 0..Len(line), StreamEnds(k)
  PROVE  ReceiverInv'
<1> /\ line' = SubSeq(line, 1, k) /\ down' = TRUE /\ got' = got /\ capacity' = capacity
    /\ base' = base /\ used' = used /\ invalid' = invalid /\ lastSize' = lastSize
    /\ delivered' = delivered /\ receiving' = receiving /\ got <= k
  BY DEF StreamEnds
<1>1. /\ k \in Nat /\ k <= Len(line) /\ Len(line) \in Nat /\ line \in Seq(Byte)
      /\ base \in Nat /\ lastSize \in Nat /\ got \in Nat /\ base + lastSize <= got
  BY DEF ReceiverInv, ReceiverTypeOK
<1>2. line' \in Seq(Byte) /\ Len(line') = k /\ \A i \in 1..k : line'[i] = line[i]
  BY <1>1
<1>3. ReceiverTypeOK'
  BY <1>1, <1>2 DEF ReceiverInv, ReceiverTypeOK
<1>4. Frames(line')
  <2>1. \A i \in 1..k : i \in 1..Len(line) /\ line'[i] = line[i]
    BY <1>1, <1>2
  <2>2. Frames(line)
    BY DEF ReceiverInv
  <2>3. \A i \in 1..k : line'[i].off <= i /\ line'[i].off <= line'[i].size
    BY <2>1, <2>2 DEF Frames
  <2>4. ASSUME NEW i \in 1..k, NEW j \in 1..k,
               i < line'[i].off + j, j + line'[i].off <= i + line'[i].size
        PROVE  /\ line'[j].n = line'[i].n /\ line'[j].off = line'[i].off + j - i
               /\ line'[j].size = line'[i].size /\ line'[j].kind = line'[i].kind
    <3>1. /\ i \in 1..Len(line) /\ line'[i] = line[i]
          /\ j \in 1..Len(line) /\ line'[j] = line[j]
      BY <2>1
    <3>2. i < line[i].off + j /\ j + line[i].off <= i + line[i].size
      BY <2>4, <3>1
    <3> QED BY <2>2, <3>1, <3>2, ZenonT(60) DEF Frames
  <2> QED BY <1>2, <2>3, <2>4 DEF Frames
<1>5. Numbers(line')
  <2>1. \A i \in 1..k : i \in 1..Len(line)
    BY <1>1
  <2> QED BY <1>2, <2>1 DEF ReceiverInv, Numbers
<1>6. Position'
  BY <1>1, <1>2 DEF ReceiverInv, Position, Boundary
<1>7. Roomy' /\ BufferSafe'
  BY DEF ReceiverInv, Roomy, BufferSafe
<1>8. ExactlyOnce'
  <2>1. \A i \in 1..(base + lastSize) : line'[i] = line[i]
    BY <1>1, <1>2
  <2>2. {line'[i].n : i \in 1..(base + lastSize)} = {line[i].n : i \in 1..(base + lastSize)}
    BY <2>1
  <2> QED BY <2>1, <2>2 DEF ReceiverInv, ExactlyOnce
<1> QED BY <1>3, <1>4, <1>5, <1>6, <1>7, <1>8 DEF ReceiverInv

-----------------------------------------------------------------------------
(* Every step keeps the invariant.                                          *)
LEMMA StepOK == ReceiverInv /\ [ReceiverNext]_receiverVars => ReceiverInv'
<1> SUFFICES ASSUME ReceiverInv, [ReceiverNext]_receiverVars PROVE ReceiverInv'
  OBVIOUS
<1>1. CASE Begin
  BY <1>1, BeginOK
<1>2. CASE \E k \in 1..RecvSize : RecvData(k)
  BY <1>2, RecvDataOK
<1>3. CASE RecvDataFails \/ AcceptFails \/ Reject
  BY <1>3, FailureOK
<1>4. CASE Accept
  BY <1>4, AcceptOK
<1>5. CASE \E body \in Bodies, kind \in Kinds : ServerSends(Numbered + 1, body, kind)
  BY <1>5, ServerSendsOK
<1>6. CASE \E k \in 0..Len(line) : StreamEnds(k)
  BY <1>6, StreamEndsOK
<1>7. CASE UNCHANGED receiverVars
  <2> /\ line' = line /\ down' = down /\ got' = got /\ capacity' = capacity
      /\ base' = base /\ used' = used /\ invalid' = invalid /\ lastSize' = lastSize
      /\ delivered' = delivered /\ receiving' = receiving
    BY <1>7 DEF receiverVars
  <2>1. ReceiverTypeOK'
    BY DEF ReceiverInv, ReceiverTypeOK
  <2>2. Frames(line)' /\ Numbers(line)' /\ (~down => Complete(line))'
    BY DEF ReceiverInv, Frames, Numbers, Complete
  <2>3. Position'
    BY DEF ReceiverInv, Position, Boundary
  <2>4. Roomy' /\ BufferSafe' /\ ExactlyOnce'
    BY DEF ReceiverInv, Roomy, BufferSafe, ExactlyOnce
  <2> QED BY <2>1, <2>2, <2>3, <2>4 DEF ReceiverInv
<1> QED BY <1>1, <1>2, <1>3, <1>4, <1>5, <1>6, <1>7 DEF ReceiverNext, ReceiverStep

(* The invariant holds in every behaviour.                                  *)
LEMMA ReceiverInvariance == ReceiverSpec => []ReceiverInv
<1>1. ReceiverInit => ReceiverInv
  BY InitOK
<1>2. ReceiverInv /\ [ReceiverNext]_receiverVars => ReceiverInv'
  BY StepOK
<1> QED BY <1>1, <1>2, PTL DEF ReceiverSpec

(* The types: in particular the buffer is what was read since its start,    *)
(* and the last response lies inside it.                                    *)
THEOREM ReceiverTypeCorrect == ReceiverSpec => []ReceiverTypeOK
<1>1. ReceiverInv => ReceiverTypeOK
  BY DEF ReceiverInv
<1> QED BY <1>1, ReceiverInvariance, PTL

(* A call of yrmcds_recv looks at the first byte of a response.             *)
THEOREM StartsAtBoundary == ReceiverSpec => []AtBoundary
<1>1. ReceiverInv => AtBoundary
  <2> SUFFICES ASSUME ReceiverInv, receiving, used > 0 PROVE First.off = 1
    BY DEF AtBoundary
  <2>1. base < Len(line)
    BY DEF ReceiverInv, ReceiverTypeOK
  <2> QED BY <2>1, FirstIsFirst
<1> QED BY <1>1, ReceiverInvariance, PTL

(* yrmcds_recv returns every response once, in order, none left out.        *)
THEOREM ReturnsExactlyOnce == ReceiverSpec => []ExactlyOnce
<1>1. ReceiverInv => ExactlyOnce
  BY DEF ReceiverInv
<1> QED BY <1>1, ReceiverInvariance, PTL

(* The buffer is never overrun and does not grow without bound.             *)
THEOREM BufferIsSafe == ReceiverSpec => []BufferSafe
<1>1. ReceiverInv => BufferSafe
  BY DEF ReceiverInv
<1> QED BY <1>1, ReceiverInvariance, PTL

(* One doubling in recv_data is always enough for the read that follows.    *)
THEOREM ReadsFit == ReceiverSpec => ReadFits
<1>1. ReceiverInv /\ [ReceiverNext]_receiverVars
        => [got' # got => used + RecvSize <= capacity']_receiverVars
  <2> SUFFICES ASSUME ReceiverInv, ReceiverNext, got' # got
               PROVE  used + RecvSize <= capacity'
    OBVIOUS
  <2>1. PICK k \in 1..RecvSize : RecvData(k)
    BY DEF ReceiverNext, ReceiverStep, Begin, RecvDataFails, Accept, AcceptFails,
           Reject, ServerSends, StreamEnds
  <2>2. capacity' = Grown /\ NeedsData
    BY <2>1 DEF RecvData
  <2> QED BY <2>2, GrownIsEnough, SomethingOrNothing
<1> QED BY <1>1, ReceiverInvariance, PTL DEF ReceiverSpec, ReadFits
=============================================================================
