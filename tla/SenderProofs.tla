---------------------------- MODULE SenderProofs ----------------------------
(* Proofs about Sender: for any number of threads, any lengths of frames    *)
(* and any window, frames do not mix, and a send that reports success has   *)
(* put its whole frame on the socket.                                       *)
(*                                                                         *)
(* The mutex gives one writer at a time (Mutex), whose serial is the last   *)
(* one handed out (Current); what it has written of its frame is the end of *)
(* the stream (Tip).  A write therefore goes on where the frame stopped.    *)
EXTENDS Sender, SequenceTheorems, TLAPS

Holds(t) == call[t].at \in {"write", "failed"}

Mutex == \A t \in Threads : Holds(t) <=> lock = t

(* The call that has the mutex has the last serial.                         *)
Current ==
  /\ \A t \in Threads : call[t].at # "idle" => call[t].len \in Lengths
  /\ \A t \in Threads : call[t].at = "lock" => call[t].done = 0
  /\ \A t \in Threads : Holds(t) => call[t].serial = serial

LastUnit(t) ==
  [serial |-> call[t].serial, len |-> call[t].len, off |-> call[t].done]

(* Where the stream stands relative to the frame being written.             *)
Tip ==
  /\ \A i \in 1..Len(stream) : stream[i].serial <= serial
  /\ \A t \in Threads :
       call[t].at = "write" =>
         IF call[t].done = 0
         THEN \A i \in 1..Len(stream) : stream[i].serial < serial
         ELSE Len(stream) > 0 /\ stream[Len(stream)] = LastUnit(t)

SenderInv ==
  SenderTypeOK /\ Mutex /\ Current /\ Tip /\ Contiguous /\ OkIsWhole

-----------------------------------------------------------------------------
(* The types of one call, expanded.                                         *)
LEMMA CallTypes ==
  ASSUME SenderTypeOK, NEW t \in Threads
  PROVE  /\ call[t] \in Call
         /\ call[t].at \in {"idle", "lock", "write", "failed"}
         /\ call[t].serial \in Nat /\ call[t].len \in Nat /\ call[t].done \in Nat
         /\ call[t].len \in Lengths \cup {0}
         /\ call[t].done <= call[t].len
<1>1. call[t] \in Call /\ call[t].done <= call[t].len
  BY DEF SenderTypeOK
<1>2. /\ call[t].at \in {"idle", "lock", "write", "failed"}
      /\ call[t].serial \in Nat /\ call[t].done \in Nat
      /\ call[t].len \in Lengths \cup {0}
  BY <1>1 DEF Call
<1>3. call[t].len \in Nat
  BY <1>2, LengthsAssumption
<1> QED BY <1>1, <1>2, <1>3

(* The record of a thread that makes no call.                               *)
LEMMA NoCallTypes ==
  /\ NoCall \in Call /\ NoCall.at = "idle" /\ NoCall.serial = 0
  /\ NoCall.len = 0 /\ NoCall.done = 0
BY DEF NoCall, Call

(* Nothing is on the socket yet.                                            *)
LEMMA SenderInitOK == SenderInit => SenderInv
<1> SUFFICES ASSUME SenderInit PROVE SenderInv
  OBVIOUS
<1>1. Len(stream) = 0 /\ stream \in Seq(Unit) /\ sentOk = {} /\ lock = NULL
  BY DEF SenderInit
<1>2. \A t \in Threads : call[t] = NoCall
  BY DEF SenderInit
<1>3. SenderTypeOK
  <2>1. call \in [Threads -> Call]
    <3>1. call = [t \in Threads |-> NoCall]
      BY DEF SenderInit
    <3>2. NoCall \in Call
      BY NoCallTypes
    <3> QED BY <3>1, <3>2
  <2>2. \A t \in Threads : call[t].done <= call[t].len
    <3>1. NoCall.done = 0 /\ NoCall.len = 0
      BY NoCallTypes
    <3>2. NoCall.done <= NoCall.len
      BY <3>1
    <3> QED BY <1>2, <3>2
  <2>3. /\ lock \in Threads \cup {NULL} /\ serial \in Nat /\ gone \in BOOLEAN
        /\ taken \in 0..Len(stream) /\ sentOk \in SUBSET Frame /\ sentErr \in SUBSET Nat
    <3>1. lock \in Threads \cup {NULL} /\ serial \in Nat /\ gone \in BOOLEAN
      BY DEF SenderInit
    <3>2. taken \in 0..Len(stream)
      BY <1>1 DEF SenderInit
    <3>3. sentOk \in SUBSET Frame /\ sentErr \in SUBSET Nat
      BY DEF SenderInit
    <3> QED BY <3>1, <3>2, <3>3
  <2> QED BY <1>1, <2>1, <2>2, <2>3 DEF SenderTypeOK
<1>4. Mutex
  BY <1>1, <1>2, NoCallTypes, ThreadsAssumption DEF Mutex, Holds
<1>5. Current
  BY <1>2, NoCallTypes DEF Current, Holds
<1>6. Tip
  BY <1>1, <1>2, NoCallTypes DEF Tip
<1>7. Contiguous /\ OkIsWhole
  BY <1>1 DEF Contiguous, OkIsWhole
<1> QED BY <1>3, <1>4, <1>5, <1>6, <1>7 DEF SenderInv

(* A thread enters a command function.                                      *)
LEMMA EnterOK ==
  ASSUME SenderInv, NEW t \in Threads, NEW n \in Lengths, Enter(t, n)
  PROVE  SenderInv'
<1> DEFINE new == [NoCall EXCEPT !.at = "lock", !.len = n]
<1>1. /\ call[t].at = "idle" /\ call' = [call EXCEPT ![t] = new]
      /\ lock' = lock /\ serial' = serial /\ stream' = stream /\ taken' = taken
      /\ gone' = gone /\ sentOk' = sentOk /\ sentErr' = sentErr
  BY DEF Enter
<1>2. /\ new \in Call /\ new.at = "lock" /\ new.len = n /\ new.done = 0
      /\ n \in Nat
  BY LengthsAssumption DEF NoCall, Call
<1> HIDE DEF new
<1>3. /\ call \in [Threads -> Call] /\ call'[t] = new
      /\ \A u \in Threads \ {t} : call'[u] = call[u]
  BY <1>1 DEF SenderInv, SenderTypeOK
<1>4. SenderTypeOK'
  BY <1>1, <1>2, <1>3 DEF SenderInv, SenderTypeOK
<1>5. Mutex'
  BY <1>1, <1>2, <1>3 DEF SenderInv, Mutex, Holds
<1>6. Current'
  BY <1>1, <1>2, <1>3 DEF SenderInv, Current, Holds
<1>7. Tip'
  BY <1>1, <1>2, <1>3 DEF SenderInv, Tip, LastUnit
<1>8. Contiguous' /\ OkIsWhole'
  BY <1>1 DEF SenderInv, Contiguous, OkIsWhole
<1> QED BY <1>4, <1>5, <1>6, <1>7, <1>8 DEF SenderInv

(* It gets the mutex, and a serial that no unit on the socket has.          *)
LEMMA LockOK ==
  ASSUME SenderInv, NEW t \in Threads, Lock(t)
  PROVE  SenderInv'
<1>1. /\ call[t].at = "lock" /\ lock = NULL /\ lock' = t /\ serial' = serial + 1
      /\ call' = [call EXCEPT ![t].at = "write", ![t].serial = serial + 1]
      /\ stream' = stream /\ taken' = taken
      /\ gone' = gone /\ sentOk' = sentOk /\ sentErr' = sentErr
  BY DEF Lock
<1>2. /\ call \in [Threads -> Call] /\ call[t] \in Call /\ serial \in Nat
      /\ call[t].done = 0 /\ call[t].len \in Lengths
  BY <1>1, CallTypes DEF SenderInv, SenderTypeOK, Current
<1>3. /\ call'[t] = [call[t] EXCEPT !.at = "write", !.serial = serial + 1]
      /\ \A u \in Threads \ {t} : call'[u] = call[u]
  BY <1>1, <1>2
<1>4. /\ call'[t] \in Call /\ call'[t].at = "write" /\ call'[t].serial = serial + 1
      /\ call'[t].len = call[t].len /\ call'[t].done = 0
  <2>1. serial + 1 \in Nat /\ call[t] \in Call
    BY <1>2
  <2>2. call'[t] \in Call
    BY <1>3, <2>1 DEF Call
  <2>3. /\ call'[t].at = "write" /\ call'[t].serial = serial + 1
        /\ call'[t].len = call[t].len /\ call'[t].done = call[t].done
    BY <1>3, <2>1 DEF Call
  <2> QED BY <1>2, <2>2, <2>3
<1>5. SenderTypeOK'
  <2>1. call' \in [Threads -> Call]
    BY <1>1, <1>2, <1>3, <1>4
  <2>2. \A u \in Threads : call'[u].done <= call'[u].len
    BY <1>3, <1>4, <1>2 DEF SenderInv, SenderTypeOK
  <2> QED BY <1>1, <1>2, <2>1, <2>2 DEF SenderInv, SenderTypeOK
<1>6. \A u \in Threads : ~Holds(u)
  BY <1>1, ThreadsAssumption DEF SenderInv, Mutex
<1>7. Mutex'
  BY <1>1, <1>3, <1>4, <1>6 DEF Mutex, Holds
<1>8. Current'
  BY <1>1, <1>2, <1>3, <1>4, <1>6 DEF SenderInv, Current, Holds
<1>9. Tip'
  <2>1. \A i \in 1..Len(stream) : stream[i].serial <= serial /\ stream[i].serial \in Nat
    <3>1. \A i \in 1..Len(stream) : stream[i] \in Unit
      BY DEF SenderInv, SenderTypeOK
    <3> QED BY <3>1 DEF SenderInv, Tip, Unit
  <2>2. \A i \in 1..Len(stream) : stream[i].serial < serial + 1
                                  /\ stream[i].serial <= serial + 1
    BY <1>2, <2>1
  <2>3. \A u \in Threads \ {t} : call'[u].at # "write"
    BY <1>3, <1>6 DEF Holds
  <2> QED BY <1>1, <1>4, <2>2, <2>3 DEF Tip
<1>10. Contiguous' /\ OkIsWhole'
  BY <1>1 DEF SenderInv, Contiguous, OkIsWhole
<1> QED BY <1>5, <1>7, <1>8, <1>9, <1>10 DEF SenderInv

(* t is s with k units of a frame behind it, the first d being there.       *)
GoesOn(s, t, ser, n, d, k) ==
  /\ t \in Seq(Unit) /\ Len(t) = Len(s) + k
  /\ \A i \in 1..Len(s) : t[i] = s[i]
  /\ \A i \in (Len(s) + 1)..(Len(s) + k) :
       t[i] = [serial |-> ser, len |-> n, off |-> d + (i - Len(s))]

(* The next units of a frame, behind a stream.                              *)
LEMMA UnitsAppended ==
  ASSUME NEW s \in Seq(Unit), NEW ser \in Nat, NEW n \in Lengths,
         NEW d \in Nat, NEW k \in Nat
  PROVE  GoesOn(s, s \o [i \in 1..k |-> [serial |-> ser, len |-> n, off |-> d + i]],
                ser, n, d, k)
<1>0. PICK C : C = [i \in 1..k |-> [serial |-> ser, len |-> n, off |-> d + i]]
  OBVIOUS
<1>1. PICK L \in Nat : L = Len(s)
  OBVIOUS
<1>2. \A i \in 1..k : [serial |-> ser, len |-> n, off |-> d + i] \in Unit
  <2>1. \A i \in 1..k : d + i \in Nat \ {0}
    OBVIOUS
  <2> QED BY <2>1 DEF Unit
<1>3. C \in [1..k -> Unit]
  BY <1>0, <1>2
<1>4. C \in Seq(Unit) /\ Len(C) = k
  <2>1. \A D \in [1..k -> Unit] : D \in Seq(Unit) /\ Len(D) = k
    OBVIOUS
  <2> QED BY <1>3, <2>1
<1>5. /\ s \o C \in Seq(Unit) /\ Len(s \o C) = Len(s) + Len(C)
      /\ \A i \in 1..(Len(s) + Len(C)) :
           (s \o C)[i] = IF i <= Len(s) THEN s[i] ELSE C[i - Len(s)]
  BY <1>4, ConcatProperties
<1>6. \A i \in 1..L : (s \o C)[i] = s[i]
  BY <1>1, <1>4, <1>5
<1>7. ASSUME NEW i \in (L + 1)..(L + k)
      PROVE  (s \o C)[i] = [serial |-> ser, len |-> n, off |-> d + (i - L)]
  <2>1. i - L \in 1..k /\ i \in 1..(L + k) /\ ~(i <= L)
    OBVIOUS
  <2>2. (s \o C)[i] = C[i - L]
    BY <1>1, <1>4, <1>5, <2>1
  <2> QED BY <1>0, <2>1, <2>2
<1>8. GoesOn(s, s \o C, ser, n, d, k)
  BY <1>1, <1>4, <1>5, <1>6, <1>7 DEF GoesOn
<1> QED BY <1>0, <1>8

(* writev goes on behind the last unit of the frame, or behind another frame. *)
LEMMA WriteOK ==
  ASSUME SenderInv, NEW t \in Threads, NEW k \in 1..Window, Write(t, k)
  PROVE  SenderInv'
<1>1. /\ call[t].at = "write" /\ k <= call[t].len - call[t].done
      /\ call' = [call EXCEPT ![t].done = @ + k]
      /\ lock' = lock /\ serial' = serial /\ taken' = taken
      /\ gone' = gone /\ sentOk' = sentOk /\ sentErr' = sentErr
  BY DEF Write
<1>2. /\ call \in [Threads -> Call] /\ call[t] \in Call /\ serial \in Nat
      /\ call[t].len \in Lengths /\ call[t].serial = serial
      /\ stream \in Seq(Unit)
  BY <1>1, CallTypes DEF SenderInv, SenderTypeOK, Current, Holds
<1>3. PICK n \in Nat : n = call[t].len /\ n \in Lengths
  BY <1>2, LengthsAssumption
<1>4. PICK d \in Nat : d = call[t].done
  BY <1>2 DEF Call
<1>5. PICK L \in Nat : L = Len(stream)
  BY <1>2
<1>6. k \in Nat /\ k > 0 /\ d + k <= n /\ d + k \in Nat /\ d + k > 0
  BY <1>1, <1>3, <1>4, SenderBounds
<1>7. /\ stream' \in Seq(Unit) /\ Len(stream') = L + k
      /\ \A i \in 1..L : stream'[i] = stream[i]
      /\ \A i \in (L + 1)..(L + k) :
           stream'[i] = [serial |-> serial, len |-> n, off |-> d + (i - L)]
  <2>1. stream' = stream \o Chunk(t, k)
    BY DEF Write
  <2>2. Chunk(t, k) = [i \in 1..k |-> [serial |-> serial, len |-> n, off |-> d + i]]
    BY <1>2, <1>3, <1>4 DEF Chunk
  <2>3. GoesOn(stream, stream', serial, n, d, k)
    BY <1>2, <1>3, <1>6, <2>1, <2>2, UnitsAppended
  <2> QED BY <1>5, <2>3 DEF GoesOn
<1>8. /\ call'[t] = [call[t] EXCEPT !.done = d + k]
      /\ \A u \in Threads \ {t} : call'[u] = call[u]
  BY <1>1, <1>2, <1>4
<1>9. /\ call'[t] \in Call /\ call'[t].at = "write" /\ call'[t].serial = serial
      /\ call'[t].len = n /\ call'[t].done = d + k
  <2>1. call'[t] \in Call
    BY <1>2, <1>6, <1>8 DEF Call
  <2> QED BY <1>1, <1>2, <1>3, <1>8, <2>1 DEF Call
<1>10. SenderTypeOK'
  <2>1. call' \in [Threads -> Call]
    BY <1>1, <1>2, <1>8, <1>9
  <2>2. \A u \in Threads : call'[u].done <= call'[u].len
    BY <1>6, <1>8, <1>9 DEF SenderInv, SenderTypeOK
  <2>3. taken' \in 0..Len(stream')
    BY <1>1, <1>5, <1>6, <1>7 DEF SenderInv, SenderTypeOK
  <2> QED BY <1>1, <1>7, <2>1, <2>2, <2>3 DEF SenderInv, SenderTypeOK
<1>11. Mutex'
  BY <1>1, <1>8, <1>9 DEF SenderInv, Mutex, Holds
<1>12. Current'
  BY <1>1, <1>3, <1>8, <1>9 DEF SenderInv, Current, Holds
<1>13. \A u \in Threads \ {t} : call'[u].at # "write"
  BY <1>1, <1>8 DEF SenderInv, Mutex, Holds
<1>14. \A i : i \in 1..(L + k) => i \in 1..L \/ i \in (L + 1)..(L + k)
  BY <1>6
<1>15. Tip'
  <2>1. ASSUME NEW i \in 1..(L + k) PROVE stream'[i].serial <= serial
    <3>1. CASE i \in 1..L
      BY <3>1, <1>5, <1>7 DEF SenderInv, Tip
    <3>2. CASE i \in (L + 1)..(L + k)
      <4>1. stream'[i] = [serial |-> serial, len |-> n, off |-> d + (i - L)]
        BY <3>2, <1>7
      <4>2. stream'[i].serial = serial
        BY <4>1
      <4> QED BY <4>2, <1>2
    <3> QED BY <1>14, <3>1, <3>2
  <2>2. stream'[L + k] = [serial |-> serial, len |-> n, off |-> d + k]
    <3>1. L + k \in (L + 1)..(L + k) /\ (L + k) - L = k
      BY <1>6
    <3> QED BY <1>7, <3>1
  <2>3. d + k # 0 /\ L + k > 0
    BY <1>6
  <2> QED BY <1>1, <1>7, <1>9, <1>13, <2>1, <2>2, <2>3 DEF Tip, LastUnit
<1>16. Contiguous'
  <2> SUFFICES ASSUME NEW i \in 1..(L + k)
               PROVE  IF stream'[i].off = 1
                      THEN i = 1 \/ stream'[i - 1].serial < stream'[i].serial
                      ELSE i # 1 /\ stream'[i] = [stream'[i - 1] EXCEPT !.off = @ + 1]
    BY <1>7 DEF Contiguous
  <2>1. CASE i \in 1..L
    <3>1. stream'[i] = stream[i] /\ (i # 1 => stream'[i - 1] = stream[i - 1])
      <4>1. i # 1 => i - 1 \in 1..L
        BY <2>1
      <4> QED BY <1>7, <2>1, <4>1
    <3>2. IF stream[i].off = 1
          THEN i = 1 \/ stream[i - 1].serial < stream[i].serial
          ELSE i # 1 /\ stream[i] = [stream[i - 1] EXCEPT !.off = @ + 1]
      BY <1>5, <2>1 DEF SenderInv, Contiguous
    <3> QED BY <3>1, <3>2
  <2>2. CASE i = L + 1 /\ d = 0
    <3>1. stream'[i].serial = serial /\ stream'[i].off = 1
      <4>1. i \in (L + 1)..(L + k) /\ d + (i - L) = 1
        BY <1>6, <2>2
      <4>2. stream'[i] = [serial |-> serial, len |-> n, off |-> 1]
        BY <1>7, <4>1
      <4> QED BY <4>2
    <3>2. i # 1 => stream'[i - 1].serial < serial
      <4>1. i # 1 => i - 1 \in 1..L
        BY <2>2
      <4> QED BY <1>1, <1>4, <1>5, <1>7, <2>2, <4>1 DEF SenderInv, Tip
    <3> QED BY <3>1, <3>2
  <2>3. CASE i = L + 1 /\ d # 0
    <3>1. stream'[i] = [serial |-> serial, len |-> n, off |-> d + 1]
      <4>1. i \in (L + 1)..(L + k) /\ d + (i - L) = d + 1
        BY <1>6, <2>3
      <4> QED BY <1>7, <4>1
    <3>2. L > 0 /\ stream[L] = [serial |-> serial, len |-> n, off |-> d]
      BY <1>1, <1>2, <1>3, <1>4, <1>5, <2>3 DEF SenderInv, Tip, LastUnit
    <3>3. i - 1 = L /\ L \in 1..L /\ i # 1 /\ d + 1 # 1
      BY <2>3, <3>2
    <3>4. stream'[i - 1] = [serial |-> serial, len |-> n, off |-> d]
      BY <1>7, <3>2, <3>3
    <3> QED BY <3>1, <3>3, <3>4
  <2>4. CASE i \in (L + 1)..(L + k) /\ i # L + 1
    <3>1. /\ i - 1 \in (L + 1)..(L + k) /\ d + (i - L) = d + ((i - 1) - L) + 1
          /\ i # 1 /\ d + (i - L) # 1
      BY <1>6, <2>4
    <3>2. /\ stream'[i] = [serial |-> serial, len |-> n, off |-> d + (i - L)]
          /\ stream'[i - 1] = [serial |-> serial, len |-> n, off |-> d + ((i - 1) - L)]
      BY <1>7, <2>4, <3>1
    <3> QED BY <3>1, <3>2
  <2> QED BY <1>14, <2>1, <2>2, <2>3, <2>4
<1>17. OkIsWhole'
  <2> SUFFICES ASSUME NEW f \in sentOk
               PROVE  \E i \in 1..Len(stream') :
                        stream'[i] = [serial |-> f.serial, len |-> f.len, off |-> f.len]
    BY <1>1 DEF OkIsWhole
  <2>1. PICK i \in 1..L : stream[i] = [serial |-> f.serial, len |-> f.len, off |-> f.len]
    BY <1>5 DEF SenderInv, OkIsWhole
  <2>2. i \in 1..(L + k) /\ stream'[i] = stream[i]
    BY <1>6, <1>7
  <2> QED BY <1>7, <2>1, <2>2
<1> QED BY <1>10, <1>11, <1>12, <1>15, <1>16, <1>17 DEF SenderInv

(* A call that fails keeps the mutex for a moment, but writes no more.      *)
LEMMA WriteFailsOK ==
  ASSUME SenderInv, NEW t \in Threads, WriteFails(t)
  PROVE  SenderInv'
<1>1. /\ call[t].at = "write" /\ call' = [call EXCEPT ![t].at = "failed"]
      /\ sentErr' = sentErr \cup {call[t].serial}
      /\ lock' = lock /\ serial' = serial /\ stream' = stream /\ taken' = taken
      /\ gone' = gone /\ sentOk' = sentOk
  BY DEF WriteFails
<1>2. /\ call \in [Threads -> Call] /\ call[t] \in Call /\ call[t].serial \in Nat
  BY CallTypes DEF SenderInv, SenderTypeOK
<1>3. /\ call'[t] = [call[t] EXCEPT !.at = "failed"]
      /\ \A u \in Threads \ {t} : call'[u] = call[u]
  BY <1>1, <1>2
<1>4. /\ call'[t] \in Call /\ call'[t].at = "failed"
      /\ call'[t].serial = call[t].serial
      /\ call'[t].len = call[t].len /\ call'[t].done = call[t].done
  BY <1>2, <1>3 DEF Call
<1>5. SenderTypeOK'
  <2>1. call' \in [Threads -> Call]
    BY <1>1, <1>2, <1>3, <1>4
  <2>2. \A u \in Threads : call'[u].done <= call'[u].len
    BY <1>3, <1>4 DEF SenderInv, SenderTypeOK
  <2> QED BY <1>1, <1>2, <2>1, <2>2 DEF SenderInv, SenderTypeOK
<1>6. Mutex'
  BY <1>1, <1>3, <1>4 DEF SenderInv, Mutex, Holds
<1>7. Current'
  BY <1>1, <1>3, <1>4 DEF SenderInv, Current, Holds
<1>8. Tip'
  <2>1. \A u \in Threads : call'[u].at # "write"
    BY <1>1, <1>3, <1>4 DEF SenderInv, Mutex, Holds
  <2> QED BY <1>1, <2>1 DEF SenderInv, Tip
<1>9. Contiguous' /\ OkIsWhole'
  BY <1>1 DEF SenderInv, Contiguous, OkIsWhole
<1> QED BY <1>5, <1>6, <1>7, <1>8, <1>9 DEF SenderInv

(* The two ways out give the mutex back; success is only returned when the  *)
(* last unit on the socket is the last of the frame.                        *)
LEMMA ReturnOK ==
  ASSUME SenderInv, NEW t \in Threads, Return(t) \/ ReturnError(t)
  PROVE  SenderInv'
<1>1. /\ Holds(t) /\ lock' = NULL /\ call' = [call EXCEPT ![t] = NoCall]
      /\ serial' = serial /\ stream' = stream /\ taken' = taken
      /\ gone' = gone /\ sentErr' = sentErr
  BY DEF Return, ReturnError, Holds
<1>2. /\ call \in [Threads -> Call] /\ call[t] \in Call
      /\ call[t].serial \in Nat /\ call[t].len \in Lengths /\ call[t].len > 0
      /\ stream \in Seq(Unit) /\ sentOk \in SUBSET Frame /\ lock = t
  <2>1. call[t].at # "idle" /\ lock = t
    BY <1>1 DEF SenderInv, Mutex, Holds
  <2>2. call[t].len \in Lengths
    BY <2>1 DEF SenderInv, Current
  <2> QED BY <2>1, <2>2, CallTypes, LengthsAssumption DEF SenderInv, SenderTypeOK
<1>3. call'[t] = NoCall /\ \A u \in Threads \ {t} : call'[u] = call[u]
  BY <1>1, <1>2
<1>4. /\ NoCall \in Call /\ NoCall.at = "idle" /\ NoCall.done <= NoCall.len
  BY NoCallTypes
<1>5. \A u \in Threads : call'[u].at \notin {"write", "failed"}
  BY <1>2, <1>3, <1>4 DEF SenderInv, Mutex, Holds
<1>6. \A f \in sentOk' \ sentOk :
        /\ f = [serial |-> call[t].serial, len |-> call[t].len]
        /\ call[t].at = "write" /\ call[t].done = call[t].len
  BY DEF Return, ReturnError
<1>7. sentOk' \in SUBSET Frame
  BY <1>2, <1>6 DEF Frame
<1>8. SenderTypeOK'
  <2>1. call' \in [Threads -> Call]
    BY <1>1, <1>2, <1>4
  <2>2. \A u \in Threads : call'[u].done <= call'[u].len
    BY <1>3, <1>4 DEF SenderInv, SenderTypeOK
  <2> QED BY <1>1, <1>7, <2>1, <2>2 DEF SenderInv, SenderTypeOK
<1>9. Mutex'
  BY <1>1, <1>5, ThreadsAssumption DEF Mutex, Holds
<1>10. Current'
  BY <1>1, <1>3, <1>4, <1>5 DEF SenderInv, Current, Holds
<1>11. Tip'
  BY <1>1, <1>5 DEF SenderInv, Tip
<1>12. Contiguous'
  BY <1>1 DEF SenderInv, Contiguous
<1>13. OkIsWhole'
  <2> SUFFICES ASSUME NEW f \in sentOk'
               PROVE  \E i \in 1..Len(stream) :
                        stream[i] = [serial |-> f.serial, len |-> f.len, off |-> f.len]
    BY <1>1 DEF OkIsWhole
  <2>1. CASE f \in sentOk
    BY <2>1 DEF SenderInv, OkIsWhole
  <2>2. CASE f \notin sentOk
    <3>1. /\ f.serial = call[t].serial /\ f.len = call[t].len
          /\ call[t].at = "write" /\ call[t].done = call[t].len
      BY <1>6, <2>2
    <3>2. Len(stream) > 0 /\ stream[Len(stream)] = LastUnit(t)
      BY <1>2, <3>1 DEF SenderInv, Tip
    <3>3. Len(stream) \in 1..Len(stream)
      BY <1>2, <3>2
    <3> QED BY <3>1, <3>2, <3>3 DEF LastUnit
  <2> QED BY <2>1, <2>2
<1> QED BY <1>8, <1>9, <1>10, <1>11, <1>12, <1>13 DEF SenderInv

(* Nothing the peer does touches what was written.                          *)
LEMMA PeerOK ==
  ASSUME SenderInv,
         (\E n \in 1..Window : PeerReads(n)) \/ PeerCloses \/ UNCHANGED senderVars
  PROVE  SenderInv'
<1>1. /\ lock' = lock /\ serial' = serial /\ call' = call /\ stream' = stream
      /\ sentOk' = sentOk /\ sentErr' = sentErr
  BY DEF PeerReads, PeerCloses, senderVars
<1>2. taken' \in 0..Len(stream) /\ gone' \in BOOLEAN
  <2>1. taken \in Nat /\ Len(stream) \in Nat /\ taken <= Len(stream)
    BY DEF SenderInv, SenderTypeOK
  <2>2. CASE \E n \in 1..Window : PeerReads(n)
    BY <2>1, <2>2, SenderBounds DEF PeerReads, SenderInv, SenderTypeOK
  <2>3. CASE PeerCloses \/ UNCHANGED senderVars
    BY <2>1, <2>3 DEF PeerCloses, senderVars, SenderInv, SenderTypeOK
  <2> QED BY <2>2, <2>3
<1>3. SenderTypeOK'
  BY <1>1, <1>2 DEF SenderInv, SenderTypeOK
<1>4. Mutex' /\ Current'
  BY <1>1 DEF SenderInv, Mutex, Current, Holds
<1>5. Tip'
  BY <1>1 DEF SenderInv, Tip, LastUnit
<1>6. Contiguous' /\ OkIsWhole'
  BY <1>1 DEF SenderInv, Contiguous, OkIsWhole
<1> QED BY <1>3, <1>4, <1>5, <1>6 DEF SenderInv

-----------------------------------------------------------------------------
(* Every step keeps the invariant.                                          *)
LEMMA SenderStepOK == SenderInv /\ [SenderNext]_senderVars => SenderInv'
<1> SUFFICES ASSUME SenderInv, [SenderNext]_senderVars PROVE SenderInv'
  OBVIOUS
<1>1. CASE \E t \in Threads, n \in Lengths : Enter(t, n)
  BY <1>1, EnterOK
<1>2. CASE \E t \in Threads : Lock(t)
  BY <1>2, LockOK
<1>3. CASE \E t \in Threads, k \in 1..Window : Write(t, k)
  BY <1>3, WriteOK
<1>4. CASE \E t \in Threads : WriteFails(t)
  BY <1>4, WriteFailsOK
<1>5. CASE \E t \in Threads : Return(t) \/ ReturnError(t)
  BY <1>5, ReturnOK
<1>6. CASE (\E n \in 1..Window : PeerReads(n)) \/ PeerCloses \/ UNCHANGED senderVars
  BY <1>6, PeerOK
<1> QED BY <1>1, <1>2, <1>3, <1>4, <1>5, <1>6 DEF SenderNext, Step

(* The invariant holds in every behaviour.                                  *)
LEMMA SenderInvariance == SenderSpec => []SenderInv
<1> QED BY SenderInitOK, SenderStepOK, PTL DEF SenderSpec

(* The types of send_command's state; in particular no call writes more     *)
(* than its frame.                                                          *)
THEOREM SenderTypeCorrect == SenderSpec => []SenderTypeOK
<1>1. SenderInv => SenderTypeOK
  BY DEF SenderInv
<1> QED BY <1>1, SenderInvariance, PTL

(* send_command never lets two frames mix, and hands serials out in the     *)
(* order of the frames.                                                     *)
THEOREM FramesDoNotMix == SenderSpec => []Contiguous
<1>1. SenderInv => Contiguous
  BY DEF SenderInv
<1> QED BY <1>1, SenderInvariance, PTL

(* When send_command returns YRMCDS_OK its whole frame is on the socket.    *)
THEOREM SuccessIsWhole == SenderSpec => []OkIsWhole
<1>1. SenderInv => OkIsWhole
  BY DEF SenderInv
<1> QED BY <1>1, SenderInvariance, PTL

-----------------------------------------------------------------------------
(* The refinement: what the log of CommandLog needs to know of the state.    *)

(* No unit of the frame being written lies beyond what its thread has done.  *)
Reached ==
  \A t \in Threads :
    call[t].at = "write" =>
      \A i \in 1..Len(stream) :
        stream[i].serial = serial =>
          stream[i].off <= call[t].done /\ stream[i].len = call[t].len

(* The serials that failed have been handed out; the one being written is    *)
(* not among them, the one of a call that has failed is.                    *)
Failures ==
  /\ \A e \in sentErr : e <= serial
  /\ \A t \in Threads : call[t].at = "write" => serial \notin sentErr
  /\ \A t \in Threads : call[t].at = "failed" => serial \in sentErr

(* The mutex is given back only when the last frame has been settled.        *)
Settled == lock = NULL => serial = 0 \/ serial \in SentWhole \cup sentErr \/ Broken

LogInv == Reached /\ Failures /\ Settled

logVars == <<serial, SentWhole, sentErr, Broken>>

(* The serials of the frames that are whole.                                *)
LEMMA SentIs ==
  ASSUME NEW e
  PROVE  /\ e \in SentWhole <=> \E i \in 1..Len(stream) : Whole(i) /\ stream[i].serial = e
         /\ e \in SentWhole' <=> \E i \in 1..Len(stream') : Whole(i)' /\ stream'[i].serial = e
BY DEF SentWhole

(* The log depends on the stream and its cuts alone.                        *)
LEMMA SameCuts ==
  ASSUME stream \in Seq(Unit), stream' = stream,
         \A i \in 1..Len(stream) : i < Len(stream) => (Cut(i)' <=> Cut(i))
  PROVE  SentWhole' = SentWhole
<1>1. ASSUME NEW i \in 1..Len(stream)
      PROVE  Whole(i)' <=> Whole(i)
  <2>1. \A h \in 1..(i - 1) : h \in 1..Len(stream) /\ h < Len(stream)
    OBVIOUS
  <2>2. \A h \in 1..(i - 1) : Cut(h)' <=> Cut(h)
    BY <2>1
  <2>3. QED BY <2>2 DEF Whole
<1>2. \A e : e \in SentWhole' <=> e \in SentWhole
  BY <1>1, SentIs
<1>3. QED BY <1>2

(* A unit of a frame that goes on, or that is complete, is no cut: a step     *)
(* that writes nothing changes the log only if it gives up an unfinished     *)
(* frame.                                                                   *)
LEMMA SameLog ==
  ASSUME stream \in Seq(Unit), stream' = stream,
         ASSUME NEW L \in 1..Len(stream), L = Len(stream), stream[L].off # stream[L].len
         PROVE  (\E t \in Threads : call'[t].at = "write" /\ call'[t].serial = stream[L].serial)
                  <=> (\E t \in Threads : call[t].at = "write" /\ call[t].serial = stream[L].serial)
  PROVE  SentWhole' = SentWhole /\ Broken' = Broken
<1>1. ASSUME NEW i \in 1..Len(stream)
      PROVE  Cut(i)' <=> Cut(i)
  <2>1. CASE i < Len(stream)
    BY <2>1 DEF Cut
  <2>2. CASE i = Len(stream)
    BY <2>2 DEF Cut
  <2>3. QED BY <2>1, <2>2
<1>2. SentWhole' = SentWhole
  BY <1>1, SameCuts
<1>3. Broken' <=> Broken
  BY <1>1 DEF Broken
<1>4. QED BY <1>2, <1>3 DEF Broken

(* A call before its mutex does not show.                                    *)
LEMMA EnterLogs ==
  ASSUME SenderInv, LogInv, NEW t \in Threads, NEW n \in Lengths, Enter(t, n)
  PROVE  LogInv' /\ UNCHANGED logVars
<1>1. /\ call[t].at = "idle" /\ call \in [Threads -> Call]
      /\ call' = [call EXCEPT ![t] = [NoCall EXCEPT !.at = "lock", !.len = n]]
      /\ lock' = lock /\ serial' = serial /\ stream' = stream /\ sentErr' = sentErr
      /\ stream \in Seq(Unit)
  BY DEF Enter, SenderInv, SenderTypeOK
<1>2. /\ call'[t].at = "lock" /\ \A u \in Threads \ {t} : call'[u] = call[u]
  BY <1>1 DEF NoCall
<1>3. SentWhole' = SentWhole /\ Broken' = Broken
  BY <1>1, <1>2, SameLog
<1>4. Reached'
  BY <1>1, <1>2 DEF LogInv, Reached
<1>5. Failures'
  BY <1>1, <1>2 DEF LogInv, Failures
<1>6. Settled'
  BY <1>1, <1>3 DEF LogInv, Settled
<1>7. QED BY <1>1, <1>3, <1>4, <1>5, <1>6 DEF LogInv, logVars

(* The mutex hands out the next serial when the last one is settled.         *)
LEMMA LockLogs ==
  ASSUME SenderInv, LogInv, NEW t \in Threads, Lock(t)
  PROVE  LogInv' /\ Log!LogTake
<1>1. /\ call[t].at = "lock" /\ lock = NULL /\ lock' = t /\ serial' = serial + 1
      /\ call' = [call EXCEPT ![t].at = "write", ![t].serial = serial + 1]
      /\ stream' = stream /\ sentErr' = sentErr
  BY DEF Lock
<1>2. /\ call \in [Threads -> Call] /\ call[t] \in Call /\ serial \in Nat
      /\ stream \in Seq(Unit) /\ t # NULL /\ sentErr \in SUBSET Nat
      /\ \A i \in 1..Len(stream) : stream[i].serial \in Nat /\ stream[i].serial <= serial
  <2>1. stream \in Seq(Unit) /\ \A i \in 1..Len(stream) : stream[i].serial <= serial
    BY DEF SenderInv, SenderTypeOK, Tip
  <2>2. \A i \in 1..Len(stream) : stream[i] \in Unit
    BY <2>1
  <2>3. \A i \in 1..Len(stream) : stream[i].serial \in Nat
    BY <2>2 DEF Unit
  <2>4. QED BY <2>1, <2>3, ThreadsAssumption DEF SenderInv, SenderTypeOK
<1>3. /\ call'[t].at = "write" /\ call'[t].serial = serial + 1
      /\ \A u \in Threads \ {t} : call'[u] = call[u] /\ call'[u].at \notin {"write", "failed"}
  BY <1>1, <1>2, ThreadsAssumption DEF SenderInv, Mutex, Holds, Call
<1>4. SentWhole' = SentWhole /\ Broken' = Broken
  <2>1. ASSUME NEW L \in 1..Len(stream)
        PROVE  /\ ~\E u \in Threads : call'[u].at = "write" /\ call'[u].serial = stream[L].serial
               /\ ~\E u \in Threads : call[u].at = "write" /\ call[u].serial = stream[L].serial
    BY <1>1, <1>2, <1>3
  <2>2. QED BY <1>1, <1>2, <2>1, SameLog
<1>5. Reached'
  BY <1>1, <1>2, <1>3 DEF Reached
<1>6. Failures'
  BY <1>1, <1>2, <1>3 DEF LogInv, Failures
<1>7. Settled'
  BY <1>1, <1>2 DEF Settled
<1>8. Log!LogTake
  <2>1. serial = 0 \/ serial \in SentWhole \cup sentErr \/ Broken
    BY <1>1 DEF LogInv, Settled
  <2>2. QED BY <1>1, <1>4, <2>1 DEF Log!LogTake
<1>9. QED BY <1>5, <1>6, <1>7, <1>8 DEF LogInv

(* While a call has not written its frame, its serial is open in the log.     *)
LEMMA OpenSerial ==
  ASSUME SenderInv, LogInv, NEW t \in Threads, call[t].at = "write",
         call[t].done < call[t].len
  PROVE  serial \notin SentWhole \cup sentErr
<1>1. call[t].done \in Nat /\ call[t].len \in Nat /\ stream \in Seq(Unit)
  BY CallTypes DEF SenderInv, SenderTypeOK
<1>2. ASSUME NEW i \in 1..Len(stream), Whole(i), stream[i].serial = serial
      PROVE  FALSE
  <2>1. stream[i].off <= call[t].done /\ stream[i].len = call[t].len
    BY <1>2 DEF LogInv, Reached
  <2>2. stream[i].off = stream[i].len
    BY <1>2 DEF Whole
  <2>3. QED BY <1>1, <2>1, <2>2
<1>3. serial \notin SentWhole
  BY <1>2, SentIs
<1>4. QED BY <1>3 DEF LogInv, Failures

(* It fails: either not a unit is on the socket, or the frame is cut there.   *)
LEMMA WriteFailsLogs ==
  ASSUME SenderInv, LogInv, NEW t \in Threads, WriteFails(t)
  PROVE  LogInv' /\ Log!LogFail
<1>1. /\ call[t].at = "write" /\ call' = [call EXCEPT ![t].at = "failed"]
      /\ call[t].done < call[t].len /\ sentErr' = sentErr \cup {call[t].serial}
      /\ lock' = lock /\ serial' = serial /\ stream' = stream
  BY DEF WriteFails
<1>2. /\ call \in [Threads -> Call] /\ call[t] \in Call /\ serial \in Nat
      /\ stream \in Seq(Unit) /\ call[t].serial = serial /\ lock = t /\ t # NULL
  BY <1>1, ThreadsAssumption DEF SenderInv, SenderTypeOK, Current, Mutex, Holds
<1>3. /\ call'[t].at = "failed"
      /\ \A u \in Threads \ {t} : call'[u] = call[u] /\ call'[u].at \notin {"write", "failed"}
  BY <1>1, <1>2, ThreadsAssumption DEF SenderInv, Mutex, Holds, Call
<1>4. ASSUME NEW i \in 1..Len(stream)
      PROVE  /\ i < Len(stream) => (Cut(i)' <=> Cut(i))
             /\ Cut(i) => Cut(i)'
  <2>1. CASE i < Len(stream)
    BY <1>1, <2>1 DEF Cut
  <2>2. CASE i = Len(stream)
    BY <1>1, <1>3, <2>2 DEF Cut
  <2>3. QED BY <1>2, <2>1, <2>2
<1>5. SentWhole' = SentWhole
  BY <1>1, <1>2, <1>4, SameCuts
<1>6. Broken' \in {Broken, TRUE}
  <2>1. Broken => Broken'
    BY <1>1, <1>4 DEF Broken
  <2>2. QED BY <2>1 DEF Broken
<1>7. Reached'
  BY <1>1, <1>3 DEF Reached
<1>8. Failures'
  BY <1>1, <1>2, <1>3 DEF LogInv, Failures
<1>9. Settled'
  BY <1>1, <1>2 DEF Settled
<1>10. Log!LogFail
  BY <1>1, <1>2, <1>5, <1>6, OpenSerial DEF Log!LogFail
<1>11. QED BY <1>7, <1>8, <1>9, <1>10 DEF LogInv

(* A write cuts nothing; the last one of a frame makes it whole, unless a     *)
(* frame before it was cut.                                                 *)
LEMMA WriteLogs ==
  ASSUME SenderInv, LogInv, NEW t \in Threads, NEW k \in 1..Window, Write(t, k)
  PROVE  LogInv' /\ (Log!LogSend \/ UNCHANGED logVars)
<1>1. /\ call[t].at = "write" /\ k <= call[t].len - call[t].done
      /\ call' = [call EXCEPT ![t].done = @ + k]
      /\ lock' = lock /\ serial' = serial /\ sentErr' = sentErr
  BY DEF Write
<1>2. /\ call \in [Threads -> Call] /\ call[t] \in Call /\ serial \in Nat
      /\ call[t].len \in Lengths /\ call[t].serial = serial
      /\ stream \in Seq(Unit) /\ lock = t /\ t # NULL
  BY <1>1, CallTypes, ThreadsAssumption
     DEF SenderInv, SenderTypeOK, Current, Mutex, Holds
<1>3. PICK n \in Nat : n = call[t].len /\ n \in Lengths
  BY <1>2, LengthsAssumption
<1>4. PICK d \in Nat : d = call[t].done
  BY <1>2 DEF Call
<1>5. PICK L \in Nat : L = Len(stream)
  BY <1>2
<1>6. k \in Nat /\ k > 0 /\ d + k <= n /\ d < n
  BY <1>1, <1>3, <1>4, SenderBounds
<1>7. /\ Len(stream') = L + k
      /\ \A i \in 1..L : stream'[i] = stream[i]
      /\ \A i \in (L + 1)..(L + k) :
           stream'[i] = [serial |-> serial, len |-> n, off |-> d + (i - L)]
  <2>1. stream' = stream \o Chunk(t, k)
    BY DEF Write
  <2>2. Chunk(t, k) = [i \in 1..k |-> [serial |-> serial, len |-> n, off |-> d + i]]
    BY <1>2, <1>3, <1>4 DEF Chunk
  <2>3. GoesOn(stream, stream', serial, n, d, k)
    BY <1>2, <1>3, <1>6, <2>1, <2>2, UnitsAppended
  <2>4. QED BY <1>5, <2>3 DEF GoesOn
<1>8. /\ call'[t].at = "write" /\ call'[t].serial = serial
      /\ call'[t].len = n /\ call'[t].done = d + k
      /\ \A u \in Threads \ {t} : call'[u] = call[u] /\ call'[u].at \notin {"write", "failed"}
  BY <1>1, <1>2, <1>3, <1>4, ThreadsAssumption DEF SenderInv, Mutex, Holds, Call
<1>9. \A i \in 1..(L + k) : i \in 1..L \/ i \in (L + 1)..(L + k)
  BY <1>6
<1>10. ASSUME NEW i \in 1..L PROVE Cut(i)' <=> Cut(i)
  <2>1. stream'[i] = stream[i] /\ i < Len(stream')
    BY <1>6, <1>7
  <2>2. CASE i < L
    <3>1. stream'[i + 1] = stream[i + 1]
      BY <1>7, <2>2
    <3>2. QED BY <1>5, <2>1, <2>2, <3>1 DEF Cut
  <2>3. CASE i = L
    <3>1. stream'[i + 1].off = d + 1
      <4>1. i + 1 \in (L + 1)..(L + k) /\ d + ((i + 1) - L) = d + 1
        BY <1>6, <2>3
      <4>2. stream'[i + 1] = [serial |-> serial, len |-> n, off |-> d + 1]
        BY <1>7, <4>1
      <4>3. QED BY <4>2
    <3>2. CASE d = 0
      <4>1. stream[i].serial < serial /\ stream[i].serial # serial
        <5>1. stream[i] \in Unit
          BY <1>2, <1>5
        <5>2. stream[i].serial < serial
          BY <1>1, <1>4, <1>5, <3>2 DEF SenderInv, Tip
        <5>3. stream[i].serial \in Nat
          BY <5>1 DEF Unit
        <5>4. QED BY <1>2, <5>2, <5>3
      <4>2. ~\E u \in Threads : call[u].at = "write" /\ call[u].serial = stream[i].serial
        BY <1>2, <1>8, <4>1
      <4>3. Cut(i) <=> stream[i].off # stream[i].len
        BY <1>5, <2>3, <4>2 DEF Cut
      <4>4. QED BY <2>1, <3>1, <3>2, <4>3 DEF Cut
    <3>3. CASE d # 0
      <4>1. stream[i].serial = serial
        <5>1. stream[i] = LastUnit(t)
          BY <1>1, <1>4, <1>5, <2>3, <3>3 DEF SenderInv, Tip
        <5>2. QED BY <1>2, <5>1 DEF LastUnit
      <4>2. ~Cut(i)
        BY <1>1, <1>2, <1>5, <2>3, <4>1 DEF Cut
      <4>3. d + 1 # 1
        BY <3>3
      <4>4. QED BY <2>1, <3>1, <4>2, <4>3 DEF Cut
    <3>4. QED BY <3>2, <3>3
  <2>4. QED BY <2>2, <2>3
<1>11. ASSUME NEW i \in (L + 1)..(L + k) PROVE ~Cut(i)'
  <2>1. stream'[i] = [serial |-> serial, len |-> n, off |-> d + (i - L)]
    BY <1>7
  <2>2. CASE i < L + k
    <3>1. i + 1 \in (L + 1)..(L + k) /\ d + ((i + 1) - L) # 1
      BY <1>6, <2>2
    <3>2. stream'[i + 1] = [serial |-> serial, len |-> n, off |-> d + ((i + 1) - L)]
      BY <1>7, <3>1
    <3>3. stream'[i + 1].off # 1
      BY <3>1, <3>2
    <3>4. QED BY <1>7, <2>2, <3>3 DEF Cut
  <2>3. CASE i = L + k
    BY <1>7, <1>8, <2>1, <2>3 DEF Cut
  <2>4. QED BY <2>2, <2>3
<1>12. Broken' <=> Broken
  <2>1. Broken => Broken'
    <3> SUFFICES ASSUME Broken PROVE Broken'
      OBVIOUS
    <3>1. PICK i \in 1..L : Cut(i)
      BY <1>5 DEF Broken
    <3>2. i \in 1..(L + k) /\ Cut(i)'
      BY <1>6, <1>10, <3>1
    <3>3. QED BY <1>7, <3>2 DEF Broken
  <2>2. Broken' => Broken
    <3> SUFFICES ASSUME Broken' PROVE Broken
      OBVIOUS
    <3>1. PICK i \in 1..(L + k) : Cut(i)'
      BY <1>7 DEF Broken
    <3>2. i \in 1..L /\ Cut(i)
      BY <1>9, <1>10, <1>11, <3>1
    <3>3. QED BY <1>5, <3>2 DEF Broken
  <2>3. QED BY <2>1, <2>2
<1>13. ASSUME NEW i \in 1..L PROVE Whole(i)' <=> Whole(i)
  <2>1. \A h \in 1..(i - 1) : h \in 1..L
    OBVIOUS
  <2>2. \A h \in 1..(i - 1) : Cut(h)' <=> Cut(h)
    BY <1>10, <2>1
  <2>3. QED BY <1>7, <2>2 DEF Whole
<1>14. ASSUME NEW i \in (L + 1)..(L + k)
       PROVE  /\ stream'[i].serial = serial
              /\ Whole(i)' <=> i = L + k /\ d + k = n /\ ~Broken
  <2>1. stream'[i] = [serial |-> serial, len |-> n, off |-> d + (i - L)]
    BY <1>7
  <2>2. (\A h \in 1..(i - 1) : ~Cut(h)') <=> ~Broken
    <3>1. \A h \in 1..L : h \in 1..(i - 1)
      OBVIOUS
    <3>2. \A h \in 1..(i - 1) : h \in 1..L \/ h \in (L + 1)..(L + k)
      OBVIOUS
    <3>3. Broken <=> \E h \in 1..L : Cut(h)
      BY <1>5 DEF Broken
    <3>4. QED BY <1>10, <1>11, <3>1, <3>2, <3>3
  <2>3. (d + (i - L) = n) <=> i = L + k /\ d + k = n
    BY <1>6
  <2>4. Whole(i)' <=> d + (i - L) = n /\ ~Broken
    BY <2>1, <2>2 DEF Whole
  <2>5. QED BY <2>1, <2>3, <2>4
<1>15. ASSUME NEW e
       PROVE  e \in SentWhole' <=> \/ e \in SentWhole
                                   \/ e = serial /\ d + k = n /\ ~Broken
  <2>1. ASSUME e \in SentWhole PROVE e \in SentWhole'
    <3>1. PICK i \in 1..L : Whole(i) /\ stream[i].serial = e
      BY <1>5, <2>1, SentIs
    <3>2. i \in 1..(L + k) /\ Whole(i)' /\ stream'[i].serial = e
      BY <1>6, <1>7, <1>13, <3>1
    <3>3. QED BY <1>7, <3>2, SentIs
  <2>2. ASSUME e = serial, d + k = n, ~Broken PROVE e \in SentWhole'
    <3>1. PICK j \in (L + 1)..(L + k) : j = L + k
      BY <1>6
    <3>2. j \in 1..(L + k) /\ Whole(j)' /\ stream'[j].serial = e
      BY <1>14, <2>2, <3>1
    <3>3. QED BY <1>7, <3>2, SentIs
  <2>3. ASSUME e \in SentWhole'
        PROVE  e \in SentWhole \/ (e = serial /\ d + k = n /\ ~Broken)
    <3>1. PICK i \in 1..(L + k) : Whole(i)' /\ stream'[i].serial = e
      BY <1>7, <2>3, SentIs
    <3>2. CASE i \in 1..L
      <4>1. Whole(i) /\ stream[i].serial = e
        BY <1>7, <1>13, <3>1, <3>2
      <4>2. QED BY <1>5, <3>2, <4>1, SentIs
    <3>3. CASE i \in (L + 1)..(L + k)
      BY <1>14, <3>1, <3>3
    <3>4. QED BY <1>9, <3>2, <3>3
  <2>4. QED BY <2>1, <2>2, <2>3
<1>16. Log!LogSend \/ UNCHANGED logVars
  <2>1. CASE d + k = n /\ ~Broken
    <3>1. \A e : e \in SentWhole' <=> e \in SentWhole \cup {serial}
      BY <1>15, <2>1
    <3>2. SentWhole' = SentWhole \cup {serial}
      BY <3>1
    <3>3. serial \notin SentWhole \cup sentErr
      BY <1>1, <1>3, <1>4, <1>6, OpenSerial
    <3>4. Broken' = Broken
      BY <1>12 DEF Broken
    <3>5. QED BY <1>1, <2>1, <3>2, <3>3, <3>4 DEF Log!LogSend
  <2>2. CASE ~(d + k = n /\ ~Broken)
    <3>1. \A e : e \in SentWhole' <=> e \in SentWhole
      BY <1>15, <2>2
    <3>2. SentWhole' = SentWhole
      BY <3>1
    <3>3. Broken' = Broken
      BY <1>12 DEF Broken
    <3>4. QED BY <1>1, <3>2, <3>3 DEF logVars
  <2>3. QED BY <2>1, <2>2
<1>17. Reached'
  <2> SUFFICES ASSUME NEW i \in 1..(L + k), stream'[i].serial = serial
               PROVE  stream'[i].off <= d + k /\ stream'[i].len = n
    BY <1>1, <1>7, <1>8 DEF Reached
  <2>1. CASE i \in 1..L
    <3>1. stream[i].off <= d /\ stream[i].len = n
      BY <1>1, <1>3, <1>4, <1>5, <1>7, <2>1 DEF LogInv, Reached
    <3>2. stream[i] \in Unit
      BY <1>2, <1>5, <2>1
    <3>3. stream[i].off \in Nat
      BY <3>2 DEF Unit
    <3>4. stream[i].off <= d + k
      BY <1>6, <3>1, <3>3
    <3>5. QED BY <1>7, <2>1, <3>1, <3>4
  <2>2. CASE i \in (L + 1)..(L + k)
    <3>1. stream'[i] = [serial |-> serial, len |-> n, off |-> d + (i - L)]
      BY <1>7, <2>2
    <3>2. d + (i - L) <= d + k
      BY <2>2
    <3>3. QED BY <3>1, <3>2
  <2>3. QED BY <1>9, <2>1, <2>2
<1>18. Failures'
  BY <1>1, <1>8 DEF LogInv, Failures
<1>19. Settled'
  BY <1>1, <1>2 DEF Settled
<1>20. QED BY <1>16, <1>17, <1>18, <1>19 DEF LogInv

(* OUT: the frame is on the log, or its error is, or one was cut before.      *)
LEMMA ReturnLogs ==
  ASSUME SenderInv, LogInv, NEW t \in Threads, Return(t) \/ ReturnError(t)
  PROVE  LogInv' /\ UNCHANGED logVars
<1>1. /\ Holds(t) /\ lock' = NULL /\ call' = [call EXCEPT ![t] = NoCall]
      /\ serial' = serial /\ stream' = stream /\ sentErr' = sentErr
      /\ call[t].at = "write" => call[t].done = call[t].len
  BY DEF Return, ReturnError, Holds
<1>2. /\ call \in [Threads -> Call] /\ call[t] \in Call /\ stream \in Seq(Unit)
      /\ call[t].serial = serial /\ call[t].len \in Lengths /\ call[t].len # 0
      /\ lock = t
  <2>1. call[t].at # "idle" /\ lock = t
    BY <1>1 DEF SenderInv, Mutex, Holds
  <2>2. call[t].len \in Lengths /\ call[t].serial = serial
    BY <1>1, <2>1 DEF SenderInv, Current
  <2>3. QED BY <2>1, <2>2, LengthsAssumption DEF SenderInv, SenderTypeOK
<1>3. call'[t] = NoCall /\ \A u \in Threads \ {t} : call'[u] = call[u]
  BY <1>1, <1>2
<1>4. /\ \A u \in Threads : call'[u].at \notin {"write", "failed"}
      /\ \A u \in Threads \ {t} : call[u].at \notin {"write", "failed"}
  BY <1>2, <1>3, NoCallTypes DEF SenderInv, Mutex, Holds
<1>5. PICK L \in Nat : L = Len(stream)
  BY <1>2
<1>6. call[t].at = "write" =>
        L \in 1..Len(stream) /\ stream[L].serial = serial /\ stream[L].off = stream[L].len
  <2> SUFFICES ASSUME call[t].at = "write"
               PROVE  L \in 1..Len(stream) /\ stream[L].serial = serial
                      /\ stream[L].off = stream[L].len
    OBVIOUS
  <2>1. Len(stream) > 0 /\ stream[Len(stream)] = LastUnit(t)
    BY <1>1, <1>2 DEF SenderInv, Tip
  <2>2. QED BY <1>1, <1>2, <1>5, <2>1 DEF LastUnit
<1>7. SentWhole' = SentWhole /\ Broken' = Broken
  <2>1. ASSUME NEW M \in 1..Len(stream), M = Len(stream), stream[M].off # stream[M].len
        PROVE  (\E u \in Threads : call'[u].at = "write" /\ call'[u].serial = stream[M].serial)
                 <=> (\E u \in Threads : call[u].at = "write" /\ call[u].serial = stream[M].serial)
    BY <1>4, <1>5, <1>6, <2>1
  <2>2. QED BY <1>1, <1>2, <2>1, SameLog
<1>8. serial \in SentWhole \cup sentErr \/ Broken
  <2>1. CASE call[t].at = "failed"
    BY <2>1 DEF LogInv, Failures
  <2>2. CASE call[t].at = "write"
    <3> SUFFICES ASSUME ~Broken PROVE serial \in SentWhole
      OBVIOUS
    <3>1. \A h \in 1..(L - 1) : h \in 1..Len(stream)
      BY <1>5
    <3>2. Whole(L)
      BY <1>6, <2>2, <3>1 DEF Whole, Broken
    <3>3. QED BY <1>6, <2>2, <3>2, SentIs
  <2>3. QED BY <1>1, <2>1, <2>2 DEF Holds
<1>9. Settled'
  BY <1>1, <1>7, <1>8 DEF Settled
<1>10. Reached' /\ Failures'
  BY <1>1, <1>4 DEF LogInv, Reached, Failures
<1>11. QED BY <1>1, <1>7, <1>9, <1>10 DEF LogInv, logVars

(* The peer is not seen.                                                    *)
LEMMA PeerLogs ==
  ASSUME SenderInv, LogInv,
         (\E n \in 1..Window : PeerReads(n)) \/ PeerCloses \/ UNCHANGED senderVars
  PROVE  LogInv' /\ UNCHANGED logVars
<1>1. /\ lock' = lock /\ serial' = serial /\ call' = call /\ stream' = stream
      /\ sentErr' = sentErr /\ stream \in Seq(Unit)
  BY DEF PeerReads, PeerCloses, senderVars, SenderInv, SenderTypeOK
<1>2. SentWhole' = SentWhole /\ Broken' = Broken
  BY <1>1, SameLog
<1>3. Reached' /\ Failures'
  BY <1>1 DEF LogInv, Reached, Failures
<1>4. Settled'
  BY <1>1, <1>2 DEF LogInv, Settled
<1>5. QED BY <1>1, <1>2, <1>3, <1>4 DEF LogInv, logVars

(* Every step is one of the log, or none.                                    *)
LEMMA StepLogs ==
  SenderInv /\ LogInv /\ [SenderNext]_senderVars => LogInv' /\ [Log!LogNext]_logVars
<1> SUFFICES ASSUME SenderInv, LogInv, [SenderNext]_senderVars
             PROVE  LogInv' /\ [Log!LogNext]_logVars
  OBVIOUS
<1>1. CASE \E t \in Threads, n \in Lengths : Enter(t, n)
  BY <1>1, EnterLogs
<1>2. CASE \E t \in Threads : Lock(t)
  BY <1>2, LockLogs DEF Log!LogNext
<1>3. CASE \E t \in Threads, k \in 1..Window : Write(t, k)
  BY <1>3, WriteLogs DEF Log!LogNext
<1>4. CASE \E t \in Threads : WriteFails(t)
  BY <1>4, WriteFailsLogs DEF Log!LogNext
<1>5. CASE \E t \in Threads : Return(t) \/ ReturnError(t)
  BY <1>5, ReturnLogs
<1>6. CASE (\E n \in 1..Window : PeerReads(n)) \/ PeerCloses \/ UNCHANGED senderVars
  BY <1>6, PeerLogs
<1>7. QED BY <1>1, <1>2, <1>3, <1>4, <1>5, <1>6 DEF SenderNext, Step

(* An empty stream is an empty log.                                         *)
LEMMA InitLogs == SenderInit => LogInv /\ Log!LogInit
<1> SUFFICES ASSUME SenderInit PROVE LogInv /\ Log!LogInit
  OBVIOUS
<1>1. Len(stream) = 0 /\ serial = 0 /\ sentErr = {}
  BY DEF SenderInit
<1>2. \A t \in Threads : call[t].at = "idle"
  BY NoCallTypes DEF SenderInit
<1>3. \A e : e \notin SentWhole
  BY <1>1, SentIs
<1>4. SentWhole = {} /\ Broken = FALSE
  BY <1>1, <1>3 DEF Broken
<1>5. LogInv
  BY <1>1, <1>2 DEF LogInv, Reached, Failures, Settled
<1>6. QED BY <1>1, <1>4, <1>5 DEF Log!LogInit

(* send_command implements the log of commands: for any number of threads,    *)
(* any short writes and failures, commands are on the wire whole, one at a     *)
(* time and in the order of their serials, each is settled before the next     *)
(* takes its serial, and only a cut frame undoes that.                       *)
THEOREM SenderImplementsLog == SenderSpec => ImplementsLog
<1>1. SenderSpec => [](SenderInv /\ LogInv) /\ [][Log!LogNext]_logVars
  BY SenderInitOK, InitLogs, SenderStepOK, StepLogs, PTL DEF SenderSpec
<1>2. SenderSpec => Log!LogInit
  BY InitLogs DEF SenderSpec
<1>3. QED BY <1>1, <1>2, PTL DEF ImplementsLog, Log!LogSpec, logVars
=============================================================================
