------------------------------- MODULE Sender -------------------------------
(* send_command of libyrmcds (send.c): any number of threads send on one    *)
(* connection.  The mutex c->lock covers the serial and the writev loop;    *)
(* writev may write a part of a frame, or fail in the middle of one.        *)
(*                                                                         *)
(* A frame of length n is n units: the unit of offset 1 is its header,      *)
(* which says how long the frame is.                                        *)
EXTENDS Naturals, Sequences

CONSTANTS
  Threads,       \* callers of the command functions
  NULL,          \* no thread
  Lengths,       \* lengths of the frames they send
  Window,        \* units the socket buffers hold before writev blocks
  HasTimeout,    \* SO_SNDTIMEO is set
  MaxSerial      \* bound on the serials handed out

ASSUME ThreadsAssumption == NULL \notin Threads
ASSUME LengthsAssumption == Lengths \subseteq Nat \ {0}
ASSUME SenderBounds == Window \in Nat \ {0} /\ MaxSerial \in Nat
ASSUME TimeoutAssumption == HasTimeout \in BOOLEAN

VARIABLES
  lock,      \* the thread that holds c->lock
  serial,    \* c->serial
  call,      \* what each thread is doing
  stream,    \* everything writev has put on the socket, oldest first
  taken,     \* how much of it the peer has read
  gone,      \* the peer has closed the connection
  sentOk,    \* history: the frames whose send returned YRMCDS_OK
  sentErr    \* history: the serials of those that failed

senderVars == <<lock, serial, call, stream, taken, gone, sentOk, sentErr>>

-----------------------------------------------------------------------------
(* at: where the call is.  serial: its frame's, which is what the caller    *)
(* reads in *serial.  done: units of the frame written so far.              *)
Call == [at : {"idle", "lock", "write", "failed"},
         serial : Nat, len : Lengths \cup {0}, done : Nat]

NoCall == [at |-> "idle", serial |-> 0, len |-> 0, done |-> 0]

Frame == [serial : Nat, len : Lengths]
Unit  == [serial : Nat, len : Lengths, off : Nat \ {0}]

SenderTypeOK ==
  /\ lock \in Threads \cup {NULL}
  /\ serial \in Nat
  /\ call \in [Threads -> Call]
  /\ \A t \in Threads : call[t].done <= call[t].len
  /\ stream \in Seq(Unit)
  /\ taken \in 0..Len(stream)
  /\ gone \in BOOLEAN
  /\ sentOk \in SUBSET Frame
  /\ sentErr \in SUBSET Nat

SenderInit ==
  /\ lock = NULL
  /\ serial = 0
  /\ call = [t \in Threads |-> NoCall]
  /\ stream = <<>>
  /\ taken = 0
  /\ gone = FALSE
  /\ sentOk = {}
  /\ sentErr = {}

-----------------------------------------------------------------------------
(* A thread calls a command function with valid arguments: the header is    *)
(* ready, and the mutex comes next.                                         *)
Enter(t, n) ==
  /\ call[t].at = "idle" /\ serial < MaxSerial
  /\ call' = [call EXCEPT ![t] = [NoCall EXCEPT !.at = "lock", !.len = n]]
  /\ UNCHANGED <<lock, serial, stream, taken, gone, sentOk, sentErr>>

(* Mutant: the mutex does not exclude.                                      *)
LockShared(t) ==
  /\ call[t].at = "lock"
  /\ lock' = t
  /\ serial' = serial + 1
  /\ call' = [call EXCEPT ![t].at = "write", ![t].serial = serial + 1]
  /\ UNCHANGED <<stream, taken, gone, sentOk, sentErr>>

(* pthread_mutex_lock, then the next serial, stored for the caller before   *)
(* anything is written.                                                     *)
Lock(t) ==
  /\ call[t].at = "lock" /\ lock = NULL
  /\ lock' = t
  /\ serial' = serial + 1
  /\ call' = [call EXCEPT ![t].at = "write", ![t].serial = serial + 1]
  /\ UNCHANGED <<stream, taken, gone, sentOk, sentErr>>

Room == Window - (Len(stream) - taken)

(* Mutant: the iovecs are not advanced, so a second writev starts over.     *)
ChunkFromStart(t, k) ==
  [i \in 1..k |-> [serial |-> call[t].serial, len |-> call[t].len, off |-> i]]

(* The next k units of t's frame.                                           *)
Chunk(t, k) ==
  [i \in 1..k |-> [serial |-> call[t].serial, len |-> call[t].len,
                   off |-> call[t].done + i]]

(* Mutant: more is written than the iovecs hold.                            *)
WritePast(t, k) ==
  /\ call[t].at = "write" /\ k <= Room
  /\ stream' = stream \o Chunk(t, k)
  /\ call' = [call EXCEPT ![t].done = @ + k]
  /\ UNCHANGED <<lock, serial, taken, gone, sentOk, sentErr>>

(* writev writes k units and the iovecs advance by as much.                 *)
Write(t, k) ==
  /\ call[t].at = "write" /\ k <= Room /\ k <= call[t].len - call[t].done
  /\ stream' = stream \o Chunk(t, k)
  /\ call' = [call EXCEPT ![t].done = @ + k]
  /\ UNCHANGED <<lock, serial, taken, gone, sentOk, sentErr>>

(* writev fails: the connection is gone, or the send timeout expires.  EINTR *)
(* is retried and shows as nothing.                                         *)
WriteFails(t) ==
  /\ call[t].at = "write" /\ call[t].done < call[t].len
  /\ gone \/ (HasTimeout /\ Room = 0)
  /\ call' = [call EXCEPT ![t].at = "failed"]
  /\ sentErr' = sentErr \cup {call[t].serial}
  /\ UNCHANGED <<lock, serial, stream, taken, gone, sentOk>>

(* Mutant: success is returned after the first writev.                      *)
ReturnAfterOneWrite(t) ==
  /\ call[t].at = "write" /\ call[t].done > 0
  /\ lock' = NULL
  /\ call' = [call EXCEPT ![t] = NoCall]
  /\ sentOk' = sentOk \cup {[serial |-> call[t].serial, len |-> call[t].len]}
  /\ UNCHANGED <<serial, stream, taken, gone, sentErr>>

(* OUT with the whole frame written: unlock and return YRMCDS_OK.           *)
Return(t) ==
  /\ call[t].at = "write" /\ call[t].done = call[t].len
  /\ lock' = NULL
  /\ call' = [call EXCEPT ![t] = NoCall]
  /\ sentOk' = sentOk \cup {[serial |-> call[t].serial, len |-> call[t].len]}
  /\ UNCHANGED <<serial, stream, taken, gone, sentErr>>

(* Mutant: the error path returns without unlocking.                        *)
ReturnLocked(t) ==
  /\ call[t].at = "failed"
  /\ call' = [call EXCEPT ![t] = NoCall]
  /\ UNCHANGED <<lock, serial, stream, taken, gone, sentOk, sentErr>>

(* OUT after a failure: unlock and return YRMCDS_SYSTEM_ERROR.  Nothing     *)
(* remembers a frame that was cut.                                          *)
ReturnError(t) ==
  /\ call[t].at = "failed"
  /\ lock' = NULL
  /\ call' = [call EXCEPT ![t] = NoCall]
  /\ UNCHANGED <<serial, stream, taken, gone, sentOk, sentErr>>

-----------------------------------------------------------------------------
(* The peer (external).                                                     *)
PeerReads(n) ==
  /\ ~gone /\ taken + n <= Len(stream)
  /\ taken' = taken + n
  /\ UNCHANGED <<lock, serial, call, stream, gone, sentOk, sentErr>>

PeerCloses ==
  /\ ~gone
  /\ gone' = TRUE
  /\ UNCHANGED <<lock, serial, call, stream, taken, sentOk, sentErr>>

-----------------------------------------------------------------------------
Step(t) == \/ Lock(t)
           \/ \E k \in 1..Window : Write(t, k)
           \/ WriteFails(t)
           \/ Return(t)
           \/ ReturnError(t)

SenderNext ==
  \/ \E t \in Threads : Step(t) \/ \E n \in Lengths : Enter(t, n)
  \/ \E n \in 1..Window : PeerReads(n)
  \/ PeerCloses

SenderSpec == SenderInit /\ [][SenderNext]_senderVars

(* A thread that can go on does.  The peer may stop reading for ever.       *)
SenderFairness == \A t \in Threads : WF_senderVars(Step(t))

SenderFairSpec == SenderSpec /\ SenderFairness

-----------------------------------------------------------------------------
(* Properties.                                                             *)

(* Two frames never mix, whatever the threads do and however short the      *)
(* writes are: a unit is a header, or follows the unit before it in its own *)
(* frame; and the serials on the wire only grow.                            *)
Contiguous ==
  \A i \in 1..Len(stream) :
    IF stream[i].off = 1
    THEN i = 1 \/ stream[i - 1].serial < stream[i].serial
    ELSE i # 1 /\ stream[i] = [stream[i - 1] EXCEPT !.off = @ + 1]

(* A send that returned YRMCDS_OK has put its whole frame on the socket.    *)
OkIsWhole ==
  \A f \in sentOk :
    \E i \in 1..Len(stream) :
      stream[i] = [serial |-> f.serial, len |-> f.len, off |-> f.len]

(* The frame that unit i belongs to stops there, and will not go on.        *)
Cut(i) ==
  /\ stream[i].off # stream[i].len
  /\ IF i < Len(stream)
     THEN stream[i + 1].off = 1
     ELSE \A t \in Threads :
            ~(call[t].at = "write" /\ call[t].serial = stream[i].serial)

(* A frame that is complete, before the first cut.                           *)
Whole(i) == stream[i].off = stream[i].len /\ \A h \in 1..(i - 1) : ~Cut(h)

SentWhole == {stream[i].serial : i \in {j \in 1..Len(stream) : Whole(j)}}

Broken == \E i \in 1..Len(stream) : Cut(i)

(* What the threads have been promised: Sender implements CommandLog, with  *)
(* the frames complete before the first cut as the commands sent.           *)
Log == INSTANCE CommandLog WITH
         last <- serial, sent <- SentWhole, failed <- sentErr, broken <- Broken

ImplementsLog == Log!LogSpec

(* With a send timeout the mutex is never kept for ever, even when the peer *)
(* stops reading: no thread waits for another without end.                  *)
LockComesBack == \A t \in Threads : lock = t ~> lock # t
=============================================================================
