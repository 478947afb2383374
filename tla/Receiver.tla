------------------------------ MODULE Receiver ------------------------------
(* yrmcds_recv and recv_data of libyrmcds (recv.c): one thread turns the    *)
(* bytes that arrive on a connection into responses, through a buffer that  *)
(* grows, with calls that may fail half way and be repeated.                *)
(*                                                                         *)
(* A response of size n is n units; `kind` says what the code will make of  *)
(* it: "good"; "packed", good but needs memory to decompress; "magic",      *)
(* rejected at the header; "body", rejected when it is complete (lengths,   *)
(* extras, counter value or compressed data that make no sense).            *)
EXTENDS Naturals, Sequences

CONSTANTS
  Header,          \* BINARY_HEADER_SIZE
  RecvSize,        \* RECV_SIZE, the most one recv(2) reads
  MaxBody,         \* MAX_CAPACITY
  InitialCapacity, \* of recvbuf, from yrmcds_connect
  Bodies,          \* lengths of the bodies a server sends
  MaxResponses     \* bound on the responses it sends

ASSUME HeaderAssumption == Header \in Nat \ {0} /\ MaxBody \in Nat
ASSUME CapacityAssumption ==
  RecvSize \in Nat \ {0} /\ InitialCapacity \in Nat /\ RecvSize <= InitialCapacity
ASSUME BodiesAssumption == Bodies \subseteq Nat /\ MaxResponses \in Nat

VARIABLES
  line,       \* everything the server has sent, oldest first
  down,       \* the receiving side has ended: close by the server, or shutdown
  got,        \* how much of it recv(2) has returned
  base,       \* history: where in line the buffer starts
  used,       \* c->used
  lastSize,   \* c->last_size
  capacity,   \* c->capacity
  invalid,    \* c->invalid
  receiving,  \* a call of yrmcds_recv is under way
  delivered   \* history: numbers of the responses returned, in order

receiverVars ==
  <<line, down, got, base, used, lastSize, capacity, invalid, receiving, delivered>>

Kinds == {"good", "packed", "magic", "body"}
Byte  == [n : Nat, off : Nat \ {0}, size : Nat, kind : Kinds]

ReceiverTypeOK ==
  /\ line \in Seq(Byte)
  /\ down \in BOOLEAN
  /\ got \in 0..Len(line) /\ base \in 0..got
  /\ used = got - base
  /\ lastSize \in 0..used
  /\ capacity \in Nat
  /\ invalid \in BOOLEAN
  /\ receiving \in BOOLEAN
  /\ delivered \in Seq(Nat)

ReceiverInit ==
  /\ line = <<>> /\ down = FALSE
  /\ got = 0 /\ base = 0
  /\ used = 0 /\ lastSize = 0 /\ capacity = InitialCapacity
  /\ invalid = FALSE
  /\ receiving = FALSE
  /\ delivered = <<>>

-----------------------------------------------------------------------------
(* The response at the start of the buffer, known once its header is in.    *)
First == line[base + 1]

HeaderWrong == First.kind = "magic" \/ First.size > Header + MaxBody

(* Mutant: a body is waited for even if its length is refused.              *)
NeedsAnyBody == used >= Header => First.kind # "magic" /\ used < First.size

(* The two loops around recv_data: header first, then the body it announces. *)
NeedsData == used >= Header => ~HeaderWrong /\ used < First.size

(* Mutant: the last response is not forgotten, so a call that fails makes   *)
(* the next one drop it again.                                              *)
BeginForgetful ==
  /\ ~receiving /\ ~invalid
  /\ base' = base + lastSize
  /\ used' = used - lastSize
  /\ receiving' = TRUE
  /\ UNCHANGED <<line, down, got, lastSize, capacity, invalid, delivered>>

(* Mutant: what arrived behind the last response is dropped with it.        *)
BeginDropsRest ==
  /\ ~receiving /\ ~invalid
  /\ base' = IF lastSize > 0 THEN got ELSE base
  /\ used' = IF lastSize > 0 THEN 0 ELSE used
  /\ lastSize' = 0
  /\ receiving' = TRUE
  /\ UNCHANGED <<line, down, got, capacity, invalid, delivered>>

(* A call drops the response returned last and moves the rest to the front. *)
(* Once the connection is invalid, it fails at once and changes nothing.    *)
Begin ==
  /\ ~receiving /\ ~invalid
  /\ base' = base + lastSize
  /\ used' = used - lastSize
  /\ lastSize' = 0
  /\ receiving' = TRUE
  /\ UNCHANGED <<line, down, got, capacity, invalid, delivered>>

(* Mutant: the buffer grows only when it is full.                           *)
GrownWhenFull == IF used = capacity THEN 2 * capacity ELSE capacity

(* recv_data doubles the buffer when less than RECV_SIZE is free.           *)
Grown == IF used + RecvSize > capacity THEN 2 * capacity ELSE capacity

(* recv(2) returns k bytes.                                                 *)
RecvData(k) ==
  /\ receiving /\ NeedsData
  /\ k <= RecvSize /\ got + k <= Len(line)
  /\ capacity' = Grown
  /\ used' = used + k
  /\ got' = got + k
  /\ UNCHANGED <<line, down, base, lastSize, invalid, receiving, delivered>>

(* recv_data fails: no memory to grow, the receive timeout or another error *)
(* of recv(2), or the end of the stream.  What has arrived stays.           *)
RecvDataFails ==
  /\ receiving /\ NeedsData
  /\ capacity' \in {capacity, Grown}
  /\ receiving' = FALSE
  /\ UNCHANGED <<line, down, got, base, used, lastSize, invalid, delivered>>

(* Mutant: the size of the body alone is remembered.                        *)
AcceptBodyOnly ==
  /\ receiving /\ ~NeedsData /\ ~HeaderWrong
  /\ First.kind \in {"good", "packed"}
  /\ lastSize' = First.size - Header
  /\ delivered' = Append(delivered, First.n)
  /\ receiving' = FALSE
  /\ UNCHANGED <<line, down, got, base, used, capacity, invalid>>

(* The response is returned; it stays in the buffer until the next call.    *)
Accept ==
  /\ receiving /\ ~NeedsData /\ ~HeaderWrong
  /\ First.kind \in {"good", "packed"}
  /\ lastSize' = First.size
  /\ delivered' = Append(delivered, First.n)
  /\ receiving' = FALSE
  /\ UNCHANGED <<line, down, got, base, used, capacity, invalid>>

(* No memory to decompress: an error, and the response is not consumed.     *)
AcceptFails ==
  /\ receiving /\ ~NeedsData /\ ~HeaderWrong
  /\ First.kind = "packed"
  /\ receiving' = FALSE
  /\ UNCHANGED <<line, down, got, base, used, lastSize, capacity, invalid, delivered>>

(* Mutant: the error is returned and not remembered.                        *)
RejectOnce ==
  /\ receiving /\ ~NeedsData
  /\ HeaderWrong \/ First.kind = "body"
  /\ lastSize' = used
  /\ receiving' = FALSE
  /\ UNCHANGED <<line, down, got, base, used, capacity, invalid, delivered>>

(* A protocol error is for ever.                                            *)
Reject ==
  /\ receiving /\ ~NeedsData
  /\ HeaderWrong \/ First.kind = "body"
  /\ invalid' = TRUE
  /\ receiving' = FALSE
  /\ UNCHANGED <<line, down, got, base, used, lastSize, capacity, delivered>>

-----------------------------------------------------------------------------
(* The server and the network (external).                                   *)

(* The bytes of response number n.                                          *)
Bytes(n, body, kind) ==
  [i \in 1..(Header + body) |-> [n |-> n, off |-> i, size |-> Header + body,
                                 kind |-> kind]]

ServerSends(n, body, kind) ==
  /\ ~down
  /\ line' = line \o Bytes(n, body, kind)
  /\ UNCHANGED <<down, got, base, used, lastSize, capacity, invalid, receiving,
                 delivered>>

(* The stream ends, perhaps in the middle of a response.                    *)
StreamEnds(k) ==
  /\ ~down /\ got <= k
  /\ down' = TRUE
  /\ line' = SubSeq(line, 1, k)
  /\ UNCHANGED <<got, base, used, lastSize, capacity, invalid, receiving, delivered>>

-----------------------------------------------------------------------------
Numbered == IF line = <<>> THEN 0 ELSE line[Len(line)].n

ReceiverStep == \/ Begin
                \/ \E k \in 1..RecvSize : RecvData(k)
                \/ RecvDataFails
                \/ Accept \/ AcceptFails \/ Reject

ReceiverNext ==
  \/ ReceiverStep
  \/ /\ Numbered < MaxResponses
     /\ \E body \in Bodies, kind \in Kinds : ServerSends(Numbered + 1, body, kind)
  \/ \E k \in 0..Len(line) : StreamEnds(k)

ReceiverSpec == ReceiverInit /\ [][ReceiverNext]_receiverVars

-----------------------------------------------------------------------------
(* Properties.                                                             *)

(* What the code reads as a header is one: however the bytes were cut into  *)
(* reads, and whichever calls failed in between, a call looks at the first  *)
(* byte of a response.                                                      *)
AtBoundary ==
  receiving /\ used > 0 => First.off = 1

(* Every response is returned once, in the order of arrival, none is left   *)
(* out, and nothing after one that was rejected: the responses returned are *)
(* those the buffer has moved past, and the last.                           *)
ExactlyOnce ==
  /\ \A i, j \in 1..Len(delivered) : i < j => delivered[i] < delivered[j]
  /\ {delivered[i] : i \in 1..Len(delivered)} =
       {line[i].n : i \in 1..(base + lastSize)}
  /\ \A i \in 1..(base + lastSize) : line[i].kind \notin {"magic", "body"}

(* recv(2) is given RECV_SIZE bytes of room, and the buffer does not grow   *)
(* without end whatever the server announces.                               *)
BufferSafe ==
  /\ used <= capacity
  /\ capacity <= InitialCapacity \/ capacity <= 2 * (Header + MaxBody + RecvSize)

ReadFits == [][got' # got => used + RecvSize <= capacity']_receiverVars
=============================================================================
