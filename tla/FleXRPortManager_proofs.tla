----------------------- MODULE FleXRPortManager_proofs -----------------------
(***************************************************************************)
(* Theorems about FleXRPortManager, for every number of ports, every mix   *)
(* of connections and semantics, and every capacity.                       *)
(***************************************************************************)
EXTENDS FleXRPortManager, TLAPS, SequenceTheorems

(* Where the sender is says what kind of port it is busy with, and that    *)
(* the room it has made sure of is still there: only this kernel appends   *)
(* to its connections.                                                     *)
SenderOK ==
  /\ pc \in {"check", "copy"} => Raft(at) /\ at # Original
  /\ pc = "publish" => Raft(at)
  /\ pc \in {"serialize", "transmit"} => ~Raft(at)
  /\ pc \notin {"place", "fill"} => seq > 0
  /\ pc = "fill" => seq < MaxSeq
  /\ pc # "place" /\ Raft(Original) => ~Full(Original)
  /\ pc = "copy" /\ OutSem[at] = "NONBLOCKING" => ~Full(at)
  /\ pc = "publish" => ~Full(at)

(* A receiver that has seen a frame in its RaftLib stream still has it.    *)
ReceiverOK ==
  \A p \in Ports :
    /\ rpc[p] = "peek" => Raft(p)
    /\ Raft(p) /\ rpc[p] # "get" => queue[p] # << >>
    /\ Raft(p) /\ rpc[p] \in {"use", "free"} => held[p] = Head(queue[p])

IInv == TypeOK /\ SenderOK /\ ReceiverOK
-----------------------------------------------------------------------------
(* Removing one element from a sequence of numbers.                        *)
LEMMA RemoveAtType ==
  ASSUME NEW S, NEW s \in Seq(S), NEW i \in 1..Len(s)
  PROVE  RemoveAt(s, i) \in Seq(S) /\ Len(RemoveAt(s, i)) = Len(s) - 1
<1>. DEFINE front == SubSeq(s, 1, i - 1)
            back  == SubSeq(s, i + 1, Len(s))
<1>1. front \in Seq(S) /\ Len(front) = i - 1
  BY SubSeqProperties
<1>2. back \in Seq(S) /\ Len(back) = Len(s) - i
  BY SubSeqProperties
<1>3. RemoveAt(s, i) = front \o back
  BY DEF RemoveAt
<1>. HIDE DEF front, back
<1>4. front \o back \in Seq(S) /\ Len(front \o back) = Len(front) + Len(back)
  BY <1>1, <1>2, ConcatProperties
<1>. QED  BY <1>1, <1>2, <1>3, <1>4, LenProperties

(* What the constants and the phase of the sender say about the indices.   *)
LEMMA OriginalIsPort == Original \in Ports /\ 1 \in Ports
BY PortsAssumption DEF Original, Ports

LEMMA CellsOK ==
  ASSUME NEW s \in 0..MaxSeq, NEW p \in Ports
  PROVE  /\ OutMsg(s, p) \in Cells
         /\ OutData(s, p) \in Cells
         /\ SendBuf(s, p) \in Cells
         /\ InMsg(s, p) \in Cells
         /\ InData(s, p) \in Cells
BY DEF OutMsg, OutData, SendBuf, InMsg, InData, Cells

LEMMA CurOK ==
  ASSUME IInv
  PROVE  Cur \in 0..MaxSeq
BY SizesAssumption DEF IInv, TypeOK, SenderOK, Cur

LEMMA InitIInv == Init => IInv
BY PortsAssumption, SizesAssumption
   DEF Init, IInv, TypeOK, SenderOK, ReceiverOK, Ports, Original, Full

(* The phase in which sendOutput starts with a port fits the port.         *)
LEMMA StartOfOK ==
  ASSUME NEW p \in Ports
  PROVE  /\ StartOf(p) \in {"serialize", "publish", "check"}
         /\ StartOf(p) = "check" => Raft(p) /\ p # Original
         /\ StartOf(p) = "publish" => Raft(p) /\ p = Original
         /\ StartOf(p) = "serialize" => ~Raft(p)
BY DEF StartOf

(* Going on to the next port, or back to run() after the original port.    *)
LEMMA AdvanceOK ==
  ASSUME at \in Ports, Advance
  PROVE  /\ at' \in Ports
         /\ \/ pc' = "place" /\ at' = 1 /\ at = Original
            \/ pc' = StartOf(at') /\ at' = at + 1 /\ at # Original
BY PortsAssumption, OriginalIsPort DEF Advance, Ports, Original

LEMMA PlaceIInv == IInv /\ GetOutputPlaceholder => IInv'
<1>. SUFFICES ASSUME IInv, GetOutputPlaceholder PROVE IInv'
  OBVIOUS
<1>. USE PortsAssumption, SizesAssumption, OriginalIsPort
<1>1. heap' \subseteq Cells
  BY CurOK, CellsOK DEF IInv, TypeOK, GetOutputPlaceholder
<1>2. TypeOK'
  BY <1>1 DEF IInv, TypeOK, GetOutputPlaceholder
<1>3. SenderOK'
  BY DEF IInv, TypeOK, SenderOK, GetOutputPlaceholder, Full
<1>4. ReceiverOK'
  BY DEF IInv, ReceiverOK, GetOutputPlaceholder
<1>. QED  BY <1>2, <1>3, <1>4 DEF IInv

LEMMA FillIInv == IInv /\ Fill => IInv'
<1>. SUFFICES ASSUME IInv, Fill PROVE IInv'
  OBVIOUS
<1>. USE PortsAssumption, SizesAssumption, OriginalIsPort
<1>1. heap' \subseteq Cells
  BY CurOK, CellsOK DEF IInv, TypeOK, Fill
<1>2. seq' \in 0..MaxSeq /\ seq' > 0
  BY DEF IInv, TypeOK, SenderOK, Fill
<1>3. TypeOK'
  BY <1>1, <1>2, StartOfOK DEF IInv, TypeOK, Fill
<1>4. SenderOK'
  BY <1>2, StartOfOK DEF IInv, TypeOK, SenderOK, Fill, Full
<1>5. ReceiverOK'
  BY DEF IInv, ReceiverOK, Fill
<1>. QED  BY <1>3, <1>4, <1>5 DEF IInv

LEMMA CheckIInv == IInv /\ CheckDuplicate => IInv'
<1>. SUFFICES ASSUME IInv, CheckDuplicate PROVE IInv'
  OBVIOUS
<1>. USE PortsAssumption, SizesAssumption, OriginalIsPort
<1>1. TypeOK'
  BY StartOfOK, AdvanceOK DEF IInv, TypeOK, CheckDuplicate
<1>2. SenderOK'
  BY StartOfOK, AdvanceOK DEF IInv, TypeOK, SenderOK, CheckDuplicate, Full
<1>3. ReceiverOK'
  BY DEF IInv, ReceiverOK, CheckDuplicate
<1>. QED  BY <1>1, <1>2, <1>3 DEF IInv

LEMMA CopyIInv == IInv /\ CopyToDuplicate => IInv'
<1>. SUFFICES ASSUME IInv, CopyToDuplicate PROVE IInv'
  OBVIOUS
<1>. USE PortsAssumption, SizesAssumption, OriginalIsPort
<1>1. heap' \subseteq Cells
  BY CurOK, CellsOK DEF IInv, TypeOK, CopyToDuplicate
<1>2. TypeOK'
  BY <1>1 DEF IInv, TypeOK, CopyToDuplicate
<1>3. SenderOK'
  BY DEF IInv, TypeOK, SenderOK, CopyToDuplicate, Full
<1>4. ReceiverOK'
  BY DEF IInv, ReceiverOK, CopyToDuplicate
<1>. QED  BY <1>2, <1>3, <1>4 DEF IInv

(* Appending the frame that is being sent to a connection with room.       *)
LEMMA AppendOK ==
  ASSUME IInv, pc \notin {"place", "fill"}, ~Full(at),
         queue' = [queue EXCEPT ![at] = Append(@, Cur)],
         UNCHANGED <<rpc, held>>
  PROVE  /\ queue' \in [Ports -> Seq(0..(MaxSeq - 1))]
         /\ \A p \in Ports : Len(queue'[p]) <= Cap[p]
         /\ \A p \in Ports \ {at} : queue'[p] = queue[p]
         /\ ReceiverOK'
<1>. USE PortsAssumption, SizesAssumption
<1>1. Cur \in 0..(MaxSeq - 1)
  BY DEF IInv, TypeOK, SenderOK, Cur
<1>2. Append(queue[at], Cur) \in Seq(0..(MaxSeq - 1))
  BY <1>1, AppendProperties DEF IInv, TypeOK
<1>3. Len(Append(queue[at], Cur)) = Len(queue[at]) + 1
  BY <1>1, AppendProperties DEF IInv, TypeOK
<1>4. queue[at] # << >> => Head(Append(queue[at], Cur)) = Head(queue[at])
  BY <1>1, AppendProperties, HeadTailProperties, EmptySeq DEF IInv, TypeOK
<1>5. Append(queue[at], Cur) # << >>
  BY <1>1, AppendProperties DEF IInv, TypeOK
<1>6. queue' \in [Ports -> Seq(0..(MaxSeq - 1))] /\ \A p \in Ports \ {at} : queue'[p] = queue[p]
  BY <1>2 DEF IInv, TypeOK
<1>7. \A p \in Ports : Len(queue'[p]) <= Cap[p]
  BY <1>3, <1>6, LenProperties DEF IInv, TypeOK, Full
<1>8. ReceiverOK'
  BY <1>4, <1>5, <1>6 DEF IInv, TypeOK, ReceiverOK
<1>. QED  BY <1>6, <1>7, <1>8

LEMMA PublishIInv == IInv /\ Publish => IInv'
<1>. SUFFICES ASSUME IInv, Publish PROVE IInv'
  OBVIOUS
<1>. USE PortsAssumption, SizesAssumption, OriginalIsPort
<1>1. ~Full(at)
  BY DEF IInv, SenderOK, Publish
<1>2. queue' = [queue EXCEPT ![at] = Append(@, Cur)]
  BY <1>1 DEF Publish
<1>3. /\ queue' \in [Ports -> Seq(0..(MaxSeq - 1))]
      /\ \A p \in Ports : Len(queue'[p]) <= Cap[p]
      /\ \A p \in Ports \ {at} : queue'[p] = queue[p]
      /\ ReceiverOK'
  BY <1>1, <1>2, AppendOK DEF Publish
<1>4. TypeOK'
  BY <1>3, StartOfOK, AdvanceOK DEF IInv, TypeOK, Publish
<1>5. SenderOK'
  BY <1>3, StartOfOK, AdvanceOK DEF IInv, TypeOK, SenderOK, Publish, Full
<1>. QED  BY <1>3, <1>4, <1>5 DEF IInv

LEMMA SerializeIInv == IInv /\ Serialize => IInv'
BY PortsAssumption, SizesAssumption, OriginalIsPort, CurOK, CellsOK
   DEF IInv, TypeOK, SenderOK, ReceiverOK, Serialize, FreeMsg, Full

LEMMA TransmitIInv == IInv /\ Transmit => IInv'
<1>. SUFFICES ASSUME IInv, Transmit PROVE IInv'
  OBVIOUS
<1>. USE PortsAssumption, SizesAssumption, OriginalIsPort
<1>1. /\ queue' \in [Ports -> Seq(0..(MaxSeq - 1))]
      /\ \A p \in Ports : Len(queue'[p]) <= Cap[p]
      /\ \A p \in Ports \ {at} : queue'[p] = queue[p]
      /\ ReceiverOK'
  <2>1. CASE queue' = queue
    BY <2>1 DEF IInv, TypeOK, ReceiverOK, Transmit
  <2>2. CASE ~Full(at) /\ queue' = [queue EXCEPT ![at] = Append(@, Cur)]
    BY <2>2, AppendOK DEF Transmit
  <2>. QED  BY <2>1, <2>2 DEF Transmit
<1>2. TypeOK'
  BY <1>1, StartOfOK, AdvanceOK DEF IInv, TypeOK, Transmit
<1>3. SenderOK'
  BY <1>1, StartOfOK, AdvanceOK DEF IInv, TypeOK, SenderOK, Transmit, Full
<1>. QED  BY <1>1, <1>2, <1>3 DEF IInv
-----------------------------------------------------------------------------
LEMMA CheckEmptyIInv == ASSUME NEW p \in Ports PROVE IInv /\ CheckEmpty(p) => IInv'
BY PortsAssumption DEF IInv, TypeOK, SenderOK, ReceiverOK, CheckEmpty, Full

LEMMA PeekIInv == ASSUME NEW p \in Ports PROVE IInv /\ Peek(p) => IInv'
<1>. SUFFICES ASSUME IInv, Peek(p) PROVE IInv'
  OBVIOUS
<1>1. Head(queue[p]) \in 0..MaxSeq
  <2>1. Head(queue[p]) \in 0..(MaxSeq - 1)
    BY HeadTailProperties DEF IInv, TypeOK, Peek
  <2>. QED  BY <2>1, SizesAssumption
<1>2. TypeOK'
  BY <1>1 DEF IInv, TypeOK, Peek
<1>3. SenderOK'
  BY DEF IInv, SenderOK, Peek, Full
<1>4. ReceiverOK'
  BY DEF IInv, TypeOK, ReceiverOK, Peek
<1>. QED  BY <1>2, <1>3, <1>4 DEF IInv

(* A connection that loses an element keeps its type and has more room.    *)
LEMMA ShrinkOK ==
  ASSUME IInv, NEW p \in Ports, NEW q \in Seq(0..(MaxSeq - 1)),
         Len(q) < Len(queue[p]), queue' = [queue EXCEPT ![p] = q],
         UNCHANGED <<pc, at, seq>>
  PROVE  /\ queue' \in [Ports -> Seq(0..(MaxSeq - 1))]
         /\ \A r \in Ports : Len(queue'[r]) <= Cap[r]
         /\ \A r \in Ports \ {p} : queue'[r] = queue[r]
         /\ SenderOK'
<1>. USE PortsAssumption, SizesAssumption, OriginalIsPort
<1>1. \A r \in Ports : Len(queue[r]) \in Nat /\ Len(q) \in Nat /\ Cap[r] \in Nat
  BY LenProperties DEF IInv, TypeOK
<1>2. /\ queue' \in [Ports -> Seq(0..(MaxSeq - 1))]
      /\ \A r \in Ports \ {p} : queue'[r] = queue[r]
      /\ queue'[p] = q
  BY DEF IInv, TypeOK
<1>3. \A r \in Ports : Len(queue'[r]) <= Cap[r]
  BY <1>1, <1>2 DEF IInv, TypeOK
<1>4. \A r \in Ports : ~Full(r) => ~Full(r)'
  BY <1>1, <1>2 DEF IInv, TypeOK, Full
<1>5. SenderOK'
  BY <1>4 DEF IInv, TypeOK, SenderOK
<1>. QED  BY <1>2, <1>3, <1>5

LEMMA ReceiveIInv == ASSUME NEW p \in Ports PROVE IInv /\ Receive(p) => IInv'
<1>. SUFFICES ASSUME IInv, Receive(p) PROVE IInv'
  OBVIOUS
<1>. USE SizesAssumption
<1>1. PICK i \in 1..Len(queue[p]) :
        /\ held' = [held EXCEPT ![p] = queue[p][i]]
        /\ next' = [next EXCEPT ![p] = queue[p][i] + 1]
        /\ queue' = [queue EXCEPT ![p] = RemoveAt(@, i)]
        /\ heap' = heap \cup {InMsg(queue[p][i], p), InData(queue[p][i], p)}
  BY DEF Receive
<1>2. queue[p] \in Seq(0..(MaxSeq - 1)) /\ Len(queue[p]) \in Nat
  BY LenProperties DEF IInv, TypeOK
<1>3. queue[p][i] \in 0..(MaxSeq - 1)
  BY <1>2, ElementOfSeq
<1>4. /\ RemoveAt(queue[p], i) \in Seq(0..(MaxSeq - 1))
      /\ Len(RemoveAt(queue[p], i)) < Len(queue[p])
  BY <1>2, RemoveAtType
<1>5. queue' = [queue EXCEPT ![p] = RemoveAt(queue[p], i)]
  BY <1>1
<1>6. /\ queue' \in [Ports -> Seq(0..(MaxSeq - 1))]
      /\ \A r \in Ports : Len(queue'[r]) <= Cap[r]
      /\ \A r \in Ports \ {p} : queue'[r] = queue[r]
      /\ SenderOK'
  BY <1>4, <1>5, ShrinkOK DEF Receive
<1>7. heap' \subseteq Cells
  BY <1>1, <1>3, CellsOK DEF IInv, TypeOK
<1>8. TypeOK'
  <2>1. queue[p][i] \in 0..MaxSeq /\ queue[p][i] + 1 \in 0..MaxSeq
    BY <1>3
  <2>2. held' \in [Ports -> 0..MaxSeq] /\ next' \in [Ports -> 0..MaxSeq]
    BY <1>1, <2>1 DEF IInv, TypeOK
  <2>. QED  BY <1>6, <1>7, <2>2 DEF IInv, TypeOK, Receive
<1>9. ReceiverOK'
  BY <1>1, <1>6 DEF IInv, TypeOK, ReceiverOK, Receive
<1>. QED  BY <1>6, <1>8, <1>9 DEF IInv

LEMMA ReleaseIInv == ASSUME NEW p \in Ports PROVE IInv /\ Release(p) => IInv'
BY PortsAssumption DEF IInv, TypeOK, SenderOK, ReceiverOK, Release, Full

LEMMA FreeInputIInv == ASSUME NEW p \in Ports PROVE IInv /\ FreeInput(p) => IInv'
<1>. SUFFICES ASSUME IInv, FreeInput(p) PROVE IInv'
  OBVIOUS
<1>. USE SizesAssumption
<1>1. CASE Raft(p)
  <2>1. queue[p] \in Seq(0..(MaxSeq - 1)) /\ queue[p] # << >>
    BY <1>1 DEF IInv, TypeOK, ReceiverOK, FreeInput
  <2>2. /\ Head(queue[p]) \in 0..(MaxSeq - 1)
        /\ Tail(queue[p]) \in Seq(0..(MaxSeq - 1))
        /\ Len(Tail(queue[p])) < Len(queue[p])
    <3>1. Len(queue[p]) \in Nat /\ Len(Tail(queue[p])) = Len(queue[p]) - 1
      BY <2>1, HeadTailProperties, LenProperties
    <3>2. /\ Head(queue[p]) \in 0..(MaxSeq - 1)
          /\ Tail(queue[p]) \in Seq(0..(MaxSeq - 1))
      BY <2>1, HeadTailProperties
    <3>. QED  BY <3>1, <3>2
  <2>3. queue' = [queue EXCEPT ![p] = Tail(queue[p])]
    BY <1>1 DEF FreeInput
  <2>4. /\ queue' \in [Ports -> Seq(0..(MaxSeq - 1))]
        /\ \A r \in Ports : Len(queue'[r]) <= Cap[r]
        /\ \A r \in Ports \ {p} : queue'[r] = queue[r]
        /\ SenderOK'
    BY <2>2, <2>3, ShrinkOK DEF FreeInput
  <2>5. TypeOK'
    <3>1. Head(queue[p]) + 1 \in 0..MaxSeq
      BY <2>2
    <3>2. next' \in [Ports -> 0..MaxSeq]
      BY <1>1, <3>1 DEF IInv, TypeOK, FreeInput
    <3>. QED  BY <1>1, <2>4, <3>2 DEF IInv, TypeOK, FreeInput
  <2>6. ReceiverOK'
    BY <1>1, <2>4 DEF IInv, TypeOK, ReceiverOK, FreeInput
  <2>. QED  BY <2>4, <2>5, <2>6 DEF IInv
<1>2. CASE ~Raft(p)
  BY <1>2 DEF IInv, TypeOK, SenderOK, ReceiverOK, FreeInput, Full
<1>. QED  BY <1>1, <1>2

LEMMA LoseIInv == ASSUME NEW p \in Ports PROVE IInv /\ Lose(p) => IInv'
<1>. SUFFICES ASSUME IInv, Lose(p) PROVE IInv'
  OBVIOUS
<1>1. PICK i \in 1..Len(queue[p]) : queue' = [queue EXCEPT ![p] = RemoveAt(@, i)]
  BY DEF Lose
<1>2. queue[p] \in Seq(0..(MaxSeq - 1)) /\ Len(queue[p]) \in Nat
  BY LenProperties DEF IInv, TypeOK
<1>3. /\ RemoveAt(queue[p], i) \in Seq(0..(MaxSeq - 1))
      /\ Len(RemoveAt(queue[p], i)) < Len(queue[p])
  BY <1>2, RemoveAtType
<1>4. queue' = [queue EXCEPT ![p] = RemoveAt(queue[p], i)]
  BY <1>1
<1>5. /\ queue' \in [Ports -> Seq(0..(MaxSeq - 1))]
      /\ \A r \in Ports : Len(queue'[r]) <= Cap[r]
      /\ \A r \in Ports \ {p} : queue'[r] = queue[r]
      /\ SenderOK'
  BY <1>3, <1>4, ShrinkOK DEF Lose
<1>6. TypeOK' /\ ReceiverOK'
  BY <1>5 DEF IInv, TypeOK, ReceiverOK, Lose, Raft
<1>. QED  BY <1>5, <1>6 DEF IInv
-----------------------------------------------------------------------------
LEMMA NextIInv == IInv /\ [Next]_vars => IInv'
<1>. SUFFICES ASSUME IInv, [Next]_vars PROVE IInv'
  OBVIOUS
<1>1. CASE Send
  BY <1>1, PlaceIInv, FillIInv, CheckIInv, CopyIInv, PublishIInv, SerializeIInv,
     TransmitIInv DEF Send
<1>2. CASE \E p \in Ports : Consume(p) \/ Lose(p)
  BY <1>2, CheckEmptyIInv, PeekIInv, ReceiveIInv, ReleaseIInv, FreeInputIInv,
     LoseIInv DEF Consume
<1>3. CASE UNCHANGED vars
  BY <1>3 DEF vars, IInv, TypeOK, SenderOK, ReceiverOK, Full
<1>. QED  BY <1>1, <1>2, <1>3 DEF Next, Finished

(* The invariant the theorems below rest on.                               *)
THEOREM Invariance == Spec => []IInv
BY InitIInv, NextIInv, PTL DEF Spec

(* Every variable keeps its type and no connection is ever overfilled,     *)
(* although most of the sender's steps append without a test for room.     *)
THEOREM TypeCorrect == Spec => []TypeOK
<1>1. IInv => TypeOK
  BY DEF IInv
<1>. QED  BY <1>1, Invariance, PTL

(* A reference that getInput handed out into a RaftLib stream points to    *)
(* the front slot until freeInput recycles that slot.                      *)
THEOREM HeldStaysAtHead == Spec => []HeldAtHead
<1>1. IInv => HeldAtHead
  BY DEF IInv, ReceiverOK, HeldAtHead
<1>. QED  BY <1>1, Invariance, PTL

(* With every RaftLib port that is not a duplicate deployed blocking, no   *)
(* kernel waits for the receiver of a nonblocking local port: what a       *)
(* duplicate has tested is still true when it allocates its slot.          *)
THEOREM DuplicatesNeverWait ==
  (Raft(Original) => OutSem[Original] = "BLOCKING") =>
    (Spec => []NonblockingNeverWaits)
<1>. SUFFICES ASSUME Raft(Original) => OutSem[Original] = "BLOCKING"
              PROVE  Spec => []NonblockingNeverWaits
  OBVIOUS
<1>1. IInv => NonblockingNeverWaits
  BY DEF IInv, SenderOK, NonblockingNeverWaits, WaitsAt, WaitsForRoom, Raft
<1>. QED  BY <1>1, Invariance, PTL
-----------------------------------------------------------------------------
(* The order of message numbers in a connection: Ordered and Contiguous    *)
(* survive the three things that happen to it.                             *)

(* q rises, from lo on and below hi.                                       *)
Ordered(q, lo, hi) == /\ \A i \in 1..Len(q) : lo <= q[i] /\ q[i] < hi
                      /\ \A i, j \in 1..Len(q) : i < j => q[i] < q[j]
                      /\ lo <= hi

(* q is lo, lo + 1, ..., hi - 1.                                           *)
Contiguous(q, lo, hi) == /\ lo + Len(q) = hi
                         /\ \A i \in 1..Len(q) : q[i] = lo + i - 1

(* The next message is appended.                                           *)
LEMMA AppendOrdered ==
  ASSUME NEW q \in Seq(Nat), NEW lo \in Nat, NEW hi \in Nat
  PROVE  /\ Ordered(q, lo, hi) => Ordered(Append(q, hi), lo, hi + 1)
         /\ Contiguous(q, lo, hi) => Contiguous(Append(q, hi), lo, hi + 1)
<1>1. /\ Len(q) \in Nat /\ \A i \in 1..Len(q) : q[i] \in Nat
  BY LenProperties, ElementOfSeq
<1>2. /\ Len(Append(q, hi)) = Len(q) + 1
      /\ \A i \in 1..Len(q) : Append(q, hi)[i] = q[i]
      /\ Append(q, hi)[Len(q) + 1] = hi
  BY AppendProperties
<1>3. Ordered(q, lo, hi) => Ordered(Append(q, hi), lo, hi + 1)
  BY <1>1, <1>2 DEF Ordered
<1>4. Contiguous(q, lo, hi) => Contiguous(Append(q, hi), lo, hi + 1)
  BY <1>1, <1>2 DEF Contiguous
<1>. QED  BY <1>3, <1>4

(* The next message is passed over.                                        *)
LEMMA PassOrdered ==
  ASSUME NEW q \in Seq(Nat), NEW lo \in Nat, NEW hi \in Nat, Ordered(q, lo, hi)
  PROVE  Ordered(q, lo, hi + 1)
<1>1. \A i \in 1..Len(q) : q[i] \in Nat
  BY ElementOfSeq
<1>. QED  BY <1>1 DEF Ordered

(* The oldest message is taken out.                                        *)
LEMMA TailOrdered ==
  ASSUME NEW q \in Seq(Nat), NEW lo \in Nat, NEW hi \in Nat, q # << >>
  PROVE  /\ Head(q) \in Nat /\ Tail(q) \in Seq(Nat)
         /\ Ordered(q, lo, hi) => Ordered(Tail(q), Head(q) + 1, hi)
         /\ Contiguous(q, lo, hi) => Contiguous(Tail(q), Head(q) + 1, hi)
<1>1. /\ Len(q) \in Nat /\ Len(q) > 0 /\ \A i \in 1..Len(q) : q[i] \in Nat
  BY LenProperties, ElementOfSeq, EmptySeq
<1>2. /\ Len(Tail(q)) = Len(q) - 1
      /\ \A i \in 1..Len(Tail(q)) : Tail(q)[i] = q[i + 1]
  BY HeadTailProperties
<1>3. Head(q) = q[1] /\ Tail(q) \in Seq(Nat)
  BY <1>1, HeadTailProperties
<1>4. Ordered(q, lo, hi) => Ordered(Tail(q), q[1] + 1, hi)
  BY <1>1, <1>2 DEF Ordered
<1>5. Contiguous(q, lo, hi) => Contiguous(Tail(q), q[1] + 1, hi)
  BY <1>1, <1>2 DEF Contiguous
<1>. QED  BY <1>1, <1>3, <1>4, <1>5
-----------------------------------------------------------------------------
(* FleXRPortManager implements one PortChannel per port that keeps order.  *)

LEMMA FifoIsPort == FifoPorts \subseteq Ports
BY DEF FifoPorts

(* The sender is done with port at, and with no other, when it goes on.    *)
LEMMA AdvanceOffers ==
  ASSUME IInv, pc \notin {"place", "fill"}, Advance, seq' = seq, NEW p \in Ports
  PROVE  /\ Offered(p)' = IF p = at THEN Offered(p) + 1 ELSE Offered(p)
         /\ Offered(at) = Cur
<1>1. pc' \in {"place", "serialize", "publish", "check"}
  BY AdvanceOK, StartOfOK DEF IInv, TypeOK
<1>2. at \in 1..Original /\ p \in 1..Original /\ seq \in Nat /\ Original \in Nat
  BY PortsAssumption DEF IInv, TypeOK, Ports, Original
<1>3. Offered(at) = Cur
  BY <1>2 DEF Offered, Cur
<1>4. Offered(p) = IF at > p THEN seq ELSE seq - 1
  BY DEF Offered
<1>5. Offered(p)' = IF pc' = "place" \/ at' > p THEN seq ELSE seq - 1
  BY <1>1 DEF Offered
<1>6. \/ pc' = "place" /\ at = Original
      \/ pc' # "place" /\ at' = at + 1
  BY AdvanceOK, StartOfOK DEF IInv, TypeOK
<1>. QED  BY <1>2, <1>3, <1>4, <1>5, <1>6

(* A connection is not full exactly if it has less than its capacity.      *)
LEMMA RoomOK ==
  ASSUME IInv, NEW p \in Ports
  PROVE  ~Full(p) <=> Len(queue[p]) < Cap[p]
<1>1. Len(queue[p]) \in Nat /\ Cap[p] \in Nat /\ Len(queue[p]) <= Cap[p]
  BY SizesAssumption, LenProperties DEF IInv, TypeOK
<1>. QED  BY <1>1 DEF Full

LEMMA RemoveAtOne ==
  ASSUME NEW S, NEW s \in Seq(S), s # << >>
  PROVE  RemoveAt(s, 1) = Tail(s)
<1>1. Len(s) \in Nat /\ Len(s) > 0
  BY LenProperties, EmptySeq
<1>2. Tail(s) = SubSeq(s, 2, Len(s))
  BY TailIsSubSeq
<1>3. SubSeq(s, 1, 0) = << >>
  BY SubSeqProperties, <1>1, EmptySeq
<1>4. Tail(s) \in Seq(S)
  BY HeadTailProperties
<1>5. << >> \o Tail(s) = Tail(s)
  BY <1>4, ConcatEmptySeq
<1>. QED  BY <1>2, <1>3, <1>5 DEF RemoveAt

(* The steps of the abstract channel, in the terms of FleXRPortManager.    *)
LEMMA ChannelStutters ==
  ASSUME NEW p \in FifoPorts, Offered(p)' = Offered(p), size' = size,
         queue'[p] = queue[p], next'[p] = next[p]
  PROVE  UNCHANGED PC(p)!vars
BY DEF PC!vars, Oversize

LEMMA ChannelAccepts ==
  ASSUME IInv, NEW p \in FifoPorts, size' = size, ~Oversize(p), ~Full(p),
         queue'[p] = Append(queue[p], Offered(p)), next'[p] = next[p],
         Offered(p)' = Offered(p) + 1
  PROVE  PC(p)!Next
<1>1. Len(queue[p]) < Cap[p]
  BY RoomOK, FifoIsPort
<1>2. (~Oversize(p))' = ~Oversize(p)
  BY DEF Oversize
<1>. QED  BY <1>1, <1>2 DEF PC!Next, PC!Accept

LEMMA ChannelPasses ==
  ASSUME IInv, NEW p \in FifoPorts, size' = size,
         Oversize(p) \/ (OutSem[p] = "NONBLOCKING" /\ Channel[p] # "TCP" /\ Full(p)),
         queue'[p] = queue[p], next'[p] = next[p], Offered(p)' = Offered(p) + 1
  PROVE  PC(p)!Next
<1>1. (~Oversize(p))' = ~Oversize(p)
  BY DEF Oversize
<1>. QED  BY <1>1 DEF PC!Next, PC!Pass, Full

LEMMA ChannelTakes ==
  ASSUME NEW p \in FifoPorts, size' = size, Offered(p)' = Offered(p),
         queue[p] # << >>, queue'[p] = Tail(queue[p]), next'[p] = Head(queue[p]) + 1
  PROVE  PC(p)!Next
<1>1. (~Oversize(p))' = ~Oversize(p)
  BY DEF Oversize
<1>. QED  BY <1>1 DEF PC!Next, PC!Take

LEMMA ChannelPrepares ==
  ASSUME NEW p \in FifoPorts, size' \in Sizes, Offered(p)' = Offered(p),
         queue'[p] = queue[p], next'[p] = next[p]
  PROVE  PC(p)!Next
<1>1. (~Oversize(p))' \in PC(p)!Fits
  <2>1. CASE Channel[p] = "SHM" /\ \E sz \in Sizes : sz > ElemSize[p]
    BY <2>1, Zenon DEF PC!Fits
  <2>2. CASE ~(Channel[p] = "SHM" /\ \E sz \in Sizes : sz > ElemSize[p])
    <3>1. (~Oversize(p))' = TRUE
      BY <2>2 DEF Oversize
    <3>. QED  BY <2>2, <3>1, Zenon DEF PC!Fits
  <2>. QED  BY <2>1, <2>2
<1>. QED  BY <1>1 DEF PC!Next, PC!Prepare
-----------------------------------------------------------------------------
(* The steps of the sending kernel.                                        *)

LEMMA FillChannel ==
  ASSUME IInv, Fill, NEW p \in FifoPorts PROVE PC(p)!Next
<1>1. pc' \in {"serialize", "publish", "check"} /\ at' = 1 /\ p \in 1..NumPorts
  BY StartOfOK, OriginalIsPort, FifoIsPort DEF Fill, Ports
<1>2. seq \in Nat
  BY DEF IInv, TypeOK
<1>3. Offered(p)' = Offered(p)
  BY <1>1, <1>2, PortsAssumption DEF Offered, Fill
<1>. QED  BY <1>3, ChannelPrepares DEF Fill

LEMMA CheckChannel ==
  ASSUME IInv, CheckDuplicate, NEW p \in FifoPorts
  PROVE  [PC(p)!Next]_(PC(p)!vars)
<1>1. CASE OutSem[at] = "NONBLOCKING" /\ Full(at)
  <2>1. /\ Advance /\ pc \notin {"place", "fill"} /\ Raft(at)
        /\ UNCHANGED <<seq, size, queue, next>>
    BY <1>1 DEF CheckDuplicate, IInv, SenderOK
  <2>2. Offered(p)' = IF p = at THEN Offered(p) + 1 ELSE Offered(p)
    BY <2>1, AdvanceOffers, FifoIsPort
  <2>3. CASE p = at
    BY <1>1, <2>1, <2>2, <2>3, ChannelPasses DEF Raft
  <2>4. CASE p # at
    BY <2>1, <2>2, <2>4, ChannelStutters
  <2>. QED  BY <2>3, <2>4
<1>2. CASE ~(OutSem[at] = "NONBLOCKING" /\ Full(at))
  BY <1>2, ChannelStutters DEF CheckDuplicate, Offered
<1>. QED  BY <1>1, <1>2

LEMMA PublishChannel ==
  ASSUME IInv, Publish, NEW p \in FifoPorts
  PROVE  [PC(p)!Next]_(PC(p)!vars)
<1>1. /\ Advance /\ pc \notin {"place", "fill"} /\ Raft(at) /\ ~Full(at)
      /\ at \in Ports /\ UNCHANGED <<seq, size, next>>
      /\ queue' = [queue EXCEPT ![at] = Append(@, Cur)]
  BY DEF Publish, IInv, TypeOK, SenderOK
<1>2. /\ Offered(p)' = IF p = at THEN Offered(p) + 1 ELSE Offered(p)
      /\ Offered(at) = Cur
  BY <1>1, AdvanceOffers, FifoIsPort
<1>3. CASE p = at
  <2>1. queue'[p] = Append(queue[p], Offered(p)) /\ ~Oversize(p)
    BY <1>1, <1>2, <1>3 DEF IInv, TypeOK, Raft, Oversize
  <2>. QED  BY <1>1, <1>2, <1>3, <2>1, ChannelAccepts
<1>4. CASE p # at
  BY <1>1, <1>2, <1>4, FifoIsPort, ChannelStutters DEF IInv, TypeOK
<1>. QED  BY <1>3, <1>4

LEMMA TransmitChannel ==
  ASSUME IInv, Transmit, NEW p \in FifoPorts
  PROVE  [PC(p)!Next]_(PC(p)!vars)
<1>1. /\ Advance /\ pc \notin {"place", "fill"} /\ at \in Ports /\ ~Raft(at)
      /\ UNCHANGED <<seq, size, next>>
  BY DEF Transmit, IInv, TypeOK, SenderOK
<1>2. /\ Offered(p)' = IF p = at THEN Offered(p) + 1 ELSE Offered(p)
      /\ Offered(at) = Cur
  BY <1>1, AdvanceOffers, FifoIsPort
<1>3. CASE p # at
  BY <1>1, <1>2, <1>3, FifoIsPort, ChannelStutters DEF Transmit, IInv, TypeOK
<1>4. CASE p = at /\ (Oversize(at) \/ Full(at))
  <2>1. Oversize(p) \/ (OutSem[p] = "NONBLOCKING" /\ Channel[p] # "TCP" /\ Full(p))
    BY <1>1, <1>4, PortsAssumption
       DEF Transmit, WaitsForRoom, FifoPorts, Semantics, Raft
  <2>. QED  BY <1>1, <1>2, <1>4, <2>1, ChannelPasses DEF Transmit
<1>5. CASE p = at /\ ~Oversize(at) /\ ~Full(at)
  <2>1. queue'[p] = Append(queue[p], Offered(p))
    BY <1>1, <1>2, <1>5 DEF Transmit, IInv, TypeOK
  <2>. QED  BY <1>1, <1>2, <1>5, <2>1, ChannelAccepts
<1>. QED  BY <1>3, <1>4, <1>5

(* The steps that leave every connection alone.                            *)
LEMMA OtherSendChannel ==
  ASSUME IInv, GetOutputPlaceholder \/ CopyToDuplicate \/ Serialize,
         NEW p \in FifoPorts
  PROVE  UNCHANGED PC(p)!vars
BY ChannelStutters DEF GetOutputPlaceholder, CopyToDuplicate, Serialize, Offered
-----------------------------------------------------------------------------
(* The steps of the receiving kernels.                                     *)

LEMMA ReceiveChannel ==
  ASSUME IInv, NEW r \in Ports, Receive(r), NEW p \in FifoPorts
  PROVE  [PC(p)!Next]_(PC(p)!vars)
<1>1. Offered(p)' = Offered(p) /\ size' = size
  BY DEF Receive, Offered
<1>2. CASE p # r
  BY <1>1, <1>2, FifoIsPort, ChannelStutters DEF Receive, IInv, TypeOK
<1>3. CASE p = r
  <2>1. PICK i \in 1..Len(queue[p]) :
          /\ i = 1 \/ Channel[p] = "RTP"
          /\ next' = [next EXCEPT ![p] = queue[p][i] + 1]
          /\ queue' = [queue EXCEPT ![p] = RemoveAt(@, i)]
    BY <1>3 DEF Receive
  <2>2. i = 1
    BY <2>1 DEF FifoPorts
  <2>3. queue[p] \in Seq(0..(MaxSeq - 1)) /\ p \in Ports
    BY FifoIsPort DEF IInv, TypeOK
  <2>4. queue[p] # << >>
    BY <2>1, <2>3, EmptySeq
  <2>5. queue'[p] = Tail(queue[p]) /\ next'[p] = Head(queue[p]) + 1
    <3>1. RemoveAt(queue[p], 1) = Tail(queue[p])
      BY <2>3, <2>4, RemoveAtOne
    <3>2. Head(queue[p]) = queue[p][1]
      BY <2>3, <2>4
    <3>. QED  BY <2>1, <2>2, <2>3, <3>1, <3>2 DEF IInv, TypeOK
  <2>. QED  BY <1>1, <2>4, <2>5, ChannelTakes
<1>. QED  BY <1>2, <1>3

LEMMA FreeInputChannel ==
  ASSUME IInv, NEW r \in Ports, FreeInput(r), NEW p \in FifoPorts
  PROVE  [PC(p)!Next]_(PC(p)!vars)
<1>1. Offered(p)' = Offered(p) /\ size' = size
  BY DEF FreeInput, Offered
<1>2. CASE p = r /\ Raft(r)
  <2>1. queue[p] # << >> /\ queue'[p] = Tail(queue[p]) /\ next'[p] = Head(queue[p]) + 1
    BY <1>2 DEF FreeInput, IInv, TypeOK, ReceiverOK
  <2>. QED  BY <1>1, <2>1, ChannelTakes
<1>3. CASE ~(p = r /\ Raft(r))
  BY <1>1, <1>3, FifoIsPort, ChannelStutters DEF FreeInput, IInv, TypeOK
<1>. QED  BY <1>2, <1>3

LEMMA LoseChannel ==
  ASSUME IInv, NEW r \in Ports, Lose(r), NEW p \in FifoPorts
  PROVE  UNCHANGED PC(p)!vars
<1>1. queue'[p] = queue[p] /\ Offered(p)' = Offered(p)
  BY FifoIsPort DEF Lose, FifoPorts, IInv, TypeOK, Offered
<1>. QED  BY <1>1, ChannelStutters DEF Lose

LEMMA OtherReceiveChannel ==
  ASSUME NEW r \in Ports, CheckEmpty(r) \/ Peek(r) \/ Release(r), NEW p \in FifoPorts
  PROVE  UNCHANGED PC(p)!vars
BY ChannelStutters DEF CheckEmpty, Peek, Release, Offered
-----------------------------------------------------------------------------
(* Whether the next frame fits is something the channel allows for.        *)
LEMMA FitsOK ==
  ASSUME NEW p \in FifoPorts, size \in Sizes
  PROVE  (~Oversize(p)) \in PC(p)!Fits
<1>1. CASE Channel[p] = "SHM" /\ \E sz \in Sizes : sz > ElemSize[p]
  BY <1>1, Zenon DEF PC!Fits
<1>2. CASE ~(Channel[p] = "SHM" /\ \E sz \in Sizes : sz > ElemSize[p])
  <2>1. (~Oversize(p)) = TRUE
    BY <1>2 DEF Oversize
  <2>. QED  BY <1>2, <2>1, Zenon DEF PC!Fits
<1>. QED  BY <1>1, <1>2

LEMMA ChannelsInit == Init => \A p \in FifoPorts : PC(p)!Init
<1>. SUFFICES ASSUME Init, NEW p \in FifoPorts PROVE PC(p)!Init
  OBVIOUS
<1>1. (~Oversize(p)) \in PC(p)!Fits
  BY FitsOK DEF Init
<1>. QED  BY <1>1, FifoIsPort DEF Init, PC!Init, Offered

LEMMA ChannelsNext ==
  IInv /\ [Next]_vars => [\A p \in FifoPorts : [PC(p)!Next]_(PC(p)!vars)]_vars
<1>. SUFFICES ASSUME IInv, Next, NEW p \in FifoPorts
              PROVE  [PC(p)!Next]_(PC(p)!vars)
  OBVIOUS
<1>1. CASE Send
  BY <1>1, FillChannel, CheckChannel, PublishChannel, TransmitChannel,
     OtherSendChannel DEF Send
<1>2. CASE Finished
  BY <1>2, ChannelStutters DEF Finished, vars, Offered
<1>3. CASE \E r \in Ports : Consume(r) \/ Lose(r)
  BY <1>3, ReceiveChannel, FreeInputChannel, LoseChannel, OtherReceiveChannel
     DEF Consume
<1>. QED  BY <1>1, <1>2, <1>3 DEF Next

(* Every connection but an RTP one is a first-in first-out channel that    *)
(* loses a frame only for being nonblocking and full, or because the frame *)
(* does not fit: this holds for any fan-out of any ports.                  *)
THEOREM ImplementsChannels == Spec => Channels
BY ChannelsInit, ChannelsNext, Invariance, PTL DEF Spec, Channels
-----------------------------------------------------------------------------
(* What a connection's order and completeness say of its variables.        *)
LEMMA ChannelRestated ==
  ASSUME NEW p \in FifoPorts
  PROVE  /\ PC(p)!InOrder <=> Ordered(queue[p], next[p], Offered(p))
         /\ PC(p)!Gapless <=>
              (~(OutSem[p] = "NONBLOCKING" /\ Channel[p] # "TCP") /\
               ~(Channel[p] = "SHM" /\ \E sz \in Sizes : sz > ElemSize[p])
                 => Contiguous(queue[p], next[p], Offered(p)))
         /\ (PC(p)!InOrder)' <=> Ordered(queue'[p], next'[p], Offered(p)')
         /\ (PC(p)!Gapless)' <=>
              (~(OutSem[p] = "NONBLOCKING" /\ Channel[p] # "TCP") /\
               ~(Channel[p] = "SHM" /\ \E sz \in Sizes : sz > ElemSize[p])
                 => Contiguous(queue'[p], next'[p], Offered(p)'))
BY DEF PC!InOrder, PC!Gapless, Ordered, Contiguous

LEMMA QueueNat ==
  ASSUME IInv, NEW p \in Ports
  PROVE  queue[p] \in Seq(Nat) /\ next[p] \in Nat /\ Offered(p) \in Nat
<1>1. queue[p] \in Seq(0..(MaxSeq - 1)) /\ 0..(MaxSeq - 1) \subseteq Nat
  BY SizesAssumption DEF IInv, TypeOK
<1>2. queue[p] \in Seq(Nat)
  BY <1>1, SeqMonotonic
<1>. QED  BY <1>2, SizesAssumption DEF IInv, TypeOK, SenderOK, Offered

LEMMA OrderInit == Init => InOrder /\ Gapless
<1>. SUFFICES ASSUME Init, NEW p \in FifoPorts
              PROVE  PC(p)!InOrder /\ PC(p)!Gapless
  BY DEF InOrder, Gapless
<1>1. queue[p] = << >> /\ next[p] = 0 /\ Offered(p) = 0
  BY FifoIsPort DEF Init, Offered
<1>2. Ordered(<< >>, 0, 0) /\ Contiguous(<< >>, 0, 0)
  BY DEF Ordered, Contiguous
<1>. QED  BY <1>1, <1>2, ChannelRestated

(* The channel itself keeps the order, and the completeness if it may pass *)
(* nothing over: its state is ordered, and every step leaves it so.        *)
ChannelInv(p) == /\ queue[p] \in Seq(Nat) /\ next[p] \in Nat /\ Offered(p) \in Nat
                 /\ (~Oversize(p)) \in PC(p)!Fits
                 /\ PC(p)!InOrder /\ PC(p)!Gapless

LEMMA ChannelStep ==
  ASSUME NEW p \in FifoPorts, ChannelInv(p), [PC(p)!Next]_(PC(p)!vars)
  PROVE  ChannelInv(p)'
<1>. DEFINE lossless == /\ ~(OutSem[p] = "NONBLOCKING" /\ Channel[p] # "TCP")
                        /\ ~(Channel[p] = "SHM" /\ \E sz \in Sizes : sz > ElemSize[p])
<1>1. /\ Ordered(queue[p], next[p], Offered(p))
      /\ lossless => Contiguous(queue[p], next[p], Offered(p))
  BY ChannelRestated DEF ChannelInv
<1>2. queue[p] \in Seq(Nat) /\ next[p] \in Nat /\ Offered(p) \in Nat
  BY DEF ChannelInv
<1>3. (~Oversize(p))' \in PC(p)!Fits
  BY Zenon DEF PC!Next, PC!Prepare, PC!Accept, PC!Pass, PC!Take, PC!vars, ChannelInv
<1>4. CASE PC(p)!Accept
  <2>1. /\ queue'[p] = Append(queue[p], Offered(p)) /\ next'[p] = next[p]
        /\ Offered(p)' = Offered(p) + 1
    BY <1>4 DEF PC!Accept
  <2>2. queue'[p] \in Seq(Nat) /\ next'[p] \in Nat /\ Offered(p)' \in Nat
    BY <1>2, <2>1, AppendProperties
  <2>3. (PC(p)!InOrder)' /\ (PC(p)!Gapless)'
    BY <1>1, <1>2, <2>1, AppendOrdered, ChannelRestated
  <2>. QED  BY <1>3, <2>2, <2>3 DEF ChannelInv, PC!Fits
<1>5. CASE PC(p)!Pass
  <2>1. /\ queue'[p] = queue[p] /\ next'[p] = next[p]
        /\ Offered(p)' = Offered(p) + 1
    BY <1>5 DEF PC!Pass
  <2>2. ~lossless
    BY <1>5 DEF PC!Pass, PC!Fits, ChannelInv
  <2>3. queue'[p] \in Seq(Nat) /\ next'[p] \in Nat /\ Offered(p)' \in Nat
    BY <1>2, <2>1
  <2>4. (PC(p)!InOrder)' /\ (PC(p)!Gapless)'
    BY <1>1, <1>2, <2>1, <2>2, PassOrdered, ChannelRestated
  <2>. QED  BY <1>3, <2>3, <2>4 DEF ChannelInv, PC!Fits
<1>6. CASE PC(p)!Take
  <2>1. /\ queue[p] # << >> /\ queue'[p] = Tail(queue[p])
        /\ next'[p] = Head(queue[p]) + 1 /\ Offered(p)' = Offered(p)
    BY <1>6 DEF PC!Take
  <2>2. queue'[p] \in Seq(Nat) /\ next'[p] \in Nat /\ Offered(p)' \in Nat
    BY <1>2, <2>1, TailOrdered
  <2>3. (PC(p)!InOrder)' /\ (PC(p)!Gapless)'
    BY <1>1, <1>2, <2>1, TailOrdered, ChannelRestated
  <2>. QED  BY <1>3, <2>2, <2>3 DEF ChannelInv, PC!Fits
<1>7. CASE PC(p)!Prepare \/ UNCHANGED PC(p)!vars
  <2>1. /\ queue'[p] = queue[p] /\ next'[p] = next[p] /\ Offered(p)' = Offered(p)
    BY <1>7 DEF PC!Prepare, PC!vars
  <2>2. (PC(p)!InOrder)' /\ (PC(p)!Gapless)'
    BY <1>1, <2>1, ChannelRestated
  <2>. QED  BY <1>2, <1>3, <2>1, <2>2 DEF ChannelInv, PC!Fits
<1>. QED  BY <1>4, <1>5, <1>6, <1>7 DEF PC!Next

(* No message overtakes another in a channel of PortChannel, and one that  *)
(* passes nothing over has everything in flight that was offered and not   *)
(* yet taken out: from the specification of the channel alone.             *)
THEOREM ChannelOrder ==
  ASSUME NEW p \in FifoPorts
  PROVE  PC(p)!Spec => [](PC(p)!InOrder /\ PC(p)!Gapless)
<1>1. PC(p)!Init => ChannelInv(p)
  <2>. SUFFICES ASSUME PC(p)!Init PROVE ChannelInv(p)
    OBVIOUS
  <2>1. queue[p] = << >> /\ next[p] = 0 /\ Offered(p) = 0 /\ (~Oversize(p)) \in PC(p)!Fits
    BY DEF PC!Init
  <2>2. Ordered(<< >>, 0, 0) /\ Contiguous(<< >>, 0, 0) /\ << >> \in Seq(Nat)
    BY EmptySeq DEF Ordered, Contiguous
  <2>3. PC(p)!InOrder /\ PC(p)!Gapless
    BY <2>1, <2>2, ChannelRestated
  <2>. QED  BY <2>1, <2>2, <2>3 DEF ChannelInv
<1>2. ChannelInv(p) /\ [PC(p)!Next]_(PC(p)!vars) => ChannelInv(p)'
  BY ChannelStep
<1>3. ChannelInv(p) => PC(p)!InOrder /\ PC(p)!Gapless
  BY DEF ChannelInv
<1>. QED  BY <1>1, <1>2, <1>3, PTL DEF PC!Spec

LEMMA OrderStep ==
  ASSUME IInv, [Next]_vars, InOrder /\ Gapless
  PROVE  (InOrder /\ Gapless)'
<1>. SUFFICES ASSUME NEW p \in FifoPorts
              PROVE  (PC(p)!InOrder)' /\ (PC(p)!Gapless)'
  BY DEF InOrder, Gapless
<1>1. ChannelInv(p)
  <2>1. (~Oversize(p)) \in PC(p)!Fits
    BY FitsOK DEF IInv, TypeOK
  <2>. QED  BY <2>1, QueueNat, FifoIsPort DEF ChannelInv, InOrder, Gapless
<1>2. CASE UNCHANGED vars
  BY <1>1, <1>2, ChannelRestated DEF ChannelInv, vars, Offered
<1>3. CASE [PC(p)!Next]_(PC(p)!vars)
  BY <1>1, <1>3, ChannelStep DEF ChannelInv
<1>. QED  BY <1>2, <1>3, ChannelsNext

(* On every connection but an RTP one frames arrive in the order in which  *)
(* they were sent, each at most once.                                      *)
THEOREM FramesInOrder == Spec => []InOrder
<1>1. Spec => [](InOrder /\ Gapless)
  BY OrderInit, OrderStep, Invariance, PTL DEF Spec
<1>. QED  BY <1>1, PTL

(* A blocking local port whose frames all fit, and a TCP port of either    *)
(* semantics, have every frame sent and not yet received in flight.        *)
THEOREM FramesComplete == Spec => []Gapless
<1>1. Spec => [](InOrder /\ Gapless)
  BY OrderInit, OrderStep, Invariance, PTL DEF Spec
<1>. QED  BY <1>1, PTL
-----------------------------------------------------------------------------
(* Who owns what on the heap.                                              *)

(* Two new expressions, or two executions of one, make two objects.        *)
LEMMA CellsApart ==
  /\ \A s, p, t, r : OutMsg(s, p) = OutMsg(t, r) => s = t /\ p = r
  /\ \A s, p, t, r : OutData(s, p) = OutData(t, r) => s = t /\ p = r
  /\ \A s, p, t, r : SendBuf(s, p) = SendBuf(t, r) => s = t /\ p = r
  /\ \A s, p, t, r : InMsg(s, p) = InMsg(t, r) => s = t /\ p = r
  /\ \A s, p, t, r : InData(s, p) = InData(t, r) => s = t /\ p = r
  /\ \A s, p, t, r : /\ OutMsg(s, p) \notin {OutData(t, r), SendBuf(t, r),
                                             InMsg(t, r), InData(t, r)}
                     /\ OutData(s, p) \notin {SendBuf(t, r), InMsg(t, r), InData(t, r)}
                     /\ SendBuf(s, p) \notin {InMsg(t, r), InData(t, r)}
                     /\ InMsg(s, p) # InData(t, r)
BY DEF OutMsg, OutData, SendBuf, InMsg, InData

ReceiversCells == UNION { ReceiverCells(p) : p \in Ports }

(* A receiver reads its own input, and the pixels in its own RaftLib       *)
(* stream: those of older frames than the one being sent.                  *)
LEMMA ReceiverOwns ==
  ASSUME IInv, InOrder, NEW p \in Ports, NEW c \in ReceiverCells(p)
  PROVE  \/ Raft(p) /\ \E s \in 0..MaxSeq : s < Offered(p) /\ c = OutData(s, p)
         \/ ~Raft(p) /\ c \in {InMsg(held[p], p), InData(held[p], p)}
<1>1. CASE Raft(p)
  <2>1. p \in FifoPorts
    BY <1>1 DEF Raft, FifoPorts
  <2>2. PICK i \in (1 + Released(p))..Len(queue[p]) : c = OutData(queue[p][i], p)
    BY <1>1 DEF ReceiverCells
  <2>3. queue[p] \in Seq(0..(MaxSeq - 1)) /\ Len(queue[p]) \in Nat
    BY LenProperties DEF IInv, TypeOK
  <2>4. i \in 1..Len(queue[p])
    BY <2>2, <2>3 DEF Released
  <2>5. queue[p][i] \in 0..(MaxSeq - 1)
    BY <2>3, <2>4, ElementOfSeq
  <2>6. queue[p][i] < Offered(p)
    BY <2>1, <2>4, ChannelRestated DEF InOrder, Ordered
  <2>. QED  BY <1>1, <2>2, <2>5, <2>6, SizesAssumption
<1>2. CASE ~Raft(p)
  BY <1>2 DEF ReceiverCells
<1>. QED  BY <1>1, <1>2

(* So what the sender still uses is no receiver's.                         *)
LEMMA SenderOwns ==
  ASSUME IInv, InOrder, pc \notin {"place", "fill"}
  PROVE  /\ OutMsg(Cur, Original) \notin ReceiversCells
         /\ OutData(Cur, Original) \notin ReceiversCells
         /\ OutData(Cur, at) \notin ReceiversCells
         /\ SendBuf(Cur, at) \notin ReceiversCells
<1>. SUFFICES ASSUME NEW p \in Ports, NEW c \in ReceiverCells(p)
              PROVE  c \notin {OutMsg(Cur, Original), OutData(Cur, Original),
                               OutData(Cur, at), SendBuf(Cur, at)}
  BY DEF ReceiversCells
<1>1. /\ at \in 1..NumPorts /\ NumPorts \in Nat /\ seq \in Nat
      /\ Original = NumPorts /\ Cur = seq - 1
  BY PortsAssumption, SizesAssumption DEF IInv, TypeOK, Ports, Original, Cur
<1>2. Offered(Original) = Cur /\ Offered(at) = Cur
  BY <1>1 DEF Offered
<1>3. CASE Raft(p)
  <2>1. PICK s \in 0..MaxSeq : s < Offered(p) /\ c = OutData(s, p)
    BY <1>3, ReceiverOwns
  <2>2. p \in {Original, at} => s # Cur
    BY <1>1, <1>2, <2>1
  <2>. QED  BY <2>1, <2>2, CellsApart
<1>4. CASE ~Raft(p)
  <2>1. c \in {InMsg(held[p], p), InData(held[p], p)}
    BY <1>4, ReceiverOwns
  <2>. QED  BY <2>1, CellsApart
<1>. QED  BY <1>3, <1>4

(* The receivers and the sender own what they did and what was allocated,  *)
(* but for what was freed, which was not a receiver's.                     *)
LEMMA SenderStep ==
  ASSUME HeapOwned, NEW new, NEW old, heap' = (heap \cup new) \ old,
         SenderCells' = (SenderCells \cup new) \ old,
         UNCHANGED ReceiversCells, old \cap ReceiversCells = {}
  PROVE  HeapOwned'
<1>1. heap = SenderCells \cup ReceiversCells
  BY DEF HeapOwned, ReceiversCells
<1>2. heap' = SenderCells' \cup ReceiversCells'
  BY <1>1
<1>. QED  BY <1>2 DEF HeapOwned, ReceiversCells

LEMMA SenderGrows ==
  ASSUME HeapOwned, NEW new, heap' = heap \cup new,
         SenderCells' = SenderCells \cup new, UNCHANGED ReceiversCells
  PROVE  HeapOwned'
<1>1. heap' = SenderCells' \cup ReceiversCells'
  BY DEF HeapOwned, ReceiversCells
<1>. QED  BY <1>1 DEF HeapOwned, ReceiversCells

(* Only the queue of a RaftLib port and its receiver tell what its         *)
(* receiver may still read.                                                *)
LEMMA SameReceiver ==
  ASSUME NEW p \in Ports, rpc'[p] = rpc[p], held'[p] = held[p],
         Raft(p) => queue'[p] = queue[p]
  PROVE  ReceiverCells(p)' = ReceiverCells(p)
<1>1. Released(p)' = Released(p)
  BY DEF Released
<1>2. CASE Raft(p)
  BY <1>1, <1>2 DEF ReceiverCells, Raft
<1>3. CASE ~Raft(p)
  BY <1>1, <1>3 DEF ReceiverCells, Raft
<1>. QED  BY <1>2, <1>3

LEMMA SameReceivers ==
  ASSUME UNCHANGED <<rpc, held>>, \A p \in Ports : Raft(p) => queue'[p] = queue[p]
  PROVE  UNCHANGED ReceiversCells
<1>1. \A p \in Ports : ReceiverCells(p)' = ReceiverCells(p)
  BY SameReceiver
<1>. QED  BY <1>1 DEF ReceiversCells

(* The phases of the sender that a step leads to.                          *)
LEMMA SenderCellsAfter ==
  ASSUME IInv, pc \notin {"place", "fill"}, UNCHANGED seq, Advance
  PROVE  SenderCells' =
           IF at = Original THEN {}
           ELSE (IF Raft(Original) THEN {} ELSE {OutMsg(Cur, Original)})
                  \cup {OutData(Cur, Original)}
<1>1. CASE at = Original
  BY <1>1, AdvanceOK, OriginalIsPort DEF SenderCells, Advance
<1>2. CASE at # Original
  <2>1. /\ at' \in Ports /\ pc' = StartOf(at') /\ pc' \in {"serialize", "publish", "check"}
        /\ pc' = "publish" => at' = Original
    BY <1>2, AdvanceOK, StartOfOK DEF IInv, TypeOK
  <2>2. Cur' = Cur
    BY <2>1 DEF Cur
  <2>. QED  BY <1>2, <2>1, <2>2 DEF SenderCells, Raft, Original
<1>. QED  BY <1>1, <1>2

LEMMA PlaceHeap == IInv /\ InOrder /\ HeapOwned /\ GetOutputPlaceholder => HeapOwned'
<1>. SUFFICES ASSUME HeapOwned, GetOutputPlaceholder PROVE HeapOwned'
  OBVIOUS
<1>. DEFINE new == IF Raft(Original) THEN {} ELSE {OutMsg(Cur, Original)}
<1>1. UNCHANGED ReceiversCells
  BY SameReceivers DEF GetOutputPlaceholder
<1>2. heap' = heap \cup new
  BY DEF GetOutputPlaceholder
<1>3. Cur' = Cur
  BY DEF GetOutputPlaceholder, Cur
<1>4. SenderCells' = SenderCells \cup new
  BY <1>3 DEF GetOutputPlaceholder, SenderCells, Raft, Original
<1>. QED  BY <1>1, <1>2, <1>4, SenderGrows

LEMMA FillHeap == IInv /\ InOrder /\ HeapOwned /\ Fill => HeapOwned'
<1>. SUFFICES ASSUME IInv, HeapOwned, Fill PROVE HeapOwned'
  OBVIOUS
<1>1. UNCHANGED ReceiversCells
  BY SameReceivers DEF Fill
<1>2. heap' = heap \cup {OutData(Cur, Original)}
  BY DEF Fill
<1>3. pc' \in {"serialize", "publish", "check"} /\ (pc' = "publish" => at' = Original)
  BY StartOfOK, OriginalIsPort DEF Fill
<1>4. Cur' = Cur
  BY <1>3 DEF Fill, Cur, IInv, TypeOK
<1>5. SenderCells' = SenderCells \cup {OutData(Cur, Original)}
  BY <1>3, <1>4 DEF Fill, SenderCells, Raft, Original
<1>. QED  BY <1>1, <1>2, <1>5, SenderGrows

LEMMA CheckHeap == IInv /\ InOrder /\ HeapOwned /\ CheckDuplicate => HeapOwned'
<1>. SUFFICES ASSUME IInv, HeapOwned, CheckDuplicate PROVE HeapOwned'
  OBVIOUS
<1>1. UNCHANGED ReceiversCells /\ heap' = heap \cup {}
  BY SameReceivers DEF CheckDuplicate
<1>2. pc = "check" /\ at # Original
  BY DEF CheckDuplicate, IInv, SenderOK
<1>3. CASE Advance
  BY <1>1, <1>2, <1>3, SenderCellsAfter, SenderGrows DEF CheckDuplicate, SenderCells
<1>4. CASE pc' = "copy" /\ UNCHANGED at
  <2>1. Cur' = Cur
    BY <1>2, <1>4 DEF CheckDuplicate, Cur
  <2>2. SenderCells' = SenderCells \cup {}
    BY <1>2, <1>4, <2>1 DEF SenderCells, Raft, Original
  <2>. QED  BY <1>1, <2>2, SenderGrows
<1>. QED  BY <1>3, <1>4 DEF CheckDuplicate

LEMMA CopyHeap == IInv /\ InOrder /\ HeapOwned /\ CopyToDuplicate => HeapOwned'
<1>. SUFFICES ASSUME HeapOwned, CopyToDuplicate PROVE HeapOwned'
  OBVIOUS
<1>1. UNCHANGED ReceiversCells
  BY SameReceivers DEF CopyToDuplicate
<1>2. heap' = heap \cup {OutData(Cur, at)}
  BY DEF CopyToDuplicate
<1>3. Cur' = Cur
  BY DEF CopyToDuplicate, Cur
<1>4. SenderCells' = SenderCells \cup {OutData(Cur, at)}
  BY <1>3 DEF CopyToDuplicate, SenderCells, Raft, Original
<1>. QED  BY <1>1, <1>2, <1>4, SenderGrows

(* The stream of the port takes over the pixels.                           *)
LEMMA PublishedPixels ==
  ASSUME IInv, NEW p \in Ports, Raft(p), NEW s \in 0..(MaxSeq - 1),
         queue'[p] = Append(queue[p], s), rpc'[p] = rpc[p]
  PROVE  ReceiverCells(p)' = ReceiverCells(p) \cup {OutData(s, p)}
<1>. DEFINE n == Len(queue[p])
            low == 1 + (IF rpc[p] = "free" THEN 1 ELSE 0)
<1>1. queue[p] \in Seq(0..(MaxSeq - 1)) /\ n \in Nat
  BY LenProperties DEF IInv, TypeOK
<1>2. /\ Len(queue'[p]) = n + 1 /\ queue'[p][n + 1] = s
      /\ \A i \in 1..n : queue'[p][i] = queue[p][i]
  BY <1>1, AppendProperties
<1>3. low \in 1..(n + 1)
  <2>1. rpc[p] = "free" => n > 0
    BY <1>1, EmptySeq DEF IInv, ReceiverOK
  <2>. QED  BY <1>1, <2>1
<1>4. ReceiverCells(p) = { OutData(queue[p][i], p) : i \in low..n }
  BY DEF ReceiverCells, Released
<1>5. ReceiverCells(p)' = { OutData(queue'[p][i], p) : i \in low..(n + 1) }
  BY <1>2 DEF ReceiverCells, Released, Raft
<1>. QED  BY <1>1, <1>2, <1>3, <1>4, <1>5

LEMMA PublishHeap == IInv /\ InOrder /\ HeapOwned /\ Publish => HeapOwned'
<1>. SUFFICES ASSUME IInv, HeapOwned, Publish PROVE HeapOwned'
  OBVIOUS
<1>1. /\ pc = "publish" /\ Advance /\ Raft(at) /\ UNCHANGED seq
      /\ queue' = [queue EXCEPT ![at] = Append(@, Cur)]
      /\ UNCHANGED <<rpc, held, heap>>
  BY DEF Publish, IInv, SenderOK
<1>2. PICK p \in Ports : p = at
  BY DEF IInv, TypeOK
<1>3. /\ queue'[p] = Append(queue[p], Cur)
      /\ \A r \in Ports \ {p} : queue'[r] = queue[r]
      /\ Cur \in 0..(MaxSeq - 1)
  BY <1>1, <1>2, SizesAssumption DEF IInv, TypeOK, SenderOK, Cur
<1>4. ReceiverCells(p)' = ReceiverCells(p) \cup {OutData(Cur, p)}
  BY <1>1, <1>2, <1>3, PublishedPixels
<1>5. \A r \in Ports \ {p} : ReceiverCells(r)' = ReceiverCells(r)
  BY <1>1, <1>3, SameReceiver
<1>6. ReceiversCells' = ReceiversCells \cup {OutData(Cur, p)}
  BY <1>4, <1>5 DEF ReceiversCells
<1>7. SenderCells \cup {OutData(Cur, p)} = SenderCells' \cup {OutData(Cur, p)}
  BY <1>1, <1>2, SenderCellsAfter DEF SenderCells
<1>8. heap' = SenderCells' \cup ReceiversCells'
  <2>1. OutData(Cur, p) \in SenderCells
    BY <1>1, <1>2 DEF SenderCells
  <2>. QED  BY <1>1, <1>6, <1>7, <2>1 DEF HeapOwned, ReceiversCells
<1>. QED  BY <1>8 DEF HeapOwned, ReceiversCells

LEMMA SerializeHeap == IInv /\ InOrder /\ HeapOwned /\ Serialize => HeapOwned'
<1>. SUFFICES ASSUME IInv, InOrder, HeapOwned, Serialize PROVE HeapOwned'
  OBVIOUS
<1>. DEFINE new == {SendBuf(Cur, at)}
            old == FreeMsg(OutData(Cur, Original))
<1>1. heap' = (heap \cup new) \ old
  BY DEF Serialize
<1>2. UNCHANGED ReceiversCells
  BY SameReceivers DEF Serialize
<1>3. old \cap ReceiversCells = {}
  BY SenderOwns DEF Serialize, FreeMsg
<1>4. Cur' = Cur
  BY DEF Serialize, Cur
<1>5. SenderCells' = (SenderCells \cup new) \ old
  BY <1>4, CellsApart DEF Serialize, FreeMsg, SenderCells, Raft, Original
<1>. HIDE DEF new, old
<1>. QED  BY <1>1, <1>2, <1>3, <1>5, SenderStep

LEMMA TransmitHeap == IInv /\ InOrder /\ HeapOwned /\ Transmit => HeapOwned'
<1>. SUFFICES ASSUME IInv, InOrder, HeapOwned, Transmit PROVE HeapOwned'
  OBVIOUS
<1>. DEFINE old == {SendBuf(Cur, at)} \cup FreeMsg(OutMsg(Cur, Original))
<1>1. /\ heap' = (heap \cup {}) \ old
      /\ pc = "transmit" /\ Advance /\ UNCHANGED seq /\ ~Raft(at)
  BY DEF Transmit, IInv, SenderOK
<1>2. UNCHANGED ReceiversCells
  <2>1. \A p \in Ports : Raft(p) => queue'[p] = queue[p]
    BY <1>1 DEF Transmit, IInv, TypeOK
  <2>. QED  BY <2>1, SameReceivers DEF Transmit
<1>3. old \cap ReceiversCells = {}
  BY <1>1, SenderOwns DEF FreeMsg
<1>4. SenderCells' = (SenderCells \cup {}) \ old
  <2>1. CASE at = Original
    <3>1. SenderCells' = {}
      BY <1>1, <2>1, SenderCellsAfter
    <3>2. SenderCells \subseteq old
      BY <1>1, <2>1 DEF SenderCells, FreeMsg
    <3>. QED  BY <3>1, <3>2
  <2>2. CASE at # Original
    <3>1. old = {SendBuf(Cur, at)}
      BY <2>2 DEF FreeMsg
    <3>2. SenderCells' = SenderCells \ {SendBuf(Cur, at)}
      BY <1>1, <2>2, SenderCellsAfter, CellsApart DEF SenderCells
    <3>. QED  BY <3>1, <3>2
  <2>. QED  BY <2>1, <2>2
<1>. HIDE DEF old
<1>. QED  BY <1>1, <1>2, <1>3, <1>4, SenderStep

(* The same for a receiver that takes a message.                           *)
LEMMA ReceiverGrows ==
  ASSUME HeapOwned, NEW p \in Ports, NEW new, heap' = heap \cup new,
         ReceiverCells(p)' = ReceiverCells(p) \cup new, UNCHANGED SenderCells,
         \A r \in Ports \ {p} : ReceiverCells(r)' = ReceiverCells(r)
  PROVE  HeapOwned'
<1>. DEFINE others == UNION { ReceiverCells(r) : r \in Ports \ {p} }
<1>1. heap = SenderCells \cup ReceiverCells(p) \cup others
  BY DEF HeapOwned
<1>2. others' = others
  OBVIOUS
<1>3. ReceiverCells(p)' \cup others' = UNION { ReceiverCells(r)' : r \in Ports }
  OBVIOUS
<1>. HIDE DEF others
<1>4. heap' = SenderCells' \cup ReceiverCells(p)' \cup others'
  BY <1>1, <1>2
<1>. QED  BY <1>3, <1>4 DEF HeapOwned

LEMMA SameSender ==
  ASSUME UNCHANGED <<pc, at, seq>>
  PROVE  UNCHANGED SenderCells
BY DEF SenderCells, Cur, Raft, Original

LEMMA SameHeap ==
  ASSUME HeapOwned, UNCHANGED <<SenderCells, heap>>,
         \A p \in Ports : ReceiverCells(p)' = ReceiverCells(p)
  PROVE  HeapOwned'
BY DEF HeapOwned

(* What a receiver owns is neither the sender's nor another receiver's.    *)
LEMMA ReceiverOwnsAlone ==
  ASSUME IInv, InOrder, NEW p \in Ports, NEW c \in ReceiverCells(p)
  PROVE  /\ c \notin SenderCells
         /\ \A r \in Ports \ {p} : c \notin ReceiverCells(r)
<1>1. c \notin SenderCells
  <2>1. CASE pc \in {"place", "fill"}
    <3>1. SenderCells \subseteq {OutMsg(Cur, Original)}
      BY <2>1 DEF SenderCells
    <3>2. c # OutMsg(Cur, Original)
      BY ReceiverOwns, CellsApart
    <3>. QED  BY <3>1, <3>2
  <2>2. CASE pc \notin {"place", "fill"}
    <3>1. SenderCells \subseteq {OutMsg(Cur, Original), OutData(Cur, Original),
                                 OutData(Cur, at), SendBuf(Cur, at)}
      BY DEF SenderCells
    <3>. QED  BY <2>2, <3>1, SenderOwns DEF ReceiversCells
  <2>. QED  BY <2>1, <2>2
<1>2. ASSUME NEW r \in Ports \ {p}, c \in ReceiverCells(r) PROVE FALSE
  <2>1. \/ \E s : c \in {OutData(s, p), InMsg(s, p), InData(s, p)}
    BY ReceiverOwns
  <2>2. \/ \E s : c \in {OutData(s, r), InMsg(s, r), InData(s, r)}
    BY <1>2, ReceiverOwns
  <2>. QED  BY <2>1, <2>2, CellsApart
<1>. QED  BY <1>1, <1>2

(* So a receiver may free what is its own.                                 *)
LEMMA ReceiverFrees ==
  ASSUME IInv, InOrder, HeapOwned, NEW p \in Ports, NEW c \in ReceiverCells(p),
         heap' = heap \ {c}, ReceiverCells(p)' = ReceiverCells(p) \ {c},
         UNCHANGED SenderCells,
         \A r \in Ports \ {p} : ReceiverCells(r)' = ReceiverCells(r)
  PROVE  HeapOwned'
<1>. DEFINE others == UNION { ReceiverCells(r) : r \in Ports \ {p} }
<1>1. heap = SenderCells \cup ReceiverCells(p) \cup others
  BY DEF HeapOwned
<1>2. others' = others /\ c \notin others /\ c \notin SenderCells
  BY ReceiverOwnsAlone
<1>3. ReceiverCells(p)' \cup others' = UNION { ReceiverCells(r)' : r \in Ports }
  OBVIOUS
<1>. HIDE DEF others
<1>4. heap' = SenderCells' \cup ReceiverCells(p)' \cup others'
  BY <1>1, <1>2
<1>. QED  BY <1>3, <1>4 DEF HeapOwned

LEMMA CheckEmptyHeap ==
  ASSUME NEW p \in Ports PROVE IInv /\ InOrder /\ HeapOwned /\ CheckEmpty(p) => HeapOwned'
<1>. SUFFICES ASSUME IInv, HeapOwned, CheckEmpty(p) PROVE HeapOwned'
  OBVIOUS
<1>1. ReceiverCells(p)' = ReceiverCells(p)
  BY DEF CheckEmpty, ReceiverCells, Released, Raft, IInv, TypeOK
<1>2. \A r \in Ports \ {p} : ReceiverCells(r)' = ReceiverCells(r)
  BY SameReceiver DEF CheckEmpty, IInv, TypeOK
<1>. QED  BY <1>1, <1>2, SameSender, SameHeap DEF CheckEmpty

LEMMA PeekHeap ==
  ASSUME NEW p \in Ports PROVE IInv /\ InOrder /\ HeapOwned /\ Peek(p) => HeapOwned'
<1>. SUFFICES ASSUME IInv, HeapOwned, Peek(p) PROVE HeapOwned'
  OBVIOUS
<1>1. ReceiverCells(p)' = ReceiverCells(p)
  BY DEF Peek, ReceiverCells, Released, Raft, IInv, TypeOK
<1>2. \A r \in Ports \ {p} : ReceiverCells(r)' = ReceiverCells(r)
  BY SameReceiver DEF Peek, IInv, TypeOK
<1>. QED  BY <1>1, <1>2, SameSender, SameHeap DEF Peek

LEMMA ReceiveHeap ==
  ASSUME NEW p \in Ports PROVE IInv /\ InOrder /\ HeapOwned /\ Receive(p) => HeapOwned'
<1>. SUFFICES ASSUME IInv, HeapOwned, Receive(p) PROVE HeapOwned'
  OBVIOUS
<1>1. PICK i \in 1..Len(queue[p]) :
        /\ held' = [held EXCEPT ![p] = queue[p][i]]
        /\ queue' = [queue EXCEPT ![p] = RemoveAt(@, i)]
        /\ heap' = heap \cup {InMsg(queue[p][i], p), InData(queue[p][i], p)}
  BY DEF Receive
<1>. DEFINE new == {InMsg(queue[p][i], p), InData(queue[p][i], p)}
<1>2. ReceiverCells(p) = {} /\ ReceiverCells(p)' = new
  BY <1>1 DEF Receive, ReceiverCells, Raft, IInv, TypeOK
<1>3. \A r \in Ports \ {p} : ReceiverCells(r)' = ReceiverCells(r)
  BY <1>1, SameReceiver DEF Receive, IInv, TypeOK
<1>4. UNCHANGED SenderCells
  BY SameSender DEF Receive
<1>. HIDE DEF new
<1>5. heap' = heap \cup new /\ ReceiverCells(p)' = ReceiverCells(p) \cup new
  BY <1>1, <1>2 DEF new
<1>. QED  BY <1>3, <1>4, <1>5, ReceiverGrows

(* The frame the receiver holds is none of those it has still to read.     *)
LEMMA ReleaseHeap ==
  ASSUME NEW p \in Ports PROVE IInv /\ InOrder /\ HeapOwned /\ Release(p) => HeapOwned'
<1>. SUFFICES ASSUME IInv, InOrder, HeapOwned, Release(p) PROVE HeapOwned'
  OBVIOUS
<1>. DEFINE c == Pixels(held[p], p)
<1>1. /\ rpc[p] = "use" /\ rpc'[p] = "free"
      /\ heap' = heap \ {c} /\ UNCHANGED <<pc, at, seq, queue, held>>
      /\ \A r \in Ports \ {p} : rpc'[r] = rpc[r]
  BY DEF Release, IInv, TypeOK
<1>2. c \in ReceiverCells(p) /\ ReceiverCells(p)' = ReceiverCells(p) \ {c}
  <2>1. CASE Raft(p)
    <3>. DEFINE n == Len(queue[p])
    <3>1. /\ queue[p] \in Seq(0..(MaxSeq - 1)) /\ n \in Nat /\ n > 0
          /\ held[p] = queue[p][1]
      BY <1>1, <2>1, LenProperties, EmptySeq DEF IInv, TypeOK, ReceiverOK
    <3>2. \A i \in 2..n : queue[p][1] < queue[p][i] /\ queue[p][i] \in Nat
      <4>1. p \in FifoPorts
        BY <2>1 DEF Raft, FifoPorts
      <4>2. \A i, j \in 1..n : i < j => queue[p][i] < queue[p][j]
        BY <4>1, ChannelRestated DEF InOrder, Ordered
      <4>3. \A i \in 1..n : queue[p][i] \in Nat
        BY <3>1, ElementOfSeq, SizesAssumption
      <4>. QED  BY <3>1, <4>2, <4>3
    <3>3. ReceiverCells(p) = { OutData(queue[p][i], p) : i \in 1..n }
      BY <1>1, <2>1 DEF ReceiverCells, Released
    <3>4. ReceiverCells(p)' = { OutData(queue[p][i], p) : i \in 2..n }
      BY <1>1, <2>1 DEF ReceiverCells, Released, Raft
    <3>5. c = OutData(queue[p][1], p)
      BY <2>1, <3>1 DEF Pixels
    <3>6. \A i \in 1..n : i = 1 \/ (i \in 2..n /\ OutData(queue[p][i], p) # c)
      BY <3>1, <3>2, <3>5, CellsApart
    <3>. HIDE DEF c
    <3>. QED  BY <3>1, <3>3, <3>4, <3>5, <3>6
  <2>2. CASE ~Raft(p)
    BY <1>1, <2>2, CellsApart DEF ReceiverCells, Raft, Pixels
  <2>. QED  BY <2>1, <2>2
<1>3. \A r \in Ports \ {p} : ReceiverCells(r)' = ReceiverCells(r)
  BY <1>1, SameReceiver
<1>4. UNCHANGED SenderCells
  BY <1>1, SameSender
<1>. HIDE DEF c
<1>. QED  BY <1>1, <1>2, <1>3, <1>4, ReceiverFrees

LEMMA FreeInputHeap ==
  ASSUME NEW p \in Ports PROVE IInv /\ InOrder /\ HeapOwned /\ FreeInput(p) => HeapOwned'
<1>. SUFFICES ASSUME IInv, InOrder, HeapOwned, FreeInput(p) PROVE HeapOwned'
  OBVIOUS
<1>1. /\ rpc[p] = "free" /\ rpc'[p] = "get" /\ UNCHANGED <<pc, at, seq, held>>
      /\ \A r \in Ports \ {p} : rpc'[r] = rpc[r] /\ queue'[r] = queue[r]
  BY DEF FreeInput, IInv, TypeOK
<1>2. \A r \in Ports \ {p} : ReceiverCells(r)' = ReceiverCells(r)
  BY <1>1, SameReceiver
<1>3. UNCHANGED SenderCells
  BY <1>1, SameSender
<1>4. CASE Raft(p)
  <2>. DEFINE n == Len(queue[p])
  <2>1. /\ queue[p] \in Seq(0..(MaxSeq - 1)) /\ n \in Nat /\ n > 0
        /\ queue'[p] = Tail(queue[p]) /\ UNCHANGED heap
    BY <1>1, <1>4, LenProperties, EmptySeq DEF FreeInput, IInv, TypeOK, ReceiverOK
  <2>2. /\ Len(queue'[p]) = n - 1
        /\ \A i \in 1..(n - 1) : queue'[p][i] = queue[p][i + 1]
    BY <2>1, EmptySeq, HeadTailProperties
  <2>3. ReceiverCells(p) = { OutData(queue[p][i], p) : i \in 2..n }
    BY <1>1, <1>4 DEF ReceiverCells, Released
  <2>4. ReceiverCells(p)' = { OutData(queue'[p][i], p) : i \in 1..(n - 1) }
    BY <1>1, <1>4, <2>2 DEF ReceiverCells, Released, Raft
  <2>5. ReceiverCells(p)' = { OutData(queue[p][i + 1], p) : i \in 1..(n - 1) }
    BY <2>2, <2>4
  <2>6. /\ \A i \in 1..(n - 1) : i + 1 \in 2..n
        /\ \A i \in 2..n : i - 1 \in 1..(n - 1) /\ (i - 1) + 1 = i
    BY <2>1
  <2>7. ReceiverCells(p)' = ReceiverCells(p)
    BY <2>3, <2>5, <2>6
  <2>. QED  BY <1>2, <1>3, <2>1, <2>7, SameHeap
<1>5. CASE ~Raft(p)
  <2>. DEFINE c == InMsg(held[p], p)
  <2>1. heap' = heap \ {c}
    BY <1>5 DEF FreeInput
  <2>2. c \in ReceiverCells(p) /\ ReceiverCells(p)' = ReceiverCells(p) \ {c}
    BY <1>1, <1>5 DEF ReceiverCells, Raft
  <2>. HIDE DEF c
  <2>. QED  BY <1>2, <1>3, <2>1, <2>2, ReceiverFrees
<1>. QED  BY <1>4, <1>5

LEMMA LoseHeap ==
  ASSUME NEW p \in Ports PROVE IInv /\ InOrder /\ HeapOwned /\ Lose(p) => HeapOwned'
<1>. SUFFICES ASSUME IInv, HeapOwned, Lose(p) PROVE HeapOwned'
  OBVIOUS
<1>1. \A r \in Ports : ReceiverCells(r)' = ReceiverCells(r)
  BY SameReceiver DEF Lose, Raft, IInv, TypeOK
<1>. QED  BY <1>1, SameSender, SameHeap DEF Lose

LEMMA HeapInit == Init => HeapOwned
<1>. SUFFICES ASSUME Init PROVE HeapOwned
  OBVIOUS
<1>1. SenderCells = {}
  BY DEF Init, SenderCells
<1>2. \A p \in Ports : ReceiverCells(p) = {}
  BY DEF Init, ReceiverCells, Released
<1>. QED  BY <1>1, <1>2 DEF Init, HeapOwned

LEMMA HeapStep == IInv /\ InOrder /\ HeapOwned /\ [Next]_vars => HeapOwned'
<1>. SUFFICES ASSUME IInv, InOrder, HeapOwned, [Next]_vars PROVE HeapOwned'
  OBVIOUS
<1>1. CASE Send
  BY <1>1, PlaceHeap, FillHeap, CheckHeap, CopyHeap, PublishHeap, SerializeHeap,
     TransmitHeap DEF Send
<1>2. CASE \E p \in Ports : Consume(p) \/ Lose(p)
  BY <1>2, CheckEmptyHeap, PeekHeap, ReceiveHeap, ReleaseHeap, FreeInputHeap,
     LoseHeap DEF Consume
<1>3. CASE UNCHANGED vars
  <2>1. \A p \in Ports : ReceiverCells(p)' = ReceiverCells(p)
    BY <1>3, SameReceiver DEF vars
  <2>. QED  BY <1>3, <2>1, SameSender, SameHeap DEF vars
<1>. QED  BY <1>1, <1>2, <1>3 DEF Next, Finished

(* For any fan-out of any ports, every message object and pixel buffer is  *)
(* there for as long as a kernel, a clone or a stream still needs it, and  *)
(* is freed by then: the duplicates are served from pixels the original    *)
(* port has not freed, and a receiver frees only what is its own.          *)
THEOREM HeapIsOwned == Spec => []HeapOwned
BY HeapInit, HeapStep, Invariance, FramesInOrder, PTL DEF Spec
=============================================================================
