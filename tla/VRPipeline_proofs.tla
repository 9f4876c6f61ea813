-------------------------- MODULE VRPipeline_proofs --------------------------
(***************************************************************************)
(* Theorems about VRPipeline, for queues of any size, any number of images *)
(* and whichever measurements are too large.                               *)
(***************************************************************************)
EXTENDS VRPipeline, SequenceTheorems, FiniteSetTheorems, TLAPS

(* Messages the reader is done with, and those the estimator has taken.    *)
FramesSent  == IF reader = "sendFrame" THEN seq - 1 ELSE seq
ImusOffered == IF reader \in {"sendFrame", "sendImus"} THEN seq - 1 ELSE seq
FramesTaken == FramesSent - Len(frameQ)
ImusTaken   == ImusOffered - Cardinality(lost) - Len(imuQ)

Below(L, n) == { k \in L : k < n }

(* A message that is being sent has a number, and only measurements that   *)
(* were offered are lost.                                                  *)
ReaderOK ==
  /\ reader \in {"sendFrame", "sendImus"} => seq > 0
  /\ IsFiniteSet(lost)
  /\ \A k \in lost : k < ImusOffered

(* The frames in flight are consecutive.                                   *)
FramesOK ==
  /\ FramesTaken >= 0
  /\ \A i \in 1..Len(frameQ) : frameQ[i] = FramesTaken + i - 1
  /\ estimator \in {"getImus", "track"} => inFrame = FramesTaken - 1

(* The i-th measurements in flight are the i-th to come that are not lost; *)
(* the estimator takes as many of them as frames.                          *)
ImusOK ==
  /\ ImusTaken = IF estimator = "getImus" THEN FramesTaken - 1 ELSE FramesTaken
  /\ \A i \in 1..Len(imuQ) : /\ imuQ[i] < ImusOffered
                             /\ imuQ[i] = ImusTaken + i - 1 + Cardinality(Below(lost, imuQ[i]))
  /\ estimator = "track" => /\ inImus < ImusOffered
                            /\ inImus = ImusTaken - 1 + Cardinality(Below(lost, inImus))

IInv == TypeOK /\ ReaderOK /\ FramesOK /\ ImusOK
-----------------------------------------------------------------------------
(* The numbers the invariant speaks of are natural.                        *)
LEMMA Counts ==
  ASSUME IInv
  PROVE  /\ Len(frameQ) \in Nat /\ Len(imuQ) \in Nat /\ Cardinality(lost) \in Nat
         /\ FramesSent \in Nat /\ ImusOffered \in Nat
         /\ FramesTaken \in Int /\ ImusTaken \in Int
         /\ \A i \in 1..Len(frameQ) : frameQ[i] \in 0..(TotalImgs - 1)
         /\ \A i \in 1..Len(imuQ) : imuQ[i] \in 0..(TotalImgs - 1)
<1>1. Len(frameQ) \in Nat /\ Len(imuQ) \in Nat
  BY LenProperties DEF IInv, TypeOK
<1>2. Cardinality(lost) \in Nat
  BY FS_CardinalityType DEF IInv, ReaderOK
<1>3. FramesSent \in Nat /\ ImusOffered \in Nat
  BY DEF IInv, TypeOK, ReaderOK, FramesSent, ImusOffered
<1>4. /\ \A i \in 1..Len(frameQ) : frameQ[i] \in 0..(TotalImgs - 1)
      /\ \A i \in 1..Len(imuQ) : imuQ[i] \in 0..(TotalImgs - 1)
  BY ElementOfSeq DEF IInv, TypeOK
<1>. QED  BY <1>1, <1>2, <1>3, <1>4 DEF FramesTaken, ImusTaken

LEMMA LostBeforeType ==
  ASSUME IInv
  PROVE  \A n : Cardinality(Below(lost, n)) \in Nat
<1>1. \A n : Below(lost, n) \subseteq lost
  BY DEF Below
<1>. QED  BY <1>1, FS_Subset, FS_CardinalityType DEF IInv, ReaderOK

(* All that were lost precede the next measurements.                       *)
LEMMA AllLostBefore ==
  ASSUME IInv
  PROVE  Cardinality(Below(lost, ImusOffered)) = Cardinality(lost)
<1>1. Below(lost, ImusOffered) = lost
  BY DEF IInv, ReaderOK, Below
<1>. QED  BY <1>1

LEMMA InitIInv == Init => IInv
<1>. SUFFICES ASSUME Init PROVE IInv
  OBVIOUS
<1>1. IsFiniteSet(lost) /\ Cardinality(lost) = 0
  BY FS_EmptySet DEF Init
<1>2. Len(frameQ) = 0 /\ Len(imuQ) = 0
  BY DEF Init
<1>3. TypeOK
  BY QueuesAssumption DEF Init, TypeOK
<1>. QED  BY <1>1, <1>2, <1>3
          DEF Init, IInv, ReaderOK, FramesOK, ImusOK, FramesSent, ImusOffered,
              FramesTaken, ImusTaken

(* Load takes a number and leaves everything else as it is.                *)
LEMMA LoadIInv == IInv /\ Load => IInv'
<1>. SUFFICES ASSUME IInv, Load PROVE IInv'
  OBVIOUS
<1>1. UNCHANGED <<FramesSent, ImusOffered, FramesTaken, ImusTaken>>
  BY DEF Load, IInv, TypeOK, FramesSent, ImusOffered, FramesTaken, ImusTaken
<1>2. TypeOK'
  BY QueuesAssumption DEF Load, IInv, TypeOK
<1>3. ReaderOK'
  BY <1>1 DEF Load, IInv, TypeOK, ReaderOK
<1>4. FramesOK' /\ ImusOK'
  BY <1>1 DEF Load, IInv, FramesOK, ImusOK
<1>. QED  BY <1>2, <1>3, <1>4 DEF IInv

LEMMA SendFrameIInv == IInv /\ SendFrame => IInv'
<1>. SUFFICES ASSUME IInv, SendFrame PROVE IInv'
  OBVIOUS
<1>1. /\ reader = "sendFrame" /\ reader' = "sendImus" /\ seq \in 1..TotalImgs
      /\ Len(frameQ) < FrameQueue /\ frameQ' = Append(frameQ, seq - 1)
      /\ UNCHANGED <<seq, imuQ, estimator, inFrame, inImus, lost>>
  BY QueuesAssumption DEF SendFrame, Room, IInv, TypeOK, ReaderOK
<1>2. /\ frameQ' \in Seq(0..(TotalImgs - 1)) /\ Len(frameQ') = Len(frameQ) + 1
      /\ \A i \in 1..Len(frameQ) : frameQ'[i] = frameQ[i]
      /\ frameQ'[Len(frameQ) + 1] = seq - 1
  BY <1>1, AppendProperties, QueuesAssumption DEF IInv, TypeOK
<1>3. /\ FramesSent = seq - 1 /\ FramesSent' = seq
      /\ FramesTaken' = FramesTaken /\ ImusOffered' = ImusOffered
      /\ ImusTaken' = ImusTaken
  BY <1>1, <1>2, Counts DEF FramesSent, ImusOffered, FramesTaken, ImusTaken
<1>4. TypeOK'
  BY <1>1, <1>2, Counts, QueuesAssumption DEF IInv, TypeOK
<1>5. ReaderOK'
  BY <1>1, <1>3 DEF IInv, ReaderOK
<1>6. FramesOK'
  <2>1. frameQ'[Len(frameQ) + 1] = FramesTaken + (Len(frameQ) + 1) - 1
    BY <1>2, <1>3, Counts DEF FramesTaken
  <2>. QED  BY <1>1, <1>2, <1>3, <2>1, Counts DEF IInv, FramesOK
<1>7. ImusOK'
  BY <1>1, <1>3 DEF IInv, ImusOK
<1>. QED  BY <1>4, <1>5, <1>6, <1>7 DEF IInv

LEMMA SendImusIInv == IInv /\ SendImus => IInv'
<1>. SUFFICES ASSUME IInv, SendImus PROVE IInv'
  OBVIOUS
<1>1. /\ reader = "sendImus" /\ reader' = "load" /\ seq \in 1..TotalImgs
      /\ Len(imuQ) < ImuQueue /\ imuQ' = Append(imuQ, seq - 1)
      /\ UNCHANGED <<seq, frameQ, estimator, inFrame, inImus, lost>>
  BY QueuesAssumption DEF SendImus, Room, IInv, TypeOK, ReaderOK
<1>2. /\ imuQ' \in Seq(0..(TotalImgs - 1)) /\ Len(imuQ') = Len(imuQ) + 1
      /\ \A i \in 1..Len(imuQ) : imuQ'[i] = imuQ[i]
      /\ imuQ'[Len(imuQ) + 1] = seq - 1
  BY <1>1, AppendProperties, QueuesAssumption DEF IInv, TypeOK
<1>3. /\ ImusOffered = seq - 1 /\ ImusOffered' = seq
      /\ FramesTaken' = FramesTaken /\ ImusTaken' = ImusTaken
  BY <1>1, <1>2, Counts DEF FramesSent, ImusOffered, FramesTaken, ImusTaken
<1>4. TypeOK'
  BY <1>1, <1>2, Counts, QueuesAssumption DEF IInv, TypeOK
<1>5. ReaderOK' /\ FramesOK'
  BY <1>1, <1>3 DEF IInv, TypeOK, ReaderOK, FramesOK
<1>6. ImusOK'
  <2>1. seq - 1 = ImusTaken + (Len(imuQ) + 1) - 1 + Cardinality(Below(lost, seq - 1))
    BY <1>3, Counts, AllLostBefore DEF ImusTaken
  <2>2. ASSUME NEW i \in 1..Len(imuQ')
        PROVE  /\ imuQ'[i] < ImusOffered'
               /\ imuQ'[i] = ImusTaken + i - 1 + Cardinality(Below(lost, imuQ'[i]))
    <3>1. CASE i \in 1..Len(imuQ)
      <4>1. /\ imuQ[i] < ImusOffered
            /\ imuQ[i] = ImusTaken + i - 1 + Cardinality(Below(lost, imuQ[i]))
        BY <3>1 DEF IInv, ImusOK
      <4>2. imuQ'[i] = imuQ[i] /\ imuQ[i] \in Int
        BY <1>2, <3>1, Counts
      <4>3. imuQ'[i] < ImusOffered'
        BY <1>1, <1>3, <4>1, <4>2
      <4>. QED  BY <4>1, <4>2, <4>3
    <3>2. CASE i = Len(imuQ) + 1
      BY <1>1, <1>2, <1>3, <2>1, <3>2
    <3>. QED  BY <1>2, <3>1, <3>2, Counts
  <2>3. estimator = "track" => inImus < ImusOffered'
    BY <1>1, <1>3 DEF IInv, TypeOK, ImusOK
  <2>. QED  BY <1>1, <1>3, <2>2, <2>3 DEF IInv, ImusOK
<1>. QED  BY <1>4, <1>5, <1>6 DEF IInv

(* What is dropped comes after everything in flight.                       *)
LEMMA DropImusIInv == IInv /\ DropImus => IInv'
<1>. SUFFICES ASSUME IInv, DropImus PROVE IInv'
  OBVIOUS
<1>1. /\ reader = "sendImus" /\ reader' = "load" /\ seq \in 2..TotalImgs
      /\ lost' = lost \cup {seq - 1}
      /\ UNCHANGED <<seq, frameQ, imuQ, estimator, inFrame, inImus>>
  BY QueuesAssumption DEF DropImus, IInv, TypeOK
<1>2. /\ ImusOffered = seq - 1 /\ ImusOffered' = seq
      /\ seq - 1 \notin lost
  BY <1>1 DEF ImusOffered, IInv, TypeOK, ReaderOK
<1>3. IsFiniteSet(lost') /\ Cardinality(lost') = Cardinality(lost) + 1
  BY <1>1, <1>2, FS_AddElement DEF IInv, ReaderOK
<1>4. FramesTaken' = FramesTaken /\ ImusTaken' = ImusTaken
  BY <1>1, <1>2, <1>3, Counts DEF FramesSent, FramesTaken, ImusTaken
<1>5. TypeOK'
  BY <1>1, QueuesAssumption DEF IInv, TypeOK
<1>6. ReaderOK'
  BY <1>1, <1>2, <1>3 DEF IInv, TypeOK, ReaderOK
<1>7. FramesOK'
  BY <1>1, <1>4 DEF IInv, FramesOK
<1>8. ImusOK'
  <2>1. ASSUME NEW n \in Int, n < ImusOffered PROVE Below(lost', n) = Below(lost, n)
    BY <1>1, <1>2, <2>1 DEF Below
  <2>2. ASSUME NEW i \in 1..Len(imuQ)
        PROVE  /\ imuQ[i] < ImusOffered'
               /\ imuQ[i] = ImusTaken + i - 1 + Cardinality(Below(lost', imuQ[i]))
    <3>1. /\ imuQ[i] \in Int /\ imuQ[i] < ImusOffered
          /\ imuQ[i] = ImusTaken + i - 1 + Cardinality(Below(lost, imuQ[i]))
      BY Counts DEF IInv, ImusOK
    <3>2. Below(lost', imuQ[i]) = Below(lost, imuQ[i])
      BY <2>1, <3>1
    <3>3. imuQ[i] < ImusOffered'
      BY <1>1, <1>2, <3>1
    <3>. QED  BY <3>1, <3>2, <3>3
  <2>3. estimator = "track" =>
          /\ inImus < ImusOffered'
          /\ inImus = ImusTaken - 1 + Cardinality(Below(lost', inImus))
    <3>1. SUFFICES ASSUME estimator = "track"
                   PROVE  /\ inImus < ImusOffered'
                          /\ inImus = ImusTaken - 1 + Cardinality(Below(lost', inImus))
      OBVIOUS
    <3>2. /\ inImus \in Int /\ inImus < ImusOffered
          /\ inImus = ImusTaken - 1 + Cardinality(Below(lost, inImus))
      BY <3>1 DEF IInv, TypeOK, ImusOK
    <3>3. Below(lost', inImus) = Below(lost, inImus)
      BY <2>1, <3>2
    <3>4. inImus < ImusOffered'
      BY <1>1, <1>2, <3>2
    <3>. QED  BY <3>2, <3>3, <3>4
  <2>. QED  BY <1>1, <1>4, <2>2, <2>3 DEF IInv, ImusOK
<1>. QED  BY <1>5, <1>6, <1>7, <1>8 DEF IInv
-----------------------------------------------------------------------------
LEMMA GetFrameIInv == IInv /\ GetFrame => IInv'
<1>. SUFFICES ASSUME IInv, GetFrame PROVE IInv'
  OBVIOUS
<1>1. /\ estimator = "getFrame" /\ estimator' = "getImus"
      /\ frameQ # << >> /\ frameQ \in Seq(0..(TotalImgs - 1))
      /\ inFrame' = Head(frameQ) /\ frameQ' = Tail(frameQ)
      /\ UNCHANGED <<reader, seq, imuQ, inImus, lost>>
  BY DEF GetFrame, IInv, TypeOK
<1>2. /\ Len(frameQ) > 0 /\ inFrame' = frameQ[1]
      /\ frameQ' \in Seq(0..(TotalImgs - 1)) /\ Len(frameQ') = Len(frameQ) - 1
      /\ \A i \in 1..Len(frameQ') : frameQ'[i] = frameQ[i + 1]
  BY <1>1, HeadTailProperties, EmptySeq, Counts
<1>3. /\ FramesTaken' = FramesTaken + 1 /\ FramesTaken >= 0
      /\ ImusOffered' = ImusOffered /\ ImusTaken' = ImusTaken
  BY <1>1, <1>2, Counts
     DEF IInv, FramesOK, FramesSent, ImusOffered, FramesTaken, ImusTaken
<1>4. inFrame' = FramesTaken /\ inFrame' \in 0..(TotalImgs - 1)
  BY <1>2, Counts DEF IInv, FramesOK
<1>5. TypeOK'
  BY <1>1, <1>2, <1>4, Counts, QueuesAssumption DEF IInv, TypeOK
<1>6. ReaderOK'
  BY <1>1, <1>3 DEF IInv, ReaderOK
<1>7. FramesOK'
  BY <1>1, <1>2, <1>3, <1>4, Counts DEF IInv, FramesOK
<1>8. ImusOK'
  BY <1>1, <1>3, Counts DEF IInv, ImusOK
<1>. QED  BY <1>5, <1>6, <1>7, <1>8 DEF IInv

LEMMA GetImusIInv == IInv /\ GetImus => IInv'
<1>. SUFFICES ASSUME IInv, GetImus PROVE IInv'
  OBVIOUS
<1>1. /\ estimator = "getImus" /\ estimator' = "track"
      /\ imuQ # << >> /\ imuQ \in Seq(0..(TotalImgs - 1))
      /\ inImus' = Head(imuQ) /\ imuQ' = Tail(imuQ)
      /\ UNCHANGED <<reader, seq, frameQ, inFrame, lost>>
  BY DEF GetImus, IInv, TypeOK
<1>2. /\ Len(imuQ) > 0 /\ inImus' = imuQ[1]
      /\ imuQ' \in Seq(0..(TotalImgs - 1)) /\ Len(imuQ') = Len(imuQ) - 1
      /\ \A i \in 1..Len(imuQ') : imuQ'[i] = imuQ[i + 1]
  BY <1>1, HeadTailProperties, EmptySeq, Counts
<1>3. /\ ImusTaken' = ImusTaken + 1 /\ ImusOffered' = ImusOffered
      /\ FramesTaken' = FramesTaken
  BY <1>1, <1>2, Counts DEF FramesSent, ImusOffered, FramesTaken, ImusTaken
<1>4. /\ inImus' \in 0..(TotalImgs - 1) /\ inImus' < ImusOffered
      /\ inImus' = ImusTaken + Cardinality(Below(lost, inImus'))
  <2>1. imuQ[1] = ImusTaken + 1 - 1 + Cardinality(Below(lost, imuQ[1]))
    BY <1>2, Counts DEF IInv, ImusOK
  <2>. QED  BY <1>2, <2>1, Counts DEF IInv, ImusOK
<1>5. TypeOK'
  BY <1>1, <1>2, <1>4, Counts, QueuesAssumption DEF IInv, TypeOK
<1>6. ReaderOK' /\ FramesOK'
  BY <1>1, <1>3 DEF IInv, ReaderOK, FramesOK
<1>7. ImusOK'
  <2>1. ASSUME NEW i \in 1..Len(imuQ')
        PROVE  /\ imuQ'[i] < ImusOffered
               /\ imuQ'[i] = (ImusTaken + 1) + i - 1 + Cardinality(Below(lost, imuQ'[i]))
    <3>1. i \in Nat /\ i + 1 \in 1..Len(imuQ) /\ imuQ'[i] = imuQ[i + 1]
      BY <1>2, Counts
    <3>2. /\ imuQ[i + 1] < ImusOffered
          /\ imuQ[i + 1] = ImusTaken + (i + 1) - 1 + Cardinality(Below(lost, imuQ[i + 1]))
      BY <3>1 DEF IInv, ImusOK
    <3>3. Cardinality(Below(lost, imuQ[i + 1])) \in Nat
      BY LostBeforeType
    <3>. QED  BY <3>1, <3>2, <3>3, Counts
  <2>2. ImusTaken' = FramesTaken'
    BY <1>1, <1>3, Counts DEF IInv, ImusOK
  <2>3. inImus' = (ImusTaken + 1) - 1 + Cardinality(Below(lost, inImus'))
    BY <1>4, LostBeforeType, Counts
  <2>. QED  BY <1>1, <1>3, <1>4, <2>1, <2>2, <2>3 DEF ImusOK
<1>. QED  BY <1>5, <1>6, <1>7 DEF IInv

LEMMA TrackIInv == IInv /\ Track => IInv'
<1>. SUFFICES ASSUME IInv, Track PROVE IInv'
  OBVIOUS
<1>1. UNCHANGED <<FramesSent, ImusOffered, FramesTaken, ImusTaken>>
  BY DEF Track, FramesSent, ImusOffered, FramesTaken, ImusTaken
<1>2. TypeOK' /\ ReaderOK'
  BY <1>1 DEF Track, IInv, TypeOK, ReaderOK
<1>3. FramesOK' /\ ImusOK'
  BY <1>1 DEF Track, IInv, FramesOK, ImusOK
<1>. QED  BY <1>2, <1>3 DEF IInv

LEMMA NextIInv == IInv /\ [Next]_vars => IInv'
<1>. SUFFICES ASSUME IInv, [Next]_vars PROVE IInv'
  OBVIOUS
<1>1. CASE Reader
  BY <1>1, LoadIInv, SendFrameIInv, SendImusIInv, DropImusIInv DEF Reader
<1>2. CASE Estimator
  BY <1>2, GetFrameIInv, GetImusIInv, TrackIInv DEF Estimator
<1>3. CASE UNCHANGED vars
  <2>1. UNCHANGED <<FramesSent, ImusOffered, FramesTaken, ImusTaken>>
    BY <1>3 DEF vars, FramesSent, ImusOffered, FramesTaken, ImusTaken
  <2>. QED  BY <1>3, <2>1
            DEF vars, IInv, TypeOK, ReaderOK, FramesOK, ImusOK
<1>. QED  BY <1>1, <1>2, <1>3 DEF Next

THEOREM Invariance == Spec => []IInv
BY InitIInv, NextIInv, PTL DEF Spec

(* Every variable keeps its type and neither queue is ever overfilled.     *)
THEOREM TypeCorrect == Spec => []TypeOK
<1>1. IInv => TypeOK
  BY DEF IInv
<1>. QED  BY <1>1, Invariance, PTL

(* Whatever the queues hold and whichever measurements are dropped, the    *)
(* estimator tracks an image with measurements that are newer by exactly   *)
(* the number of those dropped before them, and so never with its own      *)
(* again after the first loss.                                             *)
THEOREM PairsShift == Spec => []ShiftedByLosses
<1>1. IInv => ShiftedByLosses
  <2>. SUFFICES ASSUME IInv, estimator = "track"
                PROVE  inImus = inFrame + Cardinality(Below(lost, inImus))
    BY DEF ShiftedByLosses, Below
  <2>1. inFrame = FramesTaken - 1 /\ ImusTaken = FramesTaken
    BY DEF IInv, FramesOK, ImusOK
  <2>. QED  BY <2>1, Counts, LostBeforeType DEF IInv, TypeOK, ImusOK
<1>. QED  BY <1>1, Invariance, PTL

(* The two kernels wait for each other only once more measurements were    *)
(* dropped than the frames' queue holds, for any size of the queues.       *)
THEOREM StuckNeedsLosses == Spec => []StuckOnlyAfterLosses
<1>1. IInv => StuckOnlyAfterLosses
  <2>. SUFFICES ASSUME IInv, Stuck
                PROVE  Cardinality(lost) > FrameQueue
    BY DEF StuckOnlyAfterLosses
  <2>1. Len(frameQ) = FrameQueue /\ Len(imuQ) = 0
    BY Counts, QueuesAssumption DEF Stuck, Room, IInv, TypeOK
  <2>2. ImusTaken = FramesTaken - 1 /\ FramesSent = ImusOffered
    BY DEF Stuck, IInv, ImusOK, FramesSent, ImusOffered
  <2>. QED  BY <2>1, <2>2, Counts, QueuesAssumption DEF FramesTaken, ImusTaken
<1>. QED  BY <1>1, Invariance, PTL
=============================================================================
