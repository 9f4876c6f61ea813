----------------------------- MODULE VRPipeline -----------------------------
(***************************************************************************)
(* The pipeline of examples/exp/vr1/slam_test.yaml: EurocMonoInertialReader*)
(* sends each image and the inertial measurements taken since the image    *)
(* before on two blocking shared-memory ports; OrbSlamPoseEstimator takes  *)
(* a message from each and tracks them together.  Nothing but the order    *)
(* says which measurements belong to which image, and a port drops a       *)
(* message that is larger than the elements of its queue.                  *)
(*                                                                         *)
(* Both kernels are single: each loops over run() in a thread of its own.  *)
(* The images have one size, which fits; the measurements between two      *)
(* images are as many as there are, so any of them but the first, which is *)
(* empty, may be too large for a queue of 512-byte elements, the default.  *)
(***************************************************************************)
EXTENDS Integers, Sequences, FiniteSets

CONSTANTS
  FrameQueue,   \* elements of the frames' shared-memory queue
  ImuQueue,     \* and of the measurements'
  TotalImgs     \* bound: images in the data set

ASSUME QueuesAssumption ==
  FrameQueue \in Nat \ {0} /\ ImuQueue \in Nat \ {0} /\ TotalImgs \in Nat

VARIABLES
  reader,    \* "load", "sendFrame", "sendImus" or "stopped"
  seq,       \* the image to load next
  frameQ, imuQ,
  estimator, \* "getFrame", "getImus" or "track"
  inFrame,   \* the numbers of the messages the estimator got last
  inImus,
  lost       \* history: the measurements that were too large

vars == <<reader, seq, frameQ, imuQ, estimator, inFrame, inImus, lost>>

(* A definition marked as a mutant is a changed form of the one after it.  *)

RoomSparesOne(q, size) == Len(q) < size - 1   \* mutant: one element unused

Room(q, size) == Len(q) < size
-----------------------------------------------------------------------------
(* EurocMonoInertialReader::run.                                           *)

Load ==
  /\ reader = "load"
  /\ IF seq >= TotalImgs THEN reader' = "stopped" /\ UNCHANGED seq
                         ELSE reader' = "sendFrame" /\ seq' = seq + 1
  /\ UNCHANGED <<frameQ, imuQ, estimator, inFrame, inImus, lost>>

SendFrameOrDrop ==   \* mutant: a frame is not waited for
  /\ reader = "sendFrame" /\ reader' = "sendImus"
  /\ frameQ' = IF Room(frameQ, FrameQueue) THEN Append(frameQ, seq - 1) ELSE frameQ
  /\ UNCHANGED <<seq, imuQ, estimator, inFrame, inImus, lost>>

SendFrameAlways ==   \* mutant: the queue is not bounded
  /\ reader = "sendFrame" /\ reader' = "sendImus"
  /\ frameQ' = Append(frameQ, seq - 1)
  /\ UNCHANGED <<seq, imuQ, estimator, inFrame, inImus, lost>>

SendFrame ==
  /\ reader = "sendFrame" /\ reader' = "sendImus"
  /\ Room(frameQ, FrameQueue)
  /\ frameQ' = Append(frameQ, seq - 1)
  /\ UNCHANGED <<seq, imuQ, estimator, inFrame, inImus, lost>>

(* sendSize <= shmPort.elemSize.                                           *)
SendImus ==
  /\ reader = "sendImus" /\ reader' = "load"
  /\ Room(imuQ, ImuQueue)
  /\ imuQ' = Append(imuQ, seq - 1)
  /\ UNCHANGED <<seq, frameQ, estimator, inFrame, inImus, lost>>

(* sendSize > shmPort.elemSize: the message is freed, the port returns.    *)
DropImus ==
  /\ reader = "sendImus" /\ reader' = "load"
  /\ seq > 1
  /\ lost' = lost \cup {seq - 1}
  /\ UNCHANGED <<seq, frameQ, imuQ, estimator, inFrame, inImus>>

Reader == Load \/ SendFrame \/ SendImus \/ DropImus
-----------------------------------------------------------------------------
(* OrbSlamPoseEstimator::run.                                              *)

GetFrame ==
  /\ estimator = "getFrame" /\ estimator' = "getImus"
  /\ frameQ # << >>
  /\ inFrame' = Head(frameQ) /\ frameQ' = Tail(frameQ)
  /\ UNCHANGED <<reader, seq, imuQ, inImus, lost>>

GetImus ==
  /\ estimator = "getImus" /\ estimator' = "track"
  /\ imuQ # << >>
  /\ inImus' = Head(imuQ) /\ imuQ' = Tail(imuQ)
  /\ UNCHANGED <<reader, seq, frameQ, inFrame, lost>>

(* The pose goes out by RTP, which never waits, if there is one.           *)
Track ==
  /\ estimator = "track" /\ estimator' = "getFrame"
  /\ UNCHANGED <<reader, seq, frameQ, imuQ, inFrame, inImus, lost>>

Estimator == GetFrame \/ GetImus \/ Track
-----------------------------------------------------------------------------
Init ==
  /\ reader = "load" /\ estimator = "getFrame"
  /\ seq = 0 /\ inFrame = 0 /\ inImus = 0
  /\ frameQ = << >> /\ imuQ = << >>
  /\ lost = {}

Next == Reader \/ Estimator

Spec == Init /\ [][Next]_vars

(* Each of the two kernels has a thread, which runs as long as it can.     *)
FairSpec == Spec /\ WF_vars(Reader) /\ WF_vars(Estimator)
-----------------------------------------------------------------------------
(* Every variable stays in its range and no queue overflows.               *)
TypeOK ==
  /\ reader \in {"load", "sendFrame", "sendImus", "stopped"}
  /\ seq \in 0..TotalImgs
  /\ frameQ \in Seq(0..(TotalImgs - 1)) /\ Len(frameQ) <= FrameQueue
  /\ imuQ \in Seq(0..(TotalImgs - 1)) /\ Len(imuQ) <= ImuQueue
  /\ estimator \in {"getFrame", "getImus", "track"}
  /\ inFrame \in 0..TotalImgs /\ inImus \in 0..TotalImgs
  /\ lost \subseteq 1..(TotalImgs - 1)

(* An image is tracked with measurements as many images newer than itself  *)
(* as measurements were dropped before: with its own as long as all fit,   *)
(* and never with its own again after the first that does not.             *)
ShiftedByLosses ==
  estimator = "track" =>
    inImus = inFrame + Cardinality({ k \in lost : k < inImus })

(* The reader waits for room for a frame while the estimator waits for     *)
(* measurements.                                                           *)
Stuck == /\ reader = "sendFrame" /\ ~Room(frameQ, FrameQueue)
         /\ estimator = "getImus" /\ imuQ = << >>

(* The two kernels never wait for each other before one more message has   *)
(* been dropped than the frames' queue holds: every loss leaves one more   *)
(* frame waiting for measurements of its own.                              *)
StuckOnlyAfterLosses == Stuck => Cardinality(lost) > FrameQueue

(* If all the measurements fit, every image is tracked.                    *)
EveryImageTracked ==
  [](lost = {}) =>
    \A k \in 0..(TotalImgs - 1) : <>(estimator = "track" /\ inFrame = k /\ inImus = k)
=============================================================================
