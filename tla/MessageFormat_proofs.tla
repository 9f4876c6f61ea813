------------------------ MODULE MessageFormat_proofs ------------------------
(* What a size tells of a message, for all sizes of the objects that keep  *)
(* to the assumption of MessageFormat.                                     *)
EXTENDS MessageFormat, TLAPS

(* A message that is sent whole is accepted by the port it is meant for,   *)
(* the payload of any size, though sizes wrap around.                      *)
THEOREM RoundTrip ==
  ASSUME NEW d \in uint32, NEW any
  PROVE  /\ deserializeRawFrame(serializeRawFrame(d, d))
         /\ deserializeEncodedFrame(serializeEncodedFrame(d, any))
<1>1. /\ Word \in Nat /\ FrameMeta \in Nat /\ PtrMeta \in Nat
      /\ FrameMeta < Word /\ PtrMeta < Word /\ d \in Nat /\ d < Word
  BY SizesAssumption DEF uint32
<1>2. Minus(Plus(FrameMeta, d), FrameMeta) = d
  BY <1>1 DEF Plus, Minus
<1>3. Minus(Plus(PtrMeta, d), PtrMeta) = d
  BY <1>1 DEF Plus, Minus
<1> QED
  BY <1>2, <1>3 DEF deserializeRawFrame, deserializeEncodedFrame, serializeRawFrame,
                    serializeEncodedFrame, Bytes

(* The sizes of payloads do not wrap.                                      *)
LEMMA PayloadFits ==
  ASSUME NEW d \in Payloads
  PROVE  /\ d \in Nat /\ Plus(FrameMeta, d) = FrameMeta + d
         /\ Plus(PtrMeta, d) = PtrMeta + d
BY SizesAssumption DEF Payloads, Plus

(* The kinds of messages, one by one.                                      *)
LEMMA MessageCases ==
  ASSUME NEW sizes \in SUBSET Payloads, NEW m \in Messages(sizes)
  PROVE  \E d \in Payloads :
    \/ m.kind = "frame" /\ m.bytes.size = FrameMeta + d /\ m.bytes.dataSize = d
    \/ m.kind = "encoded" /\ m.bytes.size = PtrMeta + d /\ m.bytes.dataSize = d
    \/ /\ m.kind = "bareframe" /\ m.bytes.size = FrameMeta /\ m.bytes.dataSize = d
       /\ d # 0
    \/ /\ m.kind = "pose" /\ m.bytes.size = PoseMeta
       /\ m.bytes.dataSize \in {PoseSize, PoseMeta}
    \/ m.kind = "key" /\ m.bytes.size = KeyMeta /\ m.bytes.dataSize = 1
<1>1. PICK d \in Payloads, any \in Payloads : m \in Sent(d, any)
  <2>1. PICK x \in sizes \X sizes : m \in Sent(x[1], x[2])
    BY DEF Messages
  <2> QED
    BY <2>1
<1>2. CASE m = Message("frame", serializeRawFrame(d, d))
  BY <1>2, PayloadFits DEF Message, serializeRawFrame, Bytes
<1>3. CASE m = Message("encoded", serializeEncodedFrame(d, any))
  BY <1>3, PayloadFits DEF Message, serializeEncodedFrame, Bytes
<1>4. CASE m = Message("bareframe", PlainFrame(d)) /\ d # 0
  BY <1>4 DEF Message, PlainFrame, Bytes
<1>5. CASE \/ m = Message("pose", PlainPose(PoseSize, any))
           \/ m = Message("pose", PlainPose(PoseMeta, any))
  <2>1. m.kind = "pose" /\ m.bytes.size = PoseMeta
    BY <1>5 DEF Message, PlainPose, Bytes
  <2>2. m.bytes.dataSize \in {PoseSize, PoseMeta}
    BY <1>5 DEF Message, PlainPose, Bytes
  <2> QED
    BY <2>1, <2>2
<1>6. CASE m = Message("key", PlainKey(any))
  BY <1>6 DEF Message, PlainKey, Bytes
<1>7. \/ m = Message("frame", serializeRawFrame(d, d))
      \/ m = Message("encoded", serializeEncodedFrame(d, any))
      \/ m = Message("bareframe", PlainFrame(d)) /\ d # 0
      \/ m = Message("pose", PlainPose(PoseSize, any))
      \/ m = Message("pose", PlainPose(PoseMeta, any))
      \/ m = Message("key", PlainKey(any))
  BY <1>1 DEF Sent
<1> QED
  BY <1>2, <1>3, <1>4, <1>5, <1>6, <1>7

(* The size alone tells a frame that is sent with its payload from all     *)
(* else, before the sizes in its Frame are looked at.                      *)
LEMMA FrameSizes ==
  ASSUME NEW sizes \in SUBSET Payloads, NEW m \in Messages(sizes),
         Minus(m.bytes.size, FrameMeta) = m.bytes.dataSize
  PROVE  m.kind = "frame" /\ Inside(m.bytes, FrameMeta)
<1>1. PICK d \in Payloads :
    \/ m.kind = "frame" /\ m.bytes.size = FrameMeta + d /\ m.bytes.dataSize = d
    \/ m.kind = "encoded" /\ m.bytes.size = PtrMeta + d /\ m.bytes.dataSize = d
    \/ /\ m.kind = "bareframe" /\ m.bytes.size = FrameMeta /\ m.bytes.dataSize = d
       /\ d # 0
    \/ /\ m.kind = "pose" /\ m.bytes.size = PoseMeta
       /\ m.bytes.dataSize \in {PoseSize, PoseMeta}
    \/ m.kind = "key" /\ m.bytes.size = KeyMeta /\ m.bytes.dataSize = 1
  BY MessageCases
<1>2. Minus(m.bytes.size, FrameMeta) = m.bytes.dataSize
  OBVIOUS
<1>3. d \in Nat /\ d < Word - FrameMeta
  BY SizesAssumption DEF Payloads
<1>4. CASE m.kind = "frame" /\ m.bytes.size = FrameMeta + d /\ m.bytes.dataSize = d
  BY <1>3, <1>4, SizesAssumption DEF Inside
<1>5. CASE m.kind = "encoded" /\ m.bytes.size = PtrMeta + d /\ m.bytes.dataSize = d
  BY <1>2, <1>3, <1>5, SizesAssumption DEF Minus
<1>6. CASE m.kind = "bareframe" /\ m.bytes.size = FrameMeta /\ m.bytes.dataSize = d
           /\ d # 0
  <2>1. Minus(m.bytes.size, FrameMeta) = 0
    BY <1>6, SizesAssumption DEF Minus
  <2> QED
    BY <2>1, <1>2, <1>6
<1>7. CASE m.kind = "pose" /\ m.bytes.size = PoseMeta
           /\ m.bytes.dataSize \in {PoseSize, PoseMeta}
  BY <1>2, <1>7, SizesAssumption DEF Minus, PoseSize
<1>8. CASE m.kind = "key" /\ m.bytes.size = KeyMeta /\ m.bytes.dataSize = 1
  BY <1>2, <1>8, SizesAssumption DEF Minus
<1> QED
  BY <1>1, <1>4, <1>5, <1>6, <1>7, <1>8

(* A port of frames accepts frames and nothing else, though the size is    *)
(* all it looks at, and copies no more than was received.                  *)
THEOREM RawFramesOnly ==
  ASSUME NEW sizes \in SUBSET Payloads, NEW m \in Messages(sizes),
         deserializeRawFrame(m.bytes)
  PROVE  m.kind = "frame" /\ Inside(m.bytes, FrameMeta)
BY FrameSizes DEF deserializeRawFrame

(* A port of encoded frames accepts these and, of all others, only a bare  *)
(* Frame whose size is what the pointer object is short of it.             *)
THEOREM EncodedFramesOnly ==
  ASSUME NEW sizes \in SUBSET Payloads, NEW m \in Messages(sizes),
         deserializeEncodedFrame(m.bytes)
  PROVE  /\ \/ m.kind = "encoded"
            \/ m.kind = "bareframe" /\ m.bytes.dataSize = FrameMeta - PtrMeta
         /\ Inside(m.bytes, PtrMeta)
<1>1. PICK d \in Payloads :
    \/ m.kind = "frame" /\ m.bytes.size = FrameMeta + d /\ m.bytes.dataSize = d
    \/ m.kind = "encoded" /\ m.bytes.size = PtrMeta + d /\ m.bytes.dataSize = d
    \/ /\ m.kind = "bareframe" /\ m.bytes.size = FrameMeta /\ m.bytes.dataSize = d
       /\ d # 0
    \/ /\ m.kind = "pose" /\ m.bytes.size = PoseMeta
       /\ m.bytes.dataSize \in {PoseSize, PoseMeta}
    \/ m.kind = "key" /\ m.bytes.size = KeyMeta /\ m.bytes.dataSize = 1
  BY MessageCases
<1>2. Minus(m.bytes.size, PtrMeta) = m.bytes.dataSize
  BY DEF deserializeEncodedFrame
<1>3. d \in Nat /\ d < Word - FrameMeta
  BY SizesAssumption DEF Payloads
<1>4. CASE m.kind = "frame" /\ m.bytes.size = FrameMeta + d /\ m.bytes.dataSize = d
  BY <1>2, <1>3, <1>4, SizesAssumption DEF Minus
<1>5. CASE m.kind = "encoded" /\ m.bytes.size = PtrMeta + d /\ m.bytes.dataSize = d
  BY <1>3, <1>5, SizesAssumption DEF Inside
<1>6. CASE m.kind = "bareframe" /\ m.bytes.size = FrameMeta /\ m.bytes.dataSize = d
           /\ d # 0
  <2>1. Minus(m.bytes.size, PtrMeta) = FrameMeta - PtrMeta
    BY <1>6, SizesAssumption DEF Minus
  <2>2. m.bytes.dataSize = FrameMeta - PtrMeta
    BY <2>1, <1>2
  <2>3. Inside(m.bytes, PtrMeta)
    BY <2>2, <1>6, SizesAssumption DEF Inside
  <2> QED
    BY <2>2, <2>3, <1>6
<1>7. CASE m.kind = "pose" /\ m.bytes.size = PoseMeta
           /\ m.bytes.dataSize \in {PoseSize, PoseMeta}
  BY <1>2, <1>7, SizesAssumption DEF Minus, PoseSize
<1>8. CASE m.kind = "key" /\ m.bytes.size = KeyMeta /\ m.bytes.dataSize = 1
  BY <1>2, <1>8, SizesAssumption DEF Minus
<1> QED
  BY <1>1, <1>4, <1>5, <1>6, <1>7, <1>8

(* Only keys have the size of a key, and only poses and encoded frames may *)
(* have that of a pose; such an encoded frame is no larger than a pose.    *)
THEOREM PlainSizes ==
  ASSUME NEW sizes \in SUBSET Payloads, NEW m \in Messages(sizes)
  PROVE  /\ AcceptPlain(m.bytes, KeyMeta) => m.kind = "key"
         /\ AcceptPlain(m.bytes, PoseMeta) =>
              \/ m.kind = "pose" /\ m.bytes.dataSize \in {PoseSize, PoseMeta}
              \/ m.kind = "encoded" /\ m.bytes.dataSize <= PoseSize
<1>1. PICK d \in Payloads :
    \/ m.kind = "frame" /\ m.bytes.size = FrameMeta + d /\ m.bytes.dataSize = d
    \/ m.kind = "encoded" /\ m.bytes.size = PtrMeta + d /\ m.bytes.dataSize = d
    \/ /\ m.kind = "bareframe" /\ m.bytes.size = FrameMeta /\ m.bytes.dataSize = d
       /\ d # 0
    \/ /\ m.kind = "pose" /\ m.bytes.size = PoseMeta
       /\ m.bytes.dataSize \in {PoseSize, PoseMeta}
    \/ m.kind = "key" /\ m.bytes.size = KeyMeta /\ m.bytes.dataSize = 1
  BY MessageCases
<1>2. d \in Nat
  BY SizesAssumption DEF Payloads
<1>3. CASE m.kind = "encoded" /\ m.bytes.size = PtrMeta + d /\ m.bytes.dataSize = d
  BY <1>2, <1>3, SizesAssumption DEF AcceptPlain, PoseSize
<1>4. CASE m.kind = "frame" /\ m.bytes.size = FrameMeta + d /\ m.bytes.dataSize = d
  BY <1>2, <1>4, SizesAssumption DEF AcceptPlain
<1>5. CASE m.kind = "bareframe" /\ m.bytes.size = FrameMeta
  BY <1>5, SizesAssumption DEF AcceptPlain
<1>6. CASE /\ m.kind = "pose" /\ m.bytes.size = PoseMeta
           /\ m.bytes.dataSize \in {PoseSize, PoseMeta}
  BY <1>6, SizesAssumption DEF AcceptPlain
<1>7. CASE m.kind = "key" /\ m.bytes.size = KeyMeta /\ m.bytes.dataSize = 1
  BY <1>7, SizesAssumption DEF AcceptPlain
<1> QED
  BY <1>1, <1>3, <1>4, <1>5, <1>6, <1>7
=============================================================================
