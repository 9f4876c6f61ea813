--------------------------- MODULE MessageFormat ---------------------------
(* How a message becomes bytes and bytes a message again, as far as sizes  *)
(* go.  A sender's serializer puts the message object before its payload;  *)
(* a receiver's deserializer subtracts the size of the object it expects   *)
(* from what it got and compares with the dataSize in the object.  All     *)
(* sizes are uint32_t.  Types are not sent: a port learns from the size    *)
(* alone whether the bytes are of its type.                                *)
EXTENDS Integers

CONSTANTS Word,        \* 2^32
          FrameMeta,   \* sizeof(Message<Frame>)
          PtrMeta,     \* sizeof(Message<uint8_t*>)
          PoseMeta,    \* sizeof(Message<ObjectPose>)
          KeyMeta      \* sizeof(Message<char>)

PoseSize == 24           \* sizeof(ObjectPose): six floats

(* The objects are in this order of size, no two poses apart, and small.   *)
ASSUME SizesAssumption ==
  /\ Word \in Nat /\ FrameMeta \in Nat /\ PtrMeta \in Nat
  /\ PoseMeta \in Nat /\ KeyMeta \in Nat
  /\ 0 < KeyMeta /\ KeyMeta < PtrMeta /\ PtrMeta < PoseMeta /\ PoseMeta < FrameMeta
  /\ PoseSize < PoseMeta /\ PoseMeta < PtrMeta + PoseSize
  /\ 2 * FrameMeta < Word

uint32 == 0..(Word - 1)
Plus(a, b)  == IF a + b < Word THEN a + b ELSE a + b - Word
Minus(a, b) == IF a >= b THEN a - b ELSE a - b + Word

(* A payload whose message has a size.                                     *)
Payloads == 0..(Word - FrameMeta - 1)

(* What a receiver sees of a message: the number of bytes, the dataSize of *)
(* the object at their head and the dataSize of its Frame, if there is one *)
(* at that place.                                                          *)
Bytes(size, dataSize, pixels) ==
  [size |-> size, dataSize |-> dataSize, pixels |-> pixels]

serializeRawFrame(dataSize, pixels) ==
  Bytes(Plus(FrameMeta, dataSize), dataSize, pixels)
(* Where a Frame would have its size there is the pointer or the payload.  *)
serializeEncodedFrame(dataSize, any) ==
  Bytes(Plus(PtrMeta, dataSize), dataSize, any)
(* A port without a serializer sends sizeof(T) bytes.                      *)
PlainFrame(dataSize) == Bytes(FrameMeta, dataSize, dataSize)
PlainPose(dataSize, any) == Bytes(PoseMeta, dataSize, any)
PlainKey(any) == Bytes(KeyMeta, 1, any)

(* Messages of every port that has a format of fixed size, with payloads   *)
(* of these sizes.  Most locators give the size of the pose, two that of   *)
(* the whole message.                                                      *)
Message(kind, bytes) == [kind |-> kind, bytes |-> bytes]
Sent(d, any) ==
  {Message("frame", serializeRawFrame(d, d)),
   Message("encoded", serializeEncodedFrame(d, any)),
   Message("pose", PlainPose(PoseSize, any)), Message("pose", PlainPose(PoseMeta, any)),
   Message("key", PlainKey(any))}
  \cup IF d = 0 THEN {} ELSE {Message("bareframe", PlainFrame(d))}
Messages(sizes) == UNION {Sent(x[1], x[2]) : x \in sizes \X sizes}

deserializeEitherSize(b) ==   \* mutant: only the sender's own sizes are compared
  b.dataSize = b.pixels

deserializeRawFrame(b) == /\ Minus(b.size, FrameMeta) = b.dataSize
                          /\ Minus(b.size, FrameMeta) = b.pixels
deserializeEncodedFrame(b) == Minus(b.size, PtrMeta) = b.dataSize
(* A port without a deserializer takes the bytes as T if there are         *)
(* sizeof(T) of them.                                                      *)
AcceptPlain(b, meta) == b.size = meta

(* The copied object and payload lie within the received bytes.            *)
Inside(b, meta) == meta + b.dataSize <= b.size
=============================================================================
