-------------------------- MODULE ARPipeline_proofs --------------------------
(***************************************************************************)
(* Theorems about ARPipeline, for streams of any capacity, duplicates of   *)
(* either semantics and any number of frames, keys and missing images.     *)
(***************************************************************************)
EXTENDS ARPipeline, SequenceTheorems, TLAPS

(* Frames the player is done with on the stream to the renderer, and on    *)
(* the one to the detector.                                                *)
Sent    == IF player = "place" THEN frames ELSE frames - 1
Offered == IF player \in {"check", "copy"} THEN frames - 1 ELSE frames

(* Frames the renderer has freed; frames it has asked a pose for; poses    *)
(* that are still to be taken.                                             *)
Freed     == Sent - Len(stream["render"])
Asked     == Freed + IF renderer \in {"getKey", "place", "send", "freeFrame"} THEN 1 ELSE 0
Unclaimed == Len(stream["pose"]) - IF inPose = None THEN 0 ELSE 1

(* Frames the detector is done with, if none was passed over.              *)
Detected == Offered - Len(stream["detect"]) + IF detector = "free" THEN 1 ELSE 0

(* Who asked for room for a message finds it there when sending: every     *)
(* stream has one writer.                                                  *)
RoomOK ==
  /\ player # "place" => Len(stream["render"]) < QueueSize["render"]
  /\ player = "copy" /\ DupSemantics = "NONBLOCKING" =>
       Len(stream["detect"]) < QueueSize["detect"]
  /\ keyboard = "event" => Len(stream["key"]) < QueueSize["key"]
  /\ detector = "detect" => Len(stream["pose"]) < QueueSize["pose"]
  /\ renderer = "send" => Len(stream["show"]) < QueueSize["show"]

(* What a kernel has got is in its stream until it frees it: every stream  *)
(* has one reader.                                                         *)
HeldOK ==
  /\ detector # "get" => Len(stream["detect"]) > 0
  /\ renderer \in {"getPose", "getKey", "place", "send", "freeFrame"} =>
       Len(stream["render"]) > 0
  /\ display = "show" => Len(stream["show"]) > 0
  /\ inPose # None => /\ renderer \notin {"get", "getPose"}
                      /\ Len(stream["pose"]) > 0
  /\ inKey # None => /\ renderer \in {"place", "send", "freeFrame", "freeKey"}
                     /\ Len(stream["key"]) > 0

(* The renderer gets every frame in turn; the detector and the display get *)
(* some of them, in order, the display those the renderer is done with;    *)
(* poses and keys are of frames and key strokes that there have been.      *)
RenderOrder ==
  /\ player # "place" => frames > 0
  /\ Freed >= 0
  /\ \A i \in 1..Len(stream["render"]) : stream["render"][i] = Freed + i - 1
DetectOrder ==
  /\ \A i \in 1..Len(stream["detect"]) : stream["detect"][i] < Offered
  /\ \A i, j \in 1..Len(stream["detect"]) :
       i < j => stream["detect"][i] < stream["detect"][j]
ShowOrder ==
  /\ \A i \in 1..Len(stream["show"]) :
       stream["show"][i] < Freed + IF renderer = "freeFrame" THEN 1 ELSE 0
  /\ \A i, j \in 1..Len(stream["show"]) :
       i < j => stream["show"][i] < stream["show"][j]
PoseOrder == \A i \in 1..Len(stream["pose"]) : stream["pose"][i] < frames
KeyOrder  == \A i \in 1..Len(stream["key"]) : stream["key"][i] < keys
OrderOK   == RenderOrder /\ DetectOrder /\ ShowOrder /\ PoseOrder /\ KeyOrder

(* If the player waits for the detector, the poses that are not taken yet  *)
(* are few enough for the detector not to wait for the renderer.           *)
PaceOK ==
  DupSemantics = "BLOCKING" => Unclaimed + Asked <= Detected + QueueSize["detect"]

IInv == /\ TypeOK /\ RoomOK /\ HeldOK /\ OrderOK /\ PaceOK
        /\ PoseNotAhead /\ KeyMovesOnce
-----------------------------------------------------------------------------
(* The types of the numbers in a state, for arithmetic about them.         *)
Room(s) == /\ Len(stream[s]) \in Nat /\ QueueSize[s] \in Nat
           /\ QueueSize[s] > 0 /\ Len(stream[s]) <= QueueSize[s]

Numbers ==
  /\ frames \in Nat /\ keys \in Nat /\ moved \in Nat /\ inPose \in Int /\ inKey \in Int
  /\ Room("detect") /\ Room("render") /\ Room("pose") /\ Room("key") /\ Room("show")
  /\ Sent \in Int /\ Offered \in Int /\ Freed \in Int
  /\ Asked \in Int /\ Unclaimed \in Int /\ Detected \in Int

(* The elements of a stream, and what its front one is.                    *)
Elements(s) == /\ stream[s] \in Seq(Nat)
               /\ \A i \in 1..Len(stream[s]) : stream[s][i] \in Nat

Fronts(s) == /\ Empty(s) <=> Len(stream[s]) = 0
             /\ Len(stream[s]) > 0 => Front(s) = stream[s][1] /\ stream[s][1] \in Nat

LEMMA AreElements == ASSUME IInv, NEW s \in Streams PROVE Elements(s) /\ Fronts(s)
<1>1. /\ stream[s] \in Seq(Nat)
  BY DEF IInv, TypeOK
<1>2. Len(stream[s]) \in Nat /\ \A i \in 1..Len(stream[s]) : stream[s][i] \in Nat
  BY <1>1, LenProperties, ElementOfSeq
<1>3. stream[s] = << >> <=> Len(stream[s]) = 0
  BY <1>1, EmptySeq
<1>4. Len(stream[s]) > 0 => Head(stream[s]) = stream[s][1] /\ stream[s][1] \in Nat
  BY <1>1, <1>2, <1>3, HeadTailProperties
<1>. QED  BY <1>1, <1>2, <1>3, <1>4 DEF Elements, Fronts, Empty, Front

LEMMA AreNumbers == ASSUME IInv PROVE Numbers
<1>1. frames \in Nat /\ keys \in Nat /\ moved \in Nat /\ inPose \in Int /\ inKey \in Int
  BY BoundsAssumption DEF IInv, TypeOK, None
<1>2. ASSUME NEW s \in Streams PROVE Room(s)
  <2>1. /\ stream[s] \in Seq(Nat) /\ Len(stream[s]) <= QueueSize[s]
        /\ QueueSize[s] \in Nat /\ QueueSize[s] > 0
    BY RecipeAssumption DEF IInv, TypeOK
  <2>2. Len(stream[s]) \in Nat
    BY <2>1, LenProperties
  <2>. QED  BY <2>1, <2>2 DEF Room
<1>3. Room("detect") /\ Room("render") /\ Room("pose") /\ Room("key") /\ Room("show")
  BY <1>2 DEF Streams
<1>4. Sent \in Int /\ Offered \in Int
  BY <1>1 DEF Sent, Offered
<1>5. Freed \in Int
  BY <1>3, <1>4 DEF Freed, Room
<1>6. Asked \in Int /\ Unclaimed \in Int /\ Detected \in Int
  BY <1>3, <1>4, <1>5 DEF Asked, Unclaimed, Detected, Room
<1>. QED  BY <1>1, <1>3, <1>4, <1>5, <1>6 DEF Numbers

(* The order stays as it is while no message comes or goes.                *)
LEMMA SameOrder ==
  ASSUME IInv, stream' = stream, Freed' = Freed, keys' = keys,
         Offered' \in Int, Offered' >= Offered, frames' \in Nat, frames' >= frames,
         player' # "place" => frames' > 0,
         renderer = "freeFrame" => renderer' = "freeFrame"
  PROVE  OrderOK'
<1>1. Numbers /\ \A s \in Streams : Elements(s)
  BY AreNumbers, AreElements
<1>2. RenderOrder'
  BY DEF IInv, OrderOK, RenderOrder
<1>3. DetectOrder'
  BY <1>1 DEF IInv, OrderOK, DetectOrder, Elements, Streams, Numbers
<1>4. ShowOrder'
  <2>1. CASE renderer' = "freeFrame" /\ renderer # "freeFrame"
    <3>1. /\ \A i \in 1..Len(stream["show"]) : stream["show"][i] < Freed + 0
          /\ \A i, j \in 1..Len(stream["show"]) :
               i < j => stream["show"][i] < stream["show"][j]
      BY <2>1 DEF IInv, OrderOK, ShowOrder
    <3>2. \A i \in 1..Len(stream["show"]) : stream["show"][i] < Freed + 1
      BY <1>1, <3>1 DEF Numbers, Elements, Streams
    <3>. QED  BY <2>1, <3>1, <3>2 DEF ShowOrder
  <2>2. CASE renderer' = "freeFrame" <=> renderer = "freeFrame"
    BY <2>2 DEF IInv, OrderOK, ShowOrder
  <2>. QED  BY <2>1, <2>2
<1>5. PoseOrder'
  <2>1. frames \in Nat /\ Elements("pose") /\ PoseOrder
    BY <1>1 DEF Numbers, Streams, IInv, OrderOK
  <2>. QED  BY <2>1 DEF PoseOrder, Elements
<1>6. KeyOrder'
  BY DEF IInv, OrderOK, KeyOrder
<1>. QED  BY <1>2, <1>3, <1>4, <1>5, <1>6 DEF OrderOK

(* A message goes to the end of a stream, or the front one leaves it.      *)
Others(s) == \A r \in Streams \ {s} : stream'[r] = stream[r]

Pushed(s, m) ==
  /\ stream' \in [Streams -> Seq(Nat)]
  /\ \A r \in Streams : Len(stream'[r]) <= QueueSize[r]
  /\ Len(stream'[s]) = Len(stream[s]) + 1
  /\ \A i \in 1..Len(stream[s]) : stream'[s][i] = stream[s][i]
  /\ stream'[s][Len(stream[s]) + 1] = m
  /\ Len(stream[s]) > 0 => Head(stream'[s]) = Head(stream[s])

Popped(s) ==
  /\ stream' \in [Streams -> Seq(Nat)]
  /\ \A r \in Streams : Len(stream'[r]) <= QueueSize[r]
  /\ Len(stream'[s]) = Len(stream[s]) - 1
  /\ \A i \in 1..(Len(stream[s]) - 1) : stream'[s][i] = stream[s][i + 1]

LEMMA PushFacts ==
  ASSUME IInv, NEW s \in Streams, NEW m \in Nat,
         Len(stream[s]) < QueueSize[s], Push(s, m)
  PROVE  Others(s) /\ Pushed(s, m)
<1>1. /\ stream \in [Streams -> Seq(Nat)]
      /\ stream' = [stream EXCEPT ![s] = Append(stream[s], m)]
  BY DEF IInv, TypeOK, Push
<1>2. /\ stream' \in [Streams -> Seq(Nat)] /\ Others(s)
      /\ stream'[s] = Append(stream[s], m) /\ stream[s] \in Seq(Nat)
  BY <1>1, AppendProperties DEF Others
<1>3. /\ Len(stream'[s]) = Len(stream[s]) + 1
      /\ \A i \in 1..Len(stream[s]) : stream'[s][i] = stream[s][i]
      /\ stream'[s][Len(stream[s]) + 1] = m
  BY <1>2, AppendProperties
<1>4. ASSUME NEW r \in Streams PROVE Len(stream'[r]) <= QueueSize[r]
  <2>1. CASE r = s
    <3>. Len(stream[s]) \in Nat /\ QueueSize[s] \in Nat
      BY <1>2, RecipeAssumption, LenProperties
    <3>. QED  BY <1>3, <2>1
  <2>2. CASE r # s
    BY <1>2, <2>2 DEF Others, IInv, TypeOK
  <2>. QED  BY <2>1, <2>2
<1>5. ASSUME Len(stream[s]) > 0 PROVE Head(stream'[s]) = Head(stream[s])
  <2>1. Len(stream[s]) \in Nat
    BY <1>2, LenProperties
  <2>2. 1 \in 1..Len(stream[s])
    BY <1>5, <2>1
  <2>3. Head(stream[s]) = stream[s][1]
    BY <1>2, <1>5, <2>1, EmptySeq, HeadTailProperties
  <2>4. Head(stream'[s]) = stream'[s][1]
    <3>1. stream'[s] \in Seq(Nat) /\ stream'[s] # << >>
      BY <1>2, <1>3, <2>1, EmptySeq
    <3>. QED  BY <3>1, HeadTailProperties
  <2>. QED  BY <1>3, <2>2, <2>3, <2>4
<1>. QED  BY <1>2, <1>3, <1>4, <1>5 DEF Pushed

LEMMA PopFacts ==
  ASSUME IInv, NEW s \in Streams, Len(stream[s]) > 0, Pop(s)
  PROVE  Others(s) /\ Popped(s)
<1>1. stream \in [Streams -> Seq(Nat)] /\ stream' = [stream EXCEPT ![s] = Tail(stream[s])]
  BY DEF IInv, TypeOK, Pop
<1>2. stream[s] # << >> /\ stream[s] \in Seq(Nat)
  BY <1>1, EmptySeq
<1>3. stream'[s] = Tail(stream[s]) /\ Others(s)
  BY <1>1 DEF Others
<1>4. /\ Len(stream'[s]) = Len(stream[s]) - 1
      /\ \A i \in 1..(Len(stream[s]) - 1) : stream'[s][i] = stream[s][i + 1]
  BY <1>2, <1>3, HeadTailProperties
<1>5. stream' \in [Streams -> Seq(Nat)]
  BY <1>1, <1>2, HeadTailProperties
<1>6. ASSUME NEW r \in Streams PROVE Len(stream'[r]) <= QueueSize[r]
  <2>1. CASE r = s
    <3>. /\ Len(stream[s]) \in Nat /\ QueueSize[s] \in Nat
         /\ Len(stream[s]) <= QueueSize[s]
      BY <1>2, RecipeAssumption, LenProperties DEF IInv, TypeOK
    <3>. QED  BY <1>4, <2>1
  <2>2. CASE r # s
    BY <1>3, <2>2 DEF Others, IInv, TypeOK
  <2>. QED  BY <2>1, <2>2
<1>. QED  BY <1>3, <1>4, <1>5, <1>6 DEF Popped

-----------------------------------------------------------------------------
(* Every action keeps the inductive invariant: first those that move no    *)
(* message, each with what becomes of the counts above, then those that    *)
(* send or free one.                                                       *)

LEMMA NewFrameIInv == IInv /\ NewFrame => IInv'
<1>. SUFFICES ASSUME IInv, NewFrame PROVE IInv'
  OBVIOUS
<1>1. Numbers /\ \A s \in Streams : Elements(s) /\ Fronts(s)
  BY AreNumbers, AreElements
<1>2. /\ Sent' = Sent /\ Offered' = Offered /\ Freed' = Freed
      /\ Asked' = Asked /\ Unclaimed' = Unclaimed /\ Detected' = Detected
  BY <1>1
     DEF IInv, TypeOK, HeldOK, Sent, Offered, Freed, Asked, Unclaimed, Detected,
         NewFrame, Numbers, Room
<1>3. TypeOK'
  BY <1>1, <1>2, RecipeAssumption, BoundsAssumption, <1>2
     DEF IInv, TypeOK, NewFrame, Numbers, Room, Image, Streams
<1>4. RoomOK'
  BY <1>1 DEF IInv, RoomOK, Full, NewFrame, Numbers, Room
<1>5. HeldOK'
  BY <1>1 DEF IInv, HeldOK, Empty, NewFrame, Numbers, Room
<1>6. OrderOK'
  BY <1>1, <1>2, SameOrder
     DEF IInv, OrderOK, RenderOrder, NewFrame, Numbers, Room
<1>7. PaceOK'
  BY <1>1, <1>2 DEF IInv, PaceOK, NewFrame, Numbers, Room
<1>8. PoseNotAhead'
  BY <1>1, <1>2 DEF IInv, HeldOK, PoseNotAhead, Front, NewFrame, Numbers, Room
<1>9. KeyMovesOnce'
  BY <1>1 DEF IInv, HeldOK, KeyMovesOnce, NewFrame, Numbers, Room
<1>. QED  BY <1>3, <1>4, <1>5, <1>6, <1>7, <1>8, <1>9 DEF IInv

LEMMA CheckIInv == IInv /\ Check => IInv'
<1>. SUFFICES ASSUME IInv, Check PROVE IInv'
  OBVIOUS
<1>1. Numbers /\ \A s \in Streams : Elements(s) /\ Fronts(s)
  BY AreNumbers, AreElements
<1>2. /\ Sent' = Sent /\ Freed' = Freed /\ Asked' = Asked /\ Unclaimed' = Unclaimed
      /\ Offered' \in Int /\ Offered' >= Offered
      /\ DupSemantics = "BLOCKING" => Offered' = Offered /\ Detected' = Detected
  <2>1. /\ player = "check" /\ player' \in {"copy", "send"}
        /\ DupSemantics = "BLOCKING" => player' = "copy"
        /\ UNCHANGED <<detector, renderer, stream, frames, inPose>>
    BY DEF Check
  <2>2. Sent' = Sent /\ Freed' = Freed /\ Asked' = Asked /\ Unclaimed' = Unclaimed
    BY <2>1 DEF Sent, Freed, Asked, Unclaimed
  <2>3. Offered = frames - 1 /\ Offered' \in {frames - 1, frames}
    BY <2>1 DEF Offered
  <2>4. ASSUME DupSemantics = "BLOCKING"
        PROVE  Offered' = Offered /\ Detected' = Detected
    BY <2>1, <2>4 DEF Offered, Detected
  <2>. QED  BY <1>1, <2>2, <2>3, <2>4 DEF Numbers
<1>3. TypeOK'
  BY <1>1, <1>2, RecipeAssumption, BoundsAssumption
     DEF IInv, TypeOK, Check, Numbers, Room
<1>4. RoomOK'
  BY <1>1, RecipeAssumption
     DEF IInv, RoomOK, Full, Check, Numbers, Room, Streams
<1>5. HeldOK'
  BY <1>1 DEF IInv, HeldOK, Empty, Check, Numbers, Room
<1>6. OrderOK'
  BY <1>1, <1>2, SameOrder
     DEF IInv, OrderOK, RenderOrder, Check, Numbers, Room
<1>7. PaceOK'
  BY <1>1, <1>2 DEF IInv, PaceOK, Check, Numbers, Room
<1>8. PoseNotAhead'
  BY <1>1, <1>2 DEF IInv, HeldOK, PoseNotAhead, Front, Check, Numbers, Room
<1>9. KeyMovesOnce'
  BY <1>1 DEF IInv, HeldOK, KeyMovesOnce, Check, Numbers, Room
<1>. QED  BY <1>3, <1>4, <1>5, <1>6, <1>7, <1>8, <1>9 DEF IInv

LEMMA KeyPlaceholderIInv == IInv /\ KeyPlaceholder => IInv'
<1>. SUFFICES ASSUME IInv, KeyPlaceholder PROVE IInv'
  OBVIOUS
<1>1. Numbers /\ \A s \in Streams : Elements(s) /\ Fronts(s)
  BY AreNumbers, AreElements
<1>2. /\ Sent' = Sent /\ Offered' = Offered /\ Freed' = Freed
      /\ Asked' = Asked /\ Unclaimed' = Unclaimed /\ Detected' = Detected
  BY <1>1
     DEF IInv, TypeOK, HeldOK, Sent, Offered, Freed, Asked, Unclaimed, Detected,
         KeyPlaceholder, Numbers, Room
<1>3. TypeOK'
  BY <1>1, <1>2, RecipeAssumption, BoundsAssumption
     DEF IInv, TypeOK, KeyPlaceholder, Numbers, Room
<1>4. RoomOK'
  BY <1>1 DEF IInv, RoomOK, Full, KeyPlaceholder, Numbers, Room
<1>5. HeldOK'
  BY <1>1 DEF IInv, HeldOK, Empty, KeyPlaceholder, Numbers, Room
<1>6. OrderOK'
  BY <1>1, <1>2, SameOrder
     DEF IInv, OrderOK, RenderOrder, KeyPlaceholder, Numbers, Room
<1>7. PaceOK'
  BY <1>1, <1>2 DEF IInv, PaceOK, KeyPlaceholder, Numbers, Room
<1>8. PoseNotAhead'
  BY <1>1, <1>2
     DEF IInv, HeldOK, PoseNotAhead, Front, KeyPlaceholder, Numbers, Room
<1>9. KeyMovesOnce'
  BY <1>1 DEF IInv, HeldOK, KeyMovesOnce, KeyPlaceholder, Numbers, Room
<1>. QED  BY <1>3, <1>4, <1>5, <1>6, <1>7, <1>8, <1>9 DEF IInv

LEMMA DetectGetIInv == IInv /\ DetectGet => IInv'
<1>. SUFFICES ASSUME IInv, DetectGet PROVE IInv'
  OBVIOUS
<1>1. Numbers /\ \A s \in Streams : Elements(s) /\ Fronts(s)
  BY AreNumbers, AreElements
<1>2. /\ Sent' = Sent /\ Offered' = Offered /\ Freed' = Freed
      /\ Asked' = Asked /\ Unclaimed' = Unclaimed /\ Detected' = Detected
  BY <1>1
     DEF IInv, TypeOK, HeldOK, Sent, Offered, Freed, Asked, Unclaimed, Detected,
         DetectGet, Numbers, Room
<1>3. TypeOK'
  BY <1>1, <1>2, RecipeAssumption, BoundsAssumption
     DEF IInv, TypeOK, DetectGet, Numbers, Room
<1>4. RoomOK'
  BY <1>1 DEF IInv, RoomOK, Full, DetectGet, Numbers, Room
<1>5. HeldOK'
  BY <1>1 DEF IInv, HeldOK, Empty, DetectGet, Numbers, Room
<1>6. OrderOK'
  BY <1>1, <1>2, SameOrder
     DEF IInv, OrderOK, RenderOrder, DetectGet, Numbers, Room
<1>7. PaceOK'
  BY <1>1, <1>2 DEF IInv, PaceOK, DetectGet, Numbers, Room
<1>8. PoseNotAhead'
  BY <1>1, <1>2
     DEF IInv, HeldOK, PoseNotAhead, Front, DetectGet, Numbers, Room
<1>9. KeyMovesOnce'
  BY <1>1 DEF IInv, HeldOK, KeyMovesOnce, DetectGet, Numbers, Room
<1>. QED  BY <1>3, <1>4, <1>5, <1>6, <1>7, <1>8, <1>9 DEF IInv

LEMMA DetectPlaceholderIInv == IInv /\ DetectPlaceholder => IInv'
<1>. SUFFICES ASSUME IInv, DetectPlaceholder PROVE IInv'
  OBVIOUS
<1>1. Numbers /\ \A s \in Streams : Elements(s) /\ Fronts(s)
  BY AreNumbers, AreElements
<1>2. /\ Sent' = Sent /\ Offered' = Offered /\ Freed' = Freed
      /\ Asked' = Asked /\ Unclaimed' = Unclaimed /\ Detected' = Detected
  BY <1>1
     DEF IInv, TypeOK, HeldOK, Sent, Offered, Freed, Asked, Unclaimed, Detected,
         DetectPlaceholder, Numbers, Room
<1>3. TypeOK'
  BY <1>1, <1>2, RecipeAssumption, BoundsAssumption
     DEF IInv, TypeOK, DetectPlaceholder, Numbers, Room
<1>4. RoomOK'
  BY <1>1 DEF IInv, RoomOK, Full, DetectPlaceholder, Numbers, Room
<1>5. HeldOK'
  BY <1>1 DEF IInv, HeldOK, Empty, DetectPlaceholder, Numbers, Room
<1>6. OrderOK'
  BY <1>1, <1>2, SameOrder
     DEF IInv, OrderOK, RenderOrder, DetectPlaceholder, Numbers, Room
<1>7. PaceOK'
  BY <1>1, <1>2 DEF IInv, PaceOK, DetectPlaceholder, Numbers, Room
<1>8. PoseNotAhead'
  BY <1>1, <1>2
     DEF IInv, HeldOK, PoseNotAhead, Front, DetectPlaceholder, Numbers, Room
<1>9. KeyMovesOnce'
  BY <1>1 DEF IInv, HeldOK, KeyMovesOnce, DetectPlaceholder, Numbers, Room
<1>. QED  BY <1>3, <1>4, <1>5, <1>6, <1>7, <1>8, <1>9 DEF IInv

LEMMA GetFrameIInv == IInv /\ GetFrame => IInv'
<1>. SUFFICES ASSUME IInv, GetFrame PROVE IInv'
  OBVIOUS
<1>1. Numbers /\ \A s \in Streams : Elements(s) /\ Fronts(s)
  BY AreNumbers, AreElements
<1>2. /\ Sent' = Sent /\ Offered' = Offered /\ Freed' = Freed
      /\ Asked' = Asked /\ Unclaimed' = Unclaimed /\ Detected' = Detected
  BY <1>1
     DEF IInv, TypeOK, HeldOK, Sent, Offered, Freed, Asked, Unclaimed, Detected,
         GetFrame, Numbers, Room
<1>3. TypeOK'
  BY <1>1, <1>2, RecipeAssumption, BoundsAssumption
     DEF IInv, TypeOK, GetFrame, Numbers, Room
<1>4. RoomOK'
  BY <1>1 DEF IInv, RoomOK, Full, GetFrame, Numbers, Room
<1>5. HeldOK'
  BY <1>1 DEF IInv, HeldOK, Empty, GetFrame, Numbers, Room
<1>6. OrderOK'
  BY <1>1, <1>2, SameOrder
     DEF IInv, OrderOK, RenderOrder, GetFrame, Numbers, Room
<1>7. PaceOK'
  BY <1>1, <1>2 DEF IInv, PaceOK, GetFrame, Numbers, Room
<1>8. PoseNotAhead'
  BY <1>1, <1>2 DEF IInv, HeldOK, PoseNotAhead, Front, GetFrame, Numbers, Room
<1>9. KeyMovesOnce'
  BY <1>1 DEF IInv, HeldOK, KeyMovesOnce, GetFrame, Numbers, Room
<1>. QED  BY <1>3, <1>4, <1>5, <1>6, <1>7, <1>8, <1>9 DEF IInv

LEMMA RenderPlaceholderIInv == IInv /\ RenderPlaceholder => IInv'
<1>. SUFFICES ASSUME IInv, RenderPlaceholder PROVE IInv'
  OBVIOUS
<1>1. Numbers /\ \A s \in Streams : Elements(s) /\ Fronts(s)
  BY AreNumbers, AreElements
<1>2. /\ Sent' = Sent /\ Offered' = Offered /\ Freed' = Freed
      /\ Asked' = Asked /\ Unclaimed' = Unclaimed /\ Detected' = Detected
  BY <1>1
     DEF IInv, TypeOK, HeldOK, Sent, Offered, Freed, Asked, Unclaimed, Detected,
         RenderPlaceholder, Numbers, Room
<1>3. TypeOK'
  BY <1>1, <1>2, RecipeAssumption, BoundsAssumption
     DEF IInv, TypeOK, RenderPlaceholder, Numbers, Room
<1>4. RoomOK'
  BY <1>1 DEF IInv, RoomOK, Full, RenderPlaceholder, Numbers, Room
<1>5. HeldOK'
  BY <1>1 DEF IInv, HeldOK, Empty, RenderPlaceholder, Numbers, Room
<1>6. OrderOK'
  BY <1>1, <1>2, SameOrder
     DEF IInv, OrderOK, RenderOrder, RenderPlaceholder, Numbers, Room
<1>7. PaceOK'
  BY <1>1, <1>2 DEF IInv, PaceOK, RenderPlaceholder, Numbers, Room
<1>8. PoseNotAhead'
  BY <1>1, <1>2
     DEF IInv, HeldOK, PoseNotAhead, Front, RenderPlaceholder, Numbers, Room
<1>9. KeyMovesOnce'
  BY <1>1 DEF IInv, HeldOK, KeyMovesOnce, RenderPlaceholder, Numbers, Room
<1>. QED  BY <1>3, <1>4, <1>5, <1>6, <1>7, <1>8, <1>9 DEF IInv

LEMMA ShowGetIInv == IInv /\ ShowGet => IInv'
<1>. SUFFICES ASSUME IInv, ShowGet PROVE IInv'
  OBVIOUS
<1>1. Numbers /\ \A s \in Streams : Elements(s) /\ Fronts(s)
  BY AreNumbers, AreElements
<1>2. /\ Sent' = Sent /\ Offered' = Offered /\ Freed' = Freed
      /\ Asked' = Asked /\ Unclaimed' = Unclaimed /\ Detected' = Detected
  BY <1>1
     DEF IInv, TypeOK, HeldOK, Sent, Offered, Freed, Asked, Unclaimed, Detected,
         ShowGet, Numbers, Room
<1>3. TypeOK'
  BY <1>1, <1>2, RecipeAssumption, BoundsAssumption
     DEF IInv, TypeOK, ShowGet, Numbers, Room
<1>4. RoomOK'
  BY <1>1 DEF IInv, RoomOK, Full, ShowGet, Numbers, Room
<1>5. HeldOK'
  BY <1>1 DEF IInv, HeldOK, Empty, ShowGet, Numbers, Room
<1>6. OrderOK'
  BY <1>1, <1>2, SameOrder
     DEF IInv, OrderOK, RenderOrder, ShowGet, Numbers, Room
<1>7. PaceOK'
  BY <1>1, <1>2 DEF IInv, PaceOK, ShowGet, Numbers, Room
<1>8. PoseNotAhead'
  BY <1>1, <1>2 DEF IInv, HeldOK, PoseNotAhead, Front, ShowGet, Numbers, Room
<1>9. KeyMovesOnce'
  BY <1>1 DEF IInv, HeldOK, KeyMovesOnce, ShowGet, Numbers, Room
<1>. QED  BY <1>3, <1>4, <1>5, <1>6, <1>7, <1>8, <1>9 DEF IInv

LEMMA GetPoseIInv == IInv /\ GetPose => IInv'
<1>. SUFFICES ASSUME IInv, GetPose PROVE IInv'
  OBVIOUS
<1>1. Numbers /\ \A s \in Streams : Elements(s) /\ Fronts(s)
  BY AreNumbers, AreElements
<1>2. /\ renderer = "getPose" /\ renderer' = "getKey" /\ inPose = None
      /\ Len(stream["render"]) > 0
      /\ UNCHANGED <<player, detector, stream, frames>>
  BY DEF IInv, HeldOK, GetPose
<1>3. IF Len(stream["pose"]) = 0
         THEN inPose' = None
         ELSE inPose' = stream["pose"][1] /\ inPose' \in Nat /\ inPose' < frames
              /\ inPose' # None
  <2>1. Fronts("pose") /\ Len(stream["pose"]) \in Nat /\ PoseOrder
    BY <1>1 DEF Streams, IInv, OrderOK, Numbers, Room
  <2>2. inPose' = IF Empty("pose") THEN None ELSE Front("pose")
    BY DEF GetPose
  <2>. QED  BY <2>1, <2>2 DEF Fronts, PoseOrder, None
<1>4. Asked + 1 <= Offered /\ Offered <= Detected + QueueSize["detect"]
  <2>1. Asked + 1 <= Sent
    BY <1>1, <1>2 DEF Asked, Freed, Numbers, Room
  <2>2. Sent <= Offered
    BY <1>1 DEF Sent, Offered, Numbers, IInv, TypeOK
  <2>3. Offered <= Detected + QueueSize["detect"]
    <3>1. Detected \in { Offered - Len(stream["detect"]) + n : n \in {0, 1} }
      BY DEF Detected
    <3>. QED  BY <1>1, <3>1 DEF Numbers, Room
  <2>. QED  BY <1>1, <2>1, <2>2, <2>3 DEF Numbers, Room
<1>5. /\ Sent' = Sent /\ Offered' = Offered /\ Freed' = Freed
      /\ Asked' = Asked + 1 /\ Detected' = Detected
      /\ Unclaimed' = IF Len(stream["pose"]) = 0 THEN Unclaimed ELSE Unclaimed - 1
  <2>1. Sent' = Sent /\ Offered' = Offered /\ Detected' = Detected
    BY <1>2 DEF Sent, Offered, Detected
  <2>2. Freed' = Freed /\ Asked' = Asked + 1
    BY <1>1, <1>2, <2>1 DEF Freed, Asked, Numbers
  <2>3. Unclaimed' = IF Len(stream["pose"]) = 0 THEN Unclaimed ELSE Unclaimed - 1
    <3>1. Unclaimed = Len(stream["pose"]) - 0
      BY <1>2 DEF Unclaimed
    <3>2. CASE Len(stream["pose"]) = 0
      <4>1. Unclaimed' = Len(stream["pose"]) - 0
        BY <1>2, <1>3, <3>2 DEF Unclaimed
      <4>. QED  BY <3>1, <3>2, <4>1
    <3>3. CASE Len(stream["pose"]) # 0
      <4>1. Unclaimed' = Len(stream["pose"]) - 1
        BY <1>2, <1>3, <3>3 DEF Unclaimed
      <4>. QED  BY <1>1, <3>1, <3>3, <4>1 DEF Numbers, Room
    <3>. QED  BY <3>2, <3>3
  <2>. QED  BY <2>1, <2>2, <2>3
<1>6. TypeOK'
  <2>1. inPose' \in {None} \cup 0..(MaxFrames - 1)
    BY <1>1, <1>3, BoundsAssumption DEF IInv, TypeOK, Numbers, Room
  <2>. QED  BY <2>1 DEF IInv, TypeOK, GetPose
<1>7. RoomOK'
  BY <1>1 DEF IInv, RoomOK, Full, GetPose, Numbers, Room
<1>8. HeldOK'
  BY <1>1 DEF IInv, HeldOK, Empty, GetPose, Numbers, Room
<1>9. OrderOK'
  BY <1>1, <1>5, SameOrder
     DEF IInv, OrderOK, RenderOrder, GetPose, Numbers, Room
<1>10. PaceOK'
  <2>1. CASE Len(stream["pose"]) = 0
    BY <1>1, <1>2, <1>4, <1>5, <2>1 DEF PaceOK, Unclaimed, Numbers, Room
  <2>2. CASE Len(stream["pose"]) # 0
    BY <1>1, <1>5, <2>2 DEF IInv, PaceOK, Numbers, Room
  <2>. QED  BY <2>1, <2>2
<1>11. PoseNotAhead'
  <2>1. RenderOrder /\ Front("render") = stream["render"][1]
    BY <1>1, <1>2 DEF IInv, OrderOK, Fronts, Streams
  <2>2. stream["render"][1] = Freed
    <3>1. 1 \in 1..Len(stream["render"]) /\ Freed \in Int
      BY <1>1, <1>2 DEF Numbers, Room
    <3>. QED  BY <2>1, <3>1 DEF RenderOrder
  <2>3. frames <= Freed + QueueSize["render"]
    <3>1. CASE player = "place"
      BY <1>1, <3>1 DEF Freed, Sent, Numbers, Room
    <3>2. CASE player # "place"
      <4>1. Freed + Len(stream["render"]) + 1 = frames
        BY <1>1, <3>2 DEF Freed, Sent, Numbers, Room
      <4>2. Len(stream["render"]) < QueueSize["render"]
        BY <3>2 DEF IInv, RoomOK
      <4>. QED  BY <1>1, <4>1, <4>2 DEF Numbers, Room
    <3>. QED  BY <3>1, <3>2
  <2>4. Front("render")' = Front("render")
    BY <1>2 DEF Front
  <2>. QED  BY <1>1, <1>3, <2>1, <2>2, <2>3, <2>4 DEF PoseNotAhead, Numbers, Room
<1>12. KeyMovesOnce'
  BY <1>1 DEF IInv, HeldOK, KeyMovesOnce, GetPose, Numbers, Room
<1>. QED  BY <1>6, <1>7, <1>8, <1>9, <1>10, <1>11, <1>12 DEF IInv

LEMMA GetKeyIInv == IInv /\ GetKey => IInv'
<1>. SUFFICES ASSUME IInv, GetKey PROVE IInv'
  OBVIOUS
<1>1. Numbers /\ \A s \in Streams : Elements(s) /\ Fronts(s)
  BY AreNumbers, AreElements
<1>2. inKey = None /\ moved + Len(stream["key"]) = keys /\ UNCHANGED <<stream, keys>>
  BY <1>1 DEF IInv, HeldOK, GetKey, KeyMovesOnce, Numbers, Room
<1>3. IF Len(stream["key"]) = 0
         THEN inKey' = None /\ moved' = moved
         ELSE inKey' = stream["key"][1] /\ inKey' \in Nat /\ inKey' < keys /\ inKey' # None
              /\ moved' = moved + 1 /\ moved' <= keys
  <2>1. Fronts("key") /\ Len(stream["key"]) \in Nat /\ KeyOrder
    BY <1>1 DEF Streams, IInv, OrderOK, Numbers, Room
  <2>2. /\ inKey' = IF Empty("key") THEN None ELSE Front("key")
        /\ moved' = IF Empty("key") THEN moved ELSE moved + 1
    BY DEF GetKey
  <2>. QED  BY <1>1, <1>2, <2>1, <2>2 DEF Fronts, KeyOrder, None, Numbers
<1>4. /\ Sent' = Sent /\ Offered' = Offered /\ Freed' = Freed
      /\ Asked' = Asked /\ Unclaimed' = Unclaimed /\ Detected' = Detected
  BY <1>1
     DEF IInv, TypeOK, HeldOK, Sent, Offered, Freed, Asked, Unclaimed, Detected,
         GetKey, Numbers, Room
<1>5. TypeOK'
  <2>1. inKey' \in {None} \cup 0..(MaxKeys - 1) /\ moved' \in 0..MaxKeys
    BY <1>1, <1>3, BoundsAssumption DEF IInv, TypeOK, Numbers, Room
  <2>. QED  BY <2>1 DEF IInv, TypeOK, GetKey
<1>6. RoomOK'
  BY <1>1 DEF IInv, RoomOK, Full, GetKey, Numbers, Room
<1>7. HeldOK'
  BY <1>1 DEF IInv, HeldOK, Empty, GetKey, Numbers, Room
<1>8. OrderOK'
  BY <1>1, <1>4, SameOrder
     DEF IInv, OrderOK, RenderOrder, GetKey, Numbers, Room
<1>9. PaceOK'
  BY <1>1, <1>4 DEF IInv, PaceOK, GetKey, Numbers, Room
<1>10. PoseNotAhead'
  BY <1>1, <1>4 DEF IInv, HeldOK, PoseNotAhead, Front, GetKey, Numbers, Room
<1>11. KeyMovesOnce'
  <2>1. CASE Len(stream["key"]) = 0
    <3>1. moved' + Len(stream["key"]) = keys + 0
      BY <1>1, <1>2, <1>3, <2>1 DEF Numbers, Room
    <3>. QED  BY <1>2, <1>3, <2>1, <3>1 DEF KeyMovesOnce
  <2>2. CASE Len(stream["key"]) # 0
    <3>1. moved' = moved + 1 /\ inKey' # None
      BY <1>3, <2>2
    <3>2. moved' + Len(stream["key"]) = keys + 1
      <4>. DEFINE n == Len(stream["key"])
      <4>1. moved + n = keys /\ n \in Nat /\ moved \in Nat
        BY <1>1, <1>2 DEF Numbers, Room
      <4>. HIDE DEF n
      <4>2. moved' + n = keys + 1
        BY <3>1, <4>1
      <4>. QED  BY <4>2 DEF n
    <3>. QED  BY <1>2, <3>1, <3>2 DEF KeyMovesOnce
  <2>. QED  BY <2>1, <2>2
<1>. QED  BY <1>5, <1>6, <1>7, <1>8, <1>9, <1>10, <1>11 DEF IInv

LEMMA CopyIInv == IInv /\ Copy => IInv'
<1>. SUFFICES ASSUME IInv, Copy PROVE IInv'
  OBVIOUS
<1>1. Numbers /\ \A s \in Streams : Elements(s) /\ Fronts(s)
  BY AreNumbers, AreElements
<1>2. /\ player = "copy" /\ player' = "send" /\ frames > 0
      /\ Len(stream["detect"]) < QueueSize["detect"]
      /\ pixels' = pixels \cup {Clone(frames - 1)}
      /\ UNCHANGED <<keyboard, detector, renderer, display, frames, keys, inPose, inKey,
                     moved>>
  BY <1>1
     DEF IInv, HeldOK, RoomOK, Copy, Numbers, Room, Full, OrderOK, RenderOrder
<1>3. Others("detect") /\ Pushed("detect", frames - 1)
  BY <1>1, <1>2, PushFacts DEF Streams, Numbers, Room, Copy
<1>4. /\ stream'["render"] = stream["render"]
      /\ stream'["pose"] = stream["pose"]
      /\ stream'["key"] = stream["key"]
      /\ stream'["show"] = stream["show"]
  BY <1>3 DEF Others, Streams
<1>5. Len(stream'["detect"]) = Len(stream["detect"]) + 1
  BY <1>3 DEF Pushed
<1>6. /\ Sent' = Sent /\ Offered = frames - 1 /\ Offered' = frames /\ Freed' = Freed
      /\ Asked' = Asked /\ Unclaimed' = Unclaimed /\ Detected' = Detected
  BY <1>1, <1>2, <1>4, <1>5
     DEF Sent, Offered, Freed, Asked, Unclaimed, Detected, Numbers, Room
<1>7. TypeOK'
  BY <1>1, <1>2, <1>3, BoundsAssumption
     DEF IInv, TypeOK, Pushed, Numbers, Clone
<1>8. RoomOK'
  BY <1>1, <1>2, <1>4, <1>5 DEF IInv, RoomOK, Numbers, Room
<1>9. HeldOK'
  BY <1>1, <1>2, <1>4, <1>5 DEF IInv, HeldOK, Numbers, Room
<1>10. OrderOK'
  <2>1. RenderOrder'
    BY <1>1, <1>2, <1>4, <1>6
       DEF IInv, OrderOK, RenderOrder, Elements, Streams, Numbers, Room
  <2>2. DetectOrder'
    <3>. DEFINE n == Len(stream["detect"])
    <3>1. /\ n \in Nat /\ frames \in Nat /\ DetectOrder
          /\ \A i \in 1..n : stream["detect"][i] \in Nat
      BY <1>1 DEF IInv, OrderOK, Numbers, Room, Elements, Streams
    <3>2. /\ \A i \in 1..n : stream'["detect"][i] = stream["detect"][i]
          /\ stream'["detect"][n + 1] = frames - 1
      BY <1>3 DEF Pushed
    <3>. HIDE DEF n
    <3>3. ASSUME NEW i \in 1..(n + 1) PROVE stream'["detect"][i] < frames
      BY <1>6, <3>1, <3>2 DEF DetectOrder, n
    <3>4. ASSUME NEW i \in 1..(n + 1), NEW j \in 1..(n + 1), i < j
          PROVE  stream'["detect"][i] < stream'["detect"][j]
      <4>1. i \in 1..n
        BY <3>1, <3>4
      <4>2. CASE j = n + 1
        BY <1>6, <3>1, <3>2, <4>1, <4>2 DEF DetectOrder, n
      <4>3. CASE j \in 1..n
        BY <3>1, <3>2, <3>4, <4>1, <4>3 DEF DetectOrder, n
      <4>. QED  BY <3>1, <4>2, <4>3
    <3>. QED  BY <1>5, <1>6, <3>3, <3>4 DEF DetectOrder, n
  <2>3. ShowOrder'
    BY <1>1, <1>2, <1>4, <1>6
       DEF IInv, OrderOK, ShowOrder, Elements, Streams, Numbers, Room
  <2>4. PoseOrder'
    BY <1>1, <1>2, <1>4, <1>6
       DEF IInv, OrderOK, PoseOrder, Elements, Streams, Numbers, Room
  <2>5. KeyOrder'
    BY <1>1, <1>2, <1>4, <1>6
       DEF IInv, OrderOK, KeyOrder, Elements, Streams, Numbers, Room
  <2>. QED  BY <2>1, <2>2, <2>3, <2>4, <2>5 DEF OrderOK
<1>11. PaceOK'
  BY <1>1, <1>2, <1>6 DEF IInv, PaceOK, Numbers, Room
<1>12. PoseNotAhead'
  BY <1>1, <1>2, <1>4, <1>6
     DEF IInv, HeldOK, PoseNotAhead, Front, Numbers, Room
<1>13. KeyMovesOnce'
  BY <1>1, <1>2, <1>4, <1>5 DEF IInv, KeyMovesOnce, Numbers, Room
<1>. QED  BY <1>7, <1>8, <1>9, <1>10, <1>11, <1>12, <1>13 DEF IInv

LEMMA SendFrameIInv == IInv /\ SendFrame => IInv'
<1>. SUFFICES ASSUME IInv, SendFrame PROVE IInv'
  OBVIOUS
<1>1. Numbers /\ \A s \in Streams : Elements(s) /\ Fronts(s)
  BY AreNumbers, AreElements
<1>2. /\ player = "send" /\ player' = "place" /\ frames > 0
      /\ Len(stream["render"]) < QueueSize["render"]
      /\ UNCHANGED <<keyboard, detector, renderer, display, frames, keys, inPose, inKey,
                     moved, pixels>>
  BY <1>1
     DEF IInv, HeldOK, RoomOK, SendFrame, Numbers, Room, OrderOK, RenderOrder
<1>3. Others("render") /\ Pushed("render", frames - 1)
  BY <1>1, <1>2, PushFacts DEF Streams, Numbers, Room, SendFrame
<1>4. /\ stream'["detect"] = stream["detect"]
      /\ stream'["pose"] = stream["pose"]
      /\ stream'["key"] = stream["key"]
      /\ stream'["show"] = stream["show"]
  BY <1>3 DEF Others, Streams
<1>5. Len(stream'["render"]) = Len(stream["render"]) + 1
  BY <1>3 DEF Pushed
<1>6. /\ Sent = frames - 1 /\ Sent' = frames /\ Offered' = Offered /\ Freed' = Freed
      /\ Asked' = Asked /\ Unclaimed' = Unclaimed /\ Detected' = Detected
  BY <1>1, <1>2, <1>4, <1>5
     DEF Sent, Offered, Freed, Asked, Unclaimed, Detected, Numbers, Room
<1>7. TypeOK'
  BY <1>1, <1>2, <1>3, BoundsAssumption DEF IInv, TypeOK, Pushed, Numbers
<1>8. RoomOK'
  BY <1>1, <1>2, <1>4, <1>5 DEF IInv, RoomOK, Numbers, Room
<1>9. HeldOK'
  BY <1>1, <1>2, <1>4, <1>5 DEF IInv, HeldOK, Numbers, Room
<1>10. OrderOK'
  <2>1. RenderOrder'
    <3>. DEFINE n == Len(stream["render"])
    <3>1. n \in Nat /\ RenderOrder /\ Freed = frames - 1 - n
      BY <1>1, <1>6 DEF IInv, OrderOK, Numbers, Room, Freed
    <3>2. /\ \A i \in 1..n : stream'["render"][i] = stream["render"][i]
          /\ stream'["render"][n + 1] = frames - 1
      BY <1>3 DEF Pushed
    <3>. HIDE DEF n
    <3>3. ASSUME NEW i \in 1..(n + 1) PROVE stream'["render"][i] = Freed + i - 1
      <4>1. CASE i = n + 1
        BY <1>1, <3>1, <3>2, <4>1 DEF Numbers
      <4>2. CASE i \in 1..n
        BY <3>1, <3>2, <4>2 DEF RenderOrder, n
      <4>. QED  BY <3>1, <4>1, <4>2
    <3>4. Freed' >= 0 /\ Freed' = Freed
      BY <1>6, <3>1 DEF RenderOrder
    <3>. QED  BY <1>2, <1>5, <3>3, <3>4 DEF RenderOrder, n
  <2>2. DetectOrder'
    BY <1>1, <1>2, <1>4, <1>6
       DEF IInv, OrderOK, DetectOrder, Elements, Streams, Numbers, Room
  <2>3. ShowOrder'
    BY <1>1, <1>2, <1>4, <1>6
       DEF IInv, OrderOK, ShowOrder, Elements, Streams, Numbers, Room
  <2>4. PoseOrder'
    BY <1>1, <1>2, <1>4, <1>6
       DEF IInv, OrderOK, PoseOrder, Elements, Streams, Numbers, Room
  <2>5. KeyOrder'
    BY <1>1, <1>2, <1>4, <1>6
       DEF IInv, OrderOK, KeyOrder, Elements, Streams, Numbers, Room
  <2>. QED  BY <2>1, <2>2, <2>3, <2>4, <2>5 DEF OrderOK
<1>11. PaceOK'
  BY <1>1, <1>2, <1>6 DEF IInv, PaceOK, Numbers, Room
<1>12. PoseNotAhead'
  <2>1. ASSUME renderer \in {"getKey", "place", "send", "freeFrame"}
        PROVE  Front("render")' = Front("render")
    <3>1. Len(stream["render"]) > 0
      BY <2>1 DEF IInv, HeldOK
    <3>. QED  BY <1>3, <3>1 DEF Pushed, Front
  <2>. QED  BY <1>2, <2>1 DEF IInv, PoseNotAhead
<1>13. KeyMovesOnce'
  BY <1>1, <1>2, <1>4, <1>5 DEF IInv, KeyMovesOnce, Numbers, Room
<1>. QED  BY <1>7, <1>8, <1>9, <1>10, <1>11, <1>12, <1>13 DEF IInv

LEMMA KeyEventIInv == IInv /\ KeyEvent => IInv'
<1>. SUFFICES ASSUME IInv, KeyEvent PROVE IInv'
  OBVIOUS
<1>1. Numbers /\ \A s \in Streams : Elements(s) /\ Fronts(s)
  BY AreNumbers, AreElements
<1>2. /\ keyboard = "event" /\ keyboard' = "place" /\ keys < MaxKeys /\ keys' = keys + 1
      /\ Len(stream["key"]) < QueueSize["key"]
      /\ UNCHANGED <<player, detector, renderer, display, frames, inPose, inKey,
                     moved, pixels>>
  BY <1>1 DEF IInv, HeldOK, RoomOK, KeyEvent, Numbers, Room
<1>3. Others("key") /\ Pushed("key", keys)
  BY <1>1, <1>2, PushFacts DEF Streams, Numbers, Room, KeyEvent
<1>4. /\ stream'["detect"] = stream["detect"]
      /\ stream'["render"] = stream["render"]
      /\ stream'["pose"] = stream["pose"]
      /\ stream'["show"] = stream["show"]
  BY <1>3 DEF Others, Streams
<1>5. Len(stream'["key"]) = Len(stream["key"]) + 1
  BY <1>3 DEF Pushed
<1>6. /\ Sent' = Sent /\ Offered' = Offered /\ Freed' = Freed
      /\ Asked' = Asked /\ Unclaimed' = Unclaimed /\ Detected' = Detected
  BY <1>1, <1>2, <1>4, <1>5
     DEF Sent, Offered, Freed, Asked, Unclaimed, Detected, Numbers, Room
<1>7. TypeOK'
  BY <1>1, <1>2, <1>3, BoundsAssumption DEF IInv, TypeOK, Pushed, Numbers
<1>8. RoomOK'
  BY <1>1, <1>2, <1>4, <1>5 DEF IInv, RoomOK, Numbers, Room
<1>9. HeldOK'
  BY <1>1, <1>2, <1>4, <1>5 DEF IInv, HeldOK, Numbers, Room
<1>10. OrderOK'
  <2>1. RenderOrder'
    BY <1>1, <1>2, <1>4, <1>6
       DEF IInv, OrderOK, RenderOrder, Elements, Streams, Numbers, Room
  <2>2. DetectOrder'
    BY <1>1, <1>2, <1>4, <1>6
       DEF IInv, OrderOK, DetectOrder, Elements, Streams, Numbers, Room
  <2>3. ShowOrder'
    BY <1>1, <1>2, <1>4, <1>6
       DEF IInv, OrderOK, ShowOrder, Elements, Streams, Numbers, Room
  <2>4. PoseOrder'
    BY <1>1, <1>2, <1>4, <1>6
       DEF IInv, OrderOK, PoseOrder, Elements, Streams, Numbers, Room
  <2>5. KeyOrder'
    <3>. DEFINE n == Len(stream["key"])
    <3>1. /\ n \in Nat /\ KeyOrder
          /\ \A i \in 1..n : stream["key"][i] \in Nat
      BY <1>1 DEF IInv, OrderOK, Numbers, Room, Elements, Streams
    <3>2. /\ \A i \in 1..n : stream'["key"][i] = stream["key"][i]
          /\ stream'["key"][n + 1] = keys
      BY <1>3 DEF Pushed
    <3>. HIDE DEF n
    <3>3. ASSUME NEW i \in 1..(n + 1) PROVE stream'["key"][i] < keys'
      <4>1. CASE i = n + 1
        BY <1>1, <1>2, <3>1, <3>2, <4>1 DEF Numbers
      <4>2. CASE i \in 1..n
        BY <1>1, <1>2, <3>1, <3>2, <4>2 DEF KeyOrder, Numbers, n
      <4>. QED  BY <3>1, <4>1, <4>2
    <3>. QED  BY <1>2, <1>5, <3>3 DEF KeyOrder, n
  <2>. QED  BY <2>1, <2>2, <2>3, <2>4, <2>5 DEF OrderOK
<1>11. PaceOK'
  BY <1>1, <1>2, <1>6 DEF IInv, PaceOK, Numbers, Room
<1>12. PoseNotAhead'
  BY <1>1, <1>2, <1>4, <1>6
     DEF IInv, HeldOK, PoseNotAhead, Front, Numbers, Room
<1>13. KeyMovesOnce'
  BY <1>1, <1>2, <1>4, <1>5 DEF IInv, KeyMovesOnce, Numbers, Room
<1>. QED  BY <1>7, <1>8, <1>9, <1>10, <1>11, <1>12, <1>13 DEF IInv

LEMMA DetectFoundIInv == IInv /\ Detect /\ Push("pose", Front("detect")) => IInv'
<1>. SUFFICES ASSUME IInv, Detect, Push("pose", Front("detect")) PROVE IInv'
  OBVIOUS
<1>1. Numbers /\ \A s \in Streams : Elements(s) /\ Fronts(s)
  BY AreNumbers, AreElements
<1>2. /\ detector = "detect" /\ detector' = "free" /\ Len(stream["detect"]) > 0
      /\ Len(stream["pose"]) < QueueSize["pose"]
      /\ UNCHANGED <<player, keyboard, renderer, display, frames, keys, inPose, inKey,
                     moved, pixels>>
  BY <1>1 DEF IInv, HeldOK, RoomOK, Detect, Numbers, Room
<1>3. Others("pose") /\ Pushed("pose", Front("detect"))
  BY <1>1, <1>2, PushFacts DEF Streams, Numbers, Room, Fronts
<1>4. /\ stream'["detect"] = stream["detect"]
      /\ stream'["render"] = stream["render"]
      /\ stream'["key"] = stream["key"]
      /\ stream'["show"] = stream["show"]
  BY <1>3 DEF Others, Streams
<1>5. Len(stream'["pose"]) = Len(stream["pose"]) + 1
  BY <1>3 DEF Pushed
<1>6. /\ Sent' = Sent /\ Offered' = Offered /\ Freed' = Freed
      /\ Asked' = Asked /\ Unclaimed' = Unclaimed + 1 /\ Detected' = Detected + 1
  BY <1>1, <1>2, <1>4, <1>5
     DEF Sent, Offered, Freed, Asked, Unclaimed, Detected, Numbers, Room
<1>7. TypeOK'
  BY <1>1, <1>2, <1>3, BoundsAssumption DEF IInv, TypeOK, Pushed, Numbers
<1>8. RoomOK'
  BY <1>1, <1>2, <1>4, <1>5 DEF IInv, RoomOK, Numbers, Room
<1>9. HeldOK'
  BY <1>1, <1>2, <1>4, <1>5 DEF IInv, HeldOK, Numbers, Room
<1>10. OrderOK'
  <2>1. RenderOrder'
    BY <1>1, <1>2, <1>4, <1>6
       DEF IInv, OrderOK, RenderOrder, Elements, Streams, Numbers, Room
  <2>2. DetectOrder'
    BY <1>1, <1>2, <1>4, <1>6
       DEF IInv, OrderOK, DetectOrder, Elements, Streams, Numbers, Room
  <2>3. ShowOrder'
    BY <1>1, <1>2, <1>4, <1>6
       DEF IInv, OrderOK, ShowOrder, Elements, Streams, Numbers, Room
  <2>4. PoseOrder'
    <3>. DEFINE n == Len(stream["pose"])
    <3>1. /\ n \in Nat /\ PoseOrder
          /\ \A i \in 1..n : stream["pose"][i] \in Nat
      BY <1>1 DEF IInv, OrderOK, Numbers, Room, Elements, Streams
    <3>2. /\ \A i \in 1..n : stream'["pose"][i] = stream["pose"][i]
          /\ stream'["pose"][n + 1] = Front("detect")
      BY <1>3 DEF Pushed
    <3>. HIDE DEF n
    <3>3. ASSUME NEW i \in 1..(n + 1) PROVE stream'["pose"][i] < frames
      <4>1. CASE i = n + 1
        <5>1. 1 \in 1..Len(stream["detect"]) /\ Front("detect") = stream["detect"][1]
          BY <1>1, <1>2 DEF Numbers, Room, Fronts, Streams
        <5>2. stream["detect"][1] < Offered /\ Offered <= frames
          BY <1>1, <5>1 DEF IInv, OrderOK, DetectOrder, Offered, Numbers
        <5>3. stream["detect"][1] \in Nat
          BY <1>1, <5>1 DEF Elements, Streams
        <5>. QED  BY <1>1, <3>1, <3>2, <4>1, <5>1, <5>2, <5>3 DEF Numbers
      <4>2. CASE i \in 1..n
        BY <1>1, <1>2, <3>1, <3>2, <4>2 DEF PoseOrder, Numbers, n
      <4>. QED  BY <3>1, <4>1, <4>2
    <3>. QED  BY <1>2, <1>5, <3>3 DEF PoseOrder, n
  <2>5. KeyOrder'
    BY <1>1, <1>2, <1>4, <1>6
       DEF IInv, OrderOK, KeyOrder, Elements, Streams, Numbers, Room
  <2>. QED  BY <2>1, <2>2, <2>3, <2>4, <2>5 DEF OrderOK
<1>11. PaceOK'
  BY <1>1, <1>2, <1>6 DEF IInv, PaceOK, Numbers, Room
<1>12. PoseNotAhead'
  BY <1>1, <1>2, <1>4, <1>6
     DEF IInv, HeldOK, PoseNotAhead, Front, Numbers, Room
<1>13. KeyMovesOnce'
  BY <1>1, <1>2, <1>4, <1>5 DEF IInv, KeyMovesOnce, Numbers, Room
<1>. QED  BY <1>7, <1>8, <1>9, <1>10, <1>11, <1>12, <1>13 DEF IInv

LEMMA DetectNothingIInv == IInv /\ Detect /\ UNCHANGED stream => IInv'
<1>. SUFFICES ASSUME IInv, Detect, UNCHANGED stream PROVE IInv'
  OBVIOUS
<1>1. Numbers /\ \A s \in Streams : Elements(s) /\ Fronts(s)
  BY AreNumbers, AreElements
<1>2. /\ Sent' = Sent /\ Offered' = Offered /\ Freed' = Freed
      /\ Asked' = Asked /\ Unclaimed' = Unclaimed /\ Detected' = Detected + 1
  BY <1>1
     DEF IInv, TypeOK, HeldOK, Sent, Offered, Freed, Asked, Unclaimed, Detected,
         Detect, Numbers, Room
<1>3. TypeOK'
  BY <1>1, <1>2, RecipeAssumption, BoundsAssumption
     DEF IInv, TypeOK, Detect, Numbers, Room
<1>4. RoomOK'
  BY <1>1 DEF IInv, RoomOK, Full, Detect, Numbers, Room
<1>5. HeldOK'
  BY <1>1 DEF IInv, HeldOK, Empty, Detect, Numbers, Room
<1>6. OrderOK'
  BY <1>1, <1>2, SameOrder
     DEF IInv, OrderOK, RenderOrder, Detect, Numbers, Room
<1>7. PaceOK'
  BY <1>1, <1>2 DEF IInv, PaceOK, Detect, Numbers, Room
<1>8. PoseNotAhead'
  BY <1>1, <1>2 DEF IInv, HeldOK, PoseNotAhead, Front, Detect, Numbers, Room
<1>9. KeyMovesOnce'
  BY <1>1 DEF IInv, HeldOK, KeyMovesOnce, Detect, Numbers, Room
<1>. QED  BY <1>3, <1>4, <1>5, <1>6, <1>7, <1>8, <1>9 DEF IInv

LEMMA DetectFreeIInv == IInv /\ DetectFree => IInv'
<1>. SUFFICES ASSUME IInv, DetectFree PROVE IInv'
  OBVIOUS
<1>1. Numbers /\ \A s \in Streams : Elements(s) /\ Fronts(s)
  BY AreNumbers, AreElements
<1>2. /\ detector = "free" /\ detector' = "get" /\ Len(stream["detect"]) > 0
      /\ pixels' \subseteq pixels
      /\ UNCHANGED <<player, keyboard, renderer, display, frames, keys, inPose, inKey,
                     moved>>
  BY <1>1 DEF IInv, HeldOK, RoomOK, DetectFree, Numbers, Room
<1>3. Others("detect") /\ Popped("detect")
  BY <1>1, <1>2, PopFacts DEF Streams, Numbers, Room, DetectFree
<1>4. /\ stream'["render"] = stream["render"]
      /\ stream'["pose"] = stream["pose"]
      /\ stream'["key"] = stream["key"]
      /\ stream'["show"] = stream["show"]
  BY <1>3 DEF Others, Streams
<1>5. Len(stream'["detect"]) = Len(stream["detect"]) - 1
  BY <1>3 DEF Popped
<1>6. /\ Sent' = Sent /\ Offered' = Offered /\ Freed' = Freed
      /\ Asked' = Asked /\ Unclaimed' = Unclaimed /\ Detected' = Detected
  BY <1>1, <1>2, <1>4, <1>5
     DEF Sent, Offered, Freed, Asked, Unclaimed, Detected, Numbers, Room
<1>7. TypeOK'
  BY <1>1, <1>2, <1>3, BoundsAssumption DEF IInv, TypeOK, Popped, Numbers
<1>8. RoomOK'
  BY <1>1, <1>2, <1>4, <1>5 DEF IInv, RoomOK, Numbers, Room
<1>9. HeldOK'
  BY <1>1, <1>2, <1>4, <1>5 DEF IInv, HeldOK, Numbers, Room
<1>10. OrderOK'
  <2>1. RenderOrder'
    BY <1>1, <1>2, <1>4, <1>6
       DEF IInv, OrderOK, RenderOrder, Elements, Streams, Numbers, Room
  <2>2. DetectOrder'
    <3>. DEFINE n == Len(stream["detect"])
    <3>1. n \in Nat /\ DetectOrder
      BY <1>1 DEF IInv, OrderOK, Numbers, Room
    <3>2. \A i \in 1..(n - 1) : stream'["detect"][i] = stream["detect"][i + 1]
      BY <1>3 DEF Popped
    <3>. HIDE DEF n
    <3>3. ASSUME NEW i \in 1..(n - 1)
          PROVE  stream'["detect"][i] < Offered
      <4>1. i + 1 \in 1..n
        BY <3>1
      <4>. QED  BY <3>1, <3>2, <4>1 DEF DetectOrder, n
    <3>4. ASSUME NEW i \in 1..(n - 1), NEW j \in 1..(n - 1), i < j
          PROVE  stream'["detect"][i] < stream'["detect"][j]
      <4>1. i + 1 \in 1..n /\ j + 1 \in 1..n /\ i + 1 < j + 1
        BY <3>1, <3>4
      <4>. QED  BY <3>1, <3>2, <4>1 DEF DetectOrder, n
    <3>. QED  BY <1>2, <1>5, <1>6, <3>3, <3>4 DEF DetectOrder, n
  <2>3. ShowOrder'
    BY <1>1, <1>2, <1>4, <1>6
       DEF IInv, OrderOK, ShowOrder, Elements, Streams, Numbers, Room
  <2>4. PoseOrder'
    BY <1>1, <1>2, <1>4, <1>6
       DEF IInv, OrderOK, PoseOrder, Elements, Streams, Numbers, Room
  <2>5. KeyOrder'
    BY <1>1, <1>2, <1>4, <1>6
       DEF IInv, OrderOK, KeyOrder, Elements, Streams, Numbers, Room
  <2>. QED  BY <2>1, <2>2, <2>3, <2>4, <2>5 DEF OrderOK
<1>11. PaceOK'
  BY <1>1, <1>2, <1>6 DEF IInv, PaceOK, Numbers, Room
<1>12. PoseNotAhead'
  BY <1>1, <1>2, <1>4, <1>6
     DEF IInv, HeldOK, PoseNotAhead, Front, Numbers, Room
<1>13. KeyMovesOnce'
  BY <1>1, <1>2, <1>4, <1>5 DEF IInv, KeyMovesOnce, Numbers, Room
<1>. QED  BY <1>7, <1>8, <1>9, <1>10, <1>11, <1>12, <1>13 DEF IInv

LEMMA FreeNoKeyIInv == IInv /\ FreeKey /\ inKey = None => IInv'
<1>. SUFFICES ASSUME IInv, FreeKey, inKey = None PROVE IInv'
  OBVIOUS
<1>1. Numbers /\ \A s \in Streams : Elements(s) /\ Fronts(s)
  BY AreNumbers, AreElements
<1>2. /\ Sent' = Sent /\ Offered' = Offered /\ Freed' = Freed
      /\ Asked' = Asked /\ Unclaimed' = Unclaimed /\ Detected' = Detected
  BY <1>1
     DEF IInv, TypeOK, HeldOK, Sent, Offered, Freed, Asked, Unclaimed, Detected,
         FreeKey, Numbers, Room
<1>3. TypeOK'
  BY <1>1, <1>2, RecipeAssumption, BoundsAssumption
     DEF IInv, TypeOK, FreeKey, Numbers, Room
<1>4. RoomOK'
  BY <1>1 DEF IInv, RoomOK, Full, FreeKey, Numbers, Room
<1>5. HeldOK'
  BY <1>1 DEF IInv, HeldOK, Empty, FreeKey, Numbers, Room
<1>6. OrderOK'
  BY <1>1, <1>2, SameOrder
     DEF IInv, OrderOK, RenderOrder, FreeKey, Numbers, Room
<1>7. PaceOK'
  BY <1>1, <1>2 DEF IInv, PaceOK, FreeKey, Numbers, Room
<1>8. PoseNotAhead'
  BY <1>1, <1>2 DEF IInv, HeldOK, PoseNotAhead, Front, FreeKey, Numbers, Room
<1>9. KeyMovesOnce'
  BY <1>1 DEF IInv, HeldOK, KeyMovesOnce, FreeKey, Numbers, Room
<1>. QED  BY <1>3, <1>4, <1>5, <1>6, <1>7, <1>8, <1>9 DEF IInv

LEMMA FreeKeyIInv == IInv /\ FreeKey /\ inKey # None => IInv'
<1>. SUFFICES ASSUME IInv, FreeKey, inKey # None PROVE IInv'
  OBVIOUS
<1>1. Numbers /\ \A s \in Streams : Elements(s) /\ Fronts(s)
  BY AreNumbers, AreElements
<1>2. /\ renderer = "freeKey" /\ renderer' = "freePose" /\ inKey' = None
      /\ Len(stream["key"]) > 0
      /\ UNCHANGED <<player, keyboard, detector, display, frames, keys, inPose, moved,
                     pixels>>
  BY <1>1 DEF IInv, HeldOK, RoomOK, FreeKey, Numbers, Room
<1>3. Others("key") /\ Popped("key")
  BY <1>1, <1>2, PopFacts DEF Streams, Numbers, Room, FreeKey
<1>4. /\ stream'["detect"] = stream["detect"]
      /\ stream'["render"] = stream["render"]
      /\ stream'["pose"] = stream["pose"]
      /\ stream'["show"] = stream["show"]
  BY <1>3 DEF Others, Streams
<1>5. Len(stream'["key"]) = Len(stream["key"]) - 1
  BY <1>3 DEF Popped
<1>6. /\ Sent' = Sent /\ Offered' = Offered /\ Freed' = Freed
      /\ Asked' = Asked /\ Unclaimed' = Unclaimed /\ Detected' = Detected
  BY <1>1, <1>2, <1>4, <1>5
     DEF Sent, Offered, Freed, Asked, Unclaimed, Detected, Numbers, Room
<1>7. TypeOK'
  BY <1>1, <1>2, <1>3, BoundsAssumption DEF IInv, TypeOK, Popped, Numbers
<1>8. RoomOK'
  BY <1>1, <1>2, <1>4, <1>5 DEF IInv, RoomOK, Numbers, Room
<1>9. HeldOK'
  BY <1>1, <1>2, <1>4, <1>5 DEF IInv, HeldOK, Numbers, Room
<1>10. OrderOK'
  <2>1. RenderOrder'
    BY <1>1, <1>2, <1>4, <1>6
       DEF IInv, OrderOK, RenderOrder, Elements, Streams, Numbers, Room
  <2>2. DetectOrder'
    BY <1>1, <1>2, <1>4, <1>6
       DEF IInv, OrderOK, DetectOrder, Elements, Streams, Numbers, Room
  <2>3. ShowOrder'
    BY <1>1, <1>2, <1>4, <1>6
       DEF IInv, OrderOK, ShowOrder, Elements, Streams, Numbers, Room
  <2>4. PoseOrder'
    BY <1>1, <1>2, <1>4, <1>6
       DEF IInv, OrderOK, PoseOrder, Elements, Streams, Numbers, Room
  <2>5. KeyOrder'
    <3>. DEFINE n == Len(stream["key"])
    <3>1. n \in Nat /\ KeyOrder
      BY <1>1 DEF IInv, OrderOK, Numbers, Room
    <3>2. \A i \in 1..(n - 1) : stream'["key"][i] = stream["key"][i + 1]
      BY <1>3 DEF Popped
    <3>. HIDE DEF n
    <3>3. ASSUME NEW i \in 1..(n - 1)
          PROVE  stream'["key"][i] < keys
      <4>1. i + 1 \in 1..n
        BY <3>1
      <4>. QED  BY <3>1, <3>2, <4>1 DEF KeyOrder, n
    <3>. QED  BY <1>2, <1>5, <1>6, <3>3 DEF KeyOrder, n
  <2>. QED  BY <2>1, <2>2, <2>3, <2>4, <2>5 DEF OrderOK
<1>11. PaceOK'
  BY <1>1, <1>2, <1>6 DEF IInv, PaceOK, Numbers, Room
<1>12. PoseNotAhead'
  BY <1>1, <1>2, <1>4, <1>6
     DEF IInv, HeldOK, PoseNotAhead, Front, Numbers, Room
<1>13. KeyMovesOnce'
  BY <1>1, <1>2, <1>4, <1>5 DEF IInv, KeyMovesOnce, Numbers, Room
<1>. QED  BY <1>7, <1>8, <1>9, <1>10, <1>11, <1>12, <1>13 DEF IInv

LEMMA FreeNoPoseIInv == IInv /\ FreePose /\ inPose = None => IInv'
<1>. SUFFICES ASSUME IInv, FreePose, inPose = None PROVE IInv'
  OBVIOUS
<1>1. Numbers /\ \A s \in Streams : Elements(s) /\ Fronts(s)
  BY AreNumbers, AreElements
<1>2. /\ Sent' = Sent /\ Offered' = Offered /\ Freed' = Freed
      /\ Asked' = Asked /\ Unclaimed' = Unclaimed /\ Detected' = Detected
  BY <1>1
     DEF IInv, TypeOK, HeldOK, Sent, Offered, Freed, Asked, Unclaimed, Detected,
         FreePose, Numbers, Room
<1>3. TypeOK'
  BY <1>1, <1>2, RecipeAssumption, BoundsAssumption
     DEF IInv, TypeOK, FreePose, Numbers, Room
<1>4. RoomOK'
  BY <1>1 DEF IInv, RoomOK, Full, FreePose, Numbers, Room
<1>5. HeldOK'
  BY <1>1 DEF IInv, HeldOK, Empty, FreePose, Numbers, Room
<1>6. OrderOK'
  BY <1>1, <1>2, SameOrder
     DEF IInv, OrderOK, RenderOrder, FreePose, Numbers, Room
<1>7. PaceOK'
  BY <1>1, <1>2 DEF IInv, PaceOK, FreePose, Numbers, Room
<1>8. PoseNotAhead'
  BY <1>1, <1>2 DEF IInv, HeldOK, PoseNotAhead, Front, FreePose, Numbers, Room
<1>9. KeyMovesOnce'
  BY <1>1 DEF IInv, HeldOK, KeyMovesOnce, FreePose, Numbers, Room
<1>. QED  BY <1>3, <1>4, <1>5, <1>6, <1>7, <1>8, <1>9 DEF IInv

LEMMA FreePoseIInv == IInv /\ FreePose /\ inPose # None => IInv'
<1>. SUFFICES ASSUME IInv, FreePose, inPose # None PROVE IInv'
  OBVIOUS
<1>1. Numbers /\ \A s \in Streams : Elements(s) /\ Fronts(s)
  BY AreNumbers, AreElements
<1>2. /\ renderer = "freePose" /\ renderer' = "get" /\ inPose' = None
      /\ Len(stream["pose"]) > 0
      /\ UNCHANGED <<player, keyboard, detector, display, frames, keys, inKey, moved,
                     pixels>>
  BY <1>1 DEF IInv, HeldOK, RoomOK, FreePose, Numbers, Room
<1>3. Others("pose") /\ Popped("pose")
  BY <1>1, <1>2, PopFacts DEF Streams, Numbers, Room, FreePose
<1>4. /\ stream'["detect"] = stream["detect"]
      /\ stream'["render"] = stream["render"]
      /\ stream'["key"] = stream["key"]
      /\ stream'["show"] = stream["show"]
  BY <1>3 DEF Others, Streams
<1>5. Len(stream'["pose"]) = Len(stream["pose"]) - 1
  BY <1>3 DEF Popped
<1>6. /\ Sent' = Sent /\ Offered' = Offered /\ Freed' = Freed
      /\ Asked' = Asked /\ Unclaimed' = Unclaimed /\ Detected' = Detected
  BY <1>1, <1>2, <1>4, <1>5
     DEF Sent, Offered, Freed, Asked, Unclaimed, Detected, Numbers, Room
<1>7. TypeOK'
  BY <1>1, <1>2, <1>3, BoundsAssumption DEF IInv, TypeOK, Popped, Numbers
<1>8. RoomOK'
  BY <1>1, <1>2, <1>4, <1>5 DEF IInv, RoomOK, Numbers, Room
<1>9. HeldOK'
  BY <1>1, <1>2, <1>4, <1>5 DEF IInv, HeldOK, Numbers, Room
<1>10. OrderOK'
  <2>1. RenderOrder'
    BY <1>1, <1>2, <1>4, <1>6
       DEF IInv, OrderOK, RenderOrder, Elements, Streams, Numbers, Room
  <2>2. DetectOrder'
    BY <1>1, <1>2, <1>4, <1>6
       DEF IInv, OrderOK, DetectOrder, Elements, Streams, Numbers, Room
  <2>3. ShowOrder'
    BY <1>1, <1>2, <1>4, <1>6
       DEF IInv, OrderOK, ShowOrder, Elements, Streams, Numbers, Room
  <2>4. PoseOrder'
    <3>. DEFINE n == Len(stream["pose"])
    <3>1. n \in Nat /\ PoseOrder
      BY <1>1 DEF IInv, OrderOK, Numbers, Room
    <3>2. \A i \in 1..(n - 1) : stream'["pose"][i] = stream["pose"][i + 1]
      BY <1>3 DEF Popped
    <3>. HIDE DEF n
    <3>3. ASSUME NEW i \in 1..(n - 1)
          PROVE  stream'["pose"][i] < frames
      <4>1. i + 1 \in 1..n
        BY <3>1
      <4>. QED  BY <3>1, <3>2, <4>1 DEF PoseOrder, n
    <3>. QED  BY <1>2, <1>5, <1>6, <3>3 DEF PoseOrder, n
  <2>5. KeyOrder'
    BY <1>1, <1>2, <1>4, <1>6
       DEF IInv, OrderOK, KeyOrder, Elements, Streams, Numbers, Room
  <2>. QED  BY <2>1, <2>2, <2>3, <2>4, <2>5 DEF OrderOK
<1>11. PaceOK'
  BY <1>1, <1>2, <1>6 DEF IInv, PaceOK, Numbers, Room
<1>12. PoseNotAhead'
  BY <1>1, <1>2, <1>4, <1>6
     DEF IInv, HeldOK, PoseNotAhead, Front, Numbers, Room
<1>13. KeyMovesOnce'
  BY <1>1, <1>2, <1>4, <1>5 DEF IInv, KeyMovesOnce, Numbers, Room
<1>. QED  BY <1>7, <1>8, <1>9, <1>10, <1>11, <1>12, <1>13 DEF IInv

LEMMA ShowFreeIInv == IInv /\ ShowFree => IInv'
<1>. SUFFICES ASSUME IInv, ShowFree PROVE IInv'
  OBVIOUS
<1>1. Numbers /\ \A s \in Streams : Elements(s) /\ Fronts(s)
  BY AreNumbers, AreElements
<1>2. /\ display = "show" /\ display' = "get" /\ Len(stream["show"]) > 0
      /\ pixels' \subseteq pixels
      /\ UNCHANGED <<player, keyboard, detector, renderer, frames, keys, inPose, inKey,
                     moved>>
  BY <1>1 DEF IInv, HeldOK, RoomOK, ShowFree, Numbers, Room
<1>3. Others("show") /\ Popped("show")
  BY <1>1, <1>2, PopFacts DEF Streams, Numbers, Room, ShowFree
<1>4. /\ stream'["detect"] = stream["detect"]
      /\ stream'["render"] = stream["render"]
      /\ stream'["pose"] = stream["pose"]
      /\ stream'["key"] = stream["key"]
  BY <1>3 DEF Others, Streams
<1>5. Len(stream'["show"]) = Len(stream["show"]) - 1
  BY <1>3 DEF Popped
<1>6. /\ Sent' = Sent /\ Offered' = Offered /\ Freed' = Freed
      /\ Asked' = Asked /\ Unclaimed' = Unclaimed /\ Detected' = Detected
  BY <1>1, <1>2, <1>4, <1>5
     DEF Sent, Offered, Freed, Asked, Unclaimed, Detected, Numbers, Room
<1>7. TypeOK'
  BY <1>1, <1>2, <1>3, BoundsAssumption DEF IInv, TypeOK, Popped, Numbers
<1>8. RoomOK'
  BY <1>1, <1>2, <1>4, <1>5 DEF IInv, RoomOK, Numbers, Room
<1>9. HeldOK'
  BY <1>1, <1>2, <1>4, <1>5 DEF IInv, HeldOK, Numbers, Room
<1>10. OrderOK'
  <2>1. RenderOrder'
    BY <1>1, <1>2, <1>4, <1>6
       DEF IInv, OrderOK, RenderOrder, Elements, Streams, Numbers, Room
  <2>2. DetectOrder'
    BY <1>1, <1>2, <1>4, <1>6
       DEF IInv, OrderOK, DetectOrder, Elements, Streams, Numbers, Room
  <2>3. ShowOrder'
    <3>. DEFINE n == Len(stream["show"])
    <3>1. n \in Nat /\ ShowOrder
      BY <1>1 DEF IInv, OrderOK, Numbers, Room
    <3>2. \A i \in 1..(n - 1) : stream'["show"][i] = stream["show"][i + 1]
      BY <1>3 DEF Popped
    <3>. HIDE DEF n
    <3>3. ASSUME NEW i \in 1..(n - 1)
          PROVE  stream'["show"][i] < Freed + IF renderer = "freeFrame" THEN 1 ELSE 0
      <4>1. i + 1 \in 1..n
        BY <3>1
      <4>. QED  BY <3>1, <3>2, <4>1 DEF ShowOrder, n
    <3>4. ASSUME NEW i \in 1..(n - 1), NEW j \in 1..(n - 1), i < j
          PROVE  stream'["show"][i] < stream'["show"][j]
      <4>1. i + 1 \in 1..n /\ j + 1 \in 1..n /\ i + 1 < j + 1
        BY <3>1, <3>4
      <4>. QED  BY <3>1, <3>2, <4>1 DEF ShowOrder, n
    <3>. QED  BY <1>2, <1>5, <1>6, <3>3, <3>4 DEF ShowOrder, n
  <2>4. PoseOrder'
    BY <1>1, <1>2, <1>4, <1>6
       DEF IInv, OrderOK, PoseOrder, Elements, Streams, Numbers, Room
  <2>5. KeyOrder'
    BY <1>1, <1>2, <1>4, <1>6
       DEF IInv, OrderOK, KeyOrder, Elements, Streams, Numbers, Room
  <2>. QED  BY <2>1, <2>2, <2>3, <2>4, <2>5 DEF OrderOK
<1>11. PaceOK'
  BY <1>1, <1>2, <1>6 DEF IInv, PaceOK, Numbers, Room
<1>12. PoseNotAhead'
  BY <1>1, <1>2, <1>4, <1>6
     DEF IInv, HeldOK, PoseNotAhead, Front, Numbers, Room
<1>13. KeyMovesOnce'
  BY <1>1, <1>2, <1>4, <1>5 DEF IInv, KeyMovesOnce, Numbers, Room
<1>. QED  BY <1>7, <1>8, <1>9, <1>10, <1>11, <1>12, <1>13 DEF IInv

LEMMA FreeFrameIInv == IInv /\ FreeFrame => IInv'
<1>. SUFFICES ASSUME IInv, FreeFrame PROVE IInv'
  OBVIOUS
<1>1. Numbers /\ \A s \in Streams : Elements(s) /\ Fronts(s)
  BY AreNumbers, AreElements
<1>2. /\ renderer = "freeFrame" /\ renderer' = "freeKey" /\ Len(stream["render"]) > 0
      /\ UNCHANGED <<player, keyboard, detector, display, frames, keys, inPose, inKey,
                     moved, pixels>>
  BY <1>1 DEF IInv, HeldOK, RoomOK, FreeFrame, Numbers, Room
<1>3. Others("render") /\ Popped("render")
  BY <1>1, <1>2, PopFacts DEF Streams, Numbers, Room, FreeFrame
<1>4. /\ stream'["detect"] = stream["detect"]
      /\ stream'["pose"] = stream["pose"]
      /\ stream'["key"] = stream["key"]
      /\ stream'["show"] = stream["show"]
  BY <1>3 DEF Others, Streams
<1>5. Len(stream'["render"]) = Len(stream["render"]) - 1
  BY <1>3 DEF Popped
<1>6. /\ Sent' = Sent /\ Offered' = Offered /\ Freed' = Freed + 1
      /\ Asked' = Asked /\ Unclaimed' = Unclaimed /\ Detected' = Detected
  BY <1>1, <1>2, <1>4, <1>5
     DEF Sent, Offered, Freed, Asked, Unclaimed, Detected, Numbers, Room
<1>7. TypeOK'
  BY <1>1, <1>2, <1>3, BoundsAssumption DEF IInv, TypeOK, Popped, Numbers
<1>8. RoomOK'
  BY <1>1, <1>2, <1>4, <1>5 DEF IInv, RoomOK, Numbers, Room
<1>9. HeldOK'
  BY <1>1, <1>2, <1>4, <1>5 DEF IInv, HeldOK, Numbers, Room
<1>10. OrderOK'
  <2>1. RenderOrder'
    <3>. DEFINE n == Len(stream["render"])
    <3>1. n \in Nat /\ RenderOrder
      BY <1>1 DEF IInv, OrderOK, Numbers, Room
    <3>2. \A i \in 1..(n - 1) : stream'["render"][i] = stream["render"][i + 1]
      BY <1>3 DEF Popped
    <3>. HIDE DEF n
    <3>3. ASSUME NEW i \in 1..(n - 1) PROVE stream'["render"][i] = Freed' + i - 1
      <4>1. i + 1 \in 1..n
        BY <3>1
      <4>2. stream["render"][i + 1] = Freed + (i + 1) - 1
        BY <3>1, <4>1 DEF RenderOrder, n
      <4>. QED  BY <1>1, <1>6, <3>2, <4>2 DEF Numbers
    <3>4. Freed' >= 0
      BY <1>1, <1>6, <3>1 DEF RenderOrder, Numbers
    <3>. QED  BY <1>2, <1>5, <3>1, <3>3, <3>4 DEF RenderOrder, n
  <2>2. DetectOrder'
    BY <1>1, <1>2, <1>4, <1>6
       DEF IInv, OrderOK, DetectOrder, Elements, Streams, Numbers, Room
  <2>3. ShowOrder'
    BY <1>1, <1>2, <1>4, <1>6
       DEF IInv, OrderOK, ShowOrder, Elements, Streams, Numbers, Room
  <2>4. PoseOrder'
    BY <1>1, <1>2, <1>4, <1>6
       DEF IInv, OrderOK, PoseOrder, Elements, Streams, Numbers, Room
  <2>5. KeyOrder'
    BY <1>1, <1>2, <1>4, <1>6
       DEF IInv, OrderOK, KeyOrder, Elements, Streams, Numbers, Room
  <2>. QED  BY <2>1, <2>2, <2>3, <2>4, <2>5 DEF OrderOK
<1>11. PaceOK'
  BY <1>1, <1>2, <1>6 DEF IInv, PaceOK, Numbers, Room
<1>12. PoseNotAhead'
  BY <1>1, <1>2, <1>4, <1>6
     DEF IInv, HeldOK, PoseNotAhead, Front, Numbers, Room
<1>13. KeyMovesOnce'
  BY <1>1, <1>2, <1>4, <1>5 DEF IInv, KeyMovesOnce, Numbers, Room
<1>. QED  BY <1>7, <1>8, <1>9, <1>10, <1>11, <1>12, <1>13 DEF IInv

LEMMA SendRenderedIInv == IInv /\ SendRendered => IInv'
<1>. SUFFICES ASSUME IInv, SendRendered PROVE IInv'
  OBVIOUS
<1>1. Numbers /\ \A s \in Streams : Elements(s) /\ Fronts(s)
  BY AreNumbers, AreElements
<1>2. /\ renderer = "send" /\ renderer' = "freeFrame" /\ Len(stream["render"]) > 0
      /\ Len(stream["show"]) < QueueSize["show"]
      /\ UNCHANGED <<player, keyboard, detector, display, frames, keys, inPose, inKey,
                     moved, pixels>>
  BY <1>1 DEF IInv, HeldOK, RoomOK, SendRendered, Numbers, Room
<1>3. Others("show") /\ Pushed("show", Front("render"))
  BY <1>1, <1>2, PushFacts DEF Streams, Numbers, Room, SendRendered, Fronts
<1>4. /\ stream'["detect"] = stream["detect"]
      /\ stream'["render"] = stream["render"]
      /\ stream'["pose"] = stream["pose"]
      /\ stream'["key"] = stream["key"]
  BY <1>3 DEF Others, Streams
<1>5. Len(stream'["show"]) = Len(stream["show"]) + 1
  BY <1>3 DEF Pushed
<1>6. /\ Sent' = Sent /\ Offered' = Offered /\ Freed' = Freed
      /\ Asked' = Asked /\ Unclaimed' = Unclaimed /\ Detected' = Detected
  BY <1>1, <1>2, <1>4, <1>5
     DEF Sent, Offered, Freed, Asked, Unclaimed, Detected, Numbers, Room
<1>7. TypeOK'
  BY <1>1, <1>2, <1>3, BoundsAssumption DEF IInv, TypeOK, Pushed, Numbers
<1>8. RoomOK'
  BY <1>1, <1>2, <1>4, <1>5 DEF IInv, RoomOK, Numbers, Room
<1>9. HeldOK'
  BY <1>1, <1>2, <1>4, <1>5 DEF IInv, HeldOK, Numbers, Room
<1>10. OrderOK'
  <2>1. RenderOrder'
    BY <1>1, <1>2, <1>4, <1>6
       DEF IInv, OrderOK, RenderOrder, Elements, Streams, Numbers, Room
  <2>2. DetectOrder'
    BY <1>1, <1>2, <1>4, <1>6
       DEF IInv, OrderOK, DetectOrder, Elements, Streams, Numbers, Room
  <2>3. ShowOrder'
    <3>. DEFINE n == Len(stream["show"])
    <3>1. /\ n \in Nat /\ Freed \in Int /\ ShowOrder
          /\ \A i \in 1..n : stream["show"][i] \in Nat
      BY <1>1 DEF IInv, OrderOK, Numbers, Room, Elements, Streams
    <3>2. /\ \A i \in 1..n : stream'["show"][i] = stream["show"][i]
          /\ stream'["show"][n + 1] = Front("render")
      BY <1>3 DEF Pushed
    <3>3. Front("render") = Freed
      <4>1. 1 \in 1..Len(stream["render"]) /\ Front("render") = stream["render"][1]
        BY <1>1, <1>2 DEF Numbers, Room, Fronts, Streams
      <4>. QED  BY <3>1, <4>1 DEF IInv, OrderOK, RenderOrder
    <3>. HIDE DEF n
    <3>4. ASSUME NEW i \in 1..n PROVE stream["show"][i] < Freed
      <4>1. stream["show"][i] < Freed + 0
        BY <1>2, <3>1 DEF ShowOrder, n
      <4>. QED  BY <3>1, <4>1
    <3>5. ASSUME NEW i \in 1..(n + 1) PROVE stream'["show"][i] < Freed + 1
      <4>1. CASE i = n + 1
        BY <3>1, <3>2, <3>3, <4>1
      <4>2. CASE i \in 1..n
        BY <3>1, <3>2, <3>4, <4>2
      <4>. QED  BY <3>1, <4>1, <4>2
    <3>6. ASSUME NEW i \in 1..(n + 1), NEW j \in 1..(n + 1), i < j
          PROVE  stream'["show"][i] < stream'["show"][j]
      <4>1. i \in 1..n
        BY <3>1, <3>6
      <4>2. CASE j = n + 1
        BY <3>1, <3>2, <3>3, <3>4, <4>1, <4>2
      <4>3. CASE j \in 1..n
        BY <3>1, <3>2, <3>6, <4>1, <4>3 DEF ShowOrder, n
      <4>. QED  BY <3>1, <4>2, <4>3
    <3>. QED  BY <1>2, <1>5, <1>6, <3>5, <3>6 DEF ShowOrder, n
  <2>4. PoseOrder'
    BY <1>1, <1>2, <1>4, <1>6
       DEF IInv, OrderOK, PoseOrder, Elements, Streams, Numbers, Room
  <2>5. KeyOrder'
    BY <1>1, <1>2, <1>4, <1>6
       DEF IInv, OrderOK, KeyOrder, Elements, Streams, Numbers, Room
  <2>. QED  BY <2>1, <2>2, <2>3, <2>4, <2>5 DEF OrderOK
<1>11. PaceOK'
  BY <1>1, <1>2, <1>6 DEF IInv, PaceOK, Numbers, Room
<1>12. PoseNotAhead'
  BY <1>1, <1>2, <1>4, <1>6
     DEF IInv, HeldOK, PoseNotAhead, Front, Numbers, Room
<1>13. KeyMovesOnce'
  BY <1>1, <1>2, <1>4, <1>5 DEF IInv, KeyMovesOnce, Numbers, Room
<1>. QED  BY <1>7, <1>8, <1>9, <1>10, <1>11, <1>12, <1>13 DEF IInv

-----------------------------------------------------------------------------
(* The inductive invariant holds at first and is kept by every step.       *)
LEMMA InitIInv == Init => IInv
<1>. SUFFICES ASSUME Init PROVE IInv
  OBVIOUS
<1>1. \A s \in Streams : stream[s] = << >> /\ Len(stream[s]) = 0
  BY DEF Init
<1>2. TypeOK
  BY <1>1, RecipeAssumption, BoundsAssumption DEF Init, TypeOK
<1>3. RoomOK /\ HeldOK /\ PoseNotAhead
  BY DEF Init, RoomOK, HeldOK, PoseNotAhead, None
<1>4. Freed = 0 /\ Asked = 0 /\ Unclaimed = 0 /\ Detected = 0
  <2>1. Sent = 0 /\ Offered = 0 /\ Len(stream["render"]) = 0 /\ Len(stream["pose"]) = 0
        /\ Len(stream["detect"]) = 0
    BY <1>1 DEF Init, Sent, Offered, Streams
  <2>2. Freed = 0 - 0 /\ Asked = Freed + 0 /\ Unclaimed = 0 - 0 /\ Detected = 0 - 0 + 0
    BY <2>1 DEF Init, Freed, Asked, Unclaimed, Detected
  <2>. QED  BY <2>2
<1>5. OrderOK
  BY <1>1, <1>4 DEF Init, OrderOK, RenderOrder, DetectOrder, ShowOrder, PoseOrder, KeyOrder,
                    Streams
<1>6. PaceOK
  BY <1>4, RecipeAssumption DEF PaceOK, Streams
<1>7. KeyMovesOnce
  BY <1>1 DEF Init, KeyMovesOnce, Streams
<1>. QED  BY <1>2, <1>3, <1>5, <1>6, <1>7 DEF IInv

LEMMA NextIInv == IInv /\ [Next]_vars => IInv'
<1>. SUFFICES ASSUME IInv, [Next]_vars PROVE IInv'
  OBVIOUS
<1>1. CASE Player
  BY <1>1, NewFrameIInv, CheckIInv, CopyIInv, SendFrameIInv DEF Player
<1>2. CASE Keyboard
  BY <1>2, KeyPlaceholderIInv, KeyEventIInv DEF Keyboard
<1>3. CASE Detector
  <2>1. CASE Detect
    <3>1. \/ Detect /\ Push("pose", Front("detect"))
          \/ Detect /\ UNCHANGED stream
      BY <2>1 DEF Detect
    <3>. QED  BY <3>1, DetectFoundIInv, DetectNothingIInv
  <2>. QED  BY <1>3, <2>1, DetectGetIInv, DetectPlaceholderIInv, DetectFreeIInv DEF Detector
<1>4. CASE Renderer
  BY <1>4, GetFrameIInv, GetPoseIInv, GetKeyIInv, RenderPlaceholderIInv, SendRenderedIInv,
     FreeFrameIInv, FreeNoKeyIInv, FreeKeyIInv, FreeNoPoseIInv, FreePoseIInv DEF Renderer
<1>5. CASE Display
  BY <1>5, ShowGetIInv, ShowFreeIInv DEF Display
<1>6. CASE UNCHANGED vars
  <2>. USE <1>6 DEF vars
  <2>1. TypeOK' /\ RoomOK' /\ HeldOK' /\ KeyMovesOnce'
    BY DEF IInv, TypeOK, RoomOK, HeldOK, KeyMovesOnce
  <2>2. /\ Sent' = Sent /\ Offered' = Offered /\ Freed' = Freed
        /\ Asked' = Asked /\ Unclaimed' = Unclaimed /\ Detected' = Detected
    BY DEF Sent, Offered, Freed, Asked, Unclaimed, Detected
  <2>3. OrderOK'
    BY <2>2 DEF IInv, OrderOK, RenderOrder, DetectOrder, ShowOrder, PoseOrder, KeyOrder
  <2>4. PaceOK' /\ PoseNotAhead'
    BY <2>2 DEF IInv, PaceOK, PoseNotAhead, Front
  <2>. QED  BY <2>1, <2>3, <2>4 DEF IInv
<1>. QED  BY <1>1, <1>2, <1>3, <1>4, <1>5, <1>6 DEF Next, Finished

THEOREM Invariance == Spec => []IInv
<1>. QED  BY InitIInv, NextIInv, PTL DEF Spec

(* Every variable stays in its range, and no stream gets fuller than its   *)
(* queue, though each kernel asks for room some steps before it sends.     *)
THEOREM TypeCorrect == Spec => []TypeOK
<1>1. IInv => TypeOK
  BY DEF IInv
<1>. QED  BY <1>1, Invariance, PTL

(* No pose comes from further ahead than the stream to the renderer holds: *)
(* the copy goes to the detector before the frame goes to the renderer.    *)
THEOREM PoseNeverAhead == Spec => []PoseNotAhead
<1>1. IInv => PoseNotAhead
  BY DEF IInv
<1>. QED  BY <1>1, Invariance, PTL

(* Every key moves the marker once, whether or not its frame is rendered.  *)
THEOREM KeysMoveOnce == Spec => []KeyMovesOnce
<1>1. IInv => KeyMovesOnce
  BY DEF IInv
<1>. QED  BY <1>1, Invariance, PTL
-----------------------------------------------------------------------------
(* What a kernel waits for, one case for each pair of them.                *)
LEMMA Waiting ==
  ASSUME NEW k, NEW l, <<k, l>> \in WaitsFor
  PROVE  \/ k = "player"   /\ l = "renderer" /\ Full("render")
         \/ k = "player"   /\ l = "detector" /\ player = "copy" /\ Full("detect")
         \/ k = "detector" /\ l = "player"   /\ Empty("detect")
         \/ k = "detector" /\ l = "renderer" /\ detector = "place" /\ Full("pose")
         \/ k = "renderer" /\ l = "player"   /\ renderer = "get" /\ Empty("render")
         \/ k = "renderer" /\ l = "display"  /\ Full("show")
         \/ k = "display"  /\ l = "renderer" /\ Empty("show")
  BY DEF WaitsFor

(* The circle player, detector, renderer: by the time the player waits for *)
(* the detector the renderer has asked for a pose with every earlier frame.*)
LEMMA LongCircle ==
  ASSUME IInv
  PROVE  ~ /\ player = "copy" /\ Full("detect")
           /\ detector = "place" /\ Full("pose")
           /\ renderer = "get" /\ Empty("render")
<1>. SUFFICES ASSUME player = "copy", Full("detect"), detector = "place", Full("pose"),
                     renderer = "get", Empty("render")
              PROVE  FALSE
  OBVIOUS
<1>1. Numbers /\ Fronts("render")
  BY AreNumbers, AreElements DEF Streams
<1>2. DupSemantics = "BLOCKING"
  BY <1>1, RecipeAssumption DEF IInv, RoomOK, Full, Numbers, Room
<1>3. /\ Unclaimed = QueueSize["pose"] - 0 /\ inPose = None
      /\ Detected = frames - 1 - QueueSize["detect"] + 0
  BY DEF IInv, HeldOK, Unclaimed, Detected, Offered, Full
<1>4. Asked = frames - 1
  <2>1. Len(stream["render"]) = 0 /\ Sent = frames - 1
    BY <1>1 DEF Fronts, Sent
  <2>2. Freed = frames - 1
    BY <1>1, <2>1 DEF Freed, Numbers
  <2>3. Asked = Freed + 0
    BY DEF Asked
  <2>. QED  BY <1>1, <2>2, <2>3 DEF Numbers
<1>. QED  BY <1>1, <1>2, <1>3, <1>4 DEF IInv, PaceOK, Numbers, Room

LEMMA NoCircle == IInv => NoCircularWait
<1>. SUFFICES ASSUME IInv,
                     NEW K \in (SUBSET {"player", "detector", "renderer", "display"})
                              \ {{}},
                     \A k \in K : \E l \in K : <<k, l>> \in WaitsFor
              PROVE  FALSE
  BY DEF NoCircularWait
<1>1. ASSUME NEW s \in Streams PROVE ~(Full(s) /\ Empty(s))
  <2>1. Numbers /\ Fronts(s)
    BY AreNumbers, AreElements
  <2>. QED  BY <2>1 DEF Numbers, Room, Fronts, Full, Streams
<1>2. ~(Full("render") /\ Empty("render")) /\ ~(Full("show") /\ Empty("show"))
      /\ ~(Full("detect") /\ Empty("detect"))
  BY <1>1 DEF Streams
<1>3. ASSUME "renderer" \in K
      PROVE  "player" \in K /\ renderer = "get" /\ Empty("render")
  <2>1. PICK l \in K : <<"renderer", l>> \in WaitsFor
    BY <1>3
  <2>2. CASE l = "display" /\ Full("show")
    <3>1. PICK m \in K : <<"display", m>> \in WaitsFor
      BY <2>2
    <3>2. Empty("show")
      BY <3>1, Waiting
    <3>. QED  BY <1>2, <2>2, <3>2
  <2>. QED  BY <2>1, <2>2, Waiting
<1>4. ASSUME "player" \in K
      PROVE  \/ "renderer" \in K /\ Full("render")
             \/ "detector" \in K /\ player = "copy" /\ Full("detect")
  <2>1. PICK l \in K : <<"player", l>> \in WaitsFor
    BY <1>4
  <2>. QED  BY <2>1, Waiting
<1>5. ASSUME "detector" \in K
      PROVE  \/ "player" \in K /\ Empty("detect")
             \/ "renderer" \in K /\ detector = "place" /\ Full("pose")
  <2>1. PICK l \in K : <<"detector", l>> \in WaitsFor
    BY <1>5
  <2>. QED  BY <2>1, Waiting
<1>6. ASSUME "display" \in K PROVE "renderer" \in K
  <2>1. PICK l \in K : <<"display", l>> \in WaitsFor
    BY <1>6
  <2>. QED  BY <2>1, Waiting
<1>7. "renderer" \in K
  <2>1. \/ "player" \in K \/ "detector" \in K \/ "renderer" \in K \/ "display" \in K
    OBVIOUS
  <2>. QED  BY <1>2, <1>4, <1>5, <1>6, <2>1
<1>. QED  BY <1>2, <1>3, <1>4, <1>5, <1>7, LongCircle

(* The kernels never wait for each other in a circle.                      *)
THEOREM NeverACircle == Spec => []NoCircularWait
<1>. QED  BY NoCircle, Invariance, PTL
-----------------------------------------------------------------------------
(* The pixel buffers of the frames A and of the duplicates of the frames B. *)
Buffers(A, B) == { Image(f) : f \in A } \cup { Clone(f) : f \in B }

(* A frame more, or one less, of either kind.                              *)
LEMMA MoreImages ==
  ASSUME NEW A, NEW B, NEW f
  PROVE  Buffers(A \cup {f}, B) = Buffers(A, B) \cup {Image(f)}
  BY DEF Buffers

LEMMA MoreClones ==
  ASSUME NEW A, NEW B, NEW f
  PROVE  Buffers(A, B \cup {f}) = Buffers(A, B) \cup {Clone(f)}
  BY DEF Buffers

LEMMA FewerImages ==
  ASSUME NEW A, NEW B, NEW f
  PROVE  Buffers(A \ {f}, B) = Buffers(A, B) \ {Image(f)}
<1>1. \A g : (Image(g) = Image(f) <=> g = f) /\ Clone(g) # Image(f)
  BY DEF Image, Clone
<1>. QED  BY <1>1 DEF Buffers

LEMMA FewerClones ==
  ASSUME NEW A, NEW B, NEW f
  PROVE  Buffers(A, B \ {f}) = Buffers(A, B) \ {Clone(f)}
<1>1. \A g : (Clone(g) = Clone(f) <=> g = f) /\ Image(g) # Clone(f)
  BY DEF Image, Clone
<1>. QED  BY <1>1 DEF Buffers

(* What is in a stream after a message has come or the front one has gone. *)
LEMMA InPushed ==
  ASSUME NEW s \in Streams, NEW m, Len(stream[s]) \in Nat, Pushed(s, m)
  PROVE  In(s)' = In(s) \cup {m}
<1>. DEFINE n == Len(stream[s])
<1>1. In(s)' = { stream'[s][i] : i \in 1..(n + 1) }
  BY DEF In, Pushed
<1>2. \A i \in 1..(n + 1) : i \in 1..n \/ i = n + 1
  OBVIOUS
<1>3. 1..n \subseteq 1..(n + 1) /\ n + 1 \in 1..(n + 1)
  OBVIOUS
<1>4. \A i \in 1..n : stream'[s][i] = stream[s][i]
  BY DEF Pushed
<1>5. stream'[s][n + 1] = m
  BY DEF Pushed
<1>6. In(s) = { stream[s][i] : i \in 1..n }
  BY DEF In
<1>. HIDE DEF n
<1>. QED  BY <1>1, <1>2, <1>3, <1>4, <1>5, <1>6

LEMMA InPopped ==
  ASSUME NEW s \in Streams, Len(stream[s]) \in Nat, Len(stream[s]) > 0, Popped(s),
         \A i, j \in 1..Len(stream[s]) : i < j => stream[s][i] # stream[s][j]
  PROVE  In(s)' = In(s) \ {stream[s][1]}
<1>. DEFINE n == Len(stream[s])
<1>1. In(s)' = { stream'[s][i] : i \in 1..(n - 1) }
  BY DEF In, Popped
<1>2. \A i \in 1..(n - 1) : stream'[s][i] = stream[s][i + 1]
  BY DEF Popped
<1>3. In(s) = { stream[s][i] : i \in 1..n }
  BY DEF In
<1>4. \A i \in 1..n : i # 1 => i - 1 \in 1..(n - 1) /\ (i - 1) + 1 = i /\ 1 < i
  OBVIOUS
<1>5. \A i \in 1..(n - 1) : i + 1 \in 1..n /\ 1 < i + 1 /\ 1 \in 1..n
  OBVIOUS
<1>6. \A i \in 1..n : 1 < i => stream[s][1] # stream[s][i]
  BY <1>5
<1>. HIDE DEF n
<1>7. ASSUME NEW x \in In(s)' PROVE x \in In(s) \ {stream[s][1]}
  <2>1. PICK i \in 1..(n - 1) : x = stream[s][i + 1]
    BY <1>1, <1>2
  <2>. QED  BY <1>3, <1>5, <1>6, <2>1
<1>8. ASSUME NEW x \in In(s) \ {stream[s][1]} PROVE x \in In(s)'
  <2>1. PICK i \in 1..n : x = stream[s][i] /\ i # 1
    BY <1>3
  <2>2. x = stream'[s][i - 1]
    BY <1>2, <1>4, <2>1
  <2>. QED  BY <1>1, <1>4, <2>1, <2>2
<1>. QED  BY <1>7, <1>8

(* The property in these terms, and what follows when the readable frames *)
(* in use stay the same.                                                   *)
Allocated == (ImagesInUse \ Missing) \cup Unread

LEMMA OwnedIsBuffers == PixelsOwned <=> pixels = Buffers(Allocated, In("detect"))
  BY DEF PixelsOwned, Buffers, Allocated

LEMMA OwnedNext ==
  PixelsOwned' <=> pixels' = Buffers(Allocated', In("detect")')
  BY DEF PixelsOwned, Buffers, Allocated, Image, Clone

LEMMA SameBuffers ==
  ASSUME PixelsOwned, pixels' = pixels, frames' = frames, In("detect")' = In("detect"),
         \A f : f \notin Missing => (f \in ImagesInUse' <=> f \in ImagesInUse)
  PROVE  PixelsOwned'
<1>1. Allocated' = Allocated
  BY DEF Allocated, Unread
<1>. QED  BY <1>1, OwnedIsBuffers, OwnedNext

(* Where the frames in the streams stand, by the inductive invariant.      *)
LEMMA Distinct ==
  ASSUME IInv
  PROVE  /\ \A i, j \in 1..Len(stream["detect"]) :
              i < j => stream["detect"][i] # stream["detect"][j]
         /\ \A i, j \in 1..Len(stream["show"]) :
              i < j => stream["show"][i] # stream["show"][j]
         /\ \A i, j \in 1..Len(stream["render"]) :
              i < j => stream["render"][i] # stream["render"][j]
<1>1. Numbers /\ \A s \in Streams : Elements(s)
  BY AreNumbers, AreElements
<1>2. \A i, j \in 1..Len(stream["detect"]) :
        i < j => stream["detect"][i] # stream["detect"][j]
  BY <1>1 DEF Elements, Streams, IInv, OrderOK, DetectOrder
<1>3. \A i, j \in 1..Len(stream["show"]) :
        i < j => stream["show"][i] # stream["show"][j]
  <2>1. \A i, j \in 1..Len(stream["show"]) :
          i < j => stream["show"][i] < stream["show"][j]
    BY DEF IInv, OrderOK, ShowOrder
  <2>. QED  BY <1>1, <2>1 DEF Elements, Streams
<1>4. ASSUME NEW i \in 1..Len(stream["render"]), NEW j \in 1..Len(stream["render"]), i < j
      PROVE  stream["render"][i] # stream["render"][j]
  <2>1. stream["render"][i] = Freed + i - 1 /\ stream["render"][j] = Freed + j - 1
    BY DEF IInv, OrderOK, RenderOrder
  <2>2. Freed \in Int /\ i \in Int /\ j \in Int
    BY <1>1 DEF Numbers, Room
  <2>. QED  BY <1>4, <2>1, <2>2
<1>. QED  BY <1>2, <1>3, <1>4

(* The renderer goes on with a frame, and sends it on, only if its image   *)
(* could be read.                                                          *)
Readable == /\ renderer \in {"place", "send"} => Front("render") \notin Missing
            /\ \A f \in In("show") : f \notin Missing

LEMMA StaysReadable == IInv /\ Readable /\ [Next]_vars => Readable'
<1>. SUFFICES ASSUME IInv, Readable, [Next]_vars PROVE Readable'
  OBVIOUS
<1>1. Numbers /\ \A s \in Streams : Elements(s) /\ Fronts(s)
  BY AreNumbers, AreElements
<1>2. CASE SendFrame
  <2>1. Others("render") /\ Pushed("render", frames - 1)
    <3>1. frames > 0 /\ Len(stream["render"]) < QueueSize["render"]
      BY <1>2 DEF IInv, OrderOK, RenderOrder, RoomOK, SendFrame
    <3>2. frames - 1 \in Nat /\ Len(stream["render"]) \in Nat
      BY <1>1, <3>1 DEF Numbers, Room
    <3>. QED  BY <1>2, <3>1, <3>2, PushFacts DEF SendFrame, Streams
  <2>2. In("show")' = In("show") /\ renderer' = renderer
    BY <1>2, <2>1 DEF Others, Streams, In, SendFrame
  <2>3. ASSUME renderer \in {"place", "send"} PROVE Front("render")' = Front("render")
    <3>1. Len(stream["render"]) > 0
      BY <2>3 DEF IInv, HeldOK
    <3>. QED  BY <1>1, <2>1, <3>1 DEF Pushed, Front, Numbers, Room
  <2>. QED  BY <2>2, <2>3 DEF Readable
<1>3. CASE SendRendered
  <2>1. Len(stream["show"]) \in Nat /\ Pushed("show", Front("render"))
    BY <1>1, <1>3, PushFacts DEF IInv, HeldOK, RoomOK, SendRendered, Streams, Numbers, Room,
                                 Fronts
  <2>2. In("show")' = In("show") \cup {Front("render")}
    BY <2>1, InPushed DEF Streams
  <2>. QED  BY <1>3, <2>2 DEF SendRendered, Readable
<1>4. CASE FreeFrame
  <2>1. Others("render")
    BY <1>1, <1>4, PopFacts DEF IInv, HeldOK, FreeFrame, Streams, Numbers, Room
  <2>. QED  BY <1>4, <2>1 DEF Others, Streams, In, FreeFrame, Readable
<1>5. CASE ShowFree
  <2>1. /\ Len(stream["show"]) \in Nat /\ Len(stream["show"]) > 0
        /\ Others("show") /\ Popped("show")
    BY <1>1, <1>5, PopFacts DEF IInv, HeldOK, ShowFree, Streams, Numbers, Room
  <2>2. In("show")' = In("show") \ {stream["show"][1]}
    BY <2>1, Distinct, InPopped DEF Streams
  <2>. QED  BY <1>5, <2>1, <2>2 DEF Others, Streams, Front, ShowFree, Readable
<1>6. CASE GetKey \/ RenderPlaceholder
  BY <1>6 DEF GetKey, RenderPlaceholder, Readable, In, Front
<1>7. CASE \/ (Player /\ ~SendFrame) \/ Keyboard \/ Detector
           \/ GetFrame \/ GetPose \/ FreeKey \/ FreePose \/ ShowGet \/ UNCHANGED vars
  <2>1. /\ stream'["render"] = stream["render"] /\ stream'["show"] = stream["show"]
        /\ renderer' \in {"place", "send"} => renderer' = renderer
    <3>1. CASE UNCHANGED stream
      BY <1>7, <3>1
         DEF Player, NewFrame, Check, Copy, Keyboard, KeyPlaceholder, KeyEvent, Detector,
             DetectGet, DetectPlaceholder, Detect, DetectFree, GetFrame, GetPose, FreeKey,
             FreePose, ShowGet, vars
    <3>2. CASE \/ Copy \/ KeyEvent \/ DetectFree
               \/ Detect /\ Push("pose", Front("detect"))
      BY <3>2 DEF Copy, KeyEvent, Detect, DetectFree, Push, Pop, IInv, TypeOK, Streams
    <3>3. CASE FreeKey \/ FreePose
      BY <3>3 DEF FreeKey, FreePose, Pop, IInv, TypeOK, Streams
    <3>4. CASE Player /\ ~SendFrame
      BY <3>1, <3>2, <3>4 DEF Player, NewFrame, Check
    <3>5. CASE Keyboard
      BY <3>1, <3>2, <3>5 DEF Keyboard, KeyPlaceholder
    <3>6. CASE Detector
      BY <3>1, <3>2, <3>6 DEF Detector, DetectGet, DetectPlaceholder, Detect
    <3>7. CASE GetFrame \/ GetPose \/ ShowGet \/ UNCHANGED vars
      BY <3>1, <3>7 DEF GetFrame, GetPose, ShowGet, vars
    <3>. QED  BY <1>7, <3>3, <3>4, <3>5, <3>6, <3>7
  <2>. QED  BY <2>1 DEF Readable, In, Front
<1>. QED  BY <1>2, <1>3, <1>4, <1>5, <1>6, <1>7 DEF Next, Player, Renderer, Display, Finished

(* One lemma for each step that moves a frame or a pixel buffer.           *)
LEMMA NewFramePixels == IInv /\ PixelsOwned /\ NewFrame => PixelsOwned'
<1>. SUFFICES ASSUME IInv, PixelsOwned, NewFrame PROVE PixelsOwned'
  OBVIOUS
<1>1. frames' - 1 = frames
  BY AreNumbers DEF NewFrame, Numbers
<1>2. In("detect")' = In("detect") /\ ImagesInUse' = ImagesInUse \cup {frames}
  BY <1>1 DEF NewFrame, In, ImagesInUse, Front
<1>3. pixels' = Buffers(Allocated \cup {frames}, In("detect"))
  <2>1. pixels' = pixels \cup {Image(frames)}
    BY DEF NewFrame
  <2>2. pixels = Buffers(Allocated, In("detect"))
    BY OwnedIsBuffers
  <2>3. PICK f : f = frames
    OBVIOUS
  <2>4. Buffers(Allocated \cup {f}, In("detect")) = Buffers(Allocated, In("detect")) \cup {Image(f)}
    BY MoreImages
  <2>. QED  BY <2>1, <2>2, <2>3, <2>4
<1>4. \A f \in Missing : f < frames' <=> f < frames \/ f = frames
  BY <1>1, AreNumbers, BoundsAssumption DEF NewFrame, Numbers
<1>5. Allocated' = Allocated \cup {frames}
  <2>1. \A f : f \in Unread' <=> f \in Unread \/ (f \in Missing /\ f = frames)
    BY <1>4 DEF Unread
  <2>. QED  BY <1>2, <2>1 DEF Allocated
<1>. QED  BY <1>2, <1>3, <1>5, OwnedNext

LEMMA CopyPixels == IInv /\ PixelsOwned /\ Copy => PixelsOwned'
<1>. SUFFICES ASSUME IInv, PixelsOwned, Copy PROVE PixelsOwned'
  OBVIOUS
<1>1. /\ frames - 1 \in Nat /\ Len(stream["detect"]) \in Nat
      /\ Len(stream["detect"]) < QueueSize["detect"]
  <2>1. Numbers /\ frames > 0 /\ Len(stream["detect"]) # QueueSize["detect"]
    BY AreNumbers DEF IInv, OrderOK, RenderOrder, Copy, Full
  <2>. QED  BY <2>1 DEF Numbers, Room
<1>2. Others("detect") /\ Pushed("detect", frames - 1)
  BY <1>1, PushFacts DEF Copy, Streams
<1>3. In("detect")' = In("detect") \cup {frames - 1}
  BY <1>1, <1>2, InPushed DEF Streams
<1>4. ImagesInUse' = ImagesInUse
  BY <1>2 DEF Others, Streams, Copy, In, ImagesInUse, Front
<1>5. pixels' = Buffers(Allocated, In("detect") \cup {frames - 1})
  <2>1. pixels' = pixels \cup {Clone(frames - 1)}
    BY DEF Copy
  <2>2. pixels = Buffers(Allocated, In("detect"))
    BY OwnedIsBuffers
  <2>3. PICK f : f = frames - 1
    OBVIOUS
  <2>4. Buffers(Allocated, In("detect") \cup {f}) = Buffers(Allocated, In("detect")) \cup {Clone(f)}
    BY MoreClones
  <2>. QED  BY <2>1, <2>2, <2>3, <2>4
<1>6. Allocated' = Allocated
  BY <1>4 DEF Copy, Allocated, Unread
<1>. QED  BY <1>3, <1>5, <1>6, OwnedNext

LEMMA SendFramePixels == IInv /\ PixelsOwned /\ SendFrame => PixelsOwned'
<1>. SUFFICES ASSUME IInv, PixelsOwned, SendFrame PROVE PixelsOwned'
  OBVIOUS
<1>. DEFINE n == Len(stream["render"])
<1>1. /\ frames - 1 \in Nat /\ n \in Nat /\ n < QueueSize["render"]
      /\ frames - 1 = Freed + n /\ Freed \in Int
  <2>1. /\ Numbers /\ RenderOrder /\ frames > 0 /\ Sent = frames - 1
        /\ n < QueueSize["render"]
    BY AreNumbers DEF IInv, OrderOK, RenderOrder, RoomOK, SendFrame, Sent
  <2>. QED  BY <2>1 DEF Freed, Numbers, Room
<1>2. Others("render") /\ Pushed("render", frames - 1)
  BY <1>1, PushFacts DEF SendFrame, Streams
<1>3. In("render")' = In("render") \cup {frames - 1}
  BY <1>1, <1>2, InPushed DEF Streams
<1>4. In("show")' = In("show") /\ In("detect")' = In("detect")
  BY <1>2 DEF Others, Streams, In
<1>5. ASSUME renderer = "freeFrame"
      PROVE  Front("render")' = Front("render") /\ frames - 1 # Front("render")
  <2>1. n > 0
    BY <1>5 DEF IInv, HeldOK
  <2>2. Front("render") = Freed
    <3>1. Fronts("render") /\ 1 \in 1..n
      BY <1>1, <2>1, AreElements DEF Streams
    <3>. QED  BY <1>1, <2>1, <3>1 DEF Fronts, IInv, OrderOK, RenderOrder
  <2>3. Front("render")' = Front("render")
    BY <1>2, <2>1 DEF Pushed, Front
  <2>. HIDE DEF n
  <2>. QED  BY <1>1, <2>1, <2>2, <2>3
<1>6. ImagesInUse' = ImagesInUse
  BY <1>3, <1>4, <1>5 DEF SendFrame, ImagesInUse
<1>. QED  BY <1>4, <1>6, SameBuffers DEF SendFrame

LEMMA DetectPixels == IInv /\ PixelsOwned /\ Detect => PixelsOwned'
<1>. SUFFICES ASSUME IInv, PixelsOwned, Detect PROVE PixelsOwned'
  OBVIOUS
<1>1. /\ stream'["render"] = stream["render"] /\ stream'["show"] = stream["show"]
      /\ stream'["detect"] = stream["detect"]
  <2>1. CASE UNCHANGED stream
    BY <2>1
  <2>2. CASE Push("pose", Front("detect"))
    BY <2>2 DEF Push, IInv, TypeOK, Streams
  <2>. QED  BY <2>1, <2>2 DEF Detect
<1>. QED  BY <1>1, SameBuffers DEF Detect, In, ImagesInUse, Front

LEMMA DetectFreePixels == IInv /\ PixelsOwned /\ DetectFree => PixelsOwned'
<1>. SUFFICES ASSUME IInv, PixelsOwned, DetectFree PROVE PixelsOwned'
  OBVIOUS
<1>1. /\ Len(stream["detect"]) \in Nat /\ Len(stream["detect"]) > 0
      /\ Front("detect") = stream["detect"][1]
  BY AreNumbers, AreElements DEF IInv, HeldOK, DetectFree, Numbers, Room, Fronts, Streams
<1>2. Others("detect") /\ Popped("detect")
  BY <1>1, PopFacts DEF DetectFree, Streams
<1>3. In("detect")' = In("detect") \ {Front("detect")}
  BY <1>1, <1>2, Distinct, InPopped DEF Streams
<1>4. ImagesInUse' = ImagesInUse
  BY <1>2 DEF Others, Streams, DetectFree, In, ImagesInUse, Front
<1>5. pixels' = Buffers(Allocated, In("detect") \ {Front("detect")})
  <2>. DEFINE f == Front("detect")
  <2>1. pixels' = Buffers(Allocated, In("detect")) \ {Clone(f)}
    BY OwnedIsBuffers DEF DetectFree
  <2>. HIDE DEF f
  <2>2. pixels' = Buffers(Allocated, In("detect") \ {f})
    BY <2>1, FewerClones
  <2>. QED  BY <2>2 DEF f
<1>6. Allocated' = Allocated
  BY <1>4 DEF DetectFree, Allocated, Unread
<1>. QED  BY <1>3, <1>5, <1>6, OwnedNext

LEMMA SendRenderedPixels == IInv /\ PixelsOwned /\ SendRendered => PixelsOwned'
<1>. SUFFICES ASSUME IInv, PixelsOwned, SendRendered PROVE PixelsOwned'
  OBVIOUS
<1>1. /\ Len(stream["show"]) \in Nat /\ Len(stream["show"]) < QueueSize["show"]
      /\ Len(stream["render"]) > 0 /\ Front("render") = stream["render"][1]
      /\ Front("render") \in Nat /\ Len(stream["render"]) \in Nat
  BY AreNumbers, AreElements DEF IInv, HeldOK, RoomOK, SendRendered, Numbers, Room, Fronts,
                                 Streams
<1>2. Others("show") /\ Pushed("show", Front("render"))
  BY <1>1, PushFacts DEF SendRendered, Streams
<1>3. In("show")' = In("show") \cup {Front("render")}
  BY <1>1, <1>2, InPushed DEF Streams
<1>4. /\ In("render")' = In("render") /\ In("detect")' = In("detect")
      /\ Front("render")' = Front("render")
  BY <1>2 DEF Others, Streams, In, Front
<1>5. Front("render") \in In("render")
  <2>1. 1 \in 1..Len(stream["render"])
    BY <1>1
  <2>. QED  BY <1>1, <2>1 DEF In
<1>6. ImagesInUse' = ImagesInUse
  BY <1>3, <1>4, <1>5 DEF SendRendered, ImagesInUse
<1>. QED  BY <1>4, <1>6, SameBuffers DEF SendRendered

LEMMA FreeFramePixels == IInv /\ PixelsOwned /\ FreeFrame => PixelsOwned'
<1>. SUFFICES ASSUME IInv, PixelsOwned, FreeFrame PROVE PixelsOwned'
  OBVIOUS
<1>1. /\ Len(stream["render"]) \in Nat /\ Len(stream["render"]) > 0
      /\ Front("render") = stream["render"][1]
  BY AreNumbers, AreElements DEF IInv, HeldOK, FreeFrame, Numbers, Room, Fronts, Streams
<1>2. Others("render") /\ Popped("render")
  BY <1>1, PopFacts DEF FreeFrame, Streams
<1>3. In("render")' = In("render") \ {Front("render")}
  BY <1>1, <1>2, Distinct, InPopped DEF Streams
<1>4. In("show")' = In("show") /\ In("detect")' = In("detect")
  BY <1>2 DEF Others, Streams, In
<1>5. ImagesInUse' = ImagesInUse
  BY <1>3, <1>4 DEF FreeFrame, ImagesInUse
<1>. QED  BY <1>4, <1>5, SameBuffers DEF FreeFrame

LEMMA FreeKeyPixels == IInv /\ PixelsOwned /\ (FreeKey \/ FreePose) => PixelsOwned'
<1>. SUFFICES ASSUME IInv, PixelsOwned, FreeKey \/ FreePose PROVE PixelsOwned'
  OBVIOUS
<1>1. /\ stream'["render"] = stream["render"] /\ stream'["show"] = stream["show"]
      /\ stream'["detect"] = stream["detect"]
  <2>1. CASE UNCHANGED stream
    BY <2>1
  <2>2. CASE Pop("key") \/ Pop("pose")
    BY <2>2 DEF Pop, IInv, TypeOK, Streams
  <2>. QED  BY <2>1, <2>2 DEF FreeKey, FreePose
<1>2. renderer # "freeFrame" /\ renderer' # "freeFrame"
  BY DEF FreeKey, FreePose
<1>. QED  BY <1>1, <1>2, SameBuffers DEF FreeKey, FreePose, In, ImagesInUse

(* Nobody but the display still reads the frame that it has shown.         *)
LEMMA ShowFreePixels == IInv /\ Readable /\ PixelsOwned /\ ShowFree => PixelsOwned'
<1>. SUFFICES ASSUME IInv, Readable, PixelsOwned, ShowFree PROVE PixelsOwned'
  OBVIOUS
<1>. DEFINE shown == Front("show")
<1>1. Numbers /\ Fronts("show") /\ Fronts("render")
  BY AreNumbers, AreElements DEF Streams
<1>2. /\ Len(stream["show"]) \in Nat /\ Len(stream["show"]) > 0
      /\ shown = stream["show"][1] /\ shown \in Nat
  BY <1>1 DEF IInv, HeldOK, ShowFree, Numbers, Room, Fronts
<1>3. Others("show") /\ Popped("show")
  BY <1>2, PopFacts DEF ShowFree, Streams
<1>4. In("show")' = In("show") \ {shown}
  BY <1>2, <1>3, Distinct, InPopped DEF Streams
<1>5. /\ In("render")' = In("render") /\ In("detect")' = In("detect")
      /\ Front("render")' = Front("render")
  BY <1>3 DEF Others, Streams, In, Front
<1>6. shown < Freed + IF renderer = "freeFrame" THEN 1 ELSE 0
  <2>1. 1 \in 1..Len(stream["show"])
    BY <1>2
  <2>. QED  BY <1>2, <2>1 DEF IInv, OrderOK, ShowOrder
<1>7. \A f \in In("render") : f \in Int /\ f >= Freed /\ (f = Freed => Front("render") = f)
  <2>1. ASSUME NEW i \in 1..Len(stream["render"])
        PROVE  /\ stream["render"][i] \in Int /\ stream["render"][i] >= Freed
               /\ stream["render"][i] = Freed => Front("render") = stream["render"][i]
    <3>1. stream["render"][i] = Freed + i - 1
      BY DEF IInv, OrderOK, RenderOrder
    <3>2. i \in Int /\ i >= 1 /\ Freed \in Int /\ Len(stream["render"]) > 0
      BY <1>1 DEF Numbers, Room
    <3>3. stream["render"][i] = Freed => i = 1
      BY <3>1, <3>2
    <3>. QED  BY <1>1, <3>1, <3>2, <3>3 DEF Fronts
  <2>. QED  BY <2>1 DEF In
<1>8. player # "place" =>
        frames - 1 >= Freed /\ (renderer = "freeFrame" => frames - 1 > Freed)
  <2>1. SUFFICES ASSUME player # "place"
                 PROVE  /\ frames - 1 >= Freed
                        /\ renderer = "freeFrame" => frames - 1 > Freed
    OBVIOUS
  <2>2. Freed + Len(stream["render"]) = frames - 1
    BY <1>1, <2>1 DEF Freed, Sent, Numbers, Room
  <2>3. renderer = "freeFrame" => Len(stream["render"]) > 0
    BY DEF IInv, HeldOK
  <2>. QED  BY <1>1, <2>2, <2>3 DEF Numbers, Room
<1>. HIDE DEF shown
<1>9. ImagesInUse' = ImagesInUse \ {shown}
  <2>1. CASE renderer = "freeFrame"
    <3>1. shown < Freed + 1
      BY <1>6, <2>1
    <3>2. \A f \in In("render") \ {Front("render")} : f # shown
      BY <1>1, <1>2, <1>7, <3>1 DEF Numbers
    <3>3. player # "place" => frames - 1 # shown
      BY <1>1, <1>2, <1>8, <2>1, <3>1 DEF Numbers
    <3>. QED  BY <1>4, <1>5, <2>1, <3>2, <3>3 DEF ShowFree, ImagesInUse
  <2>2. CASE renderer # "freeFrame"
    <3>1. shown < Freed
      <4>1. shown < Freed + 0
        BY <1>6, <2>2
      <4>. QED  BY <1>1, <4>1 DEF Numbers
    <3>2. \A f \in In("render") : f # shown
      BY <1>1, <1>2, <1>7, <3>1 DEF Numbers
    <3>3. player # "place" => frames - 1 # shown
      BY <1>1, <1>2, <1>8, <3>1 DEF Numbers
    <3>. QED  BY <1>4, <1>5, <2>2, <3>2, <3>3 DEF ShowFree, ImagesInUse
  <2>. QED  BY <2>1, <2>2
<1>10. pixels' = Buffers(Allocated \ {shown}, In("detect"))
  <2>1. Buffers(Allocated \ {shown}, In("detect"))
          = Buffers(Allocated, In("detect")) \ {Image(shown)}
    BY FewerImages
  <2>. QED  BY <2>1, OwnedIsBuffers DEF ShowFree, shown
<1>11. shown \notin Missing
  <2>1. 1 \in 1..Len(stream["show"])
    BY <1>2
  <2>. QED  BY <1>2, <2>1 DEF Readable, In
<1>12. Allocated' = Allocated \ {shown}
  <2>1. Unread' = Unread /\ shown \notin Unread
    BY <1>11 DEF ShowFree, Unread
  <2>. QED  BY <1>9, <1>11, <2>1 DEF Allocated
<1>. QED  BY <1>5, <1>10, <1>12, OwnedNext

(* An empty frame goes past the display, and its buffer stays.             *)
LEMMA GetKeyPixels == IInv /\ PixelsOwned /\ GetKey => PixelsOwned'
<1>. SUFFICES ASSUME IInv, PixelsOwned, GetKey PROVE PixelsOwned'
  OBVIOUS
<1>1. /\ UNCHANGED <<player, stream, frames, pixels>> /\ renderer = "getKey"
      /\ renderer' = IF Front("render") \in Missing THEN "freeFrame" ELSE "place"
  BY DEF GetKey
<1>2. /\ In("render")' = In("render") /\ In("detect")' = In("detect")
      /\ In("show")' = In("show") /\ Front("render")' = Front("render")
  BY <1>1 DEF In, Front
<1>3. \A f : f \notin Missing => (f \in ImagesInUse' <=> f \in ImagesInUse)
  BY <1>1, <1>2 DEF ImagesInUse
<1>. QED  BY <1>1, <1>2, <1>3, SameBuffers

(* The other steps neither move a frame nor free any pixels.               *)
LEMMA OtherPixels ==
  IInv /\ PixelsOwned /\ (\/ Check \/ Keyboard \/ DetectGet \/ DetectPlaceholder
                          \/ GetFrame \/ GetPose \/ RenderPlaceholder \/ ShowGet
                          \/ UNCHANGED vars) => PixelsOwned'
<1>. SUFFICES ASSUME IInv, PixelsOwned,
                     \/ Check \/ Keyboard \/ DetectGet \/ DetectPlaceholder
                     \/ GetFrame \/ GetPose \/ RenderPlaceholder \/ ShowGet
                     \/ UNCHANGED vars
              PROVE  PixelsOwned'
  OBVIOUS
<1>1. /\ stream'["render"] = stream["render"] /\ stream'["show"] = stream["show"]
      /\ stream'["detect"] = stream["detect"]
  <2>1. CASE KeyEvent
    BY <2>1 DEF KeyEvent, Push, IInv, TypeOK, Streams
  <2>2. CASE UNCHANGED stream
    BY <2>2
  <2>. QED  BY <2>1, <2>2 DEF Check, Keyboard, KeyPlaceholder, DetectGet, DetectPlaceholder,
                              GetFrame, GetPose, RenderPlaceholder, ShowGet, vars
<1>2. /\ frames' = frames /\ pixels' = pixels
      /\ (player = "place") <=> (player' = "place")
      /\ (renderer = "freeFrame") <=> (renderer' = "freeFrame")
  BY DEF Check, Keyboard, KeyPlaceholder, KeyEvent, DetectGet, DetectPlaceholder, GetFrame,
         GetPose, RenderPlaceholder, ShowGet, vars
<1>3. /\ In("render")' = In("render") /\ In("detect")' = In("detect")
      /\ In("show")' = In("show") /\ Front("render")' = Front("render")
  BY <1>1 DEF In, Front
<1>4. ImagesInUse' = ImagesInUse
  BY <1>2, <1>3 DEF ImagesInUse
<1>. QED  BY <1>2, <1>3, <1>4, SameBuffers

(* Across the five kernels every pixel buffer is there for as long as one  *)
(* of them can read it, and no longer, but for those of unreadable images. *)
THEOREM PixelsAreOwned == Spec => []PixelsOwned
<1>1. Init => PixelsOwned
  <2>. SUFFICES ASSUME Init PROVE PixelsOwned
    OBVIOUS
  <2>1. Len(stream["detect"]) = 0 /\ Len(stream["render"]) = 0 /\ Len(stream["show"]) = 0
    BY DEF Init, Streams
  <2>2. In("detect") = {} /\ In("render") = {} /\ In("show") = {}
    BY <2>1 DEF In
  <2>3. Unread = {}
    <3>1. frames = 0 /\ \A f \in Missing : f \in Nat
      BY BoundsAssumption DEF Init
    <3>2. \A f \in Missing : ~(f < frames)
      BY <3>1
    <3>. QED  BY <3>2 DEF Unread
  <2>. QED  BY <2>2, <2>3 DEF Init, PixelsOwned, ImagesInUse
<1>2. Init => Readable
  <2>. SUFFICES ASSUME Init PROVE Readable
    OBVIOUS
  <2>1. Len(stream["show"]) = 0
    BY DEF Init, Streams
  <2>. QED  BY <2>1 DEF Init, Readable, In
<1>3. IInv /\ Readable /\ [Next]_vars => Readable'
  BY StaysReadable
<1>4. IInv /\ Readable /\ PixelsOwned /\ [Next]_vars => PixelsOwned'
  BY NewFramePixels, CopyPixels, SendFramePixels, DetectPixels, DetectFreePixels,
     SendRenderedPixels, FreeFramePixels, FreeKeyPixels, ShowFreePixels, GetKeyPixels,
     OtherPixels
     DEF Next, Player, Detector, Renderer, Display, Finished
<1>. QED  BY <1>1, <1>2, <1>3, <1>4, Invariance, PTL DEF Spec
=============================================================================
