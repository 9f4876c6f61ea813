----------------------------- MODULE ARPipeline -----------------------------
(***************************************************************************)
(* The local marker pipeline of examples/poc/simple_local.yaml: five       *)
(* kernels on five RaftLib streams.                                        *)
(*                                                                         *)
(*   ImgPlayer --render--> SampleMarkerRenderer --show--> Cv2GlRgbDisplay  *)
(*      |                     |            |                               *)
(*      +-detect-> ArUcoDetector -pose->   +<-key- Keyboard                *)
(*                                                                         *)
(* The detector's frames are a duplicate of the renderer's, which the      *)
(* player passes over while the detector is busy.  The renderer waits for  *)
(* a frame and takes a pose and a key if there is one.  A frame is named   *)
(* by the number of the run() of ImgPlayer that sent it, a pose by that of *)
(* the frame it was found in.  Of the ports' own steps (FleXRPortManager)  *)
(* only those are kept that wait for another kernel.                       *)
(***************************************************************************)
EXTENDS Integers, Sequences, FiniteSets

Streams == {"detect", "render", "pose", "key", "show"}

CONSTANTS
  QueueSize,     \* QueueSize[s]: the capacity of stream s
  DupSemantics,  \* of out_frame2, to the detector
  Missing,       \* the frames whose image could not be read: they are empty
  MaxFrames,     \* bound: the player stops after this many frames
  MaxKeys        \* bound: the key strokes

ASSUME RecipeAssumption ==
  /\ QueueSize \in [Streams -> Nat \ {0}]
  /\ DupSemantics \in {"BLOCKING", "NONBLOCKING"}
ASSUME BoundsAssumption ==
  /\ MaxFrames \in Nat /\ Missing \subseteq 0..(MaxFrames - 1) /\ MaxKeys \in Nat

None == -1   \* nullptr, from a nonblocking in-port without a message

VARIABLES
  player, keyboard, detector, renderer, display,  \* where each is in its run()
  stream,    \* stream[s]: what is in stream s
  frames,    \* frames the player has filled in
  keys,      \* keys the keyboard has sent
  inPose,    \* the renderer's inCamPose
  inKey,     \* the renderer's inKey
  moved,     \* how far the keys have moved the marker
  pixels     \* the pixel buffers that are allocated

vars == <<player, keyboard, detector, renderer, display, stream, frames, keys,
          inPose, inKey, moved, pixels>>

(* A definition marked as a mutant is a changed form of the one after it.  *)

Empty(s)   == stream[s] = << >>
Full(s)    == Len(stream[s]) = QueueSize[s]
Front(s)   == Head(stream[s])
Push(s, m) == stream' = [stream EXCEPT ![s] = Append(@, m)]
Pop(s)     == stream' = [stream EXCEPT ![s] = Tail(@)]

Image(f) == <<"image", f>>   \* the pixels ImgPlayer copies out of its cache
Clone(f) == <<"clone", f>>   \* those of the duplicate
-----------------------------------------------------------------------------
(* ImgPlayer::run: it may wait for the renderer, and the detector in Copy. *)

NewFrameUnplaced ==   \* mutant: the placeholder is asked for when sending
  /\ player = "place" /\ frames < MaxFrames /\ player' = "check"
  /\ frames' = frames + 1
  /\ pixels' = pixels \cup {Image(frames)}
  /\ UNCHANGED <<keyboard, detector, renderer, display, stream, keys, inPose, inKey, moved>>

(* getOutputPlaceholder waits for room for the frame, which is filled in;  *)
(* an empty one has a buffer, too, of no bytes.                            *)
NewFrame ==
  /\ player = "place" /\ frames < MaxFrames /\ ~Full("render") /\ player' = "check"
  /\ frames' = frames + 1
  /\ pixels' = pixels \cup {Image(frames)}
  /\ UNCHANGED <<keyboard, detector, renderer, display, stream, keys, inPose, inKey, moved>>

CheckAlwaysCopies ==   \* mutant: the semantics of the duplicate are ignored
  /\ player = "check" /\ player' = "copy"
  /\ UNCHANGED <<keyboard, detector, renderer, display, stream, frames, keys,
                 inPose, inKey, moved, pixels>>

Check ==
  /\ player = "check"
  /\ player' = IF DupSemantics = "NONBLOCKING" /\ Full("detect") THEN "send" ELSE "copy"
  /\ UNCHANGED <<keyboard, detector, renderer, display, stream, frames, keys,
                 inPose, inKey, moved, pixels>>

Copy ==
  /\ player = "copy" /\ ~Full("detect") /\ player' = "send"
  /\ pixels' = pixels \cup {Clone(frames - 1)}
  /\ Push("detect", frames - 1)
  /\ UNCHANGED <<keyboard, detector, renderer, display, frames, keys, inPose, inKey, moved>>

SendFrame ==
  /\ player = "send" /\ player' = "place"
  /\ Push("render", frames - 1)
  /\ UNCHANGED <<keyboard, detector, renderer, display, frames, keys, inPose, inKey,
                 moved, pixels>>

Player == NewFrame \/ Check \/ Copy \/ SendFrame
-----------------------------------------------------------------------------
(* Keyboard::run: a placeholder first, then a key whenever the user types. *)

KeyPlaceholder ==
  /\ keyboard = "place" /\ ~Full("key") /\ keyboard' = "event"
  /\ UNCHANGED <<player, detector, renderer, display, stream, frames, keys, inPose,
                 inKey, moved, pixels>>

KeyEvent ==
  /\ keyboard = "event" /\ keys < MaxKeys /\ keyboard' = "place"
  /\ keys' = keys + 1
  /\ Push("key", keys)
  /\ UNCHANGED <<player, detector, renderer, display, frames, inPose, inKey, moved, pixels>>

Keyboard == KeyPlaceholder \/ KeyEvent
-----------------------------------------------------------------------------
(* ArUcoDetector::run.                                                     *)

DetectGet ==
  /\ detector = "get" /\ ~Empty("detect") /\ detector' = "place"
  /\ UNCHANGED <<player, keyboard, renderer, display, stream, frames, keys, inPose,
                 inKey, moved, pixels>>

(* It asks for room for a pose before it knows whether there is a marker.  *)
DetectPlaceholder ==
  /\ detector = "place" /\ ~Full("pose") /\ detector' = "detect"
  /\ UNCHANGED <<player, keyboard, renderer, display, stream, frames, keys, inPose,
                 inKey, moved, pixels>>

(* Without a marker, as in an empty frame, the placeholder is not sent.    *)
Detect ==
  /\ detector = "detect" /\ detector' = "free"
  /\ \/ Front("detect") \notin Missing /\ Push("pose", Front("detect"))
     \/ UNCHANGED stream
  /\ UNCHANGED <<player, keyboard, renderer, display, frames, keys, inPose, inKey,
                 moved, pixels>>

DetectFreeLeaks ==   \* mutant: the pixels are not released
  /\ detector = "free" /\ detector' = "get"
  /\ Pop("detect")
  /\ UNCHANGED <<player, keyboard, renderer, display, frames, keys, inPose, inKey,
                 moved, pixels>>

DetectFree ==
  /\ detector = "free" /\ detector' = "get"
  /\ pixels' = pixels \ {Clone(Front("detect"))}
  /\ Pop("detect")
  /\ UNCHANGED <<player, keyboard, renderer, display, frames, keys, inPose, inKey, moved>>

Detector == DetectGet \/ DetectPlaceholder \/ Detect \/ DetectFree
-----------------------------------------------------------------------------
(* SampleMarkerRenderer::run.                                              *)

GetFrame ==
  /\ renderer = "get" /\ ~Empty("render") /\ renderer' = "getPose"
  /\ UNCHANGED <<player, keyboard, detector, display, stream, frames, keys, inPose,
                 inKey, moved, pixels>>

GetPoseIfReadable ==   \* mutant: the pose is left to a frame that can use it
  /\ renderer = "getPose" /\ renderer' = "getKey"
  /\ inPose' = IF Empty("pose") \/ Front("render") \in Missing THEN None ELSE Front("pose")
  /\ UNCHANGED <<player, keyboard, detector, display, stream, frames, keys, inKey,
                 moved, pixels>>

GetPose ==
  /\ renderer = "getPose" /\ renderer' = "getKey"
  /\ inPose' = IF Empty("pose") THEN None ELSE Front("pose")
  /\ UNCHANGED <<player, keyboard, detector, display, stream, frames, keys, inKey,
                 moved, pixels>>

(* A key moves the marker even when the frame turns out to be empty, which *)
(* is not rendered.                                                        *)
GetKey ==
  /\ renderer = "getKey"
  /\ inKey' = IF Empty("key") THEN None ELSE Front("key")
  /\ moved' = IF Empty("key") THEN moved ELSE moved + 1
  /\ renderer' = IF Front("render") \in Missing THEN "freeFrame" ELSE "place"
  /\ UNCHANGED <<player, keyboard, detector, display, stream, frames, keys, inPose, pixels>>

RenderPlaceholder ==
  /\ renderer = "place" /\ ~Full("show") /\ renderer' = "send"
  /\ UNCHANGED <<player, keyboard, detector, display, stream, frames, keys, inPose,
                 inKey, moved, pixels>>

(* The marker is drawn into the pixels of inFrame, which outFrame shares.  *)
SendRendered ==
  /\ renderer = "send" /\ renderer' = "freeFrame"
  /\ Push("show", Front("render"))
  /\ UNCHANGED <<player, keyboard, detector, display, frames, keys, inPose, inKey,
                 moved, pixels>>

FreeFrameReleases ==   \* mutant: inFrame's pixels are released, as elsewhere
  /\ renderer = "freeFrame" /\ renderer' = "freeKey"
  /\ Pop("render")
  /\ pixels' = pixels \ {Image(Front("render"))}
  /\ UNCHANGED <<player, keyboard, detector, display, frames, keys, inPose, inKey, moved>>

FreeFrame ==
  /\ renderer = "freeFrame" /\ renderer' = "freeKey"
  /\ Pop("render")
  /\ UNCHANGED <<player, keyboard, detector, display, frames, keys, inPose, inKey,
                 moved, pixels>>

FreeKeyNotYet ==   \* mutant: without a pose the run ends and keeps the key
  /\ renderer = "freeKey" /\ renderer' = "freePose"
  /\ inKey' = None
  /\ IF inKey = None \/ inPose = None THEN UNCHANGED stream ELSE Pop("key")
  /\ UNCHANGED <<player, keyboard, detector, display, frames, keys, inPose, moved, pixels>>

FreeKey ==
  /\ renderer = "freeKey" /\ renderer' = "freePose"
  /\ inKey' = None
  /\ IF inKey = None THEN UNCHANGED stream ELSE Pop("key")
  /\ UNCHANGED <<player, keyboard, detector, display, frames, keys, inPose, moved, pixels>>

FreePose ==
  /\ renderer = "freePose" /\ renderer' = "get"
  /\ inPose' = None
  /\ IF inPose = None THEN UNCHANGED stream ELSE Pop("pose")
  /\ UNCHANGED <<player, keyboard, detector, display, frames, keys, inKey, moved, pixels>>

Renderer == \/ GetFrame \/ GetPose \/ GetKey \/ RenderPlaceholder \/ SendRendered
            \/ FreeFrame \/ FreeKey \/ FreePose
-----------------------------------------------------------------------------
(* Cv2GlRgbDisplay::run.                                                   *)

ShowGet ==
  /\ display = "get" /\ ~Empty("show") /\ display' = "show"
  /\ UNCHANGED <<player, keyboard, detector, renderer, stream, frames, keys, inPose,
                 inKey, moved, pixels>>

ShowFree ==
  /\ display = "show" /\ display' = "get"
  /\ pixels' = pixels \ {Image(Front("show"))}
  /\ Pop("show")
  /\ UNCHANGED <<player, keyboard, detector, renderer, frames, keys, inPose, inKey, moved>>

Display == ShowGet \/ ShowFree
-----------------------------------------------------------------------------
Init ==
  /\ player = "place" /\ keyboard = "place" /\ detector = "get"
  /\ renderer = "get" /\ display = "get"
  /\ stream = [s \in Streams |-> << >>]
  /\ frames = 0 /\ keys = 0 /\ moved = 0
  /\ inPose = None /\ inKey = None
  /\ pixels = {}

(* The bounds are reached: every kernel waits for the next frame or key.   *)
Finished ==
  /\ player = "place" /\ frames = MaxFrames
  /\ renderer = "get" /\ display = "get" /\ Empty("render") /\ Empty("show")
  /\ UNCHANGED vars

Next == Player \/ Keyboard \/ Detector \/ Renderer \/ Display \/ Finished

Spec == Init /\ [][Next]_vars

(* A kernel is a thread of its own and keeps running.  Nothing is assumed  *)
(* of the user and of the detector, which may stop with a frame in hand.   *)
FairSpec == Spec /\ WF_vars(Player) /\ WF_vars(Renderer) /\ WF_vars(Display)
-----------------------------------------------------------------------------
(* Properties.                                                             *)

(* Every variable stays in its range, no stream is fuller than its queue.  *)
TypeOK ==
  /\ player \in {"place", "check", "copy", "send"}
  /\ keyboard \in {"place", "event"}
  /\ detector \in {"get", "place", "detect", "free"}
  /\ renderer \in {"get", "getPose", "getKey", "place", "send",
                   "freeFrame", "freeKey", "freePose"}
  /\ display \in {"get", "show"}
  /\ stream \in [Streams -> Seq(Nat)]
  /\ \A s \in Streams : Len(stream[s]) <= QueueSize[s]
  /\ frames \in 0..MaxFrames /\ keys \in 0..MaxKeys /\ moved \in 0..MaxKeys
  /\ inPose \in {None} \cup 0..(MaxFrames - 1) /\ inKey \in {None} \cup 0..(MaxKeys - 1)
  /\ pixels \subseteq ({"image", "clone"} \X (0..(MaxFrames - 1)))

In(s) == { stream[s][i] : i \in 1..Len(stream[s]) }

(* The frames whose image somebody will still read: the player while it    *)
(* sends one; the stream to the renderer, up to the front frame once it    *)
(* was sent on; and the stream to the display.                             *)
ImagesInUse ==
  (IF player = "place" THEN {} ELSE {frames - 1})
  \cup
  (IF renderer = "freeFrame" THEN In("render") \ {Front("render")} ELSE In("render"))
  \cup
  In("show")

(* The renderer hands the pixels on instead of releasing or copying them,  *)
(* the detector releases its clone: across the five kernels every pixel    *)
(* buffer is there for as long as a kernel can read it, and no longer.     *)
(* Only the buffers of the frames that could not be read stay, for the     *)
(* renderer neither hands them on nor releases them.                       *)
Unread == { f \in Missing : f < frames }
PixelsOwned ==
  pixels = { Image(f) : f \in (ImagesInUse \ Missing) \cup Unread }
             \cup { Clone(f) : f \in In("detect") }

(* <<k, l>> when kernel k waits for something only kernel l can do.        *)
WaitsFor ==
  { w \in {<<"player", "renderer">>, <<"player", "detector">>,
           <<"detector", "player">>, <<"detector", "renderer">>,
           <<"renderer", "player">>, <<"renderer", "display">>,
           <<"display", "renderer">>} :
      CASE w = <<"player", "renderer">> ->
             player = "place" /\ frames < MaxFrames /\ Full("render")
        [] w = <<"player", "detector">>   -> player = "copy" /\ Full("detect")
        [] w = <<"detector", "player">>   -> detector = "get" /\ Empty("detect")
        [] w = <<"detector", "renderer">> -> detector = "place" /\ Full("pose")
        [] w = <<"renderer", "player">>   -> renderer = "get" /\ Empty("render")
        [] w = <<"renderer", "display">>  -> renderer = "place" /\ Full("show")
        [] w = <<"display", "renderer">>  -> display = "get" /\ Empty("show") }

(* The kernels never wait for each other in a circle, even when the frames *)
(* to the detector are blocking too: the detector then waits for room for  *)
(* a pose, the player for the detector and the renderer for the player,    *)
(* but not all at a time, for the renderer takes a pose with every frame,  *)
(* after the frame has arrived.                                            *)
NoCircularWait ==
  \A K \in (SUBSET {"player", "detector", "renderer", "display"}) \ {{}} :
    \E k \in K : \A l \in K : <<k, l>> \notin WaitsFor

(* The marker of a frame was found in it, in an earlier one, or in one     *)
(* that comes so soon after it that the stream to the renderer holds both: *)
(* the detector, which gets its copy first, gets no further ahead.         *)
PoseNotAhead ==
  renderer \in {"getKey", "place", "send", "freeFrame"} /\ inPose # None
    => inPose < Front("render") + QueueSize["render"]

(* Every key moves the marker exactly once: those sent have moved it or    *)
(* are in the stream, where the one in hand has moved it already.          *)
KeyMovesOnce ==
  moved + Len(stream["key"]) = keys + (IF inKey = None THEN 0 ELSE 1)

(* Every frame that could be read is displayed, whatever becomes of the    *)
(* detector.                                                               *)
EveryFrameShown ==
  \A f \in (0..(MaxFrames - 1)) \ Missing :
    <>(display = "show" /\ Front("show") = f)
=============================================================================
