----------------------------- MODULE KernelRun -----------------------------
(* One kernel of any class, from one run() to the next: the messages it    *)
(* takes, makes, sends and frees.  run() of a class is a sequence of the   *)
(* steps that touch a message: calls of the port manager, reads of a       *)
(* message, allocations and releases of what it points to.  The channels   *)
(* are of two kinds: a RaftLib stream lends its slots to both kernels,     *)
(* shared memory and network copy the bytes of a message.                  *)
EXTENDS KernelCatalog, MessageFormat, Sequences

CONSTANTS Classes,   \* the classes to run
          MaxRuns,   \* bound: calls of run()
          Sizes,     \* the payload sizes of incoming messages
          Bags,      \* [start, cache, images]: bag files, and how many of their
                     \* images are to be skipped and to be cached
          Folders,   \* [listed, there, iterate, preload]: folders of images, how
                     \* many are listed in the recipe and how many there are
          Delay,     \* how many frames a codec may keep back
          QueueSize  \* elements of the queue to or from an application

(* An image of a bag: a frame, one of another size, or a message that is   *)
(* not an image.                                                           *)
Images == {"frame", "other", "null"}

ASSUME RunAssumption == /\ Sizes \subseteq Payloads
                        /\ Classes \subseteq DOMAIN Kernels
                        /\ Bags \subseteq [start : Nat, cache : Nat, images : Seq(Images)]
                        /\ Folders \subseteq [listed : Nat \ {0}, there : Nat,
                                             iterate : BOOLEAN, preload : BOOLEAN]
                        /\ QueueSize \in Nat

VARIABLES class,
          inCh, outCh,   \* port -> "raftlib" or "copied"
          logging,   \* logger.isSet()
          bag,       \* the bag file, of BagCamera
          folder,    \* the folder, of ImgPlayer
          run,       \* calls of run() that have ended; they number the inputs
          todo,      \* the rest of this run(): a sequence of steps
          state,     \* "opening" (the bag), "running", "returned", "stopped",
                     \* "exited", "crashed"
          seq,       \* seq of a source
          reader,    \* what BagCamera and ImgPlayer keep of their files: curMsg,
                     \* frameIndex, cached (cachedFrames.size()), nImgs, caching
          msg,       \* port -> the message this run() holds for it
          buf,       \* port -> the pixels or payload it points to
          hdr,       \* port -> seq in the message's header
          content,   \* port -> the frame or input the message is made of
          got,       \* in-port -> the kind and bytes of what it accepted
          sent,      \* out-port -> header and content last given to sendOutput
          inside,    \* the frames in the codec
          queue,     \* elements in the application's queue
          faults,    \* uses of what the kernel does not own (any more)
          lost       \* what was left at the end of run() and cannot be freed

fixed == <<class, inCh, outCh, logging, bag, folder>>
data  == <<msg, buf, hdr, content>>
vars  == <<fixed, run, todo, state, seq, reader, data, got, sent, inside, queue,
           faults, lost>>
-----------------------------------------------------------------------------
(* Steps, named for what the code calls.  Make allocates the data of a     *)
(* message, Write fills a message that has its data in itself; both take   *)
(* the content from the message of port u, from the device or file ("own") *)
(* or leave it to the codec.                                               *)
Step(op, t, u) == [op |-> op, t |-> t, u |-> u, then |-> << >>, else |-> << >>]
Place(t)     == Step("Place", t, "")      \* getOutputPlaceholder
Get(t)       == Step("Get", t, "")        \* getInput
Use(t)       == Step("Use", t, "")        \* reads or writes *msg
Pixels(t)    == Step("Pixels", t, "")     \* reads *msg and its data
Make(t, u)   == Step("Make", t, u)
Write(t, u)  == Step("Write", t, u)
Header(t, u) == Step("Header", t, u)      \* setHeader
Share(t, u)  == Step("Share", t, u)       \* t->data = u->data
Send(t)      == Step("Send", t, "")       \* sendOutput
Log(t)       == Step("Log", t, "")        \* logger.getInstance()->info(...)
Release(t)   == Step("Release", t, "")    \* data.release(), delete data
Free(t)      == Step("Free", t, "")       \* freeInput
Count        == Step("Count", "", "")     \* seq++
End(how)     == Step("End", how, "")      \* a return, raft::stop, exit
Branch(op, t, then, else) ==
  [op |-> op, t |-> t, u |-> "", then |-> then, else |-> else]
Either(then, else) == Branch("Either", "", then, else)
IfThere(t, then) == Branch("IfThere", t, then, << >>)   \* msg != nullptr
Codec(t, u, then) == [Branch("Codec", t, then, << >>) EXCEPT !.u = u]

BagCameraRun == <<Place("out_frame"), Make("out_frame", "own"),
                  Header("out_frame", "own"), Count, Send("out_frame")>>
CVCameraRun == BagCameraRun
ImgPlayerRun ==
  <<Place("out_frame"), Branch("ReadImage", "", <<End("stopped")>>, << >>),
    Make("out_frame", "own"), Count, Header("out_frame", "own"), Send("out_frame"),
    Branch("AtLast", "", <<End("stopped")>>, << >>)>>
EurocMonoInertialReaderRun ==
  <<Place("out_frame"), Place("out_imus"), Either(<<End("stopped")>>, << >>),
    Either(<<End("exited")>>, << >>), Make("out_frame", "own"),
    Header("out_frame", "own"), Write("out_imus", "own"), Header("out_imus", "own"),
    Count, Send("out_frame"), Send("out_imus")>>
KeyboardRun ==
  <<Place("out_key"), Write("out_key", "own"), Header("out_key", "own"), Count,
    Either(<<End("exited")>>, << >>), Use("out_key"), Send("out_key"), Log("out_key")>>
Rgba2RgbAppSourceRun ==
  <<Branch("IfElement", "",
      <<Step("Dequeue", "", ""),
        Either(<<Place("out_frame"), Make("out_frame", "own"),
                 Header("out_frame", "own"), Count, Send("out_frame")>>, << >>)>>, << >>)>>

DisplayAfterRelease ==   \* mutant: the pixels are released before they are shown
  <<Get("in_frame"), Log("in_frame"), Release("in_frame"), Pixels("in_frame"),
    Free("in_frame")>>
CVDisplayRun == <<Get("in_frame"), Pixels("in_frame"), Log("in_frame"),
                  Release("in_frame"), Free("in_frame")>>
Cv2GlRgbDisplayRun ==
  <<Either(<<End("exited")>>, << >>), Get("in_frame"),
    Either(<<Pixels("in_frame"), Log("in_frame")>>, << >>),
    Release("in_frame"), Free("in_frame")>>
NonDisplayRun == <<Get("in_frame"), Log("in_frame"), Release("in_frame"),
                   Free("in_frame")>>
Rgb2RgbaAppSinkRun ==
  <<Get("in_frame"),
    Branch("IfRoom", "", <<Pixels("in_frame"), Step("Enqueue", "", ""),
                           Log("in_frame")>>, << >>),
    Release("in_frame"), Free("in_frame")>>

OtherSizeKept ==   \* mutant: the early return forgets the input
  <<Use("in_frame"), Either(<<End("returned")>>, << >>)>>

(* A frame of another size is given back, and that run() is not paced.     *)
OtherSize == <<Use("in_frame"),
               Either(<<Release("in_frame"), Free("in_frame"), End("returned")>>, << >>)>>
EncoderNoHeader ==   \* mutant: the header is left as it was
  <<Place("out_encoded_frame"), Get("in_frame")>> \o OtherSize \o
  <<Pixels("in_frame"),
    Codec("out_encoded_frame", "in_frame",
      <<Make("packet", "codec"), Make("out_encoded_frame", "codec"),
        Send("out_encoded_frame"), Log("out_encoded_frame")>>),
    Release("in_frame"), Free("in_frame")>>
(* The payload is the AVPacket's; break leaves the packet unreferenced.    *)
FrameEncoderRun ==
  <<Place("out_encoded_frame"), Get("in_frame")>> \o OtherSize \o
  <<Pixels("in_frame"),
    Codec("out_encoded_frame", "in_frame",
      <<Make("packet", "codec"), Make("out_encoded_frame", "codec"),
        Header("out_encoded_frame", "in_frame"), Send("out_encoded_frame"),
        Log("out_encoded_frame")>>),
    Release("in_frame"), Free("in_frame")>>
NvmpiEncoderRun ==
  <<Place("out_encoded_frame"), Get("in_frame")>> \o OtherSize \o
  <<Pixels("in_frame"), Make("out_encoded_frame", "in_frame"),
    Header("out_encoded_frame", "in_frame"), Send("out_encoded_frame"),
    Log("out_encoded_frame"), Release("in_frame"), Free("in_frame")>>
(* av_packet_from_data makes a reference nothing unreferences.             *)
FrameDecoderRun ==
  <<Place("out_frame"), Make("out_frame", "codec"), Get("in_encoded_frame"),
    Header("out_frame", "in_encoded_frame"), Pixels("in_encoded_frame"),
    Make("packet", "codec"),
    Codec("out_frame", "in_encoded_frame", <<Log("in_encoded_frame"), Send("out_frame")>>),
    Release("in_encoded_frame"), Free("in_encoded_frame")>>
NvmpiDecoderRun ==
  <<Place("out_frame"), Get("in_encoded_frame"),
    Header("out_frame", "in_encoded_frame"), Pixels("in_encoded_frame"),
    Codec("out_frame", "in_encoded_frame",
      <<Make("out_frame", "codec"), Log("in_encoded_frame"), Send("out_frame")>>),
    Release("in_encoded_frame"), Free("in_encoded_frame")>>
FrameConverterRun ==
  <<Get("in_frame"), Use("in_frame"), Place("out_frame"), Header("out_frame", "in_frame"),
    Pixels("in_frame"), Make("out_frame", "in_frame"), Release("in_frame"),
    Send("out_frame"), Free("in_frame")>>

Locate(out, detected) ==
  <<Get("in_frame"), Place(out), Pixels("in_frame"),
    Either(detected \o <<Send(out)>>, << >>), Release("in_frame"), Free("in_frame")>>
ArUcoDetectorRun ==
  Locate("out_marker_pose", <<Header("out_marker_pose", "in_frame"),
                              Write("out_marker_pose", "in_frame")>>)
ArUcoCamLocatorRun ==
  Locate("out_cam_pose", <<Header("out_cam_pose", "in_frame"),
                           Write("out_cam_pose", "in_frame")>>)
(* The header is set before it is known whether there is a pose.           *)
OrbCamLocatorRun ==
  <<Get("in_frame"), Place("out_cam_pose"), Header("out_cam_pose", "in_frame"),
    Pixels("in_frame"),
    Either(<<Write("out_cam_pose", "in_frame"), Send("out_cam_pose")>>, << >>),
    Release("in_frame"), Free("in_frame")>>
CudaOrbCamLocatorRun == OrbCamLocatorRun
OrbSlamPoseEstimatorRun ==
  <<Get("in_frame"), Get("in_imus"), Place("out_pose"), Use("in_imus"),
    Pixels("in_frame"),
    Either(<<Make("out_pose", "in_frame"), Header("out_pose", "in_frame"),
             Send("out_pose")>>, << >>),
    Release("in_frame"), Free("in_frame"), Free("in_imus")>>
(* Only the renderer asks whether there is a frame, and it hands its       *)
(* pixels on.                                                              *)
SampleMarkerRendererRun ==
  <<Get("in_frame"), Get("in_cam_pose"), Get("in_key"),
    IfThere("in_key", <<Use("in_key")>>),
    IfThere("in_frame",
      <<Use("in_frame"),
        Either(<<Place("out_frame"), Header("out_frame", "in_frame"),
                 Share("out_frame", "in_frame"),
                 IfThere("in_cam_pose", <<Use("in_cam_pose")>>),
                 Pixels("out_frame"), Send("out_frame")>>, << >>)>>),
    Free("in_frame"), Free("in_key"), Free("in_cam_pose")>>

Programs ==
  [BagCamera |-> BagCameraRun, CVCamera |-> CVCameraRun, ImgPlayer |-> ImgPlayerRun,
   EurocMonoInertialReader |-> EurocMonoInertialReaderRun, Keyboard |-> KeyboardRun,
   Rgba2RgbAppSource |-> Rgba2RgbAppSourceRun, CVDisplay |-> CVDisplayRun,
   Cv2GlRgbDisplay |-> Cv2GlRgbDisplayRun, NonDisplay |-> NonDisplayRun,
   Rgb2RgbaAppSink |-> Rgb2RgbaAppSinkRun, FrameEncoder |-> FrameEncoderRun,
   FrameDecoder |-> FrameDecoderRun, NvmpiEncoder |-> NvmpiEncoderRun,
   NvmpiDecoder |-> NvmpiDecoderRun, FrameConverter |-> FrameConverterRun,
   ArUcoDetector |-> ArUcoDetectorRun, ArUcoCamLocator |-> ArUcoCamLocatorRun,
   OrbCamLocator |-> OrbCamLocatorRun, CudaOrbCamLocator |-> CudaOrbCamLocatorRun,
   OrbSlamPoseEstimator |-> OrbSlamPoseEstimatorRun,
   SampleMarkerRenderer |-> SampleMarkerRendererRun]

InPorts  == DOMAIN Kernels[class].in
OutPorts == DOMAIN Kernels[class].out
Tags == InPorts \cup OutPorts \cup {"packet"}
InPort(t)  == Kernels[class].in[t]
OutPort(t) == Kernels[class].out[t]
All(x) == [t \in Tags |-> x]
-----------------------------------------------------------------------------
(* The step at hand, once what it reads is not a null pointer.             *)
At(op) == state = "running" /\ todo # << >> /\ Head(todo).op = op
T == Head(todo).t
U == Head(todo).u
Rest == Tail(todo)
MayBeNull == {"Place", "Get", "Free", "IfThere", "Either", "IfElement", "IfRoom",
              "Enqueue", "Dequeue", "ReadImage", "AtLast", "Count", "End"}
Reads == IF Head(todo).op \in MayBeNull \/ (Head(todo).op = "Log" /\ ~logging)
           THEN {} ELSE {T, U} \cap (InPorts \cup OutPorts)
Sound == \A t \in Reads : msg[t] # "null"
Do(op) == At(op) /\ Sound

(* Reading a message that was handed over or deleted, or such pixels.      *)
Stale(t) == IF msg[t] \in {"peer", "deleted"} THEN {<<"stale", Head(todo).op, t>>} ELSE {}
StaleData(t) == IF buf[t] \in {"none", "mine"} THEN {}
                ELSE {<<"data", Head(todo).op, t>>}

Crash == /\ state = "running" /\ todo # << >> /\ ~Sound
         /\ state' = "crashed"
         /\ UNCHANGED <<fixed, run, todo, seq, reader, data, got, sent, inside,
                        queue, faults, lost>>

(* A placeholder: a slot of the stream or a new message.                   *)
DoPlace ==
  /\ Do("Place")
  /\ msg' = [msg EXCEPT ![T] = IF outCh[T] = "raftlib" THEN "slot" ELSE "mine"]
  /\ todo' = Rest
  /\ UNCHANGED <<fixed, run, state, seq, reader, buf, hdr, content, got, sent,
                 inside, queue, faults, lost>>

Nothing == [kind |-> "none", bytes |-> Bytes(0, 0, 0)]
OwnKind(t) == IF InPort(t).type = "frame" /\ InPort(t).coder = "PLAIN"
                THEN "bareframe" ELSE InPort(t).type
Meta(t) == CASE InPort(t).type = "frame"   -> FrameMeta
             [] InPort(t).type = "encoded" -> PtrMeta
             [] InPort(t).type = "pose"    -> PoseMeta
             [] InPort(t).type = "key"     -> KeyMeta
Accepts(t, b) ==
  IF InPort(t).coder = "PLAIN" THEN AcceptPlain(b, Meta(t))
  ELSE IF InPort(t).type = "frame" THEN deserializeRawFrame(b)
  ELSE deserializeEncodedFrame(b)

(* The pixels of a frame that came as a bare pointer are of this process   *)
(* or of another one.                                                      *)
DataOf(t, kind) ==
  IF InPort(t).type \notin {"frame", "encoded"} THEN {"none"}
  ELSE IF InPort(t).coder = "CODED" THEN {"mine"}
  ELSE IF kind = "bareframe" THEN {"mine", "foreign"} ELSE {"foreign"}

Take(t, m, d) == /\ msg' = [msg EXCEPT ![t] = m]
                 /\ buf' = [buf EXCEPT ![t] = d]
                 /\ hdr' = [hdr EXCEPT ![t] = run]
                 /\ content' = [content EXCEPT ![t] = run]
                 /\ todo' = Rest

GetLocal ==   \* the slot at the head of the stream
  /\ Do("Get") /\ inCh[T] = "raftlib"
  /\ Take(T, "slot", IF InPort(T).type \in {"frame", "encoded"} THEN "mine" ELSE "none")
  /\ UNCHANGED <<fixed, run, state, seq, reader, got, sent, inside, queue, faults, lost>>

GetNothing ==   \* a non-blocking port without a message
  /\ Do("Get") /\ InPort(T).sem = "NONBLOCKING"
  /\ Take(T, "null", "none")
  /\ UNCHANGED <<fixed, run, state, seq, reader, got, sent, inside, queue, faults, lost>>

(* The deserializer copies the object before it looks at the size; what    *)
(* it rejects is deleted, and a blocking getInput returns nullptr, too.    *)
GetCopied ==
  /\ Do("Get") /\ inCh[T] = "copied" /\ InPort(T).type # "imus"
  /\ \E w \in Messages(Sizes) :
       /\ faults' = faults \cup
            IF InPort(T).coder = "CODED" /\ w.bytes.size < Meta(T)
              THEN {<<"overread", "Get", T>>} ELSE {}
       /\ IF Accepts(T, w.bytes)
            THEN /\ \E d \in DataOf(T, w.kind) : Take(T, "mine", d)
                 /\ got' = [got EXCEPT ![T] = w]
            ELSE Take(T, "null", "none") /\ UNCHANGED got
  /\ UNCHANGED <<fixed, run, state, seq, reader, sent, inside, queue, lost>>

(* boost throws when the bytes are not an archive.                         *)
GetArchive ==
  /\ Do("Get") /\ inCh[T] = "copied" /\ InPort(T).type = "imus"
  /\ \/ Take(T, "mine", "none") /\ UNCHANGED state
     \/ state' = "crashed" /\ UNCHANGED <<data, todo>>
  /\ UNCHANGED <<fixed, run, seq, reader, got, sent, inside, queue, faults, lost>>

DoRead ==   \* Use, Pixels and, if there is a logger, Log
  /\ Do("Use") \/ Do("Pixels") \/ Do("Log")
  /\ faults' = faults \cup (IF At("Pixels") THEN StaleData(T) ELSE {})
                      \cup UNION {Stale(t) : t \in Reads}
  /\ todo' = Rest
  /\ UNCHANGED <<fixed, run, state, seq, reader, data, got, sent, inside, queue, lost>>

(* The image of the bag at curMsg, which may be past the end.              *)
Image == IF reader.curMsg < Len(bag.images) THEN bag.images[reader.curMsg + 1]
         ELSE "none"
Cached == reader.cached > 0      \* isCached()

(* cacheFrames, when the recipe is parsed.  Neither the skipping nor the   *)
(* caching asks for the end of the bag; on a message that is no image the  *)
(* reader stays, and caches no more.                                       *)
CacheFrame ==
  /\ state = "opening"
  /\ IF reader.cached = bag.cache \/ Image = "null"
       THEN state' = "running" /\ UNCHANGED reader
     ELSE IF Image = "frame"
       THEN /\ reader' = [reader EXCEPT !.cached = @ + 1, !.curMsg = @ + 1]
            /\ UNCHANGED state
     ELSE /\ state' = IF Image = "other" THEN "exited" ELSE "crashed"
          /\ UNCHANGED reader
  /\ UNCHANGED <<fixed, run, todo, seq, data, got, sent, inside, queue, faults, lost>>

(* A source's content is its next frame or key, of BagCamera the frame     *)
(* getNextFrame takes: the cached ones in turn, or the next of the bag.    *)
NextFrame == IF class # "BagCamera" THEN seq
             ELSE IF Cached THEN bag.start + reader.frameIndex ELSE reader.curMsg
ContentFrom(u) == CASE u = "own"   -> NextFrame
                    [] u = "codec" -> content[T]
                    [] OTHER       -> content[u]
AdvanceReader ==
  reader' = IF class # "BagCamera" THEN reader
            ELSE IF Cached THEN [reader EXCEPT !.frameIndex = (@ + 1) % reader.cached]
            ELSE [reader EXCEPT !.curMsg = @ + 1]
NoFrame == /\ class = "BagCamera"
           /\ IF Cached THEN reader.frameIndex >= reader.cached ELSE Image # "frame"

DoMake ==
  /\ Do("Make") /\ ~NoFrame
  /\ buf' = [buf EXCEPT ![T] = "mine"]
  /\ content' = [content EXCEPT ![T] = ContentFrom(U)]
  /\ AdvanceReader
  /\ faults' = faults \cup UNION {Stale(t) : t \in Reads}
  /\ todo' = Rest
  /\ UNCHANGED <<fixed, run, state, seq, msg, hdr, got, sent, inside, queue, lost>>

(* getNextFrameFromBag asks for the size of the image, neither whether it  *)
(* is one nor whether the bag is at its end.                               *)
ReadFails ==
  /\ Do("Make") /\ NoFrame
  /\ state' = IF ~Cached /\ Image = "other" THEN "exited" ELSE "crashed"
  /\ UNCHANGED <<fixed, run, todo, seq, reader, data, got, sent, inside, queue,
                 faults, lost>>

DoWrite ==
  /\ Do("Write")
  /\ content' = [content EXCEPT ![T] = ContentFrom(U)]
  /\ faults' = faults \cup UNION {Stale(t) : t \in Reads}
  /\ todo' = Rest
  /\ UNCHANGED <<fixed, run, state, seq, reader, msg, buf, hdr, got, sent, inside,
                 queue, lost>>

DoHeader ==
  /\ Do("Header")
  /\ hdr' = [hdr EXCEPT ![T] = IF U = "own" THEN seq ELSE hdr[U]]
  /\ faults' = faults \cup UNION {Stale(t) : t \in Reads}
  /\ todo' = Rest
  /\ UNCHANGED <<fixed, run, state, seq, reader, msg, buf, content, got, sent, inside,
                 queue, lost>>

DoCount ==
  /\ Do("Count")
  /\ seq' = seq + 1 /\ todo' = Rest
  /\ UNCHANGED <<fixed, run, state, reader, data, got, sent, inside, queue, faults, lost>>

DoShare ==
  /\ Do("Share")
  /\ buf' = [buf EXCEPT ![T] = buf[U], ![U] = "shared"]
  /\ content' = [content EXCEPT ![T] = content[U]]
  /\ faults' = faults \cup UNION {Stale(t) : t \in Reads}
  /\ todo' = Rest
  /\ UNCHANGED <<fixed, run, state, seq, reader, msg, hdr, got, sent, inside, queue, lost>>

(* sendOutput.  A stream's receiver has the message and its data from then *)
(* on; a full non-blocking stream leaves the slot as it is.  Otherwise the *)
(* bytes are copied, the message is deleted, and the serializer, if there  *)
(* is one, releases the data.                                              *)
Given == [hdr |-> hdr[T], content |-> content[T]]
DoSend ==
  /\ Do("Send")
  /\ sent' = [sent EXCEPT ![T] = Given]
  /\ \/ /\ outCh[T] = "raftlib"
        /\ msg' = [msg EXCEPT ![T] = "peer"]
        /\ buf' = [buf EXCEPT ![T] = IF @ = "mine" THEN "peer" ELSE @]
     \/ /\ outCh[T] = "raftlib"
        /\ UNCHANGED <<msg, buf>>
     \/ /\ outCh[T] = "copied"
        /\ msg' = [msg EXCEPT ![T] = "deleted"]
        /\ buf' = [buf EXCEPT ![T] =
             IF OutPort(T).coder = "CODED" /\ @ = "mine" THEN "freed" ELSE @]
  /\ faults' = faults \cup Stale(T)
                 \cup IF OutPort(T).coder = "CODED" THEN StaleData(T) ELSE {}
  /\ todo' = Rest
  /\ UNCHANGED <<fixed, run, state, seq, reader, hdr, content, got, inside, queue, lost>>

DoRelease ==
  /\ Do("Release")
  /\ faults' = faults \cup Stale(T) \cup StaleData(T)
  /\ buf' = [buf EXCEPT ![T] = "freed"]
  /\ todo' = Rest
  /\ UNCHANGED <<fixed, run, state, seq, reader, msg, hdr, content, got, sent, inside,
                 queue, lost>>

(* freeInput passes over a null pointer.                                   *)
DoFree ==
  /\ Do("Free")
  /\ faults' = faults \cup Stale(T)
  /\ msg' = [msg EXCEPT ![T] = IF @ = "null" THEN @ ELSE "deleted"]
  /\ todo' = Rest
  /\ UNCHANGED <<fixed, run, state, seq, reader, buf, hdr, content, got, sent, inside,
                 queue, lost>>
-----------------------------------------------------------------------------
Choose(branch) ==
  /\ todo' = branch \o Rest
  /\ UNCHANGED <<fixed, run, state, seq, reader, data, got, sent, inside, queue,
                 faults, lost>>
DoEither == /\ Do("Either")
            /\ Choose(Head(todo).then) \/ Choose(Head(todo).else)
DoIf ==
  \/ /\ Do("IfThere")
     /\ Choose(IF msg[T] # "null" THEN Head(todo).then ELSE << >>)
  \/ /\ Do("IfElement")
     /\ Choose(IF queue > 0 THEN Head(todo).then ELSE << >>)
  \/ /\ Do("IfRoom")
     /\ Choose(IF queue < QueueSize THEN Head(todo).then ELSE << >>)

(* ImgPlayer reads an image unless it has read them all (caching); if it   *)
(* is missing, the player starts again with as many as there were, or it   *)
(* stops.  After the last one it starts again, from memory, or stops.      *)
Missing == ~reader.caching /\ seq < reader.nImgs /\ seq >= folder.there
DoReadImage ==
  /\ Do("ReadImage")
  /\ IF ~Missing THEN todo' = Rest /\ UNCHANGED <<seq, reader>>
     ELSE IF folder.iterate
       THEN /\ reader' = [reader EXCEPT !.nImgs = seq]
            /\ seq' = 0 /\ todo' = Rest
     ELSE todo' = Head(todo).then \o Rest /\ UNCHANGED <<seq, reader>>
  /\ UNCHANGED <<fixed, run, state, data, got, sent, inside, queue, faults, lost>>
DoAtLast ==
  /\ Do("AtLast")
  /\ IF seq < reader.nImgs THEN todo' = Rest /\ UNCHANGED <<seq, reader>>
     ELSE /\ reader' = [reader EXCEPT !.caching = TRUE]
          /\ IF folder.iterate THEN seq' = 0 /\ todo' = Rest
             ELSE todo' = Head(todo).then \o Rest /\ UNCHANGED seq
  /\ UNCHANGED <<fixed, run, state, data, got, sent, inside, queue, faults, lost>>

(* The queue of an application: isEmpty and isFull were asked before.      *)
DoQueue ==
  /\ \/ /\ Do("Enqueue") /\ queue' = queue + 1
        /\ faults' = faults \cup IF queue >= QueueSize THEN {<<"queue", "Enqueue", "">>} ELSE {}
     \/ /\ Do("Dequeue") /\ queue' = queue - 1
        /\ faults' = faults \cup IF queue <= 0 THEN {<<"queue", "Dequeue", "">>} ELSE {}
  /\ todo' = Rest
  /\ UNCHANGED <<fixed, run, state, seq, reader, data, got, sent, inside, lost>>
App ==
  /\ \/ class = "Rgba2RgbAppSource" /\ queue < QueueSize /\ queue' = queue + 1
     \/ class = "Rgb2RgbaAppSink" /\ queue > 0 /\ queue' = queue - 1
  /\ state \in {"running", "returned"}
  /\ UNCHANGED <<fixed, run, todo, state, seq, reader, data, got, sent, inside,
                 faults, lost>>

(* The encoder or decoder takes the frame, or fails, and gives the oldest  *)
(* it holds or none; one is received in a run() at most.                   *)
DoCodec ==
  /\ Do("Codec")
  /\ \/ /\ LET fed == Append(inside, content[U]) IN
           \/ /\ inside' = Tail(fed)
              /\ content' = [content EXCEPT ![T] = Head(fed)]
              /\ todo' = Head(todo).then \o Rest
           \/ /\ Len(fed) <= Delay
              /\ inside' = fed /\ todo' = Rest /\ UNCHANGED content
     \/ todo' = Rest /\ UNCHANGED <<inside, content>>
  /\ UNCHANGED <<fixed, run, state, seq, reader, msg, buf, hdr, got, sent, queue,
                 faults, lost>>

(* What no one can free any more: messages, slots and data of this run().  *)
Lost == {<<"message", t>> : t \in {s \in Tags : msg[s] = "mine"}}
   \cup {<<"slot", t>> : t \in {s \in InPorts : msg[s] = "slot"}}
   \cup {<<"data", t>> : t \in {s \in Tags : buf[s] = "mine"}}

DoEnd ==
  /\ Do("End")
  /\ todo' = << >>
  /\ IF T = "returned" THEN UNCHANGED <<state, lost>>
     ELSE state' = T /\ lost' = IF T = "stopped" THEN Lost ELSE {}
  /\ UNCHANGED <<fixed, run, seq, reader, data, got, sent, inside, queue, faults>>

Return ==
  /\ state = "running" /\ todo = << >>
  /\ state' = "returned" /\ lost' = Lost /\ run' = run + 1
  /\ UNCHANGED <<fixed, todo, seq, reader, data, got, sent, inside, queue, faults>>

NextRun ==
  /\ state = "returned" /\ run < MaxRuns
  /\ state' = "running" /\ todo' = Programs[class]
  /\ msg' = All("none") /\ buf' = All("none") /\ hdr' = All(-1) /\ content' = All(-1)
  /\ got' = All(Nothing) /\ lost' = {}
  /\ UNCHANGED <<fixed, run, seq, reader, sent, inside, queue, faults>>
-----------------------------------------------------------------------------
Channels(ports) == [ports -> {"raftlib", "copied"}]
Init ==
  /\ class \in Classes
  /\ inCh \in Channels(InPorts) /\ outCh \in Channels(OutPorts)
  /\ logging \in BOOLEAN
  /\ bag \in Bags /\ (class # "BagCamera" => bag = CHOOSE b \in Bags : TRUE)
  /\ folder \in Folders /\ (class # "ImgPlayer" => folder = CHOOSE f \in Folders : TRUE)
  /\ run = 0 /\ todo = Programs[class]
  /\ state = IF class = "BagCamera" THEN "opening" ELSE "running"
  /\ seq = 0
  /\ reader = [curMsg |-> bag.start, frameIndex |-> 0, cached |-> 0,
               nImgs |-> folder.listed, caching |-> folder.preload]
  /\ msg = All("none") /\ buf = All("none") /\ hdr = All(-1) /\ content = All(-1)
  /\ got = All(Nothing) /\ sent = All([hdr |-> -1, content |-> -1])
  /\ inside = << >> /\ queue = 0 /\ faults = {} /\ lost = {}

Next == \/ CacheFrame \/ Crash \/ DoPlace \/ GetLocal \/ GetNothing \/ GetCopied
        \/ GetArchive \/ DoRead \/ DoMake \/ ReadFails \/ DoWrite \/ DoHeader
        \/ DoCount \/ DoShare \/ DoSend \/ DoRelease \/ DoFree \/ DoEither \/ DoIf
        \/ DoReadImage \/ DoAtLast \/ DoQueue \/ App \/ DoCodec \/ DoEnd \/ Return
        \/ NextRun

Spec == Init /\ [][Next]_vars
-----------------------------------------------------------------------------
(* Types are not sent, yet a port with a deserializer, and the port of     *)
(* keys, accepts only messages of its own kind, complete within the bytes  *)
(* received; with one exception, a bare Frame of just the size that makes  *)
(* up for the larger object, on a port of encoded frames.                  *)
OnlyOwnKind ==
  \A t \in InPorts : got[t].kind # "none" =>
    /\ InPort(t).coder = "CODED" => Inside(got[t].bytes, Meta(t))
    /\ InPort(t).coder = "CODED" \/ InPort(t).type = "key" =>
         \/ got[t].kind = OwnKind(t)
         \/ /\ InPort(t).type = "encoded" /\ got[t].kind = "bareframe"
            /\ got[t].bytes.dataSize = FrameMeta - PtrMeta

(* What a kernel uses without owning it: three classes log what they have  *)
(* sent, NonDisplay releases pixels of another process, and a message      *)
(* shorter than the object is copied as if it were there, but then it is   *)
(* rejected.  A null pointer is used only by a kernel whose input was      *)
(* rejected or archive was none; the renderer survives whatever comes.     *)
(* BagCamera fails only for an image the bag was asked for and lacks: one  *)
(* of those to be cached, or, if none are, the next one to be sent.  With  *)
(* its frames cached it never fails, however long it runs.                 *)
Asked == bag.start + 1 .. bag.start + (IF bag.cache > 0 THEN bag.cache ELSE seq + 1)
BagLacks == \E i \in Asked : i > Len(bag.images) \/ bag.images[i] = "null"
BagHasOther == \E i \in Asked : i <= Len(bag.images) /\ bag.images[i] = "other"
OnlyKnownFaults ==
  /\ \A f \in faults :
       \/ /\ f[1] = "stale" /\ f[2] = "Log" /\ logging
          /\ class \in {"FrameEncoder", "NvmpiEncoder", "Keyboard"}
       \/ f[1] = "data" /\ f[2] = "Release" /\ class = "NonDisplay"
          /\ inCh["in_frame"] = "copied"
       \/ f[1] = "overread" /\ (msg[f[3]] = "null" \/ class = "SampleMarkerRenderer")
  /\ state = "crashed" =>
       \/ \E t \in InPorts : inCh[t] = "copied" /\ class # "SampleMarkerRenderer"
       \/ class = "BagCamera" /\ BagLacks
  /\ state = "exited" /\ class = "BagCamera" => BagHasOther

(* At the end of run() nothing is left of the inputs, and of the outputs   *)
(* only what was not sent: placeholders and their data.  Three things else *)
(* are lost: the pixels of frames sent as bare objects, the references of  *)
(* codec packets, and the pixels of a frame the renderer finds empty.      *)
LeaksOnlyUnsent ==
  \A l \in lost :
    \/ l[2] \in OutPorts /\ msg[l[2]] \in {"slot", "mine"}
    \/ /\ l[1] = "data" /\ l[2] \in OutPorts
       /\ outCh[l[2]] = "copied" /\ OutPort(l[2]).coder = "PLAIN"
    \/ l = <<"data", "packet">> /\ class \in {"FrameEncoder", "FrameDecoder"}
    \/ /\ l = <<"data", "in_frame">> /\ class = "SampleMarkerRenderer"
       /\ msg["out_frame"] = "none"

(* A message says which input or frame it is made of.  Sources number what *)
(* they send without gaps, and the number names the frame, for BagCamera   *)
(* modulo the cached frames.  ImgPlayer counts from 1 to the number of its *)
(* images and starts again, wherever it finds one missing.  The other      *)
(* kernels send messages made of their inputs in order, with the header of *)
(* the input of this run(): the right one unless the codec keeps frames    *)
(* back.                                                                   *)
FrameOf(n) == IF class = "BagCamera"
                THEN bag.start + IF Cached THEN n % reader.cached ELSE n
                ELSE n
(* The images ImgPlayer plays in turn; if there are none, an empty one.    *)
Lap == IF folder.preload \/ folder.listed <= folder.there THEN folder.listed
       ELSE IF folder.there = 0 THEN 1 ELSE folder.there
HeaderTells(t) ==
  LET s == sent'[t] IN
  IF class = "ImgPlayer"
    THEN /\ s.hdr = (IF sent[t].hdr \in {-1, Lap} THEN 1 ELSE sent[t].hdr + 1)
         /\ s.content = s.hdr - 1
  ELSE IF InPorts = {}
    THEN s.hdr = sent[t].hdr + 1 /\ s.content = FrameOf(s.hdr)
  ELSE /\ s.hdr = run /\ s.content > sent[t].content
       /\ IF inside = << >> THEN s.content = s.hdr ELSE s.content < s.hdr
HeaderOfInput == [][\A t \in OutPorts : sent'[t] # sent[t] => HeaderTells(t)]_vars
=============================================================================
