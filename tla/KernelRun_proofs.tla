-------------------------- MODULE KernelRun_proofs --------------------------
(* Of a kernel of any class of the catalog, for any sizes of objects and   *)
(* payloads, any channels, bags and delays of its codec: its ports take    *)
(* only messages of their own kind (PortsTakeTheirOwn), it uses nothing it *)
(* does not own but in the ways named (FaultsAreKnown), leaves behind only *)
(* what it has not sent (InputsAreFreed), and labels what it sends         *)
(* (HeadersTell).  The first is proved on its own; for the others the      *)
(* programs are gone through status by status (Safe, Closed), then the     *)
(* actions one by one (the lemmas ...Keeps of KernelInv).                  *)
EXTENDS KernelRun, MessageFormat_proofs, SequenceTheorems

(* What the ports of a kernel have in common: those with a deserializer    *)
(* are of three types.                                                     *)
KnownPorts(k) ==
  \A t \in DOMAIN k.in :
    /\ k.in[t].coder \in {"CODED", "PLAIN"}
    /\ k.in[t].coder = "CODED" => k.in[t].type \in {"frame", "encoded", "imus"}

LEMMA PortFields ==
  ASSUME NEW type, NEW coder, NEW sem
  PROVE  /\ Port(type, coder, sem).type = type
         /\ Port(type, coder, sem).coder = coder
BY DEF Port

LEMMA NoInPorts == ASSUME NEW out PROVE KnownPorts(Kernel(NoPorts, out))
BY DEF KnownPorts, Kernel, NoPorts

LEMMA OneInPort ==
  ASSUME NEW out
  PROVE  /\ KnownPorts(Kernel([in_frame |-> In("frame")], out))
         /\ KnownPorts(Kernel([in_frame |-> Plain("frame")], out))
         /\ KnownPorts(Kernel([in_encoded_frame |-> In("encoded")], out))
BY PortFields DEF KnownPorts, Kernel, In, Plain

LEMMA SeveralInPorts ==
  KnownPorts(OrbSlamPoseEstimator) /\ KnownPorts(SampleMarkerRenderer)
<1>1. KnownPorts(OrbSlamPoseEstimator)
  BY PortFields DEF KnownPorts, OrbSlamPoseEstimator, Kernel, In
<1>2. KnownPorts(SampleMarkerRenderer)
  BY PortFields DEF KnownPorts, SampleMarkerRenderer, Kernel, In, Poll
<1> QED
  BY <1>1, <1>2

(* The ports of the catalog, class by class.                               *)
LEMMA CatalogPorts == \A c \in DOMAIN Kernels : KnownPorts(Kernels[c])
<1>1. \A c \in DOMAIN SourceKernels : KnownPorts(SourceKernels[c])
  BY NoInPorts DEF SourceKernels, BagCamera, ImgPlayer, CVCamera,
                   EurocMonoInertialReader, Keyboard, Rgba2RgbAppSource
<1>2. \A c \in DOMAIN SinkKernels : KnownPorts(SinkKernels[c])
  BY OneInPort DEF SinkKernels, CVDisplay, Cv2GlRgbDisplay, NonDisplay,
                   Rgb2RgbaAppSink
<1>3. \A c \in DOMAIN IntermediateKernels : KnownPorts(IntermediateKernels[c])
  <2>1. /\ KnownPorts(FrameDecoder) /\ KnownPorts(FrameEncoder)
        /\ KnownPorts(NvmpiDecoder) /\ KnownPorts(NvmpiEncoder)
        /\ KnownPorts(FrameConverter)
    BY OneInPort DEF FrameDecoder, FrameEncoder, NvmpiDecoder, NvmpiEncoder,
                     FrameConverter
  <2>2. /\ KnownPorts(CudaOrbCamLocator) /\ KnownPorts(OrbCamLocator)
        /\ KnownPorts(ArUcoDetector) /\ KnownPorts(ArUcoCamLocator)
    BY OneInPort DEF CudaOrbCamLocator, OrbCamLocator, ArUcoDetector, ArUcoCamLocator
  <2> QED
    BY <2>1, <2>2, SeveralInPorts DEF IntermediateKernels
<1> QED
  <2>1. SUFFICES ASSUME NEW c \in DOMAIN Kernels PROVE KnownPorts(Kernels[c])
    OBVIOUS
  <2>2. CASE c \in DOMAIN SourceKernels
    BY <1>1, <2>2 DEF Kernels
  <2>3. CASE c \notin DOMAIN SourceKernels /\ c \in DOMAIN SinkKernels
    BY <1>2, <2>3 DEF Kernels
  <2>4. CASE c \notin DOMAIN SourceKernels /\ c \notin DOMAIN SinkKernels
    <3>1. c \in DOMAIN IntermediateKernels /\ Kernels[c] = IntermediateKernels[c]
      BY <2>4 DEF Kernels
    <3> QED
      BY <1>3, <3>1
  <2> QED
    BY <2>2, <2>3, <2>4

(* What a port accepts, by its deserializer or its type.                   *)
AcceptsOwn(t, w) ==
  /\ InPort(t).coder = "CODED" => Inside(w.bytes, Meta(t))
  /\ InPort(t).coder = "CODED" \/ InPort(t).type = "key" =>
       \/ w.kind = OwnKind(t)
       \/ /\ InPort(t).type = "encoded" /\ w.kind = "bareframe"
          /\ w.bytes.dataSize = FrameMeta - PtrMeta

LEMMA AcceptedIsOwn ==
  ASSUME class \in DOMAIN Kernels, NEW t \in InPorts, InPort(t).type # "imus",
         NEW w \in Messages(Sizes), Accepts(t, w.bytes)
  PROVE  AcceptsOwn(t, w)
<1>1. /\ InPort(t).coder \in {"CODED", "PLAIN"}
      /\ InPort(t).coder = "CODED" => InPort(t).type \in {"frame", "encoded"}
  BY CatalogPorts DEF KnownPorts, InPorts, InPort
<1>2. CASE InPort(t).coder = "CODED" /\ InPort(t).type = "frame"
  <2>1. deserializeRawFrame(w.bytes) /\ Meta(t) = FrameMeta /\ OwnKind(t) = "frame"
    BY <1>2 DEF Accepts, Meta, OwnKind
  <2>2. w.kind = "frame" /\ Inside(w.bytes, FrameMeta)
    BY <2>1, RawFramesOnly, RunAssumption
  <2> QED
    BY <2>1, <2>2 DEF AcceptsOwn
<1>3. CASE InPort(t).coder = "CODED" /\ InPort(t).type = "encoded"
  <2>1. /\ deserializeEncodedFrame(w.bytes)
        /\ Meta(t) = PtrMeta /\ OwnKind(t) = "encoded"
    BY <1>3 DEF Accepts, Meta, OwnKind
  <2>2. /\ \/ w.kind = "encoded"
           \/ w.kind = "bareframe" /\ w.bytes.dataSize = FrameMeta - PtrMeta
        /\ Inside(w.bytes, PtrMeta)
    BY <2>1, EncodedFramesOnly, RunAssumption
  <2> QED
    BY <1>3, <2>1, <2>2 DEF AcceptsOwn
<1>4. CASE InPort(t).coder = "PLAIN" /\ InPort(t).type = "key"
  <2>1. AcceptPlain(w.bytes, KeyMeta) /\ OwnKind(t) = "key"
    BY <1>4 DEF Accepts, Meta, OwnKind
  <2>2. w.kind = "key"
    BY <2>1, PlainSizes, RunAssumption
  <2> QED
    BY <1>4, <2>1, <2>2 DEF AcceptsOwn
<1>5. CASE InPort(t).coder = "PLAIN" /\ InPort(t).type # "key"
  BY <1>5 DEF AcceptsOwn
<1> QED
  BY <1>1, <1>2, <1>3, <1>4, <1>5

(* got is a table of what the in-ports accepted.                           *)
KindInv == /\ class \in DOMAIN Kernels
           /\ DOMAIN got = Tags
           /\ \A t \in InPorts : got[t].kind # "none" => AcceptsOwn(t, got[t])

LEMMA FreshKinds ==
  ASSUME class \in DOMAIN Kernels, got = All(Nothing)
  PROVE  KindInv
<1>1. Nothing.kind = "none"
  BY DEF Nothing
<1> QED
  BY <1>1 DEF KindInv, All, Tags

(* Nothing but got and class matters, and the class stays.                 *)
LEMMA SameClass ==
  ASSUME UNCHANGED class
  PROVE  /\ InPorts' = InPorts /\ Tags' = Tags
         /\ \A t, w : AcceptsOwn(t, w)' <=> AcceptsOwn(t, w)
<1>1. InPorts' = InPorts /\ Tags' = Tags
  BY DEF InPorts, OutPorts, Tags
<1>2. \A t : InPort(t)' = InPort(t)
  BY DEF InPort
<1>3. \A t : Meta(t)' = Meta(t) /\ OwnKind(t)' = OwnKind(t)
  BY <1>2 DEF Meta, OwnKind
<1>4. \A t, w : AcceptsOwn(t, w)' <=> AcceptsOwn(t, w)
  BY <1>2, <1>3 DEF AcceptsOwn
<1> QED
  BY <1>1, <1>4

LEMMA SameKinds ==
  ASSUME KindInv, UNCHANGED <<class, got>>
  PROVE  KindInv'
BY SameClass DEF KindInv

LEMMA TakesOwnKind ==
  ASSUME KindInv, GetCopied
  PROVE  KindInv'
<1>1. UNCHANGED class /\ InPort(T).type # "imus"
  BY DEF GetCopied, fixed
<1>2. PICK w \in Messages(Sizes) :
        \/ Accepts(T, w.bytes) /\ got' = [got EXCEPT ![T] = w]
        \/ UNCHANGED got
  BY DEF GetCopied
<1>3. CASE Accepts(T, w.bytes) /\ got' = [got EXCEPT ![T] = w]
  <2>1. T \in InPorts => AcceptsOwn(T, w)
    BY <1>1, <1>3, AcceptedIsOwn DEF KindInv
  <2>2. DOMAIN got' = Tags
    BY <1>3 DEF KindInv
  <2>3. ASSUME NEW t \in InPorts, got'[t].kind # "none"
        PROVE  AcceptsOwn(t, got'[t])
    <3>1. t \in DOMAIN got
      BY DEF KindInv, Tags
    <3>2. CASE t = T
      BY <1>3, <2>1, <3>1, <3>2
    <3>3. CASE t # T
      BY <1>3, <2>3, <3>1, <3>3 DEF KindInv
    <3> QED
      BY <3>2, <3>3
  <2> QED
    BY <1>1, <2>2, <2>3, SameClass DEF KindInv
<1>4. CASE UNCHANGED got
  BY <1>1, <1>4, SameKinds
<1> QED
  BY <1>2, <1>3, <1>4

LEMMA NextRunForgets ==
  ASSUME KindInv, NextRun
  PROVE  KindInv'
<1>1. UNCHANGED class /\ got' = All(Nothing)
  BY DEF NextRun, fixed
<1>2. DOMAIN got' = Tags /\ \A t \in InPorts : got'[t].kind = "none"
  BY <1>1 DEF All, Nothing, Tags
<1> QED
  BY <1>1, <1>2, SameClass DEF KindInv

(* A port accepts its own kind only, whatever kinds and sizes of messages  *)
(* arrive on it, for all classes and sizes.                                *)
THEOREM PortsTakeTheirOwn == Spec => []OnlyOwnKind
<1>1. Init => KindInv
  BY FreshKinds, RunAssumption DEF Init
<1>2. KindInv /\ [Next]_vars => KindInv'
  <2>1. SUFFICES ASSUME KindInv, [Next]_vars PROVE KindInv'
    OBVIOUS
  <2>2. CASE GetCopied
    BY <2>1, <2>2, TakesOwnKind
  <2>3. CASE NextRun
    BY <2>1, <2>3, NextRunForgets
  <2>4. CASE Crash \/ DoPlace \/ GetLocal \/ GetNothing \/ GetArchive \/ DoRead
    <3>1. UNCHANGED <<class, got>>
      BY <2>4 DEF Crash, DoPlace, GetLocal, GetNothing, GetArchive, DoRead, fixed
    <3> QED
      BY <2>1, <3>1, SameKinds
  <2>5. CASE DoMake \/ ReadFails \/ DoWrite \/ DoHeader \/ DoCount \/ DoShare
    <3>1. UNCHANGED <<class, got>>
      BY <2>5 DEF DoMake, ReadFails, DoWrite, DoHeader, DoCount, DoShare, fixed
    <3> QED
      BY <2>1, <3>1, SameKinds
  <2>6. CASE DoSend \/ DoRelease \/ DoFree \/ DoEither \/ DoIf
    <3>1. UNCHANGED <<class, got>>
      BY <2>6 DEF DoSend, DoRelease, DoFree, DoEither, DoIf, Choose, fixed
    <3> QED
      BY <2>1, <3>1, SameKinds
  <2>8. CASE CacheFrame \/ DoReadImage \/ DoAtLast
    <3>1. UNCHANGED <<class, got>>
      BY <2>8 DEF CacheFrame, DoReadImage, DoAtLast, fixed
    <3> QED
      BY <2>1, <3>1, SameKinds
  <2>7. CASE DoQueue \/ App \/ DoCodec \/ DoEnd \/ Return \/ UNCHANGED vars
    <3>1. UNCHANGED <<class, got>>
      BY <2>7 DEF DoQueue, App, DoCodec, DoEnd, Return, vars, fixed
    <3> QED
      BY <2>1, <3>1, SameKinds
  <2> QED
    BY <2>1, <2>2, <2>3, <2>4, <2>5, <2>6, <2>7, <2>8 DEF Next
<1>3. KindInv => OnlyOwnKind
  BY DEF KindInv, AcceptsOwn, OnlyOwnKind
<1> QED
  BY <1>1, <1>2, <1>3, PTL DEF Spec
-----------------------------------------------------------------------------
(* What a kernel may do with a message, port by port.  A port has a status *)
(* in the run() at hand: how far its message has come.  Of an in-port it   *)
(* is the status of its input,                                             *)
(*   fresh (not taken), got (taken, perhaps null), here (and not null),    *)
(*   absent (null), lent (the renderer has a placeholder for it), empty    *)
(*   (its data released or handed on), done (freed), left (freed with its  *)
(*   data where they are),                                                 *)
(* of an out-port the status of its message, and the number of times run() *)
(* has counted:                                                            *)
(*   fresh, placed, chosen (it is known which image it will be), titled    *)
(*   (it has its header), filled (it has its content), ready (both), given *)
(*   (sendOutput has had it), spent (the codec gives nothing in this       *)
(*   run()); ImgPlayer counts a second time, when it has asked whether     *)
(*   that was the last image,                                              *)
(* and "queue" stands for what run() knows of the application's queue.     *)
Renderer      == "SampleMarkerRenderer"
CodecClasses  == {"FrameEncoder", "FrameDecoder", "NvmpiDecoder"}
PacketClasses == {"FrameEncoder", "FrameDecoder"}
LogsSent      == {"FrameEncoder", "NvmpiEncoder", "Keyboard"}
AppClasses    == {"Rgba2RgbAppSource", "Rgb2RgbaAppSink"}
InOf(c)  == DOMAIN Kernels[c].in
OutOf(c) == DOMAIN Kernels[c].out
HasData(c, p) == Kernels[c].in[p].type \in {"frame", "encoded"}
Tracked(c) == InOf(c) \cup OutOf(c) \cup IF c \in AppClasses THEN {"queue"} ELSE {}

(* The steps a class may take at all.                                      *)
From(c, u) == \/ u = "own" /\ InOf(c) = {}
              \/ u = "codec" /\ c \in CodecClasses
              \/ u \in InOf(c) /\ c \notin CodecClasses
Takes(c, x) ==
  \/ x.op \in {"Get", "Release", "Free", "IfThere"} /\ x.t \in InOf(c) /\ x.u = ""
  \/ x.op \in {"Place", "Send"} /\ x.t \in OutOf(c) /\ x.u = ""
  \/ x.op \in {"Use", "Pixels", "Log"} /\ x.t \in InOf(c) \cup OutOf(c) /\ x.u = ""
  \/ x.op \in {"Make", "Write"} /\ x.t \in OutOf(c) /\ From(c, x.u)
  \/ x.op = "Make" /\ x.t = "packet" /\ x.u = "codec" /\ c \in PacketClasses
  \/ /\ x.op = "Header" /\ x.t \in OutOf(c)
     /\ (x.u = "own" /\ InOf(c) = {}) \/ x.u \in InOf(c)
  \/ x.op = "Share" /\ x.t \in OutOf(c) /\ x.u \in InOf(c) /\ c \notin CodecClasses
  \/ x.op = "Codec" /\ x.t \in OutOf(c) /\ x.u \in InOf(c) /\ c \in CodecClasses
  \/ x.op = "Count" /\ InOf(c) = {}
  \/ x.op \in {"ReadImage", "AtLast"} /\ c = "ImgPlayer" /\ x.t = "" /\ x.u = ""
  \/ x.op = "Either"
  \/ /\ x.op \in {"IfRoom", "Enqueue"} /\ c = "Rgb2RgbaAppSink"
     /\ x.t = "" /\ x.u = ""
  \/ /\ x.op \in {"IfElement", "Dequeue"} /\ c = "Rgba2RgbAppSource"
     /\ x.t = "" /\ x.u = ""
  \/ /\ x.op = "End"
     /\ \/ x.t = "returned" \/ (x.t = "exited" /\ c # "BagCamera")
        \/ x.t = "stopped" /\ InOf(c) = {}

(* What a step x may find, and what it leaves, of an in-port p.            *)
InAllowed(c, p, x, s) ==
  /\ p \in {x.t, x.u} =>
       \/ x.op = "Get" /\ s = "fresh"
       \/ x.op = "IfThere" /\ s = "got"
       \/ x.op = "Free" /\ \/ s = "empty"
                           \/ s = "here" /\ ~HasData(c, p)
                           \/ s = "here" /\ c = Renderer /\ p = "in_frame"
                           \/ s = "got" /\ ~HasData(c, p) /\ c = Renderer
                           \/ s = "absent" /\ c = Renderer
       \/ x.op = "Log" /\ s \in {"got", "here"} /\ c # Renderer
       \/ /\ x.op \notin {"Get", "IfThere", "Free", "Log"}
          /\ s \in {"here", "lent"} \/ (s = "got" /\ c # Renderer)
          /\ x.op = "Pixels" => c # "NonDisplay"
  /\ x.op = "Place" /\ c = Renderer /\ p = "in_frame" => s = "here"
InThen(c, p, x, s) ==
  IF p \notin {x.t, x.u}
    THEN IF x.op = "Place" /\ c = Renderer /\ p = "in_frame" THEN "lent" ELSE s
  ELSE IF x.op = "Get" THEN "got"
  ELSE IF x.op \in {"Release", "Share"} THEN "empty"
  ELSE IF x.op = "Free" THEN IF s = "here" /\ HasData(c, p) THEN "left" ELSE "done"
  ELSE IF x.op # "Log" /\ s = "got" THEN "here" ELSE s

(* The same of an out-port.                                                *)
Filled(name) == IF name = "titled" THEN "ready"
                ELSE IF name \in {"placed", "chosen"} THEN "filled" ELSE name
Titled(name) == IF name = "filled" THEN "ready"
                ELSE IF name = "placed" THEN "titled" ELSE name
OwnsMessage(s) == s[1] \in {"placed", "titled", "filled", "ready"}
Unfilled(c) == IF c = "ImgPlayer" THEN {"chosen"} ELSE {"placed", "titled"}
OutAllowed(c, p, x, s) ==
  /\ p # x.u
  /\ x.op = "Count" => s[2] = 0 /\ (c = "ImgPlayer" => s = <<"filled", 0>>)
  /\ x.op = "ReadImage" => s = <<"placed", 0>>
  /\ x.op = "AtLast" => s = <<"given", 1>>
  /\ x.op = "Codec" \/ (x.op = "Make" /\ c \in {"BagCamera", "ImgPlayer"}) => x.t = p
  /\ x.t = p =>
       \/ x.op = "Place" /\ s[1] = "fresh" /\ (c = "ImgPlayer" => s = <<"fresh", 0>>)
       \/ x.op = "Codec" /\ s[1] \in {"placed", "titled"}
       \/ /\ x.op \in {"Make", "Write", "Share"} /\ s[1] \in Unfilled(c)
          /\ x.u = "own" => s[2] = 0
          /\ x.op = "Write" => c \notin {"BagCamera", "ImgPlayer"}
       \/ x.op = "Make" /\ x.u = "codec" /\ OwnsMessage(s)
       \/ /\ x.op = "Header" /\ s[1] \in {"placed", "filled"}
          /\ x.u = "own" => s[2] = IF c = "ImgPlayer" THEN 1 ELSE 0
          /\ c = "ImgPlayer" => s = <<"filled", 1>>
       \/ x.op \in {"Use", "Pixels"} /\ OwnsMessage(s)
       \/ x.op = "Send" /\ s[1] = "ready" /\ (c = "ImgPlayer" => s[2] = 1)
       \/ x.op = "Log" /\ s[1] = "given" /\ c \in LogsSent
OutThen(c, p, x, s) ==
  IF x.op = "Count" THEN <<s[1], 1>>
  ELSE IF x.t # p THEN s
  ELSE IF x.op = "Place" THEN <<"placed", s[2]>>
  ELSE IF x.op = "Codec" \/ (x.op \in {"Make", "Write", "Share"} /\ x.u # "codec")
    THEN <<Filled(s[1]), s[2]>>
  ELSE IF x.op = "Header" THEN <<Titled(s[1]), s[2]>>
  ELSE IF x.op = "Send" THEN <<"given", s[2]>>
  ELSE s

Allowed(c, p, x, s) ==
  /\ Takes(c, x)
  /\ p \in InOf(c) => InAllowed(c, p, x, s)
  /\ p \in OutOf(c) => OutAllowed(c, p, x, s)
  /\ p = "queue" /\ x.op \in {"Enqueue", "Dequeue"} => s = "open"
Then(c, p, x, s) ==
  IF p \in InOf(c) THEN InThen(c, p, x, s)
  ELSE IF p \in OutOf(c) THEN OutThen(c, p, x, s)
  ELSE IF x.op \in {"Enqueue", "Dequeue"} THEN "shut" ELSE s

(* What may be left to do, and in which status, once the first step of q   *)
(* is done.                                                                *)
Nexts(c, p, q, s) ==
  LET x == Head(q)
      r == Tail(q)
  IN IF x.op = "Either" THEN {<<x.then \o r, s>>, <<x.else \o r, s>>}
     ELSE IF x.op \in {"IfElement", "IfRoom"}
       THEN {<<x.then \o r, IF p = "queue" THEN "open" ELSE s>>, <<<< >> \o r, s>>}
     ELSE IF x.op = "IfThere"
       THEN {<<x.then \o r, IF x.t = p THEN "here" ELSE s>>,
             <<<< >> \o r, IF x.t = p THEN "absent" ELSE s>>}
     ELSE IF x.op = "Codec"
       THEN {<<x.then \o r, Then(c, p, x, s)>>,
             <<r, IF x.t = p THEN <<"spent", s[2]>> ELSE Then(c, p, x, s)>>}
     ELSE IF x.op = "ReadImage" THEN {<<x.then \o r, s>>, <<r, <<"chosen", s[2]>>>>}
     ELSE IF x.op = "AtLast" THEN {<<x.then \o r, s>>, <<r, <<s[1], 2>>>>}
     ELSE IF x.op = "End" THEN IF x.t = "returned" THEN {<< << >>, s>>} ELSE {}
     ELSE {<<r, Then(c, p, x, s)>>}

(* How run() may leave a port.                                             *)
Final(c, p, s) ==
  /\ p \in InOf(c) => \/ s = "done"
                      \/ s = "left" /\ c = Renderer /\ p = "in_frame"
  /\ p \in OutOf(c) => IF c = "ImgPlayer" THEN s = <<"given", 2>>
                       ELSE IF InOf(c) = {} THEN s \in {<<"fresh", 0>>, <<"given", 1>>}
                       ELSE s[2] = 0
Fresh(c, p) == IF p \in InOf(c) THEN "fresh"
               ELSE IF p \in OutOf(c) THEN <<"fresh", 0>> ELSE "shut"

(* From status s on, q does with port p only what is allowed, and leaves   *)
(* it as it may be left, whichever branches it takes.                      *)
Closed(c, p, S) ==
  \A z \in S :
    /\ z = <<z[1], z[2]>>
    /\ IF z[1] = << >> THEN Final(c, p, z[2])
       ELSE /\ Allowed(c, p, Head(z[1]), z[2])
            /\ Nexts(c, p, z[1], z[2]) \subseteq S
Safe(c, p, q, s) == \E S : Closed(c, p, S) /\ <<q, s>> \in S

LEMMA Ended == ASSUME NEW c, NEW p, NEW s, Final(c, p, s) PROVE Safe(c, p, << >>, s)
<1>1. Closed(c, p, {<< << >>, s>>})
  BY DEF Closed
<1> QED
  BY <1>1 DEF Safe

LEMMA BothClosed ==
  ASSUME NEW c, NEW p, NEW S1, NEW S2, Closed(c, p, S1), Closed(c, p, S2)
  PROVE  Closed(c, p, S1 \cup S2)
BY DEF Closed

(* A step is safe if what may follow it is.                                *)
LEMMA OneMore ==
  ASSUME NEW c, NEW p, NEW q, NEW s, NEW S, Closed(c, p, S), q # << >>,
         Allowed(c, p, Head(q), s), Nexts(c, p, q, s) \subseteq S
  PROVE  Safe(c, p, q, s)
<1> DEFINE R == S \cup {<<q, s>>}
<1>1. Closed(c, p, R)
  BY DEF Closed
<1> QED
  BY <1>1 DEF Safe

LEMMA TwoMore ==
  ASSUME NEW c, NEW p, NEW q, NEW s, NEW q1, NEW s1, NEW q2, NEW s2,
         q # << >>, Allowed(c, p, Head(q), s),
         Nexts(c, p, q, s) \subseteq {<<q1, s1>>, <<q2, s2>>},
         Safe(c, p, q1, s1), Safe(c, p, q2, s2)
  PROVE  Safe(c, p, q, s)
<1>1. PICK S1 : Closed(c, p, S1) /\ <<q1, s1>> \in S1
  BY DEF Safe
<1>2. PICK S2 : Closed(c, p, S2) /\ <<q2, s2>> \in S2
  BY DEF Safe
<1>3. Closed(c, p, S1 \cup S2) /\ Nexts(c, p, q, s) \subseteq S1 \cup S2
  BY <1>1, <1>2, BothClosed
<1> QED
  BY <1>3, OneMore

Branching == {"Either", "IfElement", "IfRoom", "IfThere", "ReadImage", "AtLast", "Codec",
              "End"}
Goes(c, p, x, s, s2) ==
  x.op \notin Branching /\ Allowed(c, p, x, s) /\ Then(c, p, x, s) = s2

LEMMA FirstStep ==
  ASSUME NEW c, NEW p, NEW q, NEW s, NEW s2, q # << >>,
         Goes(c, p, Head(q), s, s2), Safe(c, p, Tail(q), s2)
  PROVE  Safe(c, p, q, s)
<1>1. Nexts(c, p, q, s) = {<<Tail(q), s2>>}
  BY DEF Nexts, Goes, Branching
<1> QED
  BY <1>1, TwoMore DEF Goes

(* Sequences of several steps, written out.                                *)
LEMMA Cons1 ==
  ASSUME NEW c, NEW p, NEW s, NEW s2, NEW x1,
         Goes(c, p, x1, s, s2), Safe(c, p, << >>, s2)
  PROVE  Safe(c, p, <<x1>>, s)
<1>1. Head(<<x1>>) = x1 /\ Tail(<<x1>>) = << >> /\ <<x1>> # << >>
  OBVIOUS
<1> QED
  BY <1>1, FirstStep

LEMMA Cons2 ==
  ASSUME NEW c, NEW p, NEW s, NEW s2, NEW x1, NEW x2,
         Goes(c, p, x1, s, s2), Safe(c, p, <<x2>>, s2)
  PROVE  Safe(c, p, <<x1, x2>>, s)
<1>1. Head(<<x1, x2>>) = x1 /\ Tail(<<x1, x2>>) = <<x2>> /\ <<x1, x2>> # << >>
  OBVIOUS
<1> QED
  BY <1>1, FirstStep

LEMMA Cons3 ==
  ASSUME NEW c, NEW p, NEW s, NEW s2, NEW x1, NEW x2, NEW x3,
         Goes(c, p, x1, s, s2), Safe(c, p, <<x2, x3>>, s2)
  PROVE  Safe(c, p, <<x1, x2, x3>>, s)
<1>1. /\ Head(<<x1, x2, x3>>) = x1
      /\ Tail(<<x1, x2, x3>>)
           = <<x2, x3>>
      /\ <<x1, x2, x3>> # << >>
  OBVIOUS
<1> QED
  BY <1>1, FirstStep

LEMMA Cons4 ==
  ASSUME NEW c, NEW p, NEW s, NEW s2, NEW x1, NEW x2, NEW x3, NEW x4,
         Goes(c, p, x1, s, s2), Safe(c, p, <<x2, x3, x4>>, s2)
  PROVE  Safe(c, p, <<x1, x2, x3, x4>>, s)
<1>1. /\ Head(<<x1, x2, x3, x4>>) = x1
      /\ Tail(<<x1, x2, x3, x4>>)
           = <<x2, x3, x4>>
      /\ <<x1, x2, x3, x4>> # << >>
  OBVIOUS
<1> QED
  BY <1>1, FirstStep

LEMMA Cons5 ==
  ASSUME NEW c, NEW p, NEW s, NEW s2, NEW x1, NEW x2, NEW x3, NEW x4, NEW x5,
         Goes(c, p, x1, s, s2), Safe(c, p, <<x2, x3, x4, x5>>, s2)
  PROVE  Safe(c, p, <<x1, x2, x3, x4, x5>>, s)
<1>1. /\ Head(<<x1, x2, x3, x4, x5>>) = x1
      /\ Tail(<<x1, x2, x3, x4, x5>>)
           = <<x2, x3, x4, x5>>
      /\ <<x1, x2, x3, x4, x5>> # << >>
  OBVIOUS
<1> QED
  BY <1>1, FirstStep

LEMMA Cons6 ==
  ASSUME NEW c, NEW p, NEW s, NEW s2, NEW x1, NEW x2, NEW x3, NEW x4, NEW x5, NEW x6,
         Goes(c, p, x1, s, s2), Safe(c, p, <<x2, x3, x4, x5, x6>>, s2)
  PROVE  Safe(c, p, <<x1, x2, x3, x4, x5, x6>>, s)
<1>1. /\ Head(<<x1, x2, x3, x4, x5, x6>>) = x1
      /\ Tail(<<x1, x2, x3, x4, x5, x6>>)
           = <<x2, x3, x4, x5, x6>>
      /\ <<x1, x2, x3, x4, x5, x6>> # << >>
  OBVIOUS
<1> QED
  BY <1>1, FirstStep

LEMMA Cons7 ==
  ASSUME NEW c, NEW p, NEW s, NEW s2,
         NEW x1, NEW x2, NEW x3, NEW x4, NEW x5, NEW x6, NEW x7,
         Goes(c, p, x1, s, s2), Safe(c, p, <<x2, x3, x4, x5, x6, x7>>, s2)
  PROVE  Safe(c, p, <<x1, x2, x3, x4, x5, x6, x7>>, s)
<1>1. /\ Head(<<x1, x2, x3, x4, x5, x6, x7>>) = x1
      /\ Tail(<<x1, x2, x3, x4, x5, x6, x7>>)
           = <<x2, x3, x4, x5, x6, x7>>
      /\ <<x1, x2, x3, x4, x5, x6, x7>> # << >>
  OBVIOUS
<1> QED
  BY <1>1, FirstStep

LEMMA Cons8 ==
  ASSUME NEW c, NEW p, NEW s, NEW s2,
         NEW x1, NEW x2, NEW x3, NEW x4, NEW x5, NEW x6, NEW x7,
         NEW x8,
         Goes(c, p, x1, s, s2), Safe(c, p, <<x2, x3, x4, x5, x6, x7, x8>>, s2)
  PROVE  Safe(c, p, <<x1, x2, x3, x4, x5, x6, x7, x8>>, s)
<1>1. /\ Head(<<x1, x2, x3, x4, x5, x6, x7, x8>>) = x1
      /\ Tail(<<x1, x2, x3, x4, x5, x6, x7, x8>>)
           = <<x2, x3, x4, x5, x6, x7, x8>>
      /\ <<x1, x2, x3, x4, x5, x6, x7, x8>> # << >>
  OBVIOUS
<1> QED
  BY <1>1, FirstStep

LEMMA Cons9 ==
  ASSUME NEW c, NEW p, NEW s, NEW s2,
         NEW x1, NEW x2, NEW x3, NEW x4, NEW x5, NEW x6, NEW x7,
         NEW x8, NEW x9,
         Goes(c, p, x1, s, s2), Safe(c, p, <<x2, x3, x4, x5, x6, x7, x8, x9>>, s2)
  PROVE  Safe(c, p, <<x1, x2, x3, x4, x5, x6, x7, x8, x9>>, s)
<1>1. /\ Head(<<x1, x2, x3, x4, x5, x6, x7, x8, x9>>) = x1
      /\ Tail(<<x1, x2, x3, x4, x5, x6, x7, x8, x9>>)
           = <<x2, x3, x4, x5, x6, x7, x8, x9>>
      /\ <<x1, x2, x3, x4, x5, x6, x7, x8, x9>> # << >>
  OBVIOUS
<1> QED
  BY <1>1, FirstStep

LEMMA Cons10 ==
  ASSUME NEW c, NEW p, NEW s, NEW s2,
         NEW x1, NEW x2, NEW x3, NEW x4, NEW x5, NEW x6, NEW x7,
         NEW x8, NEW x9, NEW x10,
         Goes(c, p, x1, s, s2), Safe(c, p, <<x2, x3, x4, x5, x6, x7, x8, x9, x10>>, s2)
  PROVE  Safe(c, p, <<x1, x2, x3, x4, x5, x6, x7, x8, x9, x10>>, s)
<1>1. /\ Head(<<x1, x2, x3, x4, x5, x6, x7, x8, x9, x10>>) = x1
      /\ Tail(<<x1, x2, x3, x4, x5, x6, x7, x8, x9, x10>>)
           = <<x2, x3, x4, x5, x6, x7, x8, x9, x10>>
      /\ <<x1, x2, x3, x4, x5, x6, x7, x8, x9, x10>> # << >>
  OBVIOUS
<1> QED
  BY <1>1, FirstStep

LEMMA Cons11 ==
  ASSUME NEW c, NEW p, NEW s, NEW s2,
         NEW x1, NEW x2, NEW x3, NEW x4, NEW x5, NEW x6, NEW x7,
         NEW x8, NEW x9, NEW x10, NEW x11,
         Goes(c, p, x1, s, s2), Safe(c, p, <<x2, x3, x4, x5, x6, x7, x8, x9, x10, x11>>, s2)
  PROVE  Safe(c, p, <<x1, x2, x3, x4, x5, x6, x7, x8, x9, x10, x11>>, s)
<1>1. /\ Head(<<x1, x2, x3, x4, x5, x6, x7, x8, x9, x10, x11>>) = x1
      /\ Tail(<<x1, x2, x3, x4, x5, x6, x7, x8, x9, x10, x11>>)
           = <<x2, x3, x4, x5, x6, x7, x8, x9, x10, x11>>
      /\ <<x1, x2, x3, x4, x5, x6, x7, x8, x9, x10, x11>> # << >>
  OBVIOUS
<1> QED
  BY <1>1, FirstStep

(* The other steps, a branch each.                                         *)
Known(c, p) == p \in Tracked(c) /\ p \notin {"", "packet", "own", "codec", "returned", "exited", "stopped"}

LEMMA AlwaysAllowed ==
  ASSUME NEW c, NEW p, NEW s, NEW x, Known(c, p), Takes(c, x), x.t # p, x.u # p,
         x.op \notin {"Place", "Make", "Count", "Codec", "Enqueue", "Dequeue",
                      "ReadImage", "AtLast"}
  PROVE  Allowed(c, p, x, s)
<1>1. InAllowed(c, p, x, s)
  BY DEF InAllowed
<1>2. OutAllowed(c, p, x, s)
  BY DEF OutAllowed
<1> QED
  BY <1>1, <1>2 DEF Allowed

LEMMA EitherStep ==
  ASSUME NEW c, NEW p, NEW s, NEW q, NEW a, NEW b, Known(c, p), q # << >>,
         Head(q) = Either(a, b), Safe(c, p, a \o Tail(q), s), Safe(c, p, b \o Tail(q), s)
  PROVE  Safe(c, p, q, s)
<1>1. PICK x : x = Either(a, b)
  OBVIOUS
<1>2. x.op = "Either" /\ x.t = "" /\ x.u = "" /\ x.then = a /\ x.else = b
  BY <1>1 DEF Either, Branch
<1>3. Allowed(c, p, x, s)
  BY <1>2, AlwaysAllowed DEF Takes, Known
<1>4. Head(q) = x
  BY <1>1
<1>5. Nexts(c, p, q, s) = {<<a \o Tail(q), s>>, <<b \o Tail(q), s>>}
  BY <1>2, <1>4 DEF Nexts
<1> QED
  BY <1>3, <1>4, <1>5, TwoMore

LEMMA EndStep ==
  ASSUME NEW c, NEW p, NEW s, NEW q, NEW how, Known(c, p), q # << >>,
         Head(q) = End(how),
         \/ how = "returned" /\ Final(c, p, s)
         \/ how = "exited" /\ c # "BagCamera"
         \/ how = "stopped" /\ InOf(c) = {}
  PROVE  Safe(c, p, q, s)
<1>1. PICK x : x = End(how)
  OBVIOUS
<1>2. x.op = "End" /\ x.t = how /\ x.u = ""
  BY <1>1 DEF End, Step
<1>3. Head(q) = x
  BY <1>1
<1>4. Allowed(c, p, x, s)
  BY <1>2, AlwaysAllowed DEF Takes, Known
<1>5. Nexts(c, p, q, s) = IF how = "returned" THEN {<< << >>, s>>} ELSE {}
  BY <1>2, <1>3 DEF Nexts
<1>6. CASE how = "returned"
  BY <1>3, <1>4, <1>5, <1>6, Ended, TwoMore
<1>7. CASE how # "returned"
  BY <1>3, <1>4, <1>5, <1>7, OneMore DEF Closed
<1> QED
  BY <1>6, <1>7

(* Sequences put together.                                                 *)
LEMMA Join ==
  ASSUME NEW S, NEW s \in Seq(S), NEW t \in Seq(S), NEW u \in Seq(S),
         Len(u) = Len(s) + Len(t), \A i \in 1..Len(s) : u[i] = s[i],
         \A i \in 1..Len(t) : u[Len(s) + i] = t[i]
  PROVE  s \o t = u
<1>1. /\ s \o t \in Seq(S) /\ Len(s \o t) = Len(u)
      /\ \A i \in 1..Len(u) : (s \o t)[i] = IF i <= Len(s) THEN s[i] ELSE t[i - Len(s)]
  BY ConcatProperties
<1>2. ASSUME NEW i \in 1..Len(u) PROVE (s \o t)[i] = u[i]
  <2>1. CASE i <= Len(s)
    BY <1>1, <2>1
  <2>2. CASE i > Len(s)
    <3>1. i - Len(s) \in 1..Len(t) /\ Len(s) + (i - Len(s)) = i
      BY <2>2
    <3>2. u[Len(s) + (i - Len(s))] = t[i - Len(s)]
      BY <3>1
    <3> QED
      BY <1>1, <2>2, <3>1, <3>2
  <2> QED
    BY <2>1, <2>2
<1> QED
  BY <1>1, <1>2, SeqEqual

LEMMA Join2and1 ==
  ASSUME NEW x1, NEW x2, NEW y1
  PROVE  <<x1, x2>> \o <<y1>> = <<x1, x2, y1>>
<1> DEFINE S == {x1, x2, y1}
           s == <<x1, x2>>
           t == <<y1>>
           u == <<x1, x2, y1>>
<1>1. /\ s \in Seq(S) /\ Len(s) = 2 /\ t \in Seq(S) /\ Len(t) = 1
      /\ u \in Seq(S) /\ Len(u) = 3
  OBVIOUS
<1>2. \A i \in 1..2 : u[i] = s[i]
  OBVIOUS
<1>3. \A i \in 1..1 : u[2 + i] = t[i]
  OBVIOUS
<1> HIDE DEF S, s, t, u
<1>4. /\ Len(u) = Len(s) + Len(t) /\ \A i \in 1..Len(s) : u[i] = s[i]
      /\ \A i \in 1..Len(t) : u[Len(s) + i] = t[i]
  BY <1>1, <1>2, <1>3
<1>5. s \o t = u
  BY <1>1, <1>4, Join
<1> QED
  BY <1>5 DEF s, t, u

LEMMA Join2and2 ==
  ASSUME NEW x1, NEW x2, NEW y1, NEW y2
  PROVE  <<x1, x2>> \o <<y1, y2>> = <<x1, x2, y1, y2>>
<1> DEFINE S == {x1, x2, y1, y2}
           s == <<x1, x2>>
           t == <<y1, y2>>
           u == <<x1, x2, y1, y2>>
<1>1. /\ s \in Seq(S) /\ Len(s) = 2 /\ t \in Seq(S) /\ Len(t) = 2
      /\ u \in Seq(S) /\ Len(u) = 4
  OBVIOUS
<1>2. \A i \in 1..2 : u[i] = s[i]
  OBVIOUS
<1>3. \A i \in 1..2 : u[2 + i] = t[i]
  OBVIOUS
<1> HIDE DEF S, s, t, u
<1>4. /\ Len(u) = Len(s) + Len(t) /\ \A i \in 1..Len(s) : u[i] = s[i]
      /\ \A i \in 1..Len(t) : u[Len(s) + i] = t[i]
  BY <1>1, <1>2, <1>3
<1>5. s \o t = u
  BY <1>1, <1>4, Join
<1> QED
  BY <1>5 DEF s, t, u

LEMMA Join3and2 ==
  ASSUME NEW x1, NEW x2, NEW x3, NEW y1, NEW y2
  PROVE  <<x1, x2, x3>> \o <<y1, y2>> = <<x1, x2, x3, y1, y2>>
<1> DEFINE S == {x1, x2, x3, y1, y2}
           s == <<x1, x2, x3>>
           t == <<y1, y2>>
           u == <<x1, x2, x3, y1, y2>>
<1>1. /\ s \in Seq(S) /\ Len(s) = 3 /\ t \in Seq(S) /\ Len(t) = 2
      /\ u \in Seq(S) /\ Len(u) = 5
  OBVIOUS
<1>2. \A i \in 1..3 : u[i] = s[i]
  OBVIOUS
<1>3. \A i \in 1..2 : u[3 + i] = t[i]
  OBVIOUS
<1> HIDE DEF S, s, t, u
<1>4. /\ Len(u) = Len(s) + Len(t) /\ \A i \in 1..Len(s) : u[i] = s[i]
      /\ \A i \in 1..Len(t) : u[Len(s) + i] = t[i]
  BY <1>1, <1>2, <1>3
<1>5. s \o t = u
  BY <1>1, <1>4, Join
<1> QED
  BY <1>5 DEF s, t, u

LEMMA Join3and3 ==
  ASSUME NEW x1, NEW x2, NEW x3, NEW y1, NEW y2, NEW y3
  PROVE  <<x1, x2, x3>> \o <<y1, y2, y3>> = <<x1, x2, x3, y1, y2, y3>>
<1> DEFINE S == {x1, x2, x3, y1, y2, y3}
           s == <<x1, x2, x3>>
           t == <<y1, y2, y3>>
           u == <<x1, x2, x3, y1, y2, y3>>
<1>1. /\ s \in Seq(S) /\ Len(s) = 3 /\ t \in Seq(S) /\ Len(t) = 3
      /\ u \in Seq(S) /\ Len(u) = 6
  OBVIOUS
<1>2. \A i \in 1..3 : u[i] = s[i]
  OBVIOUS
<1>3. \A i \in 1..3 : u[3 + i] = t[i]
  OBVIOUS
<1> HIDE DEF S, s, t, u
<1>4. /\ Len(u) = Len(s) + Len(t) /\ \A i \in 1..Len(s) : u[i] = s[i]
      /\ \A i \in 1..Len(t) : u[Len(s) + i] = t[i]
  BY <1>1, <1>2, <1>3
<1>5. s \o t = u
  BY <1>1, <1>4, Join
<1> QED
  BY <1>5 DEF s, t, u

LEMMA Join3and4 ==
  ASSUME NEW x1, NEW x2, NEW x3, NEW y1, NEW y2, NEW y3, NEW y4
  PROVE  <<x1, x2, x3>> \o <<y1, y2, y3, y4>> = <<x1, x2, x3, y1, y2, y3, y4>>
<1> DEFINE S == {x1, x2, x3, y1, y2, y3, y4}
           s == <<x1, x2, x3>>
           t == <<y1, y2, y3, y4>>
           u == <<x1, x2, x3, y1, y2, y3, y4>>
<1>1. /\ s \in Seq(S) /\ Len(s) = 3 /\ t \in Seq(S) /\ Len(t) = 4
      /\ u \in Seq(S) /\ Len(u) = 7
  OBVIOUS
<1>2. \A i \in 1..3 : u[i] = s[i]
  OBVIOUS
<1>3. \A i \in 1..4 : u[3 + i] = t[i]
  OBVIOUS
<1> HIDE DEF S, s, t, u
<1>4. /\ Len(u) = Len(s) + Len(t) /\ \A i \in 1..Len(s) : u[i] = s[i]
      /\ \A i \in 1..Len(t) : u[Len(s) + i] = t[i]
  BY <1>1, <1>2, <1>3
<1>5. s \o t = u
  BY <1>1, <1>4, Join
<1> QED
  BY <1>5 DEF s, t, u

LEMMA Join5and2 ==
  ASSUME NEW x1, NEW x2, NEW x3, NEW x4, NEW x5, NEW y1, NEW y2
  PROVE  <<x1, x2, x3, x4, x5>> \o <<y1, y2>> = <<x1, x2, x3, x4, x5, y1, y2>>
<1> DEFINE S == {x1, x2, x3, x4, x5, y1, y2}
           s == <<x1, x2, x3, x4, x5>>
           t == <<y1, y2>>
           u == <<x1, x2, x3, x4, x5, y1, y2>>
<1>1. /\ s \in Seq(S) /\ Len(s) = 5 /\ t \in Seq(S) /\ Len(t) = 2
      /\ u \in Seq(S) /\ Len(u) = 7
  OBVIOUS
<1>2. \A i \in 1..5 : u[i] = s[i]
  OBVIOUS
<1>3. \A i \in 1..2 : u[5 + i] = t[i]
  OBVIOUS
<1> HIDE DEF S, s, t, u
<1>4. /\ Len(u) = Len(s) + Len(t) /\ \A i \in 1..Len(s) : u[i] = s[i]
      /\ \A i \in 1..Len(t) : u[Len(s) + i] = t[i]
  BY <1>1, <1>2, <1>3
<1>5. s \o t = u
  BY <1>1, <1>4, Join
<1> QED
  BY <1>5 DEF s, t, u

LEMMA Join4and4 ==
  ASSUME NEW x1, NEW x2, NEW x3, NEW x4, NEW y1, NEW y2, NEW y3, NEW y4
  PROVE  <<x1, x2, x3, x4>> \o <<y1, y2, y3, y4>> = <<x1, x2, x3, x4, y1, y2, y3, y4>>
<1> DEFINE S == {x1, x2, x3, x4, y1, y2, y3, y4}
           s == <<x1, x2, x3, x4>>
           t == <<y1, y2, y3, y4>>
           u == <<x1, x2, x3, x4, y1, y2, y3, y4>>
<1>1. /\ s \in Seq(S) /\ Len(s) = 4 /\ t \in Seq(S) /\ Len(t) = 4
      /\ u \in Seq(S) /\ Len(u) = 8
  OBVIOUS
<1>2. \A i \in 1..4 : u[i] = s[i]
  OBVIOUS
<1>3. \A i \in 1..4 : u[4 + i] = t[i]
  OBVIOUS
<1> HIDE DEF S, s, t, u
<1>4. /\ Len(u) = Len(s) + Len(t) /\ \A i \in 1..Len(s) : u[i] = s[i]
      /\ \A i \in 1..Len(t) : u[Len(s) + i] = t[i]
  BY <1>1, <1>2, <1>3
<1>5. s \o t = u
  BY <1>1, <1>4, Join
<1> QED
  BY <1>5 DEF s, t, u

LEMMA Join3and7 ==
  ASSUME NEW x1, NEW x2, NEW x3, NEW y1, NEW y2, NEW y3, NEW y4, NEW y5, NEW y6, NEW y7
  PROVE  <<x1, x2, x3>> \o <<y1, y2, y3, y4, y5, y6, y7>> = <<x1, x2, x3, y1, y2, y3, y4, y5, y6, y7>>
<1> DEFINE S == {x1, x2, x3, y1, y2, y3, y4, y5, y6, y7}
           s == <<x1, x2, x3>>
           t == <<y1, y2, y3, y4, y5, y6, y7>>
           u == <<x1, x2, x3, y1, y2, y3, y4, y5, y6, y7>>
<1>1. /\ s \in Seq(S) /\ Len(s) = 3 /\ t \in Seq(S) /\ Len(t) = 7
      /\ u \in Seq(S) /\ Len(u) = 10
  OBVIOUS
<1>2. \A i \in 1..3 : u[i] = s[i]
  OBVIOUS
<1>3. \A i \in 1..7 : u[3 + i] = t[i]
  OBVIOUS
<1> HIDE DEF S, s, t, u
<1>4. /\ Len(u) = Len(s) + Len(t) /\ \A i \in 1..Len(s) : u[i] = s[i]
      /\ \A i \in 1..Len(t) : u[Len(s) + i] = t[i]
  BY <1>1, <1>2, <1>3
<1>5. s \o t = u
  BY <1>1, <1>4, Join
<1> QED
  BY <1>5 DEF s, t, u

LEMMA Join4and7 ==
  ASSUME NEW x1, NEW x2, NEW x3, NEW x4, NEW y1, NEW y2, NEW y3, NEW y4, NEW y5, NEW y6, NEW y7
  PROVE  <<x1, x2, x3, x4>> \o <<y1, y2, y3, y4, y5, y6, y7>> = <<x1, x2, x3, x4, y1, y2, y3, y4, y5, y6, y7>>
<1> DEFINE S == {x1, x2, x3, x4, y1, y2, y3, y4, y5, y6, y7}
           s == <<x1, x2, x3, x4>>
           t == <<y1, y2, y3, y4, y5, y6, y7>>
           u == <<x1, x2, x3, x4, y1, y2, y3, y4, y5, y6, y7>>
<1>1. /\ s \in Seq(S) /\ Len(s) = 4 /\ t \in Seq(S) /\ Len(t) = 7
      /\ u \in Seq(S) /\ Len(u) = 11
  OBVIOUS
<1>2. \A i \in 1..4 : u[i] = s[i]
  OBVIOUS
<1>3. \A i \in 1..7 : u[4 + i] = t[i]
  OBVIOUS
<1> HIDE DEF S, s, t, u
<1>4. /\ Len(u) = Len(s) + Len(t) /\ \A i \in 1..Len(s) : u[i] = s[i]
      /\ \A i \in 1..Len(t) : u[Len(s) + i] = t[i]
  BY <1>1, <1>2, <1>3
<1>5. s \o t = u
  BY <1>1, <1>4, Join
<1> QED
  BY <1>5 DEF s, t, u

LEMMA Join1and4 ==
  ASSUME NEW x1, NEW y1, NEW y2, NEW y3, NEW y4
  PROVE  <<x1>> \o <<y1, y2, y3, y4>> = <<x1, y1, y2, y3, y4>>
<1> DEFINE S == {x1, y1, y2, y3, y4}
           s == <<x1>>
           t == <<y1, y2, y3, y4>>
           u == <<x1, y1, y2, y3, y4>>
<1>1. /\ s \in Seq(S) /\ Len(s) = 1 /\ t \in Seq(S) /\ Len(t) = 4
      /\ u \in Seq(S) /\ Len(u) = 5
  OBVIOUS
<1>2. \A i \in 1..1 : u[i] = s[i]
  OBVIOUS
<1>3. \A i \in 1..4 : u[1 + i] = t[i]
  OBVIOUS
<1> HIDE DEF S, s, t, u
<1>4. /\ Len(u) = Len(s) + Len(t) /\ \A i \in 1..Len(s) : u[i] = s[i]
      /\ \A i \in 1..Len(t) : u[Len(s) + i] = t[i]
  BY <1>1, <1>2, <1>3
<1>5. s \o t = u
  BY <1>1, <1>4, Join
<1> QED
  BY <1>5 DEF s, t, u

LEMMA Join1and5 ==
  ASSUME NEW x1, NEW y1, NEW y2, NEW y3, NEW y4, NEW y5
  PROVE  <<x1>> \o <<y1, y2, y3, y4, y5>> = <<x1, y1, y2, y3, y4, y5>>
<1> DEFINE S == {x1, y1, y2, y3, y4, y5}
           s == <<x1>>
           t == <<y1, y2, y3, y4, y5>>
           u == <<x1, y1, y2, y3, y4, y5>>
<1>1. /\ s \in Seq(S) /\ Len(s) = 1 /\ t \in Seq(S) /\ Len(t) = 5
      /\ u \in Seq(S) /\ Len(u) = 6
  OBVIOUS
<1>2. \A i \in 1..1 : u[i] = s[i]
  OBVIOUS
<1>3. \A i \in 1..5 : u[1 + i] = t[i]
  OBVIOUS
<1> HIDE DEF S, s, t, u
<1>4. /\ Len(u) = Len(s) + Len(t) /\ \A i \in 1..Len(s) : u[i] = s[i]
      /\ \A i \in 1..Len(t) : u[Len(s) + i] = t[i]
  BY <1>1, <1>2, <1>3
<1>5. s \o t = u
  BY <1>1, <1>4, Join
<1> QED
  BY <1>5 DEF s, t, u

LEMMA Join2and3 ==
  ASSUME NEW x1, NEW x2, NEW y1, NEW y2, NEW y3
  PROVE  <<x1, x2>> \o <<y1, y2, y3>> = <<x1, x2, y1, y2, y3>>
<1> DEFINE S == {x1, x2, y1, y2, y3}
           s == <<x1, x2>>
           t == <<y1, y2, y3>>
           u == <<x1, x2, y1, y2, y3>>
<1>1. /\ s \in Seq(S) /\ Len(s) = 2 /\ t \in Seq(S) /\ Len(t) = 3
      /\ u \in Seq(S) /\ Len(u) = 5
  OBVIOUS
<1>2. \A i \in 1..2 : u[i] = s[i]
  OBVIOUS
<1>3. \A i \in 1..3 : u[2 + i] = t[i]
  OBVIOUS
<1> HIDE DEF S, s, t, u
<1>4. /\ Len(u) = Len(s) + Len(t) /\ \A i \in 1..Len(s) : u[i] = s[i]
      /\ \A i \in 1..Len(t) : u[Len(s) + i] = t[i]
  BY <1>1, <1>2, <1>3
<1>5. s \o t = u
  BY <1>1, <1>4, Join
<1> QED
  BY <1>5 DEF s, t, u

LEMMA Join6and3 ==
  ASSUME NEW x1, NEW x2, NEW x3, NEW x4, NEW x5, NEW x6, NEW y1, NEW y2, NEW y3
  PROVE  <<x1, x2, x3, x4, x5, x6>> \o <<y1, y2, y3>> = <<x1, x2, x3, x4, x5, x6, y1, y2, y3>>
<1> DEFINE S == {x1, x2, x3, x4, x5, x6, y1, y2, y3}
           s == <<x1, x2, x3, x4, x5, x6>>
           t == <<y1, y2, y3>>
           u == <<x1, x2, x3, x4, x5, x6, y1, y2, y3>>
<1>1. /\ s \in Seq(S) /\ Len(s) = 6 /\ t \in Seq(S) /\ Len(t) = 3
      /\ u \in Seq(S) /\ Len(u) = 9
  OBVIOUS
<1>2. \A i \in 1..6 : u[i] = s[i]
  OBVIOUS
<1>3. \A i \in 1..3 : u[6 + i] = t[i]
  OBVIOUS
<1> HIDE DEF S, s, t, u
<1>4. /\ Len(u) = Len(s) + Len(t) /\ \A i \in 1..Len(s) : u[i] = s[i]
      /\ \A i \in 1..Len(t) : u[Len(s) + i] = t[i]
  BY <1>1, <1>2, <1>3
<1>5. s \o t = u
  BY <1>1, <1>4, Join
<1> QED
  BY <1>5 DEF s, t, u

(* What follows an application's question whether there is an element or   *)
(* room, and the renderer's whether there is a message.                    *)
LEMMA QueueStep ==
  ASSUME NEW c, NEW p, NEW s, NEW q, NEW op \in {"IfElement", "IfRoom"}, NEW a,
         \/ op = "IfElement" /\ c = "Rgba2RgbAppSource"
         \/ op = "IfRoom" /\ c = "Rgb2RgbaAppSink",
         Known(c, p), q # << >>, Head(q) = Branch(op, "", a, << >>),
         Safe(c, p, a \o Tail(q), IF p = "queue" THEN "open" ELSE s),
         Safe(c, p, << >> \o Tail(q), s)
  PROVE  Safe(c, p, q, s)
<1>1. PICK x : x = Branch(op, "", a, << >>)
  OBVIOUS
<1>2. x.op = op /\ x.t = "" /\ x.u = "" /\ x.then = a
  BY <1>1 DEF Branch
<1>3. Allowed(c, p, x, s)
  BY <1>2, AlwaysAllowed DEF Takes, Known
<1>4. Head(q) = x
  BY <1>1
<1>5. Nexts(c, p, q, s) = {<<a \o Tail(q), IF p = "queue" THEN "open" ELSE s>>,
                           <<<< >> \o Tail(q), s>>}
  BY <1>2, <1>4 DEF Nexts
<1> QED
  BY <1>3, <1>4, <1>5, TwoMore

LEMMA IfThereStep ==
  ASSUME NEW c, NEW p, NEW s, NEW q, NEW t \in InOf(c), NEW a,
         Known(c, p), q # << >>, Head(q) = IfThere(t, a),
         p = t => s = "got" /\ p \notin OutOf(c),
         Safe(c, p, a \o Tail(q), IF p = t THEN "here" ELSE s),
         Safe(c, p, << >> \o Tail(q), IF p = t THEN "absent" ELSE s)
  PROVE  Safe(c, p, q, s)
<1>1. PICK x : x = IfThere(t, a)
  OBVIOUS
<1>2. x.op = "IfThere" /\ x.t = t /\ x.u = "" /\ x.then = a
  BY <1>1 DEF IfThere, Branch
<1>3. Takes(c, x)
  BY <1>2 DEF Takes
<1>4. Allowed(c, p, x, s)
  <2>1. CASE p # t
    BY <1>2, <1>3, <2>1, AlwaysAllowed DEF Known
  <2>2. CASE p = t
    BY <1>2, <1>3, <2>2 DEF Allowed, InAllowed
  <2> QED
    BY <2>1, <2>2
<1>5. Head(q) = x
  BY <1>1
<1>6. Nexts(c, p, q, s) = {<<a \o Tail(q), IF p = t THEN "here" ELSE s>>,
                           <<<< >> \o Tail(q), IF p = t THEN "absent" ELSE s>>}
  BY <1>2, <1>5 DEF Nexts
<1> QED
  BY <1>4, <1>5, <1>6, TwoMore

LEMMA CodecStep ==
  ASSUME NEW c \in CodecClasses, NEW p, NEW q, NEW t \in OutOf(c), NEW u \in InOf(c),
         NEW a, NEW s, NEW s1, NEW s2, InOf(c) \cap OutOf(c) = {}, q # << >>,
         "queue" \notin OutOf(c), Head(q) = Codec(t, u, a),
         \/ p = u /\ s \in {"got", "here"} /\ s1 = "here" /\ s2 = "here"
         \/ p = t /\ s = <<"placed", 0>> /\ s1 = <<"filled", 0>> /\ s2 = <<"spent", 0>>
         \/ p = t /\ s = <<"titled", 0>> /\ s1 = <<"ready", 0>> /\ s2 = <<"spent", 0>>,
         Safe(c, p, a \o Tail(q), s1), Safe(c, p, Tail(q), s2)
  PROVE  Safe(c, p, q, s)
<1>1. PICK x : x = Codec(t, u, a)
  OBVIOUS
<1>2. x.op = "Codec" /\ x.t = t /\ x.u = u /\ x.then = a
  BY <1>1 DEF Codec, Branch
<1>3. Head(q) = x
  BY <1>1
<1>4. Takes(c, x) /\ c # Renderer
  BY <1>2 DEF Takes, CodecClasses, Renderer
<1>5. Allowed(c, p, x, s) /\ Nexts(c, p, q, s) = {<<a \o Tail(q), s1>>, <<Tail(q), s2>>}
  <2>1. CASE p = u
    <3>1. Allowed(c, p, x, s) /\ Then(c, p, x, s) = "here"
      BY <1>2, <1>4, <2>1 DEF Allowed, InAllowed, Then, InThen
    <3> QED
      BY <1>2, <1>3, <2>1, <3>1 DEF Nexts
  <2>2. CASE p = t
    <3>1. /\ s[1] \in {"placed", "titled"} /\ s[2] = 0 /\ s1 = <<Filled(s[1]), s[2]>>
          /\ s2 = <<"spent", s[2]>> /\ p \notin InOf(c) /\ p # "queue"
      BY <2>2 DEF Filled
    <3>2. Allowed(c, p, x, s)
      BY <1>2, <1>4, <2>2, <3>1 DEF Allowed, OutAllowed, CodecClasses
    <3>3. Then(c, p, x, s) = s1
      BY <1>2, <2>2, <3>1 DEF Then, OutThen
    <3> QED
      BY <1>2, <1>3, <2>2, <3>1, <3>2, <3>3 DEF Nexts
  <2> QED
    BY <2>1, <2>2
<1> QED
  BY <1>3, <1>5, TwoMore

(* The steps of an input with data, of any class but two.                  *)
Taken(c, p) == /\ p \in InOf(c) /\ HasData(c, p) /\ Known(c, p)
               /\ InOf(c) \cap (OutOf(c) \cup {"queue"}) = {}
               /\ c \notin {Renderer, "NonDisplay"}

LEMMA InputSteps ==
  ASSUME NEW c, NEW p, Taken(c, p)
  PROVE  /\ Goes(c, p, Get(p), "fresh", "got")
         /\ \A s \in {"got", "here"} :
              /\ Goes(c, p, Use(p), s, "here") /\ Goes(c, p, Pixels(p), s, "here")
              /\ Goes(c, p, Log(p), s, s) /\ Goes(c, p, Release(p), s, "empty")
              /\ \A o \in OutOf(c) : Goes(c, p, Header(o, p), s, "here")
              /\ \A o \in OutOf(c) : c \notin CodecClasses =>
                   /\ Goes(c, p, Make(o, p), s, "here")
                   /\ Goes(c, p, Write(o, p), s, "here")
         /\ Goes(c, p, Free(p), "empty", "done")
         /\ Safe(c, p, << >>, "done")
<1>0. Safe(c, p, << >>, "done")
  BY Ended DEF Final, Taken
<1> USE DEF Goes, Branching, Allowed, Takes, InAllowed, Then, InThen, Step, Taken, Known
<1>1. Goes(c, p, Get(p), "fresh", "got") /\ Goes(c, p, Free(p), "empty", "done")
  BY DEF Get, Free
<1>2. ASSUME NEW s \in {"got", "here"}
      PROVE  /\ Goes(c, p, Use(p), s, "here") /\ Goes(c, p, Pixels(p), s, "here")
             /\ Goes(c, p, Log(p), s, s) /\ Goes(c, p, Release(p), s, "empty")
  BY DEF Use, Pixels, Log, Release
<1>3. ASSUME NEW s \in {"got", "here"}, NEW o \in OutOf(c)
      PROVE  /\ Goes(c, p, Header(o, p), s, "here")
             /\ c \notin CodecClasses => /\ Goes(c, p, Make(o, p), s, "here")
                                         /\ Goes(c, p, Write(o, p), s, "here")
  BY DEF Header, Make, Write, From
<1> HIDE DEF Goes, Branching, Allowed, Takes, InAllowed, Then, InThen, Step, Taken, Known
<1> QED
  BY <1>0, <1>1, <1>2, <1>3

(* Steps that leave port p of a kernel with inputs as it is.               *)
LEMMA Skip ==
  ASSUME NEW c, NEW p, NEW s, NEW x, Known(c, p), Takes(c, x), x.t # p, x.u # p,
         x.op \in {"Get", "Use", "Pixels", "Log", "Release", "Free", "Send", "Place",
                   "Make", "Write", "Header"},
         x.op = "Place" => c # Renderer, x.op = "Make" => c \notin {"BagCamera", "ImgPlayer"}
  PROVE  Goes(c, p, x, s, s)
<1>1. InAllowed(c, p, x, s) /\ OutAllowed(c, p, x, s)
  BY DEF InAllowed, OutAllowed
<1>2. InThen(c, p, x, s) = s /\ OutThen(c, p, x, s) = s
  BY DEF InThen, OutThen
<1> QED
  BY <1>1, <1>2 DEF Goes, Branching, Allowed, Then

LEMMA OtherSteps ==
  ASSUME NEW c, NEW p, InOf(c) # {}, Known(c, p), NEW s
  PROVE  /\ \A o \in OutOf(c) \ {p} :
              /\ c # Renderer => Goes(c, p, Place(o), s, s)
              /\ Goes(c, p, Send(o), s, s)
              /\ Goes(c, p, Log(o), s, s) /\ Goes(c, p, Use(o), s, s)
              /\ c \in CodecClasses => Goes(c, p, Make(o, "codec"), s, s)
         /\ c \in PacketClasses => Goes(c, p, Make("packet", "codec"), s, s)
         /\ \A i \in InOf(c) \ {p} :
              /\ Goes(c, p, Get(i), s, s) /\ Goes(c, p, Use(i), s, s)
              /\ Goes(c, p, Pixels(i), s, s) /\ Goes(c, p, Log(i), s, s)
              /\ Goes(c, p, Release(i), s, s) /\ Goes(c, p, Free(i), s, s)
<1> USE Skip DEF Known, Takes, Step
<1>1. ASSUME NEW o \in OutOf(c), o # p
      PROVE  /\ c # Renderer => Goes(c, p, Place(o), s, s)
             /\ Goes(c, p, Send(o), s, s)
             /\ Goes(c, p, Log(o), s, s) /\ Goes(c, p, Use(o), s, s)
  <2>1. c # Renderer => Goes(c, p, Place(o), s, s)
    BY <1>1 DEF Place
  <2>2. Goes(c, p, Send(o), s, s)
    BY <1>1 DEF Send
  <2>3. Goes(c, p, Log(o), s, s)
    BY <1>1 DEF Log
  <2>4. Goes(c, p, Use(o), s, s)
    BY <1>1 DEF Use
  <2> QED
    BY <2>1, <2>2, <2>3, <2>4
<1>2. ASSUME NEW o \in OutOf(c), o # p, c \in CodecClasses
      PROVE  Goes(c, p, Make(o, "codec"), s, s)
  BY <1>2 DEF Make, From, CodecClasses
<1>3. c \in PacketClasses => Goes(c, p, Make("packet", "codec"), s, s)
  BY DEF Make, From, PacketClasses
<1>4. ASSUME NEW i \in InOf(c), i # p
      PROVE  /\ Goes(c, p, Get(i), s, s) /\ Goes(c, p, Use(i), s, s)
             /\ Goes(c, p, Pixels(i), s, s) /\ Goes(c, p, Log(i), s, s)
             /\ Goes(c, p, Release(i), s, s) /\ Goes(c, p, Free(i), s, s)
  <2>1. Goes(c, p, Get(i), s, s)
    BY <1>4 DEF Get
  <2>2. Goes(c, p, Use(i), s, s)
    BY <1>4 DEF Use
  <2>3. Goes(c, p, Pixels(i), s, s)
    BY <1>4 DEF Pixels
  <2>4. Goes(c, p, Log(i), s, s)
    BY <1>4 DEF Log
  <2>5. Goes(c, p, Release(i), s, s)
    BY <1>4 DEF Release
  <2>6. Goes(c, p, Free(i), s, s)
    BY <1>4 DEF Free
  <2> QED
    BY <2>1, <2>2, <2>3, <2>4, <2>5, <2>6
<1> QED
  BY <1>1, <1>2, <1>3, <1>4

(* The message of an out-port of a kernel with inputs.                     *)
Answers(c, p) == /\ p \in OutOf(c) /\ InOf(c) # {} /\ Known(c, p)
                 /\ "codec" \notin InOf(c)
                 /\ InOf(c) \cap (OutOf(c) \cup {"queue"}) = {} /\ p # "queue"
                 /\ c \notin {"BagCamera", "ImgPlayer"}
St(name) == <<name, 0>>

LEMMA AnswerSteps ==
  ASSUME NEW c, NEW p, Answers(c, p)
  PROVE  /\ Goes(c, p, Place(p), St("fresh"), St("placed"))
         /\ \A i \in InOf(c) :
              /\ Goes(c, p, Header(p, i), St("placed"), St("titled"))
              /\ Goes(c, p, Header(p, i), St("filled"), St("ready"))
              /\ c \notin CodecClasses =>
                   /\ Goes(c, p, Make(p, i), St("placed"), St("filled"))
                   /\ Goes(c, p, Make(p, i), St("titled"), St("ready"))
                   /\ Goes(c, p, Write(p, i), St("placed"), St("filled"))
                   /\ Goes(c, p, Write(p, i), St("titled"), St("ready"))
                   /\ Goes(c, p, Share(p, i), St("titled"), St("ready"))
         /\ c \in CodecClasses => \A n \in {"placed", "filled", "ready"} :
              Goes(c, p, Make(p, "codec"), St(n), St(n))
         /\ Goes(c, p, Pixels(p), St("ready"), St("ready"))
         /\ Goes(c, p, Send(p), St("ready"), St("given"))
         /\ c \in LogsSent => Goes(c, p, Log(p), St("given"), St("given"))
         /\ \A name : Safe(c, p, << >>, St(name))
<1>0. \A name : Safe(c, p, << >>, St(name))
  BY Ended DEF Final, Answers, St
<1> USE DEF Goes, Branching, Allowed, Takes, OutAllowed, OwnsMessage, Then, OutThen, Filled,
            Titled, Step, Answers, Known, St, Unfilled
<1>1. Goes(c, p, Place(p), St("fresh"), St("placed"))
  BY DEF Place
<1>2. ASSUME NEW i \in InOf(c)
      PROVE  /\ Goes(c, p, Header(p, i), St("placed"), St("titled"))
             /\ Goes(c, p, Header(p, i), St("filled"), St("ready"))
  BY DEF Header
<1>3. ASSUME NEW i \in InOf(c), c \notin CodecClasses
      PROVE  /\ Goes(c, p, Make(p, i), St("placed"), St("filled"))
             /\ Goes(c, p, Make(p, i), St("titled"), St("ready"))
             /\ Goes(c, p, Write(p, i), St("placed"), St("filled"))
             /\ Goes(c, p, Write(p, i), St("titled"), St("ready"))
             /\ Goes(c, p, Share(p, i), St("titled"), St("ready"))
  BY <1>3 DEF Make, Write, Share, From
<1>4. c \in CodecClasses => \A n \in {"placed", "filled", "ready"} :
        Goes(c, p, Make(p, "codec"), St(n), St(n))
  BY DEF Make, From
<1>5. /\ Goes(c, p, Pixels(p), St("ready"), St("ready"))
      /\ Goes(c, p, Send(p), St("ready"), St("given"))
  BY DEF Pixels, Send
<1>6. c \in LogsSent => Goes(c, p, Log(p), St("given"), St("given"))
  BY DEF Log
<1> HIDE DEF Goes, Branching, Allowed, Takes, OutAllowed, OwnsMessage, Then, OutThen, Filled,
            Titled, Step, Answers, Known, St, Unfilled
<1> QED
  BY <1>0, <1>1, <1>2, <1>3, <1>4, <1>5, <1>6

(* The messages of a source.                                               *)
Source(c, p) == /\ p \in OutOf(c) /\ InOf(c) = {} /\ Known(c, p) /\ p # "queue"

Counted(name) == <<name, 1>>

LEMMA SourceSteps ==
  ASSUME NEW c, NEW p, Source(c, p), c # "ImgPlayer"
  PROVE  /\ Goes(c, p, Place(p), St("fresh"), St("placed"))
         /\ Goes(c, p, Make(p, "own"), St("placed"), St("filled"))
         /\ c # "BagCamera" => Goes(c, p, Write(p, "own"), St("placed"), St("filled"))
         /\ Goes(c, p, Header(p, "own"), St("filled"), St("ready"))
         /\ \A n : Goes(c, p, Count, St(n), Counted(n))
         /\ Goes(c, p, Use(p), Counted("ready"), Counted("ready"))
         /\ Goes(c, p, Send(p), Counted("ready"), Counted("given"))
         /\ c \in LogsSent => Goes(c, p, Log(p), Counted("given"), Counted("given"))
         /\ Safe(c, p, << >>, St("fresh")) /\ Safe(c, p, << >>, Counted("given"))
<1>0. Safe(c, p, << >>, St("fresh")) /\ Safe(c, p, << >>, Counted("given"))
  BY Ended DEF Final, Source, St, Counted
<1> USE DEF Goes, Branching, Allowed, Takes, OutAllowed, OwnsMessage, Then, OutThen, Filled,
            Titled, Step, Source, Known, St, Counted, From, Unfilled
<1>1. /\ Goes(c, p, Place(p), St("fresh"), St("placed"))
      /\ Goes(c, p, Make(p, "own"), St("placed"), St("filled"))
      /\ c # "BagCamera" => Goes(c, p, Write(p, "own"), St("placed"), St("filled"))
  BY DEF Place, Make, Write
<1>2. Goes(c, p, Header(p, "own"), St("filled"), St("ready"))
  BY DEF Header
<1>3. ASSUME NEW n PROVE Goes(c, p, Count, St(n), Counted(n))
  BY DEF Count
<1>4. /\ Goes(c, p, Use(p), Counted("ready"), Counted("ready"))
      /\ Goes(c, p, Send(p), Counted("ready"), Counted("given"))
      /\ c \in LogsSent => Goes(c, p, Log(p), Counted("given"), Counted("given"))
  BY DEF Use, Send, Log
<1> HIDE DEF Goes, Branching, Allowed, Takes, OutAllowed, OwnsMessage, Then, OutThen, Filled,
            Titled, Step, Source, Known, St, Counted, From, Unfilled
<1> QED
  BY <1>0, <1>1, <1>2, <1>3, <1>4

(* The steps of ImgPlayer.                                                 *)
LEMMA PlayerSteps ==
  ASSUME NEW c, NEW p, Source(c, p), c = "ImgPlayer"
  PROVE  /\ Goes(c, p, Place(p), St("fresh"), St("placed"))
         /\ Goes(c, p, Make(p, "own"), St("chosen"), St("filled"))
         /\ Goes(c, p, Count, St("filled"), Counted("filled"))
         /\ Goes(c, p, Header(p, "own"), Counted("filled"), Counted("ready"))
         /\ Goes(c, p, Send(p), Counted("ready"), Counted("given"))
         /\ Safe(c, p, << >>, <<"given", 2>>)
<1>0. Safe(c, p, << >>, <<"given", 2>>)
  BY Ended DEF Final, Source
<1> USE DEF Goes, Branching, Allowed, Takes, OutAllowed, OwnsMessage, Then, OutThen, Filled,
            Titled, Step, Source, Known, St, Counted, From, Unfilled
<1>1. /\ Goes(c, p, Place(p), St("fresh"), St("placed"))
      /\ Goes(c, p, Make(p, "own"), St("chosen"), St("filled"))
  BY DEF Place, Make
<1>2. /\ Goes(c, p, Count, St("filled"), Counted("filled"))
      /\ Goes(c, p, Header(p, "own"), Counted("filled"), Counted("ready"))
      /\ Goes(c, p, Send(p), Counted("ready"), Counted("given"))
  BY DEF Count, Header, Send
<1> HIDE DEF Goes, Branching, Allowed, Takes, OutAllowed, OwnsMessage, Then, OutThen, Filled,
            Titled, Step, Source, Known, St, Counted, From, Unfilled
<1> QED
  BY <1>0, <1>1, <1>2

(* The catalog, class by class: the names of the ports and which inputs    *)
(* have data.                                                              *)
LEMMA Lookup ==
  /\ Kernels["BagCamera"] = BagCamera /\ Kernels["CVCamera"] = CVCamera
  /\ Kernels["ImgPlayer"] = ImgPlayer /\ Kernels["Keyboard"] = Keyboard
  /\ Kernels["EurocMonoInertialReader"] = EurocMonoInertialReader
  /\ Kernels["Rgba2RgbAppSource"] = Rgba2RgbAppSource
  /\ Kernels["CVDisplay"] = CVDisplay /\ Kernels["Cv2GlRgbDisplay"] = Cv2GlRgbDisplay
  /\ Kernels["NonDisplay"] = NonDisplay /\ Kernels["Rgb2RgbaAppSink"] = Rgb2RgbaAppSink
  /\ Kernels["FrameEncoder"] = FrameEncoder /\ Kernels["FrameDecoder"] = FrameDecoder
  /\ Kernels["NvmpiEncoder"] = NvmpiEncoder /\ Kernels["NvmpiDecoder"] = NvmpiDecoder
  /\ Kernels["FrameConverter"] = FrameConverter
  /\ Kernels["ArUcoDetector"] = ArUcoDetector
  /\ Kernels["ArUcoCamLocator"] = ArUcoCamLocator
  /\ Kernels["OrbCamLocator"] = OrbCamLocator
  /\ Kernels["CudaOrbCamLocator"] = CudaOrbCamLocator
  /\ Kernels["OrbSlamPoseEstimator"] = OrbSlamPoseEstimator
  /\ Kernels["SampleMarkerRenderer"] = SampleMarkerRenderer
BY DEF Kernels, SourceKernels, SinkKernels, IntermediateKernels

Sources == {"BagCamera", "CVCamera", "ImgPlayer", "Keyboard", "EurocMonoInertialReader",
            "Rgba2RgbAppSource"}
Displays == {"CVDisplay", "Cv2GlRgbDisplay", "NonDisplay", "Rgb2RgbaAppSink"}
Decoders == {"FrameDecoder", "NvmpiDecoder"}
Encoders == {"FrameEncoder", "NvmpiEncoder"}
Poses    == {"ArUcoCamLocator", "OrbCamLocator", "CudaOrbCamLocator"}
LEMMA ClassNames ==
  DOMAIN Kernels = Sources \cup Displays \cup Decoders \cup Encoders \cup Poses
    \cup {"FrameConverter", "ArUcoDetector", "OrbSlamPoseEstimator", Renderer}
BY DEF Kernels, SourceKernels, SinkKernels, IntermediateKernels, Sources, Displays,
       Decoders, Encoders, Poses, Renderer

OutName(c) ==
  IF c = "Keyboard" THEN "out_key"
  ELSE IF c \in Encoders THEN "out_encoded_frame"
  ELSE IF c \in Poses THEN "out_cam_pose"
  ELSE IF c = "ArUcoDetector" THEN "out_marker_pose"
  ELSE IF c = "OrbSlamPoseEstimator" THEN "out_pose" ELSE "out_frame"
LEMMA PortNames ==
  /\ \A c \in Sources : InOf(c) = {}
  /\ \A c \in Sources \ {"EurocMonoInertialReader"} : OutOf(c) = {OutName(c)}
  /\ OutOf("EurocMonoInertialReader") = {"out_frame", "out_imus"}
  /\ \A c \in Displays : InOf(c) = {"in_frame"} /\ OutOf(c) = {}
  /\ \A c \in Decoders : InOf(c) = {"in_encoded_frame"} /\ OutOf(c) = {OutName(c)}
  /\ \A c \in Encoders \cup Poses \cup {"FrameConverter", "ArUcoDetector"} :
       InOf(c) = {"in_frame"} /\ OutOf(c) = {OutName(c)}
  /\ InOf("OrbSlamPoseEstimator") = {"in_frame", "in_imus"}
  /\ OutOf("OrbSlamPoseEstimator") = {"out_pose"}
  /\ InOf(Renderer) = {"in_frame", "in_cam_pose", "in_key"}
  /\ OutOf(Renderer) = {"out_frame"}
<1> USE Lookup DEF InOf, OutOf, Kernel, NoPorts, OutName, Encoders, Poses, Sources, Displays, Decoders
<1>1. /\ \A c \in Sources : InOf(c) = {}
      /\ \A c \in Sources \ {"EurocMonoInertialReader"} : OutOf(c) = {OutName(c)}
      /\ OutOf("EurocMonoInertialReader") = {"out_frame", "out_imus"}
  BY DEF BagCamera, CVCamera, ImgPlayer, Keyboard, EurocMonoInertialReader,
         Rgba2RgbAppSource
<1>2. \A c \in Displays : InOf(c) = {"in_frame"} /\ OutOf(c) = {}
  BY DEF CVDisplay, Cv2GlRgbDisplay, NonDisplay, Rgb2RgbaAppSink
<1>3. /\ \A c \in Decoders : InOf(c) = {"in_encoded_frame"} /\ OutOf(c) = {OutName(c)}
      /\ \A c \in Encoders : InOf(c) = {"in_frame"} /\ OutOf(c) = {OutName(c)}
  BY DEF FrameEncoder, FrameDecoder, NvmpiEncoder, NvmpiDecoder
<1>4. \A c \in Poses \cup {"FrameConverter", "ArUcoDetector"} :
        InOf(c) = {"in_frame"} /\ OutOf(c) = {OutName(c)}
  BY DEF ArUcoCamLocator, OrbCamLocator, CudaOrbCamLocator, FrameConverter, ArUcoDetector
<1>5. /\ InOf("OrbSlamPoseEstimator") = {"in_frame", "in_imus"}
      /\ OutOf("OrbSlamPoseEstimator") = {"out_pose"}
      /\ InOf(Renderer) = {"in_frame", "in_cam_pose", "in_key"}
      /\ OutOf(Renderer) = {"out_frame"}
  BY DEF OrbSlamPoseEstimator, SampleMarkerRenderer, Renderer
<1> HIDE DEF InOf, OutOf, Kernel, NoPorts, OutName
<1> QED
  BY <1>1, <1>2, <1>3, <1>4, <1>5

(* What the proofs use of a class.                                         *)
Fits(c) ==
  /\ InOf(c) \cap (OutOf(c) \cup {"queue"}) = {} /\ "queue" \notin OutOf(c)
  /\ \A p \in Tracked(c) : Known(c, p)
  /\ InOf(c) = {} <=> c \in Sources
  /\ \A p \in InOf(c) :
       LET q == Kernels[c].in[p] IN
       /\ q.coder \in {"CODED", "PLAIN"} /\ q.sem \in {"BLOCKING", "NONBLOCKING"}
       /\ q.coder = "CODED" => q.type \in {"frame", "encoded", "imus"}
       /\ c # Renderer => q.sem = "BLOCKING"
       /\ c # "NonDisplay" /\ HasData(c, p) => q.coder = "CODED"
       /\ c = Renderer => q.type # "imus" /\ (HasData(c, p) <=> p = "in_frame")
       /\ p \in {"in_frame", "in_encoded_frame"} <=> HasData(c, p)
  /\ c = Renderer => OutOf(c) = {"out_frame"} /\ "in_frame" \in InOf(c)
  /\ c = "BagCamera" => OutOf(c) = {"out_frame"}
  /\ c \in CodecClasses => \E o : OutOf(c) = {o}
LEMMA ClassFits == \A c \in DOMAIN Kernels : Fits(c)
<1>1. ASSUME NEW c \in DOMAIN Kernels
      PROVE  /\ InOf(c) \cap (OutOf(c) \cup {"queue"}) = {} /\ "queue" \notin OutOf(c)
             /\ \A p \in Tracked(c) : Known(c, p)
             /\ InOf(c) = {} <=> c \in Sources
             /\ c = Renderer => OutOf(c) = {"out_frame"} /\ "in_frame" \in InOf(c)
             /\ c = "BagCamera" => OutOf(c) = {"out_frame"}
             /\ c \in CodecClasses => \E o : OutOf(c) = {o}
  <2> DEFINE ins == {"in_frame", "in_encoded_frame", "in_imus", "in_cam_pose", "in_key"}
             outs == {"out_frame", "out_imus", "out_key", "out_encoded_frame",
                      "out_cam_pose", "out_marker_pose", "out_pose"}
  <2>1. OutName(c) \in outs
    BY DEF OutName
  <2>2. /\ InOf(c) \subseteq ins /\ OutOf(c) \subseteq outs
        /\ InOf(c) = {} <=> c \in Sources
    <3> USE ClassNames, PortNames, <2>1
    <3>1. CASE c \in Sources
      BY <3>1
    <3>2. CASE c \in Displays
      BY <3>2 DEF Displays, Sources
    <3>3. CASE c \in Decoders \cup Encoders
      BY <3>3 DEF Decoders, Encoders, Sources
    <3>4. CASE c \in Poses \cup {"FrameConverter", "ArUcoDetector"}
      BY <3>4 DEF Poses, Sources
    <3>5. CASE c \in {"OrbSlamPoseEstimator", Renderer}
      BY <3>5 DEF Sources, Renderer
    <3> QED
      BY <3>1, <3>2, <3>3, <3>4, <3>5
  <2>3. /\ InOf(c) \cap (OutOf(c) \cup {"queue"}) = {} /\ "queue" \notin OutOf(c)
        /\ \A p \in Tracked(c) : Known(c, p)
    BY <2>2 DEF Tracked, Known
  <2>4. /\ c = Renderer => OutOf(c) = {"out_frame"} /\ "in_frame" \in InOf(c)
        /\ c = "BagCamera" => OutOf(c) = {"out_frame"}
    BY PortNames DEF Renderer, Sources, OutName, Encoders, Poses
  <2>5. c \in CodecClasses => \E o : OutOf(c) = {o}
    BY PortNames DEF CodecClasses, Encoders, Decoders
  <2> QED
    BY <2>2, <2>3, <2>4, <2>5
<1>2. ASSUME NEW c \in DOMAIN Kernels, NEW p \in InOf(c)
      PROVE  LET q == Kernels[c].in[p] IN
             /\ q.coder \in {"CODED", "PLAIN"} /\ q.sem \in {"BLOCKING", "NONBLOCKING"}
             /\ q.coder = "CODED" => q.type \in {"frame", "encoded", "imus"}
             /\ c # Renderer => q.sem = "BLOCKING"
             /\ c # "NonDisplay" /\ HasData(c, p) => q.coder = "CODED"
             /\ c = Renderer => q.type # "imus" /\ (HasData(c, p) <=> p = "in_frame")
             /\ p \in {"in_frame", "in_encoded_frame"} <=> HasData(c, p)
  <2> USE Lookup DEF HasData, Kernel, In, Plain, Poll, Port, Renderer
  <2>1. CASE c \in Sources
    BY <2>1, PortNames
  <2>2. CASE c \in Displays
    <3>1. p = "in_frame"
      BY <2>2, PortNames
    <3> QED
      BY <2>2, <3>1 DEF Displays, CVDisplay, Cv2GlRgbDisplay, NonDisplay, Rgb2RgbaAppSink
  <2>3. CASE c \in Encoders
    <3>1. p = "in_frame"
      BY <2>3, PortNames
    <3> QED
      BY <2>3, <3>1 DEF Encoders, FrameEncoder, NvmpiEncoder
  <2>4. CASE c \in Decoders
    <3>1. p = "in_encoded_frame"
      BY <2>4, PortNames
    <3> QED
      BY <2>4, <3>1 DEF Decoders, FrameDecoder, NvmpiDecoder
  <2>5. CASE c \in Poses \cup {"FrameConverter", "ArUcoDetector"}
    <3>1. p = "in_frame"
      BY <2>5, PortNames
    <3> QED
      BY <2>5, <3>1 DEF Poses, FrameConverter, ArUcoDetector, ArUcoCamLocator,
                        OrbCamLocator, CudaOrbCamLocator
  <2>6. CASE c = "OrbSlamPoseEstimator"
    BY <2>6, PortNames DEF OrbSlamPoseEstimator
  <2>7. CASE c = Renderer
    BY <2>7, PortNames DEF SampleMarkerRenderer
  <2> QED
    BY <2>1, <2>2, <2>3, <2>4, <2>5, <2>6, <2>7, ClassNames
<1> QED
  BY <1>1, <1>2 DEF Fits

(* Steps of a source that leave another port, or the queue, as it is.      *)
LEMMA SourceSkips ==
  ASSUME NEW c, NEW p, InOf(c) = {}, Known(c, p), c \notin {"BagCamera", "ImgPlayer"}, c # Renderer,
         NEW s
  PROVE  \A o \in OutOf(c) \ {p} :
           /\ Goes(c, p, Place(o), s, s) /\ Goes(c, p, Make(o, "own"), s, s)
           /\ Goes(c, p, Write(o, "own"), s, s) /\ Goes(c, p, Header(o, "own"), s, s)
           /\ Goes(c, p, Send(o), s, s)
<1> USE Skip DEF Known, Takes, From, Step
<1>1. SUFFICES ASSUME NEW o \in OutOf(c), o # p
               PROVE  /\ Goes(c, p, Place(o), s, s) /\ Goes(c, p, Make(o, "own"), s, s)
                      /\ Goes(c, p, Write(o, "own"), s, s)
                      /\ Goes(c, p, Header(o, "own"), s, s) /\ Goes(c, p, Send(o), s, s)
  OBVIOUS
<1>2. Goes(c, p, Place(o), s, s)
  BY <1>1 DEF Place
<1>3. Goes(c, p, Make(o, "own"), s, s)
  BY <1>1 DEF Make
<1>4. Goes(c, p, Write(o, "own"), s, s)
  BY <1>1 DEF Write
<1>5. Goes(c, p, Header(o, "own"), s, s)
  BY <1>1 DEF Header
<1>6. Goes(c, p, Send(o), s, s)
  BY <1>1 DEF Send
<1> QED
  BY <1>2, <1>3, <1>4, <1>5, <1>6

(* A branch that ends run(), and one that does nothing.                    *)
LEMMA MayStop ==
  ASSUME NEW c, NEW p, NEW s, NEW q, NEW r, NEW how, Known(c, p),
         (how = "exited" /\ c # "BagCamera") \/ (how = "stopped" /\ InOf(c) = {}),
         q # << >>, Head(q) = Either(<<End(how)>>, << >>), << >> \o Tail(q) = r,
         <<End(how)>> \o Tail(q) # << >>, Head(<<End(how)>> \o Tail(q)) = End(how),
         Safe(c, p, r, s)
  PROVE  Safe(c, p, q, s)
<1>1. Safe(c, p, <<End(how)>> \o Tail(q), s)
  BY EndStep
<1> QED
  BY <1>1, EitherStep

(* The classes.                                                            *)
Starts(c) == \A p \in Tracked(c) : Safe(c, p, Programs[c], Fresh(c, p))
LEMMA FreshPorts ==
  ASSUME NEW c, Fits(c)
  PROVE  /\ \A p \in InOf(c) : Fresh(c, p) = "fresh"
         /\ \A p \in OutOf(c) : Fresh(c, p) = St("fresh")
         /\ Fresh(c, "queue") = "shut"
BY DEF Fits, Fresh, St

LEMMA OneOutput ==
  ASSUME NEW c \in Sources \ {"EurocMonoInertialReader", "Rgba2RgbAppSource"}
  PROVE  /\ Fits(c) /\ InOf(c) = {} /\ Tracked(c) = {OutName(c)}
         /\ Source(c, OutName(c)) /\ Known(c, OutName(c))
<1>1. c \in DOMAIN Kernels /\ c \notin AppClasses
  BY ClassNames DEF Sources, AppClasses
<1>2. Fits(c) /\ InOf(c) = {} /\ OutOf(c) = {OutName(c)} 
  BY <1>1, ClassFits, PortNames
<1> QED
  BY <1>1, <1>2 DEF Tracked, Fits, Source

LEMMA SourceStarts ==
  ASSUME NEW c \in Sources \ {"EurocMonoInertialReader", "Rgba2RgbAppSource"},
         Safe(c, OutName(c), Programs[c], St("fresh"))
  PROVE  Starts(c)
BY OneOutput, FreshPorts DEF Starts, Source

LEMMA CamerasStart == \A c \in {"BagCamera", "CVCamera"} : Starts(c)
<1>1. ASSUME NEW c \in {"BagCamera", "CVCamera"}
      PROVE  Starts(c)
  <2>1. c \in Sources \ {"EurocMonoInertialReader", "Rgba2RgbAppSource"}
    BY DEF Sources
  <2>2. OutName(c) = "out_frame"
    BY DEF OutName, Encoders, Poses
  <2>3. Programs[c] = BagCameraRun
    BY DEF Programs, CVCameraRun
  <2>4. Safe(c, "out_frame", BagCameraRun, St("fresh"))
    BY <2>1, <2>2, OneOutput, SourceSteps, Cons1, Cons2, Cons3, Cons4, Cons5
       DEF BagCameraRun
  <2> QED
    BY <2>1, <2>2, <2>3, <2>4, SourceStarts
<1> QED
  BY <1>1

(* A branch of ImgPlayer: it may stop, or the message has another status.  *)
LEMMA PlayerBranch ==
  ASSUME NEW p, NEW s, NEW s2, NEW q, NEW r, NEW op, Known("ImgPlayer", p),
         \/ op = "ReadImage" /\ s = <<"placed", 0>> /\ s2 = <<"chosen", 0>>
         \/ op = "AtLast" /\ s = <<"given", 1>> /\ s2 = <<"given", 2>>,
         q # << >>, Head(q) = Branch(op, "", <<End("stopped")>>, << >>), Tail(q) = r,
         <<End("stopped")>> \o r # << >>,
         Head(<<End("stopped")>> \o r) = End("stopped"),
         InOf("ImgPlayer") = {}, Safe("ImgPlayer", p, r, s2)
  PROVE  Safe("ImgPlayer", p, q, s)
<1> DEFINE c == "ImgPlayer"
<1>1. Safe(c, p, <<End("stopped")>> \o r, s)
  BY EndStep
<1>2. PICK x : x = Branch(op, "", <<End("stopped")>>, << >>)
  OBVIOUS
<1>3. x.op = op /\ x.t = "" /\ x.u = "" /\ x.then = <<End("stopped")>>
  BY <1>2 DEF Branch
<1>4. Allowed(c, p, x, s)
  <2>1. Takes(c, x) /\ p \notin InOf(c) /\ p # ""
    BY <1>3 DEF Takes, Known
  <2>2. OutAllowed(c, p, x, s)
    BY <1>3, <2>1 DEF OutAllowed
  <2> QED
    BY <1>3, <2>1, <2>2 DEF Allowed
<1>5. Head(q) = x
  BY <1>2
<1>6. Nexts(c, p, q, s) = {<<<<End("stopped")>> \o r, s>>, <<r, s2>>}
  <2>1. CASE op = "ReadImage"
    <3>1. Nexts(c, p, q, s) = {<<x.then \o r, s>>, <<r, <<"chosen", s[2]>>>>}
      BY <1>3, <1>5, <2>1 DEF Nexts
    <3>2. s2 = <<"chosen", s[2]>>
      <4>1. s = <<"placed", 0>> /\ s2 = <<"chosen", 0>>
        BY <2>1
      <4>2. s[2] = 0
        BY <4>1
      <4> QED
        BY <4>1, <4>2
    <3> QED
      BY <1>3, <3>1, <3>2
  <2>2. CASE op = "AtLast"
    <3>1. Nexts(c, p, q, s) = {<<x.then \o r, s>>, <<r, <<s[1], 2>>>>}
      BY <1>3, <1>5, <2>2 DEF Nexts
    <3>2. s2 = <<s[1], 2>>
      <4>1. s = <<"given", 1>> /\ s2 = <<"given", 2>>
        BY <2>2
      <4>2. s[1] = "given"
        BY <4>1
      <4> QED
        BY <4>1, <4>2
    <3> QED
      BY <1>3, <3>1, <3>2
  <2> QED
    BY <2>1, <2>2
<1> QED
  BY <1>1, <1>4, <1>5, <1>6, TwoMore

LEMMA ImgPlayerStarts == Starts("ImgPlayer")
<1> DEFINE c == "ImgPlayer"
           p == "out_frame"
           read == Branch("ReadImage", "", <<End("stopped")>>, << >>)
           last == Branch("AtLast", "", <<End("stopped")>>, << >>)
           rest == <<Make(p, "own"), Count, Header(p, "own"), Send(p), last>>
           whole == <<read, Make(p, "own"), Count, Header(p, "own"), Send(p), last>>
<1>1. c \in Sources \ {"EurocMonoInertialReader", "Rgba2RgbAppSource"}
  BY DEF Sources
<1>2. OutName(c) = p
  BY DEF OutName, Encoders, Poses
<1>3. InOf(c) = {} /\ Source(c, p) /\ Known(c, p)
  BY <1>1, <1>2, OneOutput
<1>4. Safe(c, p, <<last>>, Counted("given"))
  <2>1. /\ <<last>> # << >> /\ Head(<<last>>) = last /\ Tail(<<last>>) = << >>
        /\ <<End("stopped")>> \o << >> = <<End("stopped")>>
    OBVIOUS
  <2>2. Head(<<End("stopped")>>) = End("stopped") /\ <<End("stopped")>> # << >>
    OBVIOUS
  <2>3. Safe(c, p, << >>, <<"given", 2>>)
    BY <1>3, PlayerSteps
  <2> QED
    BY <1>3, <2>1, <2>2, <2>3, PlayerBranch DEF Counted
<1>5. Safe(c, p, rest, St("chosen"))
  <2> HIDE DEF last
  <2> QED
    BY <1>3, <1>4, PlayerSteps, Cons2, Cons3, Cons4, Cons5
<1>6. Safe(c, p, whole, St("placed"))
  <2>1. whole # << >> /\ Head(whole) = read /\ Tail(whole) = rest
    <3> HIDE DEF read, last
    <3> QED
      OBVIOUS
  <2>2. /\ <<End("stopped")>> \o rest # << >>
        /\ Head(<<End("stopped")>> \o rest) = End("stopped")
    OBVIOUS
  <2> QED
    BY <1>3, <1>5, <2>1, <2>2, PlayerBranch DEF St
<1>7. Safe(c, p, ImgPlayerRun, St("fresh"))
  <2> HIDE DEF read, last
  <2>1. Safe(c, p, <<Place(p), read, Make(p, "own"), Count, Header(p, "own"), Send(p),
                     last>>, St("fresh"))
    BY <1>3, <1>6, PlayerSteps, Cons7
  <2> QED
    BY <2>1 DEF ImgPlayerRun, read, last
<1>8. Programs[c] = ImgPlayerRun
  BY DEF Programs
<1> QED
  BY <1>1, <1>2, <1>7, <1>8, SourceStarts

LEMMA KeyboardStarts == Starts("Keyboard")
<1> DEFINE c == "Keyboard"
           p == "out_key"
           exit == Either(<<End("exited")>>, << >>)
           rest == <<Use(p), Send(p), Log(p)>>
           whole == <<exit, Use(p), Send(p), Log(p)>>
<1>1. c \in Sources \ {"EurocMonoInertialReader", "Rgba2RgbAppSource"}
  BY DEF Sources
<1>2. OutName(c) = p /\ c \in LogsSent
  BY DEF OutName, LogsSent
<1>3. InOf(c) = {} /\ Source(c, p) /\ Known(c, p)
  BY <1>1, <1>2, OneOutput
<1>4. Safe(c, p, rest, Counted("ready"))
  BY <1>2, <1>3, SourceSteps, Cons1, Cons2, Cons3
<1>5. Safe(c, p, whole, Counted("ready"))
  <2>1. whole # << >> /\ Head(whole) = exit /\ << >> \o Tail(whole) = rest
    OBVIOUS
  <2>2. /\ <<End("exited")>> \o Tail(whole) # << >>
        /\ Head(<<End("exited")>> \o Tail(whole)) = End("exited")
    OBVIOUS
  <2> QED
    BY <1>3, <1>4, <2>1, <2>2, MayStop
<1>6. Safe(c, p, KeyboardRun, St("fresh"))
  <2> HIDE DEF exit
  <2>1. Safe(c, p, <<Place(p), Write(p, "own"), Header(p, "own"), Count, exit, Use(p),
                     Send(p), Log(p)>>, St("fresh"))
    BY <1>3, <1>5, SourceSteps, Cons5, Cons6, Cons7, Cons8
  <2> QED
    BY <2>1 DEF KeyboardRun, exit
<1>7. Programs[c] = KeyboardRun
  BY DEF Programs
<1> QED
  BY <1>1, <1>2, <1>6, <1>7, SourceStarts

(* Two messages, counted together and sent one after the other.            *)
LEMMA EurocStarts == Starts("EurocMonoInertialReader")
<1> DEFINE c == "EurocMonoInertialReader"
           f == "out_frame"
           i == "out_imus"
           stop == Either(<<End("stopped")>>, << >>)
           exit == Either(<<End("exited")>>, << >>)
           rest == <<Make(f, "own"), Header(f, "own"), Write(i, "own"), Header(i, "own"),
                     Count, Send(f), Send(i)>>
           then == <<exit, Make(f, "own"), Header(f, "own"), Write(i, "own"),
                     Header(i, "own"), Count, Send(f), Send(i)>>
           whole == <<stop, exit, Make(f, "own"), Header(f, "own"), Write(i, "own"),
                      Header(i, "own"), Count, Send(f), Send(i)>>
<1>1. Fits(c) /\ c \in Sources /\ c \notin AppClasses
  BY ClassNames, ClassFits DEF Sources, AppClasses
<1>2. /\ InOf(c) = {} /\ OutOf(c) = {f, i} /\ Source(c, f) /\ Source(c, i)
      /\ Tracked(c) = {f, i}
  BY <1>1, PortNames DEF Fits, Source, Tracked
<1>3. c \notin {Renderer, "BagCamera", "ImgPlayer"} /\ f # i
  BY DEF Renderer
<1>4. Safe(c, f, rest, St("placed")) /\ Safe(c, i, rest, St("placed"))
  <2>1. /\ Known(c, f) /\ Known(c, i)
        /\ f \in OutOf(c) \ {i} /\ i \in OutOf(c) \ {f}
    BY <1>2, <1>3 DEF Source
  <2>2. /\ Goes(c, f, Make(f, "own"), St("placed"), St("filled"))
        /\ Goes(c, f, Header(f, "own"), St("filled"), St("ready"))
        /\ Goes(c, f, Write(i, "own"), St("ready"), St("ready"))
        /\ Goes(c, f, Header(i, "own"), St("ready"), St("ready"))
        /\ Goes(c, f, Count, St("ready"), Counted("ready"))
        /\ Goes(c, f, Send(f), Counted("ready"), Counted("given"))
        /\ Goes(c, f, Send(i), Counted("given"), Counted("given"))
        /\ Safe(c, f, << >>, Counted("given"))
    BY <1>2, <1>3, <2>1, SourceSteps, SourceSkips
  <2>3. /\ Goes(c, i, Make(f, "own"), St("placed"), St("placed"))
        /\ Goes(c, i, Header(f, "own"), St("placed"), St("placed"))
        /\ Goes(c, i, Write(i, "own"), St("placed"), St("filled"))
        /\ Goes(c, i, Header(i, "own"), St("filled"), St("ready"))
        /\ Goes(c, i, Count, St("ready"), Counted("ready"))
        /\ Goes(c, i, Send(f), Counted("ready"), Counted("ready"))
        /\ Goes(c, i, Send(i), Counted("ready"), Counted("given"))
        /\ Safe(c, i, << >>, Counted("given"))
    BY <1>2, <1>3, <2>1, SourceSteps, SourceSkips
  <2>4. Safe(c, f, rest, St("placed"))
    BY <2>2, Cons1, Cons2, Cons3, Cons4, Cons5, Cons6, Cons7
  <2>5. Safe(c, i, rest, St("placed"))
    BY <2>3, Cons1, Cons2, Cons3, Cons4, Cons5, Cons6, Cons7
  <2> QED
    BY <2>4, <2>5
<1>5. Safe(c, f, then, St("placed")) /\ Safe(c, i, then, St("placed"))
  <2>1. then # << >> /\ Head(then) = exit /\ << >> \o Tail(then) = rest
    OBVIOUS
  <2>2. /\ <<End("exited")>> \o Tail(then) # << >>
        /\ Head(<<End("exited")>> \o Tail(then)) = End("exited")
    OBVIOUS
  <2> QED
    BY <1>2, <1>4, <2>1, <2>2, MayStop DEF Source
<1>6. Safe(c, f, whole, St("placed")) /\ Safe(c, i, whole, St("placed"))
  <2>1. whole # << >> /\ Head(whole) = stop /\ << >> \o Tail(whole) = then
    OBVIOUS
  <2>2. /\ <<End("stopped")>> \o Tail(whole) # << >>
        /\ Head(<<End("stopped")>> \o Tail(whole)) = End("stopped")
    OBVIOUS
  <2> QED
    BY <1>2, <1>5, <2>1, <2>2, MayStop DEF Source
<1>7. Safe(c, f, Programs[c], St("fresh")) /\ Safe(c, i, Programs[c], St("fresh"))
  <2>1. /\ Goes(c, f, Place(f), St("fresh"), St("placed"))
        /\ Goes(c, f, Place(i), St("placed"), St("placed"))
        /\ Goes(c, i, Place(f), St("fresh"), St("fresh"))
        /\ Goes(c, i, Place(i), St("fresh"), St("placed"))
    BY <1>2, <1>3, SourceSteps, SourceSkips DEF Source
  <2> DEFINE run1 == <<Place(f), Place(i), stop, exit, Make(f, "own"), Header(f, "own"),
                       Write(i, "own"), Header(i, "own"), Count, Send(f), Send(i)>>
  <2> HIDE DEF stop, exit
  <2>2. Safe(c, f, run1, St("fresh")) /\ Safe(c, i, run1, St("fresh"))
    BY <1>6, <2>1, Cons10, Cons11
  <2>3. Programs[c] = run1
    BY DEF Programs, EurocMonoInertialReaderRun, stop, exit
  <2> QED
    BY <2>2, <2>3
<1> QED
  BY <1>1, <1>2, <1>7, FreshPorts DEF Starts

(* The element is there between the question and the call.                 *)
LEMMA AppSourceStarts == Starts("Rgba2RgbAppSource")
<1> DEFINE c == "Rgba2RgbAppSource"
           f == "out_frame"
           frame == <<Place(f), Make(f, "own"), Header(f, "own"), Count, Send(f)>>
           ask == Either(frame, << >>)
           then == <<Step("Dequeue", "", ""), ask>>
<1>1. Fits(c) /\ c \in Sources /\ c \in AppClasses
  BY ClassNames, ClassFits DEF Sources, AppClasses
<1>2. InOf(c) = {} /\ OutOf(c) = {f}
  BY <1>1, PortNames DEF OutName, Encoders, Poses
<1>3. Source(c, f) /\ Tracked(c) = {f, "queue"} /\ Known(c, f) /\ Known(c, "queue")
  BY <1>1, <1>2 DEF Fits, Source, Tracked
<1>4. c \notin {Renderer, "BagCamera", "ImgPlayer"}
  BY DEF Renderer
<1>5. ASSUME NEW s PROVE Goes(c, "queue", Count, s, s)
  BY <1>2 DEF Goes, Branching, Allowed, Takes, Then, Count, Step
<1>6. /\ \A s : Goes(c, f, Step("Dequeue", "", ""), s, s)
      /\ Goes(c, "queue", Step("Dequeue", "", ""), "open", "shut")
  <2>1. ASSUME NEW s PROVE Goes(c, f, Step("Dequeue", "", ""), s, s)
    BY <1>2 DEF Goes, Branching, Allowed, Takes, OutAllowed, OutThen, Then, Step
  <2>2. Goes(c, "queue", Step("Dequeue", "", ""), "open", "shut")
    BY <1>2 DEF Goes, Branching, Allowed, Takes, Then, Step
  <2> QED
    BY <2>1, <2>2
<1>7. \A s : Safe(c, "queue", << >>, s)
  BY <1>2, Ended DEF Final
<1>8. Safe(c, f, frame, St("fresh")) /\ Safe(c, "queue", frame, "shut")
  <2>1. Safe(c, f, frame, St("fresh"))
    BY <1>3, <1>4, SourceSteps, Cons1, Cons2, Cons3, Cons4, Cons5
  <2>2. Safe(c, "queue", frame, "shut")
    BY <1>2, <1>3, <1>4, <1>5, <1>7, SourceSkips, Cons1, Cons2, Cons3, Cons4, Cons5
  <2> QED
    BY <2>1, <2>2
<1>9. Safe(c, f, << >>, St("fresh")) /\ Safe(c, "queue", << >>, "shut")
  BY <1>3, <1>7, SourceSteps
<1>10. Safe(c, f, <<ask>>, St("fresh")) /\ Safe(c, "queue", <<ask>>, "shut")
  <2>1. /\ <<ask>> # << >> /\ Head(<<ask>>) = ask /\ frame \o Tail(<<ask>>) = frame
        /\ << >> \o Tail(<<ask>>) = << >>
    OBVIOUS
  <2> HIDE DEF frame
  <2> QED
    BY <1>3, <1>8, <1>9, <2>1, EitherStep
<1>11. Safe(c, f, then, St("fresh")) /\ Safe(c, "queue", then, "open")
  <2> HIDE DEF ask
  <2> QED
    BY <1>6, <1>10, Cons2
<1>12. ASSUME NEW p \in {f, "queue"}
       PROVE  Safe(c, p, Programs[c], Fresh(c, p))
  <2> DEFINE q == <<Branch("IfElement", "", then, << >>)>>
  <2>1. Programs[c] = q
    BY DEF Programs, Rgba2RgbAppSourceRun
  <2> HIDE DEF ask
  <2>2. /\ q # << >> /\ Head(q) = Branch("IfElement", "", then, << >>)
        /\ Tail(q) = << >> /\ << >> \o Tail(q) = << >>
    OBVIOUS
  <2>4. then \o << >> = then
    OBVIOUS
  <2> HIDE DEF then, q
  <2>5. then \o Tail(q) = then
    BY <2>2, <2>4
  <2>3. Fresh(c, f) = St("fresh") /\ Fresh(c, "queue") = "shut"
    BY <1>1, <1>2, FreshPorts
  <2>6. CASE p = f
    <3>1. Safe(c, f, q, St("fresh"))
      BY <1>3, <1>9, <1>11, <2>2, <2>5, QueueStep
    <3> QED
      BY <2>1, <2>3, <2>6, <3>1
  <2>7. CASE p = "queue"
    <3>1. Safe(c, "queue", q, "shut")
      BY <1>3, <1>9, <1>11, <2>2, <2>5, QueueStep
    <3> QED
      BY <2>1, <2>3, <2>7, <3>1
  <2> QED
    BY <2>6, <2>7
<1> QED
  BY <1>3, <1>12 DEF Starts

(* The end of most programs, of an input taken.                            *)
LEMMA ReleaseAndFree ==
  ASSUME NEW c, NEW p, Taken(c, p)
  PROVE  \A s \in {"got", "here"} : Safe(c, p, <<Release(p), Free(p)>>, s)
<1>1. SUFFICES ASSUME NEW s \in {"got", "here"}
               PROVE  Safe(c, p, <<Release(p), Free(p)>>, s)
  OBVIOUS
<1>2. Goes(c, p, Release(p), s, "empty") /\ Goes(c, p, Free(p), "empty", "done")
  BY InputSteps
<1> QED
  BY <1>2, InputSteps, Cons1, Cons2

LEMMA DisplayPorts ==
  ASSUME NEW c \in Displays
  PROVE  /\ Fits(c) /\ InOf(c) = {"in_frame"} /\ OutOf(c) = {}
         /\ Known(c, "in_frame") /\ HasData(c, "in_frame")
         /\ c # "NonDisplay" => Taken(c, "in_frame")
         /\ c # "Rgb2RgbaAppSink" => Tracked(c) = {"in_frame"}
<1>1. Fits(c) /\ InOf(c) = {"in_frame"} /\ OutOf(c) = {} /\ c # Renderer
  BY ClassNames, ClassFits, PortNames DEF Displays, Renderer
<1>2. c # "Rgb2RgbaAppSink" => Tracked(c) = {"in_frame"}
  BY <1>1 DEF Tracked, AppClasses, Displays
<1>3. Known(c, "in_frame") /\ HasData(c, "in_frame")
  BY <1>1 DEF Fits, Tracked
<1> QED
  BY <1>1, <1>2, <1>3 DEF Taken, Fits

LEMMA CVDisplayStarts == Starts("CVDisplay")
<1> DEFINE c == "CVDisplay"
           p == "in_frame"
<1>1. c \in Displays
  BY DEF Displays
<1>2. Taken(c, p) /\ Tracked(c) = {p} /\ Fresh(c, p) = "fresh"
  BY <1>1, DisplayPorts, FreshPorts
<1>3. Safe(c, p, CVDisplayRun, "fresh")
  BY <1>2, InputSteps, ReleaseAndFree, Cons3, Cons4, Cons5 DEF CVDisplayRun
<1> QED
  BY <1>2, <1>3 DEF Starts, Programs

LEMMA NonDisplayStarts == Starts("NonDisplay")
<1> DEFINE c == "NonDisplay"
           p == "in_frame"
<1>1. c \in Displays /\ c # Renderer
  BY DEF Displays, Renderer
<1>2. Tracked(c) = {p} /\ Fresh(c, p) = "fresh" /\ InOf(c) = {p} /\ OutOf(c) = {}
  BY <1>1, DisplayPorts, FreshPorts
<1>3. /\ Goes(c, p, Get(p), "fresh", "got") /\ Goes(c, p, Log(p), "got", "got")
      /\ Goes(c, p, Release(p), "got", "empty") /\ Goes(c, p, Free(p), "empty", "done")
  BY <1>1, <1>2 DEF Goes, Branching, Allowed, Takes, InAllowed, Then, InThen, Step, Get,
                    Log, Release, Free
<1>4. Safe(c, p, << >>, "done")
  BY <1>2, Ended DEF Final
<1>5. Safe(c, p, NonDisplayRun, "fresh")
  BY <1>3, <1>4, Cons1, Cons2, Cons3, Cons4 DEF NonDisplayRun
<1> QED
  BY <1>2, <1>5 DEF Starts, Programs

LEMMA Cv2GlRgbDisplayStarts == Starts("Cv2GlRgbDisplay")
<1> DEFINE c == "Cv2GlRgbDisplay"
           p == "in_frame"
           exit == Either(<<End("exited")>>, << >>)
           show == Either(<<Pixels(p), Log(p)>>, << >>)
           last == <<show, Release(p), Free(p)>>
           rest == <<Get(p), show, Release(p), Free(p)>>
           whole == <<exit, Get(p), show, Release(p), Free(p)>>
<1>1. c \in Displays
  BY DEF Displays
<1>2. Taken(c, p) /\ Tracked(c) = {p} /\ Fresh(c, p) = "fresh" /\ Known(c, p)
  BY <1>1, DisplayPorts, FreshPorts
<1>3. Safe(c, p, last, "got")
  <2> DEFINE end == <<Release(p), Free(p)>>
  <2>1. /\ last # << >> /\ Head(last) = show /\ Tail(last) = end
        /\ << >> \o end = end
    OBVIOUS
  <2>2. <<Pixels(p), Log(p)>> \o end = <<Pixels(p), Log(p), Release(p), Free(p)>>
    BY Join2and2
  <2>3. Safe(c, p, <<Pixels(p), Log(p)>> \o end, "got")
    BY <1>2, <2>2, InputSteps, ReleaseAndFree, Cons3, Cons4
  <2>4. Safe(c, p, << >> \o end, "got")
    BY <1>2, <2>1, ReleaseAndFree
  <2> HIDE DEF last, end
  <2> QED
    BY <1>2, <2>1, <2>3, <2>4, EitherStep
<1>4. Safe(c, p, rest, "fresh")
  <2> HIDE DEF show
  <2> QED
    BY <1>2, <1>3, InputSteps, Cons4
<1>5. Safe(c, p, whole, "fresh")
  <2> HIDE DEF show
  <2>1. whole # << >> /\ Head(whole) = exit /\ << >> \o Tail(whole) = rest
    OBVIOUS
  <2>2. /\ <<End("exited")>> \o Tail(whole) # << >>
        /\ Head(<<End("exited")>> \o Tail(whole)) = End("exited")
    OBVIOUS
  <2> QED
    BY <1>2, <1>4, <2>1, <2>2, MayStop
<1>6. Programs[c] = whole
  BY DEF Programs, Cv2GlRgbDisplayRun
<1> QED
  BY <1>2, <1>5, <1>6 DEF Starts

(* There is room between the question and the call.                        *)
LEMMA AppSinkStarts == Starts("Rgb2RgbaAppSink")
<1> DEFINE c == "Rgb2RgbaAppSink"
           p == "in_frame"
           put == Step("Enqueue", "", "")
           then == <<Pixels(p), put, Log(p)>>
           last == <<Release(p), Free(p)>>
           rest == <<Branch("IfRoom", "", then, << >>), Release(p), Free(p)>>
<1>1. c \in Displays /\ c # "NonDisplay"
  BY DEF Displays
<1>2. /\ Taken(c, p) /\ Fits(c) /\ InOf(c) = {p} /\ OutOf(c) = {}
      /\ Tracked(c) = {p, "queue"} /\ Fresh(c, p) = "fresh" /\ Fresh(c, "queue") = "shut"
  BY <1>1, DisplayPorts, FreshPorts DEF Tracked, AppClasses
<1>3. Known(c, p) /\ Known(c, "queue")
  BY <1>2 DEF Fits
<1>4. /\ \A s : Goes(c, p, put, s, s)
      /\ Goes(c, "queue", put, "open", "shut")
  <2>1. ASSUME NEW s PROVE Goes(c, p, put, s, s)
    BY <1>2 DEF Goes, Branching, Allowed, Takes, InAllowed, InThen, Then, Step
  <2>2. Goes(c, "queue", put, "open", "shut")
    BY <1>2 DEF Goes, Branching, Allowed, Takes, Then, Step
  <2> QED
    BY <2>1, <2>2
<1>5. ASSUME NEW s
      PROVE  /\ Goes(c, "queue", Get(p), s, s) /\ Goes(c, "queue", Pixels(p), s, s)
             /\ Goes(c, "queue", Log(p), s, s) /\ Goes(c, "queue", Release(p), s, s)
             /\ Goes(c, "queue", Free(p), s, s) /\ Safe(c, "queue", << >>, s)
  <2>1. Safe(c, "queue", << >>, s)
    BY <1>2, Ended DEF Final
  <2>2. p \in InOf(c) \ {"queue"}
    BY <1>2
  <2> QED
    BY <1>3, <2>1, <2>2, OtherSteps
<1> HIDE DEF put
<1>6. Safe(c, p, then \o last, "got") /\ Safe(c, "queue", then \o last, "open")
  <2> DEFINE all == <<Pixels(p), put, Log(p), Release(p), Free(p)>>
  <2>1. then \o last = all
    BY Join3and2
  <2>2. Safe(c, p, all, "got")
    BY <1>2, <1>4, InputSteps, ReleaseAndFree, Cons3, Cons4, Cons5
  <2>3. Safe(c, "queue", all, "open")
    BY <1>4, <1>5, Cons1, Cons2, Cons3, Cons4, Cons5
  <2> QED
    BY <2>1, <2>2, <2>3
<1> HIDE DEF then
<1>7. Safe(c, p, last, "got") /\ Safe(c, "queue", last, "shut")
  BY <1>2, <1>5, ReleaseAndFree, Cons1, Cons2
<1>8. Safe(c, p, rest, "got") /\ Safe(c, "queue", rest, "shut")
  <2>1. /\ rest # << >> /\ Head(rest) = Branch("IfRoom", "", then, << >>)
        /\ Tail(rest) = last
    OBVIOUS
  <2>4. << >> \o last = last
    OBVIOUS
  <2> HIDE DEF rest, then, last
  <2>2. Safe(c, p, rest, "got")
    BY <1>3, <1>6, <1>7, <2>1, <2>4, QueueStep
  <2>3. Safe(c, "queue", rest, "shut")
    BY <1>3, <1>6, <1>7, <2>1, <2>4, QueueStep
  <2> QED
    BY <2>2, <2>3
<1>9. /\ Safe(c, p, Programs[c], "fresh") /\ Safe(c, "queue", Programs[c], "shut")
  <2> DEFINE ask == Branch("IfRoom", "", then, << >>)
  <2>1. Programs[c] = <<Get(p), ask, Release(p), Free(p)>>
    BY DEF Programs, Rgb2RgbaAppSinkRun, put, then
  <2> HIDE DEF ask
  <2>2. /\ Safe(c, p, <<ask, Release(p), Free(p)>>, "got")
        /\ Safe(c, "queue", <<ask, Release(p), Free(p)>>, "shut")
    BY <1>8 DEF ask
  <2>3. Safe(c, p, <<Get(p), ask, Release(p), Free(p)>>, "fresh")
    BY <1>2, <2>2, InputSteps, Cons4
  <2>4. Safe(c, "queue", <<Get(p), ask, Release(p), Free(p)>>, "shut")
    BY <1>5, <2>2, Cons4
  <2> QED
    BY <2>1, <2>3, <2>4
<1> QED
  BY <1>2, <1>9 DEF Starts

(* The classes with one input, which has data, and one output.             *)
Middle == Encoders \cup Decoders \cup Poses \cup {"FrameConverter", "ArUcoDetector"}
InName(c) == IF c \in Decoders THEN "in_encoded_frame" ELSE "in_frame"
LEMMA MiddlePorts ==
  ASSUME NEW c \in Middle, NEW i, NEW o, i = InName(c), o = OutName(c)
  PROVE  /\ Fits(c) /\ Tracked(c) = {i, o} /\ InOf(c) # {}
         /\ InOf(c) = {i} /\ OutOf(c) = {o} /\ i # o
         /\ Taken(c, i) /\ Answers(c, o) /\ Known(c, i) /\ Known(c, o)
         /\ c # Renderer /\ o \in OutOf(c) \ {i} /\ i \in InOf(c) \ {o} /\ i \in InOf(c)
<1>1. /\ c \in DOMAIN Kernels /\ c \notin Sources /\ c # Renderer /\ c # "NonDisplay"
      /\ c \notin AppClasses
  BY ClassNames DEF Middle, Encoders, Decoders, Poses, Sources, Renderer, AppClasses
<1>2. InOf(c) = {i} /\ OutOf(c) = {o}
  BY PortNames DEF Middle, InName, Encoders, Decoders, Poses
<1>3. Fits(c) /\ Tracked(c) = {i, o}
  BY <1>1, <1>2, ClassFits DEF Tracked
<1>4. i # o /\ Known(c, i) /\ Known(c, o) /\ HasData(c, i)
  BY <1>2, <1>3 DEF Fits, InName
<1>5. "codec" # i /\ c \notin {"BagCamera", "ImgPlayer"}
  BY <1>1 DEF InName, Sources
<1> QED
  BY <1>1, <1>2, <1>3, <1>4, <1>5 DEF Taken, Answers, Fits

LEMMA MiddleStarts ==
  ASSUME NEW c \in Middle, Safe(c, InName(c), Programs[c], "fresh"),
         Safe(c, OutName(c), Programs[c], St("fresh"))
  PROVE  Starts(c)
BY MiddlePorts, FreshPorts DEF Starts

(* A branch that frees the input and returns.                              *)
LEMMA MayReturn ==
  ASSUME NEW c \in Middle, NEW i, NEW o, i = InName(c), o = OutName(c), NEW r,
         NEW q, q # << >>, Head(q) = Either(<<Release(i), Free(i), End("returned")>>, << >>),
         << >> \o Tail(q) = r, NEW x,
         <<Release(i), Free(i), End("returned")>> \o Tail(q) = x,
         x # << >>, Head(x) = Release(i), Tail(x) # << >>, Head(Tail(x)) = Free(i),
         Tail(Tail(x)) # << >>, Head(Tail(Tail(x))) = End("returned")
  PROVE  /\ Safe(c, i, r, "here") => Safe(c, i, q, "here")
         /\ Safe(c, o, r, St("placed")) => Safe(c, o, q, St("placed"))
<1> USE MiddlePorts
<1>1. Safe(c, i, x, "here")
  <2>1. Safe(c, i, Tail(Tail(x)), "done")
    BY EndStep DEF Final
  <2>2. Goes(c, i, Release(i), "here", "empty") /\ Goes(c, i, Free(i), "empty", "done")
    BY InputSteps
  <2>3. Safe(c, i, Tail(x), "empty")
    BY <2>1, <2>2, FirstStep
  <2> QED
    BY <2>2, <2>3, FirstStep
<1>2. Safe(c, o, x, St("placed"))
  <2>1. Safe(c, o, Tail(Tail(x)), St("placed"))
    BY EndStep DEF Final, St, Answers
  <2>2. /\ Goes(c, o, Release(i), St("placed"), St("placed"))
        /\ Goes(c, o, Free(i), St("placed"), St("placed"))
    BY OtherSteps
  <2>3. Safe(c, o, Tail(x), St("placed"))
    BY <2>1, <2>2, FirstStep
  <2> QED
    BY <2>2, <2>3, FirstStep
<1> QED
  BY <1>1, <1>2, EitherStep

LEMMA FrameEncoderStarts == Starts("FrameEncoder")
<1> DEFINE c == "FrameEncoder"
           i == "in_frame"
           o == "out_encoded_frame"
           then == <<Make("packet", "codec"), Make(o, "codec"), Header(o, i), Send(o), Log(o)>>
           code == Codec(o, i, then)
           odd == Either(<<Release(i), Free(i), End("returned")>>, << >>)
           end == <<Release(i), Free(i)>>
<1>0. c \in Middle /\ i = InName(c) /\ o = OutName(c)
  BY DEF Middle, Encoders, Decoders, Poses, InName, OutName
<1>1. /\ Tracked(c) = {i, o} /\ InOf(c) # {} /\ i # o /\ InOf(c) \cap OutOf(c) = {}
      /\ Taken(c, i) /\ Answers(c, o) /\ Known(c, i) /\ Known(c, o)
      /\ o \in OutOf(c) \ {i} /\ i \in InOf(c) \ {o} /\ o \in OutOf(c) /\ i \in InOf(c)
      /\ c # Renderer /\ "queue" \notin OutOf(c)
      /\ c \in CodecClasses /\ c \in PacketClasses /\ c \in LogsSent
  BY <1>0, MiddlePorts DEF Fits, CodecClasses, PacketClasses, LogsSent
<1>2. /\ \A s \in {"got", "here"} : Safe(c, i, <<Release(i), Free(i)>>, s)
      /\ \A name : Safe(c, o, <<Release(i), Free(i)>>, St(name))
  <2>1. ASSUME NEW name PROVE Safe(c, o, <<Release(i), Free(i)>>, St(name))
    <3>1. /\ Goes(c, o, Release(i), St(name), St(name))
          /\ Goes(c, o, Free(i), St(name), St(name))
          /\ Safe(c, o, << >>, St(name))
      BY <1>1, AnswerSteps, OtherSteps
    <3> QED
      BY <3>1, Cons1, Cons2
  <2> QED
    BY <1>1, <2>1, ReleaseAndFree
<1>3. Safe(c, i, then \o end, "here") /\ Safe(c, o, then \o end, St("filled"))
  <2>1. /\ Goes(c, i, Make("packet", "codec"), "here", "here")
        /\ Goes(c, i, Make(o, "codec"), "here", "here")
        /\ Goes(c, i, Header(o, i), "here", "here")
        /\ Goes(c, i, Send(o), "here", "here") /\ Goes(c, i, Log(o), "here", "here")
    BY <1>1, InputSteps, OtherSteps
  <2>2. Safe(c, i, <<Make("packet", "codec"), Make(o, "codec"), Header(o, i),
                     Send(o), Log(o), Release(i), Free(i)>>, "here")
    BY <2>1, <1>2, Cons3, Cons4, Cons5, Cons6, Cons7
  <2>3. /\ Goes(c, o, Make("packet", "codec"), St("filled"), St("filled"))
        /\ Goes(c, o, Make(o, "codec"), St("filled"), St("filled"))
        /\ Goes(c, o, Header(o, i), St("filled"), St("ready"))
        /\ Goes(c, o, Send(o), St("ready"), St("given"))
        /\ Goes(c, o, Log(o), St("given"), St("given"))
    BY <1>1, AnswerSteps, OtherSteps
  <2>4. Safe(c, o, <<Make("packet", "codec"), Make(o, "codec"), Header(o, i),
                     Send(o), Log(o), Release(i), Free(i)>>, St("filled"))
    BY <2>3, <1>2, Cons3, Cons4, Cons5, Cons6, Cons7
  <2>5. then \o end = <<Make("packet", "codec"), Make(o, "codec"), Header(o, i),
                        Send(o), Log(o), Release(i), Free(i)>>
    BY Join5and2
  <2> QED
    BY <2>2, <2>4, <2>5
<1>4. /\ Safe(c, i, <<code, Release(i), Free(i)>>, "here")
      /\ Safe(c, o, <<code, Release(i), Free(i)>>, St("placed"))
  <2> DEFINE q == <<code, Release(i), Free(i)>>
  <2>1. q # << >> /\ Head(q) = code /\ Tail(q) = end
    OBVIOUS
  <2>2. Safe(c, i, end, "here") /\ Safe(c, o, end, St("spent"))
    BY <1>2
  <2> HIDE DEF q, end, then
  <2>3. Safe(c, i, q, "here")
    BY <1>1, <1>3, <2>1, <2>2, CodecStep
  <2>4. Safe(c, o, q, St("placed"))
    <3>1. St("placed") = <<"placed", 0>> /\ St("filled") = <<"filled", 0>>
          /\ St("spent") = <<"spent", 0>>
      BY DEF St
    <3> QED
      BY <1>1, <1>3, <2>1, <2>2, <3>1, CodecStep
  <2> QED
    BY <2>3, <2>4 DEF q
<1> HIDE DEF code
<1>5. /\ Safe(c, i, <<Pixels(i), code, Release(i), Free(i)>>, "here")
      /\ Safe(c, o, <<Pixels(i), code, Release(i), Free(i)>>, St("placed"))
  <2>1. /\ Goes(c, i, Pixels(i), "here", "here")
    BY <1>1, InputSteps, OtherSteps
  <2>2. Safe(c, i, <<Pixels(i), code, Release(i), Free(i)>>, "here")
    BY <2>1, <1>4, Cons4
  <2>3. /\ Goes(c, o, Pixels(i), St("placed"), St("placed"))
    BY <1>1, AnswerSteps, OtherSteps
  <2>4. Safe(c, o, <<Pixels(i), code, Release(i), Free(i)>>, St("placed"))
    BY <2>3, <1>4, Cons4
  <2> QED
    BY <2>2, <2>4
<1> HIDE DEF code
<1>6. /\ Safe(c, i, <<odd, Pixels(i), code, Release(i), Free(i)>>, "here")
      /\ Safe(c, o, <<odd, Pixels(i), code, Release(i), Free(i)>>, St("placed"))
  <2> DEFINE q == <<odd, Pixels(i), code, Release(i), Free(i)>>
             r == <<Pixels(i), code, Release(i), Free(i)>>
             x == <<Release(i), Free(i), End("returned"), Pixels(i), code, Release(i), Free(i)>>
  <2>1. q # << >> /\ Head(q) = odd /\ Tail(q) = r
    OBVIOUS
  <2>2. <<Release(i), Free(i), End("returned")>> \o r = x
    BY Join3and4
  <2>3. << >> \o r = r
    OBVIOUS
  <2>4. /\ x # << >> /\ Head(x) = Release(i)
        /\ Tail(x) # << >> /\ Head(Tail(x)) = Free(i)
        /\ Tail(Tail(x)) # << >> /\ Head(Tail(Tail(x))) = End("returned")
    OBVIOUS
  <2>5. Safe(c, i, r, "here") /\ Safe(c, o, r, St("placed"))
    BY <1>5
  <2> HIDE DEF q, r, x, c, i, o
  <2>6. Safe(c, i, q, "here") /\ Safe(c, o, q, St("placed"))
    BY <1>0, <2>1, <2>2, <2>3, <2>4, <2>5, MayReturn
  <2> QED
    BY <2>6 DEF q
<1> HIDE DEF odd
<1>7. Safe(c, i, Programs[c], "fresh") /\ Safe(c, o, Programs[c], St("fresh"))
  <2>1. /\ Goes(c, i, Place(o), "fresh", "fresh")
        /\ Goes(c, i, Get(i), "fresh", "got") /\ Goes(c, i, Use(i), "got", "here")
    BY <1>1, InputSteps, OtherSteps
  <2>2. Safe(c, i, <<Place(o), Get(i), Use(i), odd, Pixels(i), code, Release(i),
                     Free(i)>>, "fresh")
    BY <2>1, <1>6, Cons6, Cons7, Cons8
  <2>3. /\ Goes(c, o, Place(o), St("fresh"), St("placed"))
        /\ Goes(c, o, Get(i), St("placed"), St("placed"))
        /\ Goes(c, o, Use(i), St("placed"), St("placed"))
    BY <1>1, AnswerSteps, OtherSteps
  <2>4. Safe(c, o, <<Place(o), Get(i), Use(i), odd, Pixels(i), code, Release(i),
                     Free(i)>>, St("fresh"))
    BY <2>3, <1>6, Cons6, Cons7, Cons8
  <2>5. Programs[c] = <<Place(o), Get(i), Use(i), odd, Pixels(i), code, Release(i),
                        Free(i)>>
    <3>1. <<Place(o), Get(i)>> \o <<Use(i), odd>>
          = <<Place(o), Get(i), Use(i), odd>>
      BY Join2and2
    <3>2. <<Place(o), Get(i), Use(i), odd>> \o <<Pixels(i), code, Release(i), Free(i)>>
          = <<Place(o), Get(i), Use(i), odd, Pixels(i), code, Release(i), Free(i)>>
      BY Join4and4
    <3> QED
      BY <3>1, <3>2 DEF Programs, FrameEncoderRun, OtherSize, odd, code
  <2> QED
    BY <2>2, <2>4, <2>5
<1> QED
  BY <1>0, <1>7, MiddleStarts

LEMMA FrameDecoderStarts == Starts("FrameDecoder")
<1> DEFINE c == "FrameDecoder"
           i == "in_encoded_frame"
           o == "out_frame"
           then == <<Log(i), Send(o)>>
           code == Codec(o, i, then)
           end == <<Release(i), Free(i)>>
<1>0. c \in Middle /\ i = InName(c) /\ o = OutName(c)
  BY DEF Middle, Encoders, Decoders, Poses, InName, OutName
<1>1. /\ Tracked(c) = {i, o} /\ InOf(c) # {} /\ i # o /\ InOf(c) \cap OutOf(c) = {}
      /\ Taken(c, i) /\ Answers(c, o) /\ Known(c, i) /\ Known(c, o)
      /\ o \in OutOf(c) \ {i} /\ i \in InOf(c) \ {o} /\ o \in OutOf(c) /\ i \in InOf(c)
      /\ c # Renderer /\ "queue" \notin OutOf(c)
      /\ c \in CodecClasses /\ c \in PacketClasses
  BY <1>0, MiddlePorts DEF Fits, CodecClasses, PacketClasses, LogsSent
<1>2. /\ \A s \in {"got", "here"} : Safe(c, i, <<Release(i), Free(i)>>, s)
      /\ \A name : Safe(c, o, <<Release(i), Free(i)>>, St(name))
  <2>1. ASSUME NEW name PROVE Safe(c, o, <<Release(i), Free(i)>>, St(name))
    <3>1. /\ Goes(c, o, Release(i), St(name), St(name))
          /\ Goes(c, o, Free(i), St(name), St(name))
          /\ Safe(c, o, << >>, St(name))
      BY <1>1, AnswerSteps, OtherSteps
    <3> QED
      BY <3>1, Cons1, Cons2
  <2> QED
    BY <1>1, <2>1, ReleaseAndFree
<1>3. Safe(c, i, then \o end, "here") /\ Safe(c, o, then \o end, St("ready"))
  <2>1. /\ Goes(c, i, Log(i), "here", "here") /\ Goes(c, i, Send(o), "here", "here")
    BY <1>1, InputSteps, OtherSteps
  <2>2. Safe(c, i, <<Log(i), Send(o), Release(i), Free(i)>>, "here")
    BY <2>1, <1>2, Cons3, Cons4
  <2>3. /\ Goes(c, o, Log(i), St("ready"), St("ready"))
        /\ Goes(c, o, Send(o), St("ready"), St("given"))
    BY <1>1, AnswerSteps, OtherSteps
  <2>4. Safe(c, o, <<Log(i), Send(o), Release(i), Free(i)>>, St("ready"))
    BY <2>3, <1>2, Cons3, Cons4
  <2>5. then \o end = <<Log(i), Send(o), Release(i), Free(i)>>
    BY Join2and2
  <2> QED
    BY <2>2, <2>4, <2>5
<1>4. /\ Safe(c, i, <<code, Release(i), Free(i)>>, "here")
      /\ Safe(c, o, <<code, Release(i), Free(i)>>, St("titled"))
  <2> DEFINE q == <<code, Release(i), Free(i)>>
  <2>1. q # << >> /\ Head(q) = code /\ Tail(q) = end
    OBVIOUS
  <2>2. Safe(c, i, end, "here") /\ Safe(c, o, end, St("spent"))
    BY <1>2
  <2> HIDE DEF q, end, then
  <2>3. Safe(c, i, q, "here")
    BY <1>1, <1>3, <2>1, <2>2, CodecStep
  <2>4. Safe(c, o, q, St("titled"))
    <3>1. St("titled") = <<"titled", 0>> /\ St("ready") = <<"ready", 0>>
          /\ St("spent") = <<"spent", 0>>
      BY DEF St
    <3> QED
      BY <1>1, <1>3, <2>1, <2>2, <3>1, CodecStep
  <2> QED
    BY <2>3, <2>4 DEF q
<1> HIDE DEF code
<1>5. Safe(c, i, Programs[c], "fresh") /\ Safe(c, o, Programs[c], St("fresh"))
  <2>1. /\ Goes(c, i, Place(o), "fresh", "fresh")
        /\ Goes(c, i, Make(o, "codec"), "fresh", "fresh")
        /\ Goes(c, i, Get(i), "fresh", "got")
        /\ Goes(c, i, Header(o, i), "got", "here")
        /\ Goes(c, i, Pixels(i), "here", "here")
        /\ Goes(c, i, Make("packet", "codec"), "here", "here")
    BY <1>1, InputSteps, OtherSteps
  <2>2. Safe(c, i, <<Place(o), Make(o, "codec"), Get(i), Header(o, i), Pixels(i),
                     Make("packet", "codec"), code, Release(i), Free(i)>>, "fresh")
    BY <2>1, <1>4, Cons4, Cons5, Cons6, Cons7, Cons8, Cons9
  <2>3. /\ Goes(c, o, Place(o), St("fresh"), St("placed"))
        /\ Goes(c, o, Make(o, "codec"), St("placed"), St("placed"))
        /\ Goes(c, o, Get(i), St("placed"), St("placed"))
        /\ Goes(c, o, Header(o, i), St("placed"), St("titled"))
        /\ Goes(c, o, Pixels(i), St("titled"), St("titled"))
        /\ Goes(c, o, Make("packet", "codec"), St("titled"), St("titled"))
    BY <1>1, AnswerSteps, OtherSteps
  <2>4. Safe(c, o, <<Place(o), Make(o, "codec"), Get(i), Header(o, i), Pixels(i),
                     Make("packet", "codec"), code, Release(i),
                     Free(i)>>, St("fresh"))
    BY <2>3, <1>4, Cons4, Cons5, Cons6, Cons7, Cons8, Cons9
  <2>5. Programs[c] = <<Place(o), Make(o, "codec"), Get(i), Header(o, i), Pixels(i),
                        Make("packet", "codec"), code, Release(i), Free(i)>>
    BY DEF Programs, FrameDecoderRun, code
  <2> QED
    BY <2>2, <2>4, <2>5
<1> QED
  BY <1>0, <1>5, MiddleStarts

LEMMA NvmpiDecoderStarts == Starts("NvmpiDecoder")
<1> DEFINE c == "NvmpiDecoder"
           i == "in_encoded_frame"
           o == "out_frame"
           then == <<Make(o, "codec"), Log(i), Send(o)>>
           code == Codec(o, i, then)
           end == <<Release(i), Free(i)>>
<1>0. c \in Middle /\ i = InName(c) /\ o = OutName(c)
  BY DEF Middle, Encoders, Decoders, Poses, InName, OutName
<1>1. /\ Tracked(c) = {i, o} /\ InOf(c) # {} /\ i # o /\ InOf(c) \cap OutOf(c) = {}
      /\ Taken(c, i) /\ Answers(c, o) /\ Known(c, i) /\ Known(c, o)
      /\ o \in OutOf(c) \ {i} /\ i \in InOf(c) \ {o} /\ o \in OutOf(c) /\ i \in InOf(c)
      /\ c # Renderer /\ "queue" \notin OutOf(c)
      /\ c \in CodecClasses
  BY <1>0, MiddlePorts DEF Fits, CodecClasses, PacketClasses, LogsSent
<1>2. /\ \A s \in {"got", "here"} : Safe(c, i, <<Release(i), Free(i)>>, s)
      /\ \A name : Safe(c, o, <<Release(i), Free(i)>>, St(name))
  <2>1. ASSUME NEW name PROVE Safe(c, o, <<Release(i), Free(i)>>, St(name))
    <3>1. /\ Goes(c, o, Release(i), St(name), St(name))
          /\ Goes(c, o, Free(i), St(name), St(name))
          /\ Safe(c, o, << >>, St(name))
      BY <1>1, AnswerSteps, OtherSteps
    <3> QED
      BY <3>1, Cons1, Cons2
  <2> QED
    BY <1>1, <2>1, ReleaseAndFree
<1>3. Safe(c, i, then \o end, "here") /\ Safe(c, o, then \o end, St("ready"))
  <2>1. /\ Goes(c, i, Make(o, "codec"), "here", "here")
        /\ Goes(c, i, Log(i), "here", "here") /\ Goes(c, i, Send(o), "here", "here")
    BY <1>1, InputSteps, OtherSteps
  <2>2. Safe(c, i, <<Make(o, "codec"), Log(i), Send(o), Release(i),
                     Free(i)>>, "here")
    BY <2>1, <1>2, Cons3, Cons4, Cons5
  <2>3. /\ Goes(c, o, Make(o, "codec"), St("ready"), St("ready"))
        /\ Goes(c, o, Log(i), St("ready"), St("ready"))
        /\ Goes(c, o, Send(o), St("ready"), St("given"))
    BY <1>1, AnswerSteps, OtherSteps
  <2>4. Safe(c, o, <<Make(o, "codec"), Log(i), Send(o), Release(i),
                     Free(i)>>, St("ready"))
    BY <2>3, <1>2, Cons3, Cons4, Cons5
  <2>5. then \o end = <<Make(o, "codec"), Log(i), Send(o), Release(i), Free(i)>>
    BY Join3and2
  <2> QED
    BY <2>2, <2>4, <2>5
<1>4. /\ Safe(c, i, <<code, Release(i), Free(i)>>, "here")
      /\ Safe(c, o, <<code, Release(i), Free(i)>>, St("titled"))
  <2> DEFINE q == <<code, Release(i), Free(i)>>
  <2>1. q # << >> /\ Head(q) = code /\ Tail(q) = end
    OBVIOUS
  <2>2. Safe(c, i, end, "here") /\ Safe(c, o, end, St("spent"))
    BY <1>2
  <2> HIDE DEF q, end, then
  <2>3. Safe(c, i, q, "here")
    BY <1>1, <1>3, <2>1, <2>2, CodecStep
  <2>4. Safe(c, o, q, St("titled"))
    <3>1. St("titled") = <<"titled", 0>> /\ St("ready") = <<"ready", 0>>
          /\ St("spent") = <<"spent", 0>>
      BY DEF St
    <3> QED
      BY <1>1, <1>3, <2>1, <2>2, <3>1, CodecStep
  <2> QED
    BY <2>3, <2>4 DEF q
<1> HIDE DEF code
<1>5. Safe(c, i, Programs[c], "fresh") /\ Safe(c, o, Programs[c], St("fresh"))
  <2>1. /\ Goes(c, i, Place(o), "fresh", "fresh")
        /\ Goes(c, i, Get(i), "fresh", "got")
        /\ Goes(c, i, Header(o, i), "got", "here")
        /\ Goes(c, i, Pixels(i), "here", "here")
    BY <1>1, InputSteps, OtherSteps
  <2>2. Safe(c, i, <<Place(o), Get(i), Header(o, i), Pixels(i), code, Release(i),
                     Free(i)>>, "fresh")
    BY <2>1, <1>4, Cons4, Cons5, Cons6, Cons7
  <2>3. /\ Goes(c, o, Place(o), St("fresh"), St("placed"))
        /\ Goes(c, o, Get(i), St("placed"), St("placed"))
        /\ Goes(c, o, Header(o, i), St("placed"), St("titled"))
        /\ Goes(c, o, Pixels(i), St("titled"), St("titled"))
    BY <1>1, AnswerSteps, OtherSteps
  <2>4. Safe(c, o, <<Place(o), Get(i), Header(o, i), Pixels(i), code, Release(i),
                     Free(i)>>, St("fresh"))
    BY <2>3, <1>4, Cons4, Cons5, Cons6, Cons7
  <2>5. Programs[c] = <<Place(o), Get(i), Header(o, i), Pixels(i), code, Release(i),
                        Free(i)>>
    BY DEF Programs, NvmpiDecoderRun, code
  <2> QED
    BY <2>2, <2>4, <2>5
<1> QED
  BY <1>0, <1>5, MiddleStarts

LEMMA NvmpiEncoderStarts == Starts("NvmpiEncoder")
<1> DEFINE c == "NvmpiEncoder"
           i == "in_frame"
           o == "out_encoded_frame"
           odd == Either(<<Release(i), Free(i), End("returned")>>, << >>)
<1>0. c \in Middle /\ i = InName(c) /\ o = OutName(c)
  BY DEF Middle, Encoders, Decoders, Poses, InName, OutName
<1>1. /\ Tracked(c) = {i, o} /\ InOf(c) # {} /\ i # o /\ InOf(c) \cap OutOf(c) = {}
      /\ Taken(c, i) /\ Answers(c, o) /\ Known(c, i) /\ Known(c, o)
      /\ o \in OutOf(c) \ {i} /\ i \in InOf(c) \ {o} /\ o \in OutOf(c) /\ i \in InOf(c)
      /\ c # Renderer /\ "queue" \notin OutOf(c)
      /\ c \notin CodecClasses /\ c \in LogsSent
  BY <1>0, MiddlePorts DEF Fits, CodecClasses, PacketClasses, LogsSent
<1>2. /\ \A s \in {"got", "here"} : Safe(c, i, <<Release(i), Free(i)>>, s)
      /\ \A name : Safe(c, o, <<Release(i), Free(i)>>, St(name))
  <2>1. ASSUME NEW name PROVE Safe(c, o, <<Release(i), Free(i)>>, St(name))
    <3>1. /\ Goes(c, o, Release(i), St(name), St(name))
          /\ Goes(c, o, Free(i), St(name), St(name))
          /\ Safe(c, o, << >>, St(name))
      BY <1>1, AnswerSteps, OtherSteps
    <3> QED
      BY <3>1, Cons1, Cons2
  <2> QED
    BY <1>1, <2>1, ReleaseAndFree
<1>3. /\ Safe(c, i, <<Pixels(i), Make(o, i), Header(o, i), Send(o), Log(o),
                   Release(i), Free(i)>>, "here")
      /\ Safe(c, o, <<Pixels(i), Make(o, i), Header(o, i), Send(o), Log(o),
                   Release(i), Free(i)>>, St("placed"))
  <2>1. /\ Goes(c, i, Pixels(i), "here", "here")
        /\ Goes(c, i, Make(o, i), "here", "here")
        /\ Goes(c, i, Header(o, i), "here", "here")
        /\ Goes(c, i, Send(o), "here", "here") /\ Goes(c, i, Log(o), "here", "here")
    BY <1>1, InputSteps, OtherSteps
  <2>2. Safe(c, i, <<Pixels(i), Make(o, i), Header(o, i), Send(o), Log(o),
                     Release(i), Free(i)>>, "here")
    BY <2>1, <1>2, Cons3, Cons4, Cons5, Cons6, Cons7
  <2>3. /\ Goes(c, o, Pixels(i), St("placed"), St("placed"))
        /\ Goes(c, o, Make(o, i), St("placed"), St("filled"))
        /\ Goes(c, o, Header(o, i), St("filled"), St("ready"))
        /\ Goes(c, o, Send(o), St("ready"), St("given"))
        /\ Goes(c, o, Log(o), St("given"), St("given"))
    BY <1>1, AnswerSteps, OtherSteps
  <2>4. Safe(c, o, <<Pixels(i), Make(o, i), Header(o, i), Send(o), Log(o),
                     Release(i), Free(i)>>, St("placed"))
    BY <2>3, <1>2, Cons3, Cons4, Cons5, Cons6, Cons7
  <2> QED
    BY <2>2, <2>4
<1>4. /\ Safe(c, i, <<odd, Pixels(i), Make(o, i), Header(o, i), Send(o), Log(o), Release(i), Free(i)>>, "here")
      /\ Safe(c, o, <<odd, Pixels(i), Make(o, i), Header(o, i), Send(o), Log(o), Release(i), Free(i)>>, St("placed"))
  <2> DEFINE q == <<odd, Pixels(i), Make(o, i), Header(o, i), Send(o), Log(o), Release(i), Free(i)>>
             r == <<Pixels(i), Make(o, i), Header(o, i), Send(o), Log(o), Release(i), Free(i)>>
             x == <<Release(i), Free(i), End("returned"), Pixels(i), Make(o, i), Header(o, i), Send(o), Log(o), Release(i), Free(i)>>
  <2>1. q # << >> /\ Head(q) = odd /\ Tail(q) = r
    OBVIOUS
  <2>2. <<Release(i), Free(i), End("returned")>> \o r = x
    BY Join3and7
  <2>3. << >> \o r = r
    OBVIOUS
  <2>4. /\ x # << >> /\ Head(x) = Release(i)
        /\ Tail(x) # << >> /\ Head(Tail(x)) = Free(i)
        /\ Tail(Tail(x)) # << >> /\ Head(Tail(Tail(x))) = End("returned")
    OBVIOUS
  <2>5. Safe(c, i, r, "here") /\ Safe(c, o, r, St("placed"))
    BY <1>3
  <2> HIDE DEF q, r, x, c, i, o
  <2>6. Safe(c, i, q, "here") /\ Safe(c, o, q, St("placed"))
    BY <1>0, <2>1, <2>2, <2>3, <2>4, <2>5, MayReturn
  <2> QED
    BY <2>6 DEF q
<1> HIDE DEF odd
<1>5. Safe(c, i, Programs[c], "fresh") /\ Safe(c, o, Programs[c], St("fresh"))
  <2>1. /\ Goes(c, i, Place(o), "fresh", "fresh")
        /\ Goes(c, i, Get(i), "fresh", "got") /\ Goes(c, i, Use(i), "got", "here")
    BY <1>1, InputSteps, OtherSteps
  <2>2. Safe(c, i, <<Place(o), Get(i), Use(i), odd, Pixels(i), Make(o, i),
                     Header(o, i), Send(o), Log(o), Release(i), Free(i)>>, "fresh")
    BY <2>1, <1>4, Cons9, Cons10, Cons11
  <2>3. /\ Goes(c, o, Place(o), St("fresh"), St("placed"))
        /\ Goes(c, o, Get(i), St("placed"), St("placed"))
        /\ Goes(c, o, Use(i), St("placed"), St("placed"))
    BY <1>1, AnswerSteps, OtherSteps
  <2>4. Safe(c, o, <<Place(o), Get(i), Use(i), odd, Pixels(i), Make(o, i),
                     Header(o, i), Send(o), Log(o), Release(i),
                     Free(i)>>, St("fresh"))
    BY <2>3, <1>4, Cons9, Cons10, Cons11
  <2>5. Programs[c] = <<Place(o), Get(i), Use(i), odd, Pixels(i), Make(o, i),
                        Header(o, i), Send(o), Log(o), Release(i), Free(i)>>
    <3>1. <<Place(o), Get(i)>> \o <<Use(i), odd>>
          = <<Place(o), Get(i), Use(i), odd>>
      BY Join2and2
    <3>2. <<Place(o), Get(i), Use(i), odd>> \o <<Pixels(i), Make(o, i), Header(o, i), Send(o), Log(o), Release(i), Free(i)>>
          = <<Place(o), Get(i), Use(i), odd, Pixels(i), Make(o, i), Header(o, i),
              Send(o), Log(o), Release(i), Free(i)>>
      BY Join4and7
    <3> QED
      BY <3>1, <3>2 DEF Programs, NvmpiEncoderRun, OtherSize, odd
  <2> QED
    BY <2>2, <2>4, <2>5
<1> QED
  BY <1>0, <1>5, MiddleStarts

LEMMA FrameConverterStarts == Starts("FrameConverter")
<1> DEFINE c == "FrameConverter"
           i == "in_frame"
           o == "out_frame"
<1>0. c \in Middle /\ i = InName(c) /\ o = OutName(c)
  BY DEF Middle, Encoders, Decoders, Poses, InName, OutName
<1>1. /\ Tracked(c) = {i, o} /\ InOf(c) # {} /\ i # o /\ InOf(c) \cap OutOf(c) = {}
      /\ Taken(c, i) /\ Answers(c, o) /\ Known(c, i) /\ Known(c, o)
      /\ o \in OutOf(c) \ {i} /\ i \in InOf(c) \ {o} /\ o \in OutOf(c) /\ i \in InOf(c)
      /\ c # Renderer /\ "queue" \notin OutOf(c)
      /\ c \notin CodecClasses
  BY <1>0, MiddlePorts DEF Fits, CodecClasses, PacketClasses, LogsSent
<1>2. Safe(c, i, << >>, "done") /\ \A name : Safe(c, o, << >>, St(name))
  BY <1>1, InputSteps, AnswerSteps
<1>3. Safe(c, i, Programs[c], "fresh") /\ Safe(c, o, Programs[c], St("fresh"))
  <2>1. /\ Goes(c, i, Get(i), "fresh", "got") /\ Goes(c, i, Use(i), "got", "here")
        /\ Goes(c, i, Place(o), "here", "here")
        /\ Goes(c, i, Header(o, i), "here", "here")
        /\ Goes(c, i, Pixels(i), "here", "here")
        /\ Goes(c, i, Make(o, i), "here", "here")
        /\ Goes(c, i, Release(i), "here", "empty")
        /\ Goes(c, i, Send(o), "empty", "empty")
        /\ Goes(c, i, Free(i), "empty", "done")
    BY <1>1, InputSteps, OtherSteps
  <2>2. Safe(c, i, <<Get(i), Use(i), Place(o), Header(o, i), Pixels(i), Make(o, i),
                     Release(i), Send(o), Free(i)>>, "fresh")
    BY <2>1, <1>2, Cons1, Cons2, Cons3, Cons4, Cons5, Cons6, Cons7, Cons8, Cons9
  <2>3. /\ Goes(c, o, Get(i), St("fresh"), St("fresh"))
        /\ Goes(c, o, Use(i), St("fresh"), St("fresh"))
        /\ Goes(c, o, Place(o), St("fresh"), St("placed"))
        /\ Goes(c, o, Header(o, i), St("placed"), St("titled"))
        /\ Goes(c, o, Pixels(i), St("titled"), St("titled"))
        /\ Goes(c, o, Make(o, i), St("titled"), St("ready"))
        /\ Goes(c, o, Release(i), St("ready"), St("ready"))
        /\ Goes(c, o, Send(o), St("ready"), St("given"))
        /\ Goes(c, o, Free(i), St("given"), St("given"))
    BY <1>1, AnswerSteps, OtherSteps
  <2>4. Safe(c, o, <<Get(i), Use(i), Place(o), Header(o, i), Pixels(i), Make(o, i),
                     Release(i), Send(o), Free(i)>>, St("fresh"))
    BY <2>3, <1>2, Cons1, Cons2, Cons3, Cons4, Cons5, Cons6, Cons7, Cons8, Cons9
  <2>5. Programs[c] = <<Get(i), Use(i), Place(o), Header(o, i), Pixels(i),
                        Make(o, i), Release(i), Send(o), Free(i)>>
    BY DEF Programs, FrameConverterRun
  <2> QED
    BY <2>2, <2>4, <2>5
<1> QED
  BY <1>0, <1>3, MiddleStarts

LEMMA ArUcoDetectorStarts == Starts("ArUcoDetector")
<1> DEFINE c == "ArUcoDetector"
           i == "in_frame"
           o == "out_marker_pose"
           choice == Either(<<Header(o, i), Write(o, i), Send(o)>>, << >>)
           end == <<Release(i), Free(i)>>
<1>0. c \in Middle /\ i = InName(c) /\ o = OutName(c)
  BY DEF Middle, Encoders, Decoders, Poses, InName, OutName
<1>1. /\ Tracked(c) = {i, o} /\ InOf(c) # {} /\ i # o /\ InOf(c) \cap OutOf(c) = {}
      /\ Taken(c, i) /\ Answers(c, o) /\ Known(c, i) /\ Known(c, o)
      /\ o \in OutOf(c) \ {i} /\ i \in InOf(c) \ {o} /\ o \in OutOf(c) /\ i \in InOf(c)
      /\ c # Renderer /\ "queue" \notin OutOf(c)
      /\ c \notin CodecClasses
  BY <1>0, MiddlePorts DEF Fits, CodecClasses, PacketClasses, LogsSent
<1>2. /\ \A s \in {"got", "here"} : Safe(c, i, <<Release(i), Free(i)>>, s)
      /\ \A name : Safe(c, o, <<Release(i), Free(i)>>, St(name))
  <2>1. ASSUME NEW name PROVE Safe(c, o, <<Release(i), Free(i)>>, St(name))
    <3>1. /\ Goes(c, o, Release(i), St(name), St(name))
          /\ Goes(c, o, Free(i), St(name), St(name))
          /\ Safe(c, o, << >>, St(name))
      BY <1>1, AnswerSteps, OtherSteps
    <3> QED
      BY <3>1, Cons1, Cons2
  <2> QED
    BY <1>1, <2>1, ReleaseAndFree
<1>3. /\ Safe(c, i, <<Header(o, i), Write(o, i), Send(o), Release(i), Free(i)>>, "here")
      /\ Safe(c, o, <<Header(o, i), Write(o, i), Send(o), Release(i), Free(i)>>, St("placed"))
  <2>1. /\ Goes(c, i, Header(o, i), "here", "here")
        /\ Goes(c, i, Write(o, i), "here", "here")
        /\ Goes(c, i, Send(o), "here", "here")
    BY <1>1, InputSteps, OtherSteps
  <2>2. Safe(c, i, <<Header(o, i), Write(o, i), Send(o), Release(i),
                     Free(i)>>, "here")
    BY <2>1, <1>2, Cons3, Cons4, Cons5
  <2>3. /\ Goes(c, o, Header(o, i), St("placed"), St("titled"))
        /\ Goes(c, o, Write(o, i), St("titled"), St("ready"))
        /\ Goes(c, o, Send(o), St("ready"), St("given"))
    BY <1>1, AnswerSteps, OtherSteps
  <2>4. Safe(c, o, <<Header(o, i), Write(o, i), Send(o), Release(i),
                     Free(i)>>, St("placed"))
    BY <2>3, <1>2, Cons3, Cons4, Cons5
  <2> QED
    BY <2>2, <2>4
<1>4. /\ Safe(c, i, <<choice, Release(i), Free(i)>>, "here")
      /\ Safe(c, o, <<choice, Release(i), Free(i)>>, St("placed"))
  <2> DEFINE q == <<choice, Release(i), Free(i)>>
             r == <<Header(o, i), Write(o, i), Send(o), Release(i), Free(i)>>
             none == << >>
             det == <<Header(o, i), Write(o, i), Send(o)>>
  <2>1. q # << >> /\ Head(q) = Either(det, none) /\ Tail(q) = end
    OBVIOUS
  <2>2. det \o end = r
    BY Join3and2
  <2>3. none \o end = end /\ Known(c, i) /\ Known(c, o)
    BY <1>1
  <2>4. Safe(c, i, end, "here") /\ Safe(c, o, end, St("placed"))
    BY <1>2
  <2>5. Safe(c, i, r, "here") /\ Safe(c, o, r, St("placed"))
    BY <1>3
  <2> HIDE DEF q, r, end, none, det, c, i, o
  <2>6. Safe(c, i, q, "here")
    BY <2>1, <2>2, <2>3, <2>4, <2>5, EitherStep
  <2>7. Safe(c, o, q, St("placed"))
    BY <2>1, <2>2, <2>3, <2>4, <2>5, EitherStep
  <2> QED
    BY <2>6, <2>7 DEF q
<1> HIDE DEF choice
<1>5. Safe(c, i, Programs[c], "fresh") /\ Safe(c, o, Programs[c], St("fresh"))
  <2>1. /\ Goes(c, i, Get(i), "fresh", "got") /\ Goes(c, i, Place(o), "got", "got")
        /\ Goes(c, i, Pixels(i), "got", "here")
    BY <1>1, InputSteps, OtherSteps
  <2>2. Safe(c, i, <<Get(i), Place(o), Pixels(i), choice, Release(i),
                     Free(i)>>, "fresh")
    BY <2>1, <1>4, Cons4, Cons5, Cons6
  <2>3. /\ Goes(c, o, Get(i), St("fresh"), St("fresh"))
        /\ Goes(c, o, Place(o), St("fresh"), St("placed"))
        /\ Goes(c, o, Pixels(i), St("placed"), St("placed"))
    BY <1>1, AnswerSteps, OtherSteps
  <2>4. Safe(c, o, <<Get(i), Place(o), Pixels(i), choice, Release(i),
                     Free(i)>>, St("fresh"))
    BY <2>3, <1>4, Cons4, Cons5, Cons6
  <2>5. Programs[c] = <<Get(i), Place(o), Pixels(i), choice, Release(i), Free(i)>>
    <3>1. <<Header(o, i), Write(o, i)>> \o <<Send(o)>>
          = <<Header(o, i), Write(o, i), Send(o)>>
      BY Join2and1
    <3> QED
      BY <3>1 DEF Programs, ArUcoDetectorRun, Locate, choice
  <2> QED
    BY <2>2, <2>4, <2>5
<1> QED
  BY <1>0, <1>5, MiddleStarts

LEMMA ArUcoCamLocatorStarts == Starts("ArUcoCamLocator")
<1> DEFINE c == "ArUcoCamLocator"
           i == "in_frame"
           o == "out_cam_pose"
           choice == Either(<<Header(o, i), Write(o, i), Send(o)>>, << >>)
           end == <<Release(i), Free(i)>>
<1>0. c \in Middle /\ i = InName(c) /\ o = OutName(c)
  BY DEF Middle, Encoders, Decoders, Poses, InName, OutName
<1>1. /\ Tracked(c) = {i, o} /\ InOf(c) # {} /\ i # o /\ InOf(c) \cap OutOf(c) = {}
      /\ Taken(c, i) /\ Answers(c, o) /\ Known(c, i) /\ Known(c, o)
      /\ o \in OutOf(c) \ {i} /\ i \in InOf(c) \ {o} /\ o \in OutOf(c) /\ i \in InOf(c)
      /\ c # Renderer /\ "queue" \notin OutOf(c)
      /\ c \notin CodecClasses
  BY <1>0, MiddlePorts DEF Fits, CodecClasses, PacketClasses, LogsSent
<1>2. /\ \A s \in {"got", "here"} : Safe(c, i, <<Release(i), Free(i)>>, s)
      /\ \A name : Safe(c, o, <<Release(i), Free(i)>>, St(name))
  <2>1. ASSUME NEW name PROVE Safe(c, o, <<Release(i), Free(i)>>, St(name))
    <3>1. /\ Goes(c, o, Release(i), St(name), St(name))
          /\ Goes(c, o, Free(i), St(name), St(name))
          /\ Safe(c, o, << >>, St(name))
      BY <1>1, AnswerSteps, OtherSteps
    <3> QED
      BY <3>1, Cons1, Cons2
  <2> QED
    BY <1>1, <2>1, ReleaseAndFree
<1>3. /\ Safe(c, i, <<Header(o, i), Write(o, i), Send(o), Release(i), Free(i)>>, "here")
      /\ Safe(c, o, <<Header(o, i), Write(o, i), Send(o), Release(i), Free(i)>>, St("placed"))
  <2>1. /\ Goes(c, i, Header(o, i), "here", "here")
        /\ Goes(c, i, Write(o, i), "here", "here")
        /\ Goes(c, i, Send(o), "here", "here")
    BY <1>1, InputSteps, OtherSteps
  <2>2. Safe(c, i, <<Header(o, i), Write(o, i), Send(o), Release(i),
                     Free(i)>>, "here")
    BY <2>1, <1>2, Cons3, Cons4, Cons5
  <2>3. /\ Goes(c, o, Header(o, i), St("placed"), St("titled"))
        /\ Goes(c, o, Write(o, i), St("titled"), St("ready"))
        /\ Goes(c, o, Send(o), St("ready"), St("given"))
    BY <1>1, AnswerSteps, OtherSteps
  <2>4. Safe(c, o, <<Header(o, i), Write(o, i), Send(o), Release(i),
                     Free(i)>>, St("placed"))
    BY <2>3, <1>2, Cons3, Cons4, Cons5
  <2> QED
    BY <2>2, <2>4
<1>4. /\ Safe(c, i, <<choice, Release(i), Free(i)>>, "here")
      /\ Safe(c, o, <<choice, Release(i), Free(i)>>, St("placed"))
  <2> DEFINE q == <<choice, Release(i), Free(i)>>
             r == <<Header(o, i), Write(o, i), Send(o), Release(i), Free(i)>>
             none == << >>
             det == <<Header(o, i), Write(o, i), Send(o)>>
  <2>1. q # << >> /\ Head(q) = Either(det, none) /\ Tail(q) = end
    OBVIOUS
  <2>2. det \o end = r
    BY Join3and2
  <2>3. none \o end = end /\ Known(c, i) /\ Known(c, o)
    BY <1>1
  <2>4. Safe(c, i, end, "here") /\ Safe(c, o, end, St("placed"))
    BY <1>2
  <2>5. Safe(c, i, r, "here") /\ Safe(c, o, r, St("placed"))
    BY <1>3
  <2> HIDE DEF q, r, end, none, det, c, i, o
  <2>6. Safe(c, i, q, "here")
    BY <2>1, <2>2, <2>3, <2>4, <2>5, EitherStep
  <2>7. Safe(c, o, q, St("placed"))
    BY <2>1, <2>2, <2>3, <2>4, <2>5, EitherStep
  <2> QED
    BY <2>6, <2>7 DEF q
<1> HIDE DEF choice
<1>5. Safe(c, i, Programs[c], "fresh") /\ Safe(c, o, Programs[c], St("fresh"))
  <2>1. /\ Goes(c, i, Get(i), "fresh", "got") /\ Goes(c, i, Place(o), "got", "got")
        /\ Goes(c, i, Pixels(i), "got", "here")
    BY <1>1, InputSteps, OtherSteps
  <2>2. Safe(c, i, <<Get(i), Place(o), Pixels(i), choice, Release(i),
                     Free(i)>>, "fresh")
    BY <2>1, <1>4, Cons4, Cons5, Cons6
  <2>3. /\ Goes(c, o, Get(i), St("fresh"), St("fresh"))
        /\ Goes(c, o, Place(o), St("fresh"), St("placed"))
        /\ Goes(c, o, Pixels(i), St("placed"), St("placed"))
    BY <1>1, AnswerSteps, OtherSteps
  <2>4. Safe(c, o, <<Get(i), Place(o), Pixels(i), choice, Release(i),
                     Free(i)>>, St("fresh"))
    BY <2>3, <1>4, Cons4, Cons5, Cons6
  <2>5. Programs[c] = <<Get(i), Place(o), Pixels(i), choice, Release(i), Free(i)>>
    <3>1. <<Header(o, i), Write(o, i)>> \o <<Send(o)>>
          = <<Header(o, i), Write(o, i), Send(o)>>
      BY Join2and1
    <3> QED
      BY <3>1 DEF Programs, ArUcoCamLocatorRun, Locate, choice
  <2> QED
    BY <2>2, <2>4, <2>5
<1> QED
  BY <1>0, <1>5, MiddleStarts

LEMMA OrbCamLocatorsStart ==
  ASSUME NEW c \in {"OrbCamLocator", "CudaOrbCamLocator"} PROVE Starts(c)
<1> DEFINE i == "in_frame"
           o == "out_cam_pose"
           choice == Either(<<Write(o, i), Send(o)>>, << >>)
           end == <<Release(i), Free(i)>>
<1>0. c \in Middle /\ i = InName(c) /\ o = OutName(c)
  BY DEF Middle, Encoders, Decoders, Poses, InName, OutName
<1>1. /\ Tracked(c) = {i, o} /\ InOf(c) # {} /\ i # o /\ InOf(c) \cap OutOf(c) = {}
      /\ Taken(c, i) /\ Answers(c, o) /\ Known(c, i) /\ Known(c, o)
      /\ o \in OutOf(c) \ {i} /\ i \in InOf(c) \ {o} /\ o \in OutOf(c) /\ i \in InOf(c)
      /\ c # Renderer /\ "queue" \notin OutOf(c)
      /\ c \notin CodecClasses
  BY <1>0, MiddlePorts DEF Fits, CodecClasses, PacketClasses, LogsSent
<1>2. /\ \A s \in {"got", "here"} : Safe(c, i, <<Release(i), Free(i)>>, s)
      /\ \A name : Safe(c, o, <<Release(i), Free(i)>>, St(name))
  <2>1. ASSUME NEW name PROVE Safe(c, o, <<Release(i), Free(i)>>, St(name))
    <3>1. /\ Goes(c, o, Release(i), St(name), St(name))
          /\ Goes(c, o, Free(i), St(name), St(name))
          /\ Safe(c, o, << >>, St(name))
      BY <1>1, AnswerSteps, OtherSteps
    <3> QED
      BY <3>1, Cons1, Cons2
  <2> QED
    BY <1>1, <2>1, ReleaseAndFree
<1>3. /\ Safe(c, i, <<Write(o, i), Send(o), Release(i), Free(i)>>, "here")
      /\ Safe(c, o, <<Write(o, i), Send(o), Release(i), Free(i)>>, St("titled"))
  <2>1. /\ Goes(c, i, Write(o, i), "here", "here")
        /\ Goes(c, i, Send(o), "here", "here")
    BY <1>1, InputSteps, OtherSteps
  <2>2. Safe(c, i, <<Write(o, i), Send(o), Release(i), Free(i)>>, "here")
    BY <2>1, <1>2, Cons3, Cons4
  <2>3. /\ Goes(c, o, Write(o, i), St("titled"), St("ready"))
        /\ Goes(c, o, Send(o), St("ready"), St("given"))
    BY <1>1, AnswerSteps, OtherSteps
  <2>4. Safe(c, o, <<Write(o, i), Send(o), Release(i), Free(i)>>, St("titled"))
    BY <2>3, <1>2, Cons3, Cons4
  <2> QED
    BY <2>2, <2>4
<1>4. /\ Safe(c, i, <<choice, Release(i), Free(i)>>, "here")
      /\ Safe(c, o, <<choice, Release(i), Free(i)>>, St("titled"))
  <2> DEFINE q == <<choice, Release(i), Free(i)>>
             r == <<Write(o, i), Send(o), Release(i), Free(i)>>
             none == << >>
             det == <<Write(o, i), Send(o)>>
  <2>1. q # << >> /\ Head(q) = Either(det, none) /\ Tail(q) = end
    OBVIOUS
  <2>2. det \o end = r
    BY Join2and2
  <2>3. none \o end = end /\ Known(c, i) /\ Known(c, o)
    BY <1>1
  <2>4. Safe(c, i, end, "here") /\ Safe(c, o, end, St("titled"))
    BY <1>2
  <2>5. Safe(c, i, r, "here") /\ Safe(c, o, r, St("titled"))
    BY <1>3
  <2> HIDE DEF q, r, end, none, det, i, o
  <2>6. Safe(c, i, q, "here")
    BY <2>1, <2>2, <2>3, <2>4, <2>5, EitherStep
  <2>7. Safe(c, o, q, St("titled"))
    BY <2>1, <2>2, <2>3, <2>4, <2>5, EitherStep
  <2> QED
    BY <2>6, <2>7 DEF q
<1> HIDE DEF choice
<1>5. Safe(c, i, Programs[c], "fresh") /\ Safe(c, o, Programs[c], St("fresh"))
  <2>1. /\ Goes(c, i, Get(i), "fresh", "got") /\ Goes(c, i, Place(o), "got", "got")
        /\ Goes(c, i, Header(o, i), "got", "here")
        /\ Goes(c, i, Pixels(i), "here", "here")
    BY <1>1, InputSteps, OtherSteps
  <2>2. Safe(c, i, <<Get(i), Place(o), Header(o, i), Pixels(i), choice, Release(i),
                     Free(i)>>, "fresh")
    BY <2>1, <1>4, Cons4, Cons5, Cons6, Cons7
  <2>3. /\ Goes(c, o, Get(i), St("fresh"), St("fresh"))
        /\ Goes(c, o, Place(o), St("fresh"), St("placed"))
        /\ Goes(c, o, Header(o, i), St("placed"), St("titled"))
        /\ Goes(c, o, Pixels(i), St("titled"), St("titled"))
    BY <1>1, AnswerSteps, OtherSteps
  <2>4. Safe(c, o, <<Get(i), Place(o), Header(o, i), Pixels(i), choice, Release(i),
                     Free(i)>>, St("fresh"))
    BY <2>3, <1>4, Cons4, Cons5, Cons6, Cons7
  <2>5. Programs[c] = <<Get(i), Place(o), Header(o, i), Pixels(i), choice,
                        Release(i), Free(i)>>
    BY DEF Programs, OrbCamLocatorRun, CudaOrbCamLocatorRun, choice
  <2> QED
    BY <2>2, <2>4, <2>5
<1> QED
  BY <1>0, <1>5, MiddleStarts

(* The pose estimator's second input has no data.                          *)
LEMMA ImuSteps ==
  ASSUME NEW c, NEW p \in InOf(c), NEW i \in InOf(c) \ {p}, NEW o \in OutOf(c),
         Known(c, p), ~HasData(c, p), p \notin OutOf(c), c \notin CodecClasses,
         c # Renderer, c \notin {"BagCamera", "ImgPlayer"}
  PROVE  /\ Goes(c, p, Get(p), "fresh", "got") /\ Goes(c, p, Use(p), "got", "here")
         /\ Goes(c, p, Free(p), "here", "done") /\ Safe(c, p, << >>, "done")
         /\ \A s : Goes(c, p, Make(o, i), s, s) /\ Goes(c, p, Header(o, i), s, s)
<1>1. Safe(c, p, << >>, "done")
  BY Ended DEF Final
<1>2. ASSUME NEW s PROVE Goes(c, p, Make(o, i), s, s) /\ Goes(c, p, Header(o, i), s, s)
  <2>1. Goes(c, p, Make(o, i), s, s)
    BY Skip DEF Known, Takes, From, Make, Step
  <2>2. Goes(c, p, Header(o, i), s, s)
    BY Skip DEF Known, Takes, Header, Step
  <2> QED
    BY <2>1, <2>2
<1> USE DEF Goes, Branching, Allowed, Takes, InAllowed, Then, InThen, Step, Known
<1>3. Goes(c, p, Get(p), "fresh", "got")
  BY DEF Get
<1>4. Goes(c, p, Use(p), "got", "here")
  BY DEF Use, CodecClasses
<1>5. Goes(c, p, Free(p), "here", "done")
  BY DEF Free
<1> HIDE DEF Goes, Branching, Allowed, Takes, InAllowed, Then, InThen, Step, Known
<1> QED
  BY <1>1, <1>2, <1>3, <1>4, <1>5

LEMMA OrbSlamPoseEstimatorStarts == Starts("OrbSlamPoseEstimator")
<1> DEFINE c == "OrbSlamPoseEstimator"
           i == "in_frame"
           m == "in_imus"
           o == "out_pose"
           choice == Either(<<Make(o, i), Header(o, i), Send(o)>>, << >>)
           end == <<Release(i), Free(i), Free(m)>>
<1>1. /\ InOf(c) = {i, m} /\ OutOf(c) = {o} /\ c \notin AppClasses /\ c \in DOMAIN Kernels
      /\ c \notin CodecClasses /\ c \notin {Renderer, "NonDisplay", "BagCamera", "ImgPlayer"}
  BY PortNames, ClassNames DEF AppClasses, CodecClasses, Renderer
<1>2. Fits(c) /\ Tracked(c) = {i, m, o}
  BY <1>1, ClassFits DEF Tracked
<1>3. /\ Taken(c, i) /\ Answers(c, o) /\ Known(c, i) /\ Known(c, o) /\ Known(c, m)
      /\ ~HasData(c, m)
  BY <1>1, <1>2 DEF Fits, Taken, Answers
<1>4. /\ InOf(c) # {} /\ i # o /\ m # o /\ i # m /\ m \in InOf(c) /\ i \in InOf(c)
      /\ m \in InOf(c) \ {i} /\ i \in InOf(c) \ {m} /\ o \in OutOf(c) \ {i}
      /\ o \in OutOf(c) \ {m} /\ m \in InOf(c) \ {o} /\ i \in InOf(c) \ {o}
      /\ o \in OutOf(c) /\ m \notin OutOf(c)
  BY <1>1
<1>5. /\ Safe(c, i, end, "here") /\ Safe(c, m, end, "here")
      /\ \A name : Safe(c, o, end, St(name))
  <2>1. /\ Goes(c, i, Release(i), "here", "empty") /\ Goes(c, i, Free(i), "empty", "done")
        /\ Goes(c, i, Free(m), "done", "done") /\ Safe(c, i, << >>, "done")
    BY <1>3, <1>4, InputSteps, OtherSteps
  <2>2. /\ Goes(c, m, Release(i), "here", "here") /\ Goes(c, m, Free(i), "here", "here")
        /\ Goes(c, m, Free(m), "here", "done") /\ Safe(c, m, << >>, "done")
    BY <1>1, <1>3, <1>4, ImuSteps, OtherSteps
  <2>3. ASSUME NEW name PROVE Safe(c, o, end, St(name))
    <3>1. /\ Goes(c, o, Release(i), St(name), St(name))
          /\ Goes(c, o, Free(i), St(name), St(name))
          /\ Goes(c, o, Free(m), St(name), St(name)) /\ Safe(c, o, << >>, St(name))
      BY <1>3, <1>4, AnswerSteps, OtherSteps
    <3> QED
      BY <3>1, Cons1, Cons2, Cons3
  <2> QED
    BY <2>1, <2>2, <2>3, Cons1, Cons2, Cons3
<1>6. /\ Safe(c, i, <<Make(o, i), Header(o, i), Send(o), Release(i), Free(i), Free(m)>>,
              "here")
      /\ Safe(c, m, <<Make(o, i), Header(o, i), Send(o), Release(i), Free(i), Free(m)>>,
              "here")
      /\ Safe(c, o, <<Make(o, i), Header(o, i), Send(o), Release(i), Free(i), Free(m)>>,
              St("placed"))
  <2>1. /\ Goes(c, i, Make(o, i), "here", "here") /\ Goes(c, i, Header(o, i), "here", "here")
        /\ Goes(c, i, Send(o), "here", "here")
    BY <1>1, <1>3, <1>4, InputSteps, OtherSteps
  <2>2. /\ Goes(c, m, Make(o, i), "here", "here") /\ Goes(c, m, Header(o, i), "here", "here")
        /\ Goes(c, m, Send(o), "here", "here")
    BY <1>1, <1>3, <1>4, ImuSteps, OtherSteps
  <2>3. /\ Goes(c, o, Make(o, i), St("placed"), St("filled"))
        /\ Goes(c, o, Header(o, i), St("filled"), St("ready"))
        /\ Goes(c, o, Send(o), St("ready"), St("given"))
    BY <1>1, <1>3, <1>4, AnswerSteps, OtherSteps
  <2>4. Safe(c, i, <<Make(o, i), Header(o, i), Send(o), Release(i), Free(i), Free(m)>>,
              "here")
    BY <2>1, <1>5, Cons4, Cons5, Cons6
  <2>5. Safe(c, m, <<Make(o, i), Header(o, i), Send(o), Release(i), Free(i), Free(m)>>,
              "here")
    BY <2>2, <1>5, Cons4, Cons5, Cons6
  <2>6. Safe(c, o, <<Make(o, i), Header(o, i), Send(o), Release(i), Free(i), Free(m)>>,
              St("placed"))
    BY <2>3, <1>5, Cons4, Cons5, Cons6
  <2> QED
    BY <2>4, <2>5, <2>6
<1>7. /\ Safe(c, i, <<choice, Release(i), Free(i), Free(m)>>, "here")
      /\ Safe(c, m, <<choice, Release(i), Free(i), Free(m)>>, "here")
      /\ Safe(c, o, <<choice, Release(i), Free(i), Free(m)>>, St("placed"))
  <2> DEFINE q == <<choice, Release(i), Free(i), Free(m)>>
             r == <<Make(o, i), Header(o, i), Send(o), Release(i), Free(i), Free(m)>>
             none == << >>
             found == <<Make(o, i), Header(o, i), Send(o)>>
  <2>1. q # << >> /\ Head(q) = Either(found, none) /\ Tail(q) = end
    OBVIOUS
  <2>2. found \o end = r
    BY Join3and3
  <2>3. none \o end = end
    OBVIOUS
  <2>4. /\ Safe(c, i, end, "here") /\ Safe(c, m, end, "here")
        /\ Safe(c, o, end, St("placed"))
    BY <1>5
  <2>5. Safe(c, i, r, "here") /\ Safe(c, m, r, "here") /\ Safe(c, o, r, St("placed"))
    BY <1>6
  <2> HIDE DEF q, r, end, none, found, c, i, o, m
  <2>6. Safe(c, i, q, "here")
    BY <1>3, <2>1, <2>2, <2>3, <2>4, <2>5, EitherStep
  <2>7. Safe(c, m, q, "here")
    BY <1>3, <2>1, <2>2, <2>3, <2>4, <2>5, EitherStep
  <2>8. Safe(c, o, q, St("placed"))
    BY <1>3, <2>1, <2>2, <2>3, <2>4, <2>5, EitherStep
  <2> QED
    BY <2>6, <2>7, <2>8 DEF q
<1> HIDE DEF choice
<1>8. /\ Safe(c, i, Programs[c], "fresh") /\ Safe(c, m, Programs[c], "fresh")
      /\ Safe(c, o, Programs[c], St("fresh"))
  <2>1. /\ Goes(c, i, Get(i), "fresh", "got") /\ Goes(c, i, Get(m), "got", "got")
        /\ Goes(c, i, Place(o), "got", "got") /\ Goes(c, i, Use(m), "got", "got")
        /\ Goes(c, i, Pixels(i), "got", "here")
    BY <1>1, <1>3, <1>4, InputSteps, OtherSteps
  <2>2. /\ Goes(c, m, Get(i), "fresh", "fresh") /\ Goes(c, m, Get(m), "fresh", "got")
        /\ Goes(c, m, Place(o), "got", "got") /\ Goes(c, m, Use(m), "got", "here")
        /\ Goes(c, m, Pixels(i), "here", "here")
    BY <1>1, <1>3, <1>4, ImuSteps, OtherSteps
  <2>3. /\ Goes(c, o, Get(i), St("fresh"), St("fresh"))
        /\ Goes(c, o, Get(m), St("fresh"), St("fresh"))
        /\ Goes(c, o, Place(o), St("fresh"), St("placed"))
        /\ Goes(c, o, Use(m), St("placed"), St("placed"))
        /\ Goes(c, o, Pixels(i), St("placed"), St("placed"))
    BY <1>1, <1>3, <1>4, AnswerSteps, OtherSteps
  <2>4. Safe(c, i, <<Get(i), Get(m), Place(o), Use(m), Pixels(i), choice, Release(i),
                     Free(i), Free(m)>>, "fresh")
    BY <2>1, <1>7, Cons5, Cons6, Cons7, Cons8, Cons9
  <2>5. Safe(c, m, <<Get(i), Get(m), Place(o), Use(m), Pixels(i), choice, Release(i),
                     Free(i), Free(m)>>, "fresh")
    BY <2>2, <1>7, Cons5, Cons6, Cons7, Cons8, Cons9
  <2>6. Safe(c, o, <<Get(i), Get(m), Place(o), Use(m), Pixels(i), choice, Release(i),
                     Free(i), Free(m)>>, St("fresh"))
    BY <2>3, <1>7, Cons5, Cons6, Cons7, Cons8, Cons9
  <2>7. Programs[c] = <<Get(i), Get(m), Place(o), Use(m), Pixels(i), choice, Release(i),
                        Free(i), Free(m)>>
    BY DEF Programs, OrbSlamPoseEstimatorRun, choice
  <2> QED
    BY <2>4, <2>5, <2>6, <2>7
<1>9. Fresh(c, i) = "fresh" /\ Fresh(c, m) = "fresh" /\ Fresh(c, o) = St("fresh")
  BY <1>2, <1>4, FreshPorts
<1> QED
  BY <1>2, <1>8, <1>9 DEF Starts

(* The renderer, which asks whether its inputs are there.                  *)
LEMMA RendererPorts ==
  ASSUME NEW c, c = Renderer, NEW f, NEW k, NEW m, NEW o,
         f = "in_frame", k = "in_key", m = "in_cam_pose", o = "out_frame"
  PROVE  /\ c \in DOMAIN Kernels /\ Fits(c) /\ Tracked(c) = {f, k, m, o}
         /\ InOf(c) = {f, k, m} /\ OutOf(c) = {o} /\ c \notin CodecClasses
         /\ HasData(c, f) /\ ~HasData(c, k) /\ ~HasData(c, m)
         /\ Answers(c, o) /\ \A p \in {f, k, m, o} : Known(c, p)
<1>1. /\ c \in DOMAIN Kernels /\ InOf(c) = {f, k, m} /\ OutOf(c) = {o}
      /\ c \notin AppClasses /\ c \notin CodecClasses /\ c \notin {"BagCamera", "ImgPlayer"}
  BY PortNames, ClassNames DEF Renderer, AppClasses, CodecClasses
<1>2. Fits(c) /\ Tracked(c) = {f, k, m, o}
  BY <1>1, ClassFits DEF Tracked
<1> QED
  BY <1>1, <1>2 DEF Fits, Answers

LEMMA RendererSteps ==
  ASSUME NEW c, c = Renderer, NEW f, NEW k, NEW m, NEW o,
         f = "in_frame", k = "in_key", m = "in_cam_pose", o = "out_frame"
  PROVE  /\ Goes(c, f, Get(f), "fresh", "got") /\ Goes(c, f, Use(f), "here", "here")
         /\ Goes(c, f, Place(o), "here", "lent") /\ Goes(c, f, Header(o, f), "lent", "lent")
         /\ Goes(c, f, Share(o, f), "lent", "empty")
         /\ Goes(c, f, Pixels(o), "empty", "empty")
         /\ Goes(c, f, Free(f), "empty", "done") /\ Goes(c, f, Free(f), "here", "left")
         /\ Goes(c, f, Free(f), "absent", "done")
         /\ Safe(c, f, << >>, "done") /\ Safe(c, f, << >>, "left")
         /\ \A p \in {k, m} :
              /\ Goes(c, p, Get(p), "fresh", "got") /\ Goes(c, p, Use(p), "here", "here")
              /\ \A s \in {"got", "here", "absent"} : Goes(c, p, Free(p), s, "done")
              /\ \A s : /\ Goes(c, p, Place(o), s, s) /\ Goes(c, p, Header(o, f), s, s)
                        /\ Goes(c, p, Share(o, f), s, s) /\ Goes(c, p, Pixels(o), s, s)
              /\ Safe(c, p, << >>, "done")
<1>0. /\ InOf(c) = {f, k, m} /\ OutOf(c) = {o} /\ c \notin CodecClasses
      /\ HasData(c, f) /\ ~HasData(c, k) /\ ~HasData(c, m) /\ c # "NonDisplay"
  BY RendererPorts DEF Renderer
<1>1. /\ Safe(c, f, << >>, "done") /\ Safe(c, f, << >>, "left")
      /\ \A p \in {k, m} : Safe(c, p, << >>, "done")
  BY <1>0, Ended DEF Final
<1> USE <1>0 DEF Goes, Branching, Allowed, Takes, InAllowed, Then, InThen, Step, From
<1>2. /\ Goes(c, f, Get(f), "fresh", "got") /\ Goes(c, f, Use(f), "here", "here")
      /\ Goes(c, f, Place(o), "here", "lent") /\ Goes(c, f, Header(o, f), "lent", "lent")
  BY DEF Get, Use, Place, Header
<1>3. /\ Goes(c, f, Share(o, f), "lent", "empty") /\ Goes(c, f, Pixels(o), "empty", "empty")
  BY DEF Share, Pixels
<1>4. /\ Goes(c, f, Free(f), "empty", "done") /\ Goes(c, f, Free(f), "here", "left")
      /\ Goes(c, f, Free(f), "absent", "done")
  BY DEF Free
<1>5. ASSUME NEW p \in {k, m}
      PROVE  /\ Goes(c, p, Get(p), "fresh", "got") /\ Goes(c, p, Use(p), "here", "here")
             /\ \A s \in {"got", "here", "absent"} : Goes(c, p, Free(p), s, "done")
  BY DEF Get, Use, Free
<1>6. ASSUME NEW p \in {k, m}, NEW s
      PROVE  /\ Goes(c, p, Place(o), s, s) /\ Goes(c, p, Header(o, f), s, s)
             /\ Goes(c, p, Share(o, f), s, s) /\ Goes(c, p, Pixels(o), s, s)
  BY DEF Place, Header, Share, Pixels
<1> HIDE DEF Goes, Branching, Allowed, Takes, InAllowed, Then, InThen, Step, From
<1> QED
  BY <1>1, <1>2, <1>3, <1>4, <1>5, <1>6

LEMMA RendererStarts == Starts(Renderer)
<1> DEFINE f == "in_frame"
           k == "in_key"
           m == "in_cam_pose"
           o == "out_frame"
           c == Renderer
           end == <<Free(f), Free(k), Free(m)>>
           shown == <<Pixels(o), Send(o), Free(f), Free(k), Free(m)>>
           ifPose == IfThere(m, <<Use(m)>>)
           drawn == <<Place(o), Header(o, f), Share(o, f), ifPose, Pixels(o), Send(o)>>
           choice == Either(drawn, << >>)
           ifFrame == IfThere(f, <<Use(f), choice>>)
           ifKey == IfThere(k, <<Use(k)>>)
           some == {"here", "absent"}
<1>1. /\ c = Renderer /\ Fits(c) /\ Tracked(c) = {f, k, m, o} /\ InOf(c) # {}
      /\ InOf(c) = {f, k, m} /\ OutOf(c) = {o} /\ Answers(c, o)
      /\ Known(c, f) /\ Known(c, k) /\ Known(c, m) /\ Known(c, o)
      /\ f # k /\ f # m /\ k # m /\ o \notin {f, k, m} /\ c \notin CodecClasses
  BY RendererPorts
<1>2. /\ o \in OutOf(c) \ {f} /\ o \in OutOf(c) \ {k} /\ o \in OutOf(c) \ {m}
      /\ \A p \in {k, m, o} : f \in InOf(c) \ {p}
      /\ \A p \in {f, m, o} : k \in InOf(c) \ {p}
      /\ \A p \in {f, k, o} : m \in InOf(c) \ {p}
      /\ f \in InOf(c) /\ k \in InOf(c) /\ m \in InOf(c) /\ o \notin InOf(c)
  BY <1>1
<1>3. /\ \A s \in {"empty", "here", "absent"} : Safe(c, f, end, s)
      /\ \A s \in {"here", "absent"} : Safe(c, k, end, s)
      /\ \A s \in {"got", "here", "absent"} : Safe(c, m, end, s)
      /\ \A name : Safe(c, o, end, St(name))
  <2>1. ASSUME NEW s \in {"empty", "here", "absent"} PROVE Safe(c, f, end, s)
    <3>1. PICK s2 \in {"done", "left"} : Goes(c, f, Free(f), s, s2) /\ Safe(c, f, << >>, s2)
      BY RendererSteps
    <3>2. Goes(c, f, Free(k), s2, s2) /\ Goes(c, f, Free(m), s2, s2)
      BY <1>1, <1>2, OtherSteps
    <3> QED
      BY <3>1, <3>2, Cons1, Cons2, Cons3
  <2>2. ASSUME NEW s \in {"here", "absent"} PROVE Safe(c, k, end, s)
    <3>1. Goes(c, k, Free(k), s, "done") /\ Safe(c, k, << >>, "done")
      BY RendererSteps
    <3>2. Goes(c, k, Free(f), s, s) /\ Goes(c, k, Free(m), "done", "done")
      BY <1>1, <1>2, OtherSteps
    <3> QED
      BY <3>1, <3>2, Cons1, Cons2, Cons3
  <2>3. ASSUME NEW s \in {"got", "here", "absent"} PROVE Safe(c, m, end, s)
    <3>1. Goes(c, m, Free(m), s, "done") /\ Safe(c, m, << >>, "done")
      BY RendererSteps
    <3>2. Goes(c, m, Free(f), s, s) /\ Goes(c, m, Free(k), s, s)
      BY <1>1, <1>2, OtherSteps
    <3> QED
      BY <3>1, <3>2, Cons1, Cons2, Cons3
  <2>4. ASSUME NEW name PROVE Safe(c, o, end, St(name))
    <3>1. /\ Goes(c, o, Free(f), St(name), St(name))
          /\ Goes(c, o, Free(k), St(name), St(name))
          /\ Goes(c, o, Free(m), St(name), St(name)) /\ Safe(c, o, << >>, St(name))
      BY <1>1, <1>2, AnswerSteps, OtherSteps
    <3> QED
      BY <3>1, Cons1, Cons2, Cons3
  <2> QED
    BY <2>1, <2>2, <2>3, <2>4
<1>4. /\ Safe(c, f, shown, "empty") /\ \A s \in some : Safe(c, k, shown, s)
      /\ \A s \in some : Safe(c, m, shown, s) /\ Safe(c, o, shown, St("ready"))
  <2>1. Goes(c, f, Pixels(o), "empty", "empty") /\ Goes(c, f, Send(o), "empty", "empty")
    BY <1>1, <1>2, RendererSteps, OtherSteps
  <2>2. ASSUME NEW s, NEW p \in {k, m}
        PROVE  Goes(c, p, Pixels(o), s, s) /\ Goes(c, p, Send(o), s, s)
    BY <1>1, <1>2, RendererSteps, OtherSteps
  <2>3. /\ Goes(c, o, Pixels(o), St("ready"), St("ready"))
        /\ Goes(c, o, Send(o), St("ready"), St("given"))
    BY <1>1, AnswerSteps
  <2>4. Safe(c, f, shown, "empty")
    BY <1>3, <2>1, Cons4, Cons5
  <2>5. ASSUME NEW s \in some PROVE Safe(c, k, shown, s)
    BY <1>3, <2>2, Cons4, Cons5
  <2>6. ASSUME NEW s \in some PROVE Safe(c, m, shown, s)
    BY <1>3, <2>2, Cons4, Cons5
  <2>7. Safe(c, o, shown, St("ready"))
    BY <1>3, <2>3, Cons4, Cons5
  <2> QED
    BY <2>4, <2>5, <2>6, <2>7
<1> HIDE DEF c
<1>5. /\ Safe(c, f, <<ifPose, Pixels(o), Send(o), Free(f), Free(k), Free(m)>>, "empty")
      /\ \A s \in some :
           Safe(c, k, <<ifPose, Pixels(o), Send(o), Free(f), Free(k), Free(m)>>, s)
      /\ Safe(c, m, <<ifPose, Pixels(o), Send(o), Free(f), Free(k), Free(m)>>, "got")
      /\ Safe(c, o, <<ifPose, Pixels(o), Send(o), Free(f), Free(k), Free(m)>>, St("ready"))
  <2> DEFINE q == <<ifPose, Pixels(o), Send(o), Free(f), Free(k), Free(m)>>
             r == <<Use(m), Pixels(o), Send(o), Free(f), Free(k), Free(m)>>
             a == <<Use(m)>>
  <2>1. q # << >> /\ Head(q) = IfThere(m, a) /\ << >> \o Tail(q) = shown /\ Tail(q) = shown
    OBVIOUS
  <2>2. a \o shown = r
    BY Join1and5
  <2>3. /\ Goes(c, f, Use(m), "empty", "empty") /\ Goes(c, m, Use(m), "here", "here")
        /\ Goes(c, o, Use(m), St("ready"), St("ready"))
        /\ \A s : Goes(c, k, Use(m), s, s)
    BY <1>1, <1>2, RendererSteps, OtherSteps
  <2>4. /\ Safe(c, f, r, "empty") /\ \A s \in some : Safe(c, k, r, s)
        /\ Safe(c, m, r, "here") /\ Safe(c, o, r, St("ready"))
    BY <1>4, <2>3, Cons6
  <2> HIDE DEF q, r, a, shown
  <2>5. Safe(c, f, q, "empty")
    BY <1>1, <1>2, <1>4, <2>1, <2>2, <2>4, IfThereStep
  <2>6. ASSUME NEW s \in some PROVE Safe(c, k, q, s)
    BY <1>1, <1>2, <1>4, <2>1, <2>2, <2>4, IfThereStep
  <2>7. /\ m \in InOf(c) /\ m \notin OutOf(c) /\ Known(c, m) /\ Known(c, o) /\ m # o
        /\ Safe(c, m, shown, "absent") /\ Safe(c, o, shown, St("ready"))
    BY <1>1, <1>2, <1>4
  <2> HIDE DEF f, k, m, o
  <2>8. Safe(c, m, q, "got")
    BY <2>1, <2>2, <2>4, <2>7, IfThereStep
  <2>9. Safe(c, o, q, St("ready"))
    BY <2>1, <2>2, <2>4, <2>7, IfThereStep
  <2> QED
    BY <2>5, <2>6, <2>8, <2>9 DEF q
<1> HIDE DEF ifPose
<1>6. /\ Safe(c, f, drawn \o end, "here") /\ \A s \in some : Safe(c, k, drawn \o end, s)
      /\ Safe(c, m, drawn \o end, "got") /\ Safe(c, o, drawn \o end, St("fresh"))
  <2> DEFINE r == <<Place(o), Header(o, f), Share(o, f), ifPose, Pixels(o), Send(o),
                    Free(f), Free(k), Free(m)>>
  <2>1. drawn \o end = r
    BY Join6and3
  <2>2. /\ Goes(c, f, Place(o), "here", "lent") /\ Goes(c, f, Header(o, f), "lent", "lent")
        /\ Goes(c, f, Share(o, f), "lent", "empty")
    BY <1>1, RendererSteps
  <2>3. ASSUME NEW s, NEW p \in {k, m}
        PROVE  /\ Goes(c, p, Place(o), s, s) /\ Goes(c, p, Header(o, f), s, s)
               /\ Goes(c, p, Share(o, f), s, s)
    BY <1>1, RendererSteps
  <2>4. /\ Goes(c, o, Place(o), St("fresh"), St("placed"))
        /\ Goes(c, o, Header(o, f), St("placed"), St("titled"))
        /\ Goes(c, o, Share(o, f), St("titled"), St("ready"))
    BY <1>1, <1>2, AnswerSteps
  <2>5. Safe(c, f, r, "here")
    BY <1>5, <2>2, Cons7, Cons8, Cons9
  <2>6. ASSUME NEW s \in some PROVE Safe(c, k, r, s)
    BY <1>5, <2>3, Cons7, Cons8, Cons9
  <2>7. Safe(c, m, r, "got")
    BY <1>5, <2>3, Cons7, Cons8, Cons9
  <2>8. Safe(c, o, r, St("fresh"))
    BY <1>5, <2>4, Cons7, Cons8, Cons9
  <2> QED
    BY <2>1, <2>5, <2>6, <2>7, <2>8

<1> HIDE DEF drawn
<1>7. /\ Safe(c, f, <<choice, Free(f), Free(k), Free(m)>>, "here")
      /\ \A s \in some : Safe(c, k, <<choice, Free(f), Free(k), Free(m)>>, s)
      /\ Safe(c, m, <<choice, Free(f), Free(k), Free(m)>>, "got")
      /\ Safe(c, o, <<choice, Free(f), Free(k), Free(m)>>, St("fresh"))
  <2> DEFINE q == <<choice, Free(f), Free(k), Free(m)>>
             none == << >>
  <2>1. q # << >> /\ Head(q) = Either(drawn, none) /\ Tail(q) = end
    OBVIOUS
  <2>2. none \o end = end
    OBVIOUS
  <2>3. /\ Safe(c, f, end, "here") /\ Safe(c, m, end, "got") /\ Safe(c, o, end, St("fresh"))
        /\ \A s \in some : Safe(c, k, end, s)
    BY <1>3
  <2> HIDE DEF q, none, end, f, k, m, o, some
  <2>4. Safe(c, f, q, "here")
    BY <1>1, <1>6, <2>1, <2>2, <2>3, EitherStep
  <2>5. ASSUME NEW s \in some PROVE Safe(c, k, q, s)
    BY <1>1, <1>6, <2>1, <2>2, <2>3, EitherStep
  <2>6. Safe(c, m, q, "got")
    <3>1. Known(c, m) /\ Safe(c, m, drawn \o end, "got")
      BY <1>1, <1>6
    <3> QED
      BY <2>1, <2>2, <2>3, <3>1, EitherStep
  <2>7. Safe(c, o, q, St("fresh"))
    BY <1>1, <1>6, <2>1, <2>2, <2>3, EitherStep
  <2> QED
    BY <2>4, <2>5, <2>6, <2>7 DEF q
<1> HIDE DEF choice
<1>8. /\ Safe(c, f, <<ifFrame, Free(f), Free(k), Free(m)>>, "got")
      /\ \A s \in some : Safe(c, k, <<ifFrame, Free(f), Free(k), Free(m)>>, s)
      /\ Safe(c, m, <<ifFrame, Free(f), Free(k), Free(m)>>, "got")
      /\ Safe(c, o, <<ifFrame, Free(f), Free(k), Free(m)>>, St("fresh"))
  <2> DEFINE q == <<ifFrame, Free(f), Free(k), Free(m)>>
             r == <<Use(f), choice, Free(f), Free(k), Free(m)>>
             a == <<Use(f), choice>>
  <2>1. q # << >> /\ Head(q) = IfThere(f, a) /\ << >> \o Tail(q) = end /\ Tail(q) = end
    OBVIOUS
  <2>2. a \o end = r
    BY Join2and3
  <2>3. /\ Goes(c, f, Use(f), "here", "here") /\ Goes(c, m, Use(f), "got", "got")
        /\ Goes(c, o, Use(f), St("fresh"), St("fresh"))
        /\ \A s : Goes(c, k, Use(f), s, s)
    BY <1>1, <1>2, RendererSteps, OtherSteps
  <2>4. /\ Safe(c, f, r, "here") /\ \A s \in some : Safe(c, k, r, s)
        /\ Safe(c, m, r, "got") /\ Safe(c, o, r, St("fresh"))
    BY <1>7, <2>3, Cons5
  <2>5. /\ Safe(c, f, end, "absent") /\ Safe(c, m, end, "got")
        /\ Safe(c, o, end, St("fresh")) /\ \A s \in some : Safe(c, k, end, s)
    BY <1>3
  <2> HIDE DEF q, r, a, end
  <2>6. Safe(c, f, q, "got")
    BY <1>1, <1>2, <2>1, <2>2, <2>4, <2>5, IfThereStep
  <2>7. ASSUME NEW s \in some PROVE Safe(c, k, q, s)
    BY <1>1, <1>2, <2>1, <2>2, <2>4, <2>5, IfThereStep
  <2>8. f \in InOf(c) /\ Known(c, m) /\ Known(c, o) /\ m # f /\ o # f
    BY <1>1, <1>2
  <2> HIDE DEF f, k, m, o
  <2>9. Safe(c, m, q, "got")
    BY <2>1, <2>2, <2>4, <2>5, <2>8, IfThereStep
  <2>10. Safe(c, o, q, St("fresh"))
    BY <2>1, <2>2, <2>4, <2>5, <2>8, IfThereStep
  <2> QED
    BY <2>6, <2>7, <2>9, <2>10 DEF q
<1> HIDE DEF ifFrame
<1>9. /\ Safe(c, f, <<ifKey, ifFrame, Free(f), Free(k), Free(m)>>, "got")
      /\ Safe(c, k, <<ifKey, ifFrame, Free(f), Free(k), Free(m)>>, "got")
      /\ Safe(c, m, <<ifKey, ifFrame, Free(f), Free(k), Free(m)>>, "got")
      /\ Safe(c, o, <<ifKey, ifFrame, Free(f), Free(k), Free(m)>>, St("fresh"))
  <2> DEFINE q == <<ifKey, ifFrame, Free(f), Free(k), Free(m)>>
             rest == <<ifFrame, Free(f), Free(k), Free(m)>>
             r == <<Use(k), ifFrame, Free(f), Free(k), Free(m)>>
             a == <<Use(k)>>
  <2>1. q # << >> /\ Head(q) = IfThere(k, a) /\ << >> \o Tail(q) = rest /\ Tail(q) = rest
    OBVIOUS
  <2>2. a \o rest = r
    BY Join1and4
  <2>3. /\ Goes(c, k, Use(k), "here", "here") /\ Goes(c, f, Use(k), "got", "got")
        /\ Goes(c, m, Use(k), "got", "got")
        /\ Goes(c, o, Use(k), St("fresh"), St("fresh"))
    BY <1>1, <1>2, RendererSteps, OtherSteps
  <2>4. /\ Safe(c, f, r, "got") /\ Safe(c, k, r, "here")
        /\ Safe(c, m, r, "got") /\ Safe(c, o, r, St("fresh"))
    BY <1>8, <2>3, Cons5
  <2>5. /\ Safe(c, f, rest, "got") /\ Safe(c, k, rest, "absent")
        /\ Safe(c, m, rest, "got") /\ Safe(c, o, rest, St("fresh"))
    BY <1>8
  <2> HIDE DEF q, r, a, rest
  <2>6. Safe(c, f, q, "got")
    BY <1>1, <1>2, <2>1, <2>2, <2>4, <2>5, IfThereStep
  <2>7. Safe(c, k, q, "got")
    BY <1>1, <1>2, <2>1, <2>2, <2>4, <2>5, IfThereStep
  <2>8. k \in InOf(c) /\ Known(c, m) /\ Known(c, o) /\ m # k /\ o # k
    BY <1>1, <1>2
  <2> HIDE DEF f, k, m, o
  <2>9. Safe(c, m, q, "got")
    BY <2>1, <2>2, <2>4, <2>5, <2>8, IfThereStep
  <2>10. Safe(c, o, q, St("fresh"))
    BY <2>1, <2>2, <2>4, <2>5, <2>8, IfThereStep
  <2> QED
    BY <2>6, <2>7, <2>9, <2>10 DEF q
<1> HIDE DEF ifKey
<1> DEFINE whole == <<Get(f), Get(m), Get(k), ifKey, ifFrame, Free(f), Free(k), Free(m)>>
<1>10. /\ Safe(c, f, whole, "fresh") /\ Safe(c, k, whole, "fresh")
       /\ Safe(c, m, whole, "fresh") /\ Safe(c, o, whole, St("fresh"))
  <2>1. /\ Goes(c, f, Get(f), "fresh", "got") /\ Goes(c, f, Get(m), "got", "got")
        /\ Goes(c, f, Get(k), "got", "got")
    BY <1>1, <1>2, RendererSteps, OtherSteps
  <2>2. /\ Goes(c, k, Get(f), "fresh", "fresh") /\ Goes(c, k, Get(m), "fresh", "fresh")
        /\ Goes(c, k, Get(k), "fresh", "got")
    BY <1>1, <1>2, RendererSteps, OtherSteps
  <2>3. /\ Goes(c, m, Get(f), "fresh", "fresh") /\ Goes(c, m, Get(m), "fresh", "got")
        /\ Goes(c, m, Get(k), "got", "got")
    BY <1>1, <1>2, RendererSteps, OtherSteps
  <2>4. /\ Goes(c, o, Get(f), St("fresh"), St("fresh"))
        /\ Goes(c, o, Get(m), St("fresh"), St("fresh"))
        /\ Goes(c, o, Get(k), St("fresh"), St("fresh"))
    BY <1>1, <1>2, OtherSteps
  <2>5. Safe(c, f, whole, "fresh")
    BY <1>9, <2>1, Cons6, Cons7, Cons8
  <2>6. Safe(c, k, whole, "fresh")
    BY <1>9, <2>2, Cons6, Cons7, Cons8
  <2>7. Safe(c, m, whole, "fresh")
    BY <1>9, <2>3, Cons6, Cons7, Cons8
  <2>8. Safe(c, o, whole, St("fresh"))
    BY <1>9, <2>4, Cons6, Cons7, Cons8
  <2> QED
    BY <2>5, <2>6, <2>7, <2>8
<1>11. Programs[c] = whole
  BY DEF Programs, SampleMarkerRendererRun, c, Renderer, ifKey, ifFrame, choice, drawn, ifPose
<1>12. /\ Fresh(c, f) = "fresh" /\ Fresh(c, k) = "fresh" /\ Fresh(c, m) = "fresh"
       /\ Fresh(c, o) = St("fresh")
  BY <1>1, <1>2, FreshPorts
<1>13. Starts(c)
  BY <1>1, <1>10, <1>11, <1>12 DEF Starts
<1> QED
  BY <1>13 DEF c

(* Every class starts as it may.                                           *)
LEMMA AllStart == \A c \in DOMAIN Kernels : Starts(c)
<1>1. ASSUME NEW c \in Sources PROVE Starts(c)
  BY CamerasStart, ImgPlayerStarts, KeyboardStarts, EurocStarts, AppSourceStarts DEF Sources
<1>2. ASSUME NEW c \in Displays PROVE Starts(c)
  BY CVDisplayStarts, Cv2GlRgbDisplayStarts, NonDisplayStarts, AppSinkStarts DEF Displays
<1>3. ASSUME NEW c \in Encoders \cup Decoders PROVE Starts(c)
  BY FrameEncoderStarts, NvmpiEncoderStarts, FrameDecoderStarts, NvmpiDecoderStarts
     DEF Encoders, Decoders
<1>4. ASSUME NEW c \in Poses \cup {"FrameConverter", "ArUcoDetector"} PROVE Starts(c)
  BY ArUcoCamLocatorStarts, OrbCamLocatorsStart, FrameConverterStarts, ArUcoDetectorStarts
     DEF Poses
<1> QED
  BY <1>1, <1>2, <1>3, <1>4, OrbSlamPoseEstimatorStarts, RendererStarts, ClassNames

-----------------------------------------------------------------------------
(* What a status says of the state of the kernel.                          *)
Early == {"fresh", "got", "here", "left"}
InConforms(p, s) ==
  /\ s = "fresh" => msg[p] = "none" /\ buf[p] = "none"
  /\ s # "fresh" => hdr[p] = run /\ content[p] = run
  /\ s \in {"got", "here", "lent", "empty"} => msg[p] \in {"slot", "mine", "null"}
  /\ s \in {"here", "lent", "empty"} => msg[p] # "null"
  /\ s = "got" /\ msg[p] = "null" => class = Renderer \/ inCh[p] = "copied"
  /\ s \in {"got", "here", "lent"} =>
       \/ buf[p] \in {"none", "mine"}
       \/ buf[p] = "foreign" /\ class = "NonDisplay" /\ inCh["in_frame"] = "copied"
  /\ msg[p] = "null" \/ ~HasData(class, p) \/ s \in {"empty", "done"} => buf[p] # "mine"
  /\ s = "absent" => msg[p] = "null"
  /\ s \in {"done", "left"} => msg[p] = "deleted" \/ (msg[p] = "null" /\ class = Renderer)
  /\ class = Renderer /\ p = "in_frame" /\ s \in Early => msg["out_frame"] = "none"

OutNames == {"fresh", "placed", "chosen", "titled", "filled", "ready", "spent", "given"}
Held(p) == IF outCh[p] = "raftlib" THEN "slot" ELSE "mine"
OutMessage(p, s) ==
  /\ s[1] \in OutNames
  /\ s[1] = "fresh" => msg[p] = "none" /\ buf[p] = "none"
  /\ s[1] \in OutNames \ {"fresh", "given"} =>
       msg[p] = Held(p) /\ buf[p] \in {"none", "mine"}
  /\ s[1] = "given" =>
       /\ msg[p] \in {"slot", "peer", "deleted"}
       /\ buf[p] = "mine" => \/ msg[p] = "slot"
                             \/ outCh[p] = "copied" /\ OutPort(p).coder # "CODED"

(* A source numbers its messages, and has counted s[2] times in this run().*)
(* Number is how many it had sent before.  BagCamera has taken as many     *)
(* frames; if the first of those to be cached was no image, it never takes *)
(* one.                                                                    *)
Number(s) == seq - s[2]
Frames(s) == Number(s) + IF s[1] \in {"filled", "ready", "given"} THEN 1 ELSE 0
BagConforms(n) ==
  IF Cached THEN reader.frameIndex = n % reader.cached
  ELSE /\ reader.curMsg = bag.start + n
       /\ bag.cache > 0 => n = 0 /\ Image = "null"
SourceConforms(p, s) ==
  /\ s = <<s[1], s[2]>> /\ s[2] \in {0, 1} /\ Number(s) >= 0
  /\ s[1] \in {"titled", "ready"} => hdr[p] = Number(s)
  /\ s[1] \in {"filled", "ready"} => content[p] = FrameOf(Number(s))
  /\ sent[p].hdr = IF s[1] = "given" THEN Number(s) ELSE Number(s) - 1
  /\ class = "BagCamera" => BagConforms(Frames(s))

(* ImgPlayer plays image Played(s) in this run(), the one after those of   *)
(* this lap it has sent.  Before it chooses, that may be one that is       *)
(* missing, but then all that are there have been played.                  *)
Played(s) == seq - IF s[2] = 1 THEN 1 ELSE 0
MissingAt(n) == ~reader.caching /\ n < reader.nImgs /\ n >= folder.there
PlayerFiles ==
  /\ \/ reader.nImgs = folder.listed
     \/ /\ reader.nImgs = folder.there /\ folder.there < folder.listed
        /\ ~folder.preload
  /\ folder.preload => reader.caching
  /\ reader.caching => folder.preload \/ reader.nImgs <= folder.there
Follows(p, n) == IF n = 0 THEN sent[p].hdr \in {-1, Lap} ELSE sent[p].hdr = n
PlayerConforms(p, s) ==
  /\ PlayerFiles /\ Played(s) >= 0
  /\ s \in {<<"fresh", 0>>, <<"placed", 0>>, <<"given", 2>>} =>
       /\ Follows(p, Played(s))
       /\ \/ Played(s) = 0
          \/ /\ Played(s) < reader.nImgs
             /\ reader.caching \/ Played(s) <= folder.there
  /\ s[1] \in {"chosen", "filled", "ready"} =>
       /\ s = <<s[1], s[2]>> /\ s[2] \in {0, 1}
       /\ Follows(p, Played(s)) /\ Played(s) < Lap /\ ~MissingAt(Played(s))
  /\ s[1] \in {"filled", "ready"} => content[p] = Played(s)
  /\ s[1] = "ready" => hdr[p] = Played(s) + 1
  /\ s = <<"given", 1>> =>
       sent[p].hdr = Played(s) + 1 /\ Played(s) < Lap /\ ~MissingAt(Played(s))

(* The others send what they make of their inputs, in order; the inputs in *)
(* the codec are later than all they have sent.                            *)
Ordered(p, bound) ==
  /\ sent[p].content <= bound
  /\ \A i \in 1..Len(inside) : sent[p].content < inside[i] /\ inside[i] <= bound
  /\ \A i, j \in 1..Len(inside) : i < j => inside[i] < inside[j]
AnswerConforms(p, s) ==
  /\ s = <<s[1], s[2]>> /\ s[2] = 0
  /\ class \notin CodecClasses => inside = << >>
  /\ Ordered(p, IF s[1] \in {"fresh", "placed", "titled"} THEN run - 1 ELSE run)
  /\ s[1] # "given" => sent[p].content <= run - 1
  /\ s[1] \in {"titled", "ready"} => hdr[p] = run
  /\ s[1] \in {"filled", "ready"} =>
       /\ sent[p].content < content[p]
       /\ IF inside = << >> THEN content[p] = run ELSE content[p] < run
       /\ \A i \in 1..Len(inside) : content[p] < inside[i]
Numbers(p, s) ==
  IF InOf(class) = {}
    THEN IF class = "ImgPlayer" THEN PlayerConforms(p, s) ELSE SourceConforms(p, s)
  ELSE AnswerConforms(p, s)

QueueConforms(s) ==
  s = "open" => /\ class = "Rgb2RgbaAppSink" => queue < QueueSize
                /\ class = "Rgba2RgbAppSource" => queue > 0
Conforms(p, s) ==
  /\ p \in InOf(class) => InConforms(p, s)
  /\ p \in OutOf(class) => OutMessage(p, s) /\ Numbers(p, s)
  /\ p = "queue" => QueueConforms(s)

(* The invariant.                                                          *)
MsgStates == {"none", "slot", "mine", "null", "peer", "deleted"}
BufStates == {"none", "mine", "foreign", "shared", "peer", "freed"}
Readers == [curMsg : Nat, frameIndex : Nat, cached : Nat, nImgs : Nat, caching : BOOLEAN]
Shape ==
  /\ class \in DOMAIN Kernels /\ bag \in Bags /\ folder \in Folders
  /\ inCh \in [InOf(class) -> {"raftlib", "copied"}]
  /\ outCh \in [OutOf(class) -> {"raftlib", "copied"}]
  /\ state \in {"opening", "running", "returned", "stopped", "exited", "crashed"}
  /\ run \in Nat /\ seq \in Nat /\ reader \in Readers /\ queue \in Int
  /\ msg \in [Tags -> MsgStates] /\ buf \in [Tags -> BufStates]
  /\ hdr \in [Tags -> Int] /\ content \in [Tags -> Int]
  /\ sent \in [Tags -> [hdr : Int, content : Int]]
  /\ inside \in Seq(Int)
  /\ msg["packet"] = "none" /\ (buf["packet"] = "mine" => class \in PacketClasses)
Opening ==
  state = "opening" =>
    /\ class = "BagCamera" /\ todo = Programs[class] /\ seq = 0
    /\ reader.curMsg = bag.start + reader.cached /\ reader.cached <= bag.cache
    /\ reader.frameIndex = 0
    /\ \A t \in Tags : msg[t] = "none" /\ buf[t] = "none" /\ sent[t].hdr = -1
Running ==
  state = "running" =>
    \A p \in Tracked(class) : \E s : Conforms(p, s) /\ Safe(class, p, todo, s)
Between ==
  state = "returned" =>
    /\ \A p \in OutOf(class) : Numbers(p, St("fresh"))
    /\ \A f \in faults : f[1] = "overread" => class = Renderer
KnownFault(f) ==
  \/ /\ f[1] = "stale" /\ f[2] = "Log" /\ logging
     /\ class \in LogsSent
  \/ f[1] = "data" /\ f[2] = "Release" /\ class = "NonDisplay" /\ inCh["in_frame"] = "copied"
  \/ f[1] = "overread" /\ f[3] \in InOf(class) /\ (msg[f[3]] = "null" \/ class = Renderer)
Faults == \A f \in faults : KnownFault(f)
NullInput == class # Renderer /\ \E t \in InOf(class) : inCh[t] = "copied"
Failures ==
  /\ state = "crashed" => NullInput \/ (class = "BagCamera" /\ BagLacks)
  /\ state = "exited" /\ class = "BagCamera" => BagHasOther
Losses ==
  /\ LeaksOnlyUnsent
  /\ state \in {"opening", "running", "exited", "crashed"} => lost = {}
KernelInv == Shape /\ Opening /\ Running /\ Between /\ Faults /\ Failures /\ Losses

LEMMA KernelInvariants == KernelInv => OnlyKnownFaults /\ LeaksOnlyUnsent
BY DEF KernelInv, Faults, KnownFault, Failures, NullInput, Losses, OnlyKnownFaults,
       LogsSent, Renderer, InPorts, InOf

(* The status of a port, before the step at hand.                          *)
Stands(p, s) ==
  /\ Conforms(p, s) /\ Allowed(class, p, Head(todo), s)
  /\ \A q, s2 : <<q, s2>> \in Nexts(class, p, todo, s) => Safe(class, p, q, s2)
LEMMA Standing ==
  ASSUME Running, state = "running", todo # << >>, NEW p \in Tracked(class)
  PROVE  \E s : Stands(p, s)
<1>1. PICK s : Conforms(p, s) /\ Safe(class, p, todo, s)
  BY DEF Running
<1>2. PICK S : Closed(class, p, S) /\ <<todo, s>> \in S
  BY <1>1 DEF Safe
<1>3. Allowed(class, p, Head(todo), s) /\ Nexts(class, p, todo, s) \subseteq S
  <2> DEFINE z == <<todo, s>>
  <2>1. z \in S /\ z[1] = todo /\ z[2] = s
    BY <1>2
  <2> HIDE DEF z
  <2> QED
    BY <1>2, <2>1 DEF Closed
<1>4. \A q, s2 : <<q, s2>> \in Nexts(class, p, todo, s) => Safe(class, p, q, s2)
  BY <1>2, <1>3 DEF Safe
<1> QED
  BY <1>1, <1>3, <1>4 DEF Stands

LEMMA Finished ==
  ASSUME Running, state = "running", todo = << >>, NEW p \in Tracked(class)
  PROVE  \E s : Conforms(p, s) /\ Final(class, p, s)
<1>1. PICK s : Conforms(p, s) /\ Safe(class, p, todo, s)
  BY DEF Running
<1>2. PICK S : Closed(class, p, S) /\ <<todo, s>> \in S
  BY <1>1 DEF Safe
<1>3. Final(class, p, s)
  <2> DEFINE z == <<todo, s>>
  <2>1. z \in S /\ z[1] = << >> /\ z[2] = s
    BY <1>2
  <2> HIDE DEF z
  <2> QED
    BY <1>2, <2>1 DEF Closed
<1> QED
  BY <1>1, <1>3

LEMMA Advance ==
  ASSUME Running, todo # << >>, UNCHANGED <<state, class>>,
         ASSUME NEW p \in Tracked(class), NEW s, Stands(p, s)
         PROVE  \E s2 : Conforms(p, s2)' /\ <<todo', s2>> \in Nexts(class, p, todo, s)
  PROVE  Running'
<1>1. SUFFICES ASSUME state = "running", NEW p \in Tracked(class)
               PROVE  \E s2 : Conforms(p, s2)' /\ Safe(class, p, todo', s2)
  BY DEF Running
<1>2. PICK s : Stands(p, s)
  BY <1>1, Standing
<1>3. PICK s2 : Conforms(p, s2)' /\ <<todo', s2>> \in Nexts(class, p, todo, s)
  BY <1>2
<1> QED
  BY <1>2, <1>3 DEF Stands

(* The ports of the class, and the step at hand.                           *)
LEMMA Ports ==
  ASSUME Shape
  PROVE  /\ Fits(class) /\ InPorts = InOf(class) /\ OutPorts = OutOf(class)
         /\ Tags = InOf(class) \cup OutOf(class) \cup {"packet"}
         /\ InOf(class) \cap OutOf(class) = {}
         /\ "packet" \notin InOf(class) \cup OutOf(class)
         /\ "queue" \notin InOf(class) \cup OutOf(class)
         /\ InOf(class) \cup OutOf(class) \subseteq Tracked(class)
         /\ \A p \in InOf(class) \cup OutOf(class) : Known(class, p)
         /\ \A p \in InOf(class) \cup OutOf(class) : p \notin {"", "own", "codec"}
<1>1. Fits(class)
  BY ClassFits DEF Shape
<1>2. InOf(class) \cup OutOf(class) \subseteq Tracked(class)
  BY DEF Tracked
<1>3. InPorts = InOf(class) /\ OutPorts = OutOf(class)
  BY DEF InPorts, OutPorts, InOf, OutOf
<1>4. \A p \in InOf(class) \cup OutOf(class) :
        Known(class, p) /\ p \notin {"", "own", "codec", "packet"}
  BY <1>1, <1>2 DEF Fits, Known
<1> QED
  BY <1>1, <1>2, <1>3, <1>4 DEF Fits, Tags

(* What the step reads is a port.                                          *)
LEMMA Reading ==
  ASSUME Shape, NEW p \in InOf(class) \cup OutOf(class), p \in {T, U},
         Head(todo).op \notin MayBeNull, Head(todo).op = "Log" => logging
  PROVE  p \in Reads
BY Ports DEF Reads

(* Steps that do not touch the message of an in-port.                      *)
(* What is known of the files.                                             *)
LEMMA Files ==
  ASSUME Shape
  PROVE  /\ bag.start \in Nat /\ bag.cache \in Nat /\ bag.images \in Seq(Images)
         /\ folder.listed \in Nat /\ folder.listed > 0 /\ folder.there \in Nat
         /\ folder.iterate \in BOOLEAN /\ folder.preload \in BOOLEAN
         /\ reader.curMsg \in Nat /\ reader.frameIndex \in Nat /\ reader.cached \in Nat
         /\ reader.nImgs \in Nat /\ reader.caching \in BOOLEAN /\ seq \in Nat
BY RunAssumption DEF Shape, Readers

LEMMA InKept ==
  ASSUME Shape, Sound, UNCHANGED <<fixed, run>>, NEW p \in InOf(class), NEW s, NEW s2,
         Stands(p, s), s2 = InThen(class, p, Head(todo), s),
         Head(todo).op \in {"Use", "Pixels", "Log", "Make", "Write", "Header", "Send",
                            "Count", "Enqueue", "Dequeue", "Codec"},
         msg'[p] = msg[p], buf'[p] = buf[p], hdr'[p] = hdr[p], content'[p] = content[p],
         class = Renderer /\ p = "in_frame" /\ s \in Early =>
           msg'["out_frame"] = msg["out_frame"]
  PROVE  InConforms(p, s2)'
<1> DEFINE x == Head(todo)
<1>1. InConforms(p, s) /\ Takes(class, x) /\ InAllowed(class, p, x, s)
  BY DEF Stands, Conforms, Allowed
<1>2. CASE p \notin {T, U} \/ x.op = "Log"
  <2>1. s2 = s
    BY <1>2 DEF InThen, T, U
  <2> QED
    BY <1>1, <2>1 DEF InConforms, fixed
<1>3. CASE p \in {T, U} /\ x.op # "Log"
  <2>1. x.op \notin {"Count", "Enqueue", "Dequeue"}
    BY <1>1, <1>3, Ports DEF Takes, T, U
  <2>2. p \in Reads
    BY <1>3, <2>1, Reading DEF MayBeNull
  <2>3. msg[p] # "null"
    BY <2>2 DEF Sound
  <2>4. s \in {"here", "lent", "got"} /\ s2 = IF s = "got" THEN "here" ELSE s
    BY <1>1, <1>3, <2>1 DEF InAllowed, InThen, T, U
  <2>5. /\ s = "got" => s2 = "here" /\ s2 \in Early /\ s \in Early
        /\ s # "got" => s2 = s
    BY <2>4 DEF Early
  <2> QED
    BY <1>1, <2>3, <2>4, <2>5 DEF InConforms, fixed
<1> QED
  BY <1>2, <1>3

LEMMA OutKept ==
  ASSUME Shape, UNCHANGED fixed, NEW p, NEW s, OutMessage(p, s),
         msg'[p] = msg[p], buf'[p] = buf[p]
  PROVE  OutMessage(p, s)'
BY DEF OutMessage, Held, OutPort, fixed

LEMMA PlayerKept ==
  ASSUME UNCHANGED <<fixed, seq, reader>>, NEW p, NEW s, PlayerConforms(p, s),
         hdr'[p] = hdr[p], content'[p] = content[p], sent'[p] = sent[p]
  PROVE  PlayerConforms(p, s)'
BY DEF PlayerConforms, PlayerFiles, Played, MissingAt, Follows, Lap, fixed

LEMMA NumbersKept ==
  ASSUME UNCHANGED <<fixed, run, seq, reader, inside>>, NEW p, NEW s, Numbers(p, s),
         hdr'[p] = hdr[p], content'[p] = content[p], sent'[p] = sent[p]
  PROVE  Numbers(p, s)'
<1>1. CASE InOf(class) = {} /\ class = "ImgPlayer"
  BY <1>1, PlayerKept DEF Numbers, fixed
<1>2. CASE InOf(class) = {} /\ class # "ImgPlayer"
  BY <1>2 DEF Numbers, SourceConforms, Number, Frames, FrameOf, BagConforms, Cached,
              Image, fixed
<1>3. CASE InOf(class) # {}
  BY <1>3 DEF Numbers, AnswerConforms, Ordered, fixed
<1> QED
  BY <1>1, <1>2, <1>3

(* A step other than a branch, a return and the codec.                     *)
LEMMA SimpleStep ==
  ASSUME Shape, Running, todo # << >>, UNCHANGED <<fixed, state>>, todo' = Rest,
         Head(todo).op \notin Branching,
         \A p \in InOf(class) : \A s, s2 :
           Stands(p, s) /\ s2 = InThen(class, p, Head(todo), s) => InConforms(p, s2)',
         \A p \in OutOf(class) : \A s, s2 :
           Stands(p, s) /\ s2 = OutThen(class, p, Head(todo), s)
             => OutMessage(p, s2)' /\ Numbers(p, s2)',
         \/ queue' = queue /\ Head(todo).op \notin {"Enqueue", "Dequeue"}
         \/ Head(todo).op \in {"Enqueue", "Dequeue"}
  PROVE  Running'
<1>1. ASSUME NEW p \in Tracked(class), NEW s, Stands(p, s)
      PROVE  \E s2 : Conforms(p, s2)' /\ <<todo', s2>> \in Nexts(class, p, todo, s)
  <2> DEFINE z == Then(class, p, Head(todo), s)
  <2>1. PICK s2 : s2 = z
    OBVIOUS
  <2>2. <<todo', s2>> \in Nexts(class, p, todo, s)
    BY <2>1 DEF Nexts, Branching, Rest
  <2>3. CASE p \in InOf(class)
    <3>1. s2 = InThen(class, p, Head(todo), s)
      BY <2>1, <2>3 DEF Then
    <3>2. InConforms(p, s2)'
      BY <1>1, <2>3, <3>1
    <3>3. p \notin OutOf(class') /\ p # "queue"
      BY <2>3, Ports DEF fixed
    <3> QED
      BY <2>2, <3>2, <3>3 DEF Conforms
  <2>4. CASE p \in OutOf(class)
    <3>0. p \notin InOf(class)
      BY <2>4, Ports
    <3>1. s2 = OutThen(class, p, Head(todo), s)
      BY <2>1, <2>4, <3>0 DEF Then
    <3>2. OutMessage(p, s2)' /\ Numbers(p, s2)'
      BY <1>1, <2>4, <3>1
    <3>3. p \notin InOf(class') /\ p # "queue"
      BY <2>4, <3>0, Ports DEF fixed
    <3> QED
      BY <2>2, <3>2, <3>3 DEF Conforms
  <2>5. CASE p \notin InOf(class) \cup OutOf(class)
    <3>1. p \notin InOf(class') \cup OutOf(class') /\ p = "queue"
      BY <2>5 DEF fixed, Tracked
    <3>2. s2 = IF Head(todo).op \in {"Enqueue", "Dequeue"} THEN "shut" ELSE s
      BY <2>1, <2>5 DEF Then
    <3>3. QueueConforms(s)
      BY <1>1, <3>1 DEF Stands, Conforms
    <3>4. QueueConforms(s2)'
      BY <3>2, <3>3 DEF QueueConforms, fixed
    <3> QED
      BY <2>2, <3>1, <3>4 DEF Conforms
  <2> QED
    BY <2>3, <2>4, <2>5
<1>2. UNCHANGED <<state, class>>
  BY DEF fixed
<1> QED
  BY <1>1, <1>2, Advance

(* What a step reads is a message of the kernel, but for the logs of what  *)
(* it has sent, and it is null only if it came over copying channels.      *)
LEMMA ReadsOwned ==
  ASSUME Shape, Running, state = "running", todo # << >>, NEW t \in Reads
  PROVE  /\ msg[t] \in {"peer", "deleted"} =>
              Head(todo).op = "Log" /\ logging /\ class \in LogsSent
         /\ msg[t] = "null" => NullInput
         /\ Head(todo).op \in {"Pixels", "Release", "Send"} /\ msg[t] # "null" =>
              \/ buf[t] \in {"none", "mine"}
              \/ /\ Head(todo).op = "Release" /\ class = "NonDisplay"
                 /\ inCh["in_frame"] = "copied"
<1> DEFINE x == Head(todo)
<1>1. /\ t \in {x.t, x.u} /\ t \in InOf(class) \cup OutOf(class)
      /\ x.op \notin MayBeNull /\ (x.op = "Log" => logging)
  BY Ports DEF Reads, T, U
<1>2. PICK s : Stands(t, s)
  BY <1>1, Ports, Standing
<1>3. Takes(class, x)
  BY <1>2 DEF Stands, Allowed
<1>4. CASE t \in InOf(class)
  <2>1. InConforms(t, s) /\ InAllowed(class, t, x, s)
    BY <1>2, <1>4 DEF Stands, Conforms, Allowed
  <2>2. \/ x.op = "Log" /\ s \in {"got", "here"} /\ class # Renderer
        \/ /\ s \in {"here", "lent"} \/ (s = "got" /\ class # Renderer)
           /\ x.op = "Pixels" => class # "NonDisplay"
    BY <1>1, <2>1 DEF InAllowed, MayBeNull
  <2>3. x.op # "Send"
    BY <1>1, <1>3, <1>4, Ports DEF Takes
  <2>4. t \in InOf(class)
    BY <1>4
  <2> HIDE DEF x
  <2> QED
    BY <2>1, <2>2, <2>3, <2>4 DEF InConforms, NullInput, x
<1>5. CASE t \in OutOf(class)
  <2>1. OutMessage(t, s) /\ OutAllowed(class, t, x, s)
    BY <1>2, <1>5 DEF Stands, Conforms, Allowed
  <2>2. x.t = t
    BY <1>1, <2>1 DEF OutAllowed
  <2>3. \/ s[1] \in OutNames \ {"fresh", "given"}
        \/ s[1] = "given" /\ x.op = "Log" /\ class \in LogsSent
    BY <1>1, <2>1, <2>2 DEF OutAllowed, OwnsMessage, Unfilled, MayBeNull, OutNames
  <2> HIDE DEF x
  <2> QED
    BY <1>1, <2>1, <2>3 DEF OutMessage, Held, x
<1> QED
  BY <1>1, <1>4, <1>5

LEMMA StaleReads ==
  ASSUME Shape, Running, state = "running", todo # << >>, UNCHANGED fixed,
         NEW t \in Reads, NEW f \in Stale(t)
  PROVE  KnownFault(f)'
<1>1. f = <<"stale", Head(todo).op, t>> /\ msg[t] \in {"peer", "deleted"}
  BY DEF Stale
<1> QED
  BY <1>1, ReadsOwned DEF KnownFault, fixed

LEMMA StalePixels ==
  ASSUME Shape, Running, state = "running", todo # << >>, UNCHANGED fixed, Sound,
         T \in Reads, Head(todo).op \in {"Pixels", "Release", "Send"},
         NEW f \in StaleData(T)
  PROVE  KnownFault(f)'
<1>1. f = <<"data", Head(todo).op, T>> /\ buf[T] \notin {"none", "mine"} /\ msg[T] # "null"
  BY DEF StaleData, Sound
<1> QED
  BY <1>1, ReadsOwned DEF KnownFault, fixed

LEMMA FaultsKept ==
  ASSUME Faults, UNCHANGED fixed, \A f \in faults' \ faults : KnownFault(f)',
         \A p \in InOf(class) : msg[p] = "null" => msg'[p] = "null"
  PROVE  Faults'
BY DEF Faults, KnownFault, fixed

(* A step of a running kernel keeps the rest of the invariant.             *)
LEMMA StillRunning ==
  ASSUME KernelInv, state = "running", UNCHANGED <<state, lost>>,
         Shape', Running', Faults'
  PROVE  KernelInv'
BY DEF KernelInv, Opening, Between, Failures, Losses, LeaksOnlyUnsent

LEMMA StepTaken ==
  ASSUME Shape, Running, state = "running", todo # << >>
  PROVE  Takes(class, Head(todo))
<1>1. InOf(class) \cup OutOf(class) # {}
  <2>1. CASE class \in Sources
    BY <2>1, PortNames
  <2>2. CASE class \notin Sources
    BY <2>2, Ports DEF Fits
  <2> QED
    BY <2>1, <2>2
<1>2. PICK p : p \in Tracked(class)
  BY <1>1, Ports
<1> QED
  BY <1>2, Standing DEF Stands, Allowed

LEMMA SameTags == ASSUME UNCHANGED fixed PROVE Tags' = Tags
BY DEF Tags, InPorts, OutPorts, fixed

(* The actions, one by one.                                                *)
LEMMA ReadKeeps == ASSUME KernelInv, DoRead PROVE KernelInv'
<1> USE DEF KernelInv
<1>1. /\ state = "running" /\ todo # << >> /\ Sound /\ todo' = Rest
      /\ Head(todo).op \in {"Use", "Pixels", "Log"}
      /\ UNCHANGED <<fixed, run, state, seq, reader, data, got, sent, inside, queue, lost>>
  BY DEF DoRead, Do, At
<1>2. Shape'
  BY <1>1, SameTags DEF Shape, data, fixed
<1>3. Running'
  <2>1. ASSUME NEW p \in InOf(class), NEW s, NEW s2, Stands(p, s),
               s2 = InThen(class, p, Head(todo), s)
        PROVE  InConforms(p, s2)'
    BY <1>1, <2>1, InKept DEF data
  <2>2. ASSUME NEW p \in OutOf(class), NEW s, NEW s2, Stands(p, s),
               s2 = OutThen(class, p, Head(todo), s)
        PROVE  OutMessage(p, s2)' /\ Numbers(p, s2)'
    <3>1. s2 = s /\ OutMessage(p, s) /\ Numbers(p, s)
      BY <1>1, <2>2 DEF OutThen, Stands, Conforms
    <3> QED
      BY <1>1, <3>1, OutKept, NumbersKept DEF data
  <2> QED
    BY <1>1, <2>1, <2>2, SimpleStep DEF Branching
<1>4. Faults'
  <2> DEFINE stale == UNION {Stale(t) : t \in Reads}
  <2>0. faults' = faults \cup (IF At("Pixels") THEN StaleData(T) ELSE {}) \cup stale
    BY DEF DoRead
  <2>1. ASSUME NEW f \in faults' \ faults PROVE KnownFault(f)'
    <3>1. CASE f \in stale
      BY <1>1, <3>1, StaleReads
    <3>2. CASE At("Pixels") /\ f \in StaleData(T)
      <4>1. T \in InOf(class) \cup OutOf(class) /\ Head(todo).op = "Pixels"
        BY <1>1, <3>2, StepTaken DEF Takes, T, At
      <4>2. T \in Reads
        BY <4>1, Reading DEF MayBeNull
      <4> QED
        BY <1>1, <3>2, <4>1, <4>2, StalePixels
    <3> HIDE DEF stale
    <3> QED
      BY <2>0, <2>1, <3>1, <3>2
  <2> QED
    BY <1>1, <2>1, FaultsKept DEF data
<1> QED
  BY <1>1, <1>2, <1>3, <1>4, StillRunning

LEMMA PlaceKeeps == ASSUME KernelInv, DoPlace PROVE KernelInv'
<1> USE DEF KernelInv
<1>1. /\ state = "running" /\ todo # << >> /\ Sound /\ todo' = Rest
      /\ Head(todo).op = "Place" /\ msg' = [msg EXCEPT ![T] = Held(T)]
      /\ UNCHANGED <<fixed, run, state, seq, reader, buf, hdr, content, got, sent,
                     inside, queue, faults, lost>>
  BY DEF DoPlace, Do, At, Held
<1>2. T \in OutOf(class) /\ U = ""
  BY <1>1, StepTaken DEF Takes, T, U
<1>3. /\ msg'[T] = Held(T) /\ \A p \in InOf(class) : msg'[p] = msg[p]
      /\ \A p \in OutOf(class) : p # T => msg'[p] = msg[p]
  BY <1>1, <1>2, Ports DEF Shape
<1>4. Shape'
  BY <1>1, <1>2, SameTags, Ports DEF Shape, Held, MsgStates, fixed
<1>5. Running'
  <2>1. ASSUME NEW p \in InOf(class), NEW s, NEW s2, Stands(p, s),
               s2 = InThen(class, p, Head(todo), s)
        PROVE  InConforms(p, s2)'
    <3>1. InConforms(p, s) /\ InAllowed(class, p, Head(todo), s)
      BY <2>1 DEF Stands, Conforms, Allowed
    <3>2. p \notin {T, U}
      BY <1>2, Ports
    <3>3. CASE class = Renderer /\ p = "in_frame"
      <4>1. s = "here" /\ s2 = "lent"
        BY <1>1, <2>1, <3>1, <3>2, <3>3 DEF InAllowed, InThen, T, U
      <4> QED
        BY <1>1, <1>3, <3>1, <4>1 DEF InConforms, Early, fixed
    <3>4. CASE ~(class = Renderer /\ p = "in_frame")
      <4>1. s2 = s
        BY <1>1, <2>1, <3>2, <3>4 DEF InThen, T, U
      <4> QED
        BY <1>1, <1>3, <3>1, <3>4, <4>1 DEF InConforms, fixed
    <3> QED
      BY <3>3, <3>4
  <2>2. ASSUME NEW p \in OutOf(class), NEW s, NEW s2, Stands(p, s),
               s2 = OutThen(class, p, Head(todo), s)
        PROVE  OutMessage(p, s2)' /\ Numbers(p, s2)'
    <3>1. /\ OutMessage(p, s) /\ Numbers(p, s) /\ OutAllowed(class, p, Head(todo), s)
          /\ p \notin InOf(class)
      BY <2>2, Ports DEF Stands, Conforms, Allowed
    <3>2. CASE p # T
      <4>1. s2 = s
        BY <1>1, <2>2, <3>2 DEF OutThen, T
      <4> QED
        BY <1>1, <1>3, <3>1, <3>2, <4>1, OutKept, NumbersKept
    <3>3. CASE p = T
      <4>1. s[1] = "fresh" /\ s2 = <<"placed", s[2]>>
        BY <1>1, <2>2, <3>1, <3>3 DEF OutAllowed, OutThen, T
      <4>2. Numbers(p, s2)
        <5>1. CASE InOf(class) = {} /\ class = "ImgPlayer"
          <6>1. s = <<"fresh", 0>> /\ s[2] = 0
            BY <1>1, <3>1, <3>3, <5>1 DEF OutAllowed, T
          <6>2. PlayerConforms(p, s) /\ s2 = <<"placed", 0>> /\ s2[1] = "placed" /\ s2[2] = 0
            BY <3>1, <4>1, <5>1, <6>1 DEF Numbers
          <6> QED
            BY <5>1, <6>1, <6>2 DEF Numbers, PlayerConforms, Played
        <5>2. CASE ~(InOf(class) = {} /\ class = "ImgPlayer")
          BY <3>1, <4>1, <5>2 DEF Numbers, SourceConforms, AnswerConforms, Number, Frames
        <5> QED
          BY <5>1, <5>2
      <4>3. OutMessage(p, s2)'
        BY <1>1, <1>3, <3>1, <3>3, <4>1 DEF OutMessage, OutNames, Held, fixed
      <4> QED
        BY <1>1, <4>2, <4>3, NumbersKept
    <3> QED
      BY <3>2, <3>3
  <2> QED
    BY <1>1, <2>1, <2>2, SimpleStep DEF Branching
<1>6. Faults'
  BY <1>1, <1>3, FaultsKept
<1> QED
  BY <1>1, <1>4, <1>5, <1>6, StillRunning

LEMMA InSame ==
  ASSUME Shape, UNCHANGED <<fixed, run>>, NEW p \in InOf(class), NEW s, NEW s2,
         Stands(p, s), s2 = InThen(class, p, Head(todo), s), p \notin {T, U},
         Head(todo).op # "Place",
         msg'[p] = msg[p], buf'[p] = buf[p], hdr'[p] = hdr[p], content'[p] = content[p],
         class = Renderer /\ p = "in_frame" /\ s \in Early =>
           msg'["out_frame"] = msg["out_frame"]
  PROVE  InConforms(p, s2)'
<1>1. s2 = s /\ InConforms(p, s)
  BY DEF InThen, T, U, Stands, Conforms
<1> QED
  BY <1>1 DEF InConforms, fixed

LEMMA OutSame ==
  ASSUME Shape, UNCHANGED <<fixed, run, seq, reader, inside>>, NEW p \in OutOf(class),
         NEW s, NEW s2, Stands(p, s), s2 = OutThen(class, p, Head(todo), s),
         p # T, Head(todo).op # "Count", msg'[p] = msg[p], buf'[p] = buf[p],
         hdr'[p] = hdr[p], content'[p] = content[p], sent'[p] = sent[p]
  PROVE  OutMessage(p, s2)' /\ Numbers(p, s2)'
<1>1. s2 = s /\ OutMessage(p, s) /\ Numbers(p, s)
  BY DEF OutThen, T, Stands, Conforms
<1> QED
  BY <1>1, OutKept, NumbersKept

LEMMA StaleFaults ==
  ASSUME Shape, Running, Faults, state = "running", todo # << >>, UNCHANGED fixed,
         faults' = faults \cup UNION {Stale(t) : t \in Reads},
         \A p \in InOf(class) : msg[p] = "null" => msg'[p] = "null"
  PROVE  Faults'
<1> DEFINE stale == UNION {Stale(t) : t \in Reads}
<1>1. \A f \in stale : KnownFault(f)'
  BY StaleReads
<1>2. faults' = faults \cup stale
  OBVIOUS
<1> HIDE DEF stale
<1> QED
  BY <1>1, <1>2, FaultsKept

LEMMA HeaderKeeps == ASSUME KernelInv, DoHeader PROVE KernelInv'
<1> USE DEF KernelInv
<1>1. /\ state = "running" /\ todo # << >> /\ Sound /\ todo' = Rest
      /\ Head(todo).op = "Header"
      /\ hdr' = [hdr EXCEPT ![T] = IF U = "own" THEN seq ELSE hdr[U]]
      /\ UNCHANGED <<fixed, run, state, seq, reader, msg, buf, content, got, sent,
                     inside, queue, lost>>
  BY DEF DoHeader, Do, At
<1>2. T \in OutOf(class) /\ ((U = "own" /\ InOf(class) = {}) \/ U \in InOf(class))
  BY <1>1, StepTaken DEF Takes, T, U
<1>3. /\ hdr'[T] = IF U = "own" THEN seq ELSE hdr[U]
      /\ \A p \in InOf(class) : hdr'[p] = hdr[p]
      /\ \A p \in OutOf(class) : p # T => hdr'[p] = hdr[p]
  BY <1>1, <1>2, Ports DEF Shape
<1>4. Shape'
  <2>1. (IF U = "own" THEN seq ELSE hdr[U]) \in Int
    <3>1. U \in InOf(class) => hdr[U] \in Int
      BY Ports DEF Shape
    <3>2. seq \in Int
      BY DEF Shape
    <3> QED
      BY <1>2, <3>1, <3>2
  <2>2. hdr' \in [Tags -> Int]
    BY <1>1, <2>1 DEF Shape
  <2> QED
    BY <1>1, <2>2, SameTags DEF Shape, fixed
<1>5. Running'
  <2>1. ASSUME NEW p \in InOf(class), NEW s, NEW s2, Stands(p, s),
               s2 = InThen(class, p, Head(todo), s)
        PROVE  InConforms(p, s2)'
    BY <1>1, <1>3, <2>1, InKept
  <2>2. ASSUME NEW p \in OutOf(class), NEW s, NEW s2, Stands(p, s),
               s2 = OutThen(class, p, Head(todo), s)
        PROVE  OutMessage(p, s2)' /\ Numbers(p, s2)'
    <3>1. CASE p # T
      BY <1>1, <1>3, <2>2, <3>1, OutSame
    <3>2. CASE p = T
      <4>1. /\ s[1] \in {"placed", "filled"} /\ s2 = <<Titled(s[1]), s[2]>>
            /\ U = "own" => s[2] = IF class = "ImgPlayer" THEN 1 ELSE 0
            /\ class = "ImgPlayer" => s = <<"filled", 1>>
            /\ OutMessage(p, s) /\ Numbers(p, s)
        BY <1>1, <2>2, <3>2, Ports DEF OutAllowed, OutThen, T, U, Stands, Conforms, Allowed
      <4>2. OutMessage(p, s2)'
        <5>1. OutMessage(p, s2)
          BY <4>1 DEF OutMessage, OutNames, Titled
        <5> QED
          BY <1>1, <5>1, OutKept
      <4>0. CASE InOf(class) = {} /\ class = "ImgPlayer"
        <5>1. s = <<"filled", 1>> /\ s2 = <<"ready", 1>> /\ PlayerConforms(p, s)
          BY <4>0, <4>1 DEF Titled, Numbers
        <5>2. hdr'[p] = seq
          BY <1>2, <1>3, <3>2, <4>0
        <5>3. PlayerConforms(p, s2)'
          <6>1. Played(s) = seq - 1 /\ Played(s2) = seq - 1 /\ seq \in Nat
            BY <5>1, Files DEF Played
          <6>2. /\ PlayerConforms(p, s2)' <=> /\ PlayerFiles /\ Played(s2) >= 0
                                             /\ Follows(p, Played(s2)) /\ Played(s2) < Lap
                                             /\ ~MissingAt(Played(s2))
                                             /\ content[p] = Played(s2)
                                             /\ hdr'[p] = Played(s2) + 1
            BY <1>1, <5>1
               DEF PlayerConforms, PlayerFiles, Played, MissingAt, Follows, Lap, fixed
          <6> QED
            BY <5>1, <5>2, <6>1, <6>2 DEF PlayerConforms
        <5> QED
          BY <1>1, <4>0, <4>2, <5>3 DEF Numbers, fixed
      <4>3. CASE InOf(class) = {} /\ class # "ImgPlayer"
        <5>1. hdr'[p] = Number(s)
          BY <1>2, <1>3, <3>2, <4>1, <4>3 DEF Number, Shape
        <5>2. Titled(s[1]) \in {"titled", "ready"} /\ (s[1] = "filled" <=> Titled(s[1]) = "ready")
          BY <4>1 DEF Titled
        <5>3. s2[1] = Titled(s[1]) /\ s2[2] = s[2] /\ s2 = <<s2[1], s2[2]>>
          BY <4>1
        <5>4. SourceConforms(p, s) /\ Number(s2)' = Number(s) /\ Frames(s2)' = Frames(s)
          BY <1>1, <4>1, <4>3, <5>2, <5>3 DEF Numbers, Number, Frames
        <5>5. SourceConforms(p, s2)'
          BY <1>1, <4>1, <5>1, <5>2, <5>3, <5>4
             DEF SourceConforms, FrameOf, BagConforms, Cached, Image, fixed
        <5> QED
          BY <1>1, <4>2, <4>3, <5>5 DEF Numbers, fixed
      <4>4. CASE InOf(class) # {}
        <5>1. PICK r : Stands(U, r)
          BY <1>1, <1>2, <4>4, Ports, Standing
        <5>2. r # "fresh" /\ InConforms(U, r)
          BY <1>1, <1>2, <4>4, <5>1 DEF Stands, Allowed, Conforms, InAllowed, U
        <5>3. hdr'[p] = run
          BY <1>2, <1>3, <3>2, <4>4, <5>2, Ports DEF InConforms
        <5>4. Titled(s[1]) \in {"titled", "ready"} /\ (s[1] = "filled" <=> Titled(s[1]) = "ready")
          BY <4>1 DEF Titled
        <5>5. s2[1] = Titled(s[1]) /\ s2[2] = s[2] /\ s2 = <<s2[1], s2[2]>>
          BY <4>1
        <5>6. AnswerConforms(p, s)
          BY <4>1, <4>4 DEF Numbers
        <5>7. Ordered(p, IF s2[1] \in {"fresh", "placed", "titled"} THEN run - 1 ELSE run)'
          BY <1>1, <4>1, <5>4, <5>5, <5>6 DEF AnswerConforms, Ordered
        <5> QED
          BY <1>1, <4>1, <4>2, <4>4, <5>3, <5>4, <5>5, <5>6, <5>7
             DEF Numbers, AnswerConforms, fixed
      <4> QED
        BY <4>0, <4>3, <4>4
    <3> QED
      BY <3>1, <3>2
  <2> QED
    BY <1>1, <2>1, <2>2, SimpleStep DEF Branching
<1>6. Faults'
  BY <1>1, StaleFaults DEF DoHeader
<1> QED
  BY <1>1, <1>4, <1>5, <1>6, StillRunning

LEMMA CountKeeps == ASSUME KernelInv, DoCount PROVE KernelInv'
<1> USE DEF KernelInv
<1>1. /\ state = "running" /\ todo # << >> /\ Sound /\ todo' = Rest
      /\ Head(todo).op = "Count" /\ seq' = seq + 1
      /\ UNCHANGED <<fixed, run, state, reader, data, got, sent, inside, queue,
                     faults, lost>>
  BY DEF DoCount, Do, At
<1>2. InOf(class) = {}
  BY <1>1, StepTaken DEF Takes
<1>3. Shape'
  BY <1>1, SameTags DEF Shape, data, fixed
<1>4. Running'
  <2>1. ASSUME NEW p \in OutOf(class), NEW s, NEW s2, Stands(p, s),
               s2 = OutThen(class, p, Head(todo), s)
        PROVE  OutMessage(p, s2)' /\ Numbers(p, s2)'
    <3>1. /\ s[2] = 0 /\ s2 = <<s[1], 1>> /\ OutMessage(p, s) /\ Numbers(p, s)
          /\ class = "ImgPlayer" => s = <<"filled", 0>>
      BY <1>1, <1>2, <2>1, Ports
         DEF OutAllowed, OutThen, Stands, Conforms, Allowed
    <3>2. OutMessage(p, s2)'
      <4>1. OutMessage(p, s2)
        BY <3>1 DEF OutMessage
      <4> QED
        BY <1>1, <4>1, OutKept DEF data
    <3>3. Number(s2)' = Number(s)
      BY <1>1, <3>1 DEF Number, Shape
    <3>4. CASE class # "ImgPlayer"
      <4>1. SourceConforms(p, s)
        BY <1>2, <3>1, <3>4 DEF Numbers
      <4>2. SourceConforms(p, s2)'
        BY <1>1, <3>1, <3>3, <4>1
           DEF SourceConforms, Frames, FrameOf, BagConforms, Cached, Image, data, fixed
      <4> QED
        BY <1>1, <1>2, <3>2, <3>4, <4>2 DEF Numbers, fixed
    <3>5. CASE class = "ImgPlayer"
      <4>1. PlayerConforms(p, s) /\ s = <<"filled", 0>> /\ s2 = <<"filled", 1>>
        BY <1>2, <3>1, <3>5 DEF Numbers
      <4>2. Played(s2)' = Played(s)
        BY <1>1, <4>1 DEF Played, Shape
      <4>3. PlayerConforms(p, s2)'
        BY <1>1, <4>1, <4>2
           DEF PlayerConforms, PlayerFiles, MissingAt, Follows, Lap, data, fixed
      <4> QED
        BY <1>1, <1>2, <3>2, <3>5, <4>3 DEF Numbers, fixed
    <3> QED
      BY <3>4, <3>5
  <2> QED
    BY <1>1, <1>2, <2>1, SimpleStep DEF Branching
<1>5. Faults'
  BY <1>1, FaultsKept DEF data
<1> QED
  BY <1>1, <1>3, <1>4, <1>5, StillRunning

(* The input a message is made of is this run()'s.                         *)
LEMMA InputContent ==
  ASSUME Shape, Running, state = "running", todo # << >>, U \in InOf(class),
         Head(todo).op \in {"Make", "Write", "Share", "Codec"}
  PROVE  content[U] = run /\ (buf[U] \in {"none", "mine"} \/ class = "NonDisplay")
<1>1. PICK r : Stands(U, r)
  BY Ports, Standing
<1>2. r \in {"got", "here", "lent"} /\ InConforms(U, r)
  BY <1>1 DEF Stands, Allowed, Conforms, InAllowed, U
<1> QED
  BY <1>2 DEF InConforms

(* A message of a source gets the next frame, one of another kernel that   *)
(* has no codec its input of this run().                                   *)
LEMMA FilledNumbers ==
  ASSUME Shape, UNCHANGED <<fixed, run, seq, inside>>, NEW p \in OutOf(class),
         NEW s, NEW s2, Numbers(p, s),
         s[1] \in Unfilled(class), s2 = <<Filled(s[1]), s[2]>>,
         hdr'[p] = hdr[p], sent'[p] = sent[p],
         class # "BagCamera" => reader' = reader,
         class = "BagCamera" => BagConforms(seq + 1)' /\ reader'.cached = reader.cached,
         InOf(class) = {} => s[2] = 0 /\ content'[p] = FrameOf(seq),
         InOf(class) # {} =>
           class # "ImgPlayer" /\ content'[p] = run /\ inside = << >>
  PROVE  Numbers(p, s2)'
<1>1. /\ s2[1] = Filled(s[1]) /\ s2[2] = s[2] /\ s2 = <<s2[1], s2[2]>>
      /\ s2[1] \in {"filled", "ready"} /\ (s2[1] = "ready" <=> s[1] = "titled")
  BY DEF Filled, Unfilled
<1>2. CASE InOf(class) = {} /\ class = "ImgPlayer"
  <2>1. /\ s[1] = "chosen" /\ s2[1] = "filled" /\ s[2] = 0 /\ s2[2] = 0
        /\ PlayerConforms(p, s) /\ content'[p] = seq
    BY <1>1, <1>2 DEF Unfilled, Numbers, FrameOf
  <2>2. Played(s) = seq /\ Played(s2)' = seq
    BY <2>1, Files DEF Played
  <2>3. PlayerConforms(p, s2)'
    BY <1>1, <1>2, <2>1, <2>2
       DEF PlayerConforms, PlayerFiles, MissingAt, Follows, Lap, fixed
  <2> QED
    BY <1>2, <2>3 DEF Numbers, fixed
<1>3. CASE InOf(class) = {} /\ class # "ImgPlayer"
  <2>1. SourceConforms(p, s) /\ s[1] \in {"placed", "titled"} /\ s[2] = 0
    BY <1>3 DEF Numbers, Unfilled
  <2>2. Number(s) = seq /\ Number(s2)' = seq /\ Frames(s2)' = seq + 1
    BY <1>1, <2>1, Files DEF Number, Frames
  <2>3. content'[p] = FrameOf(seq)'
    BY <1>3 DEF FrameOf, Cached, fixed
  <2>4. SourceConforms(p, s2)'
    BY <1>1, <1>3, <2>1, <2>2, <2>3 DEF SourceConforms, fixed
  <2> QED
    BY <1>3, <2>4 DEF Numbers, fixed
<1>4. CASE InOf(class) # {}
  <2>1. AnswerConforms(p, s) /\ s[1] \in {"placed", "titled"}
    BY <1>4 DEF Numbers, Unfilled
  <2>2. sent[p].content \in Int /\ run \in Nat
    BY Ports DEF Shape
  <2>3. Ordered(p, run)' /\ sent[p].content <= run - 1
    BY <1>4, <2>1, <2>2 DEF AnswerConforms, Ordered
  <2>4. Ordered(p, IF s2[1] \in {"fresh", "placed", "titled"} THEN run - 1 ELSE run)'
    BY <1>1, <2>3
  <2>5. AnswerConforms(p, s2)'
    BY <1>1, <1>4, <2>1, <2>2, <2>3, <2>4 DEF AnswerConforms, fixed
  <2> QED
    BY <1>4, <2>5 DEF Numbers, fixed
<1> QED
  BY <1>2, <1>3, <1>4

LEMMA WriteKeeps == ASSUME KernelInv, DoWrite PROVE KernelInv'
<1> USE DEF KernelInv
<1>1. /\ state = "running" /\ todo # << >> /\ Sound /\ todo' = Rest
      /\ Head(todo).op = "Write" /\ content' = [content EXCEPT ![T] = ContentFrom(U)]
      /\ UNCHANGED <<fixed, run, state, seq, reader, msg, buf, hdr, got, sent,
                     inside, queue, lost>>
  BY DEF DoWrite, Do, At
<1>2. T \in OutOf(class) /\ From(class, U)
  BY <1>1, StepTaken DEF Takes, T, U
<1>3. /\ content'[T] = ContentFrom(U)
      /\ \A p \in InOf(class) : content'[p] = content[p]
      /\ \A p \in OutOf(class) : p # T => content'[p] = content[p]
  BY <1>1, <1>2, Ports DEF Shape
<1>4. /\ U = "own" /\ class # "BagCamera" => ContentFrom(U) = seq
      /\ U \in InOf(class) => ContentFrom(U) = run
      /\ U = "codec" => ContentFrom(U) = content[T]
  BY <1>1, <1>2, InputContent, Ports DEF ContentFrom, NextFrame
<1>5. class \notin {"BagCamera", "ImgPlayer"}
  <2>1. PICK r : Stands(T, r)
    BY <1>1, <1>2, Ports, Standing
  <2> QED
    BY <1>1, <1>2, <2>1, Ports DEF Stands, Allowed, OutAllowed, T
<1>6. Shape'
  <2>1. T \in Tags /\ content[T] \in Int /\ seq \in Int /\ run \in Int
    <3>1. T \in Tags
      BY <1>2, Ports
    <3> QED
      BY <3>1 DEF Shape
  <2>2. ContentFrom(U) \in Int
    BY <1>2, <1>4, <1>5, <2>1 DEF From
  <2>3. content' \in [Tags -> Int]
    BY <1>1, <2>2 DEF Shape
  <2> QED
    BY <1>1, <2>3, SameTags DEF Shape, fixed
<1>7. Running'
  <2>1. ASSUME NEW p \in InOf(class), NEW s, NEW s2, Stands(p, s),
               s2 = InThen(class, p, Head(todo), s)
        PROVE  InConforms(p, s2)'
    BY <1>1, <1>3, <2>1, InKept
  <2>2. ASSUME NEW p \in OutOf(class), NEW s, NEW s2, Stands(p, s),
               s2 = OutThen(class, p, Head(todo), s)
        PROVE  OutMessage(p, s2)' /\ Numbers(p, s2)'
    <3>1. CASE p # T
      BY <1>1, <1>3, <2>2, <3>1, OutSame
    <3>2. CASE p = T /\ U = "codec"
      <4>1. s2 = s /\ OutMessage(p, s) /\ Numbers(p, s)
        BY <1>1, <2>2, <3>2, Ports DEF OutThen, T, U, Stands, Conforms
      <4> QED
        BY <1>1, <1>3, <1>4, <3>2, <4>1, OutKept, NumbersKept
    <3>3. CASE p = T /\ U # "codec"
      <4>1. /\ s[1] \in {"placed", "titled"} /\ s2 = <<Filled(s[1]), s[2]>>
            /\ U = "own" => s[2] = 0
            /\ OutMessage(p, s) /\ Numbers(p, s)
        BY <1>1, <1>5, <2>2, <3>3, Ports
           DEF OutAllowed, OutThen, Unfilled, T, U, Stands, Conforms, Allowed
      <4>2. OutMessage(p, s2)'
        <5>1. OutMessage(p, s2)
          BY <4>1 DEF OutMessage, OutNames, Filled
        <5> QED
          BY <1>1, <5>1, OutKept
      <4>3. InOf(class) = {} => s[2] = 0 /\ content'[p] = FrameOf(seq)
        BY <1>2, <1>3, <1>4, <1>5, <3>3, <4>1 DEF From, FrameOf
      <4>4. InOf(class) # {} => content'[p] = run /\ inside = << >>
        BY <1>2, <1>3, <1>4, <3>3, <4>1 DEF From, Numbers, AnswerConforms
      <4>5. s[1] \in Unfilled(class)
        BY <1>5, <4>1 DEF Unfilled
      <4> QED
        BY <1>1, <1>5, <4>1, <4>2, <4>3, <4>4, <4>5, FilledNumbers
    <3> QED
      BY <3>1, <3>2, <3>3
  <2> QED
    BY <1>1, <2>1, <2>2, SimpleStep DEF Branching
<1>8. Faults'
  BY <1>1, StaleFaults DEF DoWrite
<1> QED
  BY <1>1, <1>6, <1>7, <1>8, StillRunning

(* The remainder of the next number is the next remainder.                 *)
LEMMA NextRemainder ==
  ASSUME NEW c \in Nat, c > 0, NEW n \in Nat
  PROVE  ((n % c) + 1) % c = (n + 1) % c
<1> DEFINE a == n \div c
           b == (n + 1) \div c
           r == n % c
           q == (n + 1) % c
<1>1. n = c * a + r /\ a \in Int /\ r \in 0..(c - 1)
  OBVIOUS
<1>2. n + 1 = c * b + q /\ b \in Int /\ q \in 0..(c - 1)
  OBVIOUS
<1>3. c * (b - a) = c * b - c * a /\ c * (b - a) = (r + 1) - q
  BY <1>1, <1>2
<1>4. b - a = 0 \/ b - a >= 1 \/ b - a <= -1
  BY <1>1, <1>2
<1> HIDE DEF a, b, r, q
<1>5. CASE b - a = 0
  <2>1. q = r + 1
    BY <1>1, <1>2, <1>3, <1>5
  <2>2. (r + 1) % c = r + 1
    BY <1>1, <1>2, <2>1
  <2> QED
    BY <2>1, <2>2 DEF r, q
<1>6. CASE b - a >= 1
  <2>1. c * (b - a) >= c
    BY <1>1, <1>2, <1>6
  <2>2. r + 1 = c /\ q = 0
    BY <1>1, <1>2, <1>3, <2>1
  <2>3. (r + 1) % c = 0
    BY <2>2
  <2> QED
    BY <2>2, <2>3 DEF r, q
<1>7. CASE b - a <= -1
  <2>1. c * (b - a) <= -c
    BY <1>1, <1>2, <1>7
  <2> QED
    BY <1>1, <1>2, <1>3, <2>1
<1> QED
  BY <1>4, <1>5, <1>6, <1>7

(* getNextFrame gives the frame of that number, and the reader goes on.    *)
LEMMA FrameTaken ==
  ASSUME Shape, class = "BagCamera", ~NoFrame, BagConforms(seq), AdvanceReader,
         UNCHANGED <<fixed, seq>>
  PROVE  /\ ContentFrom("own") = FrameOf(seq) /\ ContentFrom("own") \in Int
         /\ BagConforms(seq + 1)' /\ reader' \in Readers
         /\ reader'.cached = reader.cached
<1>1. /\ bag.start \in Nat /\ bag.cache \in Nat /\ seq \in Nat /\ reader \in Readers
      /\ reader.cached \in Nat /\ reader.frameIndex \in Nat /\ reader.curMsg \in Nat
  BY Files DEF Shape
<1>2. CASE Cached
  <2>1. reader.cached > 0 /\ reader.frameIndex = seq % reader.cached
    BY <1>2 DEF BagConforms, Cached
  <2>2. reader' = [reader EXCEPT !.frameIndex = (reader.frameIndex + 1) % reader.cached]
    BY <1>2 DEF AdvanceReader
  <2>3. (reader.frameIndex + 1) % reader.cached = (seq + 1) % reader.cached
    BY <1>1, <2>1, NextRemainder
  <2>4. (seq + 1) % reader.cached \in Nat
    BY <1>1, <2>1
  <2>5. /\ reader' \in Readers /\ reader'.cached = reader.cached
        /\ reader'.frameIndex = (seq + 1) % reader.cached
    BY <1>1, <2>2, <2>3, <2>4 DEF Readers
  <2>6. BagConforms(seq + 1)'
    <3>1. Cached'
      BY <1>2, <2>5 DEF Cached
    <3>2. reader'.frameIndex = (seq' + 1) % reader'.cached
      BY <2>5
    <3> QED
      BY <3>1, <3>2 DEF BagConforms
  <2>7. ContentFrom("own") = bag.start + reader.frameIndex
    BY <1>2 DEF ContentFrom, NextFrame
  <2>8. FrameOf(seq) = bag.start + (seq % reader.cached)
    BY <1>2 DEF FrameOf
  <2> QED
    BY <1>1, <2>1, <2>5, <2>6, <2>7, <2>8
<1>3. CASE ~Cached
  <2>1. Image = "frame" /\ reader.curMsg = bag.start + seq /\ ~(bag.cache > 0)
    BY <1>3 DEF NoFrame, BagConforms
  <2>2. reader' = [reader EXCEPT !.curMsg = reader.curMsg + 1]
    BY <1>3 DEF AdvanceReader
  <2>3. /\ reader' \in Readers /\ reader'.cached = reader.cached
        /\ reader'.curMsg = bag.start + (seq + 1)
    BY <1>1, <2>1, <2>2 DEF Readers
  <2>4. BagConforms(seq + 1)'
    BY <1>3, <2>1, <2>3 DEF BagConforms, Cached, fixed
  <2>5. ContentFrom("own") = reader.curMsg
    BY <1>3 DEF ContentFrom, NextFrame
  <2>6. FrameOf(seq) = bag.start + seq
    BY <1>3 DEF FrameOf
  <2> QED
    BY <1>1, <2>1, <2>3, <2>4, <2>5, <2>6
<1> QED
  BY <1>2, <1>3

LEMMA BagMakes ==
  ASSUME Shape, Running, state = "running", todo # << >>, class = "BagCamera",
         Head(todo).op = "Make"
  PROVE  /\ T \in OutOf(class) /\ U = "own" /\ OutOf(class) = {T}
         /\ BagConforms(seq)
<1>1. InOf(class) = {}
  BY Ports DEF Fits, Sources
<1>2. T \in OutOf(class) /\ U = "own" /\ OutOf(class) = {T}
  BY <1>1, StepTaken, Ports DEF Takes, From, CodecClasses, PacketClasses, Fits, T, U
<1>3. PICK r : Stands(T, r)
  BY <1>2, Ports, Standing
<1>4. r[1] \in {"placed", "titled"} /\ r[2] = 0 /\ SourceConforms(T, r)
  BY <1>1, <1>2, <1>3, Ports
     DEF Stands, Allowed, Conforms, OutAllowed, Unfilled, T, U, Numbers
<1>5. Frames(r) = seq
  BY <1>4, Files DEF Frames, Number
<1> QED
  BY <1>2, <1>4, <1>5 DEF SourceConforms

LEMMA MakeKeeps == ASSUME KernelInv, DoMake PROVE KernelInv'
<1> USE DEF KernelInv
<1>1. /\ state = "running" /\ todo # << >> /\ Sound /\ todo' = Rest
      /\ Head(todo).op = "Make" /\ content' = [content EXCEPT ![T] = ContentFrom(U)]
      /\ buf' = [buf EXCEPT ![T] = "mine"] /\ AdvanceReader /\ ~NoFrame
      /\ UNCHANGED <<fixed, run, state, seq, msg, hdr, got, sent, inside, queue, lost>>
  BY DEF DoMake, Do, At
<1>2. /\ \/ T \in OutOf(class) /\ From(class, U)
         \/ T = "packet" /\ U = "codec" /\ class \in PacketClasses
      /\ T \in Tags /\ T \notin InOf(class)
  BY <1>1, StepTaken, Ports DEF Takes, T, U
<1>3. /\ content'[T] = ContentFrom(U) /\ buf'[T] = "mine"
      /\ \A p \in InOf(class) : content'[p] = content[p] /\ buf'[p] = buf[p]
      /\ \A p \in OutOf(class) : p # T => content'[p] = content[p] /\ buf'[p] = buf[p]
      /\ T # "packet" => buf'["packet"] = buf["packet"]
  BY <1>1, <1>2, Ports DEF Shape
<1>4. /\ U = "own" /\ class # "BagCamera" => ContentFrom(U) = seq
      /\ U \in InOf(class) => ContentFrom(U) = run
      /\ U = "codec" => ContentFrom(U) = content[T]
  BY <1>1, <1>2, InputContent, Ports DEF ContentFrom, NextFrame
<1>5. class # "BagCamera" => reader' = reader
  BY <1>1 DEF AdvanceReader
<1>6. ASSUME class = "BagCamera"
      PROVE  /\ T \in OutOf(class) /\ U = "own" /\ OutOf(class) = {T}
             /\ content'[T] = FrameOf(seq) /\ ContentFrom(U) \in Int
             /\ BagConforms(seq + 1)' /\ reader' \in Readers
             /\ reader'.cached = reader.cached
  <2>1. BagConforms(seq) /\ T \in OutOf(class) /\ U = "own" /\ OutOf(class) = {T}
    BY <1>1, <1>6, BagMakes
  <2> QED
    BY <1>1, <1>3, <1>6, <2>1, FrameTaken
<1>7. Shape'
  <2>1. /\ content[T] \in Int /\ seq \in Int /\ run \in Int /\ reader \in Readers
        /\ buf["packet"] = "mine" => class \in PacketClasses
    BY <1>2 DEF Shape
  <2>2. ContentFrom(U) \in Int
    BY <1>2, <1>4, <1>6, <2>1 DEF From
  <2>3. content' \in [Tags -> Int]
    BY <1>1, <2>2 DEF Shape
  <2>4. buf' \in [Tags -> BufStates]
    BY <1>1 DEF Shape, BufStates
  <2>5. reader' \in Readers
    BY <1>5, <1>6, <2>1
  <2>6. buf'["packet"] = "mine" => class \in PacketClasses
    BY <1>2, <1>3, <2>1, Ports
  <2> QED
    BY <1>1, <2>3, <2>4, <2>5, <2>6, SameTags DEF Shape, fixed
<1>8. Running'
  <2>1. ASSUME NEW p \in InOf(class), NEW s, NEW s2, Stands(p, s),
               s2 = InThen(class, p, Head(todo), s)
        PROVE  InConforms(p, s2)'
    BY <1>1, <1>3, <2>1, InKept
  <2>2. ASSUME NEW p \in OutOf(class), NEW s, NEW s2, Stands(p, s),
               s2 = OutThen(class, p, Head(todo), s)
        PROVE  OutMessage(p, s2)' /\ Numbers(p, s2)'
    <3>1. CASE p # T
      <4>1. class # "BagCamera"
        BY <1>6, <2>2, <3>1
      <4> QED
        BY <1>1, <1>3, <1>5, <2>2, <3>1, <4>1, OutSame
    <3>2. CASE p = T /\ U = "codec"
      <4>1. /\ s2 = s /\ OutMessage(p, s) /\ Numbers(p, s) /\ OwnsMessage(s)
            /\ class # "BagCamera"
        <5>1. class \notin {"BagCamera", "ImgPlayer"}
          BY <1>2, <2>2, <3>2, Ports DEF From, CodecClasses
        <5> QED
          BY <1>1, <2>2, <3>2, <5>1, Ports
             DEF OutThen, OutAllowed, Unfilled, T, U, Stands, Conforms, Allowed, OwnsMessage
      <4>2. OutMessage(p, s2)'
        BY <1>1, <1>3, <3>2, <4>1 DEF OutMessage, OutNames, OwnsMessage, Held, fixed
      <4> QED
        BY <1>1, <1>3, <1>4, <1>5, <3>2, <4>1, <4>2, NumbersKept
    <3>3. CASE p = T /\ U # "codec"
      <4>1. /\ s[1] \in Unfilled(class) /\ s2 = <<Filled(s[1]), s[2]>>
            /\ U = "own" => s[2] = 0
            /\ OutMessage(p, s) /\ Numbers(p, s)
        BY <1>1, <2>2, <3>3, Ports
           DEF OutAllowed, OutThen, T, U, Stands, Conforms, Allowed
      <4>2. OutMessage(p, s2)'
        <5>1. OutMessage(p, s2) /\ s2[1] \in {"filled", "ready"}
          BY <4>1 DEF OutMessage, OutNames, Filled, Unfilled
        <5> QED
          BY <1>1, <1>3, <3>3, <5>1 DEF OutMessage, OutNames, Held, fixed
      <4>3. InOf(class) = {} => s[2] = 0 /\ content'[p] = FrameOf(seq)
        <5>1. InOf(class) = {} => U = "own"
          <6>1. From(class, U)
            BY <1>2, <2>2, <3>3, Ports
          <6> QED
            BY <3>3, <6>1 DEF From
        <5>2. class # "BagCamera" => FrameOf(seq) = seq
          BY DEF FrameOf
        <5> QED
          BY <1>3, <1>4, <1>6, <3>3, <4>1, <5>1, <5>2
      <4>4. InOf(class) # {} =>
              class # "ImgPlayer" /\ content'[p] = run /\ inside = << >>
        <5>1. class = "ImgPlayer" => InOf(class) = {}
          BY Ports DEF Fits, Sources
        <5> QED
          BY <1>2, <1>3, <1>4, <2>2, <3>3, <4>1, <5>1, Ports
             DEF From, Numbers, AnswerConforms
      <4> QED
        BY <1>1, <1>5, <1>6, <4>1, <4>2, <4>3, <4>4, FilledNumbers
    <3> QED
      BY <3>1, <3>2, <3>3
  <2> QED
    BY <1>1, <2>1, <2>2, SimpleStep DEF Branching
<1>9. Faults'
  BY <1>1, StaleFaults DEF DoMake
<1> QED
  BY <1>1, <1>7, <1>8, <1>9, StillRunning

(* A kernel that fails has left nothing yet.                               *)
LEMMA Failing ==
  ASSUME KernelInv, state \in {"opening", "running"}, state' \in {"crashed", "exited"},
         UNCHANGED <<fixed, run, seq, reader, data, sent, inside, queue, faults, lost>>,
         state' = "crashed" => NullInput \/ (class = "BagCamera" /\ BagLacks),
         state' = "exited" => class = "BagCamera" /\ BagHasOther
  PROVE  KernelInv'
<1>1. Shape'
  BY SameTags DEF KernelInv, Shape, data, fixed
<1>2. Faults'
  BY FaultsKept DEF KernelInv, data
<1>3. Losses'
  BY DEF KernelInv, Losses, LeaksOnlyUnsent
<1>4. Failures'
  BY DEF Failures, NullInput, BagLacks, BagHasOther, Asked, fixed
<1> QED
  BY <1>1, <1>2, <1>3, <1>4 DEF KernelInv, Opening, Running, Between

(* The image after the n frames it has taken is one the bag was asked for. *)
LEMMA AskedFor ==
  ASSUME Shape, NEW n \in Nat, reader.curMsg = bag.start + n,
         IF bag.cache > 0 THEN n < bag.cache ELSE n <= seq
  PROVE  /\ Image \in {"none", "null"} => BagLacks
         /\ Image = "other" => BagHasOther
<1> DEFINE i == reader.curMsg + 1
<1>1. /\ bag.start \in Nat /\ bag.cache \in Nat /\ seq \in Nat
      /\ bag.images \in Seq(Images) /\ Len(bag.images) \in Nat
  BY Files
<1>2. i \in Asked
  BY <1>1 DEF Asked
<1>3. Image = IF i <= Len(bag.images) THEN bag.images[i] ELSE "none"
  BY <1>1 DEF Image
<1>4. i <= Len(bag.images) => i \in 1..Len(bag.images) /\ bag.images[i] \in Images
  BY <1>1
<1> QED
  BY <1>1, <1>2, <1>3, <1>4 DEF BagLacks, BagHasOther, Images

LEMMA ReadFailsKeeps == ASSUME KernelInv, ReadFails PROVE KernelInv'
<1> USE DEF KernelInv
<1>1. /\ state = "running" /\ todo # << >> /\ Head(todo).op = "Make"
      /\ class = "BagCamera" /\ NoFrame
      /\ state' = IF ~Cached /\ Image = "other" THEN "exited" ELSE "crashed"
      /\ UNCHANGED <<fixed, run, seq, reader, data, sent, inside, queue, faults, lost>>
  BY DEF ReadFails, Do, At, NoFrame
<1>2. BagConforms(seq)
  BY <1>1, BagMakes
<1>3. /\ bag.start \in Nat /\ bag.cache \in Nat /\ seq \in Nat
      /\ reader.cached \in Nat /\ reader.frameIndex \in Nat /\ reader.curMsg \in Nat
  BY Files
<1>4. ~Cached
  <2>1. SUFFICES ASSUME Cached PROVE FALSE
    OBVIOUS
  <2>2. reader.frameIndex = seq % reader.cached /\ reader.cached > 0
    BY <2>1, <1>2 DEF BagConforms, Cached
  <2>3. reader.frameIndex < reader.cached
    BY <1>3, <2>2
  <2> QED
    BY <1>1, <1>3, <2>1, <2>3 DEF NoFrame
<1>5. /\ reader.curMsg = bag.start + seq /\ Image # "frame"
      /\ bag.cache > 0 => seq = 0 /\ Image = "null"
  BY <1>1, <1>2, <1>4 DEF BagConforms, NoFrame
<1>6. Image \in {"none", "null"} => BagLacks
  BY <1>3, <1>5, AskedFor
<1>7. Image = "other" => BagHasOther
  BY <1>3, <1>5, AskedFor
<1>8. Image \in {"none", "frame", "other", "null"}
  BY Files DEF Image, Images
<1> QED
  BY <1>1, <1>4, <1>5, <1>6, <1>7, <1>8, Failing

LEMMA ShareKeeps == ASSUME KernelInv, DoShare PROVE KernelInv'
<1> USE DEF KernelInv
<1>1. /\ state = "running" /\ todo # << >> /\ Sound /\ todo' = Rest
      /\ Head(todo).op = "Share" /\ content' = [content EXCEPT ![T] = content[U]]
      /\ buf' = [buf EXCEPT ![T] = buf[U], ![U] = "shared"]
      /\ UNCHANGED <<fixed, run, state, seq, reader, msg, hdr, got, sent, inside,
                     queue, lost>>
  BY DEF DoShare, Do, At
<1>2. /\ T \in OutOf(class) /\ U \in InOf(class) /\ class \notin CodecClasses
      /\ T # U /\ T \in Tags /\ U \in Tags /\ T # "packet" /\ U # "packet"
  BY <1>1, StepTaken, Ports DEF Takes, T, U
<1>3. /\ content'[T] = run /\ buf'[T] = buf[U] /\ buf'[U] = "shared"
      /\ \A p \in InOf(class) : content'[p] = content[p]
      /\ \A p \in InOf(class) \cup OutOf(class) \cup {"packet"} :
           /\ p # T => content'[p] = content[p]
           /\ p \notin {T, U} => buf'[p] = buf[p]
  BY <1>1, <1>2, InputContent, Ports DEF Shape
<1>4. buf[U] \in {"none", "mine"}
  <2>1. class = "NonDisplay" => OutOf(class) = {}
    BY PortNames DEF Displays
  <2> QED
    BY <1>1, <1>2, <2>1, InputContent
<1>5. Shape'
  <2>1. content[U] \in Int /\ buf[U] \in BufStates
    BY <1>2 DEF Shape
  <2>2. content' \in [Tags -> Int]
    BY <1>1, <2>1 DEF Shape
  <2>3. buf' \in [Tags -> BufStates]
    BY <1>1, <2>1 DEF Shape, BufStates
  <2>4. buf'["packet"] = buf["packet"]
    BY <1>2, <1>3
  <2> QED
    BY <1>1, <2>2, <2>3, <2>4, SameTags DEF Shape, fixed
<1>6. Running'
  <2>1. ASSUME NEW p \in InOf(class), NEW s, NEW s2, Stands(p, s),
               s2 = InThen(class, p, Head(todo), s)
        PROVE  InConforms(p, s2)'
    <3>1. CASE p # U
      <4>1. p \notin {T, U}
        BY <1>2, <2>1, <3>1, Ports
      <4> QED
        BY <1>1, <1>3, <2>1, <4>1, InSame
    <3>2. CASE p = U
      <4>1. s \in {"got", "here", "lent"} /\ s2 = "empty" /\ InConforms(p, s)
        BY <1>1, <2>1, <3>2 DEF InAllowed, InThen, U, Stands, Conforms, Allowed
      <4>2. msg[p] # "null"
        BY <1>1, <1>2, <3>2, Reading DEF Sound, MayBeNull
      <4> QED
        BY <1>1, <1>3, <2>1, <3>2, <4>1, <4>2 DEF InConforms, Early, fixed
    <3> QED
      BY <3>1, <3>2
  <2>2. ASSUME NEW p \in OutOf(class), NEW s, NEW s2, Stands(p, s),
               s2 = OutThen(class, p, Head(todo), s)
        PROVE  OutMessage(p, s2)' /\ Numbers(p, s2)'
    <3>1. CASE p # T
      <4>1. p # U
        BY <1>2, <2>2, Ports
      <4> QED
        BY <1>1, <1>3, <2>2, <3>1, <4>1, OutSame
    <3>2. CASE p = T
      <4>1. /\ s[1] \in Unfilled(class) /\ s2 = <<Filled(s[1]), s[2]>>
            /\ OutMessage(p, s) /\ Numbers(p, s)
        BY <1>1, <1>2, <2>2, <3>2, Ports
           DEF OutAllowed, OutThen, T, U, Stands, Conforms, Allowed
      <4>2. OutMessage(p, s2)'
        <5>1. OutMessage(p, s2) /\ s2[1] \in {"filled", "ready"}
          BY <4>1 DEF OutMessage, OutNames, Filled, Unfilled
        <5> QED
          BY <1>1, <1>3, <1>4, <3>2, <5>1 DEF OutMessage, OutNames, Held, fixed
      <4>3. InOf(class) # {} /\ content'[p] = run /\ inside = << >>
        BY <1>2, <1>3, <3>2, <4>1 DEF Numbers, AnswerConforms
      <4>4. class \notin {"BagCamera", "ImgPlayer"}
        BY <4>3, Ports DEF Fits, Sources
      <4> QED
        BY <1>1, <4>1, <4>2, <4>3, <4>4, FilledNumbers
    <3> QED
      BY <3>1, <3>2
  <2> QED
    BY <1>1, <2>1, <2>2, SimpleStep DEF Branching
<1>7. Faults'
  BY <1>1, StaleFaults DEF DoShare
<1> QED
  BY <1>1, <1>5, <1>6, <1>7, StillRunning

LEMMA OwnFaults ==
  ASSUME Shape, Running, Faults, state = "running", todo # << >>, UNCHANGED fixed, Sound,
         T \in Reads, Head(todo).op \in {"Pixels", "Release", "Send"},
         faults' \subseteq faults \cup Stale(T) \cup StaleData(T),
         \A p \in InOf(class) : msg[p] = "null" => msg'[p] = "null"
  PROVE  Faults'
<1>1. \A f \in Stale(T) : KnownFault(f)'
  BY StaleReads
<1>2. \A f \in StaleData(T) : KnownFault(f)'
  BY StalePixels
<1> QED
  BY <1>1, <1>2, FaultsKept

LEMMA ReleaseKeeps == ASSUME KernelInv, DoRelease PROVE KernelInv'
<1> USE DEF KernelInv
<1>1. /\ state = "running" /\ todo # << >> /\ Sound /\ todo' = Rest
      /\ Head(todo).op = "Release" /\ buf' = [buf EXCEPT ![T] = "freed"]
      /\ UNCHANGED <<fixed, run, state, seq, reader, msg, hdr, content, got, sent,
                     inside, queue, lost>>
  BY DEF DoRelease, Do, At
<1>2. T \in InOf(class) /\ U = "" /\ T \in Tags /\ T # "packet" /\ T \in Reads
  BY <1>1, StepTaken, Ports, Reading DEF Takes, T, U, MayBeNull
<1>3. /\ buf'[T] = "freed"
      /\ \A p \in InOf(class) \cup OutOf(class) \cup {"packet"} :
           p # T => buf'[p] = buf[p]
  BY <1>1, <1>2, Ports DEF Shape
<1>4. Shape'
  <2>1. buf' \in [Tags -> BufStates]
    BY <1>1 DEF Shape, BufStates
  <2>2. buf'["packet"] = buf["packet"]
    BY <1>2, <1>3
  <2> QED
    BY <1>1, <2>1, <2>2, SameTags DEF Shape, fixed
<1>5. Running'
  <2>1. ASSUME NEW p \in InOf(class), NEW s, NEW s2, Stands(p, s),
               s2 = InThen(class, p, Head(todo), s)
        PROVE  InConforms(p, s2)'
    <3>1. CASE p # T
      <4>1. p \notin {T, U}
        BY <1>2, <2>1, <3>1, Ports
      <4> QED
        BY <1>1, <1>3, <2>1, <4>1, InSame
    <3>2. CASE p = T
      <4>1. s \in {"got", "here", "lent"} /\ s2 = "empty" /\ InConforms(p, s)
        BY <1>1, <2>1, <3>2 DEF InAllowed, InThen, T, Stands, Conforms, Allowed
      <4>2. msg[p] # "null"
        BY <1>1, <1>2, <3>2 DEF Sound
      <4> QED
        BY <1>1, <1>3, <2>1, <3>2, <4>1, <4>2 DEF InConforms, Early, fixed
    <3> QED
      BY <3>1, <3>2
  <2>2. ASSUME NEW p \in OutOf(class), NEW s, NEW s2, Stands(p, s),
               s2 = OutThen(class, p, Head(todo), s)
        PROVE  OutMessage(p, s2)' /\ Numbers(p, s2)'
    <3>1. p # T
      BY <1>2, <2>2, Ports
    <3> QED
      BY <1>1, <1>3, <2>2, <3>1, OutSame
  <2> QED
    BY <1>1, <2>1, <2>2, SimpleStep DEF Branching
<1>6. Faults'
  BY <1>1, <1>2, OwnFaults DEF DoRelease
<1> QED
  BY <1>1, <1>4, <1>5, <1>6, StillRunning

LEMMA FreeKeeps == ASSUME KernelInv, DoFree PROVE KernelInv'
<1> USE DEF KernelInv
<1>1. /\ state = "running" /\ todo # << >> /\ Sound /\ todo' = Rest
      /\ Head(todo).op = "Free"
      /\ msg' = [msg EXCEPT ![T] = IF @ = "null" THEN @ ELSE "deleted"]
      /\ faults' = faults \cup Stale(T)
      /\ UNCHANGED <<fixed, run, state, seq, reader, buf, hdr, content, got, sent,
                     inside, queue, lost>>
  BY DEF DoFree, Do, At
<1>2. T \in InOf(class) /\ U = "" /\ T \in Tags /\ T # "packet"
  BY <1>1, StepTaken, Ports DEF Takes, T, U
<1>3. /\ msg'[T] = IF msg[T] = "null" THEN "null" ELSE "deleted"
      /\ \A p \in InOf(class) \cup OutOf(class) \cup {"packet"} :
           p # T => msg'[p] = msg[p]
  BY <1>1, <1>2, Ports DEF Shape
<1>4. class = Renderer => msg'["out_frame"] = msg["out_frame"]
  BY <1>2, <1>3, Ports DEF Fits
<1>5. Shape'
  <2>1. msg' \in [Tags -> MsgStates]
    BY <1>1 DEF Shape, MsgStates
  <2>2. msg'["packet"] = msg["packet"]
    BY <1>2, <1>3
  <2> QED
    BY <1>1, <2>1, <2>2, SameTags DEF Shape, fixed
<1>6. Running'
  <2>1. ASSUME NEW p \in InOf(class), NEW s, NEW s2, Stands(p, s),
               s2 = InThen(class, p, Head(todo), s)
        PROVE  InConforms(p, s2)'
    <3>1. CASE p # T
      <4>1. p \notin {T, U}
        BY <1>2, <2>1, <3>1, Ports
      <4> QED
        BY <1>1, <1>3, <1>4, <2>1, <3>1, <4>1, InSame
    <3>2. CASE p = T
      <4>1. /\ \/ s = "empty"
               \/ s = "here" /\ ~HasData(class, p)
               \/ s = "here" /\ class = Renderer /\ p = "in_frame"
               \/ s = "got" /\ ~HasData(class, p) /\ class = Renderer
               \/ s = "absent" /\ class = Renderer
            /\ s2 = IF s = "here" /\ HasData(class, p) THEN "left" ELSE "done"
            /\ InConforms(p, s)
        BY <1>1, <2>1, <3>2 DEF InAllowed, InThen, T, Stands, Conforms, Allowed
      <4>2. CASE s2 = "left"
        <5>1. s = "here"
          BY <4>1, <4>2
        <5> QED
          BY <1>1, <1>3, <1>4, <3>2, <4>1, <4>2, <5>1 DEF InConforms, Early, fixed
      <4>3. CASE s2 = "done"
        <5>1. /\ buf[p] # "mine" /\ hdr[p] = run /\ content[p] = run
              /\ msg[p] = "null" => class = Renderer
          BY <4>1, <4>3 DEF InConforms
        <5> QED
          BY <1>1, <1>3, <3>2, <4>3, <5>1 DEF InConforms, Early, fixed
      <4> QED
        BY <4>1, <4>2, <4>3
    <3> QED
      BY <3>1, <3>2
  <2>2. ASSUME NEW p \in OutOf(class), NEW s, NEW s2, Stands(p, s),
               s2 = OutThen(class, p, Head(todo), s)
        PROVE  OutMessage(p, s2)' /\ Numbers(p, s2)'
    <3>1. p # T
      BY <1>2, <2>2, Ports
    <3> QED
      BY <1>1, <1>3, <2>2, <3>1, OutSame
  <2> QED
    BY <1>1, <2>1, <2>2, SimpleStep DEF Branching
<1>7. Stale(T) = {}
  <2>1. PICK s : Stands(T, s)
    BY <1>1, <1>2, Ports, Standing
  <2>2. s \in {"empty", "here", "got", "absent"} /\ InConforms(T, s)
    BY <1>1, <1>2, <2>1 DEF InAllowed, T, Stands, Conforms, Allowed
  <2> QED
    BY <2>2 DEF InConforms, Stale
<1>8. Faults'
  BY <1>1, <1>3, <1>7, FaultsKept
<1> QED
  BY <1>1, <1>5, <1>6, <1>8, StillRunning

(* What sendOutput is given, and what is left of it.                       *)
LEMMA Sending ==
  ASSUME KernelInv, DoSend
  PROVE  /\ T \in OutOf(class) /\ U = "" /\ T \in Tags /\ T \in Reads
         /\ sent'[T] = [hdr |-> hdr[T], content |-> content[T]]
         /\ \A p \in OutOf(class) : p # T => sent'[p] = sent[p]
         /\ \A p \in InOf(class) \cup OutOf(class) \cup {"packet"} :
              p # T => msg'[p] = msg[p] /\ buf'[p] = buf[p]
         /\ \A s : Stands(T, s) =>
              /\ s[1] = "ready" /\ msg[T] = Held(T) /\ buf[T] \in {"none", "mine"}
              /\ OutThen(class, T, Head(todo), s) = <<"given", s[2]>>
         /\ msg[T] = Held(T) =>
              /\ msg'[T] \in {"slot", "peer", "deleted"}
              /\ buf'[T] = "mine" => \/ msg'[T] = "slot"
                                     \/ outCh[T] = "copied" /\ OutPort(T).coder # "CODED"
<1> USE DEF KernelInv
<1>1. /\ state = "running" /\ todo # << >> /\ Head(todo).op = "Send"
      /\ sent' = [sent EXCEPT ![T] = Given]
      /\ \/ /\ outCh[T] = "raftlib"
            /\ msg' = [msg EXCEPT ![T] = "peer"]
            /\ buf' = [buf EXCEPT ![T] = IF @ = "mine" THEN "peer" ELSE @]
         \/ outCh[T] = "raftlib" /\ UNCHANGED <<msg, buf>>
         \/ /\ outCh[T] = "copied"
            /\ msg' = [msg EXCEPT ![T] = "deleted"]
            /\ buf' = [buf EXCEPT ![T] =
                 IF OutPort(T).coder = "CODED" /\ @ = "mine" THEN "freed" ELSE @]
  BY DEF DoSend, Do, At
<1>2. T \in OutOf(class) /\ U = "" /\ T \in Tags /\ T \in Reads
  BY <1>1, StepTaken, Ports, Reading DEF Takes, T, U, MayBeNull
<1>3. /\ sent'[T] = [hdr |-> hdr[T], content |-> content[T]]
      /\ \A p \in OutOf(class) : p # T => sent'[p] = sent[p]
  <2>1. DOMAIN sent = Tags /\ OutOf(class) \subseteq Tags
    BY Ports DEF Shape
  <2> QED
    BY <1>1, <1>2, <2>1 DEF Given
<1>4. \A p \in InOf(class) \cup OutOf(class) \cup {"packet"} :
        p # T => msg'[p] = msg[p] /\ buf'[p] = buf[p]
  BY <1>1, Ports DEF Shape
<1>5. ASSUME NEW s, Stands(T, s)
      PROVE  /\ s[1] = "ready" /\ msg[T] = Held(T) /\ buf[T] \in {"none", "mine"}
             /\ OutThen(class, T, Head(todo), s) = <<"given", s[2]>>
  <2>1. OutMessage(T, s) /\ OutAllowed(class, T, Head(todo), s)
    BY <1>2, <1>5 DEF Stands, Conforms, Allowed
  <2>2. s[1] = "ready"
    BY <1>1, <2>1 DEF OutAllowed, T
  <2> QED
    BY <1>1, <2>1, <2>2 DEF OutMessage, OutNames, OutThen, T
<1>6. msg[T] = Held(T) =>
        /\ msg'[T] \in {"slot", "peer", "deleted"}
        /\ buf'[T] = "mine" => \/ msg'[T] = "slot"
                               \/ outCh[T] = "copied" /\ OutPort(T).coder # "CODED"
  BY <1>1, <1>2 DEF Shape, Held
<1> QED
  BY <1>2, <1>3, <1>4, <1>5, <1>6

LEMMA SentNumbers ==
  ASSUME Shape, UNCHANGED <<fixed, run, seq, reader, inside, hdr, content>>,
         NEW p \in OutOf(class), NEW s, NEW s2, Numbers(p, s), s[1] = "ready", class = "ImgPlayer" => s[2] = 1,
         s2 = <<"given", s[2]>>, sent'[p] = [hdr |-> hdr[p], content |-> content[p]]
  PROVE  Numbers(p, s2)'
<1>1. s2[1] = "given" /\ s2[2] = s[2] /\ s2 = <<s2[1], s2[2]>>
  OBVIOUS
<1>2. sent'[p].hdr = hdr[p] /\ sent'[p].content = content[p]
  OBVIOUS
<1>3. Number(s2)' = Number(s) /\ Frames(s2)' = Frames(s)
  BY <1>1 DEF Number, Frames
<1>0. CASE InOf(class) = {} /\ class = "ImgPlayer"
  <2>1. PlayerConforms(p, s) /\ s[2] = 1
    BY <1>0 DEF Numbers
  <2>2. s2 = <<"given", 1>> /\ Played(s2)' = Played(s)
    BY <1>1, <2>1 DEF Played
  <2>3. PlayerConforms(p, s2)'
    BY <1>1, <1>2, <2>1, <2>2
       DEF PlayerConforms, PlayerFiles, MissingAt, Follows, Lap, fixed
  <2> QED
    BY <1>0, <2>3 DEF Numbers, fixed
<1>4. CASE InOf(class) = {} /\ class # "ImgPlayer"
  <2>1. SourceConforms(p, s)
    BY <1>4 DEF Numbers
  <2>2. SourceConforms(p, s2)'
    BY <1>1, <1>2, <1>3, <2>1 DEF SourceConforms, BagConforms, Cached, Image, fixed
  <2> QED
    BY <1>4, <2>2 DEF Numbers, fixed
<1>5. CASE InOf(class) # {}
  <2>1. AnswerConforms(p, s)
    BY <1>5 DEF Numbers
  <2>2. content[p] \in Int /\ run \in Nat
    BY Ports DEF Shape
  <2>3. content[p] <= run
    BY <2>1, <2>2 DEF AnswerConforms
  <2>4. Ordered(p, run)'
    BY <1>2, <2>1, <2>3 DEF AnswerConforms, Ordered
  <2>5. Ordered(p, IF s2[1] \in {"fresh", "placed", "titled"} THEN run - 1 ELSE run)'
    BY <1>1, <2>4
  <2>6. AnswerConforms(p, s2)'
    BY <1>1, <2>1, <2>5 DEF AnswerConforms, fixed
  <2> QED
    BY <1>5, <2>6 DEF Numbers, fixed
<1> QED
  BY <1>0, <1>4, <1>5

LEMMA SendKeeps == ASSUME KernelInv, DoSend PROVE KernelInv'
<1> USE DEF KernelInv
<1>1. /\ state = "running" /\ todo # << >> /\ Sound /\ todo' = Rest
      /\ Head(todo).op = "Send" /\ sent' = [sent EXCEPT ![T] = Given]
      /\ UNCHANGED <<fixed, run, state, seq, reader, hdr, content, got, inside,
                     queue, lost>>
  BY DEF DoSend, Do, At
<1>2. /\ T \in OutOf(class) /\ U = "" /\ T \in Tags /\ T \in Reads
      /\ sent'[T] = [hdr |-> hdr[T], content |-> content[T]]
      /\ \A p \in OutOf(class) : p # T => sent'[p] = sent[p]
      /\ \A p \in InOf(class) \cup OutOf(class) \cup {"packet"} :
           p # T => msg'[p] = msg[p] /\ buf'[p] = buf[p]
  BY Sending
<1>3. PICK r : Stands(T, r)
  BY <1>1, <1>2, Ports, Standing
<1>4. r[1] = "ready" /\ msg[T] = Held(T) /\ buf[T] \in {"none", "mine"}
  BY <1>3, Sending
<1>5. class = Renderer => T = "out_frame"
  BY <1>2, Ports DEF Fits
<1>6. Shape'
  <2>1. /\ \/ UNCHANGED msg \/ msg' = [msg EXCEPT ![T] = "peer"]
           \/ msg' = [msg EXCEPT ![T] = "deleted"]
        /\ \/ UNCHANGED buf
           \/ buf' = [buf EXCEPT ![T] = IF @ = "mine" THEN "peer" ELSE @]
           \/ buf' = [buf EXCEPT ![T] =
                 IF OutPort(T).coder = "CODED" /\ @ = "mine" THEN "freed" ELSE @]
    BY DEF DoSend
  <2>2. msg' \in [Tags -> MsgStates]
    BY <2>1 DEF Shape, MsgStates
  <2>3. buf' \in [Tags -> BufStates]
    BY <2>1 DEF Shape, BufStates
  <2>4. sent' \in [Tags -> [hdr : Int, content : Int]]
    <3>1. Given \in [hdr : Int, content : Int]
      BY <1>2 DEF Shape, Given
    <3> QED
      BY <1>1, <3>1 DEF Shape
  <2>5. T # "packet"
    BY <1>2, Ports
  <2>6. msg'["packet"] = msg["packet"] /\ buf'["packet"] = buf["packet"]
    BY <1>2, <2>5
  <2> QED
    BY <1>1, <2>2, <2>3, <2>4, <2>6, SameTags DEF Shape, fixed
<1>7. Running'
  <2>1. ASSUME NEW p \in InOf(class), NEW s, NEW s2, Stands(p, s),
               s2 = InThen(class, p, Head(todo), s)
        PROVE  InConforms(p, s2)'
    <3>1. p \notin {T, U}
      BY <1>2, <2>1, Ports
    <3>2. InConforms(p, s)
      BY <2>1 DEF Stands, Conforms
    <3>3. ~(class = Renderer /\ p = "in_frame" /\ s \in Early)
      BY <1>4, <1>5, <3>2 DEF InConforms, Held
    <3> QED
      BY <1>1, <1>2, <2>1, <3>1, <3>3, InSame
  <2>2. ASSUME NEW p \in OutOf(class), NEW s, NEW s2, Stands(p, s),
               s2 = OutThen(class, p, Head(todo), s)
        PROVE  OutMessage(p, s2)' /\ Numbers(p, s2)'
    <3>1. CASE p # T
      BY <1>1, <1>2, <2>2, <3>1, OutSame
    <3>2. CASE p = T
      <4>1. /\ s[1] = "ready" /\ s2 = <<"given", s[2]>> /\ Numbers(p, s)
            /\ class = "ImgPlayer" => s[2] = 1
        BY <1>1, <2>2, <3>2, Sending DEF Stands, Conforms, Allowed, OutAllowed, T
      <4>2. /\ msg'[p] \in {"slot", "peer", "deleted"}
            /\ buf'[p] = "mine" => \/ msg'[p] = "slot"
                                   \/ outCh[p] = "copied" /\ OutPort(p).coder # "CODED"
        BY <1>4, <3>2, Sending
      <4>3. OutMessage(p, s2)'
        BY <1>1, <4>1, <4>2 DEF OutMessage, OutNames, OutPort, fixed
      <4> QED
        BY <1>1, <1>2, <3>2, <4>1, <4>3, SentNumbers
    <3> QED
      BY <3>1, <3>2
  <2> QED
    BY <1>1, <2>1, <2>2, SimpleStep DEF Branching
<1>8. Faults'
  <2>1. faults' \subseteq faults \cup Stale(T) \cup StaleData(T)
    BY DEF DoSend
  <2>2. \A p \in InOf(class) : msg'[p] = msg[p]
    BY <1>2, Ports
  <2> QED
    BY <1>1, <1>2, <2>1, <2>2, OwnFaults
<1> QED
  BY <1>1, <1>6, <1>7, <1>8, StillRunning

(* getInput puts a message m with data d, or null, in a port that had      *)
(* none.                                                                   *)
LEMMA TakeKeeps ==
  ASSUME KernelInv, Do("Get"), NEW m \in {"slot", "mine", "null"}, NEW d, Take(T, m, d),
         UNCHANGED <<fixed, run, state, seq, reader, sent, inside, queue, lost>>,
         m = "null" => (class = Renderer \/ inCh[T] = "copied") /\ d = "none",
         \/ d = "none"
         \/ d = "mine" /\ HasData(class, T)
         \/ d = "foreign" /\ class = "NonDisplay" /\ inCh["in_frame"] = "copied",
         \A f \in faults' \ faults : KnownFault(f)'
  PROVE  KernelInv'
<1> USE DEF KernelInv
<1>1. /\ state = "running" /\ todo # << >> /\ Sound /\ todo' = Rest
      /\ Head(todo).op = "Get"
      /\ msg' = [msg EXCEPT ![T] = m] /\ buf' = [buf EXCEPT ![T] = d]
      /\ hdr' = [hdr EXCEPT ![T] = run] /\ content' = [content EXCEPT ![T] = run]
  BY DEF Do, At, Take
<1>2. T \in InOf(class) /\ U = "" /\ T \in Tags /\ T # "packet"
  BY <1>1, StepTaken, Ports DEF Takes, T, U
<1>3. /\ msg'[T] = m /\ buf'[T] = d /\ hdr'[T] = run /\ content'[T] = run
      /\ \A p \in InOf(class) \cup OutOf(class) \cup {"packet"} :
           p # T => /\ msg'[p] = msg[p] /\ buf'[p] = buf[p]
                    /\ hdr'[p] = hdr[p] /\ content'[p] = content[p]
  BY <1>1, <1>2, Ports DEF Shape
<1>4. class = Renderer => msg'["out_frame"] = msg["out_frame"]
  BY <1>2, <1>3, Ports DEF Fits
<1>5. Shape'
  <2>1. msg' \in [Tags -> MsgStates]
    BY <1>1 DEF Shape, MsgStates
  <2>2. buf' \in [Tags -> BufStates]
    BY <1>1 DEF Shape, BufStates
  <2>3. hdr' \in [Tags -> Int] /\ content' \in [Tags -> Int]
    <3>1. run \in Int
      BY DEF Shape
    <3> QED
      BY <1>1, <3>1 DEF Shape
  <2>4. msg'["packet"] = msg["packet"] /\ buf'["packet"] = buf["packet"]
    BY <1>2, <1>3
  <2>5. UNCHANGED <<fixed, run, state, seq, reader, sent, inside, queue>>
    OBVIOUS
  <2> QED
    BY <2>1, <2>2, <2>3, <2>4, <2>5, SameTags DEF Shape, fixed
<1>6. Running'
  <2>1. ASSUME NEW p \in InOf(class), NEW s, NEW s2, Stands(p, s),
               s2 = InThen(class, p, Head(todo), s)
        PROVE  InConforms(p, s2)'
    <3>1. CASE p # T
      <4>1. p \notin {T, U}
        BY <1>2, <2>1, <3>1, Ports
      <4> QED
        BY <1>1, <1>3, <1>4, <2>1, <3>1, <4>1, InSame
    <3>2. CASE p = T
      <4>1. s = "fresh" /\ s2 = "got" /\ InConforms(p, s)
        BY <1>1, <2>1, <3>2 DEF InAllowed, InThen, T, Stands, Conforms, Allowed
      <4>2. class = Renderer /\ p = "in_frame" => msg'["out_frame"] = "none"
        BY <1>4, <4>1 DEF InConforms, Early
      <4> QED
        BY <1>3, <3>2, <4>1, <4>2 DEF InConforms, fixed
    <3> QED
      BY <3>1, <3>2
  <2>2. ASSUME NEW p \in OutOf(class), NEW s, NEW s2, Stands(p, s),
               s2 = OutThen(class, p, Head(todo), s)
        PROVE  OutMessage(p, s2)' /\ Numbers(p, s2)'
    <3>1. p # T
      BY <1>2, <2>2, Ports
    <3> QED
      BY <1>1, <1>3, <2>2, <3>1, OutSame
  <2> QED
    BY <1>1, <2>1, <2>2, SimpleStep DEF Branching
<1>7. Faults'
  <2>1. PICK s : Stands(T, s)
    BY <1>1, <1>2, Ports, Standing
  <2>2. s = "fresh" /\ InConforms(T, s)
    BY <1>1, <1>2, <2>1 DEF InAllowed, T, Stands, Conforms, Allowed
  <2>3. \A p \in InOf(class) : msg[p] = "null" => msg'[p] = "null"
    BY <1>3, <2>2 DEF InConforms
  <2> QED
    BY <2>3, FaultsKept
<1> QED
  BY <1>1, <1>5, <1>6, <1>7, StillRunning

LEMMA GetLocalKeeps == ASSUME KernelInv, GetLocal PROVE KernelInv'
<1> DEFINE d == IF InPort(T).type \in {"frame", "encoded"} THEN "mine" ELSE "none"
<1>1. d = "none" \/ (d = "mine" /\ HasData(class, T))
  BY DEF HasData, InPort
<1>2. Do("Get") /\ Take(T, "slot", d)
      /\ UNCHANGED <<fixed, run, state, seq, reader, sent, inside, queue, faults, lost>>
  BY DEF GetLocal
<1> HIDE DEF d
<1> QED
  BY <1>1, <1>2, TakeKeeps

LEMMA GetNothingKeeps == ASSUME KernelInv, GetNothing PROVE KernelInv'
<1>1. Do("Get") /\ Take(T, "null", "none") /\ InPort(T).sem = "NONBLOCKING"
      /\ UNCHANGED <<fixed, run, state, seq, reader, sent, inside, queue, faults, lost>>
  BY DEF GetNothing
<1>2. T \in InOf(class)
  BY <1>1, StepTaken DEF Takes, T, KernelInv, Do, At
<1>3. class = Renderer
  BY <1>1, <1>2, Ports DEF Fits, InPort, KernelInv
<1> QED
  BY <1>1, <1>3, TakeKeeps

LEMMA GetArchiveKeeps == ASSUME KernelInv, GetArchive PROVE KernelInv'
<1>1. /\ Do("Get") /\ inCh[T] = "copied" /\ InPort(T).type = "imus"
      /\ \/ Take(T, "mine", "none") /\ UNCHANGED state
         \/ state' = "crashed" /\ UNCHANGED data
      /\ UNCHANGED <<fixed, run, seq, reader, sent, inside, queue, faults, lost>>
  BY DEF GetArchive
<1>2. T \in InOf(class)
  BY <1>1, StepTaken DEF Takes, T, KernelInv, Do, At
<1>3. class # Renderer
  BY <1>1, <1>2, Ports DEF Fits, InPort, KernelInv
<1>4. CASE Take(T, "mine", "none") /\ UNCHANGED state
  BY <1>1, <1>4, TakeKeeps
<1>5. CASE state' = "crashed" /\ UNCHANGED data
  BY <1>1, <1>2, <1>3, <1>5, Failing DEF NullInput, Do, At
<1> QED
  BY <1>1, <1>4, <1>5

(* What a port with a deserializer accepts is no shorter than its object.  *)
LEMMA AcceptedIsWhole ==
  ASSUME Shape, T \in InOf(class), InPort(T).type # "imus", InPort(T).coder = "CODED",
         NEW w \in Messages(Sizes), Accepts(T, w.bytes)
  PROVE  ~(w.bytes.size < Meta(T))
<1>1. Inside(w.bytes, Meta(T))
  BY AcceptedIsOwn, Ports DEF Shape, AcceptsOwn
<1>2. w.bytes.dataSize \in Nat /\ w.bytes.size \in Int
  <2>1. PICK d \in Payloads :
        \/ w.bytes.size = FrameMeta + d /\ w.bytes.dataSize = d
        \/ w.bytes.size = PtrMeta + d /\ w.bytes.dataSize = d
        \/ w.bytes.size = FrameMeta /\ w.bytes.dataSize = d
        \/ w.bytes.size = PoseMeta /\ w.bytes.dataSize \in {PoseSize, PoseMeta}
        \/ w.bytes.size = KeyMeta /\ w.bytes.dataSize = 1
    BY MessageCases, RunAssumption
  <2> QED
    BY <2>1, PayloadFits, SizesAssumption DEF PoseSize
<1>3. Meta(T) \in Nat
  <2>1. InPort(T).type \in {"frame", "encoded"}
    BY Ports DEF Fits, InPort
  <2> QED
    BY <2>1, SizesAssumption DEF Meta
<1> QED
  BY <1>1, <1>2, <1>3 DEF Inside

LEMMA GetCopiedKeeps == ASSUME KernelInv, GetCopied PROVE KernelInv'
<1> USE DEF KernelInv
<1>1. /\ Do("Get") /\ inCh[T] = "copied" /\ InPort(T).type # "imus"
      /\ UNCHANGED <<fixed, run, state, seq, reader, sent, inside, queue, lost>>
  BY DEF GetCopied
<1>2. PICK w \in Messages(Sizes) :
        /\ faults' = faults \cup
             IF InPort(T).coder = "CODED" /\ w.bytes.size < Meta(T)
               THEN {<<"overread", "Get", T>>} ELSE {}
        /\ IF Accepts(T, w.bytes) THEN \E d \in DataOf(T, w.kind) : Take(T, "mine", d)
           ELSE Take(T, "null", "none")
  BY DEF GetCopied
<1>3. T \in InOf(class) /\ T \in Tags
  BY <1>1, StepTaken, Ports DEF Takes, T, Do, At
<1>4. ASSUME NEW f \in faults' \ faults
      PROVE  /\ f = <<"overread", "Get", T>> /\ InPort(T).coder = "CODED"
             /\ w.bytes.size < Meta(T)
  BY <1>2, <1>4
<1>5. CASE Accepts(T, w.bytes)
  <2>1. PICK d \in DataOf(T, w.kind) : Take(T, "mine", d)
    BY <1>2, <1>5
  <2>2. \/ d = "none"
        \/ d = "mine" /\ HasData(class, T)
        \/ d = "foreign" /\ class = "NonDisplay" /\ inCh["in_frame"] = "copied"
    <3>1. class = "NonDisplay" => T = "in_frame"
      BY <1>3, PortNames DEF Displays
    <3> QED
      BY <1>1, <1>3, <2>1, <3>1, Ports DEF DataOf, HasData, InPort, Fits
  <2>3. faults' \ faults = {}
    BY <1>1, <1>3, <1>4, <1>5, AcceptedIsWhole
  <2> QED
    BY <1>1, <2>1, <2>2, <2>3, TakeKeeps
<1>6. CASE ~Accepts(T, w.bytes)
  <2>1. Take(T, "null", "none")
    BY <1>2, <1>6
  <2>2. msg'[T] = "null"
    BY <1>3, <2>1 DEF Take, Shape
  <2>3. ASSUME NEW f \in faults' \ faults PROVE KnownFault(f)'
    <3>1. f = <<"overread", "Get", T>>
      BY <1>4, <2>3
    <3> QED
      BY <1>1, <1>3, <2>2, <3>1 DEF KnownFault, fixed
  <2> QED
    BY <1>1, <2>1, <2>3, TakeKeeps
<1> QED
  BY <1>5, <1>6

LEMMA CrashKeeps == ASSUME KernelInv, Crash PROVE KernelInv'
<1>1. PICK t \in Reads : msg[t] = "null"
  BY DEF Crash, Sound
<1>2. NullInput
  BY <1>1, ReadsOwned DEF Crash, KernelInv
<1> QED
  BY <1>2, Failing DEF Crash

(* A branch leaves everything as it is.                                    *)
LEMMA ConformsKept ==
  ASSUME Shape, UNCHANGED <<fixed, run, seq, reader, data, sent, inside, queue>>,
         NEW p \in Tracked(class), NEW s, Conforms(p, s)
  PROVE  Conforms(p, s)'
<1>1. CASE p \in InOf(class)
  <2>1. InConforms(p, s)'
    BY <1>1 DEF Conforms, InConforms, data, fixed
  <2>2. p \notin OutOf(class') /\ p # "queue"
    BY <1>1, Ports DEF fixed
  <2> QED
    BY <2>1, <2>2 DEF Conforms
<1>2. CASE p \in OutOf(class)
  <2>1. OutMessage(p, s)' /\ Numbers(p, s)'
    BY <1>2, OutKept, NumbersKept DEF Conforms, data
  <2>2. p \notin InOf(class') /\ p # "queue"
    BY <1>2, Ports DEF fixed
  <2> QED
    BY <2>1, <2>2 DEF Conforms
<1>3. CASE p \notin InOf(class) \cup OutOf(class)
  <2>1. QueueConforms(s)' /\ p \notin InOf(class') \cup OutOf(class')
    BY <1>3 DEF Conforms, QueueConforms, Tracked, fixed
  <2> QED
    BY <2>1 DEF Conforms
<1> QED
  BY <1>1, <1>2, <1>3

LEMMA BranchKeeps ==
  ASSUME KernelInv, state = "running", todo # << >>,
         UNCHANGED <<fixed, run, state, seq, reader, data, sent, inside, queue,
                     faults, lost>>,
         ASSUME NEW p \in Tracked(class), NEW s, Stands(p, s)
         PROVE  \E s2 : Conforms(p, s2) /\ <<todo', s2>> \in Nexts(class, p, todo, s)
  PROVE  KernelInv'
<1> USE DEF KernelInv
<1>1. Shape'
  BY SameTags DEF Shape, data, fixed
<1>2. Running'
  <2>1. ASSUME NEW p \in Tracked(class), NEW s, Stands(p, s)
        PROVE  \E s2 : Conforms(p, s2)' /\ <<todo', s2>> \in Nexts(class, p, todo, s)
    <3>1. PICK s2 : Conforms(p, s2) /\ <<todo', s2>> \in Nexts(class, p, todo, s)
      BY <2>1
    <3> QED
      BY <3>1, ConformsKept
  <2>2. UNCHANGED <<state, class>>
    BY DEF fixed
  <2> QED
    BY <2>1, <2>2, Advance
<1>3. Faults'
  BY FaultsKept DEF data
<1> QED
  BY <1>1, <1>2, <1>3, StillRunning

LEMMA EitherKeeps == ASSUME KernelInv, DoEither PROVE KernelInv'
<1>1. /\ state = "running" /\ todo # << >> /\ Head(todo).op = "Either"
      /\ todo' \in {Head(todo).then \o Rest, Head(todo).else \o Rest}
      /\ UNCHANGED <<fixed, run, state, seq, reader, data, sent, inside, queue,
                     faults, lost>>
  BY DEF DoEither, Do, At, Choose
<1>2. ASSUME NEW p \in Tracked(class), NEW s, Stands(p, s)
      PROVE  \E s2 : Conforms(p, s2) /\ <<todo', s2>> \in Nexts(class, p, todo, s)
  <2>1. <<todo', s>> \in Nexts(class, p, todo, s)
    BY <1>1 DEF Nexts, Rest
  <2> QED
    BY <1>2, <2>1 DEF Stands
<1> QED
  BY <1>1, <1>2, BranchKeeps

LEMMA IfThereKeeps ==
  ASSUME KernelInv, Do("IfThere"),
         Choose(IF msg[T] # "null" THEN Head(todo).then ELSE << >>)
  PROVE  KernelInv'
<1> USE DEF KernelInv
<1>1. /\ state = "running" /\ todo # << >> /\ Head(todo).op = "IfThere"
      /\ todo' = (IF msg[T] # "null" THEN Head(todo).then ELSE << >>) \o Rest
      /\ UNCHANGED <<fixed, run, state, seq, reader, data, sent, inside, queue,
                     faults, lost>>
  BY DEF Do, At, Choose
<1>2. T \in InOf(class)
  BY <1>1, StepTaken DEF Takes, T
<1>3. ASSUME NEW p \in Tracked(class), NEW s, Stands(p, s)
      PROVE  \E s2 : Conforms(p, s2) /\ <<todo', s2>> \in Nexts(class, p, todo, s)
  <2> DEFINE here == IF T = p THEN "here" ELSE s
             absent == IF T = p THEN "absent" ELSE s
  <2>1. Nexts(class, p, todo, s) =
          {<<Head(todo).then \o Rest, here>>, << << >> \o Rest, absent>>}
    BY <1>1 DEF Nexts, Rest, T
  <2>2. Conforms(p, s)
    BY <1>3 DEF Stands
  <2>3. CASE T # p
    BY <1>1, <2>1, <2>2, <2>3
  <2>4. CASE T = p
    <3>1. s = "got" /\ InConforms(p, s)
      BY <1>1, <1>2, <1>3, <2>2, <2>4 DEF Stands, Conforms, Allowed, InAllowed, T
    <3>2. p \notin OutOf(class) /\ p # "queue"
      BY <1>2, <2>4, Ports
    <3>3. CASE msg[T] # "null"
      <4>1. InConforms(p, "here")
        BY <2>4, <3>1, <3>3 DEF InConforms, Early
      <4>2. Conforms(p, "here")
        BY <3>2, <4>1 DEF Conforms
      <4>3. todo' = Head(todo).then \o Rest /\ here = "here"
        BY <1>1, <2>4, <3>3
      <4> QED
        BY <2>1, <4>2, <4>3
    <3>4. CASE msg[T] = "null"
      <4>1. InConforms(p, "absent")
        BY <2>4, <3>1, <3>4 DEF InConforms, Early
      <4>2. Conforms(p, "absent")
        BY <3>2, <4>1 DEF Conforms
      <4>3. todo' = << >> \o Rest /\ absent = "absent"
        BY <1>1, <2>4, <3>4
      <4> QED
        BY <2>1, <4>2, <4>3
    <3> QED
      BY <3>3, <3>4
  <2> QED
    BY <2>3, <2>4
<1> QED
  BY <1>1, <1>3, BranchKeeps

LEMMA IfQueueKeeps ==
  ASSUME KernelInv, NEW ask \in BOOLEAN,
         \/ Do("IfElement") /\ (ask <=> queue > 0)
         \/ Do("IfRoom") /\ (ask <=> queue < QueueSize),
         Choose(IF ask THEN Head(todo).then ELSE << >>)
  PROVE  KernelInv'
<1> USE DEF KernelInv
<1>1. /\ state = "running" /\ todo # << >>
      /\ Head(todo).op \in {"IfElement", "IfRoom"}
      /\ todo' = (IF ask THEN Head(todo).then ELSE << >>) \o Rest
      /\ UNCHANGED <<fixed, run, state, seq, reader, data, sent, inside, queue,
                     faults, lost>>
  BY DEF Do, At, Choose
<1>2. ask => QueueConforms("open")
  <2>1. \/ class = "Rgba2RgbAppSource" /\ Head(todo).op = "IfElement"
        \/ class = "Rgb2RgbaAppSink" /\ Head(todo).op = "IfRoom"
    BY <1>1, StepTaken DEF Takes
  <2> QED
    BY <2>1 DEF QueueConforms, Do, At
<1>3. ASSUME NEW p \in Tracked(class), NEW s, Stands(p, s)
      PROVE  \E s2 : Conforms(p, s2) /\ <<todo', s2>> \in Nexts(class, p, todo, s)
  <2> DEFINE open == IF p = "queue" THEN "open" ELSE s
  <2>1. Nexts(class, p, todo, s) =
          {<<Head(todo).then \o Rest, open>>, << << >> \o Rest, s>>}
    BY <1>1 DEF Nexts, Rest
  <2>2. Conforms(p, s)
    BY <1>3 DEF Stands
  <2>3. ask => Conforms(p, open)
    BY <1>2, <2>2, Ports DEF Conforms
  <2>4. CASE ask
    BY <1>1, <2>1, <2>3, <2>4
  <2>5. CASE ~ask
    BY <1>1, <2>1, <2>2, <2>5
  <2> QED
    BY <2>4, <2>5
<1> QED
  BY <1>1, <1>3, BranchKeeps

LEMMA IfKeeps == ASSUME KernelInv, DoIf PROVE KernelInv'
<1>1. CASE /\ Do("IfThere")
           /\ Choose(IF msg[T] # "null" THEN Head(todo).then ELSE << >>)
  BY <1>1, IfThereKeeps
<1>2. CASE /\ Do("IfElement")
           /\ Choose(IF queue > 0 THEN Head(todo).then ELSE << >>)
  <2>1. PICK ask \in BOOLEAN : ask <=> queue > 0
    OBVIOUS
  <2> QED
    BY <1>2, <2>1, IfQueueKeeps
<1>3. CASE /\ Do("IfRoom")
           /\ Choose(IF queue < QueueSize THEN Head(todo).then ELSE << >>)
  <2>1. PICK ask \in BOOLEAN : ask <=> queue < QueueSize
    OBVIOUS
  <2> QED
    BY <1>3, <2>1, IfQueueKeeps
<1> QED
  BY <1>1, <1>2, <1>3 DEF DoIf

(* The branches of ImgPlayer: the image it has chosen is there, or it has  *)
(* started again; after the last one of a lap it starts again.             *)
LEMMA ImageChosen ==
  ASSUME Shape, UNCHANGED <<fixed, sent>>, NEW p \in OutOf(class),
         PlayerConforms(p, <<"placed", 0>>),
         \/ ~Missing /\ UNCHANGED <<seq, reader>>
         \/ Missing /\ reader' = [reader EXCEPT !.nImgs = seq] /\ seq' = 0
  PROVE  PlayerConforms(p, <<"chosen", 0>>)' /\ reader' \in Readers /\ seq' \in Nat
<1> DEFINE s == <<"placed", 0>>
           s2 == <<"chosen", 0>>
<1>1. /\ folder.listed \in Nat /\ folder.listed > 0 /\ folder.there \in Nat
      /\ folder.preload \in BOOLEAN /\ reader.nImgs \in Nat /\ reader.caching \in BOOLEAN
      /\ seq \in Nat /\ reader \in Readers /\ sent[p].hdr \in Int
  BY Files, Ports DEF Shape
<1>2. Played(s) = seq /\ Played(s2)' = seq'
  BY <1>1 DEF Played
<1>3. /\ PlayerFiles /\ Follows(p, seq)
      /\ seq = 0 \/ (seq < reader.nImgs /\ (reader.caching \/ seq <= folder.there))
  BY <1>2 DEF PlayerConforms
<1>4. CASE ~Missing /\ UNCHANGED <<seq, reader>>
  <2>1. seq < Lap /\ ~MissingAt(seq)
    BY <1>1, <1>3, <1>4 DEF Missing, MissingAt, PlayerFiles, Lap
  <2>2. /\ PlayerFiles' /\ Follows(p, seq)' /\ (seq < Lap)' /\ ~MissingAt(seq)'
    BY <1>3, <1>4, <2>1 DEF PlayerFiles, Follows, MissingAt, Lap, fixed
  <2> QED
    BY <1>1, <1>2, <1>4, <2>2 DEF PlayerConforms
<1>5. CASE Missing /\ reader' = [reader EXCEPT !.nImgs = seq] /\ seq' = 0
  <2>1. ~reader.caching /\ seq < reader.nImgs /\ seq >= folder.there
    BY <1>5 DEF Missing
  <2>2. /\ reader'.nImgs = seq /\ reader'.caching = reader.caching /\ reader' \in Readers
    BY <1>1, <1>5 DEF Readers
  <2>3. seq = folder.there /\ folder.there < folder.listed /\ ~folder.preload
    BY <1>1, <1>3, <2>1 DEF PlayerFiles
  <2>4. /\ PlayerFiles' /\ ~MissingAt(0)'
    BY <1>1, <2>1, <2>2, <2>3 DEF PlayerFiles, MissingAt, fixed
  <2>5. sent[p].hdr \in {-1, Lap} /\ 0 < Lap
    BY <1>1, <1>3, <2>3 DEF Follows, Lap
  <2>6. Follows(p, 0)' /\ (0 < Lap)'
    BY <2>5 DEF Follows, Lap, fixed
  <2> QED
    BY <1>2, <1>5, <2>2, <2>4, <2>6 DEF PlayerConforms
<1> QED
  BY <1>4, <1>5

LEMMA LapPlayed ==
  ASSUME Shape, UNCHANGED <<fixed, sent>>, NEW p \in OutOf(class),
         PlayerConforms(p, <<"given", 1>>),
         \/ seq < reader.nImgs /\ UNCHANGED <<seq, reader>>
         \/ /\ ~(seq < reader.nImgs) /\ reader' = [reader EXCEPT !.caching = TRUE]
            /\ seq' \in {0, seq}
  PROVE  /\ reader' \in Readers /\ seq' \in Nat
         /\ seq < reader.nImgs \/ seq' = 0 => PlayerConforms(p, <<"given", 2>>)'
         /\ ~(seq < reader.nImgs) /\ seq' = seq => PlayerConforms(p, <<"given", 1>>)'
<1> DEFINE s == <<"given", 1>>
           s2 == <<"given", 2>>
<1>1. /\ folder.listed \in Nat /\ folder.listed > 0 /\ folder.there \in Nat
      /\ folder.preload \in BOOLEAN /\ reader.nImgs \in Nat /\ reader.caching \in BOOLEAN
      /\ seq \in Nat /\ reader \in Readers /\ sent[p].hdr \in Int
  BY Files, Ports DEF Shape
<1>2. Played(s) = seq - 1 /\ Played(s)' = seq' - 1 /\ Played(s2)' = seq'
  BY <1>1 DEF Played
<1>3. /\ PlayerFiles /\ seq >= 1 /\ sent[p].hdr = seq /\ seq - 1 < Lap
      /\ ~MissingAt(seq - 1)
  BY <1>1, <1>2 DEF PlayerConforms
<1>4. CASE seq < reader.nImgs /\ UNCHANGED <<seq, reader>>
  <2>1. reader.caching \/ seq <= folder.there
    BY <1>1, <1>3, <1>4 DEF MissingAt
  <2>2. PlayerFiles' /\ Follows(p, seq)'
    BY <1>1, <1>3, <1>4 DEF PlayerFiles, Follows, fixed
  <2> QED
    BY <1>1, <1>2, <1>4, <2>1, <2>2 DEF PlayerConforms, fixed
<1>5. CASE /\ ~(seq < reader.nImgs) /\ reader' = [reader EXCEPT !.caching = TRUE]
           /\ seq' \in {0, seq}
  <2>0. reader' = [reader EXCEPT !.caching = TRUE] /\ seq' \in {0, seq}
    BY <1>5
  <2>1. /\ reader'.caching = TRUE /\ reader'.nImgs = reader.nImgs /\ reader' \in Readers
        /\ seq' \in Nat
    <3>1. seq' \in Nat
      BY <1>1, <2>0
    <3> QED
      BY <1>1, <2>0, <3>1 DEF Readers
  <2>2. seq = Lap /\ (folder.preload \/ reader.nImgs <= folder.there)
    BY <1>1, <1>3, <1>5 DEF PlayerFiles, MissingAt, Lap
  <2>3. PlayerFiles' /\ ~MissingAt(seq - 1)'
    BY <1>3, <2>1, <2>2 DEF PlayerFiles, MissingAt, fixed
  <2>4. seq' = 0 => PlayerConforms(p, s2)'
    <3>1. sent[p].hdr \in {-1, Lap}
      BY <1>3, <2>2
    <3>2. Follows(p, 0)'
      BY <3>1 DEF Follows, Lap, fixed
    <3> QED
      BY <1>2, <2>3, <3>2 DEF PlayerConforms
  <2>5. seq' = seq => PlayerConforms(p, s)'
    <3>1. (seq - 1 < Lap)' <=> seq' - 1 < Lap
      BY DEF Lap, fixed
    <3> QED
      BY <1>1, <1>2, <1>3, <2>3, <3>1 DEF PlayerConforms
  <2> QED
    BY <1>5, <2>1, <2>4, <2>5
<1> QED
  BY <1>4, <1>5

(* What ImgPlayer has of its only port before it branches.                 *)
LEMMA PlayerPort ==
  ASSUME Shape, class = "ImgPlayer", NEW p \in Tracked(class), NEW s, Stands(p, s),
         Head(todo).op \in {"ReadImage", "AtLast"}
  PROVE  /\ p \in OutOf(class) /\ InOf(class) = {} /\ p # "queue"
         /\ s = IF Head(todo).op = "ReadImage" THEN <<"placed", 0>> ELSE <<"given", 1>>
         /\ OutMessage(p, s) /\ PlayerConforms(p, s)
<1>1. InOf(class) = {}
  BY Ports DEF Fits, Sources
<1>2. p \in OutOf(class) /\ p # "queue"
  BY <1>1, Ports DEF Tracked, AppClasses
<1>3. OutMessage(p, s) /\ PlayerConforms(p, s)
  BY <1>1, <1>2 DEF Stands, Conforms, Numbers
<1> QED
  BY <1>1, <1>2, <1>3 DEF Stands, Allowed, OutAllowed

LEMMA PlayerHasPort == "out_frame" \in Tracked("ImgPlayer")
<1>1. OutOf("ImgPlayer") = {"out_frame"}
  BY PortNames DEF Sources, OutName, Encoders, Poses
<1> QED
  BY <1>1 DEF Tracked

LEMMA ReadImageKeeps == ASSUME KernelInv, DoReadImage PROVE KernelInv'
<1> USE DEF KernelInv
<1>1. /\ state = "running" /\ todo # << >> /\ Head(todo).op = "ReadImage"
      /\ \/ /\ ~Missing \/ folder.iterate
            /\ todo' = Rest
            /\ \/ ~Missing /\ UNCHANGED <<seq, reader>>
               \/ Missing /\ reader' = [reader EXCEPT !.nImgs = seq] /\ seq' = 0
         \/ todo' = Head(todo).then \o Rest /\ UNCHANGED <<seq, reader>>
      /\ UNCHANGED <<fixed, run, state, data, sent, inside, queue, faults, lost>>
  BY DEF DoReadImage, Do, At
<1>2. class = "ImgPlayer"
  BY <1>1, StepTaken DEF Takes
<1>3. CASE UNCHANGED <<seq, reader>> /\ todo' = Head(todo).then \o Rest
  <2>1. ASSUME NEW p \in Tracked(class), NEW s, Stands(p, s)
        PROVE  \E s2 : Conforms(p, s2) /\ <<todo', s2>> \in Nexts(class, p, todo, s)
    <3>1. <<todo', s>> \in Nexts(class, p, todo, s)
      BY <1>1, <1>3 DEF Nexts, Rest
    <3> QED
      BY <2>1, <3>1 DEF Stands
  <2> QED
    BY <1>1, <1>3, <2>1, BranchKeeps
<1>4. CASE /\ todo' = Rest
           /\ \/ ~Missing /\ UNCHANGED <<seq, reader>>
              \/ Missing /\ reader' = [reader EXCEPT !.nImgs = seq] /\ seq' = 0
  <2>1. ASSUME NEW p \in Tracked(class), NEW s, Stands(p, s)
        PROVE  /\ \E s2 : Conforms(p, s2)' /\ <<todo', s2>> \in Nexts(class, p, todo, s)
               /\ reader' \in Readers /\ seq' \in Nat
    <3>1. /\ p \in OutOf(class) /\ InOf(class) = {} /\ p # "queue"
          /\ s = <<"placed", 0>> /\ OutMessage(p, s) /\ PlayerConforms(p, s)
      BY <1>1, <1>2, <2>1, PlayerPort
    <3>2. PICK s2 : s2 = <<"chosen", 0>>
      OBVIOUS
    <3>3. PlayerConforms(p, s2)' /\ reader' \in Readers /\ seq' \in Nat
      BY <1>1, <1>4, <3>1, <3>2, ImageChosen
    <3>4. OutMessage(p, s2)'
      <4>1. OutMessage(p, s2)
        <5>1. s[1] = "placed" /\ s2[1] = "chosen"
          BY <3>1, <3>2
        <5> QED
          BY <3>1, <5>1 DEF OutMessage, OutNames
      <4> QED
        BY <1>1, <4>1, OutKept DEF data
    <3>5. Conforms(p, s2)'
      BY <1>1, <1>2, <3>1, <3>3, <3>4 DEF Conforms, Numbers, fixed
    <3>6. <<todo', s2>> \in Nexts(class, p, todo, s)
      <4>1. s[2] = 0
        BY <3>1
      <4> QED
        BY <1>1, <1>4, <3>2, <4>1 DEF Nexts, Rest
    <3> QED
      BY <3>3, <3>5, <3>6
  <2>2. \E p \in Tracked(class) : TRUE
    BY <1>2, PlayerHasPort
  <2>3. Shape'
    BY <1>1, <2>1, <2>2, Standing, SameTags DEF Shape, data, fixed
  <2>4. Running'
    BY <1>1, <2>1, Advance DEF fixed
  <2>5. Faults'
    BY <1>1, FaultsKept DEF data
  <2> QED
    BY <1>1, <2>3, <2>4, <2>5, StillRunning
<1> QED
  BY <1>1, <1>3, <1>4

LEMMA AtLastKeeps == ASSUME KernelInv, DoAtLast PROVE KernelInv'
<1> USE DEF KernelInv
<1>1. /\ state = "running" /\ todo # << >> /\ Head(todo).op = "AtLast"
      /\ \/ todo' = Rest /\ seq < reader.nImgs /\ UNCHANGED <<seq, reader>>
         \/ /\ todo' = Rest /\ seq' = 0 /\ ~(seq < reader.nImgs)
            /\ reader' = [reader EXCEPT !.caching = TRUE]
         \/ /\ todo' = Head(todo).then \o Rest /\ seq' = seq /\ ~(seq < reader.nImgs)
            /\ reader' = [reader EXCEPT !.caching = TRUE]
      /\ UNCHANGED <<fixed, run, state, data, sent, inside, queue, faults, lost>>
  BY DEF DoAtLast, Do, At
<1>2. class = "ImgPlayer"
  BY <1>1, StepTaken DEF Takes
<1>3. ASSUME NEW p \in Tracked(class), NEW s, Stands(p, s)
      PROVE  /\ \E s2 : Conforms(p, s2)' /\ <<todo', s2>> \in Nexts(class, p, todo, s)
             /\ reader' \in Readers /\ seq' \in Nat
  <2>1. /\ p \in OutOf(class) /\ InOf(class) = {} /\ p # "queue"
        /\ s = <<"given", 1>> /\ OutMessage(p, s) /\ PlayerConforms(p, s)
    BY <1>1, <1>2, <1>3, PlayerPort
  <2>2. s[1] = "given"
    BY <2>1
  <2>3. PICK s2 : s2 = <<"given", 2>>
    OBVIOUS
  <2>4. Nexts(class, p, todo, s) = {<<Head(todo).then \o Rest, s>>, <<Rest, s2>>}
    BY <1>1, <2>2, <2>3 DEF Nexts, Rest
  <2>5. OutMessage(p, s)' /\ OutMessage(p, s2)'
    <3>1. OutMessage(p, s2)
      <4>1. s2[1] = "given"
        BY <2>3
      <4> QED
        BY <2>1, <2>2, <4>1 DEF OutMessage
    <3> QED
      BY <1>1, <2>1, <3>1, OutKept DEF data
  <2>6. /\ reader' \in Readers /\ seq' \in Nat
        /\ seq < reader.nImgs \/ seq' = 0 => PlayerConforms(p, s2)'
        /\ ~(seq < reader.nImgs) /\ seq' = seq => PlayerConforms(p, s)'
    BY <1>1, <2>1, <2>3, LapPlayed
  <2>7. CASE todo' = Rest /\ (seq < reader.nImgs \/ seq' = 0)
    <3>1. Conforms(p, s2)'
      BY <1>1, <1>2, <2>1, <2>5, <2>6, <2>7 DEF Conforms, Numbers, fixed
    <3> QED
      BY <2>4, <2>6, <2>7, <3>1
  <2>8. CASE todo' = Head(todo).then \o Rest /\ seq' = seq /\ ~(seq < reader.nImgs)
    <3>1. Conforms(p, s)'
      BY <1>1, <1>2, <2>1, <2>5, <2>6, <2>8 DEF Conforms, Numbers, fixed
    <3> QED
      BY <2>4, <2>6, <2>8, <3>1
  <2> QED
    BY <1>1, <2>7, <2>8
<1>4. \E p \in Tracked(class) : TRUE
  BY <1>2, PlayerHasPort
<1>5. Shape'
  BY <1>1, <1>3, <1>4, Standing, SameTags DEF Shape, data, fixed
<1>6. Running'
  BY <1>1, <1>3, Advance DEF fixed
<1>7. Faults'
  BY <1>1, FaultsKept DEF data
<1> QED
  BY <1>1, <1>5, <1>6, <1>7, StillRunning

LEMMA Numbered ==
  ASSUME Shape
  PROVE  /\ run \in Int /\ inside \in Seq(Int)
         /\ \A p \in OutOf(class) : sent[p].content \in Int
<1>1. run \in Nat /\ inside \in Seq(Int)
  BY DEF Shape
<1>2. \A p \in OutOf(class) : sent[p].content \in Int
  BY Ports DEF Shape
<1> QED
  BY <1>1, <1>2

(* The codec takes the input of this run() and gives the oldest it has.    *)
LEMMA FedFrames ==
  ASSUME Shape, NEW p \in OutOf(class), Ordered(p, run - 1),
         NEW fed, fed = Append(inside, run)
  PROVE  /\ fed \in Seq(Int) /\ Len(fed) = Len(inside) + 1
         /\ \A i \in 1..Len(fed) : sent[p].content < fed[i] /\ fed[i] <= run
         /\ \A i, j \in 1..Len(fed) : i < j => fed[i] < fed[j]
         /\ sent[p].content <= run - 1
         /\ inside = << >> => fed[1] = run
         /\ inside # << >> => fed[1] < run
<1>1. /\ inside \in Seq(Int) /\ run \in Int /\ sent[p].content \in Int
  BY Numbered
<1>2. /\ fed \in Seq(Int) /\ Len(fed) = Len(inside) + 1
      /\ \A i \in 1..Len(inside) : fed[i] = inside[i]
      /\ fed[Len(inside) + 1] = run
      /\ Len(inside) \in Nat
  BY <1>1, AppendProperties, LenProperties
<1>3. /\ sent[p].content <= run - 1
      /\ \A i \in 1..Len(inside) : sent[p].content < inside[i] /\ inside[i] <= run - 1
      /\ \A i, j \in 1..Len(inside) : i < j => inside[i] < inside[j]
      /\ \A i \in 1..Len(inside) : inside[i] \in Int
  BY <1>1, LenProperties DEF Ordered
<1>4. \A i \in 1..Len(fed) : i \in 1..Len(inside) \/ i = Len(inside) + 1
  BY <1>2
<1>5. \A i \in 1..Len(fed) : sent[p].content < fed[i] /\ fed[i] <= run
  BY <1>1, <1>2, <1>3, <1>4
<1>6. ASSUME NEW i \in 1..Len(fed), NEW j \in 1..Len(fed), i < j PROVE fed[i] < fed[j]
  <2>1. i \in 1..Len(inside)
    BY <1>2, <1>4, <1>6
  <2> QED
    BY <1>1, <1>2, <1>3, <1>4, <1>6, <2>1
<1>7. inside = << >> => fed[1] = run
  BY <1>2
<1>8. ASSUME inside # << >> PROVE fed[1] < run
  <2>1. 1 \in 1..Len(inside)
    BY <1>1, <1>8
  <2> QED
    BY <1>1, <1>2, <1>3, <2>1
<1> QED
  BY <1>2, <1>3, <1>5, <1>6, <1>7, <1>8

LEMMA OldestOut ==
  ASSUME NEW fed \in Seq(Int), Len(fed) > 0, NEW rest, rest = Tail(fed)
  PROVE  /\ rest \in Seq(Int) /\ Len(rest) = Len(fed) - 1 /\ Head(fed) = fed[1]
         /\ \A i \in 1..Len(rest) : rest[i] = fed[i + 1] /\ i + 1 \in 1..Len(fed)
         /\ 1 \in 1..Len(fed)
         /\ rest = << >> <=> Len(fed) = 1
<1>1. fed # << >> /\ Len(fed) \in Nat
  BY LenProperties
<1>2. /\ rest \in Seq(Int) /\ Len(rest) = Len(fed) - 1 /\ Head(fed) = fed[1]
      /\ \A i \in 1..Len(rest) : rest[i] = fed[i + 1]
  BY <1>1, HeadTailProperties
<1>3. rest = << >> <=> Len(rest) = 0
  BY <1>2, EmptySeq
<1> QED
  BY <1>1, <1>2, <1>3

LEMMA CodecGives ==
  ASSUME Shape, UNCHANGED <<fixed, run, seq>>, InOf(class) # {}, class \in CodecClasses,
         NEW p \in OutOf(class), NEW s, NEW s2, Numbers(p, s),
         s[1] \in {"placed", "titled"}, s2 = <<Filled(s[1]), s[2]>>,
         hdr'[p] = hdr[p], sent'[p] = sent[p],
         NEW fed, fed = Append(inside, run),
         inside' = Tail(fed), content'[p] = Head(fed)
  PROVE  Numbers(p, s2)'
<1>1. /\ s2[1] = Filled(s[1]) /\ s2[2] = s[2] /\ s2 = <<s2[1], s2[2]>>
      /\ s2[1] \in {"filled", "ready"} /\ (s2[1] = "ready" <=> s[1] = "titled")
  BY DEF Filled
<1>2. AnswerConforms(p, s) /\ Ordered(p, run - 1)
  BY DEF Numbers, AnswerConforms
<1>3. /\ fed \in Seq(Int) /\ Len(fed) = Len(inside) + 1 /\ Len(inside) \in Nat
      /\ \A i \in 1..Len(fed) : sent[p].content < fed[i] /\ fed[i] <= run
      /\ \A i, j \in 1..Len(fed) : i < j => fed[i] < fed[j]
      /\ sent[p].content <= run - 1
      /\ inside = << >> => fed[1] = run
      /\ inside # << >> => fed[1] < run
  <2>1. Len(inside) \in Nat
    BY LenProperties DEF Shape
  <2> QED
    BY <1>2, <2>1, FedFrames
<1>4. /\ inside' \in Seq(Int) /\ Len(inside') = Len(fed) - 1 /\ content'[p] = fed[1]
      /\ \A i \in 1..Len(inside') : inside'[i] = fed[i + 1] /\ i + 1 \in 1..Len(fed)
      /\ 1 \in 1..Len(fed)
      /\ inside' = << >> <=> Len(fed) = 1
  <2>1. Len(fed) > 0
    BY <1>3
  <2> QED
    BY <1>3, <2>1, OldestOut
<1>5. run \in Int /\ sent[p].content \in Int
  BY Numbered
<1>6. Ordered(p, run)'
  <2>1. \A i, j \in 1..Len(inside') : i < j => i + 1 < j + 1
    BY <1>3, <1>4
  <2>2. ASSUME NEW i \in 1..Len(inside'), NEW j \in 1..Len(inside'), i < j
        PROVE  inside'[i] < inside'[j]
    <3>1. /\ i + 1 \in 1..Len(fed) /\ j + 1 \in 1..Len(fed) /\ i + 1 < j + 1
          /\ inside'[i] = fed[i + 1] /\ inside'[j] = fed[j + 1]
      BY <1>4, <2>1, <2>2
    <3> QED
      BY <1>3, <3>1
  <2>3. \A i \in 1..Len(inside') : sent[p].content < inside'[i] /\ inside'[i] <= run
    BY <1>3, <1>4
  <2>4. sent[p].content <= run
    BY <1>3, <1>5
  <2> QED
    BY <2>2, <2>3, <2>4 DEF Ordered
<1>7. /\ sent[p].content < content'[p]
      /\ IF inside' = << >> THEN content'[p] = run ELSE content'[p] < run
      /\ \A i \in 1..Len(inside') : content'[p] < inside'[i]
  <2>1. inside' = << >> <=> inside = << >>
    BY <1>3, <1>4 DEF Shape
  <2>2. \A i \in 1..Len(inside') : 1 < i + 1
    BY <1>3, <1>4
  <2> QED
    BY <1>3, <1>4, <2>1, <2>2
<1>8. Ordered(p, IF s2[1] \in {"fresh", "placed", "titled"} THEN run - 1 ELSE run)'
  BY <1>1, <1>6
<1>9. AnswerConforms(p, s2)'
  BY <1>1, <1>2, <1>3, <1>7, <1>8 DEF AnswerConforms, fixed
<1> QED
  BY <1>9 DEF Numbers, fixed

LEMMA CodecKeepsBack ==
  ASSUME Shape, UNCHANGED <<fixed, run, seq>>, InOf(class) # {}, class \in CodecClasses,
         NEW p \in OutOf(class), NEW s, NEW s2, Numbers(p, s),
         s[1] \in {"placed", "titled"}, s2 = <<"spent", s[2]>>, sent'[p] = sent[p],
         inside' \in {inside, Append(inside, run)}
  PROVE  Numbers(p, s2)'
<1>1. s2[1] = "spent" /\ s2[2] = s[2] /\ s2 = <<s2[1], s2[2]>>
  OBVIOUS
<1>2. AnswerConforms(p, s) /\ Ordered(p, run - 1)
  BY DEF Numbers, AnswerConforms
<1>3. run \in Int /\ sent[p].content \in Int /\ sent[p].content <= run - 1
  BY <1>2, Numbered DEF Ordered
<1>4. \A i \in 1..Len(inside) : inside[i] \in Int
  BY LenProperties DEF Shape
<1>5. Ordered(p, run)'
  <2>1. CASE inside' = inside
    <3>1. /\ \A i \in 1..Len(inside) : sent[p].content < inside[i] /\ inside[i] <= run - 1
          /\ \A i, j \in 1..Len(inside) : i < j => inside[i] < inside[j]
      BY <1>2 DEF Ordered
    <3>2. /\ \A i \in 1..Len(inside) : sent[p].content < inside[i] /\ inside[i] <= run
          /\ sent[p].content <= run
      BY <1>3, <1>4, <3>1
    <3> QED
      BY <2>1, <3>1, <3>2 DEF Ordered
  <2>2. CASE inside' = Append(inside, run)
    <3>1. /\ \A i \in 1..Len(inside') : sent[p].content < inside'[i] /\ inside'[i] <= run
          /\ \A i, j \in 1..Len(inside') : i < j => inside'[i] < inside'[j]
      BY <1>2, <2>2, FedFrames
    <3> QED
      BY <1>3, <3>1 DEF Ordered
  <2> QED
    BY <2>1, <2>2
<1>6. Ordered(p, IF s2[1] \in {"fresh", "placed", "titled"} THEN run - 1 ELSE run)'
  BY <1>1, <1>5
<1>7. AnswerConforms(p, s2)'
  BY <1>1, <1>2, <1>3, <1>6 DEF AnswerConforms, fixed
<1> QED
  BY <1>7 DEF Numbers, fixed

LEMMA CodecKeeps == ASSUME KernelInv, DoCodec PROVE KernelInv'
<1> USE DEF KernelInv
<1> DEFINE fed == Append(inside, run)
           gives == /\ inside' = Tail(fed) /\ content' = [content EXCEPT ![T] = Head(fed)]
                    /\ todo' = Head(todo).then \o Rest
           keeps == inside' \in {inside, fed} /\ UNCHANGED content /\ todo' = Rest
<1>1. /\ state = "running" /\ todo # << >> /\ Sound /\ Head(todo).op = "Codec"
      /\ UNCHANGED <<fixed, run, state, seq, reader, msg, buf, hdr, got, sent, queue,
                     faults, lost>>
  BY DEF DoCodec, Do, At
<1>2. T \in OutOf(class) /\ U \in InOf(class) /\ class \in CodecClasses /\ T \in Tags
  BY <1>1, StepTaken, Ports DEF Takes, T, U
<1>3. gives \/ keeps
  BY <1>1, <1>2, InputContent DEF DoCodec
<1>4. fed \in Seq(Int) /\ Tail(fed) \in Seq(Int) /\ Head(fed) \in Int
  <2>1. fed \in Seq(Int) /\ Len(fed) > 0
    BY DEF Shape
  <2> HIDE DEF fed
  <2> QED
    BY <2>1
<1> HIDE DEF fed
<1>5. \A p \in InOf(class) \cup OutOf(class) : p # T => content'[p] = content[p]
  BY <1>2, <1>3, Ports DEF Shape
<1>6. Shape'
  <2>1. content' \in [Tags -> Int]
    BY <1>3, <1>4 DEF Shape
  <2>2. inside' \in Seq(Int)
    BY <1>3, <1>4 DEF Shape
  <2> QED
    BY <1>1, <2>1, <2>2, SameTags DEF Shape, fixed
<1>7. ASSUME NEW p \in Tracked(class), NEW s, Stands(p, s)
      PROVE  \E s2 : Conforms(p, s2)' /\ <<todo', s2>> \in Nexts(class, p, todo, s)
  <2> DEFINE then == Then(class, p, Head(todo), s)
             back == IF T = p THEN <<"spent", s[2]>> ELSE then
  <2>1. Nexts(class, p, todo, s) = {<<Head(todo).then \o Rest, then>>, <<Rest, back>>}
    BY <1>1 DEF Nexts, Rest, T
  <2>2. CASE p \in InOf(class)
    <3>1. PICK s2 : s2 = InThen(class, p, Head(todo), s)
      OBVIOUS
    <3>2. InConforms(p, s2)'
      BY <1>1, <1>2, <1>5, <1>7, <2>2, <3>1, InKept, Ports
    <3>3. then = s2 /\ back = s2
      BY <1>2, <2>2, <3>1, Ports DEF Then
    <3>4. Conforms(p, s2)'
      BY <1>1, <2>2, <3>2, Ports DEF Conforms, fixed
    <3> QED
      BY <1>3, <2>1, <3>3, <3>4
  <2>3. CASE p \in OutOf(class)
    <3>1. /\ p = T /\ s[1] \in {"placed", "titled"}
          /\ OutMessage(p, s) /\ Numbers(p, s)
      BY <1>1, <1>7, <2>3, Ports DEF Stands, Conforms, Allowed, OutAllowed, T
    <3>2. then = <<Filled(s[1]), s[2]>> /\ back = <<"spent", s[2]>>
      BY <1>1, <2>3, <3>1, Ports DEF Then, OutThen, T
    <3>3. ASSUME NEW s2, s2 \in {<<Filled(s[1]), s[2]>>, <<"spent", s[2]>>}
          PROVE  OutMessage(p, s2)'
      <4>1. OutMessage(p, s2)
        BY <3>1, <3>3 DEF OutMessage, OutNames, Filled
      <4> QED
        BY <1>1, <4>1, OutKept
    <3>4. p \notin InOf(class') /\ p # "queue" /\ p \in OutOf(class')
      BY <1>1, <2>3, Ports DEF fixed
    <3>5. CASE gives
      <4>1. content'[p] = Head(fed)
        BY <1>2, <3>1, <3>5 DEF Shape
      <4>2. PICK s2 : s2 = then
        OBVIOUS
      <4>3. Numbers(p, s2)'
        BY <1>1, <1>2, <2>3, <3>1, <3>2, <3>5, <4>1, <4>2, CodecGives DEF fed
      <4>4. Conforms(p, s2)'
        BY <3>2, <3>3, <3>4, <4>2, <4>3 DEF Conforms
      <4> QED
        BY <2>1, <3>5, <4>2, <4>4
    <3>6. CASE keeps
      <4>1. PICK s2 : s2 = back
        OBVIOUS
      <4>2. Numbers(p, s2)'
        BY <1>1, <1>2, <2>3, <3>1, <3>2, <3>6, <4>1, CodecKeepsBack DEF fed
      <4>3. Conforms(p, s2)'
        BY <3>2, <3>3, <3>4, <4>1, <4>2 DEF Conforms
      <4> QED
        BY <2>1, <3>6, <4>1, <4>3
    <3> QED
      BY <1>3, <3>5, <3>6
  <2>4. p \in InOf(class) \cup OutOf(class)
    BY <1>2 DEF Tracked, CodecClasses, AppClasses
  <2> QED
    BY <2>2, <2>3, <2>4
<1>8. Running'
  BY <1>1, <1>7, Advance DEF fixed
<1>9. Faults'
  BY <1>1, FaultsKept
<1> QED
  BY <1>1, <1>6, <1>8, <1>9, StillRunning

LEMMA QueueKeeps == ASSUME KernelInv, DoQueue PROVE KernelInv'
<1> USE DEF KernelInv
<1>1. /\ state = "running" /\ todo # << >> /\ Sound /\ todo' = Rest
      /\ Head(todo).op \in {"Enqueue", "Dequeue"}
      /\ UNCHANGED <<fixed, run, state, seq, reader, data, got, sent, inside, lost>>
  BY DEF DoQueue, Do, At
<1>2. \/ /\ class = "Rgb2RgbaAppSink" /\ Head(todo).op = "Enqueue"
      \/ /\ class = "Rgba2RgbAppSource" /\ Head(todo).op = "Dequeue"
  BY <1>1, StepTaken DEF Takes
<1>3. T = "" /\ U = ""
  BY <1>1, StepTaken DEF Takes, T, U
<1>4. QueueConforms("open")
  <2>1. "queue" \in Tracked(class)
    BY <1>2 DEF Tracked, AppClasses
  <2>2. PICK s : Stands("queue", s)
    BY <1>1, <2>1, Standing
  <2> QED
    BY <1>1, <2>2 DEF Stands, Conforms, Allowed
<1>5. faults' = faults
  <2>1. queue \in Int /\ QueueSize \in Int
    BY RunAssumption DEF Shape
  <2>2. CASE Do("Enqueue")
    <3>1. class = "Rgb2RgbaAppSink" /\ ~(queue >= QueueSize)
      BY <1>2, <1>4, <2>1, <2>2 DEF QueueConforms, Do, At
    <3> QED
      BY <2>2, <3>1 DEF DoQueue, Do, At
  <2>3. CASE Do("Dequeue")
    <3>1. class = "Rgba2RgbAppSource" /\ ~(queue <= 0)
      BY <1>2, <1>4, <2>1, <2>3 DEF QueueConforms, Do, At
    <3> QED
      BY <2>3, <3>1 DEF DoQueue, Do, At
  <2> QED
    BY <2>2, <2>3 DEF DoQueue
<1>6. Shape'
  <2>1. queue' \in Int
    <3>1. queue' = queue + 1 \/ queue' = queue - 1
      BY DEF DoQueue
    <3> QED
      BY <3>1 DEF Shape
  <2> QED
    BY <1>1, <2>1, SameTags DEF Shape, data, fixed
<1>7. Running'
  <2>1. ASSUME NEW p \in InOf(class), NEW s, NEW s2, Stands(p, s),
               s2 = InThen(class, p, Head(todo), s)
        PROVE  InConforms(p, s2)'
    BY <1>1, <2>1, InKept DEF data
  <2>2. ASSUME NEW p \in OutOf(class), NEW s, NEW s2, Stands(p, s),
               s2 = OutThen(class, p, Head(todo), s)
        PROVE  OutMessage(p, s2)' /\ Numbers(p, s2)'
    <3>1. p # T
      BY <1>3, <2>2, Ports
    <3> QED
      BY <1>1, <2>2, <3>1, OutSame DEF data
  <2> QED
    BY <1>1, <2>1, <2>2, SimpleStep DEF Branching
<1>8. Faults'
  BY <1>1, <1>5, FaultsKept DEF data
<1> QED
  BY <1>1, <1>6, <1>7, <1>8, StillRunning

(* The application moves the queue only away from the limit asked for.     *)
LEMMA AppKeeps == ASSUME KernelInv, App PROVE KernelInv'
<1> USE DEF KernelInv
<1>1. /\ \/ class = "Rgba2RgbAppSource" /\ queue' = queue + 1
         \/ class = "Rgb2RgbaAppSink" /\ queue' = queue - 1
      /\ state \in {"running", "returned"}
      /\ UNCHANGED <<fixed, run, todo, state, seq, reader, data, got, sent, inside,
                     faults, lost>>
  BY DEF App
<1>2. Shape'
  <2>1. queue' \in Int
    BY <1>1 DEF Shape
  <2> QED
    BY <1>1, <2>1, SameTags DEF Shape, data, fixed
<1>3. ASSUME NEW p \in Tracked(class), NEW s, Conforms(p, s) PROVE Conforms(p, s)'
  <2>1. CASE p \in InOf(class)
    <3>1. InConforms(p, s)'
      BY <1>1, <1>3, <2>1 DEF Conforms, InConforms, data, fixed
    <3>2. p \notin OutOf(class') /\ p # "queue"
      BY <1>1, <2>1, Ports DEF fixed
    <3> QED
      BY <3>1, <3>2 DEF Conforms
  <2>2. CASE p \in OutOf(class)
    <3>1. OutMessage(p, s)' /\ Numbers(p, s)'
      BY <1>1, <1>3, <2>2, OutKept, NumbersKept DEF Conforms, data
    <3>2. p \notin InOf(class') /\ p # "queue"
      BY <1>1, <2>2, Ports DEF fixed
    <3> QED
      BY <3>1, <3>2 DEF Conforms
  <2>3. CASE p \notin InOf(class) \cup OutOf(class)
    <3>1. QueueConforms(s)
      BY <1>3, <2>3 DEF Conforms, Tracked
    <3>2. queue \in Int /\ QueueSize \in Int
      BY RunAssumption DEF Shape
    <3>3. QueueConforms(s)'
      BY <1>1, <3>1, <3>2 DEF QueueConforms, fixed
    <3>4. p \notin InOf(class') \cup OutOf(class')
      BY <1>1, <2>3 DEF fixed
    <3> QED
      BY <3>3, <3>4 DEF Conforms
  <2> QED
    BY <2>1, <2>2, <2>3
<1>4. Running'
  BY <1>1, <1>3 DEF Running, fixed
<1>5. Between'
  <2>1. ASSUME NEW p \in OutOf(class), Numbers(p, St("fresh"))
        PROVE  Numbers(p, St("fresh"))'
    <3>1. PICK s : s = St("fresh")
      OBVIOUS
    <3>2. Numbers(p, s)'
      BY <1>1, <2>1, <3>1, NumbersKept DEF data
    <3> QED
      BY <3>1, <3>2 DEF St
  <2> QED
    BY <1>1, <2>1 DEF Between, fixed
<1>6. Faults'
  BY <1>1, FaultsKept DEF data
<1>7. Losses'
  BY <1>1 DEF Losses, LeaksOnlyUnsent, OutPorts, OutPort, data, fixed
<1> QED
  BY <1>1, <1>2, <1>4, <1>5, <1>6, <1>7 DEF Opening, Failures

(* What run() has not sent is what it may leave.                           *)
LEMMA OutCoders ==
  \A c \in DOMAIN Kernels : \A p \in OutOf(c) : Kernels[c].out[p].coder \in {"CODED", "PLAIN"}
<1> USE Lookup DEF Kernel, Out, Plain, Port, OutOf, NoPorts
<1>1. SUFFICES ASSUME NEW c \in DOMAIN Kernels, NEW p \in OutOf(c)
               PROVE  Kernels[c].out[p].coder \in {"CODED", "PLAIN"}
  OBVIOUS
<1>2. CASE c \in Sources
  BY <1>2 DEF Sources, BagCamera, CVCamera, ImgPlayer, Keyboard,
              EurocMonoInertialReader, Rgba2RgbAppSource
<1>3. CASE c \in Displays
  BY <1>3 DEF Displays, CVDisplay, Cv2GlRgbDisplay, NonDisplay, Rgb2RgbaAppSink
<1>4. CASE c \in Decoders \cup Encoders
  BY <1>4 DEF Decoders, Encoders, FrameEncoder, FrameDecoder, NvmpiEncoder, NvmpiDecoder
<1>5. CASE c \in Poses
  BY <1>5 DEF Poses, ArUcoCamLocator, OrbCamLocator, CudaOrbCamLocator
<1>6. CASE c \in {"FrameConverter", "ArUcoDetector", "OrbSlamPoseEstimator", Renderer}
  BY <1>6 DEF FrameConverter, ArUcoDetector, OrbSlamPoseEstimator,
              SampleMarkerRenderer, Renderer
<1> QED
  BY <1>2, <1>3, <1>4, <1>5, <1>6, ClassNames

LEMMA OutLosses ==
  ASSUME Shape, NEW t \in OutOf(class), NEW s, OutMessage(t, s)
  PROVE  /\ msg[t] = "mine" => msg[t] \in {"slot", "mine"}
         /\ buf[t] = "mine" =>
              \/ msg[t] \in {"slot", "mine"}
              \/ outCh[t] = "copied" /\ OutPort(t).coder = "PLAIN"
<1>1. OutPort(t).coder \in {"CODED", "PLAIN"}
  BY OutCoders DEF Shape, OutPort
<1>2. s[1] = "fresh" \/ s[1] = "given" \/ s[1] \in OutNames \ {"fresh", "given"}
  BY DEF OutMessage
<1> QED
  BY <1>1, <1>2 DEF OutMessage, Held

LEMMA EndKeeps == ASSUME KernelInv, DoEnd PROVE KernelInv'
<1> USE DEF KernelInv
<1>1. /\ state = "running" /\ todo # << >> /\ Head(todo).op = "End" /\ todo' = << >>
      /\ IF T = "returned" THEN UNCHANGED <<state, lost>>
         ELSE state' = T /\ lost' = IF T = "stopped" THEN Lost ELSE {}
      /\ UNCHANGED <<fixed, run, seq, reader, data, got, sent, inside, queue, faults>>
  BY DEF DoEnd, Do, At
<1>2. /\ T \in {"returned", "exited"} \/ (T = "stopped" /\ InOf(class) = {})
      /\ T = "exited" => class # "BagCamera"
  BY <1>1, StepTaken DEF Takes, T
<1>3. CASE T = "returned"
  <2>1. ASSUME NEW p \in Tracked(class), NEW s, Stands(p, s)
        PROVE  \E s2 : Conforms(p, s2) /\ <<todo', s2>> \in Nexts(class, p, todo, s)
    <3>1. <<todo', s>> \in Nexts(class, p, todo, s)
      BY <1>1, <1>3 DEF Nexts, T
    <3> QED
      BY <2>1, <3>1 DEF Stands
  <2> QED
    BY <1>1, <1>3, <2>1, BranchKeeps
<1>4. CASE T # "returned"
  <2>1. state' \in {"exited", "stopped"}
    BY <1>1, <1>2, <1>4
  <2>2. Shape'
    BY <1>1, <2>1, SameTags DEF Shape, data, fixed
  <2>3. Faults'
    BY <1>1, FaultsKept DEF data
  <2>4. LeaksOnlyUnsent'
    <3>1. CASE T = "exited"
      BY <1>1, <3>1 DEF LeaksOnlyUnsent
    <3>2. CASE T = "stopped"
      <4>1. lost' = Lost /\ InOf(class) = {}
        BY <1>1, <1>2, <3>2
      <4>2. SUFFICES ASSUME NEW l \in Lost
                     PROVE  \/ l[2] \in OutOf(class) /\ msg[l[2]] \in {"slot", "mine"}
                            \/ /\ l[1] = "data" /\ l[2] \in OutOf(class)
                               /\ outCh[l[2]] = "copied" /\ OutPort(l[2]).coder = "PLAIN"
                            \/ l = <<"data", "packet">> /\ class \in PacketClasses
        BY <1>1, <4>1, Ports
           DEF LeaksOnlyUnsent, OutPorts, OutOf, OutPort, PacketClasses, data, fixed
      <4>3. PICK t \in Tags : \/ l = <<"message", t>> /\ msg[t] = "mine"
                              \/ l = <<"data", t>> /\ buf[t] = "mine"
        BY <4>1, Ports DEF Lost
      <4>4. CASE t \in OutOf(class)
        <5>1. PICK s : Stands(t, s)
          BY <1>1, <4>4, Ports, Standing
        <5>2. OutMessage(t, s)
          BY <4>4, <5>1 DEF Stands, Conforms
        <5> QED
          BY <4>3, <4>4, <5>2, OutLosses
      <4>5. CASE t = "packet"
        BY <4>3, <4>5 DEF Shape
      <4> QED
        BY <4>1, <4>3, <4>4, <4>5, Ports
    <3> QED
      BY <1>2, <1>4, <3>1, <3>2
  <2>5. Failures' /\ Losses'
    BY <1>1, <1>2, <2>1, <2>4 DEF Failures, Losses, fixed
  <2> QED
    BY <2>1, <2>2, <2>3, <2>5 DEF Opening, Running, Between
<1> QED
  BY <1>3, <1>4

(* At the end of run() the ports are as Final has them.                    *)
LEMMA InFinal ==
  ASSUME Shape, Running, state = "running", todo = << >>, NEW p \in InOf(class)
  PROVE  /\ msg[p] = "deleted" \/ (msg[p] = "null" /\ class = Renderer)
         /\ buf[p] = "mine" =>
              p = "in_frame" /\ class = Renderer /\ msg["out_frame"] = "none"
<1>1. PICK s : Conforms(p, s) /\ Final(class, p, s)
  BY Ports, Finished
<1>2. /\ InConforms(p, s)
      /\ s = "done" \/ (s = "left" /\ class = Renderer /\ p = "in_frame")
  BY <1>1 DEF Conforms, Final
<1> QED
  BY <1>2 DEF InConforms, Early

LEMMA OutFinal ==
  ASSUME Shape, Running, state = "running", todo = << >>, NEW p \in OutOf(class)
  PROVE  \E s : /\ OutMessage(p, s) /\ Numbers(p, s)
                /\ IF class = "ImgPlayer" THEN s = <<"given", 2>>
                   ELSE IF InOf(class) = {} THEN s \in {<<"fresh", 0>>, <<"given", 1>>}
                   ELSE s[2] = 0
<1>1. PICK s : Conforms(p, s) /\ Final(class, p, s)
  BY Ports, Finished
<1> QED
  BY <1>1 DEF Conforms, Final

LEMMA NextNumbers ==
  ASSUME Shape, NEW p \in OutOf(class), NEW s, Numbers(p, s),
         IF class = "ImgPlayer" THEN s = <<"given", 2>>
         ELSE IF InOf(class) = {} THEN s \in {<<"fresh", 0>>, <<"given", 1>>}
         ELSE s[2] = 0,
         UNCHANGED <<fixed, seq, reader, sent, inside>>, run' = run + 1
  PROVE  Numbers(p, St("fresh"))'
<1>1. PICK s2 : s2 = St("fresh")
  OBVIOUS
<1>2. s2[1] = "fresh" /\ s2[2] = 0 /\ s2 = <<s2[1], s2[2]>>
  BY <1>1 DEF St
<1>0. CASE InOf(class) = {} /\ class = "ImgPlayer"
  <2>1. PlayerConforms(p, s) /\ s = <<"given", 2>> /\ s2 = <<"fresh", 0>>
    BY <1>0, <1>1 DEF Numbers, St
  <2>2. Played(s) = seq /\ Played(s2)' = seq
    BY <2>1, Files DEF Played
  <2>3. PlayerConforms(p, s2)'
    BY <2>1, <2>2 DEF PlayerConforms, PlayerFiles, Follows, Lap, fixed
  <2> QED
    BY <1>0, <1>1, <2>3 DEF Numbers, St, fixed
<1>3. CASE InOf(class) = {} /\ class # "ImgPlayer"
  <2>1. SourceConforms(p, s)
    BY <1>3 DEF Numbers
  <2>2. CASE s = <<"fresh", 0>>
    <3>1. s = s2
      BY <1>1, <2>2 DEF St
    <3> QED
      BY <1>1, <1>2, <1>3, <2>1, <3>1
         DEF Numbers, SourceConforms, Number, Frames, FrameOf, BagConforms, Cached, Image,
             fixed
  <2>3. CASE s = <<"given", 1>>
    <3>1. s[1] = "given" /\ s[2] = 1
      BY <2>3
    <3>2. seq \in Nat /\ Number(s) = seq - 1 /\ Number(s) >= 0 /\ Frames(s) = seq
      BY <2>1, <3>1 DEF SourceConforms, Number, Frames, Shape
    <3>3. Number(s2)' = seq /\ Frames(s2)' = seq
      BY <1>2, <3>2 DEF Number, Frames
    <3>4. SourceConforms(p, s2)'
      BY <1>2, <2>1, <3>1, <3>2, <3>3
         DEF SourceConforms, BagConforms, Cached, Image, fixed
    <3> QED
      BY <1>1, <1>3, <3>4 DEF Numbers, St, fixed
  <2> QED
    BY <1>3, <2>2, <2>3
<1>4. CASE InOf(class) # {}
  <2>0. s[2] = 0
    BY <1>4, Ports DEF Fits, Sources
  <2>1. AnswerConforms(p, s)
    BY <1>4 DEF Numbers
  <2>2. run \in Int /\ sent[p].content \in Int /\ inside \in Seq(Int)
    BY Numbered
  <2>3. \A i \in 1..Len(inside) : inside[i] \in Int
    BY <2>2, LenProperties
  <2>4. run' - 1 = run
    BY <2>2
  <2>5. Ordered(p, run)
    BY <2>1, <2>2, <2>3 DEF AnswerConforms, Ordered
  <2>6. Ordered(p, run - 1)'
    BY <2>4, <2>5 DEF Ordered
  <2>7. Ordered(p, IF s2[1] \in {"fresh", "placed", "titled"} THEN run - 1 ELSE run)'
    BY <1>2, <2>6
  <2>8. sent'[p].content <= run' - 1
    BY <2>4, <2>5 DEF Ordered
  <2>9. AnswerConforms(p, s2)'
    BY <1>2, <2>1, <2>7, <2>8 DEF AnswerConforms, fixed
  <2> QED
    BY <1>1, <1>4, <2>9 DEF Numbers, St, fixed
<1> QED
  BY <1>0, <1>3, <1>4

LEMMA ReturnKeeps == ASSUME KernelInv, Return PROVE KernelInv'
<1> USE DEF KernelInv
<1>1. /\ state = "running" /\ todo = << >> /\ state' = "returned" /\ lost' = Lost
      /\ run' = run + 1
      /\ UNCHANGED <<fixed, seq, reader, data, got, sent, inside, queue, faults>>
  BY DEF Return
<1>2. Shape'
  <2>1. run' \in Nat
    BY <1>1 DEF Shape
  <2> QED
    BY <1>1, <2>1, SameTags DEF Shape, data, fixed
<1>3. Between'
  <2>1. ASSUME NEW p \in OutOf(class) PROVE Numbers(p, St("fresh"))'
    BY <1>1, <2>1, OutFinal, NextNumbers
  <2>2. ASSUME NEW f \in faults, f[1] = "overread" PROVE class = Renderer
    <3>1. f[3] \in InOf(class) /\ (msg[f[3]] = "null" \/ class = Renderer)
      BY <2>2 DEF Faults, KnownFault
    <3> QED
      BY <1>1, <3>1, InFinal
  <2> QED
    BY <1>1, <2>1, <2>2 DEF Between, fixed
<1>4. Faults'
  BY <1>1, FaultsKept DEF data
<1>5. LeaksOnlyUnsent'
  <2>1. SUFFICES ASSUME NEW l \in Lost
                 PROVE  \/ l[2] \in OutOf(class) /\ msg[l[2]] \in {"slot", "mine"}
                        \/ /\ l[1] = "data" /\ l[2] \in OutOf(class)
                           /\ outCh[l[2]] = "copied" /\ OutPort(l[2]).coder = "PLAIN"
                        \/ l = <<"data", "packet">> /\ class \in PacketClasses
                        \/ /\ l = <<"data", "in_frame">> /\ class = Renderer
                           /\ msg["out_frame"] = "none"
    BY <1>1, Ports
       DEF LeaksOnlyUnsent, OutPorts, OutOf, OutPort, PacketClasses, Renderer, data, fixed
  <2>2. PICK t \in Tags : \/ l = <<"message", t>> /\ msg[t] = "mine"
                          \/ l = <<"slot", t>> /\ t \in InOf(class) /\ msg[t] = "slot"
                          \/ l = <<"data", t>> /\ buf[t] = "mine"
    BY Ports DEF Lost
  <2>3. CASE t \in OutOf(class)
    <3>1. PICK s : OutMessage(t, s)
      BY <1>1, <2>3, OutFinal
    <3>2. t \notin InOf(class)
      BY <2>3, Ports
    <3> QED
      BY <2>2, <2>3, <3>1, <3>2, OutLosses
  <2>4. CASE t \in InOf(class)
    <3>1. /\ msg[t] \notin {"mine", "slot"}
          /\ buf[t] = "mine" =>
               t = "in_frame" /\ class = Renderer /\ msg["out_frame"] = "none"
      BY <1>1, <2>4, InFinal
    <3> QED
      BY <2>2, <3>1
  <2>5. CASE t = "packet"
    BY <2>2, <2>5, Ports DEF Shape
  <2> QED
    BY <2>3, <2>4, <2>5, Ports
<1> QED
  BY <1>1, <1>2, <1>3, <1>4, <1>5 DEF Opening, Running, Failures, Losses

LEMMA NextRunKeeps == ASSUME KernelInv, NextRun PROVE KernelInv'
<1> USE DEF KernelInv
<1>1. /\ state = "returned" /\ state' = "running" /\ todo' = Programs[class]
      /\ msg' = All("none") /\ buf' = All("none") /\ hdr' = All(-1)
      /\ content' = All(-1) /\ lost' = {}
      /\ UNCHANGED <<fixed, run, seq, reader, sent, inside, queue, faults>>
  BY DEF NextRun
<1>2. /\ msg' \in [Tags -> {"none"}] /\ buf' \in [Tags -> {"none"}]
      /\ hdr' \in [Tags -> Int] /\ content' \in [Tags -> Int]
      /\ \A t \in Tags : msg'[t] = "none" /\ buf'[t] = "none"
  BY <1>1 DEF All
<1>3. Shape'
  <2>1. msg' \in [Tags -> MsgStates] /\ buf' \in [Tags -> BufStates]
    BY <1>2 DEF MsgStates, BufStates
  <2>2. "packet" \in Tags
    BY DEF Tags
  <2>3. msg'["packet"] = "none" /\ buf'["packet"] = "none"
    BY <1>2, <2>2
  <2> QED
    BY <1>1, <1>2, <2>1, <2>3, SameTags DEF Shape, fixed
<1>4. Running'
  <2>1. SUFFICES ASSUME NEW p \in Tracked(class)
                 PROVE  \E s : Conforms(p, s)' /\ Safe(class, p, todo', s)
    BY <1>1 DEF Running, fixed
  <2>2. PICK s : s = Fresh(class, p)
    OBVIOUS
  <2>3. Safe(class, p, todo', s)
    BY <1>1, <2>2, AllStart DEF Starts, Shape
  <2>4. Conforms(p, s)'
    <3>1. CASE p \in InOf(class)
      <4>1. s = "fresh" /\ p \in Tags /\ p # "queue" /\ p \notin OutOf(class)
        BY <2>2, <3>1, Ports DEF Fresh
      <4>2. class = Renderer => "out_frame" \in Tags
        BY Ports DEF Fits
      <4>3. InConforms(p, s)'
        BY <1>1, <1>2, <4>1, <4>2 DEF InConforms, fixed
      <4> QED
        BY <1>1, <4>1, <4>3 DEF Conforms, fixed
    <3>2. CASE p \in OutOf(class)
      <4>1. s = St("fresh") /\ p \in Tags /\ p # "queue" /\ p \notin InOf(class)
        BY <2>2, <3>2, Ports DEF Fresh, St
      <4>2. s[1] = "fresh" /\ s[2] = 0
        BY <4>1 DEF St
      <4>3. OutMessage(p, s)'
        BY <1>2, <4>1, <4>2 DEF OutMessage, OutNames
      <4>4. Numbers(p, s)
        BY <1>1, <3>2, <4>1 DEF Between
      <4>5. Numbers(p, s)'
        <5>1. CASE InOf(class) = {} /\ class = "ImgPlayer"
          BY <1>1, <4>1, <4>2, <4>4, <5>1
             DEF Numbers, PlayerConforms, PlayerFiles, Played, Follows, Lap, St, fixed
        <5>2. CASE InOf(class) = {} /\ class # "ImgPlayer"
          BY <1>1, <4>2, <4>4, <5>2
             DEF Numbers, SourceConforms, Number, Frames, FrameOf, BagConforms, Cached, Image,
                 fixed
        <5>3. CASE InOf(class) # {}
          BY <1>1, <4>2, <4>4, <5>3 DEF Numbers, AnswerConforms, Ordered, fixed
        <5> QED
          BY <5>1, <5>2, <5>3
      <4> QED
        BY <1>1, <4>1, <4>3, <4>5 DEF Conforms, fixed
    <3>3. CASE p \notin InOf(class) \cup OutOf(class)
      <4>1. s = "shut"
        BY <2>2, <3>3 DEF Fresh
      <4> QED
        BY <1>1, <3>3, <4>1 DEF Conforms, QueueConforms, fixed
    <3> QED
      BY <3>1, <3>2, <3>3
  <2> QED
    BY <2>3, <2>4
<1>5. Faults'
  BY <1>1 DEF Between, Faults, KnownFault, fixed
<1>6. Losses'
  BY <1>1 DEF Losses, LeaksOnlyUnsent
<1> QED
  BY <1>1, <1>3, <1>4, <1>5, <1>6 DEF Opening, Between, Failures

(* A run() begins with nothing in its ports.                               *)
LEMMA Starting ==
  ASSUME Shape, todo = Programs[class],
         \A t \in Tags : msg[t] = "none" /\ buf[t] = "none",
         \A p \in OutOf(class) : Numbers(p, <<"fresh", 0>>),
         NEW p \in Tracked(class)
  PROVE  \E s : Conforms(p, s) /\ Safe(class, p, todo, s)
<1>1. PICK s : s = Fresh(class, p)
  OBVIOUS
<1>2. Safe(class, p, todo, s)
  BY <1>1, AllStart DEF Starts, Shape
<1>3. CASE p \in InOf(class)
  <2>1. s = "fresh" /\ p \in Tags /\ p # "queue" /\ p \notin OutOf(class)
    BY <1>1, <1>3, Ports DEF Fresh
  <2>2. class = Renderer => "out_frame" \in Tags
    BY Ports DEF Fits
  <2>3. InConforms(p, s)
    BY <2>1, <2>2 DEF InConforms
  <2> QED
    BY <1>2, <2>1, <2>3 DEF Conforms
<1>4. CASE p \in OutOf(class)
  <2>1. s = <<"fresh", 0>> /\ p \in Tags /\ p # "queue" /\ p \notin InOf(class)
    BY <1>1, <1>4, Ports DEF Fresh
  <2>2. OutMessage(p, s)
    <3>1. s[1] = "fresh"
      BY <2>1
    <3> QED
      BY <2>1, <3>1 DEF OutMessage, OutNames
  <2> QED
    BY <1>2, <1>4, <2>1, <2>2 DEF Conforms
<1>5. CASE p \notin InOf(class) \cup OutOf(class)
  <2>1. s = "shut"
    BY <1>1, <1>5 DEF Fresh
  <2> QED
    BY <1>2, <1>5, <2>1 DEF Conforms, QueueConforms
<1> QED
  BY <1>3, <1>4, <1>5

(* A source that has sent nothing.                                         *)
LEMMA NothingSent ==
  ASSUME Shape, InOf(class) = {}, class # "ImgPlayer", NEW p, seq = 0, sent[p].hdr = -1,
         class = "BagCamera" => BagConforms(0)
  PROVE  Numbers(p, <<"fresh", 0>>)
<1>1. PICK s : s = <<"fresh", 0>>
  OBVIOUS
<1>2. s[1] = "fresh" /\ s[2] = 0 /\ s = <<s[1], s[2]>>
  BY <1>1
<1>3. Number(s) = 0 /\ Frames(s) = 0
  BY <1>2 DEF Number, Frames
<1>4. SourceConforms(p, s)
  BY <1>2, <1>3 DEF SourceConforms
<1> QED
  BY <1>1, <1>4 DEF Numbers

(* The bag is open when all frames to be cached are, or a message that is  *)
(* no image ends the caching.                                              *)
LEMMA CacheKeeps == ASSUME KernelInv, CacheFrame PROVE KernelInv'
<1> USE DEF KernelInv
<1>1. /\ state = "opening" /\ class = "BagCamera" /\ todo = Programs[class] /\ seq = 0
      /\ reader.curMsg = bag.start + reader.cached /\ reader.cached <= bag.cache
      /\ reader.frameIndex = 0
      /\ \A t \in Tags : msg[t] = "none" /\ buf[t] = "none" /\ sent[t].hdr = -1
      /\ UNCHANGED <<fixed, run, todo, seq, data, got, sent, inside, queue, faults, lost>>
  BY DEF CacheFrame, Opening
<1>2. /\ bag.start \in Nat /\ bag.cache \in Nat /\ reader \in Readers
      /\ reader.cached \in Nat /\ reader.frameIndex \in Nat /\ reader.curMsg \in Nat
  BY Files DEF Shape
<1>3. CASE /\ reader.cached = bag.cache \/ Image = "null"
           /\ state' = "running" /\ UNCHANGED reader
  <2>1. BagConforms(0)
    <3>1. CASE Cached
      <4>1. reader.cached > 0
        BY <3>1 DEF Cached
      <4>2. 0 % reader.cached = 0
        BY <1>2, <4>1
      <4> QED
        BY <1>1, <3>1, <4>2 DEF BagConforms
    <3>2. CASE ~Cached
      <4>1. reader.cached = 0
        BY <1>2, <3>2 DEF Cached
      <4> QED
        BY <1>1, <1>2, <1>3, <3>2, <4>1 DEF BagConforms
    <3> QED
      BY <3>1, <3>2
  <2>2. \A p \in OutOf(class) : Numbers(p, <<"fresh", 0>>)
    <3>1. InOf(class) = {}
      BY <1>1, Ports DEF Fits, Sources
    <3> QED
      BY <1>1, <2>1, <3>1, NothingSent, Ports
  <2>3. ASSUME NEW p \in Tracked(class)
        PROVE  \E s : Conforms(p, s)' /\ Safe(class, p, todo, s)
    <3>1. PICK s : Conforms(p, s) /\ Safe(class, p, todo, s)
      BY <1>1, <2>2, Starting
    <3> QED
      BY <1>1, <1>3, <3>1, ConformsKept
  <2>4. Running'
    BY <1>1, <2>3 DEF Running, fixed
  <2>5. Shape'
    BY <1>1, <1>3, SameTags DEF Shape, data, fixed
  <2>6. Faults'
    BY <1>1, FaultsKept DEF data
  <2> QED
    BY <1>1, <1>3, <2>4, <2>5, <2>6 DEF Opening, Between, Failures, Losses, LeaksOnlyUnsent
<1>4. CASE /\ reader.cached # bag.cache /\ UNCHANGED state
           /\ reader' = [reader EXCEPT !.cached = reader.cached + 1,
                                       !.curMsg = reader.curMsg + 1]
  <2>1. reader.cached + 1 \in Nat /\ reader.curMsg + 1 \in Nat
    BY <1>2
  <2>2. /\ reader'.cached = reader.cached + 1 /\ reader'.curMsg = reader.curMsg + 1
        /\ reader'.frameIndex = reader.frameIndex
    BY <1>2, <1>4 DEF Readers
  <2>3. reader' \in Readers
    BY <1>2, <1>4, <2>1 DEF Readers
  <2>4. /\ reader' \in Readers /\ reader'.cached = reader.cached + 1
        /\ reader'.curMsg = reader.curMsg + 1 /\ reader'.frameIndex = 0
    BY <1>1, <2>2, <2>3
  <2>5. Shape'
    BY <1>1, <1>4, <2>4, SameTags DEF Shape, data, fixed
  <2>6. Opening'
    <3>1. /\ reader'.curMsg = bag.start + reader'.cached /\ reader'.cached <= bag.cache
      BY <1>1, <1>2, <1>4, <2>4
    <3> QED
      BY <1>1, <2>4, <3>1, SameTags DEF Opening, data, fixed
  <2>7. Faults'
    BY <1>1, FaultsKept DEF data
  <2> QED
    BY <1>1, <1>4, <2>5, <2>6, <2>7
       DEF Running, Between, Failures, Losses, LeaksOnlyUnsent
<1>5. CASE /\ reader.cached # bag.cache /\ Image \notin {"frame", "null"}
           /\ state' = (IF Image = "other" THEN "exited" ELSE "crashed")
           /\ UNCHANGED reader
  <2>1. reader.cached < bag.cache
    BY <1>1, <1>2, <1>5
  <2>2. /\ Image \in {"none", "null"} => BagLacks
        /\ Image = "other" => BagHasOther
    BY <1>1, <1>2, <2>1, AskedFor
  <2>3. Image \in {"none", "frame", "other", "null"}
    BY Files DEF Image, Images
  <2> QED
    BY <1>1, <1>5, <2>2, <2>3, Failing
<1> QED
  BY <1>3, <1>4, <1>5 DEF CacheFrame

LEMMA InitKernel == Init => KernelInv
<1> SUFFICES ASSUME Init PROVE KernelInv
  OBVIOUS
<1>1. /\ class \in DOMAIN Kernels /\ bag \in Bags /\ folder \in Folders
      /\ inCh \in Channels(InPorts) /\ outCh \in Channels(OutPorts)
      /\ run = 0 /\ todo = Programs[class] /\ seq = 0
      /\ state = IF class = "BagCamera" THEN "opening" ELSE "running"
      /\ reader = [curMsg |-> bag.start, frameIndex |-> 0, cached |-> 0,
                   nImgs |-> folder.listed, caching |-> folder.preload]
      /\ msg = All("none") /\ buf = All("none") /\ hdr = All(-1) /\ content = All(-1)
      /\ sent = All([hdr |-> -1, content |-> -1])
      /\ inside = << >> /\ queue = 0 /\ faults = {} /\ lost = {}
  BY RunAssumption DEF Init
<1>2. /\ bag.start \in Nat /\ bag.cache \in Nat /\ folder.listed \in Nat
      /\ folder.there \in Nat /\ folder.preload \in BOOLEAN
  BY <1>1, RunAssumption
<1>3. /\ msg \in [Tags -> {"none"}] /\ buf \in [Tags -> {"none"}]
      /\ hdr \in [Tags -> Int] /\ content \in [Tags -> Int]
      /\ sent \in [Tags -> [hdr : Int, content : Int]]
      /\ \A t \in Tags : /\ msg[t] = "none" /\ buf[t] = "none"
                         /\ sent[t].hdr = -1 /\ sent[t].content = -1
  BY <1>1 DEF All
<1>4. Shape
  <2>1. msg \in [Tags -> MsgStates] /\ buf \in [Tags -> BufStates]
    BY <1>3 DEF MsgStates, BufStates
  <2>2. "packet" \in Tags
    BY DEF Tags
  <2>3. msg["packet"] = "none" /\ buf["packet"] = "none"
    BY <1>3, <2>2
  <2>4. reader \in Readers /\ inside \in Seq(Int)
    BY <1>1, <1>2 DEF Readers
  <2>5. /\ inCh \in [InOf(class) -> {"raftlib", "copied"}]
        /\ outCh \in [OutOf(class) -> {"raftlib", "copied"}]
    BY <1>1 DEF Channels, InPorts, OutPorts, InOf, OutOf
  <2>6. state \in {"opening", "running"}
    BY <1>1
  <2> QED
    BY <1>1, <1>3, <2>1, <2>3, <2>4, <2>5, <2>6 DEF Shape
<1>5. Running
  <2>1. ASSUME class # "BagCamera", NEW p \in OutOf(class)
        PROVE  Numbers(p, <<"fresh", 0>>)
    <3>1. p \in Tags
      BY <1>4, <2>1, Ports
    <3>2. CASE InOf(class) = {} /\ class = "ImgPlayer"
      <4>1. PICK s : s = <<"fresh", 0>>
        OBVIOUS
      <4>2. s[1] = "fresh" /\ s[2] = 0 /\ s = <<s[1], s[2]>>
        BY <4>1
      <4>3. Played(s) = 0
        BY <1>1, <4>2 DEF Played
      <4>4. PlayerConforms(p, s)
        BY <1>1, <1>2, <1>3, <3>1, <4>2, <4>3 DEF PlayerConforms, PlayerFiles, Follows
      <4> QED
        BY <3>2, <4>1, <4>4 DEF Numbers
    <3>3. CASE InOf(class) = {} /\ class # "ImgPlayer"
      BY <1>1, <1>3, <1>4, <2>1, <3>1, <3>3, NothingSent
    <3>4. CASE InOf(class) # {}
      <4>1. PICK s : s = <<"fresh", 0>>
        OBVIOUS
      <4>2. s[1] = "fresh" /\ s[2] = 0 /\ s = <<s[1], s[2]>>
        BY <4>1
      <4>3. AnswerConforms(p, s)
        BY <1>1, <1>3, <3>1, <4>2 DEF AnswerConforms, Ordered
      <4> QED
        BY <3>4, <4>1, <4>3 DEF Numbers
    <3> QED
      BY <3>2, <3>3, <3>4
  <2> QED
    BY <1>1, <1>3, <1>4, <2>1, Starting DEF Running
<1>6. Opening
  BY <1>1, <1>2, <1>3 DEF Opening
<1> QED
  BY <1>1, <1>4, <1>5, <1>6
     DEF KernelInv, Between, Faults, Failures, Losses, LeaksOnlyUnsent

LEMMA KernelSteps == KernelInv /\ [Next]_vars => KernelInv'
<1> SUFFICES ASSUME KernelInv, [Next]_vars PROVE KernelInv'
  OBVIOUS
<1>1. CASE UNCHANGED vars
  <2>1. UNCHANGED <<fixed, run, todo, state, seq, reader, data, sent, inside, queue,
                    faults, lost>>
    BY <1>1 DEF vars
  <2>2. Shape'
    BY <2>1, SameTags DEF KernelInv, Shape, data, fixed
  <2>3. Running'
    BY <2>1, ConformsKept DEF KernelInv, Running, fixed
  <2>4. Between'
    <3>1. ASSUME NEW p \in OutOf(class), Numbers(p, St("fresh"))
          PROVE  Numbers(p, St("fresh"))'
      <4>1. PICK s : s = St("fresh")
        OBVIOUS
      <4>2. Numbers(p, s)'
        BY <2>1, <3>1, <4>1, NumbersKept DEF data
      <4> QED
        BY <4>1, <4>2 DEF St
    <3> QED
      BY <2>1, <3>1 DEF KernelInv, Between, fixed
  <2>5. Faults'
    BY <2>1, FaultsKept DEF KernelInv, data
  <2>6. Failures'
    BY <2>1 DEF KernelInv, Failures, NullInput, BagLacks, BagHasOther, Asked, fixed
  <2>7. Losses'
    BY <2>1 DEF KernelInv, Losses, LeaksOnlyUnsent, OutPorts, OutPort, data, fixed
  <2>8. Opening'
    BY <2>1, SameTags DEF KernelInv, Opening, data, fixed
  <2> QED
    BY <2>2, <2>3, <2>4, <2>5, <2>6, <2>7, <2>8 DEF KernelInv
<1>2. CASE Crash \/ DoPlace \/ DoRead \/ DoMake \/ ReadFails \/ DoWrite \/ DoHeader
  BY <1>2, CrashKeeps, PlaceKeeps, ReadKeeps, MakeKeeps, ReadFailsKeeps, WriteKeeps,
     HeaderKeeps
<1>3. CASE GetLocal \/ GetNothing \/ GetCopied \/ GetArchive \/ DoCount \/ DoShare
  BY <1>3, GetLocalKeeps, GetNothingKeeps, GetCopiedKeeps, GetArchiveKeeps, CountKeeps,
     ShareKeeps
<1>4. CASE DoSend \/ DoRelease \/ DoFree \/ DoEither \/ DoIf \/ DoQueue
  BY <1>4, SendKeeps, ReleaseKeeps, FreeKeeps, EitherKeeps, IfKeeps, QueueKeeps
<1>5. CASE App \/ DoCodec \/ DoEnd \/ Return \/ NextRun
  BY <1>5, AppKeeps, CodecKeeps, EndKeeps, ReturnKeeps, NextRunKeeps
<1>6. CASE CacheFrame \/ DoReadImage \/ DoAtLast
  BY <1>6, CacheKeeps, ReadImageKeeps, AtLastKeeps
<1> QED
  BY <1>1, <1>2, <1>3, <1>4, <1>5, <1>6 DEF Next

(* Whatever messages, sizes, channels, bags and folders it meets, a kernel *)
(* of any class uses nothing it does not own but in the ways named, and    *)
(* fails only over a null input or an image its bag was asked for and      *)
(* lacks.                                                                  *)
THEOREM FaultsAreKnown == Spec => []OnlyKnownFaults
<1>1. Init => KernelInv
  BY InitKernel
<1>2. KernelInv /\ [Next]_vars => KernelInv'
  BY KernelSteps
<1>3. KernelInv => OnlyKnownFaults
  BY KernelInvariants
<1> QED
  BY <1>1, <1>2, <1>3, PTL DEF Spec

(* Of its inputs run() leaves nothing behind, and of its outputs only what *)
(* it has not sent, with the exceptions named.                             *)
THEOREM InputsAreFreed == Spec => []LeaksOnlyUnsent
<1>1. Init => KernelInv
  BY InitKernel
<1>2. KernelInv /\ [Next]_vars => KernelInv'
  BY KernelSteps
<1>3. KernelInv => LeaksOnlyUnsent
  BY KernelInvariants
<1> QED
  BY <1>1, <1>2, <1>3, PTL DEF Spec

LEMMA SentTells ==
  ASSUME KernelInv, DoSend
  PROVE  HeaderTells(T) /\ \A t \in OutPorts : t # T => sent'[t] = sent[t]
<1> USE DEF KernelInv
<1>1. /\ state = "running" /\ todo # << >> /\ UNCHANGED <<fixed, run, reader, inside>>
  BY DEF DoSend, Do, At
<1>2. /\ T \in OutOf(class) /\ sent'[T] = [hdr |-> hdr[T], content |-> content[T]]
      /\ \A t \in OutPorts : t # T => sent'[t] = sent[t]
  BY Sending, Ports
<1>3. PICK s : Stands(T, s)
  BY <1>1, <1>2, Ports, Standing
<1>4. s[1] = "ready" /\ Numbers(T, s)
  BY <1>2, <1>3, Sending DEF Stands, Conforms
<1>5. sent'[T].hdr = hdr[T] /\ sent'[T].content = content[T]
  BY <1>2
<1>0. CASE InOf(class) = {} /\ class = "ImgPlayer"
  <2>1. PlayerConforms(T, s)
    BY <1>0, <1>4 DEF Numbers
  <2>2. /\ hdr[T] = Played(s) + 1 /\ content[T] = Played(s)
        /\ Follows(T, Played(s)) /\ Played(s) < Lap /\ Played(s) >= 0
    BY <1>4, <2>1 DEF PlayerConforms
  <2>3. Played(s) \in Int /\ Lap \in Int
    BY <1>4, <2>1, Files DEF PlayerConforms, Played, Lap
  <2>4. hdr[T] = IF sent[T].hdr \in {-1, Lap} THEN 1 ELSE sent[T].hdr + 1
    BY <2>2, <2>3 DEF Follows
  <2>5. content[T] = hdr[T] - 1
    BY <2>2, <2>3
  <2>6. /\ sent'[T].hdr = IF sent[T].hdr \in {-1, Lap} THEN 1 ELSE sent[T].hdr + 1
        /\ sent'[T].content = sent'[T].hdr - 1
    BY <1>5, <2>4, <2>5
  <2>7. HeaderTells(T)
    BY <1>0, <2>6 DEF HeaderTells
  <2> QED
    BY <1>2, <2>7
<1>6. CASE InOf(class) = {} /\ class # "ImgPlayer"
  <2>1. SourceConforms(T, s)
    BY <1>4, <1>6 DEF Numbers
  <2>2. Number(s) \in Nat
    BY <2>1 DEF SourceConforms, Number, Shape
  <2>3. /\ hdr[T] = Number(s) /\ content[T] = FrameOf(Number(s))
        /\ sent[T].hdr = Number(s) - 1
    BY <1>4, <2>1 DEF SourceConforms
  <2>4. hdr[T] = sent[T].hdr + 1 /\ content[T] = FrameOf(hdr[T])
    BY <2>2, <2>3
  <2>5. InPorts = {}
    BY <1>6, Ports
  <2>6. FrameOf(hdr[T]) = FrameOf(sent'[T].hdr)
    BY <1>5
  <2>7. /\ sent'[T].hdr = sent[T].hdr + 1
        /\ sent'[T].content = FrameOf(sent'[T].hdr)
    BY <1>5, <2>4, <2>5, <2>6
  <2>8. HeaderTells(T)
    BY <1>6, <2>5, <2>7 DEF HeaderTells
  <2> QED
    BY <1>2, <2>8
<1>7. CASE InOf(class) # {}
  <2>1. AnswerConforms(T, s)
    BY <1>4, <1>7 DEF Numbers
  <2>2. /\ hdr[T] = run /\ sent[T].content < content[T]
        /\ IF inside = << >> THEN content[T] = run ELSE content[T] < run
    BY <1>4, <2>1 DEF AnswerConforms
  <2>3. /\ InPorts # {} /\ content[T] \in Int /\ sent[T].content \in Int
        /\ class # "ImgPlayer"
    BY <1>2, <1>7, Ports DEF Shape, Fits, Sources
  <2> QED
    BY <1>2, <1>5, <2>2, <2>3 DEF HeaderTells
<1> QED
  BY <1>0, <1>6, <1>7

LEMMA OnlySendSends ==
  ASSUME [Next]_vars, ~DoSend
  PROVE  sent' = sent
<1>1. CASE Crash \/ DoPlace \/ GetLocal \/ GetNothing \/ GetCopied \/ GetArchive
  BY <1>1 DEF Crash, DoPlace, GetLocal, GetNothing, GetCopied, GetArchive
<1>2. CASE DoRead \/ DoMake \/ ReadFails \/ DoWrite \/ DoHeader \/ DoCount
  BY <1>2 DEF DoRead, DoMake, ReadFails, DoWrite, DoHeader, DoCount
<1>3. CASE DoShare \/ DoRelease \/ DoFree \/ DoEither \/ DoIf \/ DoQueue
  BY <1>3 DEF DoShare, DoRelease, DoFree, DoEither, DoIf, DoQueue, Choose
<1>4. CASE App \/ DoCodec \/ DoEnd \/ Return \/ NextRun \/ UNCHANGED vars
  BY <1>4 DEF App, DoCodec, DoEnd, Return, NextRun, vars
<1>5. CASE CacheFrame \/ DoReadImage \/ DoAtLast
  BY <1>5 DEF CacheFrame, DoReadImage, DoAtLast
<1> QED
  BY <1>1, <1>2, <1>3, <1>4, <1>5 DEF Next

(* Sources number what they send without gaps, ImgPlayer from 1 again at   *)
(* every lap, and the number names the frame; what the others send is made *)
(* of their inputs in order, with the header of this run()'s, whatever a   *)
(* codec keeps back.                                                       *)
THEOREM HeadersTell == Spec => HeaderOfInput
<1>1. Init => KernelInv
  BY InitKernel
<1>2. KernelInv /\ [Next]_vars => KernelInv'
  BY KernelSteps
<1>3. KernelInv /\ [Next]_vars =>
        [\A t \in OutPorts : sent'[t] # sent[t] => HeaderTells(t)]_vars
  BY SentTells, OnlySendSends
<1> QED
  BY <1>1, <1>2, <1>3, PTL DEF Spec, HeaderOfInput
=============================================================================
