-------------------------- MODULE Deployment_proofs --------------------------
(***************************************************************************)
(* Theorems about Deployment, for every finite set of recipes.             *)
(***************************************************************************)
EXTENDS Deployment, SequenceTheorems, TLAPS

(* What the constructor of a class and its YAML class have in common.      *)
Typed(table) ==
  \A t \in DOMAIN table :
    /\ table[t].type \in {"frame", "encoded", "imus", "key", "pose"}
    /\ table[t].coder \in {"CODED", "PLAIN"}
    /\ table[t].sem \in {"BLOCKING", "NONBLOCKING"}

Agree(k, y) == /\ Typed(k.in) /\ Typed(k.out)
               /\ DOMAIN k.in = y.in /\ DOMAIN k.out = y.out
Matching(k, y) == Agree(k, y) /\ y.dup = y.out /\ "" \notin y.out

LEMMA Lookup ==
  /\ Kernels["BagCamera"] = BagCamera /\ Kernels["ImgPlayer"] = ImgPlayer
  /\ Kernels["CVCamera"] = CVCamera
  /\ Kernels["EurocMonoInertialReader"] = EurocMonoInertialReader
  /\ Kernels["Keyboard"] = Keyboard /\ Kernels["Rgba2RgbAppSource"] = Rgba2RgbAppSource
  /\ Kernels["CVDisplay"] = CVDisplay /\ Kernels["Cv2GlRgbDisplay"] = Cv2GlRgbDisplay
  /\ Kernels["NonDisplay"] = NonDisplay /\ Kernels["Rgb2RgbaAppSink"] = Rgb2RgbaAppSink
  /\ Kernels["FrameDecoder"] = FrameDecoder /\ Kernels["FrameEncoder"] = FrameEncoder
  /\ Kernels["NvmpiDecoder"] = NvmpiDecoder /\ Kernels["NvmpiEncoder"] = NvmpiEncoder
  /\ Kernels["FrameConverter"] = FrameConverter
  /\ Kernels["CudaOrbCamLocator"] = CudaOrbCamLocator
  /\ Kernels["OrbCamLocator"] = OrbCamLocator
  /\ Kernels["OrbSlamPoseEstimator"] = OrbSlamPoseEstimator
  /\ Kernels["ArUcoDetector"] = ArUcoDetector
  /\ Kernels["ArUcoCamLocator"] = ArUcoCamLocator
  /\ Kernels["SampleMarkerRenderer"] = SampleMarkerRenderer
BY DEF Kernels, SourceKernels, SinkKernels, IntermediateKernels

LEMMA PortFields ==
  ASSUME NEW type, NEW coder, NEW sem
  PROVE  /\ Port(type, coder, sem).type = type
         /\ Port(type, coder, sem).coder = coder
         /\ Port(type, coder, sem).sem = sem
BY DEF Port

LEMMA SourcesMatch ==
  /\ Matching(BagCamera, YamlBagCamera) /\ Matching(ImgPlayer, YamlImgPlayer)
  /\ Matching(EurocMonoInertialReader, YamlEurocMonoInertialReader)
  /\ Matching(Keyboard, YamlKeyboard) /\ Matching(Rgba2RgbAppSource, YamlRgba2RgbAppSource)
<1>1. Matching(BagCamera, YamlBagCamera) /\ Matching(ImgPlayer, YamlImgPlayer)
  BY PortFields DEF Matching, Agree, Typed, Kernel, Yaml, Out, NoPorts,
     BagCamera, YamlBagCamera, ImgPlayer, YamlImgPlayer
<1>2. Matching(EurocMonoInertialReader, YamlEurocMonoInertialReader)
  BY PortFields DEF Matching, Agree, Typed, Kernel, Yaml, Out, NoPorts,
     EurocMonoInertialReader, YamlEurocMonoInertialReader
<1>3. Matching(Keyboard, YamlKeyboard) /\ Matching(Rgba2RgbAppSource, YamlRgba2RgbAppSource)
  BY PortFields DEF Matching, Agree, Typed, Kernel, Yaml, Out, Plain, NoPorts,
     Keyboard, YamlKeyboard, Rgba2RgbAppSource, YamlRgba2RgbAppSource
<1>. QED  BY <1>1, <1>2, <1>3

LEMMA SinksMatch ==
  /\ Matching(CVDisplay, YamlCvDisplay) /\ Matching(Cv2GlRgbDisplay, YamlCv2GlRgbDisplay)
  /\ Matching(NonDisplay, YamlNonDisplay)
  /\ Matching(Rgb2RgbaAppSink, YamlRgb2RgbaAppSink)
BY PortFields DEF Matching, Agree, Typed, Kernel, Yaml, In, Plain, NoPorts,
   CVDisplay, YamlCvDisplay, Cv2GlRgbDisplay, YamlCv2GlRgbDisplay,
   NonDisplay, YamlNonDisplay, Rgb2RgbaAppSink, YamlRgb2RgbaAppSink

LEMMA IntermediatesMatch ==
  /\ Matching(FrameDecoder, YamlFrameDecoder) /\ Matching(FrameEncoder, YamlFrameEncoder)
  /\ Matching(NvmpiDecoder, YamlNvmpiDecoder) /\ Matching(NvmpiEncoder, YamlNvmpiEncoder)
  /\ Matching(FrameConverter, YamlFrameConverter)
  /\ Matching(CudaOrbCamLocator, YamlCudaOrbCamLocator)
  /\ Matching(OrbCamLocator, YamlOrbCamLocator)
  /\ Matching(OrbSlamPoseEstimator, YamlOrbSlamPoseEstimator)
  /\ Matching(ArUcoDetector, YamlArUcoDetector)
  /\ Matching(SampleMarkerRenderer, YamlSampleMarkerRenderer)
<1>1. /\ Matching(FrameDecoder, YamlFrameDecoder) /\ Matching(FrameEncoder, YamlFrameEncoder)
      /\ Matching(NvmpiDecoder, YamlNvmpiDecoder) /\ Matching(NvmpiEncoder, YamlNvmpiEncoder)
  BY PortFields DEF Matching, Agree, Typed, Kernel, Yaml, In, Out,
     FrameDecoder, YamlFrameDecoder, FrameEncoder, YamlFrameEncoder,
     NvmpiDecoder, YamlNvmpiDecoder, NvmpiEncoder, YamlNvmpiEncoder
<1>2. /\ Matching(FrameConverter, YamlFrameConverter)
      /\ Matching(CudaOrbCamLocator, YamlCudaOrbCamLocator)
      /\ Matching(OrbCamLocator, YamlOrbCamLocator)
      /\ Matching(ArUcoDetector, YamlArUcoDetector)
  BY PortFields DEF Matching, Agree, Typed, Kernel, Yaml, In, Plain,
     FrameConverter, YamlFrameConverter, CudaOrbCamLocator, YamlCudaOrbCamLocator,
     OrbCamLocator, YamlOrbCamLocator, ArUcoDetector, YamlArUcoDetector
<1>3. Matching(OrbSlamPoseEstimator, YamlOrbSlamPoseEstimator)
  BY PortFields DEF Matching, Agree, Typed, Kernel, Yaml, In, Out,
     OrbSlamPoseEstimator, YamlOrbSlamPoseEstimator
<1>4. Matching(SampleMarkerRenderer, YamlSampleMarkerRenderer)
  BY PortFields DEF Matching, Agree, Typed, Kernel, Yaml, In, Out, Poll,
     SampleMarkerRenderer, YamlSampleMarkerRenderer
<1>. QED  BY <1>1, <1>2, <1>3, <1>4

(* The two classes with a difference.                                      *)
LEMMA OthersMatch ==
  /\ Agree(ArUcoCamLocator, YamlArUcoCamLocator)
  /\ YamlArUcoCamLocator.dup \cap YamlArUcoCamLocator.out = {}
  /\ "" \notin YamlArUcoCamLocator.dup
  /\ Typed(CVCamera.in) /\ Typed(CVCamera.out)
  /\ DOMAIN CVCamera.in = YamlCvCamera.in /\ YamlCvCamera.dup = {}
BY PortFields DEF Agree, Typed, Kernel, Yaml, In, Plain, NoPorts,
   ArUcoCamLocator, YamlArUcoCamLocator, CVCamera, YamlCvCamera

(* The catalog, class by class.                                            *)
LEMMA Catalog ==
  ASSUME NEW c \in DOMAIN Kernels
  PROVE  /\ c \in NoDuplicates \/ Matching(Kernels[c], YamlKernels[c])
         /\ c = "ArUcoCamLocator" =>
              Kernels[c] = ArUcoCamLocator /\ YamlKernels[c] = YamlArUcoCamLocator
         /\ c = "CVCamera" => Kernels[c] = CVCamera /\ YamlKernels[c] = YamlCvCamera
<1>1. CASE c \in DOMAIN SourceKernels \ {"CVCamera"}
  <2>1. c \in {"BagCamera", "ImgPlayer", "EurocMonoInertialReader", "Keyboard",
               "Rgba2RgbAppSource"}
    BY <1>1 DEF SourceKernels
  <2>. QED  BY <2>1, Lookup, SourcesMatch DEF YamlKernels
<1>2. CASE c \in DOMAIN SinkKernels
  <2>1. c \in {"CVDisplay", "Cv2GlRgbDisplay", "NonDisplay", "Rgb2RgbaAppSink"}
    BY <1>2 DEF SinkKernels
  <2>. QED  BY <2>1, Lookup, SinksMatch DEF YamlKernels
<1>3. CASE c \in DOMAIN IntermediateKernels \ {"ArUcoCamLocator"}
  <2>1. c \in {"FrameDecoder", "FrameEncoder", "NvmpiDecoder", "NvmpiEncoder",
               "FrameConverter", "CudaOrbCamLocator", "OrbCamLocator",
               "OrbSlamPoseEstimator", "ArUcoDetector", "SampleMarkerRenderer"}
    BY <1>3 DEF IntermediateKernels
  <2>. QED  BY <2>1, Lookup, IntermediatesMatch DEF YamlKernels
<1>4. CASE c \in NoDuplicates
  BY <1>4, Lookup DEF YamlKernels, NoDuplicates
<1>. QED  BY <1>1, <1>2, <1>3, <1>4 DEF Kernels, NoDuplicates

(* What the proofs use of it.                                              *)
LEMMA CatalogFacts ==
  ASSUME NEW c \in DOMAIN Kernels
  PROVE  /\ Typed(Kernels[c].in) /\ Typed(Kernels[c].out)
         /\ DOMAIN Kernels[c].in = YamlKernels[c].in
         /\ c # "CVCamera" => DOMAIN Kernels[c].out = YamlKernels[c].out
         /\ c \notin NoDuplicates => YamlKernels[c].dup = DOMAIN Kernels[c].out
         /\ c \in NoDuplicates => YamlKernels[c].dup \cap DOMAIN Kernels[c].out = {}
         /\ c \in DOMAIN SinkKernels => YamlKernels[c].dup = {}
         /\ "" \notin YamlKernels[c].dup
<1>0. c \in DOMAIN SinkKernels => YamlKernels[c].dup = {}
  BY DEF SinkKernels, YamlKernels, YamlCvDisplay, YamlCv2GlRgbDisplay, YamlNonDisplay,
         YamlRgb2RgbaAppSink, Yaml
<1>1. CASE c \notin NoDuplicates
  BY <1>0, <1>1, Catalog DEF Matching, Agree, NoDuplicates
<1>2. CASE c = "ArUcoCamLocator"
  BY <1>0, <1>2, Catalog, OthersMatch DEF Agree, NoDuplicates
<1>3. CASE c = "CVCamera"
  BY <1>0, <1>3, Catalog, OthersMatch DEF NoDuplicates
<1>. QED  BY <1>1, <1>2, <1>3 DEF NoDuplicates
-----------------------------------------------------------------------------
(* Where main is.  The kernels made so far are those of the entries before *)
(* n, and the one that is being made.                                      *)
K(i) == recipe.entries[i].kernel
PlaceOK ==
  /\ recipe \in Recipes /\ n \in Nat \ {0} /\ p \in Nat \ {0}
  /\ \A i \in Made : i <= n /\ K(i) \in DOMAIN Kernels
  /\ pc = "init" => \A i \in Made : i < n
  /\ pc \in {"in", "out"} => n \in Made
  /\ singles \in Seq(Nat)
  /\ \A i \in Made : DOMAIN ports[i] = {"in", "out"}

(* A kernel that was made is kept: in the vector if its entry has the      *)
(* attribute, else in the map, unless a later one has taken its place.     *)
Single(i) == recipe.entries[i].single # "absent"
Mapped == {kernelMap[id] : id \in DOMAIN kernelMap}
Kept(i) == IF Single(i) THEN i \in ToSet(singles)
           ELSE /\ recipe.entries[i].id \in DOMAIN kernelMap
                /\ i <= kernelMap[recipe.entries[i].id]
KeptOK ==
  /\ \A i \in ToSet(singles) : i \in Made /\ Single(i)
  /\ \A id \in DOMAIN kernelMap :
       kernelMap[id] \in Made /\ ~Single(kernelMap[id]) /\ recipe.entries[kernelMap[id]].id = id
  /\ pc \notin {"free", "done"} \/ (pc = "free" /\ p = 1) =>
       \A i \in Made : (pc \in {"in", "out", "aborted"} /\ i = n) \/ Kept(i)
  /\ pc = "free" /\ p # 1 => \A i \in Made : Single(i) => i \in ToSet(singles)

(* A thread runs a single kernel, or one of the pipeline.                  *)
ThreadsOK ==
  \A i \in Made : thread[i] \in {"running", "endless"} =>
    /\ pc \in {"spawn", "exe", "join", "aborted"}
    /\ pc \in {"spawn", "join"} => i \in ToSet(singles)
    /\ pc = "exe" => i \in InPipeline \cup ToSet(singles)

(* What has been destroyed: nothing, what was in the map, or all of it.    *)
FreedOK ==
  \A i \in Made :
    /\ freed[i] = 1 => pc \in {"free", "done"} /\ (pc = "free" => p # 1)
    /\ freed[i] \in {0, 1}
    /\ pc = "free" /\ p # 1 =>
         (freed[i] = 1 <=> K(i) \in Destroyable /\ ~Single(i) /\ ~Replaced(i))
    /\ pc = "done" => (freed[i] = 1 <=> K(i) \in Destroyable /\ ~Replaced(i))

IInv == TypeOK /\ PlaceOK /\ KeptOK /\ ThreadsOK /\ FreedOK
-----------------------------------------------------------------------------
(* The parts of a recipe.                                                  *)
LEMMA Entries ==
  ASSUME recipe \in Recipes
  PROVE  /\ recipe.entries \in Seq(ListedKernel) /\ Len(recipe.entries) \in Nat
         /\ \A i \in 1..Len(recipe.entries) : recipe.entries[i] \in ListedKernel
<1>1. recipe.entries \in Seq(ListedKernel)
  BY RecipesAssumption DEF Recipe
<1>. QED  BY <1>1, LenProperties, ElementOfSeq

LEMMA ListedPorts ==
  ASSUME NEW e \in ListedKernel
  PROVE  /\ e.in \in Seq(ListedPort) /\ Len(e.in) \in Nat
         /\ \A j \in 1..Len(e.in) : e.in[j] \in ListedPort
         /\ e.out \in Seq(ListedPort) /\ Len(e.out) \in Nat
         /\ \A j \in 1..Len(e.out) : e.out[j] \in ListedPort
<1>1. e.in \in Seq(ListedPort) /\ e.out \in Seq(ListedPort)
  BY DEF ListedKernel
<1>. QED  BY <1>1, LenProperties, ElementOfSeq

LEMMA EntryOK ==
  ASSUME TypeOK, PlaceOK, pc \in {"in", "out"}
  PROVE  /\ n \in Made /\ Entry \in ListedKernel /\ Entry.kernel \in DOMAIN Kernels
         /\ Len(Entry.in) \in Nat /\ Len(Entry.out) \in Nat
         /\ \A j \in 1..Len(Entry.in) : Entry.in[j] \in ListedPort
         /\ \A j \in 1..Len(Entry.out) : Entry.out[j] \in ListedPort
<1>1. n \in Made /\ n \in 1..Len(recipe.entries)
  BY DEF PlaceOK, TypeOK
<1>2. Entry \in ListedKernel /\ Entry.kernel \in DOMAIN Kernels
  BY <1>1, Entries DEF PlaceOK, K, Entry
<1>. QED  BY <1>1, <1>2, ListedPorts

LEMMA SetSem ==
  ASSUME NEW port \in PortRecord, NEW sem \in {"BLOCKING", "NONBLOCKING"}
  PROVE  /\ [port EXCEPT !.sem = sem] \in PortRecord
         /\ [port EXCEPT !.sem = sem].channel = port.channel
         /\ [port EXCEPT !.sem = sem].type = port.type
         /\ [port EXCEPT !.sem = sem].coder = port.coder
         /\ [port EXCEPT !.sem = sem].sem = sem
BY DEF PortRecord

(* A port that is activated stays one.                                     *)
LEMMA Activated ==
  ASSUME NEW port \in PortRecord, NEW r \in ListedPort, r.channel # "none"
  PROVE  /\ Activate(port, r) \in PortRecord /\ ActivateOut(port, r) \in PortRecord
         /\ Activate(port, r).channel =
              IF port.channel = "inactive" THEN r.channel ELSE port.channel
         /\ ActivateOut(port, r).channel = Activate(port, r).channel
         /\ ActivateOut(port, r).sem = IF r.channel \in Local THEN r.sem ELSE port.sem
         /\ Activate(port, r).type = port.type /\ ActivateOut(port, r).type = port.type
         /\ ActivateOut(port, r).coder = port.coder
<1>1. /\ r.channel \in Local \cup Remote
      /\ r.sem \in {"BLOCKING", "NONBLOCKING"}
  BY DEF ListedPort
<1>2. /\ Activate(port, r) \in PortRecord
      /\ Activate(port, r).channel =
           IF port.channel = "inactive" THEN r.channel ELSE port.channel
      /\ Activate(port, r).type = port.type /\ Activate(port, r).coder = port.coder
      /\ Activate(port, r).sem = port.sem
  BY <1>1 DEF Activate, PortRecord
<1>. DEFINE sem == IF r.channel \in Local THEN r.sem ELSE Activate(port, r).sem
<1>3. sem \in {"BLOCKING", "NONBLOCKING"}
  BY <1>1, <1>2 DEF PortRecord
<1>4. ActivateOut(port, r) = [Activate(port, r) EXCEPT !.sem = sem]
  BY DEF ActivateOut
<1>5. sem = IF r.channel \in Local THEN r.sem ELSE port.sem
  BY <1>2
<1>. HIDE DEF sem
<1>6. ASSUME NEW a \in PortRecord, NEW b, b = [a EXCEPT !.sem = sem]
      PROVE  /\ b \in PortRecord /\ b.sem = sem
             /\ b.channel = a.channel /\ b.type = a.type /\ b.coder = a.coder
  BY <1>3, <1>6, SetSem
<1>. QED  BY <1>2, <1>4, <1>5, <1>6

(* The tables after a step that changes or adds one port of the kernel.    *)
LEMMA InTable ==
  ASSUME n \in Made, DOMAIN ports[n] = {"in", "out"}, NEW x \in DOMAIN ports[n].in, NEW v,
         ports' = [ports EXCEPT ![n].in[x] = v]
  PROVE  /\ Made' = Made /\ \A i \in Made \ {n} : ports'[i] = ports[i]
         /\ DOMAIN ports'[n] = {"in", "out"} /\ ports'[n].out = ports[n].out
         /\ DOMAIN ports'[n].in = DOMAIN ports[n].in /\ ports'[n].in[x] = v
         /\ \A t \in DOMAIN ports[n].in : t # x => ports'[n].in[t] = ports[n].in[t]
<1>1. ports' = [ports EXCEPT ![n] = [ports[n] EXCEPT !.in = [ports[n].in EXCEPT ![x] = v]]]
  OBVIOUS
<1>2. Made' = Made /\ \A i \in Made \ {n} : ports'[i] = ports[i]
  BY <1>1 DEF Made
<1>3. ports'[n] = [ports[n] EXCEPT !.in = [ports[n].in EXCEPT ![x] = v]]
  BY <1>1 DEF Made
<1>. QED  BY <1>2, <1>3
LEMMA OutTable ==
  ASSUME n \in Made, DOMAIN ports[n] = {"in", "out"}, NEW table,
         ports' = [ports EXCEPT ![n].out = table]
  PROVE  /\ Made' = Made /\ \A i \in Made \ {n} : ports'[i] = ports[i]
         /\ DOMAIN ports'[n] = {"in", "out"} /\ ports'[n].in = ports[n].in
         /\ ports'[n].out = table
<1>1. ports' = [ports EXCEPT ![n] = [ports[n] EXCEPT !.out = table]]
  OBVIOUS
<1>. QED  BY <1>1 DEF Made

LEMMA DistinctNames ==
  ASSUME NEW rs, Len(rs) \in Nat, NEW i \in 1..Len(rs), NEW j \in 1..Len(rs),
         Distinct(Names(rs)), rs[i].name = rs[j].name
  PROVE  i = j
<1>1. Len(Names(rs)) = Len(rs)
  BY DEF Names
<1>2. Names(rs)[i] = Names(rs)[j]
  BY DEF Names
<1>. QED  BY <1>1, <1>2 DEF Distinct

PutOut(x, v) == ports' = [ports EXCEPT ![n].out = Put(@, x, v)]

LEMMA AppendedSet ==
  ASSUME NEW S, NEW s \in Seq(S), NEW e \in S
  PROVE  Append(s, e) \in Seq(S) /\ ToSet(Append(s, e)) = ToSet(s) \cup {e}
<1>1. /\ Append(s, e) \in Seq(S) /\ DOMAIN Append(s, e) = 1..(Len(s) + 1)
      /\ DOMAIN s = 1..Len(s) /\ Len(s) \in Nat
      /\ Append(s, e)[Len(s) + 1] = e
      /\ \A j \in 1..Len(s) : Append(s, e)[j] = s[j]
  BY AppendProperties, LenProperties
<1>. QED  BY <1>1 DEF ToSet

LEMMA SetOut ==
  ASSUME n \in Made, DOMAIN ports[n] = {"in", "out"}, NEW x \in DOMAIN ports[n].out, NEW v,
         ports' = [ports EXCEPT ![n].out[x] = v]
  PROVE  PutOut(x, v)
<1>1. [ports[n].out EXCEPT ![x] = v] = Put(ports[n].out, x, v)
  BY DEF Put
<1>. QED  BY <1>1 DEF PutOut
-----------------------------------------------------------------------------
LEMMA InitOK == Init => IInv
<1>. SUFFICES ASSUME Init PROVE IInv
  OBVIOUS
<1>1. Made = {} /\ singles = << >> /\ DOMAIN kernelMap = {}
  BY DEF Init, NoMap, Made
<1>2. ToSet(singles) = {} /\ singles \in Seq(Nat)
  BY <1>1, EmptySeq DEF ToSet
<1>3. TypeOK
  BY <1>1, <1>2 DEF Init, TypeOK, NoMap
<1>4. PlaceOK
  BY <1>1, <1>2 DEF Init, PlaceOK
<1>5. KeptOK /\ ThreadsOK /\ FreedOK
  BY <1>1, <1>2 DEF Init, KeptOK, ThreadsOK, FreedOK
<1>. QED  BY <1>3, <1>4, <1>5 DEF IInv

(* Main gives up, at a place where nothing has been destroyed.             *)
LEMMA AbortOK == IInv /\ Abort /\ pc \notin {"free", "done"} => IInv'
<1>. SUFFICES ASSUME IInv, Abort, pc \notin {"free", "done"} PROVE IInv'
  OBVIOUS
<1>1. pc' = "aborted" /\ UNCHANGED <<recipe, n, p, ports, dups, kernelMap, singles,
                                     links, thread, freed>>
  BY DEF Abort
<1>2. TypeOK'
  BY <1>1 DEF IInv, TypeOK, Made, PortRecord
<1>3. PlaceOK'
  BY <1>1 DEF IInv, PlaceOK, Made, K
<1>4. KeptOK'
  BY <1>1 DEF IInv, KeptOK, Kept, Single, Made
<1>5. ThreadsOK' /\ FreedOK'
  BY <1>1 DEF IInv, ThreadsOK, FreedOK, Made, K, Single
<1>. QED  BY <1>2, <1>3, <1>4, <1>5 DEF IInv

(* Main goes on without any effect on what is made and kept.               *)
LEMMA MoveOK ==
  ASSUME IInv, UNCHANGED <<recipe, n, ports, dups, kernelMap, singles, links, thread, freed>>,
         p' \in Nat \ {0},
         \/ pc' = pc /\ pc # "free"
         \/ pc = "in" /\ pc' = "out"
         \/ pc = "init" /\ pc' = "link"
         \/ pc = "link" /\ pc' = "spawn"
         \/ pc = "exe" /\ pc' = "join" /\ \A i \in InPipeline : thread[i] = "ended"
         \/ pc = "join" /\ pc' = "free" /\ p' = 1 /\ \A i \in ToSet(singles) : thread[i] = "ended"
  PROVE  IInv'
<1>2. TypeOK'
  BY DEF IInv, TypeOK, Made, PortRecord
<1>3. PlaceOK'
  BY DEF IInv, PlaceOK, Made, K
<1>4. KeptOK'
  BY DEF IInv, KeptOK, Kept, Single, Made
<1>5. ThreadsOK'
  BY DEF IInv, ThreadsOK, Made, InPipeline
<1>6. FreedOK'
  BY DEF IInv, FreedOK, Made, K, Single, Replaced
<1>. QED  BY <1>2, <1>3, <1>4, <1>5, <1>6 DEF IInv
(* Main changes the tables of the kernel it makes.                         *)
PortsTyped(k) == /\ DOMAIN k = {"in", "out"}
                 /\ \A t \in DOMAIN k.in : k.in[t] \in PortRecord
                 /\ \A t \in DOMAIN k.out : k.out[t] \in PortRecord

LEMMA TablesOK ==
  ASSUME IInv, UNCHANGED <<recipe, n, pc, kernelMap, singles, links, thread, freed>>,
         pc \in {"in", "out"}, p' = p + 1, Made' = Made, DOMAIN dups' = Made,
         \A i \in Made \ {n} : ports'[i] = ports[i], PortsTyped(ports'[n])
  PROVE  IInv'
<1>1. p' \in Nat \ {0}
  BY DEF IInv, PlaceOK
<1>2. TypeOK'
  <2>1. \A i \in Made : PortsTyped(ports'[i])
    <3>1. \A i \in Made : PortsTyped(ports[i])
      BY DEF IInv, TypeOK, PlaceOK, PortsTyped
    <3>. QED  BY <3>1
  <2>. QED  BY <2>1 DEF IInv, TypeOK, PortsTyped, PortRecord
<1>3. PlaceOK'
  BY <1>1 DEF IInv, PlaceOK, PortsTyped, K
<1>4. KeptOK'
  BY DEF IInv, KeptOK, Kept, Single
<1>5. ThreadsOK'
  BY DEF IInv, ThreadsOK
<1>6. FreedOK'
  BY DEF IInv, FreedOK
<1>. QED  BY <1>2, <1>3, <1>4, <1>5, <1>6 DEF IInv

LEMMA NextPortOK == IInv /\ pc \in {"in", "out"} /\ NextPort /\ UNCHANGED ports => IInv'
<1>. SUFFICES ASSUME IInv, pc \in {"in", "out"}, NextPort, UNCHANGED ports PROVE IInv'
  OBVIOUS
<1>1. p' \in Nat \ {0}
  BY DEF NextPort, IInv, PlaceOK
<1>. QED  BY <1>1, MoveOK DEF NextPort

(* What a table's entry becomes.                                           *)
LEMMA ActivateInStep ==
  ASSUME IInv, ActivateInPort
  PROVE  \/ Abort
         \/ /\ NextPort /\ UNCHANGED ports
            /\ Entry.in[p].name \notin YamlKernels[K(n)].in \/ Skips(Entry.in[p])
         \/ /\ NextPort
            /\ Entry.in[p].name \in DOMAIN ports[n].in /\ Entry.in[p].channel # "none"
            /\ ports' = [ports EXCEPT ![n].in[Entry.in[p].name] =
                           Activate(ports[n].in[Entry.in[p].name], Entry.in[p])]
BY DEF ActivateInPort, Refused, K, Entry

LEMMA ActivateInOK == IInv /\ ActivateInPort => IInv'
<1>. SUFFICES ASSUME IInv, ActivateInPort PROVE IInv'
  OBVIOUS
<1>. DEFINE r == Entry.in[p]
<1>1. pc = "in" /\ p \in 1..Len(Entry.in)
  BY EntryOK DEF ActivateInPort, IInv, PlaceOK
<1>2. n \in Made /\ r \in ListedPort /\ DOMAIN ports[n] = {"in", "out"}
  BY <1>1, EntryOK DEF IInv, PlaceOK
<1>3. CASE Abort
  BY <1>1, <1>3, AbortOK
<1>4. CASE NextPort /\ UNCHANGED ports
  BY <1>1, <1>4, NextPortOK
<1>5. CASE /\ NextPort /\ r.name \in DOMAIN ports[n].in /\ r.channel # "none"
           /\ ports' = [ports EXCEPT ![n].in[r.name] = Activate(ports[n].in[r.name], r)]
  <2>1. \A t \in DOMAIN ports[n].in : ports[n].in[t] \in PortRecord
    BY <1>2 DEF IInv, TypeOK
  <2>2. \A t \in DOMAIN ports[n].out : ports[n].out[t] \in PortRecord
    BY <1>2 DEF IInv, TypeOK
  <2>3. Activate(ports[n].in[r.name], r) \in PortRecord
    BY <1>2, <1>5, <2>1, Activated
  <2>4. /\ Made' = Made /\ \A i \in Made \ {n} : ports'[i] = ports[i]
        /\ DOMAIN ports'[n] = {"in", "out"} /\ ports'[n].out = ports[n].out
        /\ DOMAIN ports'[n].in = DOMAIN ports[n].in
        /\ ports'[n].in[r.name] = Activate(ports[n].in[r.name], r)
        /\ \A t \in DOMAIN ports[n].in : t # r.name => ports'[n].in[t] = ports[n].in[t]
    BY <1>2, <1>5, InTable
  <2>5. PortsTyped(ports'[n])
    BY <2>1, <2>2, <2>3, <2>4 DEF PortsTyped
  <2>. QED  BY <1>1, <1>5, <2>4, <2>5, TablesOK DEF NextPort, IInv, TypeOK
<1>. QED  BY <1>3, <1>4, <1>5, ActivateInStep
LEMMA ActivateOutStep ==
  ASSUME IInv, ActivateOutPort
  PROVE  \/ Abort
         \/ NextPort /\ UNCHANGED ports /\ Skips(Entry.out[p])
         \/ /\ NextPort
            /\ Entry.out[p].name \in DOMAIN ports[n].out /\ Entry.out[p].channel # "none"
            /\ PutOut(Entry.out[p].name, ActivateOut(ports[n].out[Entry.out[p].name], Entry.out[p]))
<1>1. n \in Made /\ DOMAIN ports[n] = {"in", "out"}
  BY DEF ActivateOutPort, IInv, PlaceOK
<1>2. \/ Abort
      \/ NextPort /\ UNCHANGED ports /\ Skips(Entry.out[p])
      \/ /\ NextPort
         /\ Entry.out[p].name \in DOMAIN ports[n].out /\ Entry.out[p].channel # "none"
         /\ ports' = [ports EXCEPT ![n].out[Entry.out[p].name] =
                        ActivateOut(ports[n].out[Entry.out[p].name], Entry.out[p])]
  BY DEF ActivateOutPort, Refused
<1>. QED  BY <1>1, <1>2, SetOut

(* An out-port is there after it was put there.                            *)
LEMMA PutOK ==
  ASSUME IInv, n \in Made, NEW x, NEW v \in PortRecord,
         PutOut(x, v)
  PROVE  /\ Made' = Made /\ \A i \in Made \ {n} : ports'[i] = ports[i]
         /\ ports'[n].in = ports[n].in
         /\ DOMAIN ports'[n].out = DOMAIN ports[n].out \cup {x}
         /\ ports'[n].out[x] = v
         /\ \A t \in DOMAIN ports[n].out : t # x => ports'[n].out[t] = ports[n].out[t]
         /\ PortsTyped(ports'[n])
<1>. DEFINE table == Put(ports[n].out, x, v)
<1>1. /\ DOMAIN table = DOMAIN ports[n].out \cup {x} /\ table[x] = v
      /\ \A t \in DOMAIN ports[n].out : t # x => table[t] = ports[n].out[t]
  BY DEF Put
<1>2. DOMAIN ports[n] = {"in", "out"} /\ ports' = [ports EXCEPT ![n].out = table]
  BY DEF IInv, PlaceOK, PutOut
<1>. HIDE DEF table
<1>3. /\ Made' = Made /\ \A i \in Made \ {n} : ports'[i] = ports[i]
      /\ DOMAIN ports'[n] = {"in", "out"} /\ ports'[n].in = ports[n].in
      /\ ports'[n].out = table
  BY <1>2, OutTable
<1>4. /\ \A t \in DOMAIN ports[n].in : ports[n].in[t] \in PortRecord
      /\ \A t \in DOMAIN ports[n].out : ports[n].out[t] \in PortRecord
  BY DEF IInv, TypeOK
<1>5. PortsTyped(ports'[n])
  BY <1>1, <1>3, <1>4 DEF PortsTyped
<1>. QED  BY <1>1, <1>3, <1>5

LEMMA ActivateOutOK == IInv /\ ActivateOutPort => IInv'
<1>. SUFFICES ASSUME IInv, ActivateOutPort PROVE IInv'
  OBVIOUS
<1>. DEFINE r == Entry.out[p]
<1>1. pc = "out" /\ p \in 1..Len(Entry.out)
  BY EntryOK DEF ActivateOutPort, IInv, PlaceOK
<1>2. n \in Made /\ r \in ListedPort
  BY <1>1, EntryOK DEF IInv
<1>3. CASE Abort
  BY <1>1, <1>3, AbortOK
<1>4. CASE NextPort /\ UNCHANGED ports
  BY <1>1, <1>4, NextPortOK
<1>5. CASE /\ NextPort /\ r.name \in DOMAIN ports[n].out /\ r.channel # "none"
           /\ PutOut(r.name, ActivateOut(ports[n].out[r.name], r))
  <2>1. ports[n].out[r.name] \in PortRecord
    BY <1>2, <1>5 DEF IInv, TypeOK
  <2>2. ActivateOut(ports[n].out[r.name], r) \in PortRecord
    BY <1>2, <1>5, <2>1, Activated
  <2>3. /\ Made' = Made /\ \A i \in Made \ {n} : ports'[i] = ports[i]
        /\ PortsTyped(ports'[n])
    BY <1>2, <1>5, <2>2, PutOK
  <2>. QED  BY <1>1, <1>5, <2>3, TablesOK DEF NextPort, IInv, TypeOK
<1>. QED  BY <1>3, <1>4, <1>5, ActivateOutStep

(* The duplicate of a port has its type and (de)serializer.                *)
LEMMA Duplicated ==
  ASSUME NEW r, NEW port \in PortRecord, ports[n].out[r.dup] = port
  PROVE  LET d == [DuplicateOf(r) EXCEPT !.sem = "BLOCKING"]
         IN  /\ d \in PortRecord
             /\ d.type = port.type /\ d.coder = port.coder /\ d.channel = "inactive"
BY DEF DuplicateOf, Registered, PortRecord

LEMMA DuplicateStep ==
  ASSUME IInv, DuplicateOutPort
  PROVE  \/ Abort
         \/ /\ NextPort /\ UNCHANGED ports
            /\ Entry.out[p].dup \notin YamlKernels[K(n)].dup \/ Skips(Entry.out[p])
         \/ \E d \in PortRecord :
              LET r == Entry.out[p] IN
              /\ r.dup \in YamlKernels[K(n)].dup /\ r.dup \in DOMAIN ports[n].out
              /\ r.channel # "none"
              /\ d.channel = r.channel
              /\ r.channel \in Local => d.sem = r.sem
              /\ d.type = ports[n].out[r.dup].type /\ d.coder = ports[n].out[r.dup].coder
              /\ PutOut(r.name, d)
              /\ dups' = [dups EXCEPT ![n] = Append(@, <<r.dup, r.name>>)]
              /\ p' = p + 1
              /\ UNCHANGED <<recipe, pc, n, kernelMap, singles, links, thread, freed>>
<1>. DEFINE r == Entry.out[p]
            a == [DuplicateOf(r) EXCEPT !.sem = "BLOCKING"]
            d == ActivateOut(a, r)
<1>1. pc = "out" /\ p \in 1..Len(Entry.out)
  BY EntryOK DEF DuplicateOutPort, IInv, PlaceOK
<1>2. n \in Made /\ r \in ListedPort
  BY <1>1, EntryOK DEF IInv
<1>3. \/ Abort
      \/ NextPort /\ UNCHANGED ports /\ (r.dup \notin YamlKernels[K(n)].dup \/ Skips(r))
      \/ /\ r.dup \in YamlKernels[K(n)].dup /\ r.dup \in DOMAIN ports[n].out
         /\ ~Skips(r)
         /\ PutOut(r.name, d)
         /\ dups' = [dups EXCEPT ![n] = Append(@, <<r.dup, r.name>>)]
         /\ p' = p + 1
         /\ UNCHANGED <<recipe, pc, n, kernelMap, singles, links, thread, freed>>
  BY DEF DuplicateOutPort, K, Entry, PutOut
<1>4. ASSUME r.dup \in YamlKernels[K(n)].dup, r.dup \in DOMAIN ports[n].out, ~Skips(r)
      PROVE  /\ d \in PortRecord /\ r.channel # "none" /\ d.channel = r.channel
             /\ r.channel \in Local => d.sem = r.sem
             /\ d.type = ports[n].out[r.dup].type /\ d.coder = ports[n].out[r.dup].coder
  <2>1. ports[n].out[r.dup] \in PortRecord
    BY <1>2, <1>4 DEF IInv, TypeOK
  <2>2. /\ a \in PortRecord /\ a.channel = "inactive"
        /\ a.type = ports[n].out[r.dup].type /\ a.coder = ports[n].out[r.dup].coder
    BY <2>1, Duplicated
  <2>3. r.channel # "none"
    BY <1>2, <1>4, CatalogFacts DEF Skips, IInv, PlaceOK, K, Entry
  <2>. HIDE DEF a
  <2>. QED  BY <1>2, <2>2, <2>3, Activated
<1>. HIDE DEF d
<1>. QED  BY <1>3, <1>4

LEMMA DuplicateOK == IInv /\ DuplicateOutPort => IInv'
<1>. SUFFICES ASSUME IInv, DuplicateOutPort PROVE IInv'
  OBVIOUS
<1>. DEFINE r == Entry.out[p]
<1>1. pc = "out" /\ n \in Made
  BY DEF DuplicateOutPort, IInv, PlaceOK
<1>2. CASE Abort
  BY <1>1, <1>2, AbortOK
<1>3. CASE NextPort /\ UNCHANGED ports
  BY <1>1, <1>3, NextPortOK
<1>4. ASSUME NEW d \in PortRecord, PutOut(r.name, d),
             dups' = [dups EXCEPT ![n] = Append(@, <<r.dup, r.name>>)], p' = p + 1,
             UNCHANGED <<recipe, pc, n, kernelMap, singles, links, thread, freed>>
      PROVE  IInv'
  <2>1. /\ Made' = Made /\ \A i \in Made \ {n} : ports'[i] = ports[i]
        /\ PortsTyped(ports'[n])
    BY <1>1, <1>4, PutOK
  <2>2. DOMAIN dups' = Made
    BY <1>4 DEF IInv, TypeOK
  <2>. QED  BY <1>1, <1>4, <2>1, <2>2, TablesOK
<1>. QED  BY <1>2, <1>3, <1>4, DuplicateStep
(* A kernel is made.                                                       *)
LEMMA RegisteredOK ==
  ASSUME NEW table, Typed(table)
  PROVE  /\ DOMAIN RegisterAll(table) = DOMAIN table
         /\ \A t \in DOMAIN table :
              /\ RegisterAll(table)[t] \in PortRecord
              /\ RegisterAll(table)[t].channel = "inactive"
              /\ RegisterAll(table)[t].type = table[t].type
              /\ RegisterAll(table)[t].coder = table[t].coder
BY DEF RegisterAll, Registered, Typed, PortRecord

LEMMA InPortsOK ==
  ASSUME NEW e, e.kernel \in DOMAIN Kernels
  PROVE  /\ Typed(InPorts(e))
         /\ DOMAIN InPorts(e) \subseteq YamlKernels[e.kernel].in
         /\ (e.kernel = "OrbSlamPoseEstimator" => e.sensor = "mono_inertial")
              => InPorts(e) = Kernels[e.kernel].in
<1>1. CASE e.kernel = "OrbSlamPoseEstimator" /\ e.sensor # "mono_inertial"
  <2>1. /\ DOMAIN InPorts(e) \subseteq {"in_frame"}
        /\ \A t \in DOMAIN InPorts(e) : InPorts(e)[t] = In("frame")
    BY <1>1 DEF InPorts, OrbSlamPoseEstimator, Kernel
  <2>2. YamlKernels[e.kernel].in = {"in_frame", "in_imus"}
    BY <1>1 DEF YamlKernels, YamlOrbSlamPoseEstimator, Yaml
  <2>. QED  BY <1>1, <2>1, <2>2, PortFields DEF Typed, In
<1>2. CASE ~(e.kernel = "OrbSlamPoseEstimator" /\ e.sensor # "mono_inertial")
  BY <1>2, CatalogFacts DEF InPorts
<1>. QED  BY <1>1, <1>2

LEMMA MadeStep ==
  ASSUME IInv, InitKernel, Entry.kernel \in DOMAIN Kernels, ~Abort
  PROVE  /\ pc = "init" /\ n \in 1..Len(recipe.entries) /\ n \notin Made
         /\ Made' = Made \cup {n}
         /\ \A i \in Made : /\ ports'[i] = ports[i] /\ dups'[i] = dups[i]
                            /\ thread'[i] = thread[i] /\ freed'[i] = freed[i]
         /\ ports'[n] = [in |-> RegisterAll(InPorts(Entry)),
                         out |-> RegisterAll(Kernels[Entry.kernel].out)]
         /\ dups'[n] = << >> /\ thread'[n] = "idle" /\ freed'[n] = 0
         /\ DOMAIN dups' = Made' /\ DOMAIN thread' = Made' /\ DOMAIN freed' = Made'
         /\ pc' = "in" /\ p' = 1
         /\ UNCHANGED <<recipe, n, kernelMap, singles, links>>
         /\ YamlKernels[Entry.kernel].others \subseteq Entry.others
<1>1. /\ pc = "init" /\ n \in 1..Len(recipe.entries) /\ n \notin Made
  BY Entries DEF InitKernel, IInv, PlaceOK
<1>. DEFINE new == [in |-> RegisterAll(InPorts(Entry)),
                     out |-> RegisterAll(Kernels[Entry.kernel].out)]
<1>2. /\ ports' = Put(ports, n, new)
      /\ dups' = Put(dups, n, << >>)
      /\ thread' = Put(thread, n, "idle") /\ freed' = Put(freed, n, 0)
      /\ pc' = "in" /\ p' = 1
      /\ UNCHANGED <<recipe, n, kernelMap, singles, links>>
      /\ YamlKernels[Entry.kernel].others \subseteq Entry.others
  BY DEF InitKernel
<1>3. DOMAIN dups = Made /\ DOMAIN thread = Made /\ DOMAIN freed = Made
  BY DEF IInv, TypeOK
<1>. HIDE DEF new
<1>5. /\ Made' = Made \cup {n} /\ ports'[n] = new
      /\ \A i \in Made : ports'[i] = ports[i]
  BY <1>1, <1>2 DEF Made, Put
<1>6. /\ DOMAIN dups' = Made \cup {n} /\ dups'[n] = << >>
      /\ \A i \in Made : dups'[i] = dups[i]
  BY <1>1, <1>2, <1>3 DEF Put
<1>7. /\ DOMAIN thread' = Made \cup {n} /\ thread'[n] = "idle"
      /\ \A i \in Made : thread'[i] = thread[i]
  BY <1>1, <1>2, <1>3 DEF Put
<1>8. /\ DOMAIN freed' = Made \cup {n} /\ freed'[n] = 0
      /\ \A i \in Made : freed'[i] = freed[i]
  BY <1>1, <1>2, <1>3 DEF Put
<1>. QED  BY <1>1, <1>2, <1>5, <1>6, <1>7, <1>8 DEF new

LEMMA InitKernelOK == IInv /\ InitKernel => IInv'
<1>. SUFFICES ASSUME IInv, InitKernel PROVE IInv'
  OBVIOUS
<1>1. CASE Abort
  BY <1>1, AbortOK DEF InitKernel
<1>2. CASE Entry.kernel \notin DOMAIN Kernels
  <2>1. /\ n' = n + 1 /\ pc' = pc /\ pc = "init"
        /\ UNCHANGED <<recipe, p, ports, dups, kernelMap, singles, links, thread, freed>>
    BY <1>2 DEF InitKernel
  <2>2. TypeOK'
    BY <2>1 DEF IInv, TypeOK, Made, PortRecord
  <2>3. PlaceOK'
    <3>1. n \in Nat \ {0} /\ \A i \in Made : i < n /\ i \in Nat
      BY <2>1, Entries DEF IInv, PlaceOK, TypeOK
    <3>. QED  BY <2>1, <3>1 DEF IInv, PlaceOK, Made, K
  <2>4. KeptOK'
    BY <2>1 DEF IInv, KeptOK, Kept, Single, Made
  <2>5. ThreadsOK' /\ FreedOK'
    BY <2>1 DEF IInv, ThreadsOK, FreedOK, Made, K, Single
  <2>. QED  BY <2>2, <2>3, <2>4, <2>5 DEF IInv
<1>3. CASE Entry.kernel \in DOMAIN Kernels /\ ~Abort
  <2>1. /\ pc = "init" /\ n \in 1..Len(recipe.entries) /\ n \notin Made
        /\ Made' = Made \cup {n}
        /\ \A i \in Made : /\ ports'[i] = ports[i]
                           /\ thread'[i] = thread[i] /\ freed'[i] = freed[i]
        /\ ports'[n] = [in |-> RegisterAll(InPorts(Entry)),
                        out |-> RegisterAll(Kernels[Entry.kernel].out)]
        /\ thread'[n] = "idle" /\ freed'[n] = 0
        /\ DOMAIN dups' = Made' /\ DOMAIN thread' = Made' /\ DOMAIN freed' = Made'
        /\ pc' = "in" /\ p' = 1
        /\ UNCHANGED <<recipe, n, kernelMap, singles, links>>
    BY <1>3, MadeStep
  <2>2. PortsTyped(ports'[n])
    <3>1. Typed(InPorts(Entry)) /\ Typed(Kernels[Entry.kernel].out)
      BY <1>3, InPortsOK, CatalogFacts
    <3>2. /\ \A t \in DOMAIN RegisterAll(InPorts(Entry)) :
               RegisterAll(InPorts(Entry))[t] \in PortRecord
          /\ \A t \in DOMAIN RegisterAll(Kernels[Entry.kernel].out) :
               RegisterAll(Kernels[Entry.kernel].out)[t] \in PortRecord
      BY <3>1, RegisteredOK
    <3>. QED  BY <2>1, <3>2 DEF PortsTyped
  <2>3. TypeOK'
    <3>1. \A i \in Made : PortsTyped(ports[i])
      BY DEF IInv, TypeOK, PlaceOK, PortsTyped
    <3>2. \A i \in Made' : PortsTyped(ports'[i])
      BY <2>1, <2>2, <3>1
    <3>. QED  BY <2>1, <3>2 DEF IInv, TypeOK, PortsTyped, PortRecord
  <2>4. PlaceOK'
    BY <1>3, <2>1, <2>2 DEF IInv, PlaceOK, K, Entry, PortsTyped
  <2>5. KeptOK'
    BY <2>1 DEF IInv, KeptOK, Kept, Single
  <2>6. ThreadsOK'
    BY <2>1 DEF IInv, ThreadsOK
  <2>7. FreedOK'
    BY <2>1 DEF IInv, FreedOK
  <2>. QED  BY <2>3, <2>4, <2>5, <2>6, <2>7 DEF IInv
<1>. QED  BY <1>1, <1>2, <1>3
(* A kernel is kept.                                                       *)
LEMMA KeepStep ==
  ASSUME IInv, KeepKernel
  PROVE  /\ pc = "out" /\ pc' = "init" /\ n' = n + 1
         /\ UNCHANGED <<recipe, p, ports, dups, links, thread, freed>>
         /\ Made' = Made /\ n \in Made /\ n \in 1..Len(recipe.entries)
         /\ Single(n) => /\ kernelMap' = kernelMap /\ singles' \in Seq(Nat)
                         /\ ToSet(singles') = ToSet(singles) \cup {n}
         /\ ~Single(n) =>
              /\ singles' = singles
              /\ DOMAIN kernelMap' = DOMAIN kernelMap \cup {recipe.entries[n].id}
              /\ kernelMap'[recipe.entries[n].id] = n
              /\ \A id \in DOMAIN kernelMap :
                   id # recipe.entries[n].id => kernelMap'[id] = kernelMap[id]
<1>1. /\ pc = "out" /\ pc' = "init" /\ n' = n + 1
      /\ UNCHANGED <<recipe, p, ports, dups, links, thread, freed>>
  BY DEF KeepKernel
<1>2. n \in Made /\ n \in 1..Len(recipe.entries) /\ n \in Nat /\ singles \in Seq(Nat)
  BY <1>1 DEF IInv, PlaceOK, TypeOK
<1>3. CASE Single(n)
  <2>1. kernelMap' = kernelMap /\ singles' = Append(singles, n)
    BY <1>3 DEF KeepKernel, Single, Entry
  <2>2. /\ singles' \in Seq(Nat) /\ DOMAIN singles' = 1..(Len(singles) + 1)
        /\ DOMAIN singles = 1..Len(singles) /\ Len(singles) \in Nat
        /\ singles'[Len(singles) + 1] = n
        /\ \A j \in 1..Len(singles) : singles'[j] = singles[j]
    BY <1>2, <2>1, AppendProperties, LenProperties
  <2>3. ToSet(singles') = ToSet(singles) \cup {n}
    BY <2>2 DEF ToSet
  <2>. QED  BY <1>1, <1>2, <1>3, <2>1, <2>2, <2>3 DEF Made
<1>4. CASE ~Single(n)
  <2>1. singles' = singles /\ kernelMap' = Put(kernelMap, recipe.entries[n].id, n)
    BY <1>4 DEF KeepKernel, Single, Entry
  <2>. QED  BY <1>1, <1>2, <1>4, <2>1 DEF Put, Made
<1>. QED  BY <1>3, <1>4

LEMMA KeepOK == IInv /\ KeepKernel => IInv'
<1>. SUFFICES ASSUME IInv, KeepKernel PROVE IInv'
  OBVIOUS
<1>1. /\ pc = "out" /\ pc' = "init" /\ n' = n + 1
      /\ UNCHANGED <<recipe, p, ports, dups, links, thread, freed>>
      /\ Made' = Made /\ n \in Made /\ n \in 1..Len(recipe.entries)
  BY KeepStep
<1>2. n \in Nat \ {0} /\ \A i \in Made : i <= n /\ i \in Nat
  BY Entries DEF IInv, PlaceOK, TypeOK
<1>3. CASE Single(n)
  <2>1. /\ kernelMap' = kernelMap /\ singles' \in Seq(Nat)
        /\ ToSet(singles') = ToSet(singles) \cup {n}
    BY <1>3, KeepStep
  <2>2. TypeOK'
    BY <1>1, <2>1 DEF IInv, TypeOK, PortRecord
  <2>3. PlaceOK'
    <3>1. PlaceOK
      BY DEF IInv
    <3>2. \A i \in Made : i < n'
      BY <1>1, <1>2
    <3>3. /\ recipe' \in Recipes /\ n' \in Nat \ {0} /\ p' \in Nat \ {0} /\ singles' \in Seq(Nat)
          /\ pc' = "init"
      BY <1>1, <1>2, <2>1, <3>1 DEF PlaceOK
    <3>4. \A i \in Made : DOMAIN ports'[i] = {"in", "out"} /\ K(i)' \in DOMAIN Kernels
      BY <1>1, <3>1 DEF PlaceOK, K
    <3>5. \A i \in Made : i <= n'
      BY <1>1, <1>2
    <3>. QED  BY <1>1, <3>2, <3>3, <3>4, <3>5 DEF PlaceOK
  <2>4. KeptOK'
    <3>1. \A i \in Made : Single(i)' = Single(i)
      BY <1>1 DEF Single
    <3>2. \A i \in Made : i = n \/ Kept(i)
      BY <1>1 DEF IInv, KeptOK
    <3>3. \A i \in Made : Kept(i)'
      BY <1>1, <1>3, <2>1, <3>1, <3>2 DEF Kept
    <3>. QED  BY <1>1, <1>3, <2>1, <3>1, <3>3 DEF IInv, KeptOK
  <2>5. ThreadsOK' /\ FreedOK'
    BY <1>1 DEF IInv, ThreadsOK, FreedOK
  <2>. QED  BY <2>2, <2>3, <2>4, <2>5 DEF IInv
<1>4. CASE ~Single(n)
  <2>. DEFINE id == recipe.entries[n].id
  <2>1. /\ singles' = singles
        /\ DOMAIN kernelMap' = DOMAIN kernelMap \cup {id} /\ kernelMap'[id] = n
        /\ \A x \in DOMAIN kernelMap : x # id => kernelMap'[x] = kernelMap[x]
    BY <1>4, KeepStep
  <2>2. TypeOK'
    <3>1. {kernelMap'[x] : x \in DOMAIN kernelMap'} \subseteq Made
      BY <1>1, <2>1 DEF IInv, TypeOK
    <3>. QED  BY <1>1, <2>1, <3>1 DEF IInv, TypeOK, PortRecord
  <2>3. PlaceOK'
    BY <1>1, <1>2, <2>1 DEF IInv, PlaceOK, K
  <2>4. KeptOK'
    <3>1. \A i \in Made : Single(i)' = Single(i)
      BY <1>1 DEF Single
    <3>2. \A i \in Made : i = n \/ Kept(i)
      BY <1>1 DEF IInv, KeptOK
    <3>3. \A i \in Made : Kept(i)'
      BY <1>1, <1>2, <1>4, <2>1, <3>1, <3>2 DEF Kept
    <3>4. \A x \in DOMAIN kernelMap' :
            /\ kernelMap'[x] \in Made' /\ ~Single(kernelMap'[x])
            /\ recipe.entries[kernelMap'[x]].id = x
      BY <1>1, <1>4, <2>1 DEF IInv, KeptOK
    <3>5. \A x \in DOMAIN kernelMap' : ~Single(kernelMap[x])'
      BY <1>1, <3>4 DEF Single
    <3>. QED  BY <1>1, <2>1, <3>1, <3>3, <3>4, <3>5 DEF IInv, KeptOK
  <2>5. ThreadsOK' /\ FreedOK'
    BY <1>1 DEF IInv, ThreadsOK, FreedOK
  <2>. QED  BY <2>2, <2>3, <2>4, <2>5 DEF IInv
<1>. QED  BY <1>3, <1>4

(* A thread starts, or has come to its end.                                *)
LEMMA RunOK ==
  ASSUME IInv, UNCHANGED <<recipe, n, ports, dups, kernelMap, singles, links, freed>>,
         p' \in Nat \ {0}, pc \in {"spawn", "exe", "join"},
         pc' = pc \/ (pc = "spawn" /\ pc' = "exe"),
         DOMAIN thread' = Made,
         \A i \in Made : \/ thread'[i] = "ended" \/ thread'[i] = thread[i]
                         \/ thread'[i] = "endless" /\ thread[i] = "running"
                         \/ thread'[i] = "running" /\ i \in ToSet(singles)
                         \/ thread'[i] = "running" /\ pc' = "exe" /\ i \in InPipeline
  PROVE  IInv'
<1>1. Made' = Made /\ InPipeline' = InPipeline
  BY DEF Made, InPipeline
<1>2. TypeOK'
  BY <1>1 DEF IInv, TypeOK, PortRecord
<1>3. PlaceOK'
  BY <1>1 DEF IInv, PlaceOK, K
<1>4. KeptOK'
  BY <1>1 DEF IInv, KeptOK, Kept, Single
<1>5. ThreadsOK'
  BY <1>1 DEF IInv, ThreadsOK
<1>6. FreedOK'
  BY <1>1 DEF IInv, FreedOK
<1>. QED  BY <1>2, <1>3, <1>4, <1>5, <1>6 DEF IInv

(* The kernels of the map are those no later kernel has replaced.          *)
LEMMA MappedOK ==
  ASSUME IInv, pc = "free", p = 1, NEW i \in Made
  PROVE  i \in Mapped <=> ~Single(i) /\ ~Replaced(i)
<1>1. \A j \in Made : j \in Nat /\ Kept(j)
  BY DEF IInv, KeptOK, TypeOK
<1>2. \A id \in DOMAIN kernelMap : /\ kernelMap[id] \in Made /\ ~Single(kernelMap[id])
                                   /\ recipe.entries[kernelMap[id]].id = id
  BY DEF IInv, KeptOK
<1>3. ASSUME i \in Mapped PROVE ~Single(i) /\ ~Replaced(i)
  <2>1. PICK id \in DOMAIN kernelMap : i = kernelMap[id]
    BY <1>3 DEF Mapped
  <2>2. ~Single(i) /\ recipe.entries[i].id = id
    BY <1>2, <2>1
  <2>3. ASSUME NEW j \in Made, recipe.entries[j].id = id, ~Single(j) PROVE j <= i
    BY <1>1, <2>1, <2>3 DEF Kept
  <2>. QED  BY <1>1, <2>2, <2>3 DEF Replaced, Single
<1>4. ASSUME ~Single(i), i \notin Mapped PROVE Replaced(i)
  <2>. DEFINE j == kernelMap[recipe.entries[i].id]
  <2>1. recipe.entries[i].id \in DOMAIN kernelMap /\ i <= j
    BY <1>1, <1>4 DEF Kept
  <2>2. j \in Made /\ ~Single(j) /\ recipe.entries[j].id = recipe.entries[i].id /\ i # j
    BY <1>2, <1>4, <2>1 DEF Mapped
  <2>. QED  BY <1>1, <1>4, <2>1, <2>2 DEF Replaced, Single
<1>. QED  BY <1>3, <1>4
LEMMA RemoveMapOK == IInv /\ RemoveKernelMap => IInv'
<1>. SUFFICES ASSUME IInv, RemoveKernelMap PROVE IInv'
  OBVIOUS
<1>1. /\ pc = "free" /\ p = 1 /\ p' = 2 /\ DOMAIN kernelMap' = {}
      /\ freed' = [i \in Made |-> IF i \in Mapped /\ K(i) \in Destroyable
                                  THEN freed[i] + 1 ELSE freed[i]]
      /\ UNCHANGED <<recipe, pc, n, ports, dups, singles, links, thread>>
      /\ Made' = Made
  BY DEF RemoveKernelMap, Destroy, Mapped, K, NoMap, Made
<1>2. \A i \in Made : freed[i] = 0
  BY <1>1 DEF IInv, FreedOK
<1>3. DOMAIN freed' = Made /\ \A i \in Made : freed'[i] \in {0, 1}
  BY <1>1, <1>2
<1>4. TypeOK'
  BY <1>1, <1>3 DEF IInv, TypeOK, PortRecord
<1>5. PlaceOK'
  BY <1>1 DEF IInv, PlaceOK, K
<1>6. KeptOK'
  BY <1>1 DEF IInv, KeptOK, Kept, Single
<1>7. ThreadsOK'
  BY <1>1 DEF IInv, ThreadsOK
<1>8. FreedOK'
  <2>1. \A i \in Made : /\ Replaced(i)' = Replaced(i) /\ Single(i)' = Single(i)
                        /\ K(i)' = K(i)
    BY <1>1 DEF Replaced, Single, K
  <2>2. \A i \in Made : freed'[i] = 1 <=> K(i) \in Destroyable /\ ~Single(i) /\ ~Replaced(i)
    BY <1>1, <1>2, MappedOK
  <2>. QED  BY <1>1, <1>3, <2>1, <2>2 DEF FreedOK
<1>. QED  BY <1>4, <1>5, <1>6, <1>7, <1>8 DEF IInv

LEMMA RemoveVectorOK == IInv /\ RemoveSingleKernelVector => IInv'
<1>. SUFFICES ASSUME IInv, RemoveSingleKernelVector PROVE IInv'
  OBVIOUS
<1>1. /\ pc = "free" /\ p = 2 /\ pc' = "done" /\ singles' = << >>
      /\ freed' = [i \in Made |-> IF i \in ToSet(singles) /\ K(i) \in Destroyable
                                  THEN freed[i] + 1 ELSE freed[i]]
      /\ UNCHANGED <<recipe, n, p, ports, dups, kernelMap, links, thread>>
      /\ Made' = Made
  BY DEF RemoveSingleKernelVector, Destroy, K, Made
<1>2. \A i \in Made : /\ i \in ToSet(singles) <=> Single(i)
                      /\ freed[i] \in {0, 1}
                      /\ freed[i] = 1 <=> K(i) \in Destroyable /\ ~Single(i) /\ ~Replaced(i)
  BY <1>1 DEF IInv, KeptOK, FreedOK
<1>3. \A i \in Made : Replaced(i) => ~Single(i)
  BY DEF Replaced, Single
<1>4. /\ DOMAIN freed' = Made /\ \A i \in Made : freed'[i] \in {0, 1}
      /\ \A i \in Made : freed'[i] = 1 <=> K(i) \in Destroyable /\ ~Replaced(i)
  BY <1>1, <1>2, <1>3
<1>5. singles' \in Seq(Nat) /\ ToSet(singles') = {}
  BY <1>1, EmptySeq DEF ToSet
<1>6. TypeOK'
  BY <1>1, <1>4, <1>5 DEF IInv, TypeOK, PortRecord
<1>7. PlaceOK'
  BY <1>1, <1>5 DEF IInv, PlaceOK, K
<1>8. KeptOK'
  BY <1>1, <1>5 DEF IInv, KeptOK, Kept, Single
<1>9. ThreadsOK'
  BY <1>1 DEF IInv, ThreadsOK
<1>10. FreedOK'
  <2>1. \A i \in Made : Replaced(i)' = Replaced(i) /\ K(i)' = K(i)
    BY <1>1 DEF Replaced, K
  <2>. QED  BY <1>1, <1>4, <2>1 DEF FreedOK
<1>. QED  BY <1>6, <1>7, <1>8, <1>9, <1>10 DEF IInv

LEMMA StepOK == IInv /\ [Next]_vars => IInv'
<1>. SUFFICES ASSUME IInv, [Next]_vars PROVE IInv'
  OBVIOUS
<1>1. p \in Nat \ {0} /\ p + 1 \in Nat \ {0}
  BY DEF IInv, PlaceOK
<1>2. CASE InPortsDone \/ ParseConnections \/ LinksDone
  <2>1. CASE InPortsDone
    <3>1. /\ pc = "in" /\ pc' = "out" /\ p' = 1
          /\ UNCHANGED <<recipe, n, ports, dups, kernelMap, singles, links, thread, freed>>
      BY <2>1 DEF InPortsDone
    <3>. QED  BY <3>1, MoveOK
  <2>2. CASE ParseConnections
    BY <2>2, MoveOK DEF ParseConnections
  <2>3. CASE LinksDone
    BY <2>3, MoveOK DEF LinksDone
  <2>. QED  BY <1>2, <2>1, <2>2, <2>3
<1>3. CASE Link
  <2>1. CASE Abort
    BY <1>3, <2>1, AbortOK DEF Link
  <2>2. CASE ~Abort
    <3>1. /\ UNCHANGED <<recipe, pc, n, ports, dups, kernelMap, singles, thread, freed>>
          /\ p' = p + 1 /\ pc = "link"
      BY <1>3, <2>2 DEF Link
    <3>2. TypeOK'
      BY <3>1 DEF IInv, TypeOK, Made, PortRecord
    <3>3. PlaceOK'
      BY <1>1, <3>1 DEF IInv, PlaceOK, Made, K
    <3>4. KeptOK'
      BY <3>1 DEF IInv, KeptOK, Kept, Single, Made
    <3>5. ThreadsOK' /\ FreedOK'
      BY <3>1 DEF IInv, ThreadsOK, FreedOK, Made
    <3>. QED  BY <3>2, <3>3, <3>4, <3>5 DEF IInv
  <2>. QED  BY <2>1, <2>2
<1>4. CASE SpawnSingle
  <2>1. /\ pc = "spawn" /\ p \in 1..Len(singles) /\ p' = p + 1
        /\ thread' = [thread EXCEPT ![singles[p]] = "running"]
        /\ UNCHANGED <<recipe, pc, n, ports, dups, kernelMap, singles, links, freed>>
    BY <1>1, <1>4, LenProperties DEF SpawnSingle, IInv, PlaceOK
  <2>2. singles[p] \in ToSet(singles)
    BY <2>1, LenProperties DEF ToSet, IInv, PlaceOK
  <2>. QED  BY <1>1, <2>1, <2>2, RunOK DEF IInv, TypeOK
<1>5. CASE Exe
  <2>1. CASE Abort
    BY <1>5, <2>1, AbortOK DEF Exe
  <2>2. CASE ~Abort
    <3>1. /\ pc = "spawn" /\ pc' = "exe"
          /\ thread' = [i \in Made |-> IF i \in InPipeline THEN "running" ELSE thread[i]]
          /\ UNCHANGED <<recipe, n, p, ports, dups, kernelMap, singles, links, freed>>
      BY <1>5, <2>2 DEF Exe
    <3>. QED  BY <1>1, <3>1, RunOK
  <2>. QED  BY <2>1, <2>2
<1>6. CASE ExeReturns
  BY <1>6, MoveOK DEF ExeReturns
<1>7. CASE Join
  <2>1. \A i \in ToSet(singles) : thread[i] = "ended"
    BY <1>7, LenProperties DEF Join, ToSet, IInv, PlaceOK
  <2>. QED  BY <1>7, <2>1, MoveOK DEF Join
<1>8. ASSUME NEW i \in Made, Crash(i) PROVE IInv'
  BY <1>8, AbortOK DEF Crash, Runs
<1>9. ASSUME NEW i \in Made, Stop(i) \/ NeverEnd(i) PROVE IInv'
  <2>1. /\ pc \in {"spawn", "exe", "join"} /\ thread[i] = "running"
        /\ \E v \in {"ended", "endless"} : thread' = [thread EXCEPT ![i] = v]
        /\ UNCHANGED <<recipe, pc, n, p, ports, dups, kernelMap, singles, links, freed>>
    BY <1>9 DEF Stop, NeverEnd, Runs
  <2>. QED  BY <1>1, <2>1, RunOK DEF IInv, TypeOK
<1>10. CASE UNCHANGED vars
  <2>1. TypeOK'
    BY <1>10 DEF IInv, TypeOK, Made, PortRecord, vars
  <2>2. PlaceOK'
    BY <1>10 DEF IInv, PlaceOK, Made, K, vars
  <2>3. KeptOK'
    BY <1>10 DEF IInv, KeptOK, Kept, Single, Made, vars
  <2>4. ThreadsOK'
    BY <1>10 DEF IInv, ThreadsOK, Made, InPipeline, vars
  <2>5. FreedOK'
    BY <1>10 DEF IInv, FreedOK, Made, K, Single, Replaced, vars
  <2>. QED  BY <2>1, <2>2, <2>3, <2>4, <2>5 DEF IInv
<1>. QED  BY <1>2, <1>3, <1>4, <1>5, <1>6, <1>7, <1>8, <1>9, <1>10,
             InitKernelOK, ActivateInOK, ActivateOutOK, DuplicateOK, KeepOK,
             RemoveMapOK, RemoveVectorOK DEF Next, Main

(* What main has made, kept, started and destroyed, for all recipes.       *)
THEOREM Invariance == Spec => []IInv
BY InitOK, StepOK, PTL DEF Spec

(* The tables of the made kernels go together.                             *)
THEOREM TypeCorrect == Spec => []TypeOK
<1>1. IInv => TypeOK
  BY DEF IInv
<1>. QED  BY <1>1, Invariance, PTL

(* Whatever ids, order and attributes a recipe has, no kernel is destroyed *)
(* while it runs, or twice, and those that are never destroyed are those   *)
(* of one class and those that lost their place in the map.                *)
THEOREM KernelsDestroyedOnce == Spec => []DestroyedOnce
<1>1. IInv => DestroyedOnce
  <2>. SUFFICES ASSUME IInv PROVE DestroyedOnce
    OBVIOUS
  <2>1. \A i \in Made : freed[i] <= 1 /\ (freed[i] = 1 => thread[i] \notin {"running", "endless"})
    BY DEF IInv, FreedOK, ThreadsOK
  <2>2. ASSUME pc = "done", NEW i \in Made
        PROVE  freed[i] = 0 <=> K(i) = "Cv2GlRgbDisplay" \/ Replaced(i)
    BY <2>2 DEF IInv, FreedOK, PlaceOK, Destroyable
  <2>. QED  BY <2>1, <2>2 DEF DestroyedOnce, K
<1>. QED  BY <1>1, Invariance, PTL
-----------------------------------------------------------------------------
(* The entries for ports of kernel i that main has been through.           *)
InsDone(i)  == IF i = n /\ pc = "in" THEN p - 1 ELSE Len(recipe.entries[i].in)
OutsDone(i) == IF i = n /\ pc = "in" THEN 0
               ELSE IF i = n /\ pc = "out" THEN p - 1 ELSE Len(recipe.entries[i].out)

(* A kernel has the in-ports its constructor registered, and besides its   *)
(* own out-ports the duplicates of them, with their type and serializer.   *)
Class(i) == Kernels[K(i)].out
DupNames(i) == {d[2] : d \in ToSet(dups[i])}
Registry(i) ==
  /\ DOMAIN ports[i].in = DOMAIN InPorts(recipe.entries[i])
  /\ \A t \in DOMAIN ports[i].in : ports[i].in[t].type = InPorts(recipe.entries[i])[t].type
  /\ DOMAIN ports[i].out = DOMAIN Class(i) \cup DupNames(i)
  /\ \A t \in DOMAIN Class(i) : /\ ports[i].out[t].type = Class(i)[t].type
                                /\ ports[i].out[t].coder = Class(i)[t].coder
DupOK(i, d) ==
  /\ d[1] \in DOMAIN Class(i) \cap YamlKernels[K(i)].dup /\ d[2] \notin DOMAIN Class(i)
  /\ \E j \in 1..OutsDone(i) : /\ recipe.entries[i].out[j].name = d[2]
                               /\ recipe.entries[i].out[j].dup = d[1]
  /\ Distinct(Names(recipe.entries[i].out)) =>
       /\ ports[i].out[d[2]].type = Class(i)[d[1]].type
       /\ ports[i].out[d[2]].coder = Class(i)[d[1]].coder
BoundsOK == /\ pc = "in" => p <= Len(Entry.in) + 1
            /\ pc = "out" => p <= Len(Entry.out) + 1
KernelOK(i) == /\ dups[i] \in Seq(STRING \X STRING) /\ Registry(i)
               /\ \A d \in ToSet(dups[i]) : DupOK(i, d)
RegistryOK == BoundsOK /\ \A i \in Made : KernelOK(i)

LEMMA DoneOK ==
  ASSUME IInv, BoundsOK, NEW i \in Made
  PROVE  /\ InsDone(i) \in Nat /\ InsDone(i) <= Len(recipe.entries[i].in)
         /\ OutsDone(i) \in Nat /\ OutsDone(i) <= Len(recipe.entries[i].out)
         /\ Len(recipe.entries[i].in) \in Nat /\ Len(recipe.entries[i].out) \in Nat
<1>1. recipe \in Recipes /\ i \in 1..Len(recipe.entries) /\ p \in Nat \ {0}
  BY DEF IInv, TypeOK, PlaceOK
<1>2. Len(recipe.entries[i].in) \in Nat /\ Len(recipe.entries[i].out) \in Nat
  BY <1>1, Entries, ListedPorts
<1>. QED  BY <1>1, <1>2 DEF InsDone, OutsDone, BoundsOK, Entry

LEMMA SameKernel ==
  ASSUME NEW i \in Made, KernelOK(i), recipe' = recipe, ports'[i] = ports[i],
         dups'[i] = dups[i], OutsDone(i) \in Nat, OutsDone(i)' \in Nat,
         OutsDone(i)' >= OutsDone(i)
  PROVE  KernelOK(i)'
<1>1. Class(i)' = Class(i) /\ DupNames(i)' = DupNames(i)
  BY DEF Class, DupNames, K
<1>2. Registry(i)'
  BY <1>1 DEF KernelOK, Registry
<1>3. ASSUME NEW d \in ToSet(dups[i]) PROVE DupOK(i, d)'
  <2>1. DupOK(i, d)
    BY DEF KernelOK
  <2>2. \E j \in 1..OutsDone(i)' : /\ recipe.entries[i].out[j].name = d[2]
                                   /\ recipe.entries[i].out[j].dup = d[1]
    BY <2>1 DEF DupOK
  <2>. QED  BY <1>1, <2>1, <2>2 DEF DupOK, K
<1>. QED  BY <1>2, <1>3 DEF KernelOK

(* Main is not, or no longer, concerned with a kernel's ports.             *)
LEMMA SameRegistry ==
  ASSUME IInv, RegistryOK, UNCHANGED <<recipe, ports, dups>>, pc' \notin {"in", "out"}
  PROVE  RegistryOK'
<1>1. \A i \in Made : /\ OutsDone(i)' = Len(recipe.entries[i].out)
                      /\ OutsDone(i) \in Nat /\ OutsDone(i)' \in Nat
                      /\ OutsDone(i)' >= OutsDone(i)
  BY DoneOK DEF OutsDone, RegistryOK
<1>2. \A i \in Made : KernelOK(i)'
  BY <1>1, SameKernel DEF RegistryOK
<1>. QED  BY <1>2 DEF RegistryOK, BoundsOK, Made

LEMMA NextRegistry ==
  ASSUME IInv, RegistryOK, pc \in {"in", "out"}, NextPort, UNCHANGED ports,
         pc = "in" => p <= Len(Entry.in), pc = "out" => p <= Len(Entry.out)
  PROVE  RegistryOK'
<1>1. /\ UNCHANGED <<recipe, n, pc, dups, ports>> /\ p' = p + 1 /\ p \in Nat \ {0}
  BY DEF NextPort, IInv, PlaceOK
<1>2. BoundsOK'
  BY <1>1, EntryOK DEF BoundsOK, Entry, IInv
<1>3. \A i \in Made : /\ OutsDone(i) \in Nat /\ OutsDone(i)' \in Nat
                      /\ OutsDone(i)' >= OutsDone(i)
  BY <1>1, DoneOK DEF OutsDone, RegistryOK
<1>4. \A i \in Made : KernelOK(i)'
  BY <1>1, <1>3, SameKernel DEF RegistryOK
<1>. QED  BY <1>1, <1>2, <1>4 DEF RegistryOK, Made

LEMMA InDoneRegistry == IInv /\ RegistryOK /\ InPortsDone => RegistryOK'
<1>. SUFFICES ASSUME IInv, RegistryOK, InPortsDone PROVE RegistryOK'
  OBVIOUS
<1>1. /\ UNCHANGED <<recipe, n, dups, ports>> /\ pc = "in" /\ pc' = "out" /\ p' = 1
  BY DEF InPortsDone
<1>2. BoundsOK'
  BY <1>1, EntryOK DEF BoundsOK, Entry, IInv
<1>3. \A i \in Made : /\ OutsDone(i) \in Nat /\ OutsDone(i)' = OutsDone(i)
  BY <1>1, DoneOK DEF OutsDone, RegistryOK
<1>4. \A i \in Made : KernelOK(i)'
  BY <1>1, <1>3, SameKernel DEF RegistryOK
<1>. QED  BY <1>1, <1>2, <1>4 DEF RegistryOK, Made

LEMMA MadeRegistry == IInv /\ RegistryOK /\ InitKernel => RegistryOK'
<1>. SUFFICES ASSUME IInv, RegistryOK, InitKernel PROVE RegistryOK'
  OBVIOUS
<1>1. CASE Abort \/ Entry.kernel \notin DOMAIN Kernels
  <2>1. UNCHANGED <<recipe, ports, dups>> /\ pc' \notin {"in", "out"}
    BY <1>1 DEF InitKernel, Abort
  <2>. QED  BY <2>1, SameRegistry
<1>2. CASE Entry.kernel \in DOMAIN Kernels /\ ~Abort
  <2>1. /\ pc = "init" /\ n \in 1..Len(recipe.entries) /\ n \notin Made
        /\ Made' = Made \cup {n}
        /\ \A i \in Made : ports'[i] = ports[i] /\ dups'[i] = dups[i]
        /\ ports'[n] = [in |-> RegisterAll(InPorts(Entry)),
                        out |-> RegisterAll(Kernels[Entry.kernel].out)]
        /\ dups'[n] = << >> /\ pc' = "in" /\ p' = 1 /\ UNCHANGED <<recipe, n>>
    BY <1>2, MadeStep
  <2>2. \A i \in Made : KernelOK(i)'
    <3>1. \A i \in Made : OutsDone(i) \in Nat /\ OutsDone(i)' = OutsDone(i)
      BY <2>1, DoneOK DEF OutsDone, RegistryOK
    <3>. QED  BY <2>1, <3>1, SameKernel DEF RegistryOK
  <2>3. KernelOK(n)'
    <3>1. /\ Class(n)' = Kernels[Entry.kernel].out
          /\ recipe.entries[n] = Entry /\ recipe'.entries[n] = Entry
      BY <2>1 DEF Class, K, Entry
    <3>2. /\ DOMAIN RegisterAll(InPorts(Entry)) = DOMAIN InPorts(Entry)
          /\ \A t \in DOMAIN InPorts(Entry) :
               RegisterAll(InPorts(Entry))[t].type = InPorts(Entry)[t].type
      BY <1>2, InPortsOK, RegisteredOK
    <3>3. /\ DOMAIN RegisterAll(Class(n)') = DOMAIN Class(n)'
          /\ \A t \in DOMAIN Class(n)' :
               /\ RegisterAll(Class(n)')[t].type = Class(n)'[t].type
               /\ RegisterAll(Class(n)')[t].coder = Class(n)'[t].coder
      BY <1>2, <3>1, CatalogFacts, RegisteredOK
    <3>4. ToSet(dups'[n]) = {} /\ DupNames(n)' = {} /\ dups'[n] \in Seq(STRING \X STRING)
      BY <2>1 DEF ToSet, DupNames
    <3>5. Registry(n)'
      BY <2>1, <3>1, <3>2, <3>3, <3>4 DEF Registry
    <3>. QED  BY <2>1, <3>4, <3>5 DEF KernelOK
  <2>4. BoundsOK'
    BY <2>1, Entries, ListedPorts DEF BoundsOK, Entry, IInv, PlaceOK
  <2>. QED  BY <2>1, <2>2, <2>3, <2>4 DEF RegistryOK
<1>. QED  BY <1>1, <1>2

LEMMA ActivateInRegistry == IInv /\ RegistryOK /\ ActivateInPort => RegistryOK'
<1>. SUFFICES ASSUME IInv, RegistryOK, ActivateInPort PROVE RegistryOK'
  OBVIOUS
<1>. DEFINE r == Entry.in[p]
<1>1. pc = "in" /\ p \in 1..Len(Entry.in)
  BY EntryOK DEF ActivateInPort, IInv, PlaceOK
<1>2. n \in Made /\ r \in ListedPort /\ DOMAIN ports[n] = {"in", "out"}
  BY <1>1, EntryOK DEF IInv, PlaceOK
<1>3. CASE Abort
  BY <1>3, SameRegistry DEF Abort
<1>4. CASE NextPort /\ UNCHANGED ports
  BY <1>1, <1>4, NextRegistry
<1>5. CASE /\ NextPort /\ r.name \in DOMAIN ports[n].in /\ r.channel # "none"
           /\ ports' = [ports EXCEPT ![n].in[r.name] = Activate(ports[n].in[r.name], r)]
  <2>1. /\ UNCHANGED <<recipe, n, pc, dups>> /\ p' = p + 1
    BY <1>5 DEF NextPort
  <2>2. /\ Made' = Made /\ \A i \in Made \ {n} : ports'[i] = ports[i]
        /\ ports'[n].out = ports[n].out
        /\ DOMAIN ports'[n].in = DOMAIN ports[n].in
        /\ ports'[n].in[r.name] = Activate(ports[n].in[r.name], r)
        /\ \A t \in DOMAIN ports[n].in : t # r.name => ports'[n].in[t] = ports[n].in[t]
    BY <1>2, <1>5, InTable
  <2>3. \A i \in Made : OutsDone(i) \in Nat /\ OutsDone(i)' = OutsDone(i)
    BY <1>1, <2>1, DoneOK DEF OutsDone, RegistryOK
  <2>4. \A i \in Made \ {n} : KernelOK(i)'
    BY <2>1, <2>2, <2>3, SameKernel DEF RegistryOK
  <2>5. KernelOK(n)'
    <3>1. KernelOK(n) /\ Class(n)' = Class(n) /\ DupNames(n)' = DupNames(n)
      BY <1>2, <2>1 DEF RegistryOK, Class, DupNames, K
    <3>2. ports[n].in[r.name] \in PortRecord
      BY <1>2, <1>5 DEF IInv, TypeOK
    <3>3. Activate(ports[n].in[r.name], r).type = ports[n].in[r.name].type
      BY <1>2, <1>5, <3>2, Activated
    <3>4. Registry(n)'
      BY <2>1, <2>2, <3>1, <3>3 DEF KernelOK, Registry
    <3>5. \A d \in ToSet(dups[n]) : DupOK(n, d)'
      BY <1>2, <2>1, <2>2, <2>3, <3>1 DEF KernelOK, DupOK, K
    <3>. QED  BY <2>1, <3>1, <3>4, <3>5 DEF KernelOK
  <2>6. BoundsOK'
    BY <1>1, <1>2, <2>1, EntryOK DEF BoundsOK, Entry, IInv, PlaceOK
  <2>. QED  BY <2>1, <2>2, <2>4, <2>5, <2>6 DEF RegistryOK
<1>. QED  BY <1>3, <1>4, <1>5, ActivateInStep

LEMMA ActivateOutRegistry == IInv /\ RegistryOK /\ ActivateOutPort => RegistryOK'
<1>. SUFFICES ASSUME IInv, RegistryOK, ActivateOutPort PROVE RegistryOK'
  OBVIOUS
<1>. DEFINE r == Entry.out[p]
<1>1. pc = "out" /\ p \in 1..Len(Entry.out)
  BY EntryOK DEF ActivateOutPort, IInv, PlaceOK
<1>2. n \in Made /\ r \in ListedPort
  BY <1>1, EntryOK DEF IInv
<1>3. CASE Abort
  BY <1>3, SameRegistry DEF Abort
<1>4. CASE NextPort /\ UNCHANGED ports
  BY <1>1, <1>4, NextRegistry
<1>5. CASE /\ NextPort /\ r.name \in DOMAIN ports[n].out /\ r.channel # "none"
           /\ PutOut(r.name, ActivateOut(ports[n].out[r.name], r))
  <2>1. /\ UNCHANGED <<recipe, n, pc, dups>> /\ p' = p + 1
    BY <1>5 DEF NextPort
  <2>2. ports[n].out[r.name] \in PortRecord
    BY <1>2, <1>5 DEF IInv, TypeOK
  <2>3. /\ ActivateOut(ports[n].out[r.name], r) \in PortRecord
        /\ ActivateOut(ports[n].out[r.name], r).type = ports[n].out[r.name].type
        /\ ActivateOut(ports[n].out[r.name], r).coder = ports[n].out[r.name].coder
    BY <1>2, <1>5, <2>2, Activated
  <2>4. /\ Made' = Made /\ \A i \in Made \ {n} : ports'[i] = ports[i]
        /\ ports'[n].in = ports[n].in
        /\ DOMAIN ports'[n].out = DOMAIN ports[n].out
        /\ \A t \in DOMAIN ports[n].out :
             /\ ports'[n].out[t].type = ports[n].out[t].type
             /\ ports'[n].out[t].coder = ports[n].out[t].coder
    <3>1. ASSUME NEW x, NEW w \in PortRecord,
                 PutOut(x, w)
          PROVE  /\ Made' = Made /\ \A i \in Made \ {n} : ports'[i] = ports[i]
                 /\ ports'[n].in = ports[n].in
                 /\ DOMAIN ports'[n].out = DOMAIN ports[n].out \cup {x}
                 /\ ports'[n].out[x] = w
                 /\ \A t \in DOMAIN ports[n].out :
                      t # x => ports'[n].out[t] = ports[n].out[t]
      BY <1>2, <3>1, PutOK
    <3>2. /\ Made' = Made /\ \A i \in Made \ {n} : ports'[i] = ports[i]
          /\ ports'[n].in = ports[n].in
          /\ DOMAIN ports'[n].out = DOMAIN ports[n].out \cup {r.name}
          /\ ports'[n].out[r.name] = ActivateOut(ports[n].out[r.name], r)
          /\ \A t \in DOMAIN ports[n].out :
               t # r.name => ports'[n].out[t] = ports[n].out[t]
      <4>. HIDE DEF r
      <4>. QED  BY <1>5, <2>3, <3>1
    <3>. QED  BY <1>5, <2>3, <3>2
  <2>5. \A i \in Made : /\ OutsDone(i) \in Nat /\ OutsDone(i)' \in Nat
                        /\ OutsDone(i)' >= OutsDone(i)
    BY <1>1, <2>1, DoneOK DEF OutsDone, RegistryOK
  <2>6. \A i \in Made \ {n} : KernelOK(i)'
    BY <2>1, <2>4, <2>5, SameKernel DEF RegistryOK
  <2>7. KernelOK(n)'
    <3>1. KernelOK(n) /\ Class(n)' = Class(n) /\ DupNames(n)' = DupNames(n)
      BY <1>2, <2>1 DEF RegistryOK, Class, DupNames, K
    <3>2. Registry(n)'
      BY <2>1, <2>4, <3>1 DEF KernelOK, Registry
    <3>3. ASSUME NEW d \in ToSet(dups[n]) PROVE DupOK(n, d)'
      <4>1. DupOK(n, d) /\ d[2] \in DOMAIN ports[n].out
        BY <3>1 DEF KernelOK, Registry, DupNames
      <4>2. \E j \in 1..OutsDone(n)' : /\ recipe.entries[n].out[j].name = d[2]
                                       /\ recipe.entries[n].out[j].dup = d[1]
        BY <1>2, <2>1, <2>5, <4>1 DEF DupOK
      <4>. QED  BY <2>1, <2>4, <3>1, <4>1, <4>2 DEF DupOK, K
    <3>. QED  BY <2>1, <3>1, <3>2, <3>3 DEF KernelOK
  <2>8. BoundsOK'
    BY <1>1, <1>2, <2>1, EntryOK DEF BoundsOK, Entry, IInv, PlaceOK
  <2>. QED  BY <2>1, <2>4, <2>6, <2>7, <2>8 DEF RegistryOK
<1>. QED  BY <1>3, <1>4, <1>5, ActivateOutStep

LEMMA DuplicateRegistry == IInv /\ RegistryOK /\ DuplicateOutPort => RegistryOK'
<1>. SUFFICES ASSUME IInv, RegistryOK, DuplicateOutPort PROVE RegistryOK'
  OBVIOUS
<1>. DEFINE r == Entry.out[p]
<1>1. pc = "out" /\ p \in 1..Len(Entry.out) /\ ~AcceptsOut(Entry, r.name)
  BY EntryOK DEF DuplicateOutPort, IInv, PlaceOK
<1>2. n \in Made /\ r \in ListedPort /\ K(n) \in DOMAIN Kernels /\ K(n) = Entry.kernel
  BY <1>1, EntryOK DEF IInv, K, Entry
<1>3. CASE Abort
  BY <1>3, SameRegistry DEF Abort
<1>4. CASE NextPort /\ UNCHANGED ports
  BY <1>1, <1>4, NextRegistry
<1>5. ASSUME NEW d \in PortRecord,
             r.dup \in YamlKernels[K(n)].dup, r.dup \in DOMAIN ports[n].out,
             d.type = ports[n].out[r.dup].type, d.coder = ports[n].out[r.dup].coder,
             PutOut(r.name, d), dups' = [dups EXCEPT ![n] = Append(@, <<r.dup, r.name>>)],
             p' = p + 1, UNCHANGED <<recipe, pc, n>>
      PROVE  RegistryOK'
  <2>1. /\ Made' = Made /\ \A i \in Made \ {n} : ports'[i] = ports[i]
        /\ ports'[n].in = ports[n].in
        /\ DOMAIN ports'[n].out = DOMAIN ports[n].out \cup {r.name}
        /\ ports'[n].out[r.name] = d
        /\ \A t \in DOMAIN ports[n].out : t # r.name => ports'[n].out[t] = ports[n].out[t]
    BY <1>2, <1>5, PutOK
  <2>2. /\ \A i \in Made : OutsDone(i) \in Nat /\ OutsDone(i)' \in Nat
        /\ \A i \in Made : OutsDone(i)' >= OutsDone(i)
        /\ OutsDone(n) = p - 1 /\ OutsDone(n)' = p
    BY <1>1, <1>2, <1>5, DoneOK DEF OutsDone, RegistryOK, IInv, PlaceOK
  <2>3. \A i \in Made \ {n} : dups'[i] = dups[i]
    BY <1>5 DEF IInv, TypeOK
  <2>4. \A i \in Made \ {n} : KernelOK(i)'
    BY <1>5, <2>1, <2>2, <2>3, SameKernel DEF RegistryOK
  <2>5. /\ KernelOK(n) /\ Registry(n) /\ dups[n] \in Seq(STRING \X STRING)
        /\ \A x \in ToSet(dups[n]) : DupOK(n, x)
        /\ Class(n)' = Class(n) /\ K(n)' = K(n)
    BY <1>2, <1>5 DEF RegistryOK, KernelOK, Class, K
  <2>6. /\ dups'[n] \in Seq(STRING \X STRING)
        /\ ToSet(dups'[n]) = ToSet(dups[n]) \cup {<<r.dup, r.name>>}
    <3>1. dups'[n] = Append(dups[n], <<r.dup, r.name>>)
      BY <1>2, <1>5 DEF IInv, TypeOK
    <3>2. <<r.dup, r.name>> \in STRING \X STRING
      BY <1>2 DEF ListedPort
    <3>. QED  BY <2>5, <3>1, <3>2, AppendedSet
  <2>7. r.name \notin DOMAIN Class(n) /\ r.dup \in DOMAIN Class(n)
    <3>1. r.name \notin DOMAIN Class(n)
      BY <1>1, <1>2, CatalogFacts DEF AcceptsOut, Class
    <3>2. CASE K(n) \in NoDuplicates
      <4>1. YamlKernels[K(n)].dup \cap DOMAIN Class(n) = {}
        BY <1>2, <3>2, CatalogFacts DEF Class
      <4>2. ToSet(dups[n]) = {}
        BY <2>5, <4>1 DEF DupOK
      <4>. QED  BY <1>5, <2>5, <4>1, <4>2 DEF Registry, DupNames
    <3>3. CASE K(n) \notin NoDuplicates
      BY <1>2, <1>5, <3>1, <3>3, CatalogFacts DEF Class
    <3>. QED  BY <3>2, <3>3, <3>1
  <2>8. KernelOK(n)'
    <3>1. DupNames(n)' = DupNames(n) \cup {r.name}
      BY <1>5, <2>6 DEF DupNames
    <3>2. Registry(n)'
      BY <1>5, <2>1, <2>5, <2>7, <3>1 DEF Registry
    <3>3. ASSUME NEW x \in ToSet(dups[n]) PROVE DupOK(n, x)'
      <4>1. DupOK(n, x) /\ x[2] \in DOMAIN ports[n].out
        BY <2>5 DEF Registry, DupNames
      <4>2. PICK j \in 1..(p - 1) : /\ recipe.entries[n].out[j].name = x[2]
                                    /\ recipe.entries[n].out[j].dup = x[1]
        BY <2>2, <4>1 DEF DupOK
      <4>3. Distinct(Names(recipe.entries[n].out)) => x[2] # r.name
        <5>1. j \in 1..Len(Entry.out) /\ p \in 1..Len(Entry.out) /\ j # p
          BY <1>1, <4>2, EntryOK DEF IInv
        <5>. QED  BY <4>2, <5>1, DistinctNames DEF Entry
      <4>4. \E k \in 1..OutsDone(n)' : /\ recipe.entries[n].out[k].name = x[2]
                                       /\ recipe.entries[n].out[k].dup = x[1]
        BY <1>1, <2>2, <4>2
      <4>. QED  BY <1>5, <2>1, <2>5, <4>1, <4>3, <4>4 DEF DupOK
    <3>4. ASSUME NEW x, x = <<r.dup, r.name>> PROVE DupOK(n, x)'
      <4>1. p \in 1..OutsDone(n)'
        BY <1>1, <2>2
      <4>2. /\ d.type = Class(n)[r.dup].type /\ d.coder = Class(n)[r.dup].coder
        BY <1>5, <2>5, <2>7 DEF Registry
      <4>3. x[1] = r.dup /\ x[2] = r.name
        BY <3>4
      <4>4. x[1] \in YamlKernels[K(n)].dup /\ x[1] \in DOMAIN Class(n)
        BY <1>5, <2>7, <4>3
      <4>5. \E k \in 1..OutsDone(n)' : /\ recipe.entries[n].out[k].name = x[2]
                                       /\ recipe.entries[n].out[k].dup = x[1]
        BY <4>1, <4>3 DEF Entry
      <4>. QED  BY <1>5, <2>1, <2>5, <2>7, <4>2, <4>3, <4>4, <4>5 DEF DupOK
    <3>. QED  BY <1>5, <2>6, <3>2, <3>3, <3>4 DEF KernelOK
  <2>9. BoundsOK'
    <3>1. Entry' = Entry /\ p' = p + 1 /\ pc' = "out"
      BY <1>1, <1>5 DEF Entry
    <3>2. p <= Len(Entry.out) /\ p \in Nat /\ Len(Entry.out) \in Nat
      BY <1>1, EntryOK DEF IInv
    <3>. QED  BY <3>1, <3>2 DEF BoundsOK
  <2>. QED  BY <1>5, <2>1, <2>4, <2>8, <2>9 DEF RegistryOK
<1>. QED  BY <1>3, <1>4, <1>5, DuplicateStep

LEMMA RegistryInit == Init => RegistryOK
BY DEF Init, RegistryOK, BoundsOK, Made, NoMap

LEMMA RegistryStep == IInv /\ RegistryOK /\ [Next]_vars => RegistryOK'
<1>. SUFFICES ASSUME IInv, RegistryOK, [Next]_vars PROVE RegistryOK'
  OBVIOUS
<1>1. CASE \/ KeepKernel \/ ParseConnections \/ Link \/ LinksDone \/ SpawnSingle
           \/ Exe \/ ExeReturns \/ Join \/ RemoveKernelMap \/ RemoveSingleKernelVector
           \/ \E i \in Made : Crash(i) \/ Stop(i) \/ NeverEnd(i)
  <2>1. UNCHANGED <<recipe, ports, dups>> /\ pc' \notin {"in", "out"}
    BY <1>1 DEF KeepKernel, ParseConnections, Link, LinksDone, SpawnSingle, Exe,
       ExeReturns, Join, RemoveKernelMap, RemoveSingleKernelVector, Crash, Stop, NeverEnd, Runs, Abort
  <2>. QED  BY <2>1, SameRegistry
<1>2. CASE UNCHANGED vars
  <2>1. /\ UNCHANGED <<recipe, pc, n, p, ports, dups>>
    BY <1>2 DEF vars
  <2>2. \A i \in Made : OutsDone(i) \in Nat /\ OutsDone(i)' = OutsDone(i)
    BY <2>1, DoneOK DEF OutsDone, RegistryOK
  <2>3. \A i \in Made : KernelOK(i)'
    BY <2>1, <2>2, SameKernel DEF RegistryOK
  <2>. QED  BY <2>1, <2>3 DEF RegistryOK, BoundsOK, Made, Entry
<1>. QED  BY <1>1, <1>2, InDoneRegistry, MadeRegistry, ActivateInRegistry,
             ActivateOutRegistry, DuplicateRegistry DEF Next, Main

(* A kernel's tables hold the ports of its class and the duplicates it     *)
(* remembers, and nothing else, at every point of the deployment.          *)
THEOREM RegistryInvariance == Spec => [](IInv /\ RegistryOK)
BY InitOK, StepOK, RegistryInit, RegistryStep, PTL DEF Spec

(* sendOutput finds the duplicate for every pair a kernel remembers, with  *)
(* the type and the serializer of the port it duplicates.                  *)
THEOREM DuplicatesAlwaysMatch == Spec => []DuplicatesMatch
<1>1. RegistryOK => DuplicatesMatch
  <2>. SUFFICES ASSUME RegistryOK, NEW i \in Made, NEW d \in ToSet(dups[i]),
                       Distinct(Names(recipe.entries[i].out))
                PROVE  /\ {d[1], d[2]} \subseteq DOMAIN ports[i].out
                       /\ ports[i].out[d[2]].type = ports[i].out[d[1]].type
                       /\ ports[i].out[d[2]].coder = ports[i].out[d[1]].coder
    BY DEF DuplicatesMatch
  <2>1. Registry(i) /\ DupOK(i, d)
    BY DEF RegistryOK, KernelOK
  <2>. QED  BY <2>1 DEF Registry, DupOK, DupNames
<1>. QED  BY <1>1, RegistryInvariance, PTL
-----------------------------------------------------------------------------
(* c is the channel of the first of the first k entries for t, if any.     *)
First(rs, k, t, c) ==
  \/ c = "inactive" /\ \A j \in 1..k : rs[j].name # t
  \/ \E j \in 1..k : /\ rs[j].name = t /\ rs[j].channel = c
                     /\ \A m \in 1..(j - 1) : rs[m].name # t

LEMMA FirstStep ==
  ASSUME NEW rs, NEW k \in Nat, NEW t, NEW c, NEW d, First(rs, k, t, c),
         \A j \in 1..k : rs[j].channel # "inactive",
         d = IF rs[k + 1].name = t /\ c = "inactive" THEN rs[k + 1].channel ELSE c
  PROVE  First(rs, k + 1, t, d)
<1>1. CASE rs[k + 1].name = t /\ c = "inactive"
  <2>1. \A j \in 1..k : rs[j].name # t
    BY <1>1 DEF First
  <2>. QED  BY <1>1, <2>1 DEF First
<1>2. CASE ~(rs[k + 1].name = t /\ c = "inactive")
  <2>1. CASE c = "inactive" /\ \A j \in 1..k : rs[j].name # t
    <3>1. \A j \in 1..(k + 1) : rs[j].name # t
      BY <1>2, <2>1
    <3>. QED  BY <1>2, <2>1, <3>1 DEF First
  <2>2. CASE \E j \in 1..k : /\ rs[j].name = t /\ rs[j].channel = c
                             /\ \A m \in 1..(j - 1) : rs[m].name # t
    <3>1. \E j \in 1..(k + 1) : /\ rs[j].name = t /\ rs[j].channel = c
                                /\ \A m \in 1..(j - 1) : rs[m].name # t
      BY <2>2
    <3>. QED  BY <1>2, <3>1 DEF First
  <2>. QED  BY <2>1, <2>2 DEF First
<1>. QED  BY <1>1, <1>2

LEMMA FirstLast ==
  ASSUME NEW rs, Len(rs) \in Nat, NEW t \in ToSet(Names(rs)), NEW c,
         First(rs, Len(rs), t, c)
  PROVE  c = FirstOf(rs, t).channel
<1>1. \E k \in 1..Len(rs) : rs[k].name = t
  BY DEF ToSet, Names
<1>2. PICK j \in 1..Len(rs) : /\ rs[j].name = t /\ rs[j].channel = c
                              /\ \A m \in 1..(j - 1) : rs[m].name # t
  BY <1>1 DEF First
<1>. DEFINE P(k) == rs[k].name = t /\ \A m \in 1..(k - 1) : rs[m].name # t
<1>3. \A k \in 1..Len(rs) : P(k) => k = j
  <2>. SUFFICES ASSUME NEW k \in 1..Len(rs), P(k) PROVE k = j
    OBVIOUS
  <2>1. ~(k < j) /\ ~(j < k)
    BY <1>2
  <2>. QED  BY <2>1
<1>4. P(j)
  BY <1>2
<1>5. (CHOOSE k \in 1..Len(rs) : P(k)) = j
  BY <1>3, <1>4
<1>. QED  BY <1>2, <1>5 DEF FirstOf

(* The channels follow the entries main has been through.                  *)
Listed(i) == recipe.entries[i]
Given(rs, t) == \A j \in 1..Len(rs) : rs[j].name = t => rs[j].channel # "none"
InsOK(i) == \A t \in DOMAIN ports[i].in : Given(Listed(i).in, t) =>
              First(Listed(i).in, InsDone(i), t, ports[i].in[t].channel)
OutsOK(i) == \A t \in DOMAIN Class(i) : Given(Listed(i).out, t) =>
               First(Listed(i).out, OutsDone(i), t, ports[i].out[t].channel)

(* In a documented recipe there is a port for each of them.                *)
Regular == Documented /\ MayDuplicate
AsListed(i) == Regular => \A j \in 1..OutsDone(i) :
  LET r == Listed(i).out[j] IN
  /\ r.name \in DOMAIN ports[i].out /\ ports[i].out[r.name].channel = r.channel
  /\ r.channel \in Local => ports[i].out[r.name].sem = r.sem
ChannelsOK == pc # "aborted" => \A i \in Made : InsOK(i) /\ OutsOK(i) /\ AsListed(i)

LEMMA SameRegular == recipe' = recipe => (Regular' <=> Regular)
<1>. SUFFICES ASSUME recipe' = recipe PROVE Regular' <=> Regular
  OBVIOUS
<1>1. Conns' = Conns
  BY DEF Conns
<1>2. \A e, t : (SendsTo(e, t)' <=> SendsTo(e, t)) /\ (RecvsOn(e, t)' <=> RecvsOn(e, t))
  BY <1>1 DEF SendsTo, RecvsOn
<1>3. \A e : DocumentedPorts(e)' <=> DocumentedPorts(e)
  BY <1>2 DEF DocumentedPorts
<1>4. \A c : DocumentedConn(c)' <=> DocumentedConn(c)
  BY DEF DocumentedConn
<1>5. Documented' <=> Documented
  BY <1>1, <1>3, <1>4 DEF Documented
<1>6. MayDuplicate' <=> MayDuplicate
  BY DEF MayDuplicate
<1>. QED  BY <1>5, <1>6 DEF Regular

LEMMA RegularEntry ==
  ASSUME IInv, Regular, NEW i \in 1..Len(recipe.entries)
  PROVE  /\ K(i) \in DOMAIN Kernels /\ InPorts(Listed(i)) = Kernels[K(i)].in
         /\ YamlKernels[K(i)].others \subseteq Listed(i).others
         /\ DocumentedPorts(Listed(i))
         /\ Distinct(Names(Listed(i).in)) /\ Distinct(Names(Listed(i).out))
<1>1. /\ K(i) \in DOMAIN Kernels
      /\ K(i) = "OrbSlamPoseEstimator" => Listed(i).sensor = "mono_inertial"
      /\ YamlKernels[K(i)].others \subseteq Listed(i).others
      /\ DocumentedPorts(Listed(i))
  BY DEF Regular, Documented, K, Listed
<1>2. InPorts(Listed(i)) = Kernels[K(i)].in
  BY <1>1 DEF InPorts, K, Listed
<1>. QED  BY <1>1, <1>2 DEF DocumentedPorts

LEMMA RegularPorts ==
  ASSUME IInv, Regular, NEW i \in 1..Len(recipe.entries)
  PROVE  /\ \A j \in 1..Len(Listed(i).in) :
              LET r == Listed(i).in[j] IN
              /\ r.name \in DOMAIN Kernels[K(i)].in
              /\ r.channel \in Local \cup Remote /\ r.fits
         /\ \A j \in 1..Len(Listed(i).out) :
              LET r == Listed(i).out[j] IN
              /\ r.channel \in Local \cup Remote /\ r.fits
              /\ \/ r.dup = "" /\ r.name \in DOMAIN Class(i)
                 \/ /\ r.dup # "" /\ r.dup \in DOMAIN Class(i)
                    /\ r.name \notin DOMAIN Class(i) /\ K(i) \notin NoDuplicates
<1>1. DocumentedPorts(Listed(i))
  BY RegularEntry
<1>2. K(i) \in NoDuplicates => \A j \in 1..Len(Listed(i).out) : Listed(i).out[j].dup = ""
  BY DEF Regular, MayDuplicate, Duplicates, K, Listed
<1>. QED  BY <1>1, <1>2 DEF DocumentedPorts, Class, K, Listed

LEMMA SameChannels ==
  ASSUME NEW i \in Made, recipe' = recipe, ports'[i] = ports[i],
         InsDone(i)' = InsDone(i), OutsDone(i)' = OutsDone(i),
         InsOK(i), OutsOK(i), AsListed(i)
  PROVE  InsOK(i)' /\ OutsOK(i)' /\ AsListed(i)'
<1>1. Listed(i)' = Listed(i) /\ Class(i)' = Class(i)
  BY DEF Listed, Class, K
<1>2. InsOK(i)' /\ OutsOK(i)'
  BY <1>1 DEF InsOK, OutsOK
<1>3. AsListed(i)'
  BY <1>1, SameRegular DEF AsListed
<1>. QED  BY <1>2, <1>3

LEMMA KeepChannels ==
  ASSUME ChannelsOK, UNCHANGED <<recipe, ports>>, pc' = "aborted" \/ pc # "aborted",
         pc' # "aborted" => \A i \in Made : /\ InsDone(i)' = InsDone(i)
                                            /\ OutsDone(i)' = OutsDone(i)
  PROVE  ChannelsOK'
<1>1. CASE pc' = "aborted"
  BY <1>1 DEF ChannelsOK
<1>2. CASE pc' # "aborted"
  BY <1>2, SameChannels DEF ChannelsOK, Made
<1>. QED  BY <1>1, <1>2

(* Main goes through one more entry for a port of the kernel it makes.     *)
LEMMA OneMore ==
  ASSUME IInv, RegistryOK, ChannelsOK, pc \in {"in", "out"}, p' = p + 1,
         UNCHANGED <<recipe, pc, n>>, Made' = Made,
         \A i \in Made \ {n} : ports'[i] = ports[i],
         InsOK(n)', OutsOK(n)', AsListed(n)'
  PROVE  ChannelsOK'
<1>1. \A i \in Made \ {n} : InsDone(i)' = InsDone(i) /\ OutsDone(i)' = OutsDone(i)
  BY DEF InsDone, OutsDone
<1>2. \A i \in Made \ {n} : InsOK(i)' /\ OutsOK(i)' /\ AsListed(i)'
  BY <1>1, SameChannels DEF ChannelsOK
<1>. QED  BY <1>2 DEF ChannelsOK

LEMMA Active ==
  ASSUME NEW r \in ListedPort
  PROVE  r.channel # "inactive"
BY DEF ListedPort, Local, Remote

LEMMA ActivateInChannels == IInv /\ RegistryOK /\ ChannelsOK /\ ActivateInPort => ChannelsOK'
<1>. SUFFICES ASSUME IInv, RegistryOK, ChannelsOK, ActivateInPort PROVE ChannelsOK'
  OBVIOUS
<1>. DEFINE r == Entry.in[p]
<1>1. /\ pc = "in" /\ p \in 1..Len(Entry.in) /\ p \in Nat /\ n \in Made
      /\ r \in ListedPort /\ DOMAIN ports[n] = {"in", "out"}
      /\ \A j \in 1..Len(Entry.in) : Entry.in[j] \in ListedPort
  BY EntryOK DEF ActivateInPort, IInv, PlaceOK
<1>2. InsOK(n) /\ OutsOK(n) /\ AsListed(n) /\ Registry(n)
  BY <1>1 DEF ChannelsOK, RegistryOK, KernelOK
<1>3. CASE Abort
  BY <1>3, KeepChannels DEF Abort
<1>4. CASE NextPort /\ ~Abort
  <2>1. UNCHANGED <<recipe, n, pc, dups>> /\ p' = p + 1
    BY <1>4 DEF NextPort
  <2>2. /\ Made' = Made /\ \A i \in Made \ {n} : ports'[i] = ports[i]
        /\ ports'[n].out = ports[n].out /\ DOMAIN ports'[n].in = DOMAIN ports[n].in
        /\ \A t \in DOMAIN ports[n].in :
             \/ t = r.name /\ r.channel = "none"
             \/ t # r.name /\ ports'[n].in[t] = ports[n].in[t]
             \/ /\ t = r.name /\ r.channel # "none"
                /\ ports'[n].in[t].channel = IF ports[n].in[t].channel = "inactive"
                                             THEN r.channel ELSE ports[n].in[t].channel
    <3>1. CASE UNCHANGED ports /\ (r.name \notin YamlKernels[K(n)].in \/ Skips(r))
      <4>1. DOMAIN ports[n].in \subseteq YamlKernels[K(n)].in
        <5>1. Entry.kernel \in DOMAIN Kernels /\ K(n) = Entry.kernel /\ recipe.entries[n] = Entry
          BY <1>1, EntryOK DEF K, Entry, IInv
        <5>. QED  BY <1>2, <5>1, InPortsOK DEF Registry
      <4>. QED  BY <3>1, <4>1 DEF Skips, Made
    <3>2. CASE /\ r.name \in DOMAIN ports[n].in /\ r.channel # "none"
               /\ ports' = [ports EXCEPT ![n].in[r.name] = Activate(ports[n].in[r.name], r)]
      <4>1. /\ Made' = Made /\ \A i \in Made \ {n} : ports'[i] = ports[i]
            /\ ports'[n].out = ports[n].out
            /\ DOMAIN ports'[n].in = DOMAIN ports[n].in
            /\ ports'[n].in[r.name] = Activate(ports[n].in[r.name], r)
            /\ \A t \in DOMAIN ports[n].in : t # r.name => ports'[n].in[t] = ports[n].in[t]
        BY <1>1, <3>2, InTable
      <4>2. ports[n].in[r.name] \in PortRecord
        BY <1>1, <3>2 DEF IInv, TypeOK
      <4>. QED  BY <1>1, <3>2, <4>1, <4>2, Activated
    <3>. QED  BY <1>4, <3>1, <3>2, ActivateInStep
  <2>3. InsOK(n)'
    <3>1. /\ Listed(n) = Entry /\ Listed(n)' = Entry /\ InsDone(n) = p - 1 /\ InsDone(n)' = p
      BY <1>1, <2>1 DEF Listed, Entry, InsDone
    <3>2. ASSUME NEW t \in DOMAIN ports[n].in, Given(Entry.in, t)
          PROVE  First(Entry.in, p, t, ports'[n].in[t].channel)
      <4>1. First(Entry.in, p - 1, t, ports[n].in[t].channel)
        BY <1>2, <3>1, <3>2 DEF InsOK
      <4>2. t = r.name => r.channel # "none"
        BY <1>1, <3>2 DEF Given
      <4>3. ports'[n].in[t].channel =
              IF r.name = t /\ ports[n].in[t].channel = "inactive"
                THEN r.channel ELSE ports[n].in[t].channel
        BY <2>2, <4>2
      <4>4. p - 1 \in Nat /\ (p - 1) + 1 = p
            /\ \A j \in 1..(p - 1) : Entry.in[j].channel # "inactive"
        BY <1>1, Active DEF IInv, PlaceOK
      <4>. QED  BY <4>1, <4>3, <4>4, FirstStep
    <3>. QED  BY <2>1, <2>2, <3>1, <3>2 DEF InsOK
  <2>4. OutsOK(n)' /\ AsListed(n)'
    <3>1. Listed(n)' = Listed(n) /\ Class(n)' = Class(n) /\ OutsDone(n)' = OutsDone(n)
      BY <1>1, <2>1 DEF Listed, Class, K, OutsDone
    <3>. QED  BY <1>2, <2>1, <2>2, <3>1, SameRegular DEF OutsOK, AsListed
  <2>. QED  BY <1>1, <2>1, <2>2, <2>3, <2>4, OneMore
<1>. QED  BY <1>3, <1>4, ActivateInStep

LEMMA ActivateOutChannels == IInv /\ RegistryOK /\ ChannelsOK /\ ActivateOutPort => ChannelsOK'
<1>. SUFFICES ASSUME IInv, RegistryOK, ChannelsOK, ActivateOutPort PROVE ChannelsOK'
  OBVIOUS
<1>. DEFINE r == Entry.out[p]
<1>1. /\ pc = "out" /\ p \in 1..Len(Entry.out) /\ p \in Nat /\ n \in Made
      /\ r \in ListedPort /\ Len(Entry.out) \in Nat
      /\ \A j \in 1..Len(Entry.out) : Entry.out[j] \in ListedPort
      /\ n \in 1..Len(recipe.entries) /\ K(n) \in DOMAIN Kernels
  BY EntryOK DEF ActivateOutPort, IInv, PlaceOK, TypeOK
<1>2. InsOK(n) /\ OutsOK(n) /\ AsListed(n) /\ Registry(n)
  BY <1>1 DEF ChannelsOK, RegistryOK, KernelOK
<1>3. CASE Abort
  BY <1>3, KeepChannels DEF Abort
<1>4. CASE NextPort /\ ~Abort
  <2>1. /\ UNCHANGED <<recipe, n, pc, dups>> /\ p' = p + 1
        /\ Listed(n) = Entry /\ Listed(n)' = Entry /\ Class(n)' = Class(n)
        /\ OutsDone(n) = p - 1 /\ OutsDone(n)' = p /\ InsDone(n)' = InsDone(n)
    BY <1>1, <1>4 DEF NextPort, Listed, Entry, Class, K, OutsDone, InsDone
  <2>2. /\ Made' = Made /\ \A i \in Made \ {n} : ports'[i] = ports[i]
        /\ ports'[n].in = ports[n].in /\ DOMAIN ports'[n].out = DOMAIN ports[n].out
        /\ \A t \in DOMAIN ports[n].out :
             \/ t = r.name /\ r.channel = "none"
             \/ t # r.name /\ ports'[n].out[t] = ports[n].out[t]
             \/ /\ t = r.name /\ r.channel # "none"
                /\ ports'[n].out[t].channel = IF ports[n].out[t].channel = "inactive"
                                              THEN r.channel ELSE ports[n].out[t].channel
                /\ r.channel \in Local => ports'[n].out[t].sem = r.sem
        /\ r.channel # "none" => r.name \in DOMAIN ports[n].out
    <3>1. CASE UNCHANGED ports /\ Skips(r)
      BY <3>1 DEF Skips, Made
    <3>2. CASE /\ r.name \in DOMAIN ports[n].out /\ r.channel # "none"
               /\ PutOut(r.name, ActivateOut(ports[n].out[r.name], r))
      <4>1. ports[n].out[r.name] \in PortRecord
        BY <1>1, <3>2 DEF IInv, TypeOK
      <4>2. /\ ActivateOut(ports[n].out[r.name], r) \in PortRecord
            /\ ActivateOut(ports[n].out[r.name], r).channel =
                 IF ports[n].out[r.name].channel = "inactive"
                   THEN r.channel ELSE ports[n].out[r.name].channel
            /\ r.channel \in Local => ActivateOut(ports[n].out[r.name], r).sem = r.sem
        BY <1>1, <3>2, <4>1, Activated
      <4>3. /\ Made' = Made /\ \A i \in Made \ {n} : ports'[i] = ports[i]
            /\ ports'[n].in = ports[n].in
            /\ DOMAIN ports'[n].out = DOMAIN ports[n].out \cup {r.name}
            /\ ports'[n].out[r.name] = ActivateOut(ports[n].out[r.name], r)
            /\ \A t \in DOMAIN ports[n].out :
                 t # r.name => ports'[n].out[t] = ports[n].out[t]
        <5>. HIDE DEF r
        <5>. QED  BY <1>1, <3>2, <4>2, PutOK
      <4>. QED  BY <3>2, <4>2, <4>3
    <3>. QED  BY <1>4, <3>1, <3>2, ActivateOutStep
  <2>3. InsOK(n)'
    BY <1>2, <2>1, <2>2 DEF InsOK
  <2>4. OutsOK(n)'
    <3>1. ASSUME NEW t \in DOMAIN Class(n), Given(Entry.out, t)
          PROVE  First(Entry.out, p, t, ports'[n].out[t].channel)
      <4>1. First(Entry.out, p - 1, t, ports[n].out[t].channel) /\ t \in DOMAIN ports[n].out
        BY <1>2, <2>1, <3>1 DEF OutsOK, Registry
      <4>2. t = r.name => r.channel # "none"
        BY <1>1, <3>1 DEF Given
      <4>3. ports'[n].out[t].channel =
              IF r.name = t /\ ports[n].out[t].channel = "inactive"
                THEN r.channel ELSE ports[n].out[t].channel
        BY <2>2, <4>1, <4>2
      <4>4. p - 1 \in Nat /\ (p - 1) + 1 = p
            /\ \A j \in 1..(p - 1) : Entry.out[j].channel # "inactive"
        BY <1>1, Active
      <4>. QED  BY <4>1, <4>3, <4>4, FirstStep
    <3>. QED  BY <2>1, <3>1 DEF OutsOK
  <2>5. AsListed(n)'
    <3>. SUFFICES ASSUME Regular, NEW j \in 1..p
                  PROVE  LET q == Entry.out[j] IN
                         /\ q.name \in DOMAIN ports'[n].out
                         /\ ports'[n].out[q.name].channel = q.channel
                         /\ q.channel \in Local => ports'[n].out[q.name].sem = q.sem
      BY <2>1, SameRegular DEF AsListed
    <3>1. Distinct(Names(Entry.out))
      BY <1>1, <2>1, RegularEntry
    <3>2. CASE j # p
      <4>1. j \in 1..(p - 1) /\ j \in 1..Len(Entry.out)
        BY <1>1, <3>2
      <4>2. Entry.out[j].name # r.name
        BY <1>1, <3>1, <3>2, <4>1, DistinctNames
      <4>. QED  BY <1>2, <2>1, <2>2, <4>1, <4>2 DEF AsListed
    <3>3. CASE j = p
      <4>1. r.channel \in Local \cup Remote
            /\ (\/ r.dup = "" /\ r.name \in DOMAIN Class(n)
                \/ r.name \notin DOMAIN Class(n) /\ K(n) \notin NoDuplicates)
        BY <1>1, <2>1, RegularPorts
      <4>2. r.channel # "none"
        BY <4>1 DEF Local, Remote
      <4>3. r.dup = "" /\ r.name \in DOMAIN Class(n)
        BY <1>1, <4>1, CatalogFacts DEF ActivateOutPort, AcceptsOut, Class, K, Entry,
           NoDuplicates
      <4>4. \A k \in 1..Len(Entry.out) : Entry.out[k].name = r.name => k = p
        BY <1>1, <3>1, DistinctNames
      <4>5. Given(Entry.out, r.name)
        BY <4>2, <4>3, <4>4 DEF Given
      <4>6. First(Entry.out, p - 1, r.name, ports[n].out[r.name].channel)
        BY <1>2, <2>1, <4>3, <4>5 DEF OutsOK
      <4>7. \A k \in 1..(p - 1) : Entry.out[k].name # r.name
        BY <1>1, <4>4
      <4>8. ports[n].out[r.name].channel = "inactive"
        BY <4>6, <4>7 DEF First
      <4>. QED  BY <2>2, <3>3, <4>2, <4>8
    <3>. QED  BY <3>2, <3>3
  <2>. QED  BY <1>1, <2>1, <2>2, <2>3, <2>4, <2>5, OneMore
<1>. QED  BY <1>3, <1>4, ActivateOutStep

LEMMA DuplicateChannels == IInv /\ RegistryOK /\ ChannelsOK /\ DuplicateOutPort => ChannelsOK'
<1>. SUFFICES ASSUME IInv, RegistryOK, ChannelsOK, DuplicateOutPort PROVE ChannelsOK'
  OBVIOUS
<1>. DEFINE r == Entry.out[p]
<1>1. /\ pc = "out" /\ p \in 1..Len(Entry.out) /\ p \in Nat /\ n \in Made
      /\ r \in ListedPort /\ Len(Entry.out) \in Nat
      /\ \A j \in 1..Len(Entry.out) : Entry.out[j] \in ListedPort
      /\ n \in 1..Len(recipe.entries) /\ K(n) \in DOMAIN Kernels
  BY EntryOK DEF DuplicateOutPort, IInv, PlaceOK, TypeOK
<1>2. InsOK(n) /\ OutsOK(n) /\ AsListed(n) /\ Registry(n)
  BY <1>1 DEF ChannelsOK, RegistryOK, KernelOK
<1>3. r.name \notin DOMAIN Class(n)
  BY <1>1, CatalogFacts DEF DuplicateOutPort, AcceptsOut, Class, K, Entry
<1>4. CASE Abort
  BY <1>4, KeepChannels DEF Abort
<1>5. CASE ~Abort
  <2>1. /\ UNCHANGED <<recipe, n, pc>> /\ p' = p + 1
        /\ Listed(n) = Entry /\ Listed(n)' = Entry /\ Class(n)' = Class(n)
        /\ OutsDone(n) = p - 1 /\ OutsDone(n)' = p /\ InsDone(n)' = InsDone(n)
    <3>1. UNCHANGED <<recipe, n, pc>> /\ p' = p + 1
      BY <1>5, DuplicateStep DEF NextPort
    <3>. QED  BY <1>1, <3>1 DEF Listed, Entry, Class, K, OutsDone, InsDone
  <2>2. /\ Made' = Made /\ \A i \in Made \ {n} : ports'[i] = ports[i]
        /\ ports'[n].in = ports[n].in
        /\ \A t \in DOMAIN ports[n].out : /\ t \in DOMAIN ports'[n].out
                                          /\ t # r.name => ports'[n].out[t] = ports[n].out[t]
        /\ \/ r.dup \notin YamlKernels[K(n)].dup \/ Skips(r)
           \/ /\ r.name \in DOMAIN ports'[n].out
              /\ ports'[n].out[r.name].channel = r.channel
              /\ r.channel \in Local => ports'[n].out[r.name].sem = r.sem
    <3>1. CASE UNCHANGED ports /\ (r.dup \notin YamlKernels[K(n)].dup \/ Skips(r))
      BY <3>1 DEF Made
    <3>2. ASSUME NEW d \in PortRecord, d.channel = r.channel,
                 r.channel \in Local => d.sem = r.sem, PutOut(r.name, d)
          PROVE  /\ Made' = Made /\ \A i \in Made \ {n} : ports'[i] = ports[i]
                 /\ ports'[n].in = ports[n].in
                 /\ DOMAIN ports'[n].out = DOMAIN ports[n].out \cup {r.name}
                 /\ ports'[n].out[r.name] = d
                 /\ \A t \in DOMAIN ports[n].out :
                      t # r.name => ports'[n].out[t] = ports[n].out[t]
      <4>. HIDE DEF r
      <4>. QED  BY <1>1, <3>2, PutOK
    <3>3. CASE \E d \in PortRecord : /\ d.channel = r.channel
                                     /\ r.channel \in Local => d.sem = r.sem
                                     /\ PutOut(r.name, d)
      BY <3>2, <3>3
    <3>. QED  BY <1>5, <3>1, <3>3, DuplicateStep
  <2>3. InsOK(n)'
    BY <1>2, <2>1, <2>2 DEF InsOK
  <2>4. OutsOK(n)'
    <3>1. ASSUME NEW t \in DOMAIN Class(n), Given(Entry.out, t)
          PROVE  First(Entry.out, p, t, ports'[n].out[t].channel)
      <4>1. First(Entry.out, p - 1, t, ports[n].out[t].channel) /\ t \in DOMAIN ports[n].out
        BY <1>2, <2>1, <3>1 DEF OutsOK, Registry
      <4>2. ports'[n].out[t].channel =
              IF r.name = t /\ ports[n].out[t].channel = "inactive"
                THEN r.channel ELSE ports[n].out[t].channel
        BY <1>3, <2>2, <4>1
      <4>3. p - 1 \in Nat /\ (p - 1) + 1 = p
            /\ \A j \in 1..(p - 1) : Entry.out[j].channel # "inactive"
        BY <1>1, Active
      <4>. QED  BY <4>1, <4>2, <4>3, FirstStep
    <3>. QED  BY <2>1, <3>1 DEF OutsOK
  <2>5. AsListed(n)'
    <3>. SUFFICES ASSUME Regular, NEW j \in 1..p
                  PROVE  LET q == Entry.out[j] IN
                         /\ q.name \in DOMAIN ports'[n].out
                         /\ ports'[n].out[q.name].channel = q.channel
                         /\ q.channel \in Local => ports'[n].out[q.name].sem = q.sem
      BY <2>1, SameRegular DEF AsListed
    <3>1. CASE j # p
      <4>1. j \in 1..(p - 1) /\ j \in 1..Len(Entry.out)
        BY <1>1, <3>1
      <4>2. Entry.out[j].name # r.name
        BY <1>1, <2>1, <3>1, <4>1, RegularEntry, DistinctNames
      <4>. QED  BY <1>2, <2>1, <2>2, <4>1, <4>2 DEF AsListed
    <3>2. CASE j = p
      <4>1. /\ r.channel \in Local \cup Remote /\ r.dup \in DOMAIN Class(n)
            /\ K(n) \notin NoDuplicates
        BY <1>1, <1>3, <2>1, RegularPorts
      <4>2. r.dup \in YamlKernels[K(n)].dup /\ ~Skips(r)
        BY <1>1, <4>1, CatalogFacts DEF Class, Skips, Local, Remote
      <4>. QED  BY <2>2, <3>2, <4>2
    <3>. QED  BY <3>1, <3>2
  <2>. QED  BY <1>1, <2>1, <2>2, <2>3, <2>4, <2>5, OneMore
<1>. QED  BY <1>4, <1>5

LEMMA MadeChannels == IInv /\ RegistryOK /\ ChannelsOK /\ InitKernel => ChannelsOK'
<1>. SUFFICES ASSUME IInv, RegistryOK, ChannelsOK, InitKernel PROVE ChannelsOK'
  OBVIOUS
<1>0. pc = "init" /\ \A i \in Made : i # n
  BY DEF InitKernel, IInv, PlaceOK
<1>1. CASE Abort
  BY <1>1, KeepChannels DEF Abort
<1>2. CASE Entry.kernel \notin DOMAIN Kernels /\ ~Abort
  <2>1. UNCHANGED <<recipe, pc, ports>>
    BY <1>2 DEF InitKernel
  <2>. QED  BY <1>0, <2>1, KeepChannels DEF InsDone, OutsDone
<1>3. CASE Entry.kernel \in DOMAIN Kernels /\ ~Abort
  <2>1. /\ Made' = Made \cup {n} /\ n \in 1..Len(recipe.entries)
        /\ \A i \in Made : ports'[i] = ports[i]
        /\ ports'[n] = [in |-> RegisterAll(InPorts(Entry)),
                        out |-> RegisterAll(Kernels[Entry.kernel].out)]
        /\ pc' = "in" /\ p' = 1 /\ UNCHANGED <<recipe, n>>
    BY <1>3, MadeStep
  <2>2. \A i \in Made : InsOK(i)' /\ OutsOK(i)' /\ AsListed(i)'
    <3>1. \A i \in Made : InsDone(i)' = InsDone(i) /\ OutsDone(i)' = OutsDone(i)
      BY <1>0, <2>1 DEF InsDone, OutsDone
    <3>. QED  BY <1>0, <2>1, <3>1, SameChannels DEF ChannelsOK
  <2>3. InsOK(n)' /\ OutsOK(n)' /\ AsListed(n)'
    <3>1. /\ InsDone(n)' = 0 /\ OutsDone(n)' = 0
          /\ Class(n)' = Kernels[Entry.kernel].out
      BY <2>1 DEF InsDone, OutsDone, Class, K, Entry
    <3>2. /\ \A t \in DOMAIN ports'[n].in : ports'[n].in[t].channel = "inactive"
          /\ \A t \in DOMAIN Class(n)' : ports'[n].out[t].channel = "inactive"
      <4>1. Typed(InPorts(Entry)) /\ Typed(Kernels[Entry.kernel].out)
        BY <1>3, InPortsOK, CatalogFacts
      <4>2. /\ DOMAIN RegisterAll(InPorts(Entry)) = DOMAIN InPorts(Entry)
            /\ \A t \in DOMAIN InPorts(Entry) :
                 RegisterAll(InPorts(Entry))[t].channel = "inactive"
        BY <4>1, RegisteredOK
      <4>3. \A t \in DOMAIN Kernels[Entry.kernel].out :
              RegisterAll(Kernels[Entry.kernel].out)[t].channel = "inactive"
        BY <4>1, RegisteredOK
      <4>. QED  BY <2>1, <3>1, <4>2, <4>3
    <3>3. \A rs, t : First(rs, 0, t, "inactive")
      BY DEF First
    <3>. QED  BY <2>1, <3>1, <3>2, <3>3 DEF InsOK, OutsOK, AsListed
  <2>. QED  BY <2>1, <2>2, <2>3 DEF ChannelsOK
<1>. QED  BY <1>1, <1>2, <1>3

LEMMA KeptChannels == IInv /\ RegistryOK /\ ChannelsOK /\ KeepKernel => ChannelsOK'
<1>. SUFFICES ASSUME IInv, RegistryOK, ChannelsOK, KeepKernel PROVE ChannelsOK'
  OBVIOUS
<1>1. /\ pc = "out" /\ pc' = "init" /\ p > Len(Entry.out)
      /\ UNCHANGED <<recipe, p, ports>> /\ p \in Nat /\ Len(Entry.out) \in Nat
  BY EntryOK DEF KeepKernel, IInv, PlaceOK
<1>2. p - 1 = Len(Entry.out)
  BY <1>1 DEF RegistryOK, BoundsOK
<1>. QED  BY <1>1, <1>2, KeepChannels DEF InsDone, OutsDone, Entry

LEMMA InDoneChannels == IInv /\ RegistryOK /\ ChannelsOK /\ InPortsDone => ChannelsOK'
<1>. SUFFICES ASSUME IInv, RegistryOK, ChannelsOK, InPortsDone PROVE ChannelsOK'
  OBVIOUS
<1>1. /\ pc = "in" /\ pc' = "out" /\ p' = 1 /\ p > Len(Entry.in)
      /\ UNCHANGED <<recipe, n, ports>> /\ p \in Nat /\ Len(Entry.in) \in Nat
  BY EntryOK DEF InPortsDone, IInv, PlaceOK
<1>2. p - 1 = Len(Entry.in)
  BY <1>1 DEF RegistryOK, BoundsOK
<1>. QED  BY <1>1, <1>2, KeepChannels DEF InsDone, OutsDone, Entry

LEMMA ChannelsInit == Init => ChannelsOK
BY DEF Init, ChannelsOK, Made, NoMap

LEMMA ChannelsStep == IInv /\ RegistryOK /\ ChannelsOK /\ [Next]_vars => ChannelsOK'
<1>. SUFFICES ASSUME IInv, RegistryOK, ChannelsOK, [Next]_vars PROVE ChannelsOK'
  OBVIOUS
<1>1. CASE \/ ParseConnections \/ Link \/ LinksDone \/ SpawnSingle
           \/ Exe \/ ExeReturns \/ Join \/ RemoveKernelMap \/ RemoveSingleKernelVector
           \/ \E i \in Made : Crash(i) \/ Stop(i) \/ NeverEnd(i)
  <2>1. /\ UNCHANGED <<recipe, ports>> /\ pc \notin {"in", "out", "aborted"}
        /\ pc' \notin {"in", "out"}
    BY <1>1 DEF ParseConnections, Link, LinksDone, SpawnSingle, Exe,
       ExeReturns, Join, RemoveKernelMap, RemoveSingleKernelVector, Crash, Stop, NeverEnd, Runs, Abort
  <2>. QED  BY <2>1, KeepChannels DEF InsDone, OutsDone
<1>2. CASE UNCHANGED vars
  <2>1. UNCHANGED <<recipe, pc, n, p, ports>>
    BY <1>2 DEF vars
  <2>. QED  BY <2>1, KeepChannels DEF InsDone, OutsDone
<1>. QED  BY <1>1, <1>2, InDoneChannels, MadeChannels, KeptChannels, ActivateInChannels,
             ActivateOutChannels, DuplicateChannels DEF Next, Main

(* The entries that make() has been through have left their channels, the  *)
(* first one of each port, in the kernel's tables.                         *)
THEOREM ChannelsInvariance == Spec => [](IInv /\ RegistryOK /\ ChannelsOK)
BY InitOK, StepOK, RegistryInit, RegistryStep, ChannelsInit, ChannelsStep, PTL DEF Spec

(* When the kernels run, every port is what the recipe's first entry for   *)
(* it says; in a documented recipe that goes for the semantics and the     *)
(* duplicates, too.                                                        *)
THEOREM PortsAreAsTheRecipeSays == Spec => []AsTheRecipeSays
<1>1. IInv /\ RegistryOK /\ ChannelsOK => AsTheRecipeSays
  <2>. SUFFICES ASSUME IInv, RegistryOK, ChannelsOK, pc \in {"exe", "join"}, NEW i \in Made
                PROVE  LET e == recipe.entries[i]
                           regular == Documented /\ MayDuplicate
                       IN
                       /\ regular => ToSet(Names(e.out)) \subseteq DOMAIN ports[i].out
                       /\ \A t \in ToSet(Names(e.in)) \cap DOMAIN ports[i].in :
                            Plainly(e.in, t) => ports[i].in[t].channel = FirstOf(e.in, t).channel
                       /\ \A t \in ToSet(Names(e.out)) \cap DOMAIN ports[i].out :
                            LET r == FirstOf(e.out, t) IN
                            /\ regular \/ Plainly(e.out, t) => ports[i].out[t].channel = r.channel
                            /\ regular /\ r.channel \in Local => ports[i].out[t].sem = r.sem
    BY DEF AsTheRecipeSays
  <2>. DEFINE e == recipe.entries[i]
  <2>1. /\ i \in 1..Len(recipe.entries) /\ K(i) \in DOMAIN Kernels
        /\ Len(e.in) \in Nat /\ Len(e.out) \in Nat
        /\ InsDone(i) = Len(e.in) /\ OutsDone(i) = Len(e.out) /\ Listed(i) = e
        /\ InsOK(i) /\ OutsOK(i) /\ AsListed(i) /\ Registry(i)
        /\ \A d \in ToSet(dups[i]) : DupOK(i, d)
    BY DoneOK DEF IInv, TypeOK, PlaceOK, InsDone, OutsDone, Listed, ChannelsOK, RegistryOK,
       KernelOK
  <2>2. ASSUME NEW t \in ToSet(Names(e.in)) \cap DOMAIN ports[i].in, Plainly(e.in, t)
        PROVE  ports[i].in[t].channel = FirstOf(e.in, t).channel
    BY <2>1, <2>2, FirstLast DEF InsOK, Plainly, Given
  <2>3. ASSUME NEW t \in ToSet(Names(e.out)) \cap DOMAIN ports[i].out, Plainly(e.out, t)
        PROVE  ports[i].out[t].channel = FirstOf(e.out, t).channel
    <3>1. t \in DOMAIN Class(i)
      <4>1. ASSUME t \in DupNames(i) PROVE FALSE
        <5>1. PICK d \in ToSet(dups[i]) : t = d[2]
          BY <4>1 DEF DupNames
        <5>2. PICK j \in 1..Len(e.out) : e.out[j].name = t /\ e.out[j].dup = d[1]
          BY <2>1, <5>1 DEF DupOK
        <5>3. d[1] # ""
          BY <2>1, CatalogFacts DEF DupOK
        <5>. QED  BY <2>3, <5>2, <5>3 DEF Plainly
      <4>. QED  BY <2>1, <4>1 DEF Registry
    <3>. QED  BY <2>1, <2>3, <3>1, FirstLast DEF OutsOK, Plainly, Given
  <2>4. ASSUME Regular, NEW t \in ToSet(Names(e.out))
        PROVE  LET r == FirstOf(e.out, t) IN
               /\ t \in DOMAIN ports[i].out /\ ports[i].out[t].channel = r.channel
               /\ r.channel \in Local => ports[i].out[t].sem = r.sem
    <3>1. PICK j \in 1..Len(e.out) : e.out[j].name = t
      BY DEF ToSet, Names
    <3>2. FirstOf(e.out, t) = e.out[j]
      <4>1. \A k \in 1..Len(e.out) : e.out[k].name = t <=> k = j
        BY <2>1, <2>4, <3>1, RegularEntry, DistinctNames
      <4>2. \A k \in 1..Len(e.out) :
              (e.out[k].name = t /\ \A m \in 1..(k - 1) : e.out[m].name # t) <=> k = j
        BY <4>1
      <4>. QED  BY <4>2 DEF FirstOf
    <3>. QED  BY <2>1, <2>4, <3>1, <3>2 DEF AsListed
  <2>. QED  BY <2>2, <2>3, <2>4 DEF Regular
<1>. QED  BY <1>1, ChannelsInvariance, PTL
-----------------------------------------------------------------------------
(* Streams are linked between kernels that were made, and when main goes   *)
(* on from waiting for them, they have ended.                              *)
StreamsOK == \A l \in links : l.send \in Made /\ l.recv \in Made
EndedOK ==
  /\ pc \in {"join", "free"} => \A i \in InPipeline : thread[i] = "ended"
  /\ pc = "free" => \A i \in Made : Single(i) => thread[i] = "ended"

(* The streams are those of the connections main has been through.         *)
ConnsDone == IF pc \in {"init", "in", "out"} THEN 0
             ELSE IF pc = "link" THEN p - 1 ELSE Len(recipe.conns)
IsStream(l, c) ==
  /\ recipe.entries[l.send].id = c.send /\ l.sendPort = c.sendPort
  /\ recipe.entries[l.recv].id = c.recv /\ l.recvPort = c.recvPort
LinksOK ==
  /\ pc = "link" => p <= Len(recipe.conns) + 1
  /\ \A l \in links : \E j \in 1..ConnsDone : IsStream(l, recipe.conns[j])
  /\ \A j \in 1..ConnsDone : \E l \in links : IsStream(l, recipe.conns[j])

(* A documented recipe is not given up, and all of its kernels are made.   *)
AllMade == /\ \A i \in 1..Len(recipe.entries) : i < n => i \in Made
           /\ pc \notin {"init", "in", "out"} => n > Len(recipe.entries)
NotGivenUp == Regular => pc # "aborted" /\ AllMade /\ LinksOK
DInv == IInv /\ RegistryOK /\ ChannelsOK /\ StreamsOK /\ EndedOK /\ NotGivenUp

LEMMA StreamsStep == IInv /\ StreamsOK /\ [Next]_vars => StreamsOK'
<1>. SUFFICES ASSUME IInv, StreamsOK, [Next]_vars PROVE StreamsOK'
  OBVIOUS
<1>1. Made \subseteq Made'
  <2>1. CASE InitKernel
    <3>1. CASE ports' = ports
      BY <3>1 DEF Made
    <3>2. CASE ports' # ports
      <4>1. Entry.kernel \in DOMAIN Kernels /\ ~Abort
        BY <2>1, <3>2 DEF InitKernel, Abort
      <4>. QED  BY <2>1, <4>1, MadeStep
    <3>. QED  BY <3>1, <3>2
  <2>2. CASE ActivateInPort \/ ActivateOutPort \/ DuplicateOutPort
    BY <2>2 DEF ActivateInPort, ActivateOutPort, DuplicateOutPort, Abort, Made
  <2>3. CASE ~(InitKernel \/ ActivateInPort \/ ActivateOutPort \/ DuplicateOutPort)
    <3>1. ports' = ports
      BY <2>3 DEF Next, Main, InPortsDone, KeepKernel, ParseConnections, Link, LinksDone,
         SpawnSingle, Exe, ExeReturns, Join, RemoveKernelMap, RemoveSingleKernelVector,
         Crash, Stop, NeverEnd, Abort, vars
    <3>. QED  BY <3>1 DEF Made
  <2>. QED  BY <2>1, <2>2, <2>3
<1>2. links' = links \/ \E c : /\ links' = links \cup {Stream(c)} /\ Linkable(c)
                               /\ kernelMap' = kernelMap
  <2>1. CASE Link
    BY <2>1 DEF Link, Abort
  <2>2. CASE ~Link
    BY <2>2 DEF Next, Main, InitKernel, ActivateInPort, InPortsDone, ActivateOutPort,
       DuplicateOutPort, NextPort, KeepKernel, ParseConnections, LinksDone,
       SpawnSingle, Exe, ExeReturns, Join, RemoveKernelMap, RemoveSingleKernelVector,
       Crash, Stop, NeverEnd, Abort, vars
  <2>. QED  BY <2>1, <2>2
<1>3. CASE links' = links
  BY <1>1, <1>3 DEF StreamsOK
<1>4. ASSUME NEW c, links' = links \cup {Stream(c)}, Linkable(c) PROVE StreamsOK'
  <2>1. Stream(c).send \in Made /\ Stream(c).recv \in Made
    BY <1>4 DEF Linkable, Stream, IInv, KeptOK
  <2>. QED  BY <1>1, <1>4, <2>1 DEF StreamsOK
<1>. QED  BY <1>2, <1>3, <1>4

LEMMA EndedStep == IInv /\ StreamsOK /\ EndedOK /\ [Next]_vars => EndedOK'
<1>. SUFFICES ASSUME IInv, StreamsOK, EndedOK, [Next]_vars PROVE EndedOK'
  OBVIOUS
<1>1. DOMAIN thread = Made /\ InPipeline \subseteq Made
  BY DEF IInv, TypeOK, InPipeline, StreamsOK
<1>2. CASE pc' \notin {"join", "free"}
  BY <1>2 DEF EndedOK
<1>3. CASE ExeReturns
  <2>1. pc' = "join" /\ UNCHANGED <<links, thread>> /\ \A i \in InPipeline : thread[i] = "ended"
    BY <1>3 DEF ExeReturns
  <2>. QED  BY <2>1 DEF EndedOK, InPipeline
<1>4. CASE Join
  <2>1. /\ pc = "join" /\ pc' = "free" /\ UNCHANGED <<recipe, ports, links, thread>>
        /\ \A i \in ToSet(singles) : thread[i] = "ended"
    BY <1>4, LenProperties DEF Join, ToSet, IInv, PlaceOK
  <2>2. \A i \in Made : Single(i) => i \in ToSet(singles)
    BY <2>1 DEF IInv, KeptOK, Kept
  <2>. QED  BY <2>1, <2>2 DEF EndedOK, InPipeline, Made, Single
<1>5. ASSUME NEW i \in Made, Stop(i) PROVE EndedOK'
  <2>1. /\ UNCHANGED <<recipe, pc, ports, links>>
        /\ \A j \in Made : thread'[j] = IF j = i THEN "ended" ELSE thread[j]
    BY <1>1, <1>5 DEF Stop
  <2>. QED  BY <1>1, <2>1 DEF EndedOK, InPipeline, Made, Single
<1>8. ASSUME NEW i \in Made, NeverEnd(i) PROVE EndedOK'
  <2>1. /\ UNCHANGED <<recipe, pc, ports, links>> /\ thread[i] = "running" /\ pc # "free"
        /\ \A j \in Made : j # i => thread'[j] = thread[j]
    BY <1>1, <1>8 DEF NeverEnd, Runs
  <2>2. pc = "join" => i \notin InPipeline
    BY <2>1 DEF EndedOK
  <2>. QED  BY <1>1, <2>1, <2>2 DEF EndedOK, InPipeline, Made, Single
<1>6. CASE RemoveKernelMap \/ UNCHANGED vars
  <2>1. UNCHANGED <<recipe, pc, ports, links, thread>>
    BY <1>6 DEF RemoveKernelMap, vars
  <2>. QED  BY <2>1 DEF EndedOK, InPipeline, Made, Single
<1>7. CASE pc' \in {"join", "free"}
  <2>1. \/ ExeReturns \/ Join \/ RemoveKernelMap \/ UNCHANGED vars
        \/ \E i \in Made : Stop(i) \/ NeverEnd(i)
    BY <1>7 DEF Next, Main, InitKernel, ActivateInPort, InPortsDone, ActivateOutPort,
       DuplicateOutPort, NextPort, KeepKernel, ParseConnections, Link, LinksDone,
       SpawnSingle, Exe, RemoveSingleKernelVector, Crash, Abort
  <2>. QED  BY <1>3, <1>4, <1>5, <1>6, <1>8, <2>1
<1>. QED  BY <1>2, <1>7

(* The parts of a documented recipe's connections.                         *)
LEMMA ConnTypes ==
  ASSUME recipe \in Recipes
  PROVE  /\ Len(recipe.conns) \in Nat
         /\ \A j \in 1..Len(recipe.conns) : recipe.conns[j] \in Conns
         /\ \A c \in Conns : \E j \in 1..Len(recipe.conns) : recipe.conns[j] = c
<1>1. recipe.conns \in Seq(Connection)
  BY RecipesAssumption DEF Recipe
<1>. QED  BY <1>1, LenProperties DEF Conns, ToSet

LEMMA DistinctIds ==
  ASSUME Regular, NEW i \in 1..Len(recipe.entries), NEW j \in 1..Len(recipe.entries),
         recipe.entries[i].id = recipe.entries[j].id, Len(recipe.entries) \in Nat
  PROVE  i = j
<1>. DEFINE ids == [k \in 1..Len(recipe.entries) |-> recipe.entries[k].id]
<1>1. Distinct(ids) /\ Len(ids) = Len(recipe.entries) /\ ids[i] = ids[j]
  BY DEF Regular, Documented
<1>. QED  BY <1>1 DEF Distinct

LEMMA DistinctEnds ==
  ASSUME Regular, NEW i \in 1..Len(recipe.conns), NEW j \in 1..Len(recipe.conns),
         Len(recipe.conns) \in Nat,
         LET c == recipe.conns[i]
             d == recipe.conns[j]
         IN  \/ c.send = d.send /\ c.sendPort = d.sendPort
             \/ c.recv = d.recv /\ c.recvPort = d.recvPort
  PROVE  i = j
<1>. DEFINE S == [k \in 1..Len(recipe.conns) |-> <<recipe.conns[k].send, recipe.conns[k].sendPort>>]
            R == [k \in 1..Len(recipe.conns) |-> <<recipe.conns[k].recv, recipe.conns[k].recvPort>>]
<1>1. Distinct(S) /\ Len(S) = Len(recipe.conns) /\ Distinct(R) /\ Len(R) = Len(recipe.conns)
  BY DEF Regular, Documented
<1>2. S[i] = S[j] \/ R[i] = R[j]
  OBVIOUS
<1>. HIDE DEF S, R
<1>. QED  BY <1>1, <1>2 DEF Distinct

(* When main has been through the ports of a kernel, ...                   *)
LEMMA InPortListed ==
  ASSUME IInv, RegistryOK, ChannelsOK, Regular, pc \notin {"in", "aborted"}, NEW i \in Made,
         NEW j \in 1..Len(Listed(i).in)
  PROVE  LET r == Listed(i).in[j] IN
         /\ r.name \in DOMAIN ports[i].in /\ ports[i].in[r.name].channel = r.channel
<1>. DEFINE e == Listed(i)
            r == e.in[j]
<1>1. /\ i \in 1..Len(recipe.entries) /\ Len(e.in) \in Nat /\ InsDone(i) = Len(e.in)
      /\ InsOK(i) /\ Registry(i)
  BY DoneOK DEF IInv, TypeOK, InsDone, Listed, ChannelsOK, RegistryOK, KernelOK
<1>2. r.name \in DOMAIN ports[i].in
  BY <1>1, RegularPorts, RegularEntry DEF Registry, Listed
<1>3. \A k \in 1..Len(e.in) : e.in[k].name = r.name => k = j
  BY <1>1, RegularEntry, DistinctNames
<1>4. Given(e.in, r.name)
  BY <1>1, <1>3, RegularPorts DEF Given, Local, Remote
<1>5. First(e.in, Len(e.in), r.name, ports[i].in[r.name].channel)
  BY <1>1, <1>2, <1>4 DEF InsOK
<1>. QED  BY <1>1, <1>2, <1>3, <1>5 DEF First

(* ... those that are active are listed, ...                               *)
LEMMA ActiveInListed ==
  ASSUME IInv, RegistryOK, ChannelsOK, Regular, pc \notin {"in", "aborted"}, NEW i \in Made,
         NEW t \in DOMAIN ports[i].in, ports[i].in[t].channel # "inactive"
  PROVE  \E j \in 1..Len(Listed(i).in) : /\ Listed(i).in[j].name = t
                                         /\ Listed(i).in[j].channel = ports[i].in[t].channel
<1>. DEFINE e == Listed(i)
<1>1. /\ i \in 1..Len(recipe.entries) /\ InsDone(i) = Len(e.in) /\ InsOK(i)
  BY DEF IInv, TypeOK, InsDone, Listed, ChannelsOK
<1>2. Given(e.in, t)
  BY <1>1, RegularPorts DEF Given, Local, Remote
<1>3. First(e.in, Len(e.in), t, ports[i].in[t].channel)
  BY <1>1, <1>2 DEF InsOK
<1>. QED  BY <1>3 DEF First

LEMMA ActiveOutListed ==
  ASSUME IInv, RegistryOK, ChannelsOK, Regular, pc \notin {"in", "out", "aborted"},
         NEW i \in Made, NEW t \in DOMAIN ports[i].out, ports[i].out[t].channel # "inactive"
  PROVE  \E j \in 1..Len(Listed(i).out) : /\ Listed(i).out[j].name = t
                                          /\ Listed(i).out[j].channel = ports[i].out[t].channel
<1>. DEFINE e == Listed(i)
<1>1. /\ i \in 1..Len(recipe.entries) /\ OutsDone(i) = Len(e.out) /\ OutsOK(i)
      /\ AsListed(i) /\ Registry(i) /\ \A d \in ToSet(dups[i]) : DupOK(i, d)
  BY DEF IInv, TypeOK, OutsDone, Listed, ChannelsOK, RegistryOK, KernelOK
<1>2. CASE t \in DOMAIN Class(i)
  <2>1. Given(e.out, t)
    BY <1>1, RegularPorts DEF Given, Local, Remote
  <2>2. First(e.out, Len(e.out), t, ports[i].out[t].channel)
    BY <1>1, <1>2, <2>1 DEF OutsOK
  <2>. QED  BY <2>2 DEF First
<1>3. CASE t \in DupNames(i)
  <2>1. PICK d \in ToSet(dups[i]) : d[2] = t
    BY <1>3 DEF DupNames
  <2>2. PICK j \in 1..Len(e.out) : e.out[j].name = t
    BY <1>1, <2>1 DEF DupOK, Listed
  <2>. QED  BY <1>1, <2>2 DEF AsListed
<1>. QED  BY <1>1, <1>2, <1>3 DEF Registry

(* ... and their types are those of the documentation.                     *)
LEMMA InType ==
  ASSUME IInv, RegistryOK, Regular, NEW i \in Made, NEW t \in ToSet(Names(Listed(i).in))
  PROVE  /\ t \in DOMAIN ports[i].in
         /\ ports[i].in[t].type = TypeOn(Listed(i).in, Kernels[K(i)].in, t)
<1>1. i \in 1..Len(recipe.entries) /\ Registry(i)
  BY DEF IInv, TypeOK, RegistryOK, KernelOK
<1>2. PICK j \in 1..Len(Listed(i).in) : Listed(i).in[j].name = t
  BY DEF ToSet, Names
<1>3. t \in DOMAIN Kernels[K(i)].in /\ InPorts(Listed(i)) = Kernels[K(i)].in
  BY <1>1, <1>2, RegularPorts, RegularEntry
<1>. QED  BY <1>1, <1>3 DEF Registry, TypeOn, Listed

LEMMA OutType ==
  ASSUME IInv, RegistryOK, ChannelsOK, Regular, pc \notin {"in", "out", "aborted"},
         NEW i \in Made, NEW t \in ToSet(Names(Listed(i).out))
  PROVE  /\ t \in DOMAIN ports[i].out
         /\ ports[i].out[t].type = TypeOn(Listed(i).out, Kernels[K(i)].out, t)
<1>. DEFINE e == Listed(i)
<1>1. /\ i \in 1..Len(recipe.entries) /\ OutsDone(i) = Len(e.out) /\ Len(e.out) \in Nat
      /\ AsListed(i) /\ Registry(i) /\ \A d \in ToSet(dups[i]) : DupOK(i, d)
  BY DoneOK DEF IInv, TypeOK, OutsDone, Listed, ChannelsOK, RegistryOK, KernelOK
<1>2. PICK j \in 1..Len(e.out) : e.out[j].name = t
  BY DEF ToSet, Names
<1>3. t \in DOMAIN ports[i].out
  BY <1>1, <1>2 DEF AsListed
<1>4. CASE t \in DOMAIN Class(i)
  BY <1>1, <1>3, <1>4 DEF Registry, TypeOn, Class
<1>5. CASE t \notin DOMAIN Class(i)
  <2>1. PICK d \in ToSet(dups[i]) : d[2] = t
    BY <1>1, <1>3, <1>5 DEF Registry, DupNames
  <2>2. PICK k \in 1..Len(e.out) : e.out[k].name = t /\ e.out[k].dup = d[1]
    BY <1>1, <2>1 DEF DupOK, Listed
  <2>3. Distinct(Names(e.out)) /\ \A m \in 1..Len(e.out) : e.out[m].name = t <=> m = k
    BY <1>1, <2>2, RegularEntry, DistinctNames
  <2>4. (CHOOSE m \in 1..Len(e.out) : e.out[m].name = t) = k
    BY <2>3
  <2>5. TypeOn(e.out, Kernels[K(i)].out, t) = Class(i)[d[1]].type
    BY <1>5, <2>2, <2>4 DEF TypeOn, Class
  <2>. QED  BY <1>1, <1>3, <2>1, <2>3, <2>5 DEF DupOK, Listed
<1>. QED  BY <1>4, <1>5

(* The map leads from an id to the kernel with it.                         *)
LEMMA MapOf ==
  ASSUME IInv, NotGivenUp, Regular, pc = "link", NEW i \in 1..Len(recipe.entries), ~Single(i)
  PROVE  /\ i \in Made /\ recipe.entries[i].id \in DOMAIN kernelMap
         /\ kernelMap[recipe.entries[i].id] = i
<1>1. i \in Made /\ Len(recipe.entries) \in Nat
  BY Entries DEF NotGivenUp, AllMade, IInv, PlaceOK
<1>2. Kept(i)
  BY <1>1 DEF IInv, KeptOK
<1>. DEFINE m == kernelMap[recipe.entries[i].id]
<1>3. recipe.entries[i].id \in DOMAIN kernelMap
  BY <1>2 DEF Kept
<1>4. m \in 1..Len(recipe.entries) /\ recipe.entries[m].id = recipe.entries[i].id
  BY <1>3 DEF IInv, KeptOK, TypeOK
<1>5. m = i
  BY <1>1, <1>4, DistinctIds
<1>. QED  BY <1>1, <1>3, <1>5

(* A documented connection can be linked.                                  *)
LEMMA LinkDocumented ==
  ASSUME DInv, Regular, pc = "link", NEW c \in Conns
  PROVE  /\ Linkable(c)
         /\ recipe.entries[kernelMap[c.send]].id = c.send
         /\ recipe.entries[kernelMap[c.recv]].id = c.recv
<1>. USE DEF DInv
<1>0. recipe \in Recipes /\ Len(recipe.entries) \in Nat
  BY Entries DEF IInv, PlaceOK
<1>1. DocumentedConn(c)
  BY DEF Regular, Documented
<1>2. PICK a \in 1..Len(recipe.entries), b \in 1..Len(recipe.entries) :
        LET s == recipe.entries[a]
            r == recipe.entries[b]
        IN  /\ s.id = c.send /\ r.id = c.recv
            /\ s.single = "absent" /\ r.single = "absent"
            /\ c.sendPort \in ToSet(Names(s.out)) /\ c.recvPort \in ToSet(Names(r.in))
            /\ TypeOn(s.out, Kernels[s.kernel].out, c.sendPort)
                 = TypeOn(r.in, Kernels[r.kernel].in, c.recvPort)
  <2>1. \A s \in ToSet(recipe.entries) : \E a \in 1..Len(recipe.entries) : s = recipe.entries[a]
    BY <1>0, Entries, LenProperties DEF ToSet
  <2>. QED  BY <1>1, <2>1 DEF DocumentedConn
<1>3. /\ a \in Made /\ c.send \in DOMAIN kernelMap /\ kernelMap[c.send] = a
      /\ b \in Made /\ c.recv \in DOMAIN kernelMap /\ kernelMap[c.recv] = b
  BY <1>2, MapOf DEF Single
<1>4. /\ c.sendPort \in DOMAIN ports[a].out /\ c.recvPort \in DOMAIN ports[b].in
      /\ ports[a].out[c.sendPort].type = ports[b].in[c.recvPort].type
  BY <1>2, <1>3, InType, OutType DEF Listed, K
<1>5. ports[a].out[c.sendPort].channel = "raftlib"
  <2>1. PICK j \in 1..Len(Listed(a).out) : Listed(a).out[j].name = c.sendPort
    BY <1>2 DEF ToSet, Names, Listed
  <2>2. SendsTo(Listed(a), c.sendPort)
    BY <1>2 DEF SendsTo, Listed
  <2>3. Listed(a).out[j].channel = "raftlib"
    BY <1>2, <2>1, <2>2, RegularEntry DEF DocumentedPorts
  <2>. QED  BY <1>3, <2>1, <2>3 DEF ChannelsOK, AsListed, OutsDone, Listed
<1>6. ports[b].in[c.recvPort].channel = "raftlib"
  <2>1. PICK j \in 1..Len(Listed(b).in) : Listed(b).in[j].name = c.recvPort
    BY <1>2 DEF ToSet, Names, Listed
  <2>2. RecvsOn(Listed(b), c.recvPort)
    BY <1>2 DEF RecvsOn, Listed
  <2>3. Listed(b).in[j].channel = "raftlib"
    BY <1>2, <2>1, <2>2, RegularEntry DEF DocumentedPorts
  <2>. QED  BY <1>3, <2>1, <2>3, InPortListed
<1>7. {c.send, c.recv} \subseteq DOMAIN kernelMap
  BY <1>3
<1>. QED  BY <1>2, <1>3, <1>4, <1>5, <1>6, <1>7 DEF Linkable

(* When all connections are linked, so is every RaftLib port.              *)
LEMMA LinkedOK ==
  ASSUME DInv, Regular, pc \in {"spawn", "exe", "join"}, NEW i \in Made,
         NEW side \in {"in", "out"}, NEW t \in DOMAIN ports[i][side],
         ports[i][side][t].channel = "raftlib"
  PROVE  Linked(side, i, t)
<1>. USE DEF DInv
<1>0. /\ recipe \in Recipes /\ Len(recipe.entries) \in Nat /\ i \in 1..Len(recipe.entries)
      /\ Made \subseteq 1..Len(recipe.entries)
      /\ ConnsDone = Len(recipe.conns) /\ StreamsOK /\ LinksOK
  BY Entries DEF IInv, PlaceOK, TypeOK, ConnsDone, NotGivenUp
<1>1. CASE side = "in"
  <2>1. PICK j \in 1..Len(Listed(i).in) : /\ Listed(i).in[j].name = t
                                          /\ Listed(i).in[j].channel = "raftlib"
    BY <1>1, ActiveInListed
  <2>2. RecvsOn(Listed(i), t)
    BY <1>0, <2>1, RegularEntry DEF DocumentedPorts
  <2>3. PICK c \in Conns : c.recv = recipe.entries[i].id /\ c.recvPort = t
    BY <2>2 DEF RecvsOn, Listed
  <2>4. PICK l \in links : IsStream(l, c)
    BY <1>0, <2>3, ConnTypes DEF LinksOK
  <2>5. l.recv = i /\ l.recvPort = t
    BY <1>0, <2>3, <2>4, DistinctIds DEF IsStream, StreamsOK
  <2>. QED  BY <1>1, <2>5 DEF Linked, LinkedPorts
<1>2. CASE side = "out"
  <2>1. PICK j \in 1..Len(Listed(i).out) : /\ Listed(i).out[j].name = t
                                           /\ Listed(i).out[j].channel = "raftlib"
    BY <1>2, ActiveOutListed
  <2>2. SendsTo(Listed(i), t)
    BY <1>0, <2>1, RegularEntry DEF DocumentedPorts
  <2>3. PICK c \in Conns : c.send = recipe.entries[i].id /\ c.sendPort = t
    BY <2>2 DEF SendsTo, Listed
  <2>4. PICK l \in links : IsStream(l, c)
    BY <1>0, <2>3, ConnTypes DEF LinksOK
  <2>5. l.send = i /\ l.sendPort = t
    BY <1>0, <2>3, <2>4, DistinctIds DEF IsStream, StreamsOK
  <2>. QED  BY <1>2, <2>5 DEF Linked, LinkedPorts
<1>. QED  BY <1>1, <1>2

(* What run() uses is there.                                               *)
LEMMA NoCrash ==
  ASSUME DInv, Regular, NEW i \in Made
  PROVE  ~Crash(i)
<1>. USE DEF DInv
<1>. SUFFICES ASSUME pc \in {"spawn", "exe", "join"}, NEW side \in {"in", "out"},
                     NEW t \in Needs(recipe.entries[i])[side]
              PROVE  Usable(side, i, t)
  BY DEF Crash, Runs
<1>0. i \in 1..Len(recipe.entries) /\ DocumentedPorts(Listed(i))
  BY RegularEntry DEF IInv, TypeOK
<1>1. t \in DOMAIN ports[i][side] /\ ports[i][side][t].channel # "inactive"
  <2>1. CASE side = "in"
    <3>1. t \in Awaited(Listed(i).kernel)
      BY <2>1 DEF Needs, Listed
    <3>2. PICK j \in 1..Len(Listed(i).in) : Listed(i).in[j].name = t
      BY <1>0, <3>1 DEF DocumentedPorts, ToSet, Names
    <3>3. Listed(i).in[j].channel # "inactive"
      BY <1>0, <3>2, RegularPorts DEF Local, Remote
    <3>. QED  BY <2>1, <3>2, <3>3, InPortListed
  <2>2. CASE side = "out"
    <3>1. PICK j \in 1..Len(Listed(i).out) : Listed(i).out[j].name = t
      BY <1>0, <2>2 DEF DocumentedPorts, ToSet, Names, Listed
    <3>2. Listed(i).out[j].channel # "inactive"
      BY <1>0, <3>1, RegularPorts DEF Local, Remote
    <3>. QED  BY <2>2, <3>1, <3>2 DEF ChannelsOK, AsListed, OutsDone, Listed
  <2>. QED  BY <2>1, <2>2
<1>. QED  BY <1>1, LinkedOK DEF Usable

(* Where main could give up in a documented recipe, it does not.           *)
LEMMA NoRefusal ==
  ASSUME DInv, Regular
  PROVE  /\ InitKernel => Entry.kernel \in DOMAIN Kernels /\ ~Abort
         /\ ActivateInPort \/ ActivateOutPort \/ DuplicateOutPort => ~Abort
         /\ Exe => ~Abort
<1>. USE DEF DInv
<1>1. pc # "aborted"
  BY DEF NotGivenUp
<1>2. ASSUME InitKernel PROVE Entry.kernel \in DOMAIN Kernels /\ ~Abort
  <2>1. n \in 1..Len(recipe.entries)
    BY <1>2, Entries DEF InitKernel, IInv, PlaceOK
  <2>2. /\ Entry.kernel \in DOMAIN Kernels
        /\ YamlKernels[Entry.kernel].others \subseteq Entry.others
    BY <2>1, RegularEntry DEF K, Listed, Entry
  <2>. QED  BY <1>1, <1>2, <2>2 DEF InitKernel, Abort
<1>3. ASSUME ActivateInPort PROVE ~Abort
  <2>1. /\ pc = "in" /\ n \in Made /\ n \in 1..Len(recipe.entries)
        /\ p \in 1..Len(Entry.in) /\ Listed(n) = Entry /\ Registry(n)
    BY <1>3, EntryOK DEF ActivateInPort, IInv, PlaceOK, TypeOK, Listed, Entry, RegistryOK,
       KernelOK
  <2>2. ~Refused(Entry.in[p], ports[n].in)
    BY <2>1, RegularPorts, RegularEntry DEF Refused, Registry, Local, Remote, Listed
  <2>. QED  BY <1>1, <1>3, <2>1, <2>2 DEF ActivateInPort, NextPort, Abort
<1>4. ASSUME ActivateOutPort \/ DuplicateOutPort PROVE ~Abort
  <2>. DEFINE r == Entry.out[p]
  <2>1. /\ pc = "out" /\ n \in Made /\ n \in 1..Len(recipe.entries)
        /\ p \in 1..Len(Entry.out) /\ Listed(n) = Entry /\ Registry(n)
        /\ K(n) = Entry.kernel /\ K(n) \in DOMAIN Kernels
    <3>1. pc = "out" /\ p <= Len(Entry.out) /\ n \in Made /\ p \in Nat \ {0}
      BY <1>4 DEF ActivateOutPort, DuplicateOutPort, IInv, PlaceOK
    <3>2. /\ Listed(n) = Entry /\ Registry(n) /\ n \in 1..Len(recipe.entries)
          /\ K(n) = Entry.kernel
      BY <3>1 DEF IInv, TypeOK, Listed, Entry, RegistryOK, KernelOK, K
    <3>3. Len(Entry.out) \in Nat /\ Entry.kernel \in DOMAIN Kernels
      BY <3>1, EntryOK DEF IInv
    <3>. QED  BY <3>1, <3>2, <3>3
  <2>2. /\ r.channel \in Local \cup Remote /\ r.fits
        /\ \/ r.dup = "" /\ r.name \in DOMAIN Class(n)
           \/ /\ r.dup # "" /\ r.dup \in DOMAIN Class(n)
              /\ r.name \notin DOMAIN Class(n) /\ K(n) \notin NoDuplicates
    BY <2>1, RegularPorts
  <2>3. CASE ActivateOutPort
    <3>1. r.name \in DOMAIN Class(n)
      BY <2>1, <2>2, <2>3, CatalogFacts DEF ActivateOutPort, AcceptsOut, Class, NoDuplicates
    <3>2. ~Refused(r, ports[n].out)
      BY <2>1, <2>2, <3>1 DEF Refused, Registry, Local, Remote
    <3>. QED  BY <1>1, <2>1, <2>3, <3>2 DEF ActivateOutPort, NextPort, Abort
  <2>4. CASE DuplicateOutPort
    <3>1. r.dup \in DOMAIN ports[n].out \/ r.dup \notin YamlKernels[K(n)].dup
      <4>1. CASE r.dup \in DOMAIN Class(n)
        BY <2>1, <4>1 DEF Registry
      <4>2. CASE r.dup = ""
        BY <2>1, <4>2, CatalogFacts
      <4>. QED  BY <2>2, <4>1, <4>2
    <3>. QED  BY <1>1, <2>1, <2>2, <2>4, <3>1 DEF DuplicateOutPort, NextPort, Abort
  <2>. QED  BY <1>4, <2>3, <2>4
<1>5. ASSUME Exe PROVE ~Abort
  <2>1. pc = "spawn"
    BY <1>5 DEF Exe
  <2>2. InPipeline \subseteq Made
    BY DEF InPipeline, StreamsOK
  <2>3. \A i \in InPipeline, side \in {"in", "out"} :
          \A t \in AddedPorts(side, i) : Linked(side, i, t)
    BY <2>1, <2>2, LinkedOK DEF AddedPorts
  <2>. QED  BY <1>5, <2>1, <2>3 DEF Exe, Abort
<1>. QED  BY <1>2, <1>3, <1>4, <1>5

LEMMA LinkGoesOn ==
  ASSUME DInv, Regular, Link
  PROVE  ~Abort /\ LinksOK'
<1>. USE DEF DInv
<1>. DEFINE c == recipe.conns[p]
<1>1. /\ pc = "link" /\ p \in 1..Len(recipe.conns) /\ p \in Nat /\ Len(recipe.conns) \in Nat
      /\ c \in Conns /\ ConnsDone = p - 1 /\ LinksOK /\ StreamsOK
      /\ \A j \in 1..Len(recipe.conns) : recipe.conns[j] \in Conns
  BY ConnTypes DEF Link, IInv, PlaceOK, ConnsDone, NotGivenUp
<1>2. /\ Linkable(c)
      /\ recipe.entries[kernelMap[c.send]].id = c.send
      /\ recipe.entries[kernelMap[c.recv]].id = c.recv
  BY <1>1, LinkDocumented
<1>3. \A l \in links : ~(/\ recipe.entries[l.send].id = c.send /\ l.sendPort = c.sendPort)
  <2>. SUFFICES ASSUME NEW l \in links, recipe.entries[l.send].id = c.send,
                       l.sendPort = c.sendPort
                PROVE  FALSE
    OBVIOUS
  <2>1. PICK j \in 1..(p - 1) : IsStream(l, recipe.conns[j])
    BY <1>1 DEF LinksOK
  <2>2. j \in 1..Len(recipe.conns) /\ j # p
    BY <1>1, <2>1
  <2>. QED  BY <1>1, <2>1, <2>2, DistinctEnds DEF IsStream
<1>4. \A l \in links : ~(/\ recipe.entries[l.recv].id = c.recv /\ l.recvPort = c.recvPort)
  <2>. SUFFICES ASSUME NEW l \in links, recipe.entries[l.recv].id = c.recv,
                       l.recvPort = c.recvPort
                PROVE  FALSE
    OBVIOUS
  <2>1. PICK j \in 1..(p - 1) : IsStream(l, recipe.conns[j])
    BY <1>1 DEF LinksOK
  <2>2. j \in 1..Len(recipe.conns) /\ j # p
    BY <1>1, <2>1
  <2>. QED  BY <1>1, <2>1, <2>2, DistinctEnds DEF IsStream
<1>5. /\ ~Linked("out", kernelMap[c.send], c.sendPort)
      /\ ~Linked("in", kernelMap[c.recv], c.recvPort)
  BY <1>2, <1>3, <1>4 DEF Linked, LinkedPorts
<1>6. /\ links' = links \cup {Stream(c)} /\ p' = p + 1 /\ UNCHANGED <<recipe, pc>>
  BY <1>2, <1>5 DEF Link
<1>7. IsStream(Stream(c), c)
  BY <1>2 DEF IsStream, Stream
<1>8. LinksOK'
  <2>1. ConnsDone' = p /\ p' <= Len(recipe.conns) + 1
    BY <1>1, <1>6 DEF ConnsDone
  <2>2. \A l, d : IsStream(l, d)' <=> IsStream(l, d)
    BY <1>6 DEF IsStream
  <2>3. \A l \in links' : \E j \in 1..p : IsStream(l, recipe.conns[j])
    BY <1>1, <1>6, <1>7 DEF LinksOK
  <2>4. \A j \in 1..p : \E l \in links' : IsStream(l, recipe.conns[j])
    BY <1>1, <1>6, <1>7 DEF LinksOK
  <2>. QED  BY <1>6, <2>1, <2>2, <2>3, <2>4 DEF LinksOK
<1>. QED  BY <1>1, <1>6, <1>8 DEF Abort

LEMMA NotGivenUpStep == DInv /\ [Next]_vars => NotGivenUp'
<1>. USE DEF DInv
<1>. SUFFICES ASSUME DInv, [Next]_vars, Regular' PROVE pc' # "aborted" /\ AllMade' /\ LinksOK'
  BY DEF NotGivenUp
<1>1. recipe' = recipe /\ Regular
  <2>1. recipe' = recipe
    BY DEF Next, Main, InitKernel, ActivateInPort, InPortsDone, ActivateOutPort,
       DuplicateOutPort, NextPort, KeepKernel, ParseConnections, Link, LinksDone,
       SpawnSingle, Exe, ExeReturns, Join, RemoveKernelMap, RemoveSingleKernelVector,
       Crash, Stop, NeverEnd, Abort, vars
  <2>. QED  BY <2>1, SameRegular
<1>2. /\ pc # "aborted" /\ AllMade /\ LinksOK /\ n \in Nat /\ p \in Nat
      /\ Len(recipe.entries) \in Nat /\ Len(recipe.conns) \in Nat
  BY <1>1, Entries, ConnTypes DEF NotGivenUp, IInv, PlaceOK
<1>3. \A l, c : IsStream(l, c)' <=> IsStream(l, c)
  BY <1>1 DEF IsStream
<1>4. ASSUME links' = links, pc' # "aborted", ConnsDone' = ConnsDone,
             pc' = "link" => p' <= Len(recipe.conns) + 1
      PROVE  LinksOK'
  BY <1>1, <1>2, <1>3, <1>4 DEF LinksOK
<1>5. CASE InitKernel
  <2>1. Entry.kernel \in DOMAIN Kernels /\ ~Abort
    BY <1>1, <1>5, NoRefusal
  <2>2. /\ pc = "init" /\ pc' = "in" /\ UNCHANGED <<n, links>> /\ Made' = Made \cup {n}
    BY <1>5, <2>1, MadeStep
  <2>3. LinksOK'
    BY <1>4, <2>2 DEF ConnsDone
  <2>. QED  BY <1>1, <1>2, <2>2, <2>3 DEF AllMade
<1>6. CASE ActivateInPort \/ ActivateOutPort \/ DuplicateOutPort
  <2>1. ~Abort
    BY <1>1, <1>6, NoRefusal
  <2>2. pc \in {"in", "out"} /\ UNCHANGED <<pc, n, links>> /\ Made' = Made
    BY <1>6, <2>1 DEF ActivateInPort, ActivateOutPort, DuplicateOutPort, NextPort, Made
  <2>3. LinksOK'
    BY <1>4, <2>2 DEF ConnsDone
  <2>. QED  BY <1>1, <1>2, <2>2, <2>3 DEF AllMade
<1>7. CASE InPortsDone
  <2>1. pc = "in" /\ pc' = "out" /\ UNCHANGED <<n, links, ports>>
    BY <1>7 DEF InPortsDone
  <2>2. LinksOK'
    BY <1>4, <2>1 DEF ConnsDone
  <2>. QED  BY <1>1, <1>2, <2>1, <2>2 DEF AllMade, Made
<1>8. CASE KeepKernel
  <2>1. pc = "out" /\ pc' = "init" /\ n' = n + 1 /\ UNCHANGED <<links, ports>> /\ n \in Made
    BY <1>8 DEF KeepKernel, IInv, PlaceOK
  <2>2. LinksOK'
    BY <1>4, <2>1 DEF ConnsDone
  <2>. QED  BY <1>1, <1>2, <2>1, <2>2 DEF AllMade, Made
<1>9. CASE ParseConnections
  <2>1. /\ pc = "init" /\ n > Len(recipe.entries) /\ pc' = "link" /\ p' = 1
        /\ UNCHANGED <<n, links, ports>>
    BY <1>9 DEF ParseConnections
  <2>2. ConnsDone = 0 /\ ConnsDone' = 0
    BY <2>1 DEF ConnsDone
  <2>3. LinksOK'
    BY <1>2, <1>4, <2>1, <2>2
  <2>. QED  BY <1>1, <1>2, <2>1, <2>3 DEF AllMade, Made
<1>10. CASE Link
  <2>1. ~Abort /\ LinksOK'
    BY <1>1, <1>10, LinkGoesOn
  <2>2. pc' = pc /\ UNCHANGED <<n, ports>>
    BY <1>10, <2>1 DEF Link
  <2>. QED  BY <1>1, <1>2, <2>1, <2>2 DEF AllMade, Made
<1>11. CASE LinksDone
  <2>1. /\ pc = "link" /\ p > Len(recipe.conns) /\ pc' = "spawn" /\ UNCHANGED <<n, links, ports>>
    BY <1>11 DEF LinksDone
  <2>2. ConnsDone' = ConnsDone
    BY <1>1, <1>2, <2>1 DEF ConnsDone, LinksOK
  <2>3. LinksOK'
    BY <1>4, <2>1, <2>2
  <2>. QED  BY <1>1, <1>2, <2>1, <2>3 DEF AllMade, Made
<1>12. CASE \/ SpawnSingle \/ Exe \/ ExeReturns \/ Join \/ RemoveKernelMap
            \/ RemoveSingleKernelVector \/ \E i \in Made : Crash(i) \/ Stop(i) \/ NeverEnd(i)
  <2>1. ~(\E i \in Made : Crash(i))
    BY <1>1, NoCrash
  <2>2. /\ pc \notin {"init", "in", "out", "link"}
        /\ pc' \notin {"init", "in", "out", "link", "aborted"}
        /\ UNCHANGED <<n, links, ports>>
    BY <1>1, <1>2, <1>12, <2>1, NoRefusal DEF SpawnSingle, Exe, ExeReturns, Join,
       RemoveKernelMap, RemoveSingleKernelVector, Stop, NeverEnd, Runs
  <2>3. LinksOK'
    BY <1>1, <1>4, <2>2 DEF ConnsDone
  <2>. QED  BY <1>1, <1>2, <2>2, <2>3 DEF AllMade, Made
<1>13. CASE UNCHANGED vars
  <2>1. UNCHANGED <<pc, n, p, links, ports>>
    BY <1>13 DEF vars
  <2>2. LinksOK'
    BY <1>1, <1>2, <1>4, <2>1 DEF ConnsDone, LinksOK
  <2>. QED  BY <1>1, <1>2, <2>1, <2>2 DEF AllMade, Made
<1>. QED  BY <1>5, <1>6, <1>7, <1>8, <1>9, <1>10, <1>11, <1>12, <1>13 DEF Next, Main

LEMMA DInit == Init => DInv
<1>. SUFFICES ASSUME Init PROVE DInv
  OBVIOUS
<1>1. StreamsOK /\ EndedOK
  BY DEF Init, StreamsOK, EndedOK
<1>2. pc = "init" /\ n = 1 /\ links = {} /\ ConnsDone = 0
  BY DEF Init, ConnsDone
<1>3. NotGivenUp
  BY <1>2 DEF NotGivenUp, AllMade, LinksOK
<1>. QED  BY <1>1, <1>3, InitOK, RegistryInit, ChannelsInit DEF DInv

LEMMA DStep == DInv /\ [Next]_vars => DInv'
BY StepOK, RegistryStep, ChannelsStep, StreamsStep, EndedStep, NotGivenUpStep DEF DInv

(* What a documented recipe has led to so far: its kernels, the streams of *)
(* its connections, and no reason to give up.                              *)
THEOREM DeploymentInvariance == Spec => []DInv
BY DInit, DStep, PTL DEF Spec

(* Every documented recipe, whatever kernels and connections it combines,  *)
(* is deployed without exception, exit or null pointer, and each of its    *)
(* kernels that is single or has a stream has run to its end when main     *)
(* comes to destroy them.                                                  *)
THEOREM DocumentedRecipesAlwaysRun == Spec => []DocumentedRecipesRun
<1>1. DInv => DocumentedRecipesRun
  <2>. SUFFICES ASSUME DInv, Regular
                PROVE  /\ pc # "aborted"
                       /\ pc = "free" => \A i \in 1..Len(recipe.entries) :
                            \/ i \in Made /\ thread[i] = "ended"
                            \/ /\ recipe.entries[i].single = "absent"
                               /\ \A c \in Conns : recipe.entries[i].id \notin {c.send, c.recv}
    BY DEF DocumentedRecipesRun, Regular
  <2>. USE DEF DInv
  <2>1. pc # "aborted"
    BY DEF NotGivenUp
  <2>2. ASSUME pc = "free", NEW i \in 1..Len(recipe.entries)
        PROVE  \/ i \in Made /\ thread[i] = "ended"
               \/ /\ recipe.entries[i].single = "absent"
                  /\ \A c \in Conns : recipe.entries[i].id \notin {c.send, c.recv}
    <3>1. /\ i \in Made /\ Made \subseteq 1..Len(recipe.entries)
          /\ Len(recipe.entries) \in Nat /\ LinksOK /\ ConnsDone = Len(recipe.conns)
      BY <2>2, Entries DEF NotGivenUp, AllMade, IInv, PlaceOK, TypeOK, ConnsDone
    <3>2. CASE Single(i)
      BY <2>2, <3>1, <3>2 DEF EndedOK
    <3>3. CASE \E c \in Conns : recipe.entries[i].id \in {c.send, c.recv}
      <4>1. PICK c \in Conns : recipe.entries[i].id \in {c.send, c.recv}
        BY <3>3
      <4>2. PICK l \in links : IsStream(l, c)
        BY <3>1, <4>1, ConnTypes DEF LinksOK, IInv, PlaceOK
      <4>3. i \in {l.send, l.recv}
        BY <3>1, <4>1, <4>2, DistinctIds DEF IsStream, StreamsOK
      <4>4. i \in InPipeline
        BY <4>3 DEF InPipeline
      <4>. QED  BY <2>2, <3>1, <4>4 DEF EndedOK
    <3>. QED  BY <3>2, <3>3 DEF Single
  <2>. QED  BY <2>1, <2>2
<1>. QED  BY <1>1, DeploymentInvariance, PTL
=============================================================================
