----------------------------- MODULE Deployment -----------------------------
(* From a recipe to running kernels and back: examples/runner.cc with      *)
(* YamlFleXRParser, the YAML classes and the port managers of the kernels. *)
(* A recipe is a list of kernels and a list of connections.  The main      *)
(* thread makes each kernel, activates or duplicates the ports the recipe  *)
(* lists, links RaftLib streams, starts the kernels marked single on       *)
(* threads of their own and the linked ones in RaftLib, waits for all of   *)
(* them and destroys what it made.                                         *)
EXTENDS KernelCatalog, Naturals, Sequences, FiniteSets, SequencesExt, FiniteSetsExt

CONSTANT Recipes   \* the recipes to deploy

(* A recipe's kernel: [kernel, id, others, single, sensor, iterate, in,    *)
(* out], where others are the attributes it gives, and two of them matter  *)
(* by their value; its ports: [name, channel, sem, dup, fits], with dup =  *)
(* "" unless the port is duplicated_from another; its connections: [send,  *)
(* sendPort, recv, recvPort].  Channel "none" stands for a connection_type *)
(* that is neither "local" nor "remote"; fits says whether a message       *)
(* object is no larger than the elements of a shared-memory queue.         *)
Local == {"raftlib", "shm"}
Remote == {"TCP", "RTP"}

ListedPort == [name : STRING, channel : Local \cup Remote \cup {"none"},
               sem : {"BLOCKING", "NONBLOCKING"}, dup : STRING, fits : BOOLEAN]
ListedKernel == [kernel : STRING, id : STRING, others : SUBSET STRING, single : STRING,
                 sensor : STRING, iterate : BOOLEAN,
                 in : Seq(ListedPort), out : Seq(ListedPort)]
Connection == [send : STRING, sendPort : STRING, recv : STRING, recvPort : STRING]
Recipe == [entries : Seq(ListedKernel), conns : Seq(Connection)]

ASSUME RecipesAssumption == IsFiniteSet(Recipes) /\ Recipes \subseteq Recipe
MaxEntries == Max({Len(r.entries) : r \in Recipes})

VARIABLES recipe,
          pc,         \* what main does; "aborted" by exit, exception or crash
          n, p,       \* the recipe entry, and the port of it, that is next
          ports,      \* per made kernel: its in and out port tables
          dups,       \* per made kernel: duplicatedOutPortMap, in insertion order
          kernelMap,  \* parsedKernelMap: id -> kernel
          singles,    \* singleKernels
          links,      \* the streams of the RaftLib map
          thread,     \* per made kernel: "idle", "running", "ended", or "endless":
                      \* known to run, or to be held in a call, for ever
          freed       \* per made kernel: how often it was destroyed

vars == <<recipe, pc, n, p, ports, dups, kernelMap, singles, links, thread, freed>>

Entry == recipe.entries[n]
Made == DOMAIN ports
NoMap == [x \in {} |-> 0]

(* map[key] = value                                                        *)
Put(map, key, value) ==
  [k \in (DOMAIN map) \cup {key} |-> IF k = key THEN value ELSE map[k]]

(* A kernel is known by the position of its entry, initKernels' index.     *)
YamlKernels ==
  [BagCamera |-> YamlBagCamera, ImgPlayer |-> YamlImgPlayer, CVCamera |-> YamlCvCamera,
   EurocMonoInertialReader |-> YamlEurocMonoInertialReader, Keyboard |-> YamlKeyboard,
   Rgba2RgbAppSource |-> YamlRgba2RgbAppSource, CVDisplay |-> YamlCvDisplay,
   Cv2GlRgbDisplay |-> YamlCv2GlRgbDisplay, NonDisplay |-> YamlNonDisplay,
   Rgb2RgbaAppSink |-> YamlRgb2RgbaAppSink, FrameDecoder |-> YamlFrameDecoder,
   FrameEncoder |-> YamlFrameEncoder, NvmpiDecoder |-> YamlNvmpiDecoder,
   NvmpiEncoder |-> YamlNvmpiEncoder, FrameConverter |-> YamlFrameConverter,
   CudaOrbCamLocator |-> YamlCudaOrbCamLocator, OrbCamLocator |-> YamlOrbCamLocator,
   OrbSlamPoseEstimator |-> YamlOrbSlamPoseEstimator, ArUcoDetector |-> YamlArUcoDetector,
   ArUcoCamLocator |-> YamlArUcoCamLocator,
   SampleMarkerRenderer |-> YamlSampleMarkerRenderer]

(* The classes destroyKernel knows: not Cv2GlRgbDisplay.                   *)
Destroyable == DOMAIN Kernels \ {"Cv2GlRgbDisplay"}

(* The in-ports a kernel's constructor registers: the pose estimator's are *)
(* those of its sensor, and none for "stereo", "rgbd" and the like.        *)
InPorts(e) ==
  IF e.kernel = "OrbSlamPoseEstimator" /\ e.sensor # "mono_inertial"
    THEN [t \in IF e.sensor = "mono" THEN {"in_frame"} ELSE {}
            |-> OrbSlamPoseEstimator.in[t]]
    ELSE Kernels[e.kernel].in

(* A port as registerInPortTag or registerOutPortTag makes it.             *)
Registered(port) == [channel |-> "inactive", type |-> port.type,
                     coder |-> port.coder, sem |-> port.sem]
RegisterAll(table) == [t \in DOMAIN table |-> Registered(table[t])]

(* What run() uses without asking whether it is there: its out-ports and   *)
(* the ports on which it waits for input.  Only the renderer asks whether  *)
(* it got a frame.                                                         *)
Awaited(k) == {t \in DOMAIN Kernels[k].in : Kernels[k].in[t].sem = "BLOCKING"}
Needs(e) == [in  |-> IF e.kernel = "SampleMarkerRenderer" THEN {} ELSE Awaited(e.kernel),
             out |-> DOMAIN Kernels[e.kernel].out]

Abort == /\ pc' = "aborted"
         /\ UNCHANGED <<recipe, n, p, ports, dups, kernelMap, singles, links,
                        thread, freed>>
-----------------------------------------------------------------------------
(* initKernels, one entry: parse it, which throws if an attribute is       *)
(* missing, and construct the kernel.  A kernel no branch knows is not     *)
(* made, and run with no functions for custom kernels is passed over.      *)
InitKernel ==
  /\ pc = "init" /\ n <= Len(recipe.entries)
  /\ \/ /\ Entry.kernel \in DOMAIN Kernels
        /\ YamlKernels[Entry.kernel].others \subseteq Entry.others
        /\ ports' = Put(ports, n, [in |-> RegisterAll(InPorts(Entry)),
                                   out |-> RegisterAll(Kernels[Entry.kernel].out)])
        /\ dups' = Put(dups, n, << >>)
        /\ thread' = Put(thread, n, "idle")
        /\ freed' = Put(freed, n, 0)
        /\ pc' = "in" /\ p' = 1
        /\ UNCHANGED <<recipe, n, kernelMap, singles, links>>
     \/ /\ Entry.kernel \in DOMAIN Kernels
        /\ ~(YamlKernels[Entry.kernel].others \subseteq Entry.others)
        /\ Abort
     \/ /\ Entry.kernel \notin DOMAIN Kernels
        /\ n' = n + 1
        /\ UNCHANGED <<recipe, pc, p, ports, dups, kernelMap, singles, links,
                       thread, freed>>

(* activate...: the first activation of a port decides its channel, the    *)
(* last one its semantics, which only local out-ports have.                *)
Activate(port, r) ==
  [port EXCEPT !.channel = IF @ = "inactive" THEN r.channel ELSE @]
ActivateOutLast(port, r) ==   \* mutant: no test for activated
  [port EXCEPT !.channel = r.channel,
               !.sem = IF r.channel \in Local THEN r.sem ELSE @]

ActivateOut(port, r) ==
  [Activate(port, r) EXCEPT !.sem = IF r.channel \in Local THEN r.sem ELSE @]

(* make() on a port it takes: the parsed connection_type chooses the       *)
(* activation.  A sink takes anything but "local" as remote, and binding   *)
(* without a port number throws; the others leave the port alone.          *)
Skips(r) == r.channel = "none" /\ Entry.kernel \notin DOMAIN SinkKernels
Refused(r, table) == \/ r.name \notin DOMAIN table   \* a null FleXRPort
                     \/ r.channel = "shm" /\ ~r.fits
                     \/ r.channel = "none"

NextPort == p' = p + 1 /\ UNCHANGED <<recipe, pc, n, dups, kernelMap, singles,
                                      links, thread, freed>>

ActivateInPort ==
  /\ pc = "in" /\ p <= Len(Entry.in)
  /\ LET r == Entry.in[p] IN
     IF r.name \notin YamlKernels[Entry.kernel].in \/ Skips(r)
       THEN NextPort /\ UNCHANGED ports
     ELSE IF Refused(r, ports[n].in) THEN Abort
     ELSE /\ ports' = [ports EXCEPT ![n].in[r.name] = Activate(@, r)]
          /\ NextPort

InPortsDone ==
  /\ pc = "in" /\ p > Len(Entry.in)
  /\ pc' = "out" /\ p' = 1
  /\ UNCHANGED <<recipe, n, ports, dups, kernelMap, singles, links, thread, freed>>

(* Which names make() activates: CVCamera's looks at none of them.         *)
AcceptsOut(e, name) ==
  \/ name \in YamlKernels[e.kernel].out
  \/ e.kernel = "CVCamera"

ActivateOutPort ==
  /\ pc = "out" /\ p <= Len(Entry.out)
  /\ AcceptsOut(Entry, Entry.out[p].name)
  /\ LET r == Entry.out[p] IN
     IF Skips(r) THEN NextPort /\ UNCHANGED ports
     ELSE IF Refused(r, ports[n].out) THEN Abort
     ELSE /\ ports' = [ports EXCEPT ![n].out[r.name] = ActivateOut(@, r)]
          /\ NextPort

DuplicateAsPlain(r) ==   \* mutant: the serializer is not handed on
  [Registered(ports[n].out[r.dup]) EXCEPT !.coder = "PLAIN"]

(* registerOutPortTag with the functions of the port it duplicates.        *)
DuplicateOf(r) == Registered(ports[n].out[r.dup])

(* duplicateOutPortAs...: remember the pair, register a new port with the  *)
(* functions of the other one, and activate it.                            *)
DuplicateOutPort ==
  /\ pc = "out" /\ p <= Len(Entry.out)
  /\ ~AcceptsOut(Entry, Entry.out[p].name)
  /\ LET r == Entry.out[p] IN
     IF r.dup \notin YamlKernels[Entry.kernel].dup \/ Skips(r)
       THEN NextPort /\ UNCHANGED ports
     ELSE IF r.dup \notin DOMAIN ports[n].out \/ (r.channel = "shm" /\ ~r.fits)
       THEN Abort
     ELSE /\ ports' = [ports EXCEPT ![n].out =
               Put(@, r.name, ActivateOut([DuplicateOf(r) EXCEPT !.sem = "BLOCKING"], r))]
          /\ dups' = [dups EXCEPT ![n] = Append(@, <<r.dup, r.name>>)]
          /\ p' = p + 1
          /\ UNCHANGED <<recipe, pc, n, kernelMap, singles, links, thread, freed>>

KeepNextKernel ==   \* mutant: off by one
  /\ pc = "out" /\ p > Len(Entry.out)
  /\ IF Entry.single # "absent"
       THEN singles' = Append(singles, n) /\ UNCHANGED kernelMap
       ELSE kernelMap' = Put(kernelMap, Entry.id, n + 1) /\ UNCHANGED singles
  /\ pc' = "init" /\ n' = n + 1
  /\ UNCHANGED <<recipe, p, ports, dups, links, thread, freed>>

(* The made kernel goes to singleKernels if the entry has the attribute    *)
(* single, whatever its value, else to parsedKernelMap.                    *)
KeepKernel ==
  /\ pc = "out" /\ p > Len(Entry.out)
  /\ IF Entry.single # "absent"
       THEN singles' = Append(singles, n) /\ UNCHANGED kernelMap
       ELSE kernelMap' = Put(kernelMap, Entry.id, n) /\ UNCHANGED singles
  /\ pc' = "init" /\ n' = n + 1
  /\ UNCHANGED <<recipe, p, ports, dups, links, thread, freed>>

ParseConnections ==
  /\ pc = "init" /\ n > Len(recipe.entries)
  /\ pc' = "link" /\ p' = 1
  /\ UNCHANGED <<recipe, n, ports, dups, kernelMap, singles, links, thread, freed>>
-----------------------------------------------------------------------------
(* The runner links the connections' streams.  A kernel that is not in the *)
(* map is a null pointer; RaftLib throws if a port was not added to the    *)
(* kernel, has another type, or is already linked.                         *)
Linkable(c) ==
  /\ {c.send, c.recv} \subseteq DOMAIN kernelMap
  /\ LET out == ports[kernelMap[c.send]].out
         in  == ports[kernelMap[c.recv]].in
     IN /\ c.sendPort \in DOMAIN out /\ c.recvPort \in DOMAIN in
        /\ out[c.sendPort].channel = "raftlib" /\ in[c.recvPort].channel = "raftlib"
        /\ out[c.sendPort].type = in[c.recvPort].type

StreamSwapped(c) ==   \* mutant: the port names exchanged
  [send |-> kernelMap[c.send], sendPort |-> c.recvPort,
   recv |-> kernelMap[c.recv], recvPort |-> c.sendPort]

Stream(c) == [send |-> kernelMap[c.send], sendPort |-> c.sendPort,
              recv |-> kernelMap[c.recv], recvPort |-> c.recvPort]
LinkedPorts(side) == IF side = "out" THEN {<<l.send, l.sendPort>> : l \in links}
                     ELSE {<<l.recv, l.recvPort>> : l \in links}
Linked(side, i, t) == <<i, t>> \in LinkedPorts(side)

Link ==
  /\ pc = "link" /\ p <= Len(recipe.conns)
  /\ LET c == recipe.conns[p] IN
     IF /\ Linkable(c)
        /\ ~Linked("out", kernelMap[c.send], c.sendPort)
        /\ ~Linked("in", kernelMap[c.recv], c.recvPort)
       THEN /\ links' = links \cup {Stream(c)}
            /\ p' = p + 1
            /\ UNCHANGED <<recipe, pc, n, ports, dups, kernelMap, singles,
                           thread, freed>>
       ELSE Abort

LinksDoneSkip ==   \* mutant: the first single kernel is not started
  /\ pc = "link" /\ p > Len(recipe.conns)
  /\ pc' = "spawn" /\ p' = 2
  /\ UNCHANGED <<recipe, n, ports, dups, kernelMap, singles, links, thread, freed>>

LinksDone ==
  /\ pc = "link" /\ p > Len(recipe.conns)
  /\ pc' = "spawn" /\ p' = 1
  /\ UNCHANGED <<recipe, n, ports, dups, kernelMap, singles, links, thread, freed>>

(* std::thread singleKernelThread(runSingleKernel, ...)                    *)
SpawnSingle ==
  /\ pc = "spawn" /\ p <= Len(singles)
  /\ thread' = [thread EXCEPT ![singles[p]] = "running"]
  /\ p' = p + 1
  /\ UNCHANGED <<recipe, pc, n, ports, dups, kernelMap, singles, links, freed>>

InPipeline == {l.send : l \in links} \cup {l.recv : l \in links}
AddedPorts(side, i) == {t \in DOMAIN ports[i][side] : ports[i][side][t].channel = "raftlib"}

(* pipeline.exe(): RaftLib knows the kernels that were linked, and throws  *)
(* if one of them has a port without a stream.  It returns when all have   *)
(* stopped.                                                                *)
Exe ==
  /\ pc = "spawn" /\ p > Len(singles)
  /\ IF \A i \in InPipeline, side \in {"in", "out"} :
          \A t \in AddedPorts(side, i) : Linked(side, i, t)
       THEN /\ thread' = [i \in Made |-> IF i \in InPipeline THEN "running" ELSE thread[i]]
            /\ pc' = "exe"
            /\ UNCHANGED <<recipe, n, p, ports, dups, kernelMap, singles, links, freed>>
       ELSE Abort

ExeReturns ==
  /\ pc = "exe"
  /\ \A i \in InPipeline : thread[i] = "ended"
  /\ pc' = "join" /\ p' = 1
  /\ UNCHANGED <<recipe, n, ports, dups, kernelMap, singles, links, thread, freed>>

(* run() on a port that was not activated or, for RaftLib, not linked uses *)
(* a null pointer: the process ends.                                       *)
Usable(side, i, t) ==
  /\ t \in DOMAIN ports[i][side]
  /\ ports[i][side][t].channel # "inactive"
  /\ ports[i][side][t].channel = "raftlib" => Linked(side, i, t)
Runs(i) == pc \in {"spawn", "exe", "join"} /\ thread[i] = "running"

Crash(i) ==
  /\ Runs(i)
  /\ \E side \in {"in", "out"} :
       \E t \in Needs(recipe.entries[i])[side] : ~Usable(side, i, t)
  /\ Abort

(* run() returns raft::stop at the end of the images, in two classes, but  *)
(* a player may have to start again.  RaftLib ends a kernel that waits on  *)
(* a stream whose sender has ended.                                        *)
Finite(e) == \/ e.kernel = "EurocMonoInertialReader"
             \/ e.kernel = "ImgPlayer" /\ ~e.iterate
AtEnd(i) ==
  \/ Finite(recipe.entries[i])
  \/ \E l \in links : /\ l.recv = i /\ thread[l.send] = "ended"
                      /\ l.recvPort \in Awaited(recipe.entries[i].kernel)
Stop(i) ==
  /\ Runs(i) /\ AtEnd(i)
  /\ thread' = [thread EXCEPT ![i] = "ended"]
  /\ UNCHANGED <<recipe, pc, n, p, ports, dups, kernelMap, singles, links, freed>>

(* What may keep a kernel from its end.  Outside the streams: it waits for *)
(* input or for room in a queue or a socket as long as its peer pleases.   *)
WaitsOutside(i) ==
  \/ \E t \in Awaited(recipe.entries[i].kernel) \cap DOMAIN ports[i].in :
       ports[i].in[t].channel \in {"shm"} \cup Remote
  \/ \E t \in DOMAIN ports[i].out :
       \/ ports[i].out[t].channel = "TCP"
       \/ ports[i].out[t].channel = "shm" /\ ports[i].out[t].sem = "BLOCKING"

(* In the streams: room in one whose receiver has ended or never will (a   *)
(* nonblocking duplicate asks for it first), or a message from a sender    *)
(* that never ends.  With two streams in, a kernel may wait at one while   *)
(* the sender of it waits, maybe over others, for room in the other.       *)
Drops(i, t) == /\ ports[i].out[t].sem = "NONBLOCKING"
               /\ \E d \in ToSet(dups[i]) : d[2] = t
StreamsInto(i) == {l \in links : l.recv = i}
WaitsForStream(i) ==
  \/ \E l \in links : /\ l.send = i /\ thread[l.recv] \in {"ended", "endless"}
                      /\ ~Drops(i, l.sendPort)
  \/ \E l \in StreamsInto(i) : /\ thread[l.send] = "endless"
                               /\ l.recvPort \in Awaited(recipe.entries[i].kernel)
  \/ \E l, m \in StreamsInto(i) : l # m
NeverEnd(i) ==
  /\ Runs(i)
  /\ WaitsOutside(i) \/ WaitsForStream(i)
  /\ thread' = [thread EXCEPT ![i] = "endless"]
  /\ UNCHANGED <<recipe, pc, n, p, ports, dups, kernelMap, singles, links, freed>>

(* The runner joins the threads of the single kernels.                     *)
Join ==
  /\ pc = "join"
  /\ \A i \in 1..Len(singles) : thread[singles[i]] = "ended"
  /\ pc' = "free" /\ p' = 1
  /\ UNCHANGED <<recipe, n, ports, dups, kernelMap, singles, links, thread, freed>>

(* destroyKernel deletes the kernels of the classes it knows.              *)
Destroy(is) == [i \in Made |->
  IF i \in is /\ recipe.entries[i].kernel \in Destroyable THEN freed[i] + 1 ELSE freed[i]]

RemoveAllTwice == (* mutant: singleKernels are destroyed with the map, too *)
  /\ pc = "free" /\ p = 1
  /\ freed' = Destroy({kernelMap[id] : id \in DOMAIN kernelMap} \cup ToSet(singles))
  /\ kernelMap' = NoMap /\ p' = 2
  /\ UNCHANGED <<recipe, pc, n, ports, dups, singles, links, thread>>

(* ~YamlFleXRParser: removeKernelMap ...                                   *)
RemoveKernelMap ==
  /\ pc = "free" /\ p = 1
  /\ freed' = Destroy({kernelMap[id] : id \in DOMAIN kernelMap})
  /\ kernelMap' = NoMap /\ p' = 2
  /\ UNCHANGED <<recipe, pc, n, ports, dups, singles, links, thread>>

(* ... and removeSingleKernelVector.                                       *)
RemoveSingleKernelVector ==
  /\ pc = "free" /\ p = 2
  /\ freed' = Destroy(ToSet(singles))
  /\ singles' = << >> /\ pc' = "done"
  /\ UNCHANGED <<recipe, n, p, ports, dups, kernelMap, links, thread>>
-----------------------------------------------------------------------------
Init ==
  /\ recipe \in Recipes
  /\ pc = "init" /\ n = 1 /\ p = 1
  /\ ports = NoMap /\ dups = NoMap /\ kernelMap = NoMap
  /\ singles = << >> /\ links = {}
  /\ thread = NoMap /\ freed = NoMap

Main == \/ InitKernel \/ ActivateInPort \/ InPortsDone
        \/ ActivateOutPort \/ DuplicateOutPort \/ KeepKernel
        \/ ParseConnections \/ Link \/ LinksDone \/ SpawnSingle
        \/ Exe \/ ExeReturns \/ Join
        \/ RemoveKernelMap \/ RemoveSingleKernelVector

Next == Main \/ \E i \in Made : Crash(i) \/ Stop(i) \/ NeverEnd(i)

Spec == Init /\ [][Next]_vars

(* Main and RaftLib go on while they can, and a kernel at the end of its   *)
(* input comes to its last run(), unless it turns out never to end.        *)
FairSpec == /\ Spec /\ WF_vars(Main)
            /\ \A i \in 1..MaxEntries : WF_vars(i \in Made /\ (Stop(i) \/ NeverEnd(i)))
-----------------------------------------------------------------------------
PortRecord == [channel : {"inactive"} \cup Local \cup Remote,
               type : {"frame", "encoded", "imus", "key", "pose"},
               coder : {"CODED", "PLAIN"}, sem : {"BLOCKING", "NONBLOCKING"}]

(* Types, and the tables of the made kernels go together.                  *)
TypeOK ==
  /\ pc \in {"init", "in", "out", "link", "spawn", "exe", "join", "free",
             "done", "aborted"}
  /\ Made \subseteq 1..Len(recipe.entries)
  /\ DOMAIN dups = Made /\ DOMAIN thread = Made /\ DOMAIN freed = Made
  /\ \A i \in Made : /\ \A t \in DOMAIN ports[i].in : ports[i].in[t] \in PortRecord
                     /\ \A t \in DOMAIN ports[i].out : ports[i].out[t] \in PortRecord
                     /\ thread[i] \in {"idle", "running", "ended", "endless"}
                     /\ freed[i] \in Nat
  /\ {kernelMap[id] : id \in DOMAIN kernelMap} \cup ToSet(singles) \subseteq Made

Distinct(s) == \A i, j \in 1..Len(s) : s[i] = s[j] => i = j
Names(rs) == [i \in 1..Len(rs) |-> rs[i].name]

(* A recipe that keeps to what the headers of the kernels and of the YAML  *)
(* port classes say: it gives every attribute, distinct ids, the one       *)
(* sensor for which the pose estimator has its ports, and for each         *)
(* kernel the ports its class documents, under their names, or duplicates  *)
(* of them ("Registered outport name of kernel class"); the RaftLib ports  *)
(* are those of its connections.                                           *)
Conns == ToSet(recipe.conns)
SendsTo(e, t) == \E c \in Conns : <<c.send, c.sendPort>> = <<e.id, t>>
RecvsOn(e, t) == \E c \in Conns : <<c.recv, c.recvPort>> = <<e.id, t>>
DocumentedPorts(e) ==
  /\ \A i \in 1..Len(e.in) :
       /\ e.in[i].name \in DOMAIN Kernels[e.kernel].in
       /\ e.in[i].channel \in Local \cup Remote /\ e.in[i].fits
       /\ (e.in[i].channel = "raftlib") <=> RecvsOn(e, e.in[i].name)
  /\ \A i \in 1..Len(e.out) :
       /\ IF e.out[i].dup = ""
            THEN e.out[i].name \in DOMAIN Kernels[e.kernel].out
            ELSE /\ e.out[i].dup \in DOMAIN Kernels[e.kernel].out
                 /\ e.out[i].name \notin DOMAIN Kernels[e.kernel].out
       /\ e.out[i].channel \in Local \cup Remote /\ e.out[i].fits
       /\ (e.out[i].channel = "raftlib") <=> SendsTo(e, e.out[i].name)
  /\ Distinct(Names(e.in)) /\ Distinct(Names(e.out))
  /\ Awaited(e.kernel) \subseteq ToSet(Names(e.in))
  /\ Needs(e).out \subseteq ToSet(Names(e.out))
TypeOn(rs, table, t) ==   \* of the port, or of the one it duplicates
  LET r == rs[CHOOSE i \in 1..Len(rs) : rs[i].name = t]
  IN table[IF t \in DOMAIN table THEN t ELSE r.dup].type
DocumentedConn(c) ==
  \E s, r \in ToSet(recipe.entries) :
    /\ s.id = c.send /\ r.id = c.recv
    /\ s.single = "absent" /\ r.single = "absent"
    /\ c.sendPort \in ToSet(Names(s.out)) /\ c.recvPort \in ToSet(Names(r.in))
    /\ TypeOn(s.out, Kernels[s.kernel].out, c.sendPort)
         = TypeOn(r.in, Kernels[r.kernel].in, c.recvPort)
Documented ==
  LET es == recipe.entries IN
  /\ \A i \in 1..Len(es) : /\ es[i].kernel \in DOMAIN Kernels
                           /\ YamlKernels[es[i].kernel].others \subseteq es[i].others
                           /\ es[i].kernel = "OrbSlamPoseEstimator" =>
                                es[i].sensor = "mono_inertial"
                           /\ DocumentedPorts(es[i])
  /\ Distinct([i \in 1..Len(es) |-> es[i].id])
  /\ \A c \in Conns : DocumentedConn(c)
  /\ Distinct([i \in 1..Len(recipe.conns) |->
                <<recipe.conns[i].send, recipe.conns[i].sendPort>>])
  /\ Distinct([i \in 1..Len(recipe.conns) |->
                <<recipe.conns[i].recv, recipe.conns[i].recvPort>>])

(* The classes whose make() does not take the duplicates of its port.      *)
NoDuplicates == {"ArUcoCamLocator", "CVCamera"}
Duplicates(e) == \E i \in 1..Len(e.out) : e.out[i].dup # ""
MayDuplicate == \A i \in 1..Len(recipe.entries) :
  recipe.entries[i].kernel \in NoDuplicates => ~Duplicates(recipe.entries[i])

(* A documented recipe is deployed, if the files and devices it names are  *)
(* there: no exception, exit or null pointer between parsing it and the    *)
(* end of its kernels, whatever kernels it combines, but for duplicates of *)
(* two classes; and every kernel that is single or has a stream is run to  *)
(* its end before any is destroyed.                                        *)
DocumentedRecipesRun ==
  Documented /\ MayDuplicate =>
    /\ pc # "aborted"
    /\ pc = "free" => \A i \in 1..Len(recipe.entries) :
         \/ i \in Made /\ thread[i] = "ended"
         \/ /\ recipe.entries[i].single = "absent"
            /\ \A c \in Conns : recipe.entries[i].id \notin {c.send, c.recv}

FirstOf(rs, t) == rs[CHOOSE i \in 1..Len(rs) :
                       rs[i].name = t /\ \A j \in 1..(i-1) : rs[j].name # t]

(* When the kernels run, every port is what the recipe's first entry for   *)
(* it says, though a later one may name another channel: its queue or      *)
(* socket is open.  In a documented recipe that goes for the semantics of  *)
(* local out-ports and for the duplicates, too, and all ports are there.   *)
Plainly(rs, t) == \A j \in 1..Len(rs) :
  rs[j].name = t => rs[j].dup = "" /\ rs[j].channel # "none"
AsTheRecipeSays ==
  pc \in {"exe", "join"} =>
    \A i \in Made :
      LET e == recipe.entries[i]
          regular == Documented /\ MayDuplicate
      IN
      /\ regular => ToSet(Names(e.out)) \subseteq DOMAIN ports[i].out
      /\ \A t \in ToSet(Names(e.in)) \cap DOMAIN ports[i].in :
           Plainly(e.in, t) => ports[i].in[t].channel = FirstOf(e.in, t).channel
      /\ \A t \in ToSet(Names(e.out)) \cap DOMAIN ports[i].out :
           LET r == FirstOf(e.out, t) IN
           /\ regular \/ Plainly(e.out, t) => ports[i].out[t].channel = r.channel
           /\ regular /\ r.channel \in Local => ports[i].out[t].sem = r.sem

(* sendOutput finds a duplicate for every pair it remembers: the port is   *)
(* there, with the type and the serializer of the port it duplicates, if   *)
(* the entry gives each of its out-ports a name of its own.                *)
DuplicatesMatch ==
  \A i \in Made : Distinct(Names(recipe.entries[i].out)) => \A d \in ToSet(dups[i]) :
    /\ {d[1], d[2]} \subseteq DOMAIN ports[i].out
    /\ ports[i].out[d[2]].type = ports[i].out[d[1]].type
    /\ ports[i].out[d[2]].coder = ports[i].out[d[1]].coder

(* No kernel is destroyed while it runs, or twice; in the end every made   *)
(* kernel is destroyed but those of the one class destroyKernel does not   *)
(* know and those that lost their place in the map to a later kernel with  *)
(* the same id.                                                            *)
Replaced(i) == \E j \in Made : /\ j > i
                               /\ recipe.entries[j].id = recipe.entries[i].id
                               /\ recipe.entries[i].single = "absent"
                               /\ recipe.entries[j].single = "absent"
DestroyedOnce ==
  /\ \A i \in Made : /\ freed[i] <= 1
                     /\ freed[i] = 1 => thread[i] \notin {"running", "endless"}
  /\ pc = "done" => \A i \in Made :
       freed[i] = 0 <=> \/ recipe.entries[i].kernel = "Cv2GlRgbDisplay"
                        \/ Replaced(i)

(* The program ends when its input does, if every single kernel and every  *)
(* kernel no stream leads to comes to the end of its images, none waits    *)
(* outside the streams, and these form trees: then the streams end one     *)
(* after the other, RaftLib returns, the threads are joined, main is done. *)
(* Each condition is needed: without it there are recipes of kernels that  *)
(* play for ever, or wait for a peer or for each other.                    *)
Led(i) == \E l \in StreamsInto(i) : l.recvPort \in Awaited(recipe.entries[i].kernel)
AllFinite ==
  \A i \in InPipeline \cup ToSet(singles) :
    (i \in InPipeline /\ Led(i)) \/ Finite(recipe.entries[i])
Trees ==
  /\ \A l, m \in links : l.recv = m.recv => l = m
  /\ \E depth \in [InPipeline -> 1..Cardinality(InPipeline)] :
       \A l \in links : depth[l.send] < depth[l.recv]
Ends == /\ AllFinite /\ Trees
        /\ \A i \in InPipeline \cup ToSet(singles) : ~WaitsOutside(i)
Returns == (pc = "exe" /\ Ends) ~> (pc \in {"done", "aborted"})

(* The documented duplicate of any class's port is made: refuted.          *)
DuplicatesAreMade ==
  pc \in {"exe", "join"} /\ Documented =>
    \A i \in Made : \A j \in 1..Len(recipe.entries[i].out) :
      LET r == recipe.entries[i].out[j]
      IN r.dup # "" => <<r.dup, r.name>> \in ToSet(dups[i])
=============================================================================
