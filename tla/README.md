# FleXR in TLA+

FleXR runs an XR application as a pipeline of *kernels*: threads that take
messages from input ports, work, and send messages through output ports. A YAML
*recipe* says which kernels there are and what their ports are: a RaftLib stream
or a shared-memory queue on one host, TCP or RTP between hosts, blocking or
nonblocking. This directory models how the ports, the pacing and whole
pipelines behave, checks the models with TLC and proves theorems about them
with TLAPS. Paths in this file are relative to the repository's root.

## The system

| part | state | operations | what makes it correct |
|---|---|---|---|
| ports, `flexr_core/include/components/flexr_port.h` | activated?, local or remote, channel, semantics, (de)serializers | `getInput`, `freeInput`, `getOutputPlaceholder`, `sendOutput`, `sendOutputToShm`, `sendOutputToRemote` | order, no frame lost but where a drop is asked for, references valid until freed, every buffer freed once |
| port manager, `flexr_port_manager.h` | in-ports, out-ports, duplicates of each out-port | register, activate, duplicate, `sendOutput` with fan-out | the duplicates get their copy before the original is sent and freed; a full nonblocking duplicate delays nobody |
| messages, `types/`, `utils/*serialize*`, `local_copy_functions.h` | header, pixels behind a raw pointer | `clone`, `release`, serialize, deserialize | one owner per pixel buffer; size checks in 32 bits |
| frequency manager, `frequency_manager.cc` | period and last time, `uint32_t` | `setFrequency`, `adjust` | no faster than the period, no oversleeping |
| TCP and RTP ports, `zmq_port.h`, `rtp_port.h` | socket, session and stream | bind/connect/init, send, receive, close | sessions closed once, buffers handed over |
| kernels, `flexr_kernels/source` | per kernel | `run()` | inputs freed on every path, nothing used after it was sent |
| recipe, `yaml_*.h`, `flexr_kernels/*/yaml` | parsed kernels, ports, connections | parse, `make`, `initKernels`, `parseConnections`, `destroyKernel` | each named kernel made, run and destroyed once, each port activated as the recipe says |
| runner, `examples/runner.cc` | RaftLib map, threads | link, start, join | every kernel of the recipe runs |
| Unity plugin, `flexr_third_party/unity_plugins/flexr_rtp_plugin.cc` | table of sessions | add, close, get, send | index valid, buffers freed |

Kernels interact only through ports. RaftLib streams and shared-memory queues
connect kernels in one host; a RaftLib port hands out *references into the
stream* (`allocate`/`send` on one side, `peek`/`recycle` on the other), the
other three kinds allocate a message, serialize it, and allocate another at the
receiver. What is hard: the sender and its receivers interleave, waiting in any
of several places; a frame's pixels are cloned for RaftLib duplicates, but
handed on without a copy from kernel to kernel; drops happen by design
(nonblocking), by size (shared memory) and by loss (RTP); and nothing but order
relates the messages of two ports.

RaftLib, the shared-memory queue, ZMQ, uvgRTP, OpenCV, FFmpeg, ORB-SLAM and
boost are external: they are modelled as the code uses them.
`PROJECT.json` lists every component, with those that are not modelled, and
every hazard at its line.

## Modules

| module | models |
|---|---|
| `PortChannel` | abstract: what one connection promises. Messages are offered in order; one is accepted while there is room, passed over if it may be, and taken in order. |
| `FleXRPortManager` | `FleXRPortManager::sendOutput` and the ports under it: one sender, a port with duplicates, one receiver per port. |
| `FleXRPortManager_proofs` | proofs about the first two, that the second implements the first, and lemmas on sequences of message numbers. |
| `FrequencyManager`, `FrequencyManager_proofs` | `setFrequency` and `adjust`, and proofs about them. |
| `KernelCatalog` | the 21 kernel classes: the ports each registers, the branch of the parser that makes it, the attributes and port names of its YAML class. |
| `Deployment`, `Deployment_proofs` | from a recipe to running kernels and back: parser, YAML classes, port activation, runner; and proofs about them. |
| `MessageFormat`, `MessageFormat_proofs` | the sizes of serialized messages in 32 bits, and which of them each kind of port accepts. |
| `KernelRun`, `KernelRun_proofs` | one kernel of any class: its `run()` as a sequence of port calls and uses of messages, on messages of any kind. |
| `RtpPlugin`, `RtpPlugin_proofs` | the Unity plugin's table of sessions and its calls. |
| `ARPipeline`, `ARPipeline_proofs` | the five kernels of `examples/poc/simple_local.yaml`, and proofs about them. |
| `VRPipeline`, `VRPipeline_proofs` | the two kernels of `examples/exp/vr1/slam_test.yaml`, and proofs about them. |
| `MC*` | the instances TLC checks. |

### FleXRPortManager

The sender is `BagCamera::run` (`pc`, `seq`, `size`), the receiver of each port
`CVDisplay::run` (`rpc[p]`, `held[p]`). The ports are numbered in the order in
which `sendOutput` serves them: the duplicates, then the original (`at`).
`queue[p]` is what the connection holds, as frame numbers. A RaftLib stream
keeps a frame until it is recycled, so a receiver's frame still occupies it;
the other connections give a frame up when it is received.

| action | code |
|---|---|
| `GetOutputPlaceholder`, `Fill` | placeholder (a slot, or `new T`), the frame's pixels and header |
| `CheckDuplicate` | `checkLocalPortFull()` of a nonblocking RaftLib duplicate |
| `CopyToDuplicate`, `Publish` | `sendLocalFrameCopy`: allocate, clone, `sendOutput` of the port |
| `Serialize`, `Transmit` | `sendOutputToShm`, `sendOutputToRemote`: serialize, drop if oversized, enqueue or send, free |
| `CheckEmpty`, `Peek`, `Receive` | `getInput` for the kinds of port; a nonblocking one that finds nothing changes nothing |
| `Release`, `FreeInput` | `data.release()`, `freeInput` |
| `Lose` | the network, RTP only |

`heap` is the set of message objects and buffers that are allocated, one cell
per `new` and frame. `checkLocalPortFull` is a step apart from the allocation
that relies on it. A shared-memory queue that is full makes a blocking port
wait and a nonblocking one drop; `socket.send` waits at the high-water mark
whatever the semantics; `push_frame` never waits.

### FrequencyManager

`now` is real time; the system clock shows `now + offset`, and `offset` may
change at any moment, for the code uses `high_resolution_clock`, which
libstdc++ makes the system clock, while `sleep_for` counts real time.
`lastTs` and the difference in `Elapsed` are kept modulo `W`, as `uint32_t` is.

### ARPipeline and VRPipeline

`ARPipeline` has one program counter per kernel, and keeps of the ports' steps
those that wait for another kernel or that another kernel can see. Frames are
numbered by the run of the player (its own `seq` starts again when it repeats
the images). `pixels` are the buffers that are allocated; the renderer passes
its input's pixels on, the detector frees a clone, the display frees what the
player allocated. An image that could not be read makes an empty frame, which
the renderer does not send on; `copyFromCvMat` allocates a buffer for it, too, of
length 0, and that one stays allocated, as does nothing else.

`VRPipeline` pairs images and inertial measurements by order. Which
measurements are too large for the queue's elements (512 bytes unless the
recipe says otherwise, as it does not for `out_imus`) is a choice of the model,
for the data decide it.

### KernelCatalog and Deployment

A recipe is a constant: a sequence of kernel entries (class, id, attributes,
ports) and a sequence of connections. The main thread (`pc`, `n`, `p`) walks
over it; `ports[i]` are the tables of the kernel made for entry `i`.

| action | code |
|---|---|
| `InitKernel`, `KeepKernel` | a branch of `initKernels`: parse, construct; into `parsedKernelMap` or `singleKernels` |
| `ActivateInPort`, `ActivateOutPort`, `DuplicateOutPort` | the loops of `make()` with `activate...` and `duplicate...` of the port manager |
| `ParseConnections`, `Link`, `LinksDone` | `parseConnections`, `pipeline.link` |
| `SpawnSingle`, `Exe`, `ExeReturns`, `Join` | the rest of the runner's `main` |
| `Stop(i)`, `NeverEnd(i)`, `Crash(i)` | a kernel's thread: its `run()` returns `raft::stop` or its stream has ended; it never will; it uses a port that was not activated |
| `RemoveKernelMap`, `RemoveSingleKernelVector` | `~YamlFleXRParser` |

Exceptions, `exit(1)` and null pointers all lead to `pc = "aborted"`. What a
recipe *should* look like is `Documented`, taken from the comments of
`yaml_ports.h` and of the kernels' headers; the properties say what such a recipe
gets, and the mistakes in `MCDeployment` what the others may do. The files and
devices a recipe names are taken to be there. The pose estimator registers its
in-ports by the sensor of its entry, none for `stereo`, `stereo_inertial`, `rgbd` or
a sensor it does not know (`InPorts`), so that activating one aborts; `Documented`
asks for `mono_inertial`, the one sensor that gives it all the ports of its header.

When a kernel ends is a matter of all the kernels around it. `Finite` are those whose
`run()` returns `raft::stop`: the dataset reader, and a player unless it iterates. A
kernel may instead turn out to be endless (`NeverEnd`): it is held in a call on
shared memory or a socket as long as its peer pleases (`WaitsOutside`), or on a
stream (`WaitsForStream`) whose receiver has ended or is endless, whose sender is
endless, or that is one of two into the kernel. Which of the two happens is a
choice, for what comes from outside is; an endless kernel never becomes anything
else. This does not say which call holds the kernel, only that one may.

`destroyKernel` compares the name of a kernel it has just deleted; the model takes
those comparisons to fail. `Destroy` counts the `delete` of a kernel; what its
destructor does in turn (the port manager's frees ports) is not modelled.

### MessageFormat and KernelRun

Types are not sent. A receiver sees how many bytes came, and the `dataSize`
fields at their head; `Messages` are the messages of every kind of port, with
payloads of given sizes. `Plus` and `Minus` are those of `uint32_t`.

In `KernelRun` a class is a *program*: a sequence of the steps of its `run()` that
touch a message, in the order of the code, with a branch where the code has one.
`FrameEncoderRun`, for instance, is placeholder, input, size test with early
return, conversion, codec, header, `sendOutput`, log, release, free. Actions
interpret the first step of `todo`. `msg[t]` and `buf[t]` say who owns the
message and the pixels a port's pointer leads to: a slot of a stream, this
kernel, its peer, or nobody since they were deleted. Each port has a channel of its
own, chosen in `Init`, as recipes mix them. Using what is not owned
adds to `faults`, using a null pointer is `Crash`, what is left at the end of
`run()` is `lost`. `content` and `hdr` say which input or frame a message is made
of and which one its header names. Names of programs and steps follow the code.

A codec keeps up to `Delay` frames back or fails. What comes after `break` or
before a retry in its loops is not repeated: one packet a `run()` is received at
most. `App` is the application at the other end of a shared-memory queue, which
takes or adds elements between any two steps.

Two sources read files, of which `Init` chooses one for the whole run. A bag has
images that are frames, have another size, or are messages of another type
(`NULL` from `instantiate`). While `state` is "opening", `CacheFrame` does what
`cacheFrames` does at one image after the other: it exits on another size, and
stays where it is on a message of another type, so that fewer images are cached than
asked for, or none. Later `DoMake` takes the next of those cached, or of the bag.
Nothing in the code compares with the end of the bag: skipping past it and reading
there are undefined, and modelled as "crashed" when an image is read. A folder has
fewer or more images than the recipe lists; `DoReadImage` and `DoAtLast` are
`ImgPlayer`'s three places where it starts again from image 0 or stops.
A bag that cannot be opened ends the program before a kernel is there
(`exit(1)` in `BagCamera`'s constructor); a recipe that lists no image at all makes
`ImgPlayer` read `imgs[0]` of an empty vector, and is left out (`listed` is at least 1).

### RtpPlugin

`sessions` and `numOfSess` are the plugin's globals; `open` and `streams` what
exists in uvgRTP, `handles` what callers were told. `AddNoStream` and
`AddNoSession` are the early returns of `setSession`. A call is one step: nothing
in the repository calls the plugin from several threads. A handle below 0, which
`RtpAddSession` returns when it fails, is not passed to the other calls.

## Runs

| run | question | states |
|---|---|---|
| `local_fan_out` | a nonblocking RaftLib duplicate, a blocking shared-memory duplicate with oversized frames, a blocking RaftLib original: types, heap, references, waiting, order, completeness, and refinement of `PortChannel` | 42350 |
| `remote_fan_out` | TCP and RTP duplicates and a nonblocking shared-memory original: heap, waiting, refinement | 34952 |
| `fan_out_liveness` | does a stopped receiver of a nonblocking duplicate hold up the others? | 1187 |
| `nonblocking_original` | refutes that a nonblocking port never waits (see Findings) | |
| `frequency_manager` | pacing with times that wrap and a clock that is set | 252273 |
| `ar_pipeline` | a blocking duplicate: circular waits, pixel ownership, pairing, keys | 63137 |
| `ar_pipeline_liveness` | the recipe's nonblocking duplicate: is every frame displayed when the detector stops? | 49737 |
| `deployment` | 210 recipes, right and wrong, from parsing to destruction | 3707 |
| `deployment_duplicates` | refutes that every documented duplicate is made (see Findings) | |
| `kernel_runs` | every class alone: what it accepts, uses, loses and how it labels what it sends | 744269 |
| `rtp_plugin` | sessions that fail half-way; what the calls take and write | 184704 |
| `vr_pipeline` | pairing by order, losses, and when the two kernels get stuck | 836 |

Bounds, and why they are enough:

- `MaxSeq` (3 or 4 frames) exceeds the capacity of every connection (1 or 2) by
  two, so that queues fill, drop and empty again; frame numbers are never
  compared but with neighbours. Two sizes separate fitting from oversized.
  The theorems below need no bound.
- `MaxNow` (24) lets the three-bit times wrap three times; six frequencies
  include 0, one above a tick per period and a negative one; the clock jumps
  both ways, by more than a period.
- `MaxFrames` (4 or 5) is more than the frames that fit in the two ways to the
  renderer (2 each); two keys are more than the key stream holds.
- `TotalImgs` (7) fills a queue of two after the losses that get the kernels
  stuck.

- The recipes of `MCDeployment` are all pairs of classes that can be linked, all
  classes alone, the marker pipeline, a kernel whose duplicate is named like one of
  its in-ports, trees and rings of streams with players that do or do not iterate,
  and 21 recipes with one mistake each: entries interact only by their ids, by
  connections and by the threads, which pairs and the pipeline of five exercise.
- `MaxRuns` (5) lets folders of three images be played, started again and played
  on, bags of three be read past their end, cached ones come round again, and a
  codec with one frame of delay give four; an application queue of two elements
  fills. The bags are all sequences of up to three images of the three sorts, of
  which 0, 1 or 4 are skipped and 0, 2 or 4 cached, so within them, at the end and
  past it; folders list 1 to 3 images and have 0 to 3. Payload sizes are 0
  and the two at which an object with its payload is as large as another object;
  a word of 4096 keeps the wrap-around in reach. The theorems on sizes need no
  bound.
- `MaxSeq` (1) of `MCRtpPlugin` only keeps `seq` finite; three slots and four
  sessions allow a session to be lost with the table full.

`MCDeployment` does not check deadlock: a recipe that was aborted, and kernels
that never end, stop there. `MCKernelRun` does not, for a run ends after
`MaxRuns` calls of `run()` or a crash. `MCVRPipeline` does not check deadlock: the reader stops at the end of its data
while the estimator waits, and dropped measurements can get both stuck, which is
what `StuckOnlyAfterLosses` is about.

Fairness. In `Deployment` the main thread goes on while it can, and a kernel for
which `Stop` is possible at last stops or turns out endless: it is
`Stop(i) \/ NeverEnd(i)` that is weakly fair, never `Stop(i)`, since a `run()` that
is held in a call does not come to its `return raft::stop`. The property `Returns`
names the conditions under which no kernel can be held. A kernel is a thread (RaftLib's or `runSingleKernel`'s) that loops over
`run()`, so each kernel's actions together are weakly fair: it takes a step
whenever it can. `fan_out_liveness` assumes it only of the sender and of the
receivers the sender may wait for, `ar_pipeline_liveness` not of the detector
and the keyboard: they may stop anywhere, a frame in hand. Nothing needs strong
fairness: a condition a kernel waits for can only be undone by itself.

Each property of a passing run has a mutant in `PROJECT.json`: a changed
definition, of the kind of mistake that could be made there, under which TLC
finds the property violated. Mutants precede their targets in the modules.

## What the checks show

- In the fan-out, no buffer is read after it was freed or left unfreed, in all
  interleavings, drops, oversize and losses included (`HeapOwned`); the frame
  count of each branch is right (`Channels`, `InOrder`, `Gapless`), and a
  nonblocking *duplicate* never delays the others.
- In the marker pipeline no circular wait arises, also if the recipe made the
  duplicate blocking: the detector waits for room for a pose, but the renderer
  takes a pose with every frame, after the frame has arrived, and an earlier
  pose has been published by then. A pose is never further ahead of its frame
  than the renderer's queue is long: with the recipe's queues of one frame,
  never ahead at all.
- In the VR pipeline a single dropped message makes all later images be tracked
  with the measurements of other images, and the kernels wait for each other for
  good only after one more loss than the frames' queue holds elements.

- Deployment: a recipe that keeps to the documentation is deployed without an
  exception or null pointer, whatever classes it combines and however they are
  connected (`DocumentedRecipesRun`), but for duplicates of two classes. Each
  port is what the first entry for it says (`AsTheRecipeSays`); kernels are
  destroyed once, but for `Cv2GlRgbDisplay`, which `destroyKernel` does not
  know, and kernels with the id of a later one (`DestroyedOnce`).
- The program ends (`Returns`) if every kernel without a stream into a port it
  waits on comes to the end of its images, no kernel waits outside the streams, and
  the streams form trees. `MCDeployment` has recipes that miss each of the three and
  need not end: players that iterate (`Again`), two ways to one kernel (`Quiet`),
  kernels that wait for each other (`Ring`), remote peers (`Twos`).
- Messages: the receivers' size tests do tell the kinds apart (`OnlyOwnKind`),
  with one exception: a bare `Frame` whose `dataSize` is the difference of the
  two objects passes for an encoded frame.
- Kernels: `OnlyKnownFaults` and `LeaksOnlyUnsent` are exhaustive lists. Three
  classes log fields of a message they have sent; `NonDisplay` releases a pointer
  of another process when frames come by shared memory or network; a message
  shorter than its object is copied before it is rejected; every class but
  `SampleMarkerRenderer` uses a null pointer when its input was rejected;
  `BagCamera` fails over an image it was asked for and the bag lacks: one of those
  to be cached, or the next one if none are. With frames cached it never fails, however long it runs. Placeholders that are not sent, the
  pixels of frames sent as bare objects, and codec packets are lost. Nothing
  else is.
- `HeaderOfInput`: without delay in the codec every message carries the header
  of its input; with delay an encoder or decoder labels a frame with the header of
  a later one. Sources number frames without gaps, and the number names the frame;
  only `ImgPlayer` counts from 1 to the number of its images and starts again at 1,
  also where it finds an image missing, so that its numbers repeat every lap.
- Plugin: handles stay right when sessions fail, but a session that got no
  stream stays open for good. `AnswersFit` names the two calls that may write
  more than there is room for: `RtpGetFrame`, whose width and height are not
  compared with the message, and `RtpGetObjectPose`, which copies `dataSize`
  bytes, the size of the whole message in what two locators send.

### Findings

`deployment_duplicates`: `yaml_ports.h:106` says that `duplicated_from` is a
registered out-port of the kernel's class. `ArUcoCamLocator` registers
`out_cam_pose`, but its YAML class compares `duplicated_from` with `out_frame`,
and `CVCamera`'s does not look at it at all.

`nonblocking_original`: `getOutputPlaceholder` allocates a slot of the RaftLib
stream whatever the port's semantics, and `allocate` waits while the stream is
full. A RaftLib port that is deployed `nonblocking` and is not a duplicate, as
in `examples/game_engine/orb_remote.yaml`, makes its kernel wait for the
receiver; the test for room in `FleXRPort::sendOutput` comes too late.

## Theorems

For all values of the constants that the modules' assumptions allow:

| theorem | says |
|---|---|
| `TypeCorrect`, `HeldStaysAtHead` | types and capacities; a reference points to the front slot until it is freed |
| `DuplicatesNeverWait` | `NonblockingNeverWaits`, unless the original port is a nonblocking RaftLib one: the refuted case and no other |
| `ImplementsChannels` | every connection but RTP implements `PortChannel` |
| `HeapIsOwned` | `HeapOwned`: objects and pixels have exactly the lifetime the code needs, on every transport |
| `FramesInOrder`, `FramesComplete`, `ChannelOrder` | order and completeness, of the detailed ports and, from its own specification alone, of the abstract channel at a port |
| `TimesInRange`, `NeverOversleeps`, `PacedAlways` | pacing, for every width, frequency and run time |
| `RoundTrip`, `RawFramesOnly`, `EncodedFramesOnly` | what is serialized is accepted, and what is accepted was serialized for that port and lies within the bytes received |
| `PortsTakeTheirOwn` | `OnlyOwnKind` for every class of the catalog and all sizes |
| `FaultsAreKnown`, `InputsAreFreed`, `HeadersTell` | `OnlyKnownFaults`, `LeaksOnlyUnsent` and `HeaderOfInput` for every class, any number of `run()`s, and all sizes, bags, folders, delays and queues |
| `TableStands`, `CloseClosesTheRest`, `AnswersAlwaysFit` | the plugin's three invariants, for any number of slots, sessions, sizes and areas |
| `NeverACircle`, `PoseNeverAhead`, `KeysMoveOnce`, `PixelsAreOwned` | `NoCircularWait`, `PoseNotAhead`, `KeyMovesOnce` and `PixelsOwned` of the marker pipeline, for all queue lengths and either semantics of the duplicate |
| `PairsShift`, `StuckNeedsLosses` | `ShiftedByLosses` and `StuckOnlyAfterLosses` of the VR pipeline, for all queue lengths and any losses |
| `TypeCorrect` of either pipeline | types, and no queue holds more than its length |
| `KernelsDestroyedOnce`, `DuplicatesAlwaysMatch` | `DestroyedOnce` and `DuplicatesMatch` of any finite set of recipes, right or wrong |
| `PortsAreAsTheRecipeSays` | `AsTheRecipeSays`: the channel of each port for any recipes, semantics and duplicates too for documented ones |
| `DocumentedRecipesAlwaysRun` | `DocumentedRecipesRun`: whatever a documented recipe combines, it is deployed and its kernels run to their end before they are destroyed; pose estimators have the sensor `mono_inertial` |
| `TypeCorrect` of `Deployment` | types, and that the tables of the made kernels go together |

Assumptions: connections hold at least one message, sizes are natural numbers,
the times have at least one value, 0 is a possible clock offset. The sizes of the
message objects are in the order they have in the code (key, pointer, pose,
frame), a pose fits in its object, and two objects fit in 32 bits
(`SizesAssumption`); payloads are small enough for their message to have a size.
Recipes are finitely many, and their fields have the types the YAML library
gives them (`RecipesAssumption`): any strings, sequences of any length. Bags are
any sequences of images, folders list at least one, and the numbers of a bag and the
length of an application's queue are counts (`RunAssumption`): `cacheFrames` loops
that often, and not at all when asked for a negative number, which is to skip or to
cache 0.

The argument for the ports: only the sender appends to a connection, and
receivers only take, so room that a step has found is still there at the later
step that relies on it. The invariant (`IInv` in `FleXRPortManager_proofs`)
says so for each place the sender can be in: at `copy` on a nonblocking port, at
`publish`, and at `fill` for a RaftLib original port, the stream has room. None
of the checked properties says that, and none is inductive without it. For the
receiver it says that a frame in hand is still at the front of its stream.
Refinement then goes action by action: passing over a frame is a `Pass` because
the queue is full or the frame too large, publishing and transmitting an
`Accept`, receiving or recycling a `Take`.

Ownership (`HeapOwned`) is inductive on top of `IInv` and `InOrder`: what a
receiver may still read belongs to frames older than the one being sent, so the
sender's steps leave it alone (`SenderOwns`); and the numbers in a stream
increase, so recycling the front frame frees no other's pixels.

The argument for the marker pipeline (`IInv` in `ARPipeline_proofs`). Every
stream has one writer, so who asked for room finds it there when sending
(`RoomOK`), and one reader, so what a kernel has got is at the front until it
frees it (`HeldOK`). `OrderOK` counts frames: the stream to the renderer holds
`Freed`, `Freed + 1`, ..., those to the detector and the display increase and lie
before what was offered to the one and freed by the renderer. From this
`PoseNotAhead` and `KeyMovesOnce` are inductive. For the circle of three with a
blocking duplicate, player waiting for detector for renderer for player, it
takes a count across them (`PaceOK`): poses not yet taken and frames the
renderer has asked a pose for are together no more than the frames the detector is
done with and the length of the queue to it. If the player waits for room in that
queue and the renderer for the player, both sides count the frames offered to
the detector, so that no pose is left: the detector does not wait (`LongCircle`).
The shorter circles are excluded by
lengths alone: a stream is not full and empty at a time. `PixelsOwned` is
inductive on top of `IInv`: the numbers in a stream are distinct, so freeing
the front one leaves the others their pixels. It takes `Readable` besides: only
frames of images that could be read go on to the display, so what it frees is never
the empty buffer of one that could not.

The argument for the VR pipeline (`IInv` in `VRPipeline_proofs`): the frames
queued and in hand are consecutive and end with the last one read, the
measurements queued are those since the last one taken that were not lost, and
taking one moves the estimator past the losses before it. If
the kernels wait for each other, all measurements read are taken or lost, as
many frames as the queue holds and the one in hand are not tracked yet, and
each stands for a loss.

The argument for pacing: as long as the clock was not set, `lastTs` is the clock
at `last` modulo `W`, so the computed difference falls short of the real one by
whole wraps (`ElapsedAtMost`), and the sleep it leads to is long enough.

The argument for deployment goes by layers, each inductive on the ones before.
`IInv`: the kernels made are those of the entries passed, and each is
in `singles` if it is single and in `kernelMap` unless a later one has its id; so
no kernel is in both and none in `singles` twice, which is what destroying once
takes. `RegistryOK`: a kernel's tables hold its class's ports and the
duplicates it remembers, each with the type and the serializer of its original;
for this the catalog is gone through class by class (`Catalog`). `ChannelsOK`
follows `make()` entry by entry: the first entry for a name decides (`First`), for a
second one finds the port activated. With these and `Documented` nothing makes
main give up (`NotGivenUp`): ids are distinct, so the map leads back to the
entry (`KeptOK`); the streams are those of the connections main has been through
(`LinksOK`), so no port is linked twice and, in the end, each RaftLib port is
linked.

The proof corrected the model. It had compared names to tell whether a
port is linked, for in- and out-ports alike. A duplicate is a new out-port
and may be named like an in-port of the same kernel, though; with one stream to the
in-port, the unlinked duplicate would have passed for linked, and with
two the second link for a repetition. RaftLib keeps in- and out-ports apart, as
`LinkedPorts` does now, and the recipe `SameName` of `MCDeployment` has the case.

The argument for sizes: a received size is the sum of an object's size and a
payload's, or an object's size alone. If a message of another kind passed a
test, the difference of the two objects would have to be what the sender put in
`dataSize`; `MessageCases` lists the kinds, and for each `Minus` either is not
`dataSize` or has wrapped beyond every payload. The pixel count in a `Frame` is
not needed (`FrameSizes`). For the kernels it remains that `got` changes nowhere
but where a message was accepted (`KindInv`), and that the catalog has
deserializers for three types only (`CatalogPorts`).

The argument for the programs of `KernelRun` has two halves. The first is about
programs alone. In a `run()` the message of a port goes through *statuses*: an
input is fresh, got (perhaps null), here, empty, done; an output is placed, has its
header, its content, or both, is given away, or is not to be had from the codec
this time; and an application queue is known to have room or not. `Allowed` says
which step may find a port in which status, and `Then` what it leaves. A set of
pairs of a rest of a program and a status is `Closed` if each rest begins with a step
that is allowed, all that may come next (both sides of a branch, a codec that
gives nothing) is in the set, and an empty rest goes with a status in which
`run()` may leave a port. A rest is `Safe` from a status if some closed set has the
pair. Such a set stands for an induction over the program, which the prover cannot
do; it is built by one lemma per kind of step, a sequence at a time (`Cons1` to
`Cons11`). `AllStart`: of all 21 classes, each port starts safe. What this
half excludes, in all branches at once, is what `OnlyKnownFaults` and
`LeaksOnlyUnsent` are about: an early return that forgets an input, a use after
`sendOutput`, a message sent without header.

The second half relates statuses to the state (`Conforms`) and is the same for all
classes. `KernelInv` says that while a kernel runs, each of its ports has a status
that conforms and from which the rest of `run()` is safe; there is one lemma per action
(`PlaceKeeps`, ..., `NextRunKeeps`). None of the three properties is inductive
without it: they say nothing of a message until it is misused, lost or
sent. What an output's numbers are takes more: `Numbers` has, for a source,
`seq` and the reader of the bag as functions of what was sent last (with cached
frames the reader is `seq` modulo their number, `NextRemainder`; in a bag it is past
the images skipped and sent, `BagConforms`), and for the others
that what is in the codec is increasing, later than what was sent and no later
than the input at hand. For `ImgPlayer` (`PlayerConforms`) `seq` is how many images
of this lap were sent, and an image about to be sent is there and below the end of
the lap, which is known before the player has found it out. `Opening` says the same
of the bag while images are cached. `Between` carries them from one `run()` to the next. The
application may only add elements to a queue the kernel takes from, or take from one
it adds to, so what the kernel has found out about it stays true.

The proof corrected the model: `ContentFrom` had two arms of a `CASE` that are
true at a time for `BagCamera`, and TLA+ does not say which one counts (TLC takes
the first, so that the runs had meant the right one). `NextFrame` tells them apart.

The argument for the plugin: `HandlesStand` and `OnlyUnluckyStayOpen` are
inductive together: the handles are exactly the slots before `numOfSess`, so a
failed session only disturbs a slot without a handle, and what has a stream is
what `RtpClose` finds.

Only model-checked: liveness, that is `SenderProceeds`, `EveryFrameArrives`,
`EveryFrameShown`, `EveryImageTracked` and `Returns`. Fairness and `ENABLED` are out
of the prover's reach, as is induction over data; the modules have no RECURSIVE
operator.

## Not modelled, and what could follow

Not modelled, and why:

- Inertial measurements as messages of other kinds: they are `boost` archives,
  which are either read or throw (`GetArchive`).
- Addresses, port numbers and the opening of sockets: `zmq_port.h` and
  `rtp_port.h` pass them on.
- Functions for custom kernels (`RegisterCustomKernelFuncs`): the repository's
  code does not use them.
- What a decoder keeps of a payload that was deleted, and with which function an
  `AVPacket`'s payload must be freed: matters of the codec library.
- `FrameConverter` writes its configured format into the input's `Frame`; no
  property is about formats.
- Detection, tracking, coding and drawing themselves, devices, log output, the
  other two Unity plugins (wrappers of OpenCV calls without state of their own),
  tests, the build and vendored code.

What could follow: the composition of an encoder, a lossy port and a decoder; the
statuses of `KernelRun_proofs` say what each end may rely on.
