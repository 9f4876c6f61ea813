-------------------------- MODULE FleXRPortManager --------------------------
(***************************************************************************)
(* One kernel that sends frames (BagCamera::run) through an output port    *)
(* and the duplicates of that port, and for every port the kernel that     *)
(* displays what arrives (CVDisplay::run).                                 *)
(*                                                                         *)
(* Modelled: FleXRPortManager::sendOutput with the fan-out over the        *)
(* duplicated ports, FleXRPort::getOutputPlaceholder / sendOutput /        *)
(* sendOutputToShm / sendOutputToRemote on one side, FleXRPort::getInput / *)
(* getInputFromShm / getInputFromRemote / freeInput on the other, for the  *)
(* four kinds of connection and both semantics at both ends, and who owns  *)
(* each message object and each data buffer on the heap.                   *)
(*                                                                         *)
(* External: the RaftLib stream, the FleXR shared-memory queue, the ZMQ    *)
(* PAIR sockets and the uvgRTP stream are bounded queues of message        *)
(* numbers; the RTP one loses and reorders messages.                       *)
(***************************************************************************)
EXTENDS Integers, Sequences, SequencesExt

CONSTANTS
  NumPorts,   \* the ports of the fan-out: duplicates first, the original last
  Channel,    \* Channel[p]: "RAFTLIB", "SHM" (local), "TCP" or "RTP" (remote)
  OutSem,     \* OutSem[p]: outputSemantics, "BLOCKING" or "NONBLOCKING"
  InSem,      \* InSem[p]: inputSemantics of the in-port at the other end
  Cap,        \* Cap[p]: messages the connection of p holds
  ElemSize,   \* ElemSize[p]: the largest serialized message an SHM port takes
  Sizes,      \* the serialized sizes a frame may have
  MaxSeq      \* bound: the sending kernel stops after this many frames

Ports     == 1..NumPorts
Original  == NumPorts
Semantics == {"BLOCKING", "NONBLOCKING"}
Raft(p)   == Channel[p] = "RAFTLIB"

ASSUME PortsAssumption ==
  /\ NumPorts \in Nat \ {0}
  /\ Channel \in [Ports -> {"RAFTLIB", "SHM", "TCP", "RTP"}]
  /\ OutSem \in [Ports -> Semantics]
  /\ InSem \in [Ports -> Semantics]

ASSUME SizesAssumption ==
  /\ Cap \in [Ports -> Nat \ {0}]
  /\ ElemSize \in [Ports -> Nat]
  /\ Sizes \subseteq Nat
  /\ MaxSeq \in Nat

(* A definition marked as a mutant is a changed form of the one after it,  *)
(* for checking that the properties notice the change.                     *)

VARIABLES
  pc,      \* where the sending kernel is in run()
  at,      \* the port sendOutput is busy with
  seq,     \* the kernel's frame counter
  size,    \* serialized size of the frame being sent
  queue,   \* queue[p]: the frames in the connection of p
  rpc,     \* rpc[p]: where the receiving kernel of p is in its run()
  held,    \* held[p]: the frame that kernel got last
  next,    \* next[p]: one more than the last frame that left queue[p]
  heap     \* the message objects and data buffers that are allocated

vars == <<pc, at, seq, size, queue, rpc, held, next, heap>>

(* The frame being sent: run() numbers it with seq++ when it fills it in.  *)
Cur == IF pc \in {"place", "fill"} THEN seq ELSE seq - 1

(* Heap cells, one per new expression and execution of it.                 *)
OutMsg(s, p)  == <<"outMsg", s, p>>    \* the placeholder, new T
OutData(s, p) == <<"outData", s, p>>   \* pixels of the frame, or of its clone
SendBuf(s, p) == <<"sendBuf", s, p>>   \* the serialized frame
InMsg(s, p)   == <<"inMsg", s, p>>     \* the deserialized message, new T
InData(s, p)  == <<"inData", s, p>>    \* its pixels
Cells == {"outMsg", "outData", "sendBuf", "inMsg", "inData"}
           \X (0..MaxSeq) \X Ports

FullOffByOne(p) == Len(queue[p]) > Cap[p]    \* mutant

(* checkLocalPortFull, and having no room in the other connections.        *)
Full(p) == Len(queue[p]) = Cap[p]

(* The first step of sendOutput for port p, and what follows port at.      *)
StartOf(p) == IF ~Raft(p) THEN "serialize"
              ELSE IF p = Original THEN "publish" ELSE "check"

Advance == IF at = Original THEN pc' = "place" /\ at' = 1
                            ELSE pc' = StartOf(at + 1) /\ at' = at + 1
-----------------------------------------------------------------------------
(* The sending kernel.                                                     *)

(* getOutputPlaceholder on the original port: a slot of the RaftLib stream *)
(* (allocate waits while the stream is full), or a new message object.     *)
GetOutputPlaceholder ==
  /\ pc = "place" /\ seq < MaxSeq
  /\ Raft(Original) => ~Full(Original)
  /\ heap' = IF Raft(Original) THEN heap ELSE heap \cup {OutMsg(Cur, Original)}
  /\ pc' = "fill"
  /\ UNCHANGED <<at, seq, size, queue, rpc, held, next>>

(* run() sets the frame and its header, then calls sendOutput.             *)
Fill ==
  /\ pc = "fill"
  /\ \E sz \in Sizes : size' = sz
  /\ heap' = heap \cup {OutData(Cur, Original)}
  /\ seq' = seq + 1
  /\ pc' = StartOf(1) /\ at' = 1
  /\ UNCHANGED <<queue, rpc, held, next>>

CheckDuplicateNever ==   \* mutant: the test for room is forgotten
  /\ pc = "check" /\ pc' = "copy"
  /\ UNCHANGED <<at, seq, size, queue, rpc, held, next, heap>>

CheckDuplicateReturns ==   \* mutant: a full duplicate ends sendOutput
  /\ pc = "check"
  /\ IF OutSem[at] = "NONBLOCKING" /\ Full(at)
       THEN pc' = "place" /\ at' = 1
       ELSE pc' = "copy" /\ UNCHANGED at
  /\ UNCHANGED <<seq, size, queue, rpc, held, next, heap>>

(* A RaftLib duplicate: a NONBLOCKING one is passed over while it is full. *)
CheckDuplicate ==
  /\ pc = "check"
  /\ IF OutSem[at] = "NONBLOCKING" /\ Full(at)
       THEN Advance
       ELSE pc' = "copy" /\ UNCHANGED at
  /\ UNCHANGED <<seq, size, queue, rpc, held, next, heap>>

(* sendLocalFrameCopy: allocate a slot of the duplicate's stream, waiting  *)
(* while it is full, and clone the frame into it.                          *)
CopyToDuplicate ==
  /\ pc = "copy"
  /\ ~Full(at)
  /\ heap' = heap \cup {OutData(Cur, at)}
  /\ pc' = "publish"
  /\ UNCHANGED <<at, seq, size, queue, rpc, held, next>>

(* FleXRPort::sendOutput on a RaftLib port.                                *)
Publish ==
  /\ pc = "publish"
  /\ queue' = IF OutSem[at] = "BLOCKING" \/ ~Full(at)
                THEN [queue EXCEPT ![at] = Append(@, Cur)] ELSE queue
  /\ Advance
  /\ UNCHANGED <<seq, size, rpc, held, next, heap>>

FreeMsgAlways(cell) == {cell}                                \* mutant
FreeMsgNever(cell) == {}                                     \* mutant

(* freeMsg: the original port frees what the kernel filled in, the         *)
(* duplicates, which go first, leave it alone.                             *)
FreeMsg(cell) == IF at = Original THEN {cell} ELSE {}

(* serializeRawFrame: copy header and pixels into a send buffer.           *)
Serialize ==
  /\ pc = "serialize"
  /\ heap' = (heap \cup {SendBuf(Cur, at)}) \ FreeMsg(OutData(Cur, Original))
  /\ pc' = "transmit"
  /\ UNCHANGED <<at, seq, size, queue, rpc, held, next>>

Oversize(p) == Channel[p] = "SHM" /\ size > ElemSize[p]

WaitsForRoomAnySemantics(p) == Channel[p] \in {"SHM", "TCP"}          \* mutant
WaitsForRoomTcpOnly(p) == Channel[p] = "TCP"                          \* mutant
WaitsForRoomShmOnly(p) == Channel[p] = "SHM" /\ OutSem[p] = "BLOCKING" \* mutant

(* Which ports make the sender wait for room: BLOCKING shared memory, and  *)
(* TCP at its high-water mark whatever the semantics; RTP never does.      *)
WaitsForRoom(p) == \/ Channel[p] = "SHM" /\ OutSem[p] = "BLOCKING"
                   \/ Channel[p] = "TCP"

(* The rest of sendOutputToShm and sendOutputToRemote.                     *)
Transmit ==
  /\ pc = "transmit"
  /\ WaitsForRoom(at) /\ ~Oversize(at) => ~Full(at)
  /\ queue' = IF Oversize(at) \/ Full(at)
                THEN queue ELSE [queue EXCEPT ![at] = Append(@, Cur)]
  /\ heap' = heap \ ({SendBuf(Cur, at)} \cup FreeMsg(OutMsg(Cur, Original)))
  /\ Advance
  /\ UNCHANGED <<seq, size, rpc, held, next>>
-----------------------------------------------------------------------------
(* The receiving kernel of port p.                                         *)

(* getInput on a NONBLOCKING RaftLib in-port: peek only if not empty.      *)
CheckEmpty(p) ==
  /\ rpc[p] = "get" /\ Raft(p) /\ InSem[p] = "NONBLOCKING"
  /\ queue[p] # << >>
  /\ rpc' = [rpc EXCEPT ![p] = "peek"]
  /\ UNCHANGED <<pc, at, seq, size, queue, held, next, heap>>

(* peek waits for a frame and hands out a reference into the stream.       *)
Peek(p) ==
  /\ Raft(p)
  /\ rpc[p] = "peek" \/ (rpc[p] = "get" /\ InSem[p] = "BLOCKING")
  /\ queue[p] # << >>
  /\ held' = [held EXCEPT ![p] = Head(queue[p])]
  /\ rpc' = [rpc EXCEPT ![p] = "use"]
  /\ UNCHANGED <<pc, at, seq, size, queue, next, heap>>

(* getInputFromShm and getInputFromRemote: a frame is taken out and        *)
(* deserialized into a new message; without one a BLOCKING in-port waits   *)
(* and a NONBLOCKING one returns nullptr, which changes nothing.  RTP      *)
(* hands out the frames in whichever order they were completed.            *)
Receive(p) ==
  /\ rpc[p] = "get" /\ ~Raft(p)
  /\ \E i \in 1..Len(queue[p]) :
       /\ i = 1 \/ Channel[p] = "RTP"
       /\ held' = [held EXCEPT ![p] = queue[p][i]]
       /\ next' = [next EXCEPT ![p] = queue[p][i] + 1]
       /\ queue' = [queue EXCEPT ![p] = RemoveAt(@, i)]
       /\ heap' = heap \cup {InMsg(queue[p][i], p), InData(queue[p][i], p)}
  /\ rpc' = [rpc EXCEPT ![p] = "use"]
  /\ UNCHANGED <<pc, at, seq, size>>

Pixels(s, p) == IF Raft(p) THEN OutData(s, p) ELSE InData(s, p)

ReleaseRecycles(p) ==   \* mutant: the slot is recycled with the pixels
  /\ rpc[p] = "use"
  /\ heap' = heap \ {Pixels(held[p], p)}
  /\ rpc' = [rpc EXCEPT ![p] = "free"]
  /\ queue' = IF Raft(p) THEN [queue EXCEPT ![p] = Tail(@)] ELSE queue
  /\ UNCHANGED <<pc, at, seq, size, held, next>>

(* inFrame->data.release(), once the frame is displayed.                   *)
Release(p) ==
  /\ rpc[p] = "use"
  /\ heap' = heap \ {Pixels(held[p], p)}
  /\ rpc' = [rpc EXCEPT ![p] = "free"]
  /\ UNCHANGED <<pc, at, seq, size, queue, held, next>>

FreeInputKeepsSlot(p) ==   \* mutant: recycle is forgotten
  /\ rpc[p] = "free"
  /\ rpc' = [rpc EXCEPT ![p] = "get"]
  /\ next' = [next EXCEPT ![p] = held[p] + 1]
  /\ heap' = IF Raft(p) THEN heap ELSE heap \ {InMsg(held[p], p)}
  /\ UNCHANGED <<pc, at, seq, size, queue, held>>

(* freeInput: recycle the slot of the stream, or delete the message.       *)
FreeInput(p) ==
  /\ rpc[p] = "free"
  /\ rpc' = [rpc EXCEPT ![p] = "get"]
  /\ IF Raft(p)
       THEN /\ queue' = [queue EXCEPT ![p] = Tail(@)]
            /\ next' = [next EXCEPT ![p] = Head(queue[p]) + 1]
            /\ UNCHANGED heap
       ELSE /\ heap' = heap \ {InMsg(held[p], p)}
            /\ UNCHANGED <<queue, next>>
  /\ UNCHANGED <<pc, at, seq, size, held>>

(* External: the network loses a frame of an RTP connection.               *)
Lose(p) ==
  /\ Channel[p] = "RTP"
  /\ \E i \in 1..Len(queue[p]) : queue' = [queue EXCEPT ![p] = RemoveAt(@, i)]
  /\ UNCHANGED <<pc, at, seq, size, rpc, held, next, heap>>
-----------------------------------------------------------------------------
Init ==
  /\ pc = "place" /\ at = 1 /\ seq = 0
  /\ size \in Sizes
  /\ queue = [p \in Ports |-> << >>]
  /\ rpc = [p \in Ports |-> "get"]
  /\ held = [p \in Ports |-> 0]
  /\ next = [p \in Ports |-> 0]
  /\ heap = {}

Send == \/ GetOutputPlaceholder \/ Fill \/ CheckDuplicate \/ CopyToDuplicate
        \/ Publish \/ Serialize \/ Transmit

Consume(p) == CheckEmpty(p) \/ Peek(p) \/ Receive(p) \/ Release(p) \/ FreeInput(p)

(* MaxSeq frames are sent and every receiver waits for one more.           *)
Finished ==
  /\ pc = "place" /\ seq = MaxSeq
  /\ \A p \in Ports : rpc[p] = "get" /\ queue[p] = << >>
  /\ UNCHANGED vars

Next == Send \/ Finished \/ \E p \in Ports : Consume(p) \/ Lose(p)

(* The receivers a sender may have to wait for.                            *)
SenderWaitsFor(p) == \/ WaitsForRoom(p)
                     \/ Raft(p) /\ OutSem[p] = "BLOCKING"

Spec == Init /\ [][Next]_vars

(* Kernels are threads: the sender runs on, and so do the kernels behind   *)
(* the ports that make it wait.  Nothing is assumed of the kernels behind  *)
(* the other ports, which may stop anywhere, even with a frame in hand.    *)
FairSpec == /\ Spec
            /\ WF_vars(Send)
            /\ \A p \in Ports : SenderWaitsFor(p) => WF_vars(Consume(p))
-----------------------------------------------------------------------------
(* Properties.                                                             *)

(* Every variable stays in its range, and no connection ever holds more    *)
(* frames than it has room for.                                            *)
TypeOK ==
  /\ pc \in {"place", "fill", "check", "copy", "publish", "serialize", "transmit"}
  /\ at \in Ports
  /\ seq \in 0..MaxSeq
  /\ size \in Sizes
  /\ queue \in [Ports -> Seq(0..(MaxSeq - 1))]
  /\ \A p \in Ports : Len(queue[p]) <= Cap[p]
  /\ rpc \in [Ports -> {"get", "peek", "use", "free"}]
  /\ held \in [Ports -> 0..MaxSeq]
  /\ next \in [Ports -> 0..MaxSeq]
  /\ heap \subseteq Cells

(* What the kernels still have a pointer to: the sender the frame it is    *)
(* sending, the clone or the buffer it is about to hand over; a RaftLib    *)
(* stream the pixels of its frames; a receiver the frame it is using.      *)
SenderCells ==
  (IF pc # "place" /\ ~Raft(Original) THEN {OutMsg(Cur, Original)} ELSE {})
  \cup
  (IF pc \in {"place", "fill"} \/ (pc = "transmit" /\ at = Original)
     THEN {} ELSE {OutData(Cur, Original)})
  \cup
  (IF pc = "publish" THEN {OutData(Cur, at)} ELSE {})
  \cup
  (IF pc = "transmit" THEN {SendBuf(Cur, at)} ELSE {})

Released(p) == IF rpc[p] = "free" THEN 1 ELSE 0

ReceiverCells(p) ==
  IF Raft(p)
    THEN { OutData(queue[p][i], p) : i \in (1 + Released(p))..Len(queue[p]) }
    ELSE (IF rpc[p] \in {"use", "free"} THEN {InMsg(held[p], p)} ELSE {})
         \cup
         (IF rpc[p] = "use" THEN {InData(held[p], p)} ELSE {})

(* Every message object and pixel buffer has exactly the lifetime the code *)
(* needs: nothing a kernel will still touch is freed (the duplicates are   *)
(* cloned from pixels that are still there, a receiver never displays      *)
(* freed pixels), and nothing is left allocated that nobody can free.      *)
HeapOwned == heap = SenderCells \cup UNION { ReceiverCells(p) : p \in Ports }

(* The reference getInput handed out stays valid until freeInput: the slot *)
(* it points into is still the front one of the stream.                    *)
HeldAtHead ==
  \A p \in Ports : Raft(p) /\ rpc[p] \in {"use", "free"} =>
                     queue[p] # << >> /\ held[p] = Head(queue[p])

(* The sending kernel is waiting for room in the connection of port p.     *)
WaitsAt(p) ==
  /\ Full(p)
  /\ \/ pc = "place" /\ seq < MaxSeq /\ p = Original /\ Raft(p)
     \/ pc = "copy" /\ p = at
     \/ pc = "transmit" /\ p = at /\ WaitsForRoom(p) /\ ~Oversize(p)

(* A local port deployed with nonblocking semantics never keeps its kernel *)
(* waiting, however slow the receiver is.                                  *)
NonblockingNeverWaits ==
  \A p \in Ports : OutSem[p] = "NONBLOCKING" /\ Channel[p] \in {"RAFTLIB", "SHM"}
                     => ~WaitsAt(p)

(* Frames the sender is done with at port p, sent or passed over.          *)
Offered(p) == IF pc \in {"place", "fill"} \/ at > p THEN seq ELSE seq - 1

PC(p) == INSTANCE PortChannel WITH
           Cap <- Cap[p],
           DropsOnFull <- OutSem[p] = "NONBLOCKING" /\ Channel[p] # "TCP",
           MayReject <- Channel[p] = "SHM" /\ \E sz \in Sizes : sz > ElemSize[p],
           fits <- ~Oversize(p), offered <- Offered(p), chan <- queue[p], next <- next[p]

FifoPorts == { p \in Ports : Channel[p] # "RTP" }

(* Each connection but RTP implements the channel of PortChannel: what     *)
(* arrives at a receiver is what was offered, in order, each at most once, *)
(* and a port loses a frame only for being nonblocking and full when the   *)
(* frame was offered, or because the frame does not fit.                   *)
(* This is \A p \in FifoPorts : PC(p)!Spec, in the form TLC evaluates.     *)
Channels == /\ \A p \in FifoPorts : PC(p)!Init
            /\ [][\A p \in FifoPorts : [PC(p)!Next]_(PC(p)!vars)]_vars

(* The order and the completeness of each such channel, as invariants.     *)
InOrder == \A p \in FifoPorts : PC(p)!InOrder
Gapless == \A p \in FifoPorts : PC(p)!Gapless

(* The sender gets through all its frames although the kernels behind the  *)
(* nonblocking ports may stop at any point, a frame in hand.               *)
SenderProceeds == <>(pc = "place" /\ seq = MaxSeq)

(* Every frame reaches the receiver of every port that makes the sender    *)
(* wait, whatever becomes of the receivers of the other ports.             *)
EveryFrameArrives ==
  \A p \in Ports : SenderWaitsFor(p) /\ Channel[p] # "SHM" =>
    \A s \in 0..(MaxSeq - 1) : <>(held[p] = s /\ rpc[p] = "use")
=============================================================================
