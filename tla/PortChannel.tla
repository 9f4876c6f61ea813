---------------------------- MODULE PortChannel ----------------------------
(***************************************************************************)
(* What one FleXR connection promises to the two kernels at its ends: a    *)
(* bounded first-in first-out channel of numbered messages.  The sender    *)
(* offers message 0, 1, 2, ... exactly once each; the channel takes the    *)
(* offered message in, or passes it over for a reason the deployment       *)
(* allows; the receiver takes messages out from the front.                 *)
(*                                                                         *)
(* FleXRPortManager implements one instance of this module per port.       *)
(***************************************************************************)
EXTENDS Naturals, Sequences

CONSTANTS
  Cap,           \* messages the channel holds
  DropsOnFull,   \* TRUE: a message offered to a full channel is passed over
  MayReject      \* TRUE: some messages do not fit in an element of the channel

VARIABLES
  fits,          \* whether the next message to offer fits
  offered,       \* messages the sender is done with; the next one to offer
  chan,          \* the numbers of the messages in flight
  next           \* one more than the number of the last message taken out

vars == <<fits, offered, chan, next>>

Fits == IF MayReject THEN BOOLEAN ELSE {TRUE}

Init == fits \in Fits /\ offered = 0 /\ chan = << >> /\ next = 0

(* The sender makes another message its next one.                          *)
Prepare == fits' \in Fits /\ UNCHANGED <<offered, chan, next>>

Accept == /\ fits /\ Len(chan) < Cap
          /\ chan' = Append(chan, offered)
          /\ offered' = offered + 1
          /\ UNCHANGED <<fits, next>>

(* A message is passed over for these two reasons only.                    *)
Pass == /\ ~fits \/ (DropsOnFull /\ Len(chan) = Cap)
        /\ offered' = offered + 1
        /\ UNCHANGED <<fits, chan, next>>

Take == /\ chan # << >>
        /\ next' = Head(chan) + 1
        /\ chan' = Tail(chan)
        /\ UNCHANGED <<fits, offered>>

Next == Prepare \/ Accept \/ Pass \/ Take

Spec == Init /\ [][Next]_vars
-----------------------------------------------------------------------------
(* No message overtakes another: what is in flight is newer than whatever  *)
(* was taken out, older than whatever is still to come, and in the order   *)
(* it was offered.                                                         *)
InOrder == /\ \A i \in 1..Len(chan) : next <= chan[i] /\ chan[i] < offered
           /\ \A i, j \in 1..Len(chan) : i < j => chan[i] < chan[j]
           /\ next <= offered

(* A channel that passes nothing over has in flight every message between  *)
(* the last one taken out and the last one offered.                        *)
Gapless == ~DropsOnFull /\ ~MayReject =>
             /\ next + Len(chan) = offered
             /\ \A i \in 1..Len(chan) : chan[i] = next + i - 1
=============================================================================
