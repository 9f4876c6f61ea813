----------------------------- MODULE RtpPlugin -----------------------------
(* The Unity plugin flexr_rtp_plugin.cc: a table of RTP sessions that a    *)
(* game opens one by one and closes all at once, and the calls with which  *)
(* it takes frames, matrices, poses and keys from a session and sends its  *)
(* own frames.  A call is one step.                                        *)
EXTENDS MessageFormat, FiniteSets

CONSTANTS MAX_SESSION,
          Sessions,    \* the sessions uvgRTP can have at a time
          NullPtr,
          Sizes,       \* payload sizes of the messages that arrive
          Areas,       \* width times height of what Unity asks for
          MaxSeq       \* bound: frames sent on one slot

ASSUME PluginAssumption == /\ MAX_SESSION \in Nat \ {0}
                           /\ NullPtr \notin Sessions
                           /\ Sizes \subseteq Payloads
                           /\ Areas \subseteq Nat /\ MaxSeq \in Nat

VARIABLES sessions,    \* the table: RtpSession
          numOfSess,
          open,        \* sessions created in uvgRTP's context and not destroyed
          streams,     \* those with a stream that was not destroyed
          handles,     \* what RtpAddSession returned since RtpClose -> its session
          unlucky,     \* sessions that got no stream
          answer       \* the last Get call: what it took, returned and wrote

table == <<sessions, numOfSess, open, streams, handles, unlucky>>
vars  == <<table, answer>>

Slots == 0..(MAX_SESSION - 1)
RtpSession == [session : Sessions \cup {NullPtr}, stream : BOOLEAN,
               isSet : BOOLEAN, seq : Nat]
EmptySession == [session |-> NullPtr, stream |-> FALSE, isSet |-> FALSE, seq |-> 0]
InUse == {i \in Slots : sessions[i].isSet}
-----------------------------------------------------------------------------
(* setSession: create the session, then its stream.  What was done is not  *)
(* undone when the next thing fails.                                       *)
With(i, s, stream) ==
  [sessions EXCEPT ![i] = [@ EXCEPT !.session = s, !.stream = stream, !.isSet = stream]]

AddSessionAgain ==   \* mutant: numOfSess is returned and not advanced
  /\ numOfSess < MAX_SESSION
  /\ \E s \in Sessions \ open :
       /\ sessions' = With(numOfSess, s, TRUE)
       /\ open' = open \cup {s} /\ streams' = streams \cup {s}
       /\ handles' = [i \in DOMAIN handles \cup {numOfSess} |->
                        IF i = numOfSess THEN s ELSE handles[i]]
  /\ UNCHANGED <<numOfSess, unlucky, answer>>

(* RtpAddSession returns the number of the slot.                           *)
AddSession ==
  /\ numOfSess < MAX_SESSION
  /\ \E s \in Sessions \ open :
       /\ sessions' = With(numOfSess, s, TRUE)
       /\ open' = open \cup {s} /\ streams' = streams \cup {s}
       /\ handles' = [i \in DOMAIN handles \cup {numOfSess} |->
                        IF i = numOfSess THEN s ELSE handles[i]]
  /\ numOfSess' = numOfSess + 1
  /\ UNCHANGED <<unlucky, answer>>

(* It returns -1: no stream; no session; the table is full.                *)
AddNoStream ==
  /\ numOfSess < MAX_SESSION
  /\ \E s \in Sessions \ open :
       /\ sessions' = [sessions EXCEPT ![numOfSess] =
                         [@ EXCEPT !.session = s, !.stream = FALSE]]
       /\ open' = open \cup {s} /\ unlucky' = unlucky \cup {s}
  /\ UNCHANGED <<numOfSess, streams, handles, answer>>

AddNoSession ==
  /\ numOfSess < MAX_SESSION
  /\ sessions' = [sessions EXCEPT ![numOfSess].session = NullPtr]
  /\ UNCHANGED <<numOfSess, open, streams, handles, unlucky, answer>>

DestroyStream(i) ==   \* mutant: the session is left in the context
  {}

(* RtpSession::close destroys the stream and the session, and keeps seq.   *)
DestroySession(i) == {sessions[i].session}
Closed(r) == [EmptySession EXCEPT !.seq = r.seq]

(* Only sessions that are set are closed.                                  *)
RtpClose ==
  /\ sessions' = [i \in Slots |-> IF i \in InUse THEN Closed(sessions[i]) ELSE sessions[i]]
  /\ numOfSess' = 0
  /\ open' = open \ UNION {DestroySession(i) : i \in InUse}
  /\ streams' = streams \ {sessions[i].session : i \in InUse}
  /\ handles' = [i \in {} |-> NullPtr]
  /\ UNCHANGED <<unlucky, answer>>
-----------------------------------------------------------------------------
(* What a Get call returns: 1 (true), -1 if the session is not set, -2 if  *)
(* the message is not what was asked for, -3 if there was none.            *)
Answer(call, kind, result, wrote, room) ==
  [call |-> call, kind |-> kind, result |-> result, wrote |-> wrote, room |-> room]
Returns(call, result) == Answer(call, "none", result, 0, 0)

GetCalls == {"RtpGetFrame", "RtpGetMatrix", "RtpGetObjectPose", "RtpGetKey"}

GetNothing(call, i) ==
  /\ \/ ~sessions[i].isSet /\ answer' = Returns(call, -1)
     \/ sessions[i].isSet /\ answer' = Returns(call, -3)
  /\ UNCHANGED table

(* How many bytes are copied, and for how many there is room.              *)
Takes(call, m, wrote, room) ==
  answer' = Answer(call, m.kind, 1, wrote, room)
Refuses(call, m) == answer' = Answer(call, m.kind, -2, 0, 0)

RtpGetFrame(i, m, area) ==
  /\ sessions[i].isSet
  /\ IF deserializeRawFrame(m.bytes)   \* the same test
       THEN Takes("RtpGetFrame", m, m.bytes.dataSize, 3 * area)
       ELSE Refuses("RtpGetFrame", m)
  /\ UNCHANGED table

MatrixOfAnySize(b, area) ==   \* mutant: the area is not compared
  Minus(b.size, FrameMeta) = b.dataSize

IsMatrix(b, area) == Minus(b.size, FrameMeta) = b.dataSize /\ 4 * area = b.dataSize
RtpGetMatrix(i, m, area) ==
  /\ sessions[i].isSet
  /\ IF IsMatrix(m.bytes, area)
       THEN Takes("RtpGetMatrix", m, m.bytes.dataSize, 4 * area)
       ELSE Refuses("RtpGetMatrix", m)
  /\ UNCHANGED table

(* The two calls that do not delete what they refuse.                      *)
RtpGetObjectPose(i, m) ==
  /\ sessions[i].isSet
  /\ IF AcceptPlain(m.bytes, PoseMeta)
       THEN Takes("RtpGetObjectPose", m, m.bytes.dataSize, PoseSize)
       ELSE Refuses("RtpGetObjectPose", m)
  /\ UNCHANGED table

RtpGetKey(i, m) ==
  /\ sessions[i].isSet
  /\ IF AcceptPlain(m.bytes, KeyMeta)
       THEN Takes("RtpGetKey", m, 1, 1)
       ELSE Refuses("RtpGetKey", m)
  /\ UNCHANGED table

RtpSendFrame(i) ==
  /\ sessions[i].isSet /\ sessions[i].seq < MaxSeq
  /\ sessions' = [sessions EXCEPT ![i].seq = @ + 1]
  /\ UNCHANGED <<numOfSess, open, streams, handles, unlucky, answer>>
-----------------------------------------------------------------------------
Init ==
  /\ sessions = [i \in Slots |-> EmptySession]
  /\ numOfSess = 0
  /\ open = {} /\ streams = {} /\ unlucky = {}
  /\ handles = [i \in {} |-> NullPtr]
  /\ answer = Returns("none", 0)

Next ==
  \/ AddSession \/ AddNoStream \/ AddNoSession \/ RtpClose
  \/ \E i \in Slots :
       \/ \E call \in GetCalls : GetNothing(call, i)
       \/ \E m \in Messages(Sizes) :
            \/ \E area \in Areas : RtpGetFrame(i, m, area) \/ RtpGetMatrix(i, m, area)
            \/ RtpGetObjectPose(i, m) \/ RtpGetKey(i, m)
       \/ RtpSendFrame(i)

Spec == Init /\ [][Next]_vars
-----------------------------------------------------------------------------
(* A handle addresses the session that RtpAddSession opened for it, with a *)
(* stream of its own, until RtpClose, whatever failed in between; and no   *)
(* other slot is taken for a session.                                      *)
HandlesStand ==
  /\ sessions \in [Slots -> RtpSession]
  /\ numOfSess \in 0..MAX_SESSION
  /\ InUse = 0..(numOfSess - 1)
  /\ DOMAIN handles = InUse
  /\ \A i \in InUse : /\ sessions[i].session = handles[i]
                      /\ sessions[i].stream /\ handles[i] \in streams
  /\ \A i, j \in InUse : handles[i] = handles[j] => i = j

(* RtpClose leaves behind no session but those that got no stream: each of *)
(* them stays open for good.                                               *)
OnlyUnluckyStayOpen ==
  /\ open = streams \cup unlucky /\ streams \cap unlucky = {}
  /\ streams = {sessions[i].session : i \in InUse}

(* A call that returns true was given what it asks for, but a pose may be  *)
(* an encoded frame of a pose's size; and it writes no more than there is  *)
(* room for, except a frame larger than Unity's area, and a pose whose     *)
(* sender gave the size of the whole message.                              *)
Asked(call) == CASE call \in {"RtpGetFrame", "RtpGetMatrix"} -> {"frame"}
                 [] call = "RtpGetObjectPose" -> {"pose", "encoded"}
                 [] call = "RtpGetKey" -> {"key"}
AnswersFit ==
  /\ answer.result = 1 =>
       /\ answer.kind \in Asked(answer.call)
       /\ answer.wrote > answer.room =>
            \/ answer.call = "RtpGetFrame"
            \/ answer.call = "RtpGetObjectPose" /\ answer.wrote = PoseMeta
  /\ answer.result # 1 => answer.wrote = 0
=============================================================================
