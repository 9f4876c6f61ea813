-------------------------- MODULE RtpPlugin_proofs --------------------------
(* The table of sessions and the answers of the plugin, for any number of  *)
(* slots, sessions, payload sizes and areas.  The two invariants of the    *)
(* table are inductive together; the answer depends on one message alone.  *)
EXTENDS RtpPlugin, MessageFormat_proofs

TableInv == HandlesStand /\ OnlyUnluckyStayOpen

(* The slots after the last handle are not in use.                         *)
LEMMA FreeSlot ==
  ASSUME TableInv, numOfSess < MAX_SESSION
  PROVE  /\ numOfSess \in Slots /\ numOfSess \notin InUse
         /\ ~sessions[numOfSess].isSet
<1>1. numOfSess \in Slots
  BY PluginAssumption DEF TableInv, HandlesStand, Slots
<1>2. numOfSess \notin InUse
  BY PluginAssumption DEF TableInv, HandlesStand
<1>3. sessions[numOfSess].isSet \in BOOLEAN
  BY <1>1 DEF TableInv, HandlesStand, RtpSession
<1> QED
  BY <1>1, <1>2, <1>3 DEF InUse

(* A session that is added gets the next handle; it is not open, so it is  *)
(* none of the sessions before it.                                         *)
LEMMA AddSessionKeeps ==
  ASSUME TableInv, AddSession
  PROVE  TableInv'
<1>1. PICK s \in Sessions \ open :
        /\ sessions' = With(numOfSess, s, TRUE)
        /\ open' = open \cup {s} /\ streams' = streams \cup {s}
        /\ handles' = [i \in DOMAIN handles \cup {numOfSess} |->
                         IF i = numOfSess THEN s ELSE handles[i]]
  BY DEF AddSession
<1> DEFINE n == numOfSess
<1>2. n \in Slots /\ n \notin InUse /\ n < MAX_SESSION /\ numOfSess' = n + 1 /\ n \in Nat
  BY FreeSlot, PluginAssumption DEF AddSession, TableInv, HandlesStand
<1>3. /\ sessions'[n].session = s /\ sessions'[n].stream /\ sessions'[n].isSet
      /\ sessions'[n] \in RtpSession
      /\ \A i \in Slots : i # n => sessions'[i] = sessions[i]
      /\ sessions' \in [Slots -> RtpSession]
  <2> DEFINE r == [sessions[n] EXCEPT !.session = s, !.stream = TRUE, !.isSet = TRUE]
  <2>1. sessions[n] \in RtpSession /\ sessions \in [Slots -> RtpSession]
    BY <1>2 DEF TableInv, HandlesStand
  <2>2. r \in RtpSession /\ r.session = s /\ r.stream /\ r.isSet
    BY <2>1, <1>1 DEF RtpSession
  <2>3. sessions' = [sessions EXCEPT ![n] = r]
    BY <1>1 DEF With
  <2> HIDE DEF r
  <2> QED
    BY <2>1, <2>2, <2>3, <1>2
<1>4. InUse' = InUse \cup {n}
  BY <1>2, <1>3 DEF InUse
<1>5. s \notin streams /\ s \notin unlucky /\ unlucky' = unlucky
  BY <1>1 DEF TableInv, OnlyUnluckyStayOpen, AddSession
<1>6. InUse = 0..(n - 1) /\ DOMAIN handles = InUse /\ InUse \subseteq Slots
  BY DEF TableInv, HandlesStand, InUse
<1>7. /\ DOMAIN handles' = InUse' /\ handles'[n] = s
      /\ \A i \in InUse : handles'[i] = handles[i] /\ handles[i] \in streams
  <2>1. DOMAIN handles' = InUse' /\ handles'[n] = s
    BY <1>1, <1>4, <1>6
  <2>2. ASSUME NEW i \in InUse
        PROVE  handles'[i] = handles[i] /\ handles[i] \in streams
    <3>1. i # n /\ i \in DOMAIN handles
      BY <1>2, <1>6
    <3> QED
      BY <1>1, <3>1 DEF TableInv, HandlesStand
  <2> QED
    BY <2>1, <2>2
<1>8. HandlesStand'
  <2>1. InUse' = 0..(numOfSess' - 1) /\ numOfSess' \in 0..MAX_SESSION
    BY <1>2, <1>4, <1>6, PluginAssumption
  <2>2. \A i \in InUse' : /\ sessions'[i].session = handles'[i]
                          /\ sessions'[i].stream /\ handles'[i] \in streams'
    BY <1>1, <1>2, <1>3, <1>4, <1>6, <1>7 DEF TableInv, HandlesStand
  <2>3. \A i, j \in InUse' : handles'[i] = handles'[j] => i = j
    BY <1>4, <1>5, <1>7 DEF TableInv, HandlesStand
  <2> QED
    BY <1>3, <1>7, <2>1, <2>2, <2>3 DEF HandlesStand
<1>9. OnlyUnluckyStayOpen'
  <2>1. \A i \in InUse : sessions'[i].session = sessions[i].session
    BY <1>2, <1>3, <1>6
  <2>2. streams' = {sessions'[i].session : i \in InUse'}
    <3>1. {sessions'[i].session : i \in InUse} = {sessions[i].session : i \in InUse}
      BY <2>1
    <3>2. {sessions'[i].session : i \in InUse'} =
            {sessions'[i].session : i \in InUse} \cup {s}
      BY <1>3, <1>4
    <3> QED
      BY <1>1, <3>1, <3>2 DEF TableInv, OnlyUnluckyStayOpen
  <2>3. open' = streams' \cup unlucky' /\ streams' \cap unlucky' = {}
    BY <1>1, <1>5 DEF TableInv, OnlyUnluckyStayOpen
  <2> QED
    BY <2>2, <2>3 DEF OnlyUnluckyStayOpen
<1> QED
  BY <1>8, <1>9 DEF TableInv

(* A call that fails disturbs no slot in use.                              *)
LEMMA SameSlotsKeep ==
  ASSUME TableInv, sessions' \in [Slots -> RtpSession],
         UNCHANGED <<numOfSess, streams, handles>>,
         \A i \in Slots : /\ sessions'[i].isSet = sessions[i].isSet
                          /\ i \in InUse => /\ sessions'[i].session = sessions[i].session
                                            /\ sessions'[i].stream = sessions[i].stream,
         open' = streams \cup unlucky', streams \cap unlucky' = {}
  PROVE  TableInv'
<1>1. InUse' = InUse
  BY DEF InUse
<1>2. InUse \subseteq Slots
  BY DEF InUse
<1>3. HandlesStand'
  BY <1>1, <1>2 DEF TableInv, HandlesStand
<1>4. {sessions'[i].session : i \in InUse} = {sessions[i].session : i \in InUse}
  BY <1>2
<1>5. OnlyUnluckyStayOpen'
  BY <1>1, <1>4 DEF TableInv, OnlyUnluckyStayOpen
<1> QED
  BY <1>3, <1>5 DEF TableInv

LEMMA AddNoStreamKeeps ==
  ASSUME TableInv, AddNoStream
  PROVE  TableInv'
<1>1. PICK s \in Sessions \ open :
        /\ sessions' = [sessions EXCEPT ![numOfSess] =
                          [@ EXCEPT !.session = s, !.stream = FALSE]]
        /\ open' = open \cup {s} /\ unlucky' = unlucky \cup {s}
  BY DEF AddNoStream
<1>2. numOfSess \in Slots /\ numOfSess \notin InUse
  BY FreeSlot DEF AddNoStream
<1>3. sessions' \in [Slots -> RtpSession]
  BY <1>1, <1>2 DEF TableInv, HandlesStand, RtpSession
<1>4. \A i \in Slots : /\ sessions'[i].isSet = sessions[i].isSet
                       /\ i \in InUse => /\ sessions'[i].session = sessions[i].session
                                         /\ sessions'[i].stream = sessions[i].stream
  BY <1>1, <1>2 DEF TableInv, HandlesStand, RtpSession
<1>5. open' = streams \cup unlucky' /\ streams \cap unlucky' = {}
  BY <1>1 DEF TableInv, OnlyUnluckyStayOpen
<1> QED
  BY <1>3, <1>4, <1>5, SameSlotsKeep DEF AddNoStream

LEMMA AddNoSessionKeeps ==
  ASSUME TableInv, AddNoSession
  PROVE  TableInv'
<1>1. numOfSess \in Slots /\ numOfSess \notin InUse
  BY FreeSlot DEF AddNoSession
<1>2. sessions' \in [Slots -> RtpSession]
  BY <1>1 DEF AddNoSession, TableInv, HandlesStand, RtpSession
<1>3. \A i \in Slots : /\ sessions'[i].isSet = sessions[i].isSet
                       /\ i \in InUse => /\ sessions'[i].session = sessions[i].session
                                         /\ sessions'[i].stream = sessions[i].stream
  BY <1>1 DEF AddNoSession, TableInv, HandlesStand, RtpSession
<1>4. open' = streams \cup unlucky' /\ streams \cap unlucky' = {}
  BY DEF AddNoSession, TableInv, OnlyUnluckyStayOpen
<1> QED
  BY <1>2, <1>3, <1>4, SameSlotsKeep DEF AddNoSession

LEMMA SendFrameKeeps ==
  ASSUME TableInv, NEW i \in Slots, RtpSendFrame(i)
  PROVE  TableInv'
<1>1. sessions' \in [Slots -> RtpSession]
  <2>1. sessions[i].seq \in Nat /\ sessions[i] \in RtpSession
    BY DEF TableInv, HandlesStand, RtpSession
  <2>2. [sessions[i] EXCEPT !.seq = sessions[i].seq + 1] \in RtpSession
    BY <2>1 DEF RtpSession
  <2> QED
    BY <2>2 DEF RtpSendFrame, TableInv, HandlesStand
<1>2. \A k \in Slots : /\ sessions'[k].isSet = sessions[k].isSet
                       /\ k \in InUse => /\ sessions'[k].session = sessions[k].session
                                         /\ sessions'[k].stream = sessions[k].stream
  BY DEF RtpSendFrame, TableInv, HandlesStand, RtpSession
<1>3. open' = streams \cup unlucky' /\ streams \cap unlucky' = {}
  BY DEF RtpSendFrame, TableInv, OnlyUnluckyStayOpen
<1> QED
  BY <1>1, <1>2, <1>3, SameSlotsKeep DEF RtpSendFrame

(* Closing what is in use closes all that has a stream.                    *)
LEMMA CloseKeeps ==
  ASSUME TableInv, RtpClose
  PROVE  TableInv'
<1>1. \A i \in InUse : sessions'[i] = Closed(sessions[i])
  BY DEF RtpClose, InUse
<1>2. \A i \in Slots \ InUse : sessions'[i] = sessions[i]
  BY DEF RtpClose
<1>3. \A i \in Slots : ~sessions'[i].isSet /\ sessions'[i] \in RtpSession
  <2>1. \A i \in Slots : sessions[i] \in RtpSession
    BY DEF TableInv, HandlesStand
  <2>2. \A i \in InUse : ~sessions'[i].isSet /\ sessions'[i] \in RtpSession
    BY <1>1, <2>1 DEF InUse, Closed, EmptySession, RtpSession
  <2>3. \A i \in Slots \ InUse : ~sessions'[i].isSet /\ sessions'[i] \in RtpSession
    BY <1>2, <2>1 DEF InUse, RtpSession
  <2> QED
    BY <2>2, <2>3
<1>4. InUse' = {} /\ numOfSess' = 0 /\ DOMAIN handles' = {}
  BY <1>3 DEF InUse, RtpClose
<1>5. sessions' \in [Slots -> RtpSession]
  BY <1>3 DEF RtpClose
<1>6. streams' = {} /\ unlucky' = unlucky
  BY DEF RtpClose, TableInv, OnlyUnluckyStayOpen
<1>7. open' = unlucky
  <2>1. UNION {DestroySession(i) : i \in InUse} = {sessions[i].session : i \in InUse}
    BY DEF DestroySession
  <2> QED
    BY <2>1 DEF RtpClose, TableInv, OnlyUnluckyStayOpen
<1>8. HandlesStand'
  BY <1>4, <1>5, PluginAssumption DEF HandlesStand
<1>9. OnlyUnluckyStayOpen'
  BY <1>4, <1>6, <1>7 DEF OnlyUnluckyStayOpen
<1> QED
  BY <1>8, <1>9 DEF TableInv

LEMMA SameTableKeeps ==
  ASSUME TableInv, UNCHANGED table
  PROVE  TableInv'
BY DEF TableInv, HandlesStand, OnlyUnluckyStayOpen, InUse, table

(* What RtpAddSession returned addresses its session until RtpClose, which *)
(* leaves nothing open but the sessions that got no stream.                *)
THEOREM TableStands == Spec => [](HandlesStand /\ OnlyUnluckyStayOpen)
<1>1. Init => TableInv
  <2>1. SUFFICES ASSUME Init PROVE TableInv
    OBVIOUS
  <2>2. InUse = {} /\ sessions \in [Slots -> RtpSession]
    BY <2>1 DEF Init, InUse, EmptySession, RtpSession
  <2>3. HandlesStand
    BY <2>1, <2>2, PluginAssumption DEF Init, HandlesStand
  <2>4. OnlyUnluckyStayOpen
    BY <2>1, <2>2 DEF Init, OnlyUnluckyStayOpen
  <2> QED
    BY <2>3, <2>4 DEF TableInv
<1>2. TableInv /\ [Next]_vars => TableInv'
  <2>1. SUFFICES ASSUME TableInv, [Next]_vars PROVE TableInv'
    OBVIOUS
  <2>2. CASE AddSession \/ AddNoStream \/ AddNoSession \/ RtpClose
    BY <2>1, <2>2, AddSessionKeeps, AddNoStreamKeeps, AddNoSessionKeeps, CloseKeeps
  <2>3. CASE \E i \in Slots : RtpSendFrame(i)
    BY <2>1, <2>3, SendFrameKeeps
  <2>4. CASE UNCHANGED table
    BY <2>1, <2>4, SameTableKeeps
  <2>5. CASE \E i \in Slots :
               \/ \E call \in GetCalls : GetNothing(call, i)
               \/ \E m \in Messages(Sizes) :
                    \/ \E area \in Areas : RtpGetFrame(i, m, area) \/ RtpGetMatrix(i, m, area)
                    \/ RtpGetObjectPose(i, m) \/ RtpGetKey(i, m)
    BY <2>4, <2>5 DEF GetNothing, RtpGetFrame, RtpGetMatrix, RtpGetObjectPose, RtpGetKey
  <2> QED
    BY <2>1, <2>2, <2>3, <2>4, <2>5 DEF Next, vars, table
<1>3. TableInv => HandlesStand /\ OnlyUnluckyStayOpen
  BY DEF TableInv
<1> QED
  BY <1>1, <1>2, <1>3, PTL DEF Spec

(* RtpClose leaves behind no session but those that got no stream.         *)
THEOREM CloseClosesTheRest == Spec => []OnlyUnluckyStayOpen
<1> QED
  BY TableStands, PTL

(* The record that a Get call answers with.                                *)
LEMMA AnswerFields ==
  ASSUME NEW call, NEW kind, NEW result, NEW wrote, NEW room
  PROVE  LET a == Answer(call, kind, result, wrote, room)
         IN  /\ a.call = call /\ a.kind = kind /\ a.result = result
             /\ a.wrote = wrote /\ a.room = room
BY DEF Answer

LEMMA RefusedFits ==
  ASSUME NEW call, NEW kind, NEW result \in {-3, -2, -1, 0},
         answer' = Answer(call, kind, result, 0, 0)
  PROVE  AnswersFit'
<1>1. answer'.result # 1 /\ answer'.wrote = 0
  BY AnswerFields
<1> QED
  BY <1>1 DEF AnswersFit

LEMMA FrameFits ==
  ASSUME NEW i \in Slots, NEW m \in Messages(Sizes), NEW area \in Areas,
         RtpGetFrame(i, m, area)
  PROVE  AnswersFit'
<1>1. CASE deserializeRawFrame(m.bytes)
  <2>1. answer' = Answer("RtpGetFrame", m.kind, 1, m.bytes.dataSize, 3 * area)
    BY <1>1 DEF RtpGetFrame, Takes
  <2>2. m.kind = "frame"
    BY <1>1, RawFramesOnly, PluginAssumption
  <2>3. answer'.result = 1 /\ answer'.call = "RtpGetFrame" /\ answer'.kind = "frame"
    BY <2>1, <2>2, AnswerFields
  <2> QED
    BY <2>3 DEF AnswersFit, Asked
<1>2. CASE ~deserializeRawFrame(m.bytes)
  BY <1>2, RefusedFits DEF RtpGetFrame, Refuses
<1> QED
  BY <1>1, <1>2

LEMMA MatrixFits ==
  ASSUME NEW i \in Slots, NEW m \in Messages(Sizes), NEW area \in Areas,
         RtpGetMatrix(i, m, area)
  PROVE  AnswersFit'
<1>1. CASE IsMatrix(m.bytes, area)
  <2>1. answer' = Answer("RtpGetMatrix", m.kind, 1, m.bytes.dataSize, 4 * area)
    BY <1>1 DEF RtpGetMatrix, Takes
  <2>2. m.kind = "frame" /\ m.bytes.dataSize = 4 * area
    BY <1>1, FrameSizes, PluginAssumption DEF IsMatrix
  <2>3. /\ answer'.result = 1 /\ answer'.call = "RtpGetMatrix" /\ answer'.kind = "frame"
        /\ answer'.wrote = answer'.room /\ answer'.room = 4 * area
    BY <2>1, <2>2, AnswerFields
  <2>4. ~(answer'.wrote > answer'.room)
    BY <2>3, PluginAssumption
  <2> QED
    BY <2>3, <2>4 DEF AnswersFit, Asked
<1>2. CASE ~IsMatrix(m.bytes, area)
  BY <1>2, RefusedFits DEF RtpGetMatrix, Refuses
<1> QED
  BY <1>1, <1>2

LEMMA PoseFits ==
  ASSUME NEW i \in Slots, NEW m \in Messages(Sizes), RtpGetObjectPose(i, m)
  PROVE  AnswersFit'
<1>1. CASE AcceptPlain(m.bytes, PoseMeta)
  <2>1. answer' = Answer("RtpGetObjectPose", m.kind, 1, m.bytes.dataSize, PoseSize)
    BY <1>1 DEF RtpGetObjectPose, Takes
  <2>2. \/ m.kind = "pose" /\ m.bytes.dataSize \in {PoseSize, PoseMeta}
        \/ m.kind = "encoded" /\ m.bytes.dataSize <= PoseSize
    BY <1>1, PlainSizes, PluginAssumption
  <2>3. /\ answer'.result = 1 /\ answer'.call = "RtpGetObjectPose"
        /\ answer'.kind = m.kind /\ answer'.wrote = m.bytes.dataSize
        /\ answer'.room = PoseSize
    BY <2>1, AnswerFields
  <2>4. CASE m.kind = "pose" /\ m.bytes.dataSize = PoseMeta
    BY <2>3, <2>4 DEF AnswersFit, Asked
  <2>5. CASE m.kind = "pose" /\ m.bytes.dataSize = PoseSize
    BY <2>3, <2>5 DEF AnswersFit, Asked, PoseSize
  <2>6. CASE m.kind = "encoded" /\ m.bytes.dataSize <= PoseSize
    <3>1. m.bytes.dataSize \in Int
      BY <2>6, MessageCases, PluginAssumption, SizesAssumption DEF Payloads, PoseSize
    <3>2. ~(answer'.wrote > answer'.room)
      BY <2>3, <2>6, <3>1 DEF PoseSize
    <3> QED
      BY <2>3, <2>6, <3>2 DEF AnswersFit, Asked
  <2> QED
    BY <2>2, <2>4, <2>5, <2>6
<1>2. CASE ~AcceptPlain(m.bytes, PoseMeta)
  BY <1>2, RefusedFits DEF RtpGetObjectPose, Refuses
<1> QED
  BY <1>1, <1>2

LEMMA KeyFits ==
  ASSUME NEW i \in Slots, NEW m \in Messages(Sizes), RtpGetKey(i, m)
  PROVE  AnswersFit'
<1>1. CASE AcceptPlain(m.bytes, KeyMeta)
  <2>1. answer' = Answer("RtpGetKey", m.kind, 1, 1, 1)
    BY <1>1 DEF RtpGetKey, Takes
  <2>2. m.kind = "key"
    BY <1>1, PlainSizes, PluginAssumption
  <2>3. /\ answer'.result = 1 /\ answer'.call = "RtpGetKey" /\ answer'.kind = "key"
        /\ answer'.wrote = 1 /\ answer'.room = 1
    BY <2>1, <2>2, AnswerFields
  <2> QED
    BY <2>3 DEF AnswersFit, Asked
<1>2. CASE ~AcceptPlain(m.bytes, KeyMeta)
  BY <1>2, RefusedFits DEF RtpGetKey, Refuses
<1> QED
  BY <1>1, <1>2

(* What a Get call takes is what it was asked for, up to an encoded frame  *)
(* of a pose's size, and fits where it goes, up to the two exceptions.     *)
THEOREM AnswersAlwaysFit == Spec => []AnswersFit
<1>1. Init => AnswersFit
  <2>1. SUFFICES ASSUME Init PROVE AnswersFit
    OBVIOUS
  <2>2. answer.result = 0 /\ answer.wrote = 0
    BY <2>1 DEF Init, Returns, Answer
  <2> QED
    BY <2>2 DEF AnswersFit
<1>2. AnswersFit /\ [Next]_vars => AnswersFit'
  <2>1. SUFFICES ASSUME AnswersFit, [Next]_vars PROVE AnswersFit'
    OBVIOUS
  <2>2. CASE UNCHANGED answer
    BY <2>1, <2>2 DEF AnswersFit
  <2>3. CASE AddSession \/ AddNoStream \/ AddNoSession \/ RtpClose
    BY <2>2, <2>3 DEF AddSession, AddNoStream, AddNoSession, RtpClose
  <2>4. ASSUME NEW i \in Slots, RtpSendFrame(i) PROVE AnswersFit'
    BY <2>2, <2>4 DEF RtpSendFrame
  <2>5. ASSUME NEW i \in Slots, NEW call \in GetCalls, GetNothing(call, i)
        PROVE  AnswersFit'
    BY <2>5, RefusedFits DEF GetNothing, Returns
  <2>6. ASSUME NEW i \in Slots, NEW m \in Messages(Sizes),
               \/ \E area \in Areas : RtpGetFrame(i, m, area) \/ RtpGetMatrix(i, m, area)
               \/ RtpGetObjectPose(i, m) \/ RtpGetKey(i, m)
        PROVE  AnswersFit'
    BY <2>6, FrameFits, MatrixFits, PoseFits, KeyFits
  <2> QED
    BY <2>1, <2>2, <2>3, <2>4, <2>5, <2>6 DEF Next, vars
<1> QED
  BY <1>1, <1>2, PTL DEF Spec
=============================================================================
