-------------------------- MODULE LoraBoardProofs --------------------------
(***************************************************************************)
(* The gateway implements the board that LoraNetwork composes, whatever    *)
(* the capacities, the range of sequence numbers and the frames heard.     *)
(*                                                                         *)
(* The refinement mapping is the identity on what the two have in common:  *)
(* the LoRa task, the channels and the sequence number.  The MQTT tasks,   *)
(* the mutex and the executor are invisible, so that most of their polls   *)
(* are stuttering steps of the board.                                      *)
(***************************************************************************)
EXTENDS LoraGatewayProofs

LEMMA EnvelopesOfBoard ==
    /\ \A s : Board!NextSeq(s) = NextSeq(s)
    /\ \A t, s, p : Board!NewEnvelope(t, s, p) = NewEnvelope(t, s, p)
    /\ \A e : Board!SendFailed(e) = SendFailed(e)
    /\ \A e : Board!FitsFrame(e) <=> FitsFrame(e)
    /\ \A e : Board!AnswersPending(e) <=> AnswersPending(e)
    /\ Board!RequestPayload = RequestPayload
    /\ Board!ResultRoom <=> ResultRoom
    /\ Board!ForwardRoom <=> ForwardRoom
BY DEF Board!NextSeq, NextSeq, Board!NewEnvelope, NewEnvelope, Board!SendFailed,
       SendFailed, Board!FitsFrame, FitsFrame, Board!AnswersPending,
       AnswersPending, Board!RequestPayload, RequestPayload, Board!ResultRoom,
       ResultRoom, Board!ForwardRoom, ForwardRoom

LEMMA IterationOfBoard ==
    ASSUME NEW p, NEW queued, EndIteration(p, queued)
    PROVE  Board!EndIteration(p, queued)
<1>1. CASE Retransmit(p, queued)
  BY <1>1 DEF EndIteration, Retransmit, Board!EndIteration, Board!Retransmit
<1>2. CASE TakeRequest(p, queued)
  <2>1. Board!TakeRequest(p, queued)
    BY <1>2, EnvelopesOfBoard
    DEF TakeRequest, StartSending, RejectRequest, Board!TakeRequest,
        Board!StartSending, Board!RejectRequest
  <2> QED
    BY <2>1 DEF EndIteration, Board!EndIteration
<1>3. CASE NothingToSend(p, queued)
  BY <1>3
  DEF EndIteration, NothingToSend, Board!EndIteration, Board!NothingToSend
<1> QED
  BY <1>1, <1>2, <1>3 DEF EndIteration

LEMMA PollOfBoard == LoraStep => Board!LoraStep
<1> SUFFICES ASSUME LoraStep PROVE Board!LoraStep
  OBVIOUS
<1> USE DEF Board!LoraStep
<1>1. CASE RxError
  BY <1>1 DEF RxError, Board!RxError
<1>2. CASE RxTimeout
  BY <1>2, IterationOfBoard DEF RxTimeout, Board!RxTimeout
<1>3. CASE ErrorDelayOver
  BY <1>3, IterationOfBoard DEF ErrorDelayOver, Board!ErrorDelayOver
<1>4. CASE ReplySent
  BY <1>4, IterationOfBoard, EnvelopesOfBoard DEF ReplySent, Board!ReplySent
<1>5. CASE ReplySentChannelFull
  BY <1>5, EnvelopesOfBoard
  DEF ReplySentChannelFull, Board!ReplySentChannelFull
<1>6. CASE AckSent
  BY <1>6, IterationOfBoard DEF AckSent, Board!AckSent
<1>7. CASE RetrySent
  BY <1>7 DEF RetrySent, Board!RetrySent
<1>8. CASE ForwardSent
  BY <1>8 DEF ForwardSent, Board!ForwardSent
<1>9. CASE ForwardFailed
  BY <1>9, EnvelopesOfBoard DEF ForwardFailed, Board!ForwardFailed
<1>10. CASE ForwardFailedChannelFull
  BY <1>10, EnvelopesOfBoard
  DEF ForwardFailedChannelFull, Board!ForwardFailedChannelFull
<1>11. CASE ResultQueued
  BY <1>11, IterationOfBoard, EnvelopesOfBoard
  DEF ResultQueued, Board!ResultQueued
<1>12. CASE FailureQueued
  BY <1>12, EnvelopesOfBoard DEF FailureQueued, Board!FailureQueued
<1> QED
  BY <1>1, <1>2, <1>3, <1>4, <1>5, <1>6, <1>7, <1>8, <1>9, <1>10, <1>11, <1>12
  DEF LoraStep

LEMMA FrameOfBoard ==
    ASSUME NEW e, RxFrame(e)
    PROVE  Board!RxFrame(e)
<1> USE DEF Board!RxFrame
<1>1. CASE RxMatchingAck(e)
  BY <1>1, EnvelopesOfBoard DEF RxMatchingAck, Board!RxMatchingAck
<1>2. CASE RxStrayAck(e)
  BY <1>2, IterationOfBoard, EnvelopesOfBoard DEF RxStrayAck, Board!RxStrayAck
<1>3. CASE RxOpen(e)
  BY <1>3, EnvelopesOfBoard DEF RxOpen, Board!RxOpen
<1>4. CASE RxReply(e)
  BY <1>4, IterationOfBoard DEF RxReply, Board!RxReply
<1>5. CASE RxOther(e)
  BY <1>5, IterationOfBoard DEF RxOther, Board!RxOther
<1> QED
  BY <1>1, <1>2, <1>3, <1>4, <1>5 DEF RxFrame

\* A poll of the ingress queues the next request, or is not seen by the board.
LEMMA IngressOfBoard ==
    ASSUME OrderInv, IngressStep, UNCHANGED loraVars
    PROVE  Board!Next \/ UNCHANGED Board!vars
<1> USE EnvelopesOfBoard DEF Board!loraVars, loraVars
<1>1. CASE IngressAcquires \/ IngressWakes \/ IngressPinged \/ IngressFailed
  BY <1>1
  DEF IngressAcquires, IngressWakes, IngressPinged, IngressFailed,
      ReleaseAndSleep, Board!vars, Board!channelVars
<1>2. ASSUME NEW p \in RequestPayload, IngressForwards(p)
      PROVE  Board!Next
  <2>1. Board!Queue(p)
    BY <1>2 DEF IngressForwards, Request, Board!Queue
  <2> QED
    BY <2>1 DEF Board!Next
<1>3. ASSUME NEW p \in RequestPayload, IngressBlocks(p)
      PROVE  UNCHANGED Board!vars
  BY <1>3 DEF IngressBlocks, Board!vars, Board!channelVars
<1>4. CASE IngressUnblocks
  <2>1. offered \in RequestEnvelope /\ offered.seq = seq
    BY <1>4 DEF IngressUnblocks, OrderInv, TypeOK, MqttTypeOK
  <2>2. /\ offered.payload \in RequestPayload
        /\ offered = NewEnvelope("Open", seq, offered.payload)
    BY <2>1 DEF RequestEnvelope, NewEnvelope
  <2>3. Board!Queue(offered.payload)
    BY <1>4, <2>2 DEF IngressUnblocks, Board!Queue
  <2> QED
    BY <2>2, <2>3 DEF Board!Next
<1> QED
  BY <1>1, <1>2, <1>3, <1>4 DEF IngressStep

\* A poll of the egress takes a result, or is not seen by the board.
LEMMA EgressOfBoard ==
    ASSUME EgressStep, UNCHANGED loraVars
    PROVE  Board!Next \/ UNCHANGED Board!vars
<1> USE DEF Board!loraVars, loraVars, Board!Take, Board!Next
<1>1. CASE EgressTakes
  BY <1>1 DEF EgressTakes
<1>2. CASE EgressAcquires
  BY <1>2 DEF EgressAcquires, Board!vars, Board!channelVars
<1>3. CASE EgressPublished \/ EgressPublishFailed
  BY <1>3
  DEF EgressPublished, EgressPublishFailed, NextResult, Board!vars,
      Board!channelVars
<1> QED
  BY <1>1, <1>2, <1>3 DEF EgressStep

LEMMA NextOfBoard ==
    OrderInv /\ [Next]_vars => [Board!Next]_Board!vars
<1> SUFFICES ASSUME OrderInv, [Next]_vars
             PROVE  Board!Next \/ UNCHANGED Board!vars
  OBVIOUS
<1>1. CASE PollLora
  BY <1>1, PollOfBoard DEF PollLora, mqttVars, Board!Next
<1>2. ASSUME NEW e \in ForeignFrames, HearFrame(e)
      PROVE  Board!Next
  BY <1>2, FrameOfBoard DEF HearFrame, mqttVars, Board!Next
<1>3. CASE PollIngress
  BY <1>3, IngressOfBoard DEF PollIngress
<1>4. CASE PollEgress
  BY <1>4, EgressOfBoard DEF PollEgress
<1>5. CASE NextPass \/ (\E t \in Tasks : PollInVain(t)) \/ UNCHANGED vars
  BY <1>5
  DEF NextPass, PollInVain, vars, loraVars, mqttVars, channelVars, Board!vars,
      Board!loraVars, Board!channelVars
<1> QED
  BY <1>1, <1>2, <1>3, <1>4, <1>5 DEF Next

\* The three tasks of the gateway are the board LoraNetwork composes: neither the
\* mutex nor the executor nor a send suspended under the guard lets a request be
\* queued out of number, or a result be taken twice.
THEOREM GatewayIsABoard == Spec => ImplementsBoard
<1>1. Init => Board!Init
  BY DEF Init, LoraInit, ChannelInit, MqttInit, Board!Init, Board!LoraInit,
         Board!ChannelInit
<1>2. Init => OrderInv
  BY InitTypeOK
  DEF Init, ChannelInit, LoraInit, MqttInit, OrderInv, QueueInOrder
<1> QED
  BY <1>1, <1>2, NextOfBoard, NextOrder, PTL DEF Spec, ImplementsBoard, Board!Spec
=============================================================================
