------------------------- MODULE LoraGatewayProofs -------------------------
(***************************************************************************)
(* Theorems of LoraGateway, for every capacity of the channels, every      *)
(* range of sequence numbers and every set of frames that may be heard.    *)
(***************************************************************************)
EXTENDS LoraGateway, TLAPS

(***************************************************************************)
(* Facts about the operators.                                              *)
(***************************************************************************)
\* A sequence number is followed by another one, whatever the range.
LEMMA NextSeqType == \A s \in SeqNum : NextSeq(s) \in SeqNum
BY SeqModAssumption DEF SeqNum, NextSeq

\* Requests and results are envelopes, and the envelopes the tasks build have
\* the type their channel expects.
LEMMA EnvelopeTypes ==
    /\ RequestEnvelope \subseteq Envelope
    /\ ResultEnvelope \subseteq Envelope
    /\ \A s \in SeqNum :
          /\ NewEnvelope("Ack", s, "ACK") \in Envelope
          /\ NewEnvelope("Reply", s, "ackReceived") \in ResultEnvelope
          /\ NewEnvelope("Reply", s, "sendFailed") \in ResultEnvelope
          /\ \A p \in RequestPayload :
                NewEnvelope("Open", s, p) \in RequestEnvelope
    /\ \A e \in Envelope : e.seq \in SeqNum
BY DEF RequestEnvelope, ResultEnvelope, Envelope, NewEnvelope, MessageType,
       Payload, RequestPayload

\* What the end of an iteration of task_lora_gateway leaves behind.
LEMMA EndIterationType ==
    ASSUME ChannelTypeOK,
           NEW p \in Envelope \cup {None},
           NEW queued \in Seq(ResultEnvelope), Len(queued) <= ResultCap,
           servo' \in {"parked", "open"},
           EndIteration(p, queued)
    PROVE  ChannelTypeOK' /\ LoraTypeOK'
<1> USE DEF LoraTypeOK, ChannelTypeOK, LoraPc, Transmitting, Blocked
<1>1. pending' = p
  BY DEF EndIteration
<1>2. CASE Retransmit(p, queued)
  BY <1>1, <1>2, NoneAssumption DEF Retransmit
<1>3. CASE TakeRequest(p, queued)
  <2>1. /\ Head(forward) \in RequestEnvelope
        /\ forward' \in Seq(RequestEnvelope)
        /\ Len(forward') <= ForwardCap
    BY <1>3, CapacityAssumption DEF TakeRequest
  <2>2. SendFailed(Head(forward)) \in ResultEnvelope
    BY <2>1, EnvelopeTypes DEF SendFailed
  <2>3. CASE StartSending(Head(forward), queued)
    BY <1>1, <2>1, <2>3, EnvelopeTypes DEF StartSending
  <2>4. CASE RejectRequest(Head(forward), queued)
    <3>1. /\ results' \in Seq(ResultEnvelope)
          /\ Len(results') <= ResultCap
      <4>1. /\ Append(queued, SendFailed(Head(forward))) \in Seq(ResultEnvelope)
            /\ Len(Append(queued, SendFailed(Head(forward)))) = Len(queued) + 1
            /\ Len(queued) \in Nat
        BY <2>2
      <4>2. CASE results' = queued
        BY <4>2
      <4>3. CASE /\ Len(queued) < ResultCap
                 /\ results' = Append(queued, SendFailed(Head(forward)))
        BY <4>1, <4>3, CapacityAssumption
      <4> QED
        BY <2>4, <4>2, <4>3 DEF RejectRequest
    <3>2. /\ pc' \in {"rx", "failWait"}
          /\ hand' \in ResultEnvelope \cup {None}
          /\ pc' = "failWait" => hand' \in ResultEnvelope
      BY <2>2, <2>4 DEF RejectRequest
    <3> QED
      BY <1>1, <2>1, <3>1, <3>2, EnvelopeTypes
  <2> QED
    BY <1>3, <2>3, <2>4 DEF TakeRequest
<1>4. CASE NothingToSend(p, queued)
  BY <1>1, <1>4 DEF NothingToSend
<1> QED
  BY <1>2, <1>3, <1>4 DEF EndIteration

----------------------------------------------------------------------------
(***************************************************************************)
(* Type correctness.                                                       *)
(***************************************************************************)
LEMMA InitTypeOK == Init => TypeOK
<1> SUFFICES ASSUME Init PROVE TypeOK
  OBVIOUS
<1>1. ChannelTypeOK
  BY CapacityAssumption DEF Init, ChannelInit, ChannelTypeOK
<1>2. LoraTypeOK
  BY DEF Init, LoraInit, LoraTypeOK, LoraPc, Blocked, Transmitting
<1>3. MqttTypeOK
  BY SeqModAssumption DEF Init, MqttInit, MqttTypeOK, SeqNum, IngressHolding
<1>4. ExecutorTypeOK
  BY DEF Init, ExecutorTypeOK, Tasks
<1> QED
  BY <1>1, <1>2, <1>3, <1>4 DEF TypeOK

\* A frame heard over LoRa.
LEMMA RxFrameType ==
    ASSUME ChannelTypeOK, LoraTypeOK, NEW e \in Envelope, RxFrame(e)
    PROVE  ChannelTypeOK' /\ LoraTypeOK'
<1>1. CASE RxMatchingAck(e)
  BY <1>1, EnvelopeTypes
  DEF RxMatchingAck, AnswersPending, LoraTypeOK, ChannelTypeOK, LoraPc,
      Transmitting, Blocked
<1>2. CASE RxStrayAck(e)
  BY <1>2, EndIterationType DEF RxStrayAck, LoraTypeOK, ChannelTypeOK
<1>3. CASE RxOpen(e)
  BY <1>3, EnvelopeTypes, NoneAssumption
  DEF RxOpen, LoraTypeOK, ChannelTypeOK, LoraPc, Transmitting, Blocked
<1>4. CASE RxReply(e)
  BY <1>4, EndIterationType DEF RxReply, LoraTypeOK, ChannelTypeOK
<1>5. CASE RxOther(e)
  BY <1>5, EndIterationType DEF RxOther, LoraTypeOK, ChannelTypeOK
<1> QED
  BY <1>1, <1>2, <1>3, <1>4, <1>5 DEF RxFrame

\* Any other poll of task_lora_gateway.
LEMMA LoraStepType ==
    ASSUME ChannelTypeOK, LoraTypeOK, LoraStep
    PROVE  ChannelTypeOK' /\ LoraTypeOK'
<1> USE DEF LoraPc, Transmitting, Blocked
<1>1. ASSUME hand \in ResultEnvelope, ResultRoom
      PROVE  /\ Append(results, hand) \in Seq(ResultEnvelope)
             /\ Len(Append(results, hand)) <= ResultCap
  BY <1>1, CapacityAssumption DEF ChannelTypeOK, ResultRoom
<1>2. ASSUME pc = "fwdTx"
      PROVE  SendFailed(hand) \in ResultEnvelope
  BY <1>2, EnvelopeTypes DEF LoraTypeOK, SendFailed
<1>3. CASE RxError
  BY <1>3 DEF RxError, LoraTypeOK, ChannelTypeOK
<1>4. CASE RxTimeout
  BY <1>4, EndIterationType DEF RxTimeout, LoraTypeOK, ChannelTypeOK
<1>5. CASE ErrorDelayOver
  BY <1>5, EndIterationType DEF ErrorDelayOver, LoraTypeOK, ChannelTypeOK
<1>6. CASE ReplySent
  BY <1>1, <1>6, EndIterationType DEF ReplySent, LoraTypeOK
<1>7. CASE ReplySentChannelFull
  BY <1>7 DEF ReplySentChannelFull, LoraTypeOK, ChannelTypeOK
<1>8. CASE AckSent
  BY <1>8, EndIterationType DEF AckSent, LoraTypeOK, ChannelTypeOK
<1>9. CASE RetrySent
  BY <1>9 DEF RetrySent, LoraTypeOK, ChannelTypeOK
<1>10. CASE ForwardSent
  BY <1>10 DEF ForwardSent, LoraTypeOK, ChannelTypeOK
<1>11. CASE ForwardFailed
  BY <1>2, <1>11, CapacityAssumption
  DEF ForwardFailed, ResultRoom, LoraTypeOK, ChannelTypeOK
<1>12. CASE ForwardFailedChannelFull
  BY <1>2, <1>12, EnvelopeTypes
  DEF ForwardFailedChannelFull, LoraTypeOK, ChannelTypeOK
<1>13. CASE ResultQueued
  BY <1>1, <1>13, EndIterationType DEF ResultQueued, LoraTypeOK
<1>14. CASE FailureQueued
  BY <1>1, <1>14 DEF FailureQueued, LoraTypeOK, ChannelTypeOK
<1> QED
  BY <1>3, <1>4, <1>5, <1>6, <1>7, <1>8, <1>9, <1>10, <1>11, <1>12, <1>13,
     <1>14
  DEF LoraStep
\* A poll of one of the MQTT tasks.
LEMMA IngressStepType ==
    ASSUME ChannelTypeOK, MqttTypeOK, IngressStep
    PROVE  ChannelTypeOK' /\ MqttTypeOK'
<1> USE DEF IngressHolding
<1>1. ASSUME NEW request \in RequestEnvelope, ForwardRoom
      PROVE  /\ Append(forward, request) \in Seq(RequestEnvelope)
             /\ Len(Append(forward, request)) <= ForwardCap
  BY <1>1, CapacityAssumption DEF ChannelTypeOK, ForwardRoom
<1>2. \A p \in RequestPayload : Request(p) \in RequestEnvelope
  BY EnvelopeTypes DEF Request, MqttTypeOK
<1>3. NextSeq(seq) \in SeqNum
  BY NextSeqType DEF MqttTypeOK
<1>4. CASE IngressAcquires
  BY <1>4 DEF IngressAcquires, MqttTypeOK, ChannelTypeOK
<1>5. CASE IngressWakes
  BY <1>5 DEF IngressWakes, MqttTypeOK, ChannelTypeOK
<1>6. CASE IngressPinged
  BY <1>6 DEF IngressPinged, MqttTypeOK, ChannelTypeOK
<1>7. CASE IngressFailed
  BY <1>7 DEF IngressFailed, ReleaseAndSleep, MqttTypeOK, ChannelTypeOK
<1>8. ASSUME NEW p \in RequestPayload, IngressForwards(p)
      PROVE  ChannelTypeOK' /\ MqttTypeOK'
  BY <1>1, <1>2, <1>3, <1>8
  DEF IngressForwards, ReleaseAndSleep, MqttTypeOK, ChannelTypeOK
<1>9. ASSUME NEW p \in RequestPayload, IngressBlocks(p)
      PROVE  ChannelTypeOK' /\ MqttTypeOK'
  BY <1>2, <1>9 DEF IngressBlocks, MqttTypeOK, ChannelTypeOK
<1>10. CASE IngressUnblocks
  BY <1>1, <1>3, <1>10
  DEF IngressUnblocks, ReleaseAndSleep, MqttTypeOK, ChannelTypeOK
<1> QED
  BY <1>4, <1>5, <1>6, <1>7, <1>8, <1>9, <1>10 DEF IngressStep

LEMMA EgressStepType ==
    ASSUME ChannelTypeOK, MqttTypeOK, EgressStep
    PROVE  ChannelTypeOK' /\ MqttTypeOK'
<1>1. ASSUME results # <<>>
      PROVE  /\ Head(results) \in ResultEnvelope
             /\ Tail(results) \in Seq(ResultEnvelope)
             /\ Len(Tail(results)) <= ResultCap
  BY <1>1, CapacityAssumption DEF ChannelTypeOK
<1>2. CASE EgressTakes
  BY <1>1, <1>2 DEF EgressTakes, MqttTypeOK, ChannelTypeOK
<1>3. CASE EgressAcquires
  BY <1>3 DEF EgressAcquires, MqttTypeOK, ChannelTypeOK
<1>4. CASE EgressPublished \/ EgressPublishFailed
  BY <1>1, <1>4
  DEF EgressPublished, EgressPublishFailed, NextResult, MqttTypeOK,
      ChannelTypeOK
<1> QED
  BY <1>2, <1>3, <1>4 DEF EgressStep

LEMMA NextTypeOK == TypeOK /\ [Next]_vars => TypeOK'
<1> SUFFICES ASSUME TypeOK, [Next]_vars PROVE TypeOK'
  OBVIOUS
<1> USE DEF TypeOK
<1>1. ASSUME NEW t \in Tasks, Poll(t)
      PROVE  ExecutorTypeOK'
  BY <1>1 DEF Poll, ExecutorTypeOK
<1>2. CASE PollLora
  BY <1>1, <1>2, LoraStepType
  DEF PollLora, Tasks, mqttVars, MqttTypeOK
<1>3. ASSUME NEW e \in ForeignFrames, HearFrame(e)
      PROVE  TypeOK'
  BY <1>1, <1>3, RxFrameType, ForeignFramesAssumption
  DEF HearFrame, Tasks, mqttVars, MqttTypeOK
<1>4. CASE PollIngress
  BY <1>1, <1>4, IngressStepType
  DEF PollIngress, Tasks, loraVars, LoraTypeOK
<1>5. CASE PollEgress
  BY <1>1, <1>5, EgressStepType
  DEF PollEgress, Tasks, loraVars, LoraTypeOK
<1>6. ASSUME NEW t \in Tasks, PollInVain(t)
      PROVE  TypeOK'
  BY <1>1, <1>6
  DEF PollInVain, loraVars, mqttVars, channelVars, LoraTypeOK, MqttTypeOK,
      ChannelTypeOK
<1>7. CASE NextPass
  BY <1>7
  DEF NextPass, WokenTasks, Tasks, loraVars, mqttVars, channelVars,
      LoraTypeOK, MqttTypeOK, ChannelTypeOK, ExecutorTypeOK
<1>8. CASE UNCHANGED vars
  BY <1>8
  DEF vars, loraVars, mqttVars, channelVars, executorVars, LoraTypeOK,
      MqttTypeOK, ChannelTypeOK, ExecutorTypeOK
<1> QED
  BY <1>2, <1>3, <1>4, <1>5, <1>6, <1>7, <1>8 DEF Next

\* Type correctness of the gateway binary: among others, neither channel ever
\* holds more than it has room for, the LoRa task sends nothing that does not
\* fit in a frame, and no task due in a pass has already been polled in it.
THEOREM TypeCorrect == Spec => []TypeOK
BY InitTypeOK, NextTypeOK, PTL DEF Spec

----------------------------------------------------------------------------
(***************************************************************************)
(* The three tasks never wait for one another in a circle.                 *)
(***************************************************************************)
\* The effect of the end of an iteration on the two channels: either a request
\* is taken, and at most one result queued, or both channels are left alone.
LEMMA EndIterationQueues ==
    ASSUME ChannelTypeOK,
           NEW p, NEW queued \in Seq(ResultEnvelope),
           EndIteration(p, queued)
    PROVE  \/ /\ Len(forward') < Len(forward)
              /\ Len(results') <= Len(queued) + 1
           \/ /\ forward' = forward
              /\ results' = queued
              /\ pc' \in {"retryTx", "rx"}
              /\ p = None => forward = <<>>
<1>1. CASE Retransmit(p, queued)
  BY <1>1 DEF Retransmit
<1>2. CASE TakeRequest(p, queued)
  <2>1. Len(forward') < Len(forward)
    BY <1>2 DEF TakeRequest, ChannelTypeOK
  <2>2. Len(results') <= Len(queued) + 1
    <3>1. SUFFICES ASSUME RejectRequest(Head(forward), queued)
                   PROVE  Len(results') <= Len(queued) + 1
      BY <1>2 DEF TakeRequest, StartSending
    <3>2. Head(forward) \in RequestEnvelope
      BY <1>2 DEF TakeRequest, ChannelTypeOK
    <3>3. SendFailed(Head(forward)) \in ResultEnvelope
      BY <3>2, EnvelopeTypes DEF SendFailed
    <3>4. Len(Append(queued, SendFailed(Head(forward)))) = Len(queued) + 1
      BY <3>3
    <3> QED
      BY <3>1, <3>4 DEF RejectRequest
  <2> QED
    BY <2>1, <2>2
<1>3. CASE NothingToSend(p, queued)
  BY <1>3 DEF NothingToSend
<1> QED
  BY <1>1, <1>2, <1>3 DEF EndIteration

\* The effect of a poll of the LoRa task on the two channels.
LoraPollEffect ==
    /\ Len(forward') <= Len(forward)
    /\ Len(results') <= Len(results) + 2
    /\ Len(forward') = ForwardCap =>
           Len(results') + StillToCome' <= Len(results) + StillToCome

LEMMA RxFrameQueues ==
    ASSUME TypeOK, NEW e \in Envelope, RxFrame(e)
    PROVE  LoraPollEffect
<1> USE DEF TypeOK, LoraPollEffect, StillToCome
<1>1. CASE RxMatchingAck(e)
  BY <1>1 DEF RxMatchingAck, ChannelTypeOK
<1>2. CASE RxStrayAck(e)
  BY <1>2, EndIterationQueues DEF RxStrayAck, ChannelTypeOK
<1>3. CASE RxOpen(e)
  BY <1>3 DEF RxOpen, ChannelTypeOK
<1>4. CASE RxReply(e)
  BY <1>4, EndIterationQueues DEF RxReply, ChannelTypeOK
<1>5. CASE RxOther(e)
  BY <1>5, EndIterationQueues DEF RxOther, ChannelTypeOK
<1> QED
  BY <1>1, <1>2, <1>3, <1>4, <1>5 DEF RxFrame

LEMMA LoraStepQueues ==
    ASSUME TypeOK, LoraStep
    PROVE  LoraPollEffect
<1> USE DEF TypeOK, LoraPollEffect, StillToCome
<1>1. /\ Len(results) \in Nat
      /\ Len(forward) \in Nat
  BY DEF ChannelTypeOK
<1>2. ASSUME hand \in ResultEnvelope
      PROVE  /\ Append(results, hand) \in Seq(ResultEnvelope)
             /\ Len(Append(results, hand)) = Len(results) + 1
  BY <1>2 DEF ChannelTypeOK
<1>3. CASE RxError \/ ReplySentChannelFull \/ RetrySent \/ ForwardSent
  BY <1>1, <1>3
  DEF RxError, ReplySentChannelFull, RetrySent, ForwardSent
<1>4. CASE RxTimeout \/ ErrorDelayOver
  BY <1>1, <1>4, EndIterationQueues
  DEF RxTimeout, ErrorDelayOver, ChannelTypeOK
<1>5. CASE AckSent
  BY <1>1, <1>5, EndIterationQueues DEF AckSent, ChannelTypeOK
<1>6. CASE ReplySent \/ ResultQueued
  <2>1. /\ hand \in ResultEnvelope
        /\ EndIteration(None, Append(results, hand))
    BY <1>6 DEF ReplySent, ResultQueued, LoraTypeOK, Blocked
  <2>2. \/ /\ Len(forward') < Len(forward)
           /\ Len(results') <= Len(results) + 2
        \/ /\ forward' = forward
           /\ Len(results') = Len(results) + 1
           /\ forward = <<>>
    <3>1. /\ Append(results, hand) \in Seq(ResultEnvelope)
          /\ Len(Append(results, hand)) = Len(results) + 1
      BY <1>2, <2>1
    <3>2. \/ /\ Len(forward') < Len(forward)
             /\ Len(results') <= Len(Append(results, hand)) + 1
          \/ /\ forward' = forward
             /\ results' = Append(results, hand)
             /\ forward = <<>>
      BY <2>1, <3>1, EndIterationQueues
    <3> QED
      BY <1>1, <3>1, <3>2
  <2>3. /\ Len(forward) <= ForwardCap
        /\ forward = <<>> => Len(forward) < ForwardCap
    BY CapacityAssumption DEF ChannelTypeOK
  <2> QED
    BY <1>1, <2>2, <2>3
<1>7. CASE ForwardFailed
  <2>1. SendFailed(hand) \in ResultEnvelope
    BY <1>7, EnvelopeTypes DEF ForwardFailed, LoraTypeOK, SendFailed
  <2>2. Len(results') = Len(results) + 1
    BY <1>7, <2>1 DEF ForwardFailed, ChannelTypeOK
  <2> QED
    BY <1>1, <1>7, <2>2 DEF ForwardFailed
<1>8. CASE ForwardFailedChannelFull
  BY <1>1, <1>8 DEF ForwardFailedChannelFull
<1>9. CASE FailureQueued
  <2>1. Len(results') = Len(results) + 1
    BY <1>2, <1>9 DEF FailureQueued, LoraTypeOK, Blocked
  <2> QED
    BY <1>1, <1>9, <2>1 DEF FailureQueued
<1> QED
  BY <1>3, <1>4, <1>5, <1>6, <1>7, <1>8, <1>9 DEF LoraStep

LEMMA InitSchedule == Init => ScheduleInv
BY InitTypeOK
DEF Init, MqttInit, ChannelInit, ScheduleInv, MutexDiscipline, RecvBacklog,
    HoldBacklog, IngressHolding, Twice

\* A poll of the LoRa task leaves the mutex and its users alone.
LEMMA LoraPollSchedule ==
    ASSUME ScheduleInv, TypeOK', LoraPollEffect, Poll("lora"),
           UNCHANGED mqttVars
    PROVE  ScheduleInv'
<1> USE DEF ScheduleInv, TypeOK, LoraPollEffect, mqttVars
<1>1. /\ Len(results) \in Nat
      /\ Len(results') \in Nat
      /\ Len(forward) \in Nat
      /\ Len(forward') \in Nat
      /\ Len(forward) <= ForwardCap
      /\ ForwardCap \in Nat
  BY CapacityAssumption DEF ChannelTypeOK
<1>2. MutexDiscipline'
  BY DEF MutexDiscipline
<1>3. RecvBacklog'
  BY <1>1 DEF RecvBacklog, Poll, Twice
<1>4. HoldBacklog'
  <2>1. StillToCome \in Nat /\ StillToCome' \in Nat
    BY DEF StillToCome
  <2>2. Len(forward') = ForwardCap => Len(forward) = ForwardCap
    BY <1>1
  <2>3. CASE egress = "lock"
    BY <1>1, <2>1, <2>2, <2>3 DEF HoldBacklog
  <2>4. CASE egress # "lock"
    BY <1>1, <2>1, <2>2, <2>4 DEF HoldBacklog
  <2> QED
    BY <2>3, <2>4
<1> QED
  BY <1>2, <1>3, <1>4

\* The ingress locks the mutex only when the egress waits for a result, and a
\* request that fills the channel ends the guard.
LEMMA IngressPollSchedule ==
    ASSUME ScheduleInv, TypeOK', PollIngress
    PROVE  ScheduleInv'
<1> USE DEF ScheduleInv, TypeOK, IngressHolding
<1>1. /\ Len(results) \in Nat
      /\ results' = results
      /\ pc' = pc
      /\ egress' = egress
  BY DEF PollIngress, loraVars, ChannelTypeOK, IngressStep, IngressAcquires,
         IngressWakes, IngressPinged, IngressFailed, IngressForwards,
         IngressBlocks, IngressUnblocks
<1>2. MutexDiscipline'
  BY DEF MutexDiscipline, PollIngress, IngressStep, IngressAcquires,
         IngressWakes, IngressPinged, IngressFailed, IngressForwards,
         IngressBlocks, IngressUnblocks, ReleaseAndSleep, MqttTypeOK
<1>3. RecvBacklog'
  <2>1. \A t \in {"lora", "egress"} :
           (t \in polled' <=> t \in polled) /\ (t \in due' <=> t \in due)
    BY DEF PollIngress, Poll
  <2> QED
    BY <1>1, <2>1 DEF RecvBacklog
<1>4. CASE mutex' = "ingress" /\ mutex # "ingress"
  <2>1. egress = "recv"
    BY <1>4
    DEF MutexDiscipline, MqttTypeOK, PollIngress, IngressStep,
        IngressAcquires, IngressWakes, IngressPinged, IngressFailed,
        IngressForwards, IngressBlocks, IngressUnblocks, ReleaseAndSleep
  <2>2. Len(results) <= 4
    BY <1>1, <2>1 DEF RecvBacklog, Twice
  <2> QED
    BY <1>1, <1>2, <1>3, <2>1, <2>2 DEF HoldBacklog, StillToCome
<1>5. CASE mutex' = "ingress" /\ mutex = "ingress"
  <2>1. forward' = forward
    BY <1>5
    DEF PollIngress, IngressStep, IngressAcquires, IngressWakes,
        IngressPinged, IngressFailed, IngressForwards, IngressBlocks,
        IngressUnblocks, ReleaseAndSleep
  <2> QED
    BY <1>1, <1>2, <1>3, <1>5, <2>1 DEF HoldBacklog, StillToCome
<1>6. CASE mutex' # "ingress"
  BY <1>2, <1>3, <1>6 DEF HoldBacklog
<1> QED
  BY <1>4, <1>5, <1>6

\* The egress goes back to waiting for a result only when there is none.
LEMMA EgressPollSchedule ==
    ASSUME ScheduleInv, TypeOK', PollEgress
    PROVE  ScheduleInv'
<1> USE DEF ScheduleInv, TypeOK, IngressHolding
<1>1. /\ pc' = pc
      /\ ingress' = ingress
      /\ forward' = forward
  BY DEF PollEgress, loraVars, EgressStep, EgressTakes, EgressAcquires,
         EgressPublished, EgressPublishFailed
<1>2. MutexDiscipline'
  BY DEF MutexDiscipline, PollEgress, EgressStep, EgressTakes,
         EgressAcquires, EgressPublished, EgressPublishFailed, NextResult,
         MqttTypeOK
<1>3. RecvBacklog'
  <2>1. egress' = "recv" => results' = <<>>
    BY DEF PollEgress, EgressStep, EgressTakes, EgressAcquires,
           EgressPublished, EgressPublishFailed, NextResult
  <2> QED
    BY <2>1 DEF RecvBacklog, Twice
<1>4. HoldBacklog'
  <2>1. SUFFICES ASSUME mutex' = "ingress" PROVE HoldBacklog'
    BY DEF HoldBacklog
  <2>2. mutex = "ingress" /\ EgressTakes
    BY <2>1
    DEF PollEgress, EgressStep, EgressTakes, EgressAcquires,
        EgressPublished, EgressPublishFailed, NextResult, MutexDiscipline
  <2>3. /\ Len(results) \in Nat
        /\ Len(results') = Len(results) - 1
        /\ egress = "recv"
    BY <2>2 DEF EgressTakes, ChannelTypeOK
  <2>4. /\ StillToCome \in Nat
        /\ StillToCome' = StillToCome
    BY <1>1 DEF StillToCome
  <2>5. Len(forward) = ForwardCap => Len(results) + StillToCome <= 6
    BY <2>2, <2>3, <2>4 DEF HoldBacklog
  <2> QED
    BY <1>1, <2>3, <2>4, <2>5 DEF HoldBacklog
<1> QED
  BY <1>2, <1>3, <1>4

\* A new pass is begun only once every woken task has been polled, and the
\* egress is woken by any result it waits for.
LEMMA ExecutorSchedule ==
    ASSUME ScheduleInv, TypeOK',
           NextPass \/ \E t \in Tasks : PollInVain(t)
    PROVE  ScheduleInv'
<1> USE DEF ScheduleInv
<1>1. UNCHANGED <<loraVars, mqttVars, channelVars>>
  BY DEF NextPass, PollInVain
<1>2. MutexDiscipline' /\ HoldBacklog'
  BY <1>1
  DEF loraVars, mqttVars, channelVars, MutexDiscipline, HoldBacklog,
      StillToCome
<1>3. ASSUME egress = "recv" PROVE RecvBacklog'
  <2>1. CASE results = <<>>
    BY <1>1, <2>1 DEF channelVars, RecvBacklog, Twice
  <2>2. CASE results # <<>> /\ NextPass
    <3>1. "egress" \in due' /\ "egress" \notin due
      BY <1>3, <2>2 DEF NextPass, WokenTasks, EgressWoken, Tasks
    <3>2. Len(results) <= 2
      BY <1>3, <3>1 DEF RecvBacklog, Twice, TypeOK, ChannelTypeOK
    <3> QED
      BY <1>1, <3>1, <3>2
      DEF channelVars, RecvBacklog, Twice, TypeOK, ChannelTypeOK
  <2>3. ASSUME NEW t \in Tasks, PollInVain(t), results # <<>>
        PROVE  RecvBacklog'
    <3>1. t # "egress"
      BY <1>3, <2>3 DEF PollInVain, WokenTasks, EgressWoken, Tasks
    <3>2. /\ "egress" \in due' <=> "egress" \in due
          /\ "lora" \in polled => "lora" \in polled'
      BY <2>3, <3>1 DEF PollInVain, Poll
    <3> QED
      BY <1>1, <1>3, <3>2
      DEF mqttVars, channelVars, RecvBacklog, Twice, TypeOK, ChannelTypeOK
  <2> QED
    BY <2>1, <2>2, <2>3
<1> QED
  BY <1>1, <1>2, <1>3 DEF mqttVars, RecvBacklog

LEMMA NextSchedule == ScheduleInv /\ [Next]_vars => ScheduleInv'
<1> SUFFICES ASSUME ScheduleInv, [Next]_vars PROVE ScheduleInv'
  OBVIOUS
<1>1. TypeOK /\ TypeOK'
  BY NextTypeOK DEF ScheduleInv
<1>2. CASE PollLora
  BY <1>1, <1>2, LoraStepQueues, LoraPollSchedule DEF PollLora
<1>3. ASSUME NEW e \in ForeignFrames, HearFrame(e)
      PROVE  ScheduleInv'
  BY <1>1, <1>3, RxFrameQueues, LoraPollSchedule, ForeignFramesAssumption
  DEF HearFrame
<1>4. CASE PollIngress
  BY <1>1, <1>4, IngressPollSchedule
<1>5. CASE PollEgress
  BY <1>1, <1>5, EgressPollSchedule
<1>6. CASE NextPass \/ \E t \in Tasks : PollInVain(t)
  BY <1>1, <1>6, ExecutorSchedule
<1>7. CASE UNCHANGED vars
  BY <1>1, <1>7
  DEF vars, loraVars, mqttVars, channelVars, executorVars, ScheduleInv,
      MutexDiscipline, RecvBacklog, HoldBacklog, StillToCome
<1> QED
  BY <1>2, <1>3, <1>4, <1>5, <1>6, <1>7 DEF Next

\* Under one guard of the ingress, as long as the LoRa task takes no request, no
\* more than a handful of results pile up (line 208 to line 236).
THEOREM BacklogBounded == Spec => []HoldBacklog
<1>1. ScheduleInv => HoldBacklog
  BY DEF ScheduleInv
<1> QED
  BY <1>1, InitSchedule, NextSchedule, PTL DEF Spec

\* forward.send under the mutex guard and result_tx.send in the LoRa loop never
\* close a circle of waiting tasks, provided the result channel has at least
\* five slots: the code gives it eight.
THEOREM NoDeadlock ==
    ASSUME ResultCap >= 5
    PROVE  Spec => []NoCircularWait
<1>1. ScheduleInv => NoCircularWait
  <2> SUFFICES ASSUME ScheduleInv, ~NoCircularWait PROVE FALSE
    OBVIOUS
  <2>1. /\ mutex = "ingress"
        /\ Len(forward) = ForwardCap
        /\ Len(results) = ResultCap
        /\ egress = "lock"
    BY CapacityAssumption
    DEF ScheduleInv, NoCircularWait, MutexDiscipline, IngressHolding, TypeOK,
        ChannelTypeOK, ForwardRoom, ResultRoom
  <2>2. Len(results) + 1 + StillToCome <= 6
    BY <2>1 DEF ScheduleInv, HoldBacklog
  <2> QED
    BY <2>1, <2>2, CapacityAssumption DEF StillToCome
<1> QED
  BY <1>1, InitSchedule, NextSchedule, PTL DEF Spec

----------------------------------------------------------------------------
(***************************************************************************)
(* The requests keep their order, and none is lost on the way to the radio.*)
(***************************************************************************)
\* Taking a request from the front of the queue.
LEMMA TakeOrder ==
    ASSUME TypeOK, QueueInOrder, seq' = seq, pending' = None,
           forward # <<>>, forward' = Tail(forward),
           pc' = "fwdTx" => hand' = Head(forward)
    PROVE  QueueInOrder'
<1> USE DEF TypeOK, ChannelTypeOK
<1>1. /\ Len(forward) \in Nat \ {0}
      /\ Len(forward') = Len(forward) - 1
      /\ Head(forward) = forward[1]
      /\ \A i \in 1 .. Len(forward') : forward'[i] = forward[i + 1]
  OBVIOUS
<1>2. ASSUME NEW i \in 1 .. Len(forward') - 1
      PROVE  forward'[i + 1].seq = NextSeq(forward'[i].seq)
  <2>1. /\ i \in 1 .. Len(forward')
        /\ i + 1 \in 1 .. Len(forward')
        /\ i + 1 \in 1 .. Len(forward) - 1
    BY <1>1
  <2> QED
    BY <1>1, <2>1 DEF QueueInOrder
<1>3. CASE Len(forward) = 1
  <2>1. /\ forward' = <<>>
        /\ seq = NextSeq(Head(forward).seq)
    BY <1>1, <1>3 DEF QueueInOrder
  <2> QED
    BY <1>2, <2>1 DEF QueueInOrder, Upcoming
<1>4. CASE Len(forward) # 1
  <2>1. /\ forward' # <<>>
        /\ forward'[Len(forward')] = forward[Len(forward)]
        /\ Head(forward') = forward'[1]
        /\ forward'[1] = forward[2]
    <3>1. 1 \in 1 .. Len(forward') /\ Len(forward') \in 1 .. Len(forward')
      BY <1>1, <1>4
    <3>2. /\ forward'[Len(forward')] = forward[Len(forward') + 1]
          /\ forward'[1] = forward[1 + 1]
      BY <1>1, <3>1
    <3>3. forward' \in Seq(RequestEnvelope)
      OBVIOUS
    <3>4. forward' # <<>>
      <4>1. Len(forward') # 0
        BY <1>1, <1>4
      <4>2. Len(<<>>) = 0
        OBVIOUS
      <4> QED
        BY <4>1, <4>2, Zenon
    <3>5. Head(forward') = forward'[1]
      BY <3>3, <3>4
    <3>6. Len(forward') + 1 = Len(forward) /\ 1 + 1 = 2
      BY <1>1
    <3> QED
      BY <3>2, <3>4, <3>5, <3>6
  <2>2. Head(forward').seq = NextSeq(Head(forward).seq)
    BY <1>1, <1>4, <2>1 DEF QueueInOrder
  <2> QED
    BY <1>2, <2>1, <2>2 DEF QueueInOrder, Upcoming
<1> QED
  BY <1>3, <1>4

\* Queueing the next request at its end.
LEMMA AppendOrder ==
    ASSUME TypeOK, QueueInOrder, UNCHANGED <<pc, hand, pending>>,
           NEW request \in RequestEnvelope, request.seq = seq,
           forward' = Append(forward, request), seq' = NextSeq(seq)
    PROVE  QueueInOrder'
<1> USE DEF TypeOK, ChannelTypeOK
<1>1. /\ Len(forward) \in Nat
      /\ Len(forward') = Len(forward) + 1
      /\ forward'[Len(forward) + 1] = request
      /\ \A i \in 1 .. Len(forward) : forward'[i] = forward[i]
      /\ forward' # <<>>
      /\ Head(forward') = forward'[1]
      /\ forward # <<>> => Head(forward) = forward[1]
  OBVIOUS
<1>2. ASSUME NEW i \in 1 .. Len(forward') - 1
      PROVE  forward'[i + 1].seq = NextSeq(forward'[i].seq)
  <2>1. CASE i = Len(forward)
    <3>1. forward # <<>>
      BY <1>1, <2>1
    <3> QED
      BY <1>1, <2>1, <3>1 DEF QueueInOrder
  <2>2. CASE i # Len(forward)
    <3>1. /\ i \in 1 .. Len(forward)
          /\ i + 1 \in 1 .. Len(forward)
          /\ i \in 1 .. Len(forward) - 1
      BY <1>1, <2>2
    <3> QED
      BY <1>1, <3>1 DEF QueueInOrder
  <2> QED
    BY <2>1, <2>2
<1>3. Upcoming' = Upcoming
  <2>1. CASE forward = <<>>
    BY <1>1, <2>1 DEF Upcoming
  <2>2. CASE forward # <<>>
    BY <1>1, <2>2 DEF Upcoming
  <2> QED
    BY <2>1, <2>2
<1>4. seq' = NextSeq(forward'[Len(forward')].seq)
  BY <1>1
<1> QED
  BY <1>2, <1>3, <1>4 DEF QueueInOrder

LEMMA EndIterationOrder ==
    ASSUME TypeOK, QueueInOrder, seq' = seq,
           NEW p, p = pending \/ p = None \/ p.msg_type = "Ack",
           NEW queued, EndIteration(p, queued)
    PROVE  QueueInOrder' /\ pc' # "ackTx"
<1>1. pending' = p
  BY DEF EndIteration
<1>2. CASE Retransmit(p, queued)
  BY <1>1, <1>2 DEF Retransmit, QueueInOrder, Upcoming
<1>3. CASE TakeRequest(p, queued)
  BY <1>1, <1>3, TakeOrder DEF TakeRequest, StartSending, RejectRequest
<1>4. CASE NothingToSend(p, queued)
  BY <1>1, <1>4 DEF NothingToSend, QueueInOrder, Upcoming
<1> QED
  BY <1>2, <1>3, <1>4 DEF EndIteration

LEMMA RxFrameOrder ==
    ASSUME OrderInv, NEW e \in Envelope, RxFrame(e), UNCHANGED mqttVars
    PROVE  QueueInOrder' /\ (pc' = "ackTx" => hand'.msg_type = "Ack")
<1> USE DEF OrderInv, mqttVars
<1>1. CASE RxMatchingAck(e)
  BY <1>1 DEF RxMatchingAck, QueueInOrder, Upcoming
<1>2. CASE RxOpen(e)
  BY <1>2 DEF RxOpen, NewEnvelope, QueueInOrder, Upcoming
<1>3. CASE RxStrayAck(e) \/ RxReply(e) \/ RxOther(e)
  BY <1>3, EndIterationOrder DEF RxStrayAck, RxReply, RxOther
<1> QED
  BY <1>1, <1>2, <1>3 DEF RxFrame

LEMMA LoraStepOrder ==
    ASSUME OrderInv, LoraStep, UNCHANGED mqttVars
    PROVE  QueueInOrder' /\ (pc' = "ackTx" => hand'.msg_type = "Ack")
<1> USE DEF OrderInv, mqttVars
<1>1. CASE \/ RxError \/ ReplySentChannelFull \/ RetrySent \/ ForwardFailed
           \/ ForwardFailedChannelFull \/ FailureQueued
  BY <1>1
  DEF RxError, ReplySentChannelFull, RetrySent, ForwardFailed,
      ForwardFailedChannelFull, FailureQueued, QueueInOrder, Upcoming
<1>2. CASE ForwardSent
  BY <1>2 DEF ForwardSent, QueueInOrder, Upcoming
<1>3. CASE \/ RxTimeout \/ ErrorDelayOver \/ ReplySent \/ AckSent
           \/ ResultQueued
  BY <1>3, EndIterationOrder
  DEF RxTimeout, ErrorDelayOver, ReplySent, AckSent, ResultQueued
<1> QED
  BY <1>1, <1>2, <1>3 DEF LoraStep

LEMMA NextOrder == OrderInv /\ [Next]_vars => OrderInv'
<1> SUFFICES ASSUME OrderInv, [Next]_vars PROVE OrderInv'
  OBVIOUS
<1>1. TypeOK /\ TypeOK'
  BY NextTypeOK DEF OrderInv
<1>2. CASE PollLora
  BY <1>1, <1>2, LoraStepOrder DEF PollLora, OrderInv, mqttVars
<1>3. ASSUME NEW e \in ForeignFrames, HearFrame(e)
      PROVE  OrderInv'
  BY <1>1, <1>3, RxFrameOrder, ForeignFramesAssumption
  DEF HearFrame, OrderInv, mqttVars
<1>4. CASE PollIngress
  <2>1. UNCHANGED <<pc, hand, pending>>
    BY <1>4 DEF PollIngress, loraVars
  <2>2. ASSUME NEW p \in RequestPayload, IngressForwards(p)
        PROVE  OrderInv'
    <3>1. Request(p) \in RequestEnvelope /\ Request(p).seq = seq
      BY <1>1, EnvelopeTypes DEF Request, NewEnvelope, TypeOK, MqttTypeOK
    <3> QED
      BY <1>1, <2>1, <2>2, <3>1, AppendOrder
      DEF IngressForwards, ReleaseAndSleep, OrderInv
  <2>3. ASSUME NEW p \in RequestPayload, IngressBlocks(p)
        PROVE  OrderInv'
    BY <1>1, <2>1, <2>3
    DEF IngressBlocks, Request, NewEnvelope, OrderInv, QueueInOrder, Upcoming
  <2>4. CASE IngressUnblocks
    BY <1>1, <2>1, <2>4, AppendOrder
    DEF IngressUnblocks, ReleaseAndSleep, OrderInv, TypeOK, MqttTypeOK
  <2>5. CASE \/ IngressAcquires \/ IngressWakes \/ IngressPinged
             \/ IngressFailed
    BY <1>1, <2>1, <2>5
    DEF IngressAcquires, IngressWakes, IngressPinged, IngressFailed,
        ReleaseAndSleep, OrderInv, QueueInOrder, Upcoming
  <2> QED
    BY <1>4, <2>2, <2>3, <2>4, <2>5 DEF PollIngress, IngressStep
<1>5. CASE PollEgress
  BY <1>1, <1>5
  DEF PollEgress, EgressStep, EgressTakes, EgressAcquires, EgressPublished,
      EgressPublishFailed, loraVars, OrderInv, QueueInOrder, Upcoming
<1>6. CASE NextPass \/ \E t \in Tasks : PollInVain(t)
  BY <1>1, <1>6
  DEF NextPass, PollInVain, loraVars, mqttVars, channelVars, OrderInv,
      QueueInOrder, Upcoming
<1>7. CASE UNCHANGED vars
  BY <1>1, <1>7
  DEF vars, loraVars, mqttVars, channelVars, OrderInv, QueueInOrder, Upcoming
<1> QED
  BY <1>2, <1>3, <1>4, <1>5, <1>6, <1>7 DEF Next

\* The LoRa task sends the requests in the order in which MQTT brought them,
\* without a gap, for every length of the queue: a full channel, a rejected
\* payload and a radio error included.
THEOREM RequestsInOrder == Spec => []QueueInOrder
<1>1. Init => OrderInv
  BY InitTypeOK
  DEF Init, ChannelInit, LoraInit, MqttInit, OrderInv, QueueInOrder
<1>2. OrderInv => QueueInOrder
  BY DEF OrderInv
<1> QED
  BY <1>1, <1>2, NextOrder, PTL DEF Spec
=============================================================================
