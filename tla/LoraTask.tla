------------------------------ MODULE LoraTask ------------------------------
(***************************************************************************)
(* task_lora_gateway, with the LoraController and the radio below it.      *)
(*                                                                         *)
(* embassy runs tasks cooperatively, so the unit of execution is a poll:   *)
(* what the task does from one suspension to the next.  Each action here   *)
(* is one poll that makes progress, and `pc` names the await the task is   *)
(* suspended in:                                                           *)
(*                                                                         *)
(*   rx          receive_message, under its 5 s timeout                    *)
(*   errDelay    the 25 ms pause after a radio error                       *)
(*   replyTx     sending the Reply that closes an exchange                 *)
(*   resultWait  queueing that Reply for MQTT, the channel being full      *)
(*   ackTx       sending the Ack of an Open just heard                     *)
(*   retryTx     sending the pending envelope again                        *)
(*   fwdTx       sending a request taken from the forward channel          *)
(*   failWait    queueing a "send failed" result, the channel being full   *)
(*                                                                         *)
(* The SPI transfers inside a radio operation suspend the task as well;    *)
(* nothing is read or written between them, so an operation is one await.  *)
(***************************************************************************)
EXTENDS GatewayChannels

VARIABLES
    pc,       \* the await the task is suspended in
    pending,  \* pending_forward: the envelope that awaits an answer, or None
    hand,     \* the envelope the suspended send works on, or None
    servo     \* "parked" until ServoMotor::open has been called

loraVars == <<pc, pending, hand, servo>>

Transmitting == {"replyTx", "ackTx", "retryTx", "fwdTx"}
Blocked == {"resultWait", "failWait"}
LoraPc == {"rx", "errDelay"} \cup Transmitting \cup Blocked

LoraTypeOK ==
    /\ pc \in LoraPc
    /\ pending \in Envelope \cup {None}
    /\ hand \in Envelope \cup {None}
    /\ servo \in {"parked", "open"}
    /\ pc \in {"replyTx"} \cup Blocked => hand \in ResultEnvelope
    /\ pc = "fwdTx" => hand \in RequestEnvelope /\ FitsFrame(hand)
    /\ pc \in {"ackTx", "retryTx"} => hand # None

LoraInit ==
    /\ pc = "rx"
    /\ pending = None
    /\ hand = None
    /\ servo = "parked"

\* The board boots again: nothing has been stored.
LoraReboots ==
    /\ pc' = "rx"
    /\ pending' = None
    /\ hand' = None
    /\ servo' = "parked"
    /\ forward' = <<>>
    /\ results' = <<>>

----------------------------------------------------------------------------
\* A loop that waits for the answer without sending again.
AwaitAnswer(p, queued) ==
    /\ p # None
    /\ pc' = "rx"
    /\ hand' = None
    /\ results' = queued
    /\ UNCHANGED forward

(***************************************************************************)
(* The end of every iteration.  With an exchange pending its envelope is   *)
(* sent again; without one a request is taken from the forward channel if  *)
(* there is one.  `p` and `queued` are the values that pending_forward and *)
(* the result channel have by then.                                        *)
(***************************************************************************)
Retransmit(p, queued) ==
    /\ p # None
    /\ pc' = "retryTx"
    /\ hand' = p
    /\ results' = queued
    /\ UNCHANGED forward

StartSending(request, queued) ==
    /\ FitsFrame(request)
    /\ pc' = "fwdTx"
    /\ hand' = request
    /\ results' = queued

SendFailed(request) == NewEnvelope("Reply", request.seq, "sendFailed")

\* The payload does not fit in a frame: send_message_envelope fails without
\* touching the radio, so the failure is queued in the same poll.
RejectRequest(request, queued) ==
    /\ ~FitsFrame(request)
    /\ \/ /\ Len(queued) < ResultCap
          /\ results' = Append(queued, SendFailed(request))
          /\ pc' = "rx"
          /\ hand' = None
       \/ /\ Len(queued) = ResultCap
          /\ results' = queued
          /\ pc' = "failWait"
          /\ hand' = SendFailed(request)

\* The queue served from the wrong end.
TakeNewestRequest(p, queued) ==
    /\ p = None
    /\ forward # <<>>
    /\ forward' = SubSeq(forward, 1, Len(forward) - 1)
    /\ \/ StartSending(forward[Len(forward)], queued)
       \/ RejectRequest(forward[Len(forward)], queued)

TakeRequest(p, queued) ==
    /\ p = None
    /\ forward # <<>>
    /\ forward' = Tail(forward)
    /\ \/ StartSending(Head(forward), queued)
       \/ RejectRequest(Head(forward), queued)

NothingToSend(p, queued) ==
    /\ p = None
    /\ forward = <<>>
    /\ pc' = "rx"
    /\ hand' = None
    /\ results' = queued
    /\ UNCHANGED forward

\* A loop that listens again right after an exchange, where the code looks at
\* the forward channel first.
EndIterationListening(p, queued) ==
    /\ pending' = p
    /\ \/ Retransmit(p, queued)
       \/ pc = "rx" /\ TakeRequest(p, queued)
       \/ /\ p = None
          /\ pc' = "rx"
          /\ hand' = None
          /\ results' = queued
          /\ UNCHANGED forward

EndIteration(p, queued) ==
    /\ pending' = p
    /\ \/ Retransmit(p, queued)
       \/ TakeRequest(p, queued)
       \/ NothingToSend(p, queued)

----------------------------------------------------------------------------
(***************************************************************************)
(* Polls that end receive_message.  `e` is the envelope heard; where it    *)
(* comes from is the business of the module that composes this one.        *)
(***************************************************************************)
\* The sequence number of the Ack not compared.
AnswersAnything(e) == pending # None

AnswersPending(e) ==
    /\ pending # None
    /\ pending.seq = e.seq

RxMatchingAck(e) ==
    /\ pc = "rx"
    /\ e.msg_type = "Ack"
    /\ AnswersPending(e)
    /\ pc' = "replyTx"
    /\ hand' = NewEnvelope("Reply", pending.seq, "ackReceived")
    /\ UNCHANGED <<pending, servo, forward, results>>

\* Nothing pending, or another sequence number: logged and ignored.
RxStrayAck(e) ==
    /\ pc = "rx"
    /\ e.msg_type = "Ack"
    /\ ~AnswersPending(e)
    /\ EndIteration(pending, results)
    /\ UNCHANGED servo

\* The Ack replaces whatever was pending, after it has been sent (AckSent).
RxOpen(e) ==
    /\ pc = "rx"
    /\ e.msg_type = "Open"
    /\ servo' = "open"
    /\ pc' = "ackTx"
    /\ hand' = NewEnvelope("Ack", e.seq, "ACK")
    /\ UNCHANGED <<pending, forward, results>>

\* Any Reply clears the pending envelope: its sequence number is not read.
RxReply(e) ==
    /\ pc = "rx"
    /\ e.msg_type = "Reply"
    /\ EndIteration(None, results)
    /\ UNCHANGED servo

RxOther(e) ==
    /\ pc = "rx"
    /\ e.msg_type \in {"Counter", "ResponseTime", "ContinuousPackage"}
    /\ EndIteration(pending, results)
    /\ UNCHANGED servo

RxFrame(e) ==
    \/ RxMatchingAck(e)
    \/ RxStrayAck(e)
    \/ RxOpen(e)
    \/ RxReply(e)
    \/ RxOther(e)

\* The radio failed, the packet was empty or its envelope did not decode.
RxError ==
    /\ pc = "rx"
    /\ pc' = "errDelay"
    /\ UNCHANGED <<pending, hand, servo, forward, results>>

RxTimeout ==
    /\ pc = "rx"
    /\ EndIteration(pending, results)
    /\ UNCHANGED servo

ErrorDelayOver ==
    /\ pc = "errDelay"
    /\ EndIteration(pending, results)
    /\ UNCHANGED servo

----------------------------------------------------------------------------
(***************************************************************************)
(* Polls that end a transmission.  Only the forward path reads the radio's *)
(* verdict; the other three ignore it (.ok()).                             *)
(***************************************************************************)
\* pending_forward not cleared after the result has been queued.
ReplySentStillPending ==
    /\ pc = "replyTx"
    /\ ResultRoom
    /\ EndIteration(pending, Append(results, hand))
    /\ UNCHANGED servo

ReplySent ==
    /\ pc = "replyTx"
    /\ ResultRoom
    /\ EndIteration(None, Append(results, hand))
    /\ UNCHANGED servo

ReplySentChannelFull ==
    /\ pc = "replyTx"
    /\ ~ResultRoom
    /\ pc' = "resultWait"
    /\ UNCHANGED <<pending, hand, servo, forward, results>>

\* send_message_envelope(&ack), then pending_forward = Some(ack), then the end
\* of the iteration, which sends the Ack a second time.
AckSent ==
    /\ pc = "ackTx"
    /\ EndIteration(hand, results)
    /\ UNCHANGED servo

RetrySent ==
    /\ pc = "retryTx"
    /\ pc' = "rx"
    /\ hand' = None
    /\ UNCHANGED <<pending, servo, forward, results>>

ForwardSent ==
    /\ pc = "fwdTx"
    /\ pc' = "rx"
    /\ pending' = hand
    /\ hand' = None
    /\ UNCHANGED <<servo, forward, results>>

\* The radio reported an error.
ForwardFailed ==
    /\ pc = "fwdTx"
    /\ ResultRoom
    /\ results' = Append(results, SendFailed(hand))
    /\ pc' = "rx"
    /\ hand' = None
    /\ UNCHANGED <<pending, servo, forward>>

ForwardFailedChannelFull ==
    /\ pc = "fwdTx"
    /\ ~ResultRoom
    /\ pc' = "failWait"
    /\ hand' = SendFailed(hand)
    /\ UNCHANGED <<pending, servo, forward, results>>

----------------------------------------------------------------------------
\* Polls of a task that waits for room in the result channel.
ResultQueued ==
    /\ pc = "resultWait"
    /\ ResultRoom
    /\ EndIteration(None, Append(results, hand))
    /\ UNCHANGED servo

FailureQueued ==
    /\ pc = "failWait"
    /\ ResultRoom
    /\ results' = Append(results, hand)
    /\ pc' = "rx"
    /\ hand' = None
    /\ UNCHANGED <<pending, servo, forward>>

\* Every poll that does not take a frame out of the radio.
LoraStep ==
    \/ RxError
    \/ RxTimeout
    \/ ErrorDelayOver
    \/ ReplySent
    \/ ReplySentChannelFull
    \/ AckSent
    \/ RetrySent
    \/ ForwardSent
    \/ ForwardFailed
    \/ ForwardFailedChannelFull
    \/ ResultQueued
    \/ FailureQueued

\* A channel operation of another task has woken this one.
LoraWoken == pc \in Blocked /\ ResultRoom
=============================================================================
