---------------------------- MODULE LoraGateway ----------------------------
(***************************************************************************)
(* The gateway binary: task_lora_gateway, task_mqtt_ingress and            *)
(* task_mqtt_egress on one embassy executor, coupled by the two channels   *)
(* and by the mutex of the MQTT controller.                                *)
(*                                                                         *)
(* The executor takes its whole run queue, polls each task in it once, and *)
(* starts again: a task that another task wakes is polled in the next      *)
(* pass, and nobody is polled twice in a pass.  A task that waits for a    *)
(* timer, a socket or the radio may be polled in any pass.                 *)
(*                                                                         *)
(* Other boards are not here: any frame in ForeignFrames may be heard      *)
(* whenever the radio listens, or never.                                   *)
(***************************************************************************)
EXTENDS LoraTask, MqttTasks

CONSTANT ForeignFrames

ASSUME ForeignFramesAssumption == ForeignFrames \subseteq Envelope

VARIABLES
    polled,  \* tasks already polled in this pass of the executor
    due      \* tasks that must still be polled in it

executorVars == <<polled, due>>

vars == <<loraVars, mqttVars, channelVars, executorVars>>

Tasks == {"lora", "ingress", "egress"}

WokenTasks ==
    {t \in Tasks : \/ t = "lora" /\ LoraWoken
                   \/ t = "ingress" /\ IngressWoken
                   \/ t = "egress" /\ EgressWoken}

ExecutorTypeOK ==
    /\ polled \subseteq Tasks
    /\ due \subseteq Tasks \ polled

TypeOK ==
    /\ ChannelTypeOK
    /\ LoraTypeOK
    /\ MqttTypeOK
    /\ ExecutorTypeOK

Init ==
    /\ ChannelInit
    /\ LoraInit
    /\ MqttInit
    /\ polled = {}
    /\ due = {"ingress"}

\* Suspended in a channel or mutex operation: only another task wakes them.
Dependent ==
    {t \in Tasks : \/ t = "lora" /\ pc \in Blocked
                   \/ t = "ingress" /\ ingress \in {"lock", "send"}
                   \/ t = "egress" /\ egress \in {"recv", "lock"}}

Poll(t) ==
    /\ t \notin polled
    /\ t \in Dependent => t \in due
    /\ polled' = polled \cup {t}
    /\ due' = due \ {t}

PollLora ==
    /\ Poll("lora")
    /\ LoraStep
    /\ UNCHANGED mqttVars

HearFrame(e) ==
    /\ Poll("lora")
    /\ RxFrame(e)
    /\ UNCHANGED mqttVars

PollIngress ==
    /\ Poll("ingress")
    /\ IngressStep
    /\ UNCHANGED loraVars

PollEgress ==
    /\ Poll("egress")
    /\ EgressStep
    /\ UNCHANGED loraVars

\* A task polled for a wake-up whose cause has gone by now: the ingress woken
\* for a mutex that the egress was faster to lock.
PollInVain(t) ==
    /\ t \in due
    /\ t \notin WokenTasks
    /\ Poll(t)
    /\ UNCHANGED <<loraVars, mqttVars, channelVars>>

NextPass ==
    /\ due = {}
    /\ polled # {}
    /\ polled' = {}
    /\ due' = WokenTasks
    /\ UNCHANGED <<loraVars, mqttVars, channelVars>>

Next ==
    \/ PollLora
    \/ \E e \in ForeignFrames : HearFrame(e)
    \/ PollIngress
    \/ PollEgress
    \/ \E t \in Tasks : PollInVain(t)
    \/ NextPass

(***************************************************************************)
(* Every await ends: the receive by its 5 s timeout, a transmission by the *)
(* radio's interrupt, the MQTT receive by its 10 s timeout, a ping or a    *)
(* publish by the socket's own 60 s timeout, the pauses by their timers.   *)
(* The executor polls whatever has been woken and goes on to its next      *)
(* pass.  Nothing is assumed of frames from other boards.                  *)
(***************************************************************************)
Fairness ==
    /\ WF_vars(PollLora)
    /\ WF_vars(PollIngress)
    /\ WF_vars(PollEgress)
    /\ WF_vars(\E t \in Tasks : PollInVain(t))
    /\ WF_vars(NextPass)

Spec == Init /\ [][Next]_vars

FairSpec == Spec /\ Fairness

----------------------------------------------------------------------------
\* The tasks never wait for one another in a circle: the ingress, holding the
\* mutex, for room in `forward`; the LoRa task, the only one to make such
\* room, for room in `results`; and the egress, the only one to make that, for
\* the mutex (forward.send under the guard, against result_tx.send).
NoCircularWait ==
    ~ /\ ingress = "send" /\ ~ForwardRoom
      /\ pc \in Blocked /\ ~ResultRoom
      /\ egress = "lock"

\* The mutex is held exactly by the task that is between lock and drop, and a
\* free mutex is not left to a sleeping egress by an ingress about to lock it.
MutexDiscipline ==
    /\ mutex = "ingress" <=> ingress \in IngressHolding
    /\ mutex = "egress" <=> egress = "publish"
    /\ mutex = "free" /\ egress = "lock" => ingress = "sleep"

Twice(condition) == IF condition THEN 2 ELSE 0

\* While the egress waits for a result, the LoRa task has been polled at most
\* twice since `results` was empty, and one poll queues at most two results.
RecvBacklog ==
    egress = "recv" =>
        Len(results) <= Twice("lora" \in polled) + Twice("egress" \in due)

\* How many results the LoRa task may still queue without taking a request.
StillToCome == IF pc \in {"fwdTx", "failWait"} THEN 2 ELSE 1

\* Under one guard of the ingress only so many results pile up before the LoRa
\* task takes a request, which is what a blocked forward.send waits for.
HoldBacklog ==
    mutex = "ingress" /\ Len(forward) = ForwardCap =>
        Len(results) + (IF egress = "lock" THEN 1 ELSE 0) + StillToCome <= 6

ScheduleInv ==
    /\ TypeOK
    /\ MutexDiscipline
    /\ RecvBacklog
    /\ HoldBacklog

\* Whatever MQTT does, the gateway goes back to listening to LoRa again and
\* again: result_tx.send in the middle of task_lora_gateway never silences the
\* radio for good.
LoraKeepsListening == []<>(pc = "rx")

\* The sequence number of the request that is sent next.
Upcoming == IF forward = <<>> THEN seq ELSE Head(forward).seq

\* Requests are sent over LoRa in the order the broker delivered them, none
\* lost or sent twice on the way: the queued sequence numbers are consecutive,
\* the next one to be given follows the last, and the request the LoRa task is
\* about (sending it, or waiting for its answer) is the one before the first.
QueueInOrder ==
    /\ \A i \in 1 .. Len(forward) - 1 :
           forward[i + 1].seq = NextSeq(forward[i].seq)
    /\ forward # <<>> => seq = NextSeq(forward[Len(forward)].seq)
    /\ pc = "fwdTx" => Upcoming = NextSeq(hand.seq)
    /\ pending # None /\ pending.msg_type = "Open" =>
           Upcoming = NextSeq(pending.seq)

\* The three tasks together are a LoraBoard: whatever the mutex and the executor
\* do, each poll changes the channels and the numbering as one of its steps, or
\* not at all.
Board == INSTANCE LoraBoard

ImplementsBoard == Board!Spec

OrderInv ==
    /\ TypeOK
    /\ QueueInOrder
    /\ ingress = "send" => offered.seq = seq
    /\ pc = "ackTx" => hand.msg_type = "Ack"

----------------------------------------------------------------------------
(***************************************************************************)
(* What the repository says of this program, and the program does not do.  *)
(***************************************************************************)
\* "the end device has received the request and now we notify MQTT of it", says
\* the comment in task_mqtt_egress (lines 259-260): what is published stands
\* for an acknowledged request.  Failed sends come through the same channel
\* and are published with the same, empty, payload.
StatusMeansAck == reporting # None => reporting.payload = "ackReceived"

\* "send a forward and wait for the ACK before sending another one", says the
\* comment in task_lora_gateway (line 170): a request that has been sent stays
\* pending until its Ack has been heard.
ForwardAwaitsAck ==
    [][pending # None /\ pending.msg_type = "Open" /\ pending' # pending =>
           pc \in {"replyTx", "resultWait"}]_vars

\* "short poll to allow alternating between LoRa RX and the queue of requests
\* that come from MQTT", says the comment at LORA_RX_POLL_MS (line 33), and
\* forward_ack_timeout_ms (lines 42 and 51) gives an answer 5 s: the queue is
\* always served in the end.
QueueServed == forward # <<>> ~> pc = "fwdTx"
=============================================================================
