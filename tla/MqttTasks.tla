----------------------------- MODULE MqttTasks -----------------------------
(***************************************************************************)
(* task_mqtt_ingress and task_mqtt_egress, which share one MqttController  *)
(* behind an embassy mutex.  As in LoraTask an action is one poll that     *)
(* makes progress, and a control state names the await a task is in:       *)
(*                                                                         *)
(*   ingress  sleep    the 100 ms timer                                    *)
(*            lock     waiting for the mutex                               *)
(*            ping     send_ping, whose outcome is ignored                 *)
(*            recv     receive_message, under its 10 s timeout             *)
(*            send     forward.send, the channel being full                *)
(*   egress   recv     waiting for a result                                *)
(*            lock     waiting for the mutex, a result in hand             *)
(*            publish  publish_message                                     *)
(*                                                                         *)
(* The client library, the socket and the broker are outside src/: an      *)
(* operation on them ends at some time, well or badly.                     *)
(***************************************************************************)
EXTENDS GatewayChannels

VARIABLES
    mutex,      \* who holds the MqttController: "free", "ingress", "egress"
    ingress,    \* control state of task_mqtt_ingress
    offered,    \* the request a suspended forward.send offers, or None
    seq,        \* the next sequence number
    egress,     \* control state of task_mqtt_egress
    reporting   \* the result the egress has in hand, or None

mqttVars == <<mutex, ingress, offered, seq, egress, reporting>>

IngressHolding == {"ping", "recv", "send"}

MqttTypeOK ==
    /\ mutex \in {"free", "ingress", "egress"}
    /\ ingress \in {"sleep", "lock"} \cup IngressHolding
    /\ offered \in RequestEnvelope \cup {None}
    /\ ingress = "send" => offered \in RequestEnvelope
    /\ seq \in SeqNum
    /\ egress \in {"recv", "lock", "publish"}
    /\ reporting \in ResultEnvelope \cup {None}

\* Both tasks are about to run their first iteration.
MqttInit ==
    /\ mutex = "free"
    /\ ingress = "lock"
    /\ offered = None
    /\ seq = 1 % SeqMod
    /\ egress = "recv"
    /\ reporting = None

----------------------------------------------------------------------------
(***************************************************************************)
(* Ingress.  The mutex is held from the lock at the top of the loop to the *)
(* drop at its end, across the ping, the receive and the channel send.     *)
(***************************************************************************)
IngressAcquires ==
    /\ ingress = "lock"
    /\ mutex = "free"
    /\ mutex' = "ingress"
    /\ ingress' = "ping"
    /\ UNCHANGED <<offered, seq, egress, reporting, forward, results>>

\* The timer expires and the loop starts again at the lock.  The mutex became
\* free for a waiting egress when this sleep began, and 100 ms is longer than
\* the executor takes to poll every woken task: the egress has it by now.
IngressWakes ==
    /\ ingress = "sleep"
    /\ ~(egress = "lock" /\ mutex = "free")
    /\ \/ /\ mutex = "free"
          /\ mutex' = "ingress"
          /\ ingress' = "ping"
       \/ /\ mutex # "free"
          /\ ingress' = "lock"
          /\ UNCHANGED mutex
    /\ UNCHANGED <<offered, seq, egress, reporting, forward, results>>

IngressPinged ==
    /\ ingress = "ping"
    /\ ingress' = "recv"
    /\ UNCHANGED <<mutex, offered, seq, egress, reporting, forward, results>>

\* drop(mqtt_controller), then the 100 ms timer
ReleaseAndSleep ==
    /\ mutex' = "free"
    /\ ingress' = "sleep"
    /\ offered' = None

\* A sequence number taken before it is known whether a request arrived.
IngressFailedAdvancing ==
    /\ ingress = "recv"
    /\ ReleaseAndSleep
    /\ seq' = NextSeq(seq)
    /\ UNCHANGED <<egress, reporting, forward, results>>

\* The error arm with its drop forgotten: the guard lives through the pause to the
\* end of the loop's body, and the next iteration locks in the same poll.
IngressFailedHolding ==
    /\ ingress = "recv"
    /\ ingress' = "ping"
    /\ UNCHANGED <<mutex, offered, seq, egress, reporting, forward, results>>

\* Nothing within 10 s, or the client reported an error; a payload over
\* PAYLOAD_LENGTH ends the same way, with no sequence number used.
IngressFailed ==
    /\ ingress = "recv"
    /\ ReleaseAndSleep
    /\ UNCHANGED <<seq, egress, reporting, forward, results>>

Request(p) == NewEnvelope("Open", seq, p)

IngressForwards(p) ==
    /\ ingress = "recv"
    /\ ForwardRoom
    /\ forward' = Append(forward, Request(p))
    /\ seq' = NextSeq(seq)
    /\ ReleaseAndSleep
    /\ UNCHANGED <<egress, reporting, results>>

\* The send suspends with the mutex held.
IngressBlocks(p) ==
    /\ ingress = "recv"
    /\ ~ForwardRoom
    /\ ingress' = "send"
    /\ offered' = Request(p)
    /\ UNCHANGED <<mutex, seq, egress, reporting, forward, results>>

IngressUnblocks ==
    /\ ingress = "send"
    /\ ForwardRoom
    /\ forward' = Append(forward, offered)
    /\ seq' = NextSeq(seq)
    /\ ReleaseAndSleep
    /\ UNCHANGED <<egress, reporting, results>>

IngressStep ==
    \/ IngressAcquires
    \/ IngressWakes
    \/ IngressPinged
    \/ IngressFailed
    \/ \E p \in RequestPayload : IngressForwards(p)
    \/ \E p \in RequestPayload : IngressBlocks(p)
    \/ IngressUnblocks

\* Another task's channel or mutex operation has woken the ingress.
IngressWoken ==
    \/ ingress = "lock" /\ mutex = "free"
    \/ ingress = "send" /\ ForwardRoom

----------------------------------------------------------------------------
(***************************************************************************)
(* Egress.  The guard is dropped at the end of the loop body and the next  *)
(* iteration runs in the same poll, so with another result at hand the     *)
(* egress has the mutex again before the ingress can run.                  *)
(***************************************************************************)
EgressTakes ==
    /\ egress = "recv"
    /\ results # <<>>
    /\ reporting' = Head(results)
    /\ results' = Tail(results)
    /\ \/ /\ mutex = "free"
          /\ mutex' = "egress"
          /\ egress' = "publish"
       \/ /\ mutex # "free"
          /\ egress' = "lock"
          /\ UNCHANGED mutex
    /\ UNCHANGED <<ingress, offered, seq, forward>>

EgressAcquires ==
    /\ egress = "lock"
    /\ mutex = "free"
    /\ mutex' = "egress"
    /\ egress' = "publish"
    /\ UNCHANGED <<ingress, offered, seq, reporting, forward, results>>

NextResult ==
    \/ /\ results # <<>>
       /\ reporting' = Head(results)
       /\ results' = Tail(results)
       /\ UNCHANGED <<mutex, egress>>
    \/ /\ results = <<>>
       /\ reporting' = None
       /\ egress' = "recv"
       /\ mutex' = "free"
       /\ UNCHANGED results

\* The broker has acknowledged the status message.
EgressPublished ==
    /\ egress = "publish"
    /\ NextResult
    /\ UNCHANGED <<ingress, offered, seq, forward>>

\* publish_message failed: the error is logged and the result dropped.
EgressPublishFailed ==
    /\ egress = "publish"
    /\ NextResult
    /\ UNCHANGED <<ingress, offered, seq, forward>>

EgressStep ==
    \/ EgressTakes
    \/ EgressAcquires
    \/ EgressPublished
    \/ EgressPublishFailed

EgressWoken ==
    \/ egress = "recv" /\ results # <<>>
    \/ egress = "lock" /\ mutex = "free"
=============================================================================
