-------------------------- MODULE GatewayChannels --------------------------
(***************************************************************************)
(* The two static embassy channels of the gateway binary.  `forward` takes *)
(* the requests that arrive over MQTT to the LoRa task, `results` takes    *)
(* the outcomes back.  Both are bounded (8 slots in the code): a send      *)
(* suspends the sender while the channel is full.                          *)
(***************************************************************************)
EXTENDS LoraEnvelope, Sequences

CONSTANTS ForwardCap, ResultCap  \* 8 and 8 in the code

ASSUME CapacityAssumption ==
    /\ ForwardCap \in Nat \ {0}
    /\ ResultCap \in Nat \ {0}

VARIABLES forward, results

channelVars == <<forward, results>>

\* What the LoRa task queues for MQTT: replies carrying one of two texts.
ResultEnvelope ==
    [msg_type : {"Reply"}, seq : SeqNum, payload : {"ackReceived", "sendFailed"}]

\* What the MQTT ingress queues for LoRa.
RequestEnvelope ==
    [msg_type : {"Open"}, seq : SeqNum, payload : RequestPayload]

ChannelTypeOK ==
    /\ forward \in Seq(RequestEnvelope)
    /\ Len(forward) <= ForwardCap
    /\ results \in Seq(ResultEnvelope)
    /\ Len(results) <= ResultCap

ChannelInit ==
    /\ forward = <<>>
    /\ results = <<>>

\* A channel declared one slot larger than the task on the other side expects.
ForwardRoomOffByOne == Len(forward) <= ForwardCap

ForwardRoom == Len(forward) < ForwardCap

ResultRoom == Len(results) < ResultCap
=============================================================================
