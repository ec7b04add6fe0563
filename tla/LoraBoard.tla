----------------------------- MODULE LoraBoard -----------------------------
(***************************************************************************)
(* A gateway as its LoRa task sees it: MQTT is reduced to the two ends of  *)
(* the channels.  A request with the next sequence number may be queued    *)
(* whenever there is room, a result may be taken at any time, and any of   *)
(* the frames in ForeignFrames may be heard.  LoraGateway implements this, *)
(* which is why LoraNetwork can leave the MQTT tasks out of its boards.    *)
(***************************************************************************)
EXTENDS LoraTask

CONSTANT ForeignFrames

VARIABLE seq    \* the number of the next request

vars == <<loraVars, channelVars, seq>>

Init ==
    /\ LoraInit
    /\ ChannelInit
    /\ seq = 1 % SeqMod

Queue(p) ==
    /\ ForwardRoom
    /\ forward' = Append(forward, NewEnvelope("Open", seq, p))
    /\ seq' = NextSeq(seq)
    /\ UNCHANGED <<loraVars, results>>

Take ==
    /\ results # <<>>
    /\ results' = Tail(results)
    /\ UNCHANGED <<loraVars, forward, seq>>

Next ==
    \/ LoraStep /\ UNCHANGED seq
    \/ \E e \in ForeignFrames : RxFrame(e) /\ UNCHANGED seq
    \/ \E p \in RequestPayload : Queue(p)
    \/ Take

Spec == Init /\ [][Next]_vars
=============================================================================
