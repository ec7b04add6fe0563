--------------------------- MODULE MCLoraGateway ---------------------------
(***************************************************************************)
(* Values for the constants of LoraGateway.  The frames heard from other   *)
(* boards carry any sequence number; the payload of a heard frame is only  *)
(* logged, so one is enough, and one of the three types that fall through  *)
(* the match stands for all of them.                                       *)
(***************************************************************************)
EXTENDS LoraGateway

MCForeignFrames ==
    {NewEnvelope(type, s, "ACK") :
        type \in {"Ack", "Open", "Reply", "Counter"}, s \in SeqNum}
=============================================================================
