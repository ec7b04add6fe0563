---------------------------- MODULE LoraEnvelope ----------------------------
(***************************************************************************)
(* The messages boards exchange over LoRa (src/protocol).  An envelope is  *)
(* reduced to the fields some decision depends on: its type, its sequence  *)
(* number and a payload class.  The version and the two time stamps are    *)
(* carried and logged by the code and never tested, so they are left out.  *)
(***************************************************************************)
EXTENDS Naturals

CONSTANTS
    SeqMod,  \* sequence numbers are u16 in the code: SeqMod = 65536 there
    None     \* Rust's Option::None

ASSUME SeqModAssumption == SeqMod \in Nat \ {0}

MessageType ==
    {"Counter", "ResponseTime", "ContinuousPackage", "Reply", "Ack", "Open"}

\* What an MQTT message carries.  A "long" payload passes the gateway's own
\* check (at most PAYLOAD_LENGTH = 255 bytes) and not the frame's (at most
\* MAX_APP_PAYLOAD = 229 bytes); a "short" one passes both.
RequestPayload == {"short", "long"}

\* The three texts the gateway itself writes: b"ACK", b"LoRa forward ACK
\* received" and b"LoRa send failed".
Payload == RequestPayload \cup {"ACK", "ackReceived", "sendFailed"}

SeqNum == 0 .. (SeqMod - 1)

\* u16::wrapping_add(1)
NextSeq(s) == (s + 1) % SeqMod

Envelope == [msg_type : MessageType, seq : SeqNum, payload : Payload]

ASSUME NoneAssumption == None \notin Envelope

\* LoraEnvelope::new
NewEnvelope(type, s, p) == [msg_type |-> type, seq |-> s, payload |-> p]

\* OutgoingFrame::new answers None for an application payload over the limit.
FitsFrame(e) == e.payload # "long"
=============================================================================
