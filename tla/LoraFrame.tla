----------------------------- MODULE LoraFrame -----------------------------
(***************************************************************************)
(* The frame around an envelope: OutgoingFrame::new on the sender's side,  *)
(* decode_envelope on the receiver's.  A frame is two bytes that declare a *)
(* length, then the envelope in CBOR.  What matters is sizes, so a message *)
(* is the numbers its size depends on, and received bytes are their count, *)
(* the length the first two declare, and the message that the bytes after  *)
(* them encode or begin to encode, None if there is no such message.       *)
(*                                                                         *)
(* Encode and Decode are derived by minicbor: an array of the six fields,  *)
(* the message type an array of its index and its (no) fields.             *)
(***************************************************************************)
EXTENDS Integers

CONSTANTS
    Seqs, Stamps, PayloadLens,  \* the values of a message's fields
    Lens, DeclaredLens,         \* the sizes of other traffic
    None,                       \* Rust's Option::None
    Panic                       \* a slice out of its bounds

PAYLOAD_LENGTH == 255

U16 == 0 .. 256 * 256 - 1

Message == [seq : Seqs, timestamp_ms : Stamps, elapsed_ms : Stamps,
            len : PayloadLens]

Bytes == [len : Nat, declared : Nat, content : Message \cup {None}]

\* seq is u16; time stamps are u32, of which nothing but HeadLen depends.
ASSUME FieldsAssumption ==
    /\ Seqs \subseteq U16
    /\ Stamps \subseteq Nat
    /\ PayloadLens \subseteq Nat
    /\ Lens \subseteq 0 .. PAYLOAD_LENGTH
    /\ DeclaredLens \subseteq U16
    /\ None \notin Message \cup Bytes
    /\ Panic \notin Message \cup {None}

VARIABLES
    message,   \* what was passed to send_message last
    frame,     \* OutgoingFrame::new's answer
    received,  \* the bytes the radio of the receiver delivered last
    decoded    \* decode_envelope's answer

vars == <<message, frame, received, decoded>>

----------------------------------------------------------------------------
\* The bytes of a CBOR head: an integer, or the length before a byte string.
HeadLen(n) ==
    IF n < 24 THEN 1
    ELSE IF n < 256 THEN 2
    ELSE IF n < 256 * 256 THEN 3
    ELSE 5

\* Array head, version, message type, the three numbers, the payload.
CborLen(m) ==
    1 + 1 + 3 + HeadLen(m.seq) + HeadLen(m.timestamp_ms)
      + HeadLen(m.elapsed_ms) + HeadLen(m.len) + m.len

\* PAYLOAD_LENGTH less the 20 bytes of the envelope, the prefix forgotten.
MaxAppPayloadNoPrefix == 235

MaxAppPayload == 229

\* The cursor has two bytes less than the frame, and fails when they are used
\* up; the conditions tested after it repeat this one at this length.
EncodingFits(m) == CborLen(m) + 2 <= PAYLOAD_LENGTH

\* The prefix counts itself.
FrameDeclaringAll(m) ==
    [len |-> CborLen(m) + 2, declared |-> CborLen(m) + 2, content |-> m]

FrameOf(m) ==
    [len |-> CborLen(m) + 2, declared |-> CborLen(m), content |-> m]

OutgoingFrame(m) ==
    IF m.len <= MaxAppPayload /\ EncodingFits(m) THEN FrameOf(m) ELSE None

----------------------------------------------------------------------------
\* The declared length compared with all the bytes, the prefix among them.
DeclaredTooLongNoPrefix(b) == b.declared > b.len

DeclaredTooLong(b) == b.declared + 2 > b.len

\* received[2 .. 2 + declared] panics beyond the end.  minicbor ignores what
\* follows the envelope and reports an envelope that is cut short.
DecodeDeclared(b) ==
    IF 2 + b.declared > b.len THEN Panic
    ELSE IF b.content # None /\ CborLen(b.content) <= b.declared
    THEN b.content
    ELSE None

DecodeEnvelope(b) ==
    IF b.len < 2 \/ b.declared = 0 \/ DeclaredTooLong(b)
    THEN None
    ELSE DecodeDeclared(b)

----------------------------------------------------------------------------
Init ==
    /\ message = None
    /\ frame = None
    /\ received = None
    /\ decoded = None

\* send_message and send_message_envelope; without a frame nothing is sent.
Send(m) ==
    /\ message' = m
    /\ frame' = OutgoingFrame(m)
    /\ received' = None
    /\ decoded' = None

\* receive_message: the radio delivered these bytes.
Receive(b) ==
    /\ received' = b
    /\ decoded' = DecodeEnvelope(b)
    /\ UNCHANGED <<message, frame>>

\* A frame that passes the radio's CRC is the one that was sent.
ReceiveFrame == frame # None /\ Receive(frame)

\* Other traffic on the frequency: any bytes, some of which begin like the
\* frame of a message.
ReceiveOther ==
    \E n \in Lens, d \in DeclaredLens, c \in {None, message} :
        Receive([len |-> n, declared |-> d, content |-> c])

Next ==
    \/ \E m \in Message : Send(m)
    \/ ReceiveFrame
    \/ ReceiveOther

Spec == Init /\ [][Next]_vars

----------------------------------------------------------------------------
\* MAX_APP_PAYLOAD is the payload that "garante que o envelope CBOR completo
\* caiba dentro de um frame" (comment at lines 9-17): a message is framed
\* exactly when its payload is within the limit, whatever its numbers are, and
\* no frame is longer than the radio's.  The encoding of the largest envelope
\* is never what decides.
LimitSuffices ==
    message # None =>
        /\ frame # None <=> message.len <= MaxAppPayload
        /\ frame # None => frame.len <= PAYLOAD_LENGTH

\* What the receiver decodes from a frame is the message it was made from: the
\* two sides agree on what the length prefix counts.
RoundTrip == frame # None /\ received = frame => decoded = message

\* However long the declared length, decode_envelope takes no byte that was not
\* received, and hands out no envelope that was not received whole.
StaysInside ==
    /\ decoded # Panic
    /\ decoded # None => CborLen(decoded) + 2 <= received.len
=============================================================================
