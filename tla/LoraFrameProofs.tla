-------------------------- MODULE LoraFrameProofs --------------------------
(***************************************************************************)
(* Theorems about LoraFrame, for all sequence numbers, time stamps, sizes  *)
(* and received bytes.                                                     *)
(***************************************************************************)
EXTENDS LoraFrame, TLAPS

\* The frame is that of the message, and the decoded envelope that of the
\* bytes: both boards keep nothing else.
FrameInv ==
    /\ message \in Message \cup {None}
    /\ frame = IF message = None THEN None ELSE OutgoingFrame(message)
    /\ received \in Bytes \cup {None}
    /\ decoded = IF received = None THEN None ELSE DecodeEnvelope(received)

\* What an element of U16 is.
LEMMA U16Range ==
    ASSUME NEW n \in U16
    PROVE  n \in Nat /\ n < 256 * 256
<1>1. 256 * 256 \in Int
  OBVIOUS
<1> QED  BY <1>1 DEF U16

\* An integer below 2^16 takes at most three bytes, one below 2^32 five.
LEMMA HeadLength ==
    ASSUME NEW n \in Nat
    PROVE  /\ HeadLen(n) \in 1 .. 5
           /\ n < 256 => HeadLen(n) <= 2
           /\ n \in U16 => HeadLen(n) <= 3
<1>1. HeadLen(n) \in 1 .. 5
  BY DEF HeadLen
<1>2. n < 256 => HeadLen(n) <= 2
  BY DEF HeadLen
<1>3. n \in U16 => HeadLen(n) <= 3
  BY U16Range DEF HeadLen
<1> QED  BY <1>1, <1>2, <1>3

\* An envelope costs its payload and between 9 and 20 bytes more, at the
\* payloads in question: OutgoingFrame's limit leaves room for 24.
LEMMA EnvelopeOverhead ==
    ASSUME NEW m \in Message
    PROVE  /\ CborLen(m) \in Nat
           /\ 9 + m.len <= CborLen(m)
           /\ m.len <= MaxAppPayload => CborLen(m) <= 20 + m.len
<1>1. /\ m.seq \in U16
      /\ m.timestamp_ms \in Nat
      /\ m.elapsed_ms \in Nat
      /\ m.len \in Nat
  BY FieldsAssumption DEF FieldsAssumption, Message
<1>2. /\ HeadLen(m.seq) \in 1 .. 3
      /\ HeadLen(m.timestamp_ms) \in 1 .. 5
      /\ HeadLen(m.elapsed_ms) \in 1 .. 5
      /\ HeadLen(m.len) \in 1 .. 5
  <2>1. m.seq \in Nat
    BY <1>1, U16Range
  <2> QED  BY <1>1, <2>1, HeadLength
<1>3. m.len <= MaxAppPayload => HeadLen(m.len) <= 2
  BY <1>1, HeadLength DEF MaxAppPayload
<1> DEFINE sq == HeadLen(m.seq)
           ts == HeadLen(m.timestamp_ms)
           el == HeadLen(m.elapsed_ms)
           pl == HeadLen(m.len)
           n == m.len
<1>4. CborLen(m) = 1 + 1 + 3 + sq + ts + el + pl + n
  BY DEF CborLen
<1>5. /\ sq \in 1 .. 3 /\ ts \in 1 .. 5 /\ el \in 1 .. 5 /\ pl \in 1 .. 5
      /\ n \in Nat
      /\ n <= MaxAppPayload => pl <= 2
  BY <1>1, <1>2, <1>3
<1>6. /\ CborLen(m) \in Nat
      /\ 9 + n <= CborLen(m)
      /\ n <= MaxAppPayload => CborLen(m) <= 20 + n
  <2> HIDE DEF sq, ts, el, pl, n
  <2> QED  BY <1>4, <1>5
<1> QED  BY <1>6

\* A message is framed exactly when its payload is within the limit.
LEMMA FramedWithinLimit ==
    ASSUME NEW m \in Message
    PROVE  OutgoingFrame(m) =
               IF m.len <= MaxAppPayload THEN FrameOf(m) ELSE None
<1>1. m.len \in Nat
  BY FieldsAssumption DEF FieldsAssumption, Message
<1>2. m.len <= MaxAppPayload => EncodingFits(m)
  BY <1>1, EnvelopeOverhead DEF EncodingFits, MaxAppPayload, PAYLOAD_LENGTH
<1> QED  BY <1>2 DEF OutgoingFrame

\* A frame is bytes, hence not None, and no longer than the radio's.
LEMMA FrameIsBytes ==
    ASSUME NEW m \in Message, m.len <= MaxAppPayload
    PROVE  /\ FrameOf(m) \in Bytes
           /\ FrameOf(m) # None
           /\ FrameOf(m).len <= PAYLOAD_LENGTH
<1>1. FrameOf(m) \in Bytes
  BY EnvelopeOverhead DEF FrameOf, Bytes
<1>2. FrameOf(m) # None
  BY <1>1, FieldsAssumption DEF FieldsAssumption
<1>3. FrameOf(m).len <= PAYLOAD_LENGTH
  <2>1. m.len \in Nat
    BY FieldsAssumption DEF FieldsAssumption, Message
  <2> QED  BY <2>1, EnvelopeOverhead DEF FrameOf, MaxAppPayload, PAYLOAD_LENGTH
<1> QED  BY <1>1, <1>2, <1>3

\* Decoding a frame yields the message it was made from.
LEMMA DecodesFrame ==
    ASSUME NEW m \in Message
    PROVE  DecodeEnvelope(FrameOf(m)) = m
<1>1. /\ CborLen(m) \in Nat
      /\ CborLen(m) >= 9
  <2>1. m.len \in Nat
    BY FieldsAssumption DEF FieldsAssumption, Message
  <2> QED  BY <2>1, EnvelopeOverhead
<1>2. m # None
  BY FieldsAssumption DEF FieldsAssumption
<1> DEFINE b == FrameOf(m)
<1>3. b.len = CborLen(m) + 2 /\ b.declared = CborLen(m) /\ b.content = m
  BY DEF FrameOf
<1>4. ~ (b.len < 2 \/ b.declared = 0 \/ DeclaredTooLong(b))
  BY <1>1, <1>3 DEF DeclaredTooLong
<1>5. DecodeDeclared(b) = m
  <2> HIDE DEF b
  <2>1. ~ (2 + b.declared > b.len) /\ CborLen(b.content) <= b.declared
    BY <1>1, <1>3
  <2> QED  BY <2>1, <1>2, <1>3 DEF DecodeDeclared
<1> QED  BY <1>4, <1>5 DEF DecodeEnvelope

\* From any bytes, what is decoded is an envelope received whole, or nothing.
LEMMA DecodesInside ==
    ASSUME NEW b \in Bytes
    PROVE  /\ DecodeEnvelope(b) # Panic
           /\ DecodeEnvelope(b) # None =>
                  CborLen(DecodeEnvelope(b)) + 2 <= b.len
<1>1. /\ b.len \in Nat /\ b.declared \in Nat
      /\ b.content \in Message \cup {None}
  BY DEF Bytes
<1>2. CASE b.len < 2 \/ b.declared = 0 \/ DeclaredTooLong(b)
  BY <1>2, FieldsAssumption DEF FieldsAssumption, DecodeEnvelope
<1>3. CASE ~ (b.len < 2 \/ b.declared = 0 \/ DeclaredTooLong(b))
  <2>1. b.declared + 2 <= b.len
    BY <1>1, <1>3 DEF DeclaredTooLong
  <2>2. DecodeEnvelope(b) =
            IF b.content # None /\ CborLen(b.content) <= b.declared
            THEN b.content ELSE None
    BY <1>1, <1>3, <2>1 DEF DecodeEnvelope, DecodeDeclared
  <2>3. CASE b.content # None /\ CborLen(b.content) <= b.declared
    <3>1. DecodeEnvelope(b) = b.content /\ b.content \in Message
      BY <1>1, <2>2, <2>3
    <3>2. CborLen(b.content) \in Nat
      BY <3>1, EnvelopeOverhead
    <3>3. CborLen(b.content) + 2 <= b.len
      BY <1>1, <2>1, <2>3, <3>2
    <3> QED  BY <3>1, <3>3, FieldsAssumption DEF FieldsAssumption
  <2>4. CASE ~ (b.content # None /\ CborLen(b.content) <= b.declared)
    BY <2>2, <2>4, FieldsAssumption DEF FieldsAssumption
  <2> QED  BY <2>3, <2>4
<1> QED  BY <1>2, <1>3

----------------------------------------------------------------------------
\* FrameInv holds throughout: every buffer decoded is bytes.
THEOREM FrameInvariant == Spec => []FrameInv
<1>1. Init => FrameInv
  BY DEF Init, FrameInv
<1>2. FrameInv /\ [Next]_vars => FrameInv'
  <2> SUFFICES ASSUME FrameInv, [Next]_vars
               PROVE  FrameInv'
    OBVIOUS
  <2>1. ASSUME NEW m \in Message, Send(m)
        PROVE  FrameInv'
    <3>1. m # None
      BY FieldsAssumption DEF FieldsAssumption
    <3> QED  BY <2>1, <3>1 DEF Send, FrameInv
  <2>2. ASSUME NEW b \in Bytes, Receive(b)
        PROVE  FrameInv'
    <3>1. b # None
      BY FieldsAssumption DEF FieldsAssumption
    <3> QED  BY <2>2, <3>1 DEF Receive, FrameInv
  <2>3. CASE ReceiveFrame
    <3>1. message \in Message /\ frame = OutgoingFrame(message)
      BY <2>3 DEF ReceiveFrame, FrameInv
    <3>2. message.len <= MaxAppPayload /\ frame = FrameOf(message)
      BY <2>3, <3>1, FramedWithinLimit DEF ReceiveFrame
    <3>3. frame \in Bytes
      BY <3>1, <3>2, FrameIsBytes
    <3> QED  BY <2>2, <2>3, <3>3 DEF ReceiveFrame
  <2>4. CASE ReceiveOther
    <3>1. PICK n \in Lens, d \in DeclaredLens, c \in {None, message} :
              Receive([len |-> n, declared |-> d, content |-> c])
      BY <2>4 DEF ReceiveOther
    <3>2. [len |-> n, declared |-> d, content |-> c] \in Bytes
      <4>1. n \in Nat /\ d \in Nat
        <5>1. n \in 0 .. PAYLOAD_LENGTH /\ d \in U16
          BY FieldsAssumption DEF FieldsAssumption
        <5> QED  BY <5>1, U16Range DEF PAYLOAD_LENGTH
      <4>2. c \in Message \cup {None}
        BY DEF FrameInv
      <4> QED  BY <4>1, <4>2 DEF Bytes
    <3> QED  BY <2>2, <3>1, <3>2
  <2>5. CASE UNCHANGED vars
    BY <2>5 DEF FrameInv, vars
  <2> QED  BY <2>1, <2>3, <2>4, <2>5 DEF Next
<1> QED  BY <1>1, <1>2, PTL DEF Spec

\* MAX_APP_PAYLOAD is sufficient and is what decides, for every value of the
\* envelope's fields.
THEOREM LimitIsSufficient == Spec => []LimitSuffices
<1>1. FrameInv => LimitSuffices
  <2> SUFFICES ASSUME FrameInv, message # None
               PROVE  /\ frame # None <=> message.len <= MaxAppPayload
                      /\ frame # None => frame.len <= PAYLOAD_LENGTH
    BY DEF LimitSuffices
  <2>1. message \in Message /\ frame = OutgoingFrame(message)
    BY DEF FrameInv
  <2>2. CASE message.len <= MaxAppPayload
    BY <2>1, <2>2, FramedWithinLimit, FrameIsBytes
  <2>3. CASE ~ (message.len <= MaxAppPayload)
    BY <2>1, <2>3, FramedWithinLimit
  <2> QED  BY <2>2, <2>3
<1> QED  BY <1>1, FrameInvariant, PTL

\* A frame that arrives is decoded to the message that was sent.
THEOREM FramesRoundTrip == Spec => []RoundTrip
<1>1. FrameInv => RoundTrip
  <2> SUFFICES ASSUME FrameInv, frame # None, received = frame
               PROVE  decoded = message
    BY DEF RoundTrip
  <2>1. message \in Message /\ frame = OutgoingFrame(message)
    BY DEF FrameInv
  <2>2. frame = FrameOf(message)
    BY <2>1, FramedWithinLimit
  <2>3. decoded = DecodeEnvelope(FrameOf(message))
    BY <2>2 DEF FrameInv
  <2> QED  BY <2>1, <2>3, DecodesFrame
<1> QED  BY <1>1, FrameInvariant, PTL

\* Whatever bytes arrive, decode_envelope reads none beyond them.
THEOREM DecodeStaysInside == Spec => []StaysInside
<1>1. FrameInv => StaysInside
  <2> SUFFICES ASSUME FrameInv
               PROVE  StaysInside
    OBVIOUS
  <2>1. CASE received = None
    BY <2>1, FieldsAssumption DEF FieldsAssumption, FrameInv, StaysInside
  <2>2. CASE received # None
    <3>1. received \in Bytes /\ decoded = DecodeEnvelope(received)
      BY <2>2 DEF FrameInv
    <3> QED  BY <3>1, DecodesInside DEF StaysInside
  <2> QED  BY <2>1, <2>2
<1> QED  BY <1>1, FrameInvariant, PTL
=============================================================================
