------------------------- MODULE ResponseTimeProofs -------------------------
(***************************************************************************)
(* The safety of the response-time tester: its rendezvous and its radio.   *)
(***************************************************************************)
EXTENDS ResponseTime, TLAPS

\* Who is at which await holds the radio.
RadioUse ==
    /\ radio = "send" <=> send \in {"transmit", "ack"}
    /\ radio = "receive" <=> receive = "listen"

\* Rendezvous needs to know who has the radio no more than RadioUse needs the
\* rendezvous; together they say who can be at which await.
TesterInv == TypeOK /\ Rendezvous /\ RadioUse

\* A reply underway is in one place; none is underway only if all are empty.
LEMMA UnderwayRange ==
    ASSUME TypeOK
    PROVE  /\ Underway \in Nat
           /\ Underway = 0 => replies = 0 /\ acks = 0 /\ send = "message"
           /\ Underway = 1 =>
                \/ replies = 1 /\ acks = 0 /\ send = "message"
                \/ replies = 0 /\ acks = 1 /\ send = "message"
                \/ replies = 0 /\ acks = 0 /\ send # "message"
BY DEF TypeOK, Underway, Capacity

LEMMA InitTester == Init => TesterInv
<1> SUFFICES ASSUME Init
             PROVE  TesterInv
  OBVIOUS
<1>1. TypeOK
  <2>1. guard \in [Figure -> {None, "receive"}]
    BY DEF Init
  <2>2. answered \in BOOLEAN /\ failed \in BOOLEAN
    BY DEF Init
  <2> QED  BY <2>1, <2>2 DEF Init, TypeOK, Capacity, Figure
<1>2. Rendezvous
  BY DEF Init, Rendezvous, Underway
<1>3. RadioUse
  BY NoneAssumption DEF Init, RadioUse
<1> QED  BY <1>1, <1>2, <1>3 DEF TesterInv

LEMMA TaskSendKeeps == TesterInv /\ TaskSend => TesterInv'
<1> SUFFICES ASSUME TesterInv, TaskSend
             PROVE  TesterInv'
  OBVIOUS
<1> USE NoneAssumption DEF TesterInv
<1>1. CASE TakeReply
  BY <1>1 DEF TakeReply, TypeOK, Rendezvous, Underway, RadioUse, Capacity
<1>2. CASE SendLocks
  BY <1>2 DEF SendLocks, TypeOK, Rendezvous, Underway, RadioUse, Capacity
<1>3. CASE Transmitted
  BY <1>3 DEF Transmitted, TypeOK, Rendezvous, Underway, RadioUse, Capacity
<1>4. CASE TransmitFails
  BY <1>4, UnderwayRange
     DEF TransmitFails, TypeOK, Rendezvous, Underway, RadioUse, Capacity
<1>5. CASE AckSent
  BY <1>5 DEF AckSent, TypeOK, Rendezvous, Underway, RadioUse, Capacity
<1> QED  BY <1>1, <1>2, <1>3, <1>4, <1>5 DEF TaskSend

LEMMA TaskReceiveKeeps == TesterInv /\ TaskReceive => TesterInv'
<1> SUFFICES ASSUME TesterInv, TaskReceive
             PROVE  TesterInv'
  OBVIOUS
<1> USE NoneAssumption DEF TesterInv
<1>1. CASE ReceiveLocks
  BY <1>1 DEF ReceiveLocks, TypeOK, Rendezvous, Underway, RadioUse, Capacity
<1>2. ASSUME NEW next \in {"rssi", "pause", "counter", "lock"},
             StopListening(next)
      PROVE  TesterInv'
  BY <1>2 DEF StopListening, TypeOK, Rendezvous, Underway, RadioUse, Capacity,
              Figure
<1>3. CASE Resume
  BY <1>3 DEF Resume, TypeOK, Rendezvous, Underway, RadioUse, Capacity
<1>4. ASSUME NEW f \in Figure, NEW next \in {"elapsed", "offer"},
             LockFigure(f, next)
      PROVE  TesterInv'
  BY <1>4 DEF LockFigure, TypeOK, Rendezvous, Underway, RadioUse, Capacity,
              Figure
<1>5. CASE OfferReply
  BY <1>5 DEF OfferReply, TypeOK, Rendezvous, Underway, RadioUse, Capacity
<1>6. CASE Acknowledged
  BY <1>6, UnderwayRange
     DEF Acknowledged, TypeOK, Rendezvous, Underway, RadioUse, Capacity
<1>7. CASE Hears \/ HearsBadly \/ TimesOut
  BY <1>2, <1>7 DEF Hears, HearsBadly, TimesOut
<1>8. CASE \/ LockFigure("rssi", "elapsed")
           \/ LockFigure("elapsed", "offer")
           \/ LockFigure("counter", "offer")
  BY <1>4, <1>8 DEF Figure
<1> QED  BY <1>1, <1>3, <1>5, <1>6, <1>7, <1>8 DEF TaskReceive

LEMMA MainKeeps == TesterInv /\ Main => TesterInv'
<1> SUFFICES ASSUME TesterInv, Main
             PROVE  TesterInv'
  OBVIOUS
<1> USE DEF TesterInv
<1>1. ASSUME NEW f \in Figure, NEW next \in Figure \cup {"timer"},
             Show(f, next)
      PROVE  TesterInv'
  BY <1>1 DEF Show, TypeOK, Rendezvous, Underway, RadioUse
<1>2. CASE NextFrame
  BY <1>2 DEF NextFrame, TypeOK, Rendezvous, Underway, RadioUse, Figure
<1> QED  BY <1>1, <1>2 DEF Main, Figure

----------------------------------------------------------------------------
\* The invariant of the tester, whatever is heard and whatever fails.
THEOREM TesterInvariant == Spec => []TesterInv
<1>1. TesterInv /\ [Next]_vars => TesterInv'
  <2> SUFFICES ASSUME TesterInv, [Next]_vars
               PROVE  TesterInv'
    OBVIOUS
  <2>1. CASE UNCHANGED vars
    BY <2>1 DEF vars, TesterInv, TypeOK, Rendezvous, Underway, RadioUse
  <2> QED  BY <2>1, TaskSendKeeps, TaskReceiveKeeps, MainKeeps DEF Next
<1> QED  BY <1>1, InitTester, PTL DEF Spec

\* main never keeps a guard across an await, and the channels keep to their one
\* slot.
THEOREM TesterTypes == Spec => []TypeOK
<1>1. TesterInv => TypeOK
  BY DEF TesterInv
<1> QED  BY <1>1, TesterInvariant, PTL

\* Every reply is matched by its own acknowledgement; task_receive waits in
\* vain exactly after a failed transmission.
THEOREM RepliesAreMatched == Spec => []Rendezvous
<1>1. TesterInv => Rendezvous
  BY DEF TesterInv
<1> QED  BY <1>1, TesterInvariant, PTL

\* A task that wants the radio gets it at once.
THEOREM RadioIsFree == Spec => []RadioUncontended
<1>1. TesterInv => RadioUncontended
  <2> SUFFICES ASSUME TesterInv, send = "lock" \/ receive = "lock"
               PROVE  radio = None
    BY DEF RadioUncontended
  <2>1. TypeOK /\ Rendezvous /\ RadioUse
    BY DEF TesterInv
  <2>2. CASE send = "lock"
    <3>1. Underway # 0
      BY <2>1, <2>2, UnderwayRange
    <3>2. receive = "await"
      BY <2>1, <3>1 DEF Rendezvous
    <3> QED  BY <2>1, <2>2, <3>2 DEF RadioUse, TypeOK
  <2>3. CASE receive = "lock"
    <3>1. send = "message"
      BY <2>1, <2>3, UnderwayRange DEF Rendezvous
    <3> QED  BY <2>1, <2>3, <3>1 DEF RadioUse, TypeOK
  <2> QED  BY <2>2, <2>3
<1> QED  BY <1>1, TesterInvariant, PTL
=============================================================================
