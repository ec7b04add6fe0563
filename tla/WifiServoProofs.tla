-------------------------- MODULE WifiServoProofs --------------------------
(***************************************************************************)
(* For every resolution of the PWM driver, and every bound on commands:    *)
(* set_angle computes without overflow or truncation and stays between the *)
(* pulses of 0 and 180 degrees, and so does the channel of the servo in    *)
(* wifi.rs; the tasks keep to the types of their states; and a burst of    *)
(* six commands is accepted before one is dropped.                         *)
(***************************************************************************)
EXTENDS WifiServo, TLAPS

\* 2^16 is a number.
LEMMA TwoTo16Positive == TwoTo16 \in Nat /\ TwoTo16 > 0
  BY DEF TwoTo16

\* 2.5 % and 12.5 % of a resolution.
LEMMA Parts ==
    ASSUME NEW n \in Nat
    PROVE  /\ (25 * n) \div 1000 \in Nat
           /\ (125 * n) \div 1000 \in Nat
           /\ (25 * n) \div 1000 <= (125 * n) \div 1000
           /\ (125 * n) \div 1000 <= n
<1>1. (25 * n) \div 1000 \in Nat /\ (125 * n) \div 1000 \in Nat
  OBVIOUS
<1>2. (25 * n) \div 1000 <= (125 * n) \div 1000
  OBVIOUS
<1>3. (125 * n) \div 1000 <= n
  OBVIOUS
<1> QED
  BY <1>1, <1>2, <1>3

\* The range of duty cycles between 0 and 180 degrees.
LEMMA DutyBounds ==
    /\ MinDuty \in Nat
    /\ MaxDuty \in Nat
    /\ MinDuty <= MaxDuty
    /\ MaxDuty < TwoTo16
<1>1. MaxDutyCycle \in Nat /\ MaxDutyCycle < TwoTo16
  BY DutyAssumption, TwoTo16Positive DEF DutyAssumption
<1>2. /\ MinDuty \in Nat /\ MaxDuty \in Nat
      /\ MinDuty <= MaxDuty /\ MaxDuty <= MaxDutyCycle
  BY <1>1, Parts DEF MinDuty, MaxDuty
<1> QED
  BY <1>1, <1>2, TwoTo16Positive

\* A number below the modulus is its own remainder.
LEMMA SmallRemainder ==
    ASSUME NEW n \in Nat, NEW k \in Nat, n < k
    PROVE  n % k = n
  OBVIOUS

\* What an angle adds to the duty cycle of 0 degrees.
LEMMA OffsetBounds ==
    ASSUME NEW deg \in 0 .. 180, NEW gap \in Nat
    PROVE  /\ deg * gap \in 0 .. 180 * gap
           /\ (deg * gap) \div 180 \in 0 .. gap
<1>1. deg * gap \in Nat
  OBVIOUS
<1>2. 180 * gap = deg * gap + (180 - deg) * gap
  OBVIOUS
<1>3. (180 - deg) * gap \in Nat
  OBVIOUS
<1>4. deg * gap \in 0 .. 180 * gap
  <2>1. \A a, b \in Nat : a \in 0 .. a + b
    OBVIOUS
  <2> QED
    BY <1>1, <1>2, <1>3, <2>1
<1>5. \A n \in 0 .. 180 * gap : n \div 180 \in 0 .. gap
  OBVIOUS
<1> QED
  BY <1>4, <1>5

\* set_angle stays within its integers: no product reaches 2^32, and the cast to
\* u16 loses nothing.
THEOREM SetAngleIsExact ==
    \A deg \in 0 .. 180 :
        /\ 125 * MaxDutyCycle < TwoTo16 * TwoTo16
        /\ deg * (MaxDuty - MinDuty) < TwoTo16 * TwoTo16
        /\ Duty(deg) = MinDuty + (deg * (MaxDuty - MinDuty)) \div 180
        /\ Duty(deg) \in MinDuty .. MaxDuty
<1> SUFFICES ASSUME NEW deg \in 0 .. 180
             PROVE  /\ 125 * MaxDutyCycle < TwoTo16 * TwoTo16
                    /\ deg * (MaxDuty - MinDuty) < TwoTo16 * TwoTo16
                    /\ Duty(deg) = MinDuty + (deg * (MaxDuty - MinDuty)) \div 180
                    /\ Duty(deg) \in MinDuty .. MaxDuty
  OBVIOUS
<1> DEFINE gap == MaxDuty - MinDuty
           offset == (deg * gap) \div 180
<1>1. gap \in Nat /\ gap < TwoTo16
  BY DutyBounds DEF TwoTo16
<1>2. deg * gap \in 0 .. 180 * gap /\ offset \in 0 .. gap
  BY <1>1, OffsetBounds
<1>3. 125 * MaxDutyCycle < TwoTo16 * TwoTo16
  BY DutyAssumption DEF DutyAssumption, TwoTo16
<1>4. deg * gap < TwoTo16 * TwoTo16
  <2> HIDE DEF gap
  <2> DEFINE product == deg * gap
  <2>1. product \in 0 .. 180 * gap
    BY <1>2
  <2> HIDE DEF product
  <2>2. product < TwoTo16 * TwoTo16
    BY <1>1, <2>1 DEF TwoTo16
  <2> QED
    BY <2>2 DEF product
<1>5. MinDuty + offset \in MinDuty .. MaxDuty
  <2> HIDE DEF offset
  <2> QED
    BY <1>2, DutyBounds
<1>6. Duty(deg) = MinDuty + offset
  <2>1. Duty(deg) = U16(MinDuty + offset)
    BY DEF Duty
  <2> HIDE DEF offset
  <2>2. MinDuty + offset \in Nat /\ MinDuty + offset < TwoTo16
    BY <1>5, DutyBounds, TwoTo16Positive
  <2> QED
    BY <2>1, <2>2, SmallRemainder, TwoTo16Positive DEF U16
<1> QED
  BY <1>3, <1>4, <1>5, <1>6

\* The duty cycle of the servo's channel in wifi.rs is always that of an angle
\* from 0 to 180 degrees.
THEOREM PulsesInRange == Spec => []PulseInRange
<1>1. OpenDuty \in MinDuty .. MaxDuty /\ ClosedDuty \in MinDuty .. MaxDuty
  BY SetAngleIsExact DEF OpenDuty, ClosedDuty
<1>2. Init => PulseInRange
  BY <1>1 DEF Init, PulseInRange
<1>3. PulseInRange /\ [Next]_vars => PulseInRange'
  <2> SUFFICES ASSUME PulseInRange, [Next]_vars
               PROVE  duty' = duty \/ duty' = OpenDuty \/ duty' = ClosedDuty
    BY <1>1 DEF PulseInRange, MinDuty, MaxDuty
  <2>1. CASE PingTask
    BY <2>1 DEF PingTask, PingAcquires, PingSent, PingWakes, servoVars
  <2>2. CASE WatchTask
    BY <2>2 DEF WatchTask, WatchAcquires, WatchPinged, WatchCommand, WatchNothing,
                WatchWakes, servoVars
  <2>3. CASE ServoTask
    BY <2>3 DEF ServoTask, ServoOpens, ServoFindsNothing, ServoCloses
  <2>4. CASE Tick
    BY <2>4 DEF Tick
  <2>5. CASE UNCHANGED vars
    BY <2>5 DEF vars, servoVars
  <2> QED
    BY <2>1, <2>2, <2>3, <2>4, <2>5 DEF Next
<1> QED
  BY <1>2, <1>3, PTL DEF Spec

\* The types of the states of the three tasks; at most four commands are queued,
\* and the mutex is held by the task that is in its critical section.
THEOREM TypeCorrect == Spec => []TypeOK
<1>1. Init => TypeOK
  BY CommandsAssumption DEF CommandsAssumption, Init, TypeOK, WatchTicks, HoldTicks, ChannelCap
<1>2. TypeOK /\ [Next]_vars => TypeOK'
  <2> SUFFICES ASSUME TypeOK, [Next]_vars
               PROVE  TypeOK'
    OBVIOUS
  <2> USE CommandsAssumption DEF CommandsAssumption, TypeOK, WatchTicks, HoldTicks, ChannelCap
  <2>1. CASE PingAcquires
    BY <2>1 DEF PingAcquires, servoVars, history
  <2>2. CASE PingSent
    BY <2>2 DEF PingSent, servoVars, history
  <2>3. CASE PingWakes
    BY <2>3 DEF PingWakes, servoVars, history
  <2>4. CASE WatchAcquires
    BY <2>4 DEF WatchAcquires, servoVars, history
  <2>5. CASE WatchPinged
    BY <2>5 DEF WatchPinged, servoVars, history
  <2>6. CASE WatchCommand
    BY <2>6 DEF WatchCommand, TrySend, Pause, servoVars
  <2>7. CASE WatchNothing
    BY <2>7 DEF WatchNothing, Pause, servoVars, history
  <2>8. CASE WatchWakes
    BY <2>8 DEF WatchWakes, servoVars, history
  <2>9. CASE ServoOpens
    BY <2>9 DEF ServoOpens, mqttVars
  <2>10. CASE ServoFindsNothing
    BY <2>10 DEF ServoFindsNothing, mqttVars
  <2>11. CASE ServoCloses
    BY <2>11 DEF ServoCloses, mqttVars, history
  <2>12. CASE Tick
    BY <2>12 DEF Tick, history
  <2>13. CASE UNCHANGED vars
    BY <2>13 DEF vars, mqttVars, servoVars, history
  <2> QED
    BY <2>1, <2>2, <2>3, <2>4, <2>5, <2>6, <2>7, <2>8, <2>9, <2>10, <2>11, <2>12, <2>13
       DEF Next, PingTask, WatchTask, ServoTask
<1> QED
  BY <1>1, <1>2, PTL DEF Spec

----------------------------------------------------------------------------
\* The ticks before the watcher can send a command again: it is at least one
\* timer away while it sleeps, and may be about to send otherwise.
WatcherWaits == IF watch = "sleep" THEN watchDue ELSE 0

\* The ticks before servo_task must look into the channel again: in a hold, the
\* rest of it and the pause after it.
ServoWaits == IF servo = "hold" THEN servoDue + 1 ELSE servoDue

\* Since servo_task last found the channel empty, the servo has been opened this
\* often: for each command accepted since then that is no longer queued.
OpenedSinceIdle == accepted - idleAt - queued

\* A command costs the watcher WatchTicks.  Before the servo has been opened since
\* it was idle, one tick has passed at most, and until it must be opened a second
\* time one hold and one pause more: what is queued has been paid for in full.
RoomLeft ==
    /\ idleAt \in Nat
    /\ OpenedSinceIdle >= 0
    /\ servo = "hold" => OpenedSinceIdle >= 1
    /\ OpenedSinceIdle = 0 =>
           WatchTicks * queued + ServoWaits <= WatcherWaits + 1
    /\ OpenedSinceIdle = 1 =>
           WatchTicks * queued + ServoWaits <= WatcherWaits + HoldTicks

\* A command that is dropped finds four queued, and by RoomLeft the servo opened
\* twice since it was idle: six have been accepted by then.  This is the behaviour
\* of try_send in watch_mqtt_messages against the 3 s of servo_task.
THEOREM BurstsAreAccepted == Spec => BurstAccepted
<1> USE DEF WatchTicks, HoldTicks, ChannelCap
<1>1. Init => RoomLeft
  BY DEF Init, RoomLeft, OpenedSinceIdle, WatcherWaits, ServoWaits
<1>2. TypeOK /\ RoomLeft /\ [Next]_vars => RoomLeft'
  <2> SUFFICES ASSUME TypeOK, RoomLeft, [Next]_vars
               PROVE  RoomLeft'
    OBVIOUS
  <2> USE DEF TypeOK, RoomLeft, OpenedSinceIdle, WatcherWaits, ServoWaits
  <2>1. CASE PingTask
    BY <2>1 DEF PingTask, PingAcquires, PingSent, PingWakes, servoVars, history
  <2>2. CASE WatchAcquires
    BY <2>2 DEF WatchAcquires, servoVars, history
  <2>3. CASE WatchPinged
    BY <2>3 DEF WatchPinged, servoVars, history
  <2>4. CASE WatchCommand
    <3>1. watch = "recv" /\ watch' = "sleep" /\ watchDue' = 2
      BY <2>4 DEF WatchCommand, Pause
    <3>2. UNCHANGED <<servo, servoDue, idleAt>>
      BY <2>4 DEF WatchCommand, servoVars
    <3>3. CASE queued' = queued + 1 /\ accepted' = accepted + 1
      BY <3>1, <3>2, <3>3
    <3>4. CASE UNCHANGED <<queued, accepted>>
      BY <3>1, <3>2, <3>4
    <3> QED
      BY <2>4, <3>3, <3>4 DEF WatchCommand, TrySend
  <2>5. CASE WatchNothing
    BY <2>5 DEF WatchNothing, Pause, servoVars, history
  <2>6. CASE WatchWakes
    BY <2>6 DEF WatchWakes, servoVars, history
  <2>7. CASE ServoOpens
    BY <2>7 DEF ServoOpens, mqttVars
  <2>8. CASE ServoFindsNothing
    BY <2>8 DEF ServoFindsNothing, mqttVars
  <2>9. CASE ServoCloses
    BY <2>9 DEF ServoCloses, mqttVars, history
  <2>10. CASE Tick
    BY <2>10 DEF Tick, history
  <2>11. CASE UNCHANGED vars
    BY <2>11 DEF vars, mqttVars, servoVars, history
  <2> QED
    BY <2>1, <2>2, <2>3, <2>4, <2>5, <2>6, <2>7, <2>8, <2>9, <2>10, <2>11
       DEF Next, WatchTask, ServoTask
<1>3. TypeOK /\ RoomLeft /\ [Next]_vars
          => [lost' > lost => accepted - idleAt >= ChannelCap + 2]_vars
  <2> SUFFICES ASSUME TypeOK, RoomLeft, Next, lost' > lost
               PROVE  accepted - idleAt >= ChannelCap + 2
    OBVIOUS
  <2>1. ~PingTask
    BY DEF PingTask, PingAcquires, PingSent, PingWakes, history, TypeOK
  <2>2. ~ServoTask
    BY DEF ServoTask, ServoOpens, ServoFindsNothing, ServoCloses, history, TypeOK
  <2>3. ~Tick
    BY DEF Tick, history, TypeOK
  <2>4. WatchCommand
    BY <2>1, <2>2, <2>3 DEF Next, WatchTask, WatchAcquires, WatchPinged, WatchNothing,
                            WatchWakes, history, TypeOK
  <2>5. queued = 4 /\ watch = "recv"
    BY <2>4 DEF WatchCommand, TrySend, TypeOK
  <2>6. OpenedSinceIdle \in Nat /\ OpenedSinceIdle # 0 /\ OpenedSinceIdle # 1
    BY <2>5 DEF TypeOK, RoomLeft, OpenedSinceIdle, WatcherWaits, ServoWaits
  <2> QED
    BY <2>5, <2>6 DEF TypeOK, RoomLeft, OpenedSinceIdle
<1> QED
  BY <1>1, <1>2, <1>3, TypeCorrect, PTL DEF Spec, BurstAccepted
=============================================================================
