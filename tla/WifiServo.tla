----------------------------- MODULE WifiServo -----------------------------
(***************************************************************************)
(* The tasks of bin/wifi.rs that share the MqttController and the servo    *)
(* channel: send_ping_task, watch_mqtt_messages and servo_task.  As in     *)
(* LoraTask an action is one poll, and a control state names the await:    *)
(*                                                                         *)
(*   ping    lock    waiting for the mutex       send    send_ping         *)
(*           sleep   the 30 s timer                                        *)
(*   watch   lock    waiting for the mutex                                 *)
(*           ping    the ping at the head of receive_message               *)
(*           recv    the receive itself, under its 10 s timeout            *)
(*           sleep   the 1 s timer, the mutex still held                   *)
(*   servo   pause   the 10 ms timer             hold    the 3 s timer     *)
(*                                                                         *)
(* Time is counted in half seconds where it decides what the channel       *)
(* holds: `Tick` lets half a second pass unless a timer is due.  A timer   *)
(* of 10 ms ends before or after the next tick, never two ticks later.     *)
(* Operations on the socket take as long as they like.                     *)
(*                                                                         *)
(* A command is an integer in 0 .. 180; servo_task reads it into a         *)
(* variable it never uses, so the channel is modelled by its length.       *)
(* MaxCommands bounds the commands that arrive.                            *)
(***************************************************************************)
EXTENDS ServoMotor

CONSTANT MaxCommands

ASSUME CommandsAssumption == MaxCommands \in Nat

ChannelCap == 4
HoldTicks == 6
WatchTicks == 2

VARIABLES
    mutex,      \* who holds the MqttController: "free", "ping", "watch"
    ping,       \* control state of send_ping_task
    watch,      \* control state of watch_mqtt_messages
    watchDue,   \* ticks until its 1 s timer expires
    servo,      \* control state of servo_task
    servoDue,   \* ticks until its timer must have expired
    duty,       \* the duty cycle of the servo's channel
    queued,     \* length of SERVO_CHANNEL
    accepted,   \* commands that try_send has put into the channel
    lost,       \* commands that found it full
    opened,     \* times the servo has been opened
    idleAt      \* `accepted` when servo_task last found the channel empty

mqttVars == <<mutex, ping, watch, watchDue>>
servoVars == <<servo, servoDue, duty>>
history == <<accepted, lost, opened, idleAt>>
vars == <<mqttVars, servoVars, queued, history>>

TypeOK ==
    /\ mutex \in {"free", "ping", "watch"}
    /\ ping \in {"lock", "send", "sleep"}
    /\ watch \in {"lock", "ping", "recv", "sleep"}
    /\ watchDue \in 0 .. WatchTicks
    /\ servo \in {"pause", "hold"}
    /\ servoDue \in 0 .. HoldTicks
    /\ queued \in 0 .. ChannelCap
    /\ accepted \in Nat /\ lost \in Nat /\ accepted + lost <= MaxCommands
    /\ (mutex = "ping") = (ping = "send")
    /\ (mutex = "watch") = (watch # "lock")

\* servo_task has closed the servo and found nothing to do; the other two are
\* spawned once MQTT is connected.
Init ==
    /\ mutex = "free"
    /\ ping = "lock"
    /\ watch = "lock"
    /\ watchDue = 0
    /\ servo = "pause"
    /\ servoDue = 1
    /\ duty = ClosedDuty
    /\ queued = 0
    /\ accepted = 0
    /\ lost = 0
    /\ opened = 0
    /\ idleAt = 0

----------------------------------------------------------------------------
\* send_ping_task
PingAcquires ==
    /\ ping = "lock"
    /\ mutex = "free"
    /\ mutex' = "ping"
    /\ ping' = "send"
    /\ UNCHANGED <<watch, watchDue, servoVars, queued, history>>

\* Well or badly: the guard is dropped before the timer starts.
PingSent ==
    /\ ping = "send"
    /\ mutex' = "free"
    /\ ping' = "sleep"
    /\ UNCHANGED <<watch, watchDue, servoVars, queued, history>>

\* The mutex became free for a waiting watcher when this sleep began, and 30 s
\* are longer than the executor takes to poll a woken task.
PingWakes ==
    /\ ping = "sleep"
    /\ ~(watch = "lock" /\ mutex = "free")
    /\ \/ mutex = "free" /\ mutex' = "ping" /\ ping' = "send"
       \/ mutex # "free" /\ ping' = "lock" /\ UNCHANGED mutex
    /\ UNCHANGED <<watch, watchDue, servoVars, queued, history>>

PingTask == PingAcquires \/ PingSent \/ PingWakes

----------------------------------------------------------------------------
\* watch_mqtt_messages
WatchAcquires ==
    /\ watch = "lock"
    /\ mutex = "free"
    /\ mutex' = "watch"
    /\ watch' = "ping"
    /\ UNCHANGED <<ping, watchDue, servoVars, queued, history>>

\* receive_message ignores the outcome of its own ping.
WatchPinged ==
    /\ watch = "ping"
    /\ watch' = "recv"
    /\ UNCHANGED <<mutex, ping, watchDue, servoVars, queued, history>>

\* The guard dropped before the timer.
PauseReleasing ==
    /\ watch' = "sleep"
    /\ watchDue' = WatchTicks
    /\ mutex' = "free"

\* No timer at the end of the loop.
PauseNot ==
    /\ watch' = "sleep"
    /\ watchDue' = 0
    /\ UNCHANGED mutex

Pause ==
    /\ watch' = "sleep"
    /\ watchDue' = WatchTicks
    /\ UNCHANGED mutex

\* A send that does not look for room.
TrySendUnchecked ==
    /\ queued' = queued + 1
    /\ accepted' = accepted + 1
    /\ UNCHANGED lost

TrySend ==
    \/ /\ queued < ChannelCap
       /\ queued' = queued + 1
       /\ accepted' = accepted + 1
       /\ UNCHANGED lost
    \/ /\ queued = ChannelCap
       /\ lost' = lost + 1
       /\ UNCHANGED <<queued, accepted>>

WatchCommand ==
    /\ watch = "recv"
    /\ accepted + lost < MaxCommands
    /\ TrySend
    /\ Pause
    /\ UNCHANGED <<ping, servoVars, opened, idleAt>>

\* A timeout, an error, or a payload that is not an integer.
WatchNothing ==
    /\ watch = "recv"
    /\ Pause
    /\ UNCHANGED <<ping, servoVars, queued, history>>

\* A receive_message that relies on send_ping_task.
WatchWakesSilent ==
    /\ watch = "sleep"
    /\ watchDue = 0
    /\ watch' = "recv"
    /\ UNCHANGED <<mutex, ping, watchDue, servoVars, queued, history>>

\* The loop body ends, its guard is dropped, and the next iteration locks in the
\* same poll: the mutex is free for nobody else.
WatchWakes ==
    /\ watch = "sleep"
    /\ watchDue = 0
    /\ watch' = "ping"
    /\ UNCHANGED <<mutex, ping, watchDue, servoVars, queued, history>>

WatchTask ==
    \/ WatchAcquires
    \/ WatchPinged
    \/ WatchCommand
    \/ WatchNothing
    \/ WatchWakes

----------------------------------------------------------------------------
\* servo_task
\* All that is queued taken for one command.
ServoDrains ==
    /\ servo = "pause"
    /\ queued > 0
    /\ queued' = 0
    /\ duty' = OpenDuty
    /\ servo' = "hold"
    /\ servoDue' = HoldTicks
    /\ opened' = opened + 1
    /\ UNCHANGED <<mqttVars, accepted, lost, idleAt>>

ServoOpens ==
    /\ servo = "pause"
    /\ queued > 0
    /\ queued' = queued - 1
    /\ duty' = OpenDuty
    /\ servo' = "hold"
    /\ servoDue' = HoldTicks
    /\ opened' = opened + 1
    /\ UNCHANGED <<mqttVars, accepted, lost, idleAt>>

ServoFindsNothing ==
    /\ servo = "pause"
    /\ queued = 0
    /\ servoDue' = 1
    /\ idleAt' = accepted
    /\ UNCHANGED <<mqttVars, servo, duty, queued, accepted, lost, opened>>

\* The servo left as it is when the 3 s are over.
ServoStays ==
    /\ servo = "hold"
    /\ servoDue = 0
    /\ servo' = "pause"
    /\ servoDue' = 1
    /\ UNCHANGED <<mqttVars, duty, queued, history>>

ServoCloses ==
    /\ servo = "hold"
    /\ servoDue = 0
    /\ duty' = ClosedDuty
    /\ servo' = "pause"
    /\ servoDue' = 1
    /\ UNCHANGED <<mqttVars, queued, history>>

ServoTask == ServoOpens \/ ServoFindsNothing \/ ServoCloses

----------------------------------------------------------------------------
Tick ==
    /\ watch = "sleep" => watchDue > 0
    /\ servoDue > 0
    /\ watchDue' = IF watch = "sleep" THEN watchDue - 1 ELSE watchDue
    /\ servoDue' = servoDue - 1
    /\ UNCHANGED <<mutex, ping, watch, servo, duty, queued, history>>

Next == PingTask \/ WatchTask \/ ServoTask \/ Tick

\* Every await ends: timers expire, and the socket has a timeout of its own.
Spec ==
    /\ Init /\ [][Next]_vars
    /\ WF_vars(PingTask) /\ WF_vars(WatchTask) /\ WF_vars(ServoTask)
    /\ WF_vars(Tick)

----------------------------------------------------------------------------
\* The servo gets pulses between those of 0 and 180 degrees, 0.5 ms and 2.5 ms
\* of the 20 ms period: no overflow, no truncation on the way to the channel.
PulseInRange == duty \in MinDuty .. MaxDuty

\* try_send may find the channel full, but it takes a burst: since servo_task was
\* last idle, six commands have been accepted before one is dropped, although
\* commands can come three times as fast as the servo obeys them.
BurstAccepted ==
    [][lost' > lost => accepted - idleAt >= ChannelCap + 2]_vars

\* A command that is accepted opens the servo, once for each command.
CommandsObeyed ==
    \A n \in 1 .. MaxCommands : accepted >= n ~> opened >= n

\* The servo is never left open.
ServoIsClosedAgain == duty = OpenDuty ~> duty = ClosedDuty

\* A ping of the broker is attempted again and again, well or badly, by one task or
\* the other...
KeepAlive == []<>(watch = "ping" \/ ping = "send")

\* ... but not from send_ping_task: once the watcher has the mutex it takes it
\* again before anybody else is polled.
PingStarved == <>[](ping = "lock")
=============================================================================
