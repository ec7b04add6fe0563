---------------------------- MODULE ResponseTime ----------------------------
(***************************************************************************)
(* The response-time tester, bin/lora_response_time.rs: task_receive       *)
(* listens and decides on replies, task_send transmits them, main shows    *)
(* the figures.  task_receive hands a reply over through a channel of one  *)
(* slot and waits for task_send's acknowledgement in another; meanwhile it *)
(* keeps the guards of the figures it has updated.                         *)
(*                                                                         *)
(* One action per await: what runs from the await named by the variable to *)
(* the next await, whether or not that one suspends the task.  The         *)
(* cooperative executor has fewer interleavings than these.  Envelopes,    *)
(* figures and times are left out; of the loop's memory only whether a     *)
(* reply has been sent before decides anything.                            *)
(***************************************************************************)
EXTENDS Naturals

CONSTANT None  \* nobody holds the mutex

ASSUME NoneAssumption == None \notin {"send", "receive"}

Figure == {"elapsed", "counter", "rssi"}

VARIABLES
    replies,   \* messages in LORA_CHANNEL
    acks,      \* messages in SENT_ACK_CHANNEL
    radio,     \* the holder of LORA's mutex
    guard,     \* the holders of ELAPSED_TIME, PACKAGE_LOST_COUNTER, CURRENT_RSSI
    send,      \* the await at which task_send is
    receive,   \* the await at which task_receive is
    display,   \* the await at which main's loop is
    answered,  \* last_response_at.is_some()
    failed     \* history: a reply could not be transmitted

vars == <<replies, acks, radio, guard, send, receive, display, answered, failed>>

\* The channels have one slot each.
Capacity == 1

----------------------------------------------------------------------------
\* LoRaFactory's failures are panics: the tasks are spawned or nothing runs.
Init ==
    /\ replies = 0 /\ acks = 0
    /\ radio = None
    /\ guard = [f \in Figure |-> None]
    /\ send = "message"
    /\ receive = "lock"
    /\ display = "elapsed"
    /\ answered = FALSE
    /\ failed = FALSE

----------------------------------------------------------------------------
\* task_send

TakeReply ==
    /\ send = "message" /\ replies > 0
    /\ replies' = replies - 1
    /\ send' = "lock"
    /\ UNCHANGED <<acks, radio, guard, receive, display, answered, failed>>

SendLocks ==
    /\ send = "lock" /\ radio = None
    /\ radio' = "send"
    /\ send' = "transmit"
    /\ UNCHANGED <<replies, acks, guard, receive, display, answered, failed>>

Transmitted ==
    /\ send = "transmit"
    /\ send' = "ack"
    /\ UNCHANGED <<replies, acks, radio, guard, receive, display, answered, failed>>

\* The error is logged, and nobody is told.
TransmitFails ==
    /\ send = "transmit"
    /\ failed' = TRUE
    /\ radio' = None
    /\ send' = "message"
    /\ UNCHANGED <<replies, acks, guard, receive, display, answered>>

\* task_send reports nothing after a transmission either.
AckForgotten ==
    /\ send = "ack"
    /\ radio' = None
    /\ send' = "message"
    /\ UNCHANGED <<replies, acks, guard, receive, display, answered, failed>>

AckSent ==
    /\ send = "ack" /\ acks < Capacity
    /\ acks' = acks + 1
    /\ radio' = None
    /\ send' = "message"
    /\ UNCHANGED <<replies, guard, receive, display, answered, failed>>

TaskSend ==
    TakeReply \/ SendLocks \/ Transmitted \/ TransmitFails \/ AckSent

----------------------------------------------------------------------------
\* task_receive

ReceiveLocks ==
    /\ receive = "lock" /\ radio = None
    /\ radio' = "receive"
    /\ receive' = "listen"
    /\ UNCHANGED <<replies, acks, guard, send, display, answered, failed>>

\* receive_message ends, or its timeout fires; the radio is released first.
StopListening(next) ==
    /\ receive = "listen"
    /\ radio' = None
    /\ receive' = next
    /\ UNCHANGED <<replies, acks, guard, send, display, answered, failed>>

Hears == StopListening("rssi")

HearsBadly == StopListening("pause")

\* Silence is a lost reply once there has been one.
TimesOut == StopListening(IF answered THEN "counter" ELSE "lock")

Resume ==
    /\ receive = "pause"
    /\ receive' = "lock"
    /\ UNCHANGED <<replies, acks, radio, guard, send, display, answered, failed>>

LockFigure(f, next) ==
    /\ receive = f /\ guard[f] = None
    /\ guard' = [guard EXCEPT ![f] = "receive"]
    /\ receive' = next
    /\ UNCHANGED <<replies, acks, radio, send, display, answered, failed>>

\* A reply to a timeout is not waited for.
OfferReplyOnly ==
    /\ receive = "offer" /\ replies < Capacity
    /\ replies' = replies + 1
    /\ LET timedOut == guard["counter"] = "receive" IN
         /\ receive' = IF timedOut THEN "lock" ELSE "await"
         /\ guard' = IF timedOut THEN [guard EXCEPT !["counter"] = None] ELSE guard
    /\ UNCHANGED <<acks, radio, send, display, answered, failed>>

OfferReply ==
    /\ receive = "offer" /\ replies < Capacity
    /\ replies' = replies + 1
    /\ receive' = "await"
    /\ UNCHANGED <<acks, radio, guard, send, display, answered, failed>>

\* The end of the match arm drops the guards.
Acknowledged ==
    /\ receive = "await" /\ acks > 0
    /\ acks' = acks - 1
    /\ guard' = [f \in Figure |->
                    IF guard[f] = "receive" THEN None ELSE guard[f]]
    /\ answered' = TRUE
    /\ receive' = "lock"
    /\ UNCHANGED <<replies, radio, send, display, failed>>

TaskReceive ==
    \/ ReceiveLocks
    \/ Hears \/ HearsBadly \/ TimesOut \/ Resume
    \/ LockFigure("rssi", "elapsed")
    \/ LockFigure("elapsed", "offer")
    \/ LockFigure("counter", "offer")
    \/ OfferReply
    \/ Acknowledged

----------------------------------------------------------------------------
\* main's loop

\* Each guard is kept until the display has been written.
ShowKeeping(f, next) ==
    /\ display = f /\ guard[f] = None
    /\ guard' = IF next = "timer"
                THEN [g \in Figure |->
                         IF guard[g] = "display" THEN None ELSE guard[g]]
                ELSE [guard EXCEPT ![f] = "display"]
    /\ display' = next
    /\ UNCHANGED <<replies, acks, radio, send, receive, answered, failed>>

\* The guard is dropped as soon as the figure has been read.
Show(f, next) ==
    /\ display = f /\ guard[f] = None
    /\ display' = next
    /\ UNCHANGED <<replies, acks, radio, guard, send, receive, answered, failed>>

\* The display's buffer is cleared in memory, which does not fail: the loop's early
\* `continue` is never taken.
NextFrame ==
    /\ display = "timer"
    /\ display' = "elapsed"
    /\ UNCHANGED <<replies, acks, radio, guard, send, receive, answered, failed>>

Main ==
    \/ Show("elapsed", "counter")
    \/ Show("counter", "rssi")
    \/ Show("rssi", "timer")
    \/ NextFrame

----------------------------------------------------------------------------
Next == TaskSend \/ TaskReceive \/ Main

\* Radio operations, timeouts and timers end, and a task that can run is run.
\* A guard that task_receive drops wakes main, which is polled before the radio
\* can have received another frame, or its timeout passed: hence SF.
Fairness ==
    /\ WF_vars(TaskSend)
    /\ WF_vars(TaskReceive)
    /\ SF_vars(Main)

Spec == Init /\ [][Next]_vars /\ Fairness

----------------------------------------------------------------------------
TypeOK ==
    /\ replies \in 0 .. Capacity /\ acks \in 0 .. Capacity
    /\ radio \in {None, "send", "receive"}
    /\ guard \in [Figure -> {None, "receive"}]
    /\ send \in {"message", "lock", "transmit", "ack"}
    /\ receive \in Figure \cup {"lock", "listen", "pause", "offer", "await"}
    /\ display \in Figure \cup {"timer"}
    /\ answered \in BOOLEAN /\ failed \in BOOLEAN

\* Replies on their way from task_receive to the air and back as an ack.
Underway == replies + acks + (IF send = "message" THEN 0 ELSE 1)

\* The two channels never hold anything but the one reply task_receive waits
\* for (lines 151-153 and 181-183 against 53-62): an ack is never left over to
\* release a later reply, and task_receive waits in vain only when a
\* transmission has failed.
Rendezvous ==
    /\ receive # "await" => Underway = 0 /\ ~ failed
    /\ receive = "await" => Underway = (IF failed THEN 0 ELSE 1)

\* The radio is free whenever a task wants it: a reply is never delayed by
\* listening, so that the measured time is the link's (lines 55 and 105).
RadioUncontended == send = "lock" \/ receive = "lock" => radio = None

\* task_receive comes back to the radio, whatever it heard, unless a
\* transmission fails (line 64).
KeepsListening == receive # "listen" ~> (receive = "listen" \/ failed)

\* The figures are shown again and again, although task_receive keeps their
\* guards while it waits for the radio (lines 131-153, 170-183, 286-310),
\* unless a transmission fails.
KeepsShowing == display # "timer" ~> (display = "timer" \/ failed)
=============================================================================
