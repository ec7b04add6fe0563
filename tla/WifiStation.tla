---------------------------- MODULE WifiStation ----------------------------
(***************************************************************************)
(* The WiFi station: the task `connection`, which connects and reconnects, *)
(* net_task, which runs the IP stack, and below them the driver.  The      *)
(* tasks are cooperative; the driver runs in its own interrupt-driven      *)
(* threads and may change its state between any two steps of a task.       *)
(*                                                                         *)
(*   conn     off         not spawned                                      *)
(*            loop        at the head of the loop                          *)
(*            arming      has seen StaConnected, about to wait             *)
(*            waiting     wait_for_event(StaDisconnected)                  *)
(*            settling    the 5 s after that event                         *)
(*            starting    start_async                                      *)
(*            connecting  connect_async                                    *)
(*            retrying    the 5 s after a failed attempt                   *)
(*                                                                         *)
(* MaxDrops bounds how often a connection is lost.                         *)
(***************************************************************************)
EXTENDS Naturals

CONSTANT MaxDrops

VARIABLES
    link,    \* wifi_state(): "stopped", "started", "connected", "disconnected"
    event,   \* a StaDisconnected event has been posted
    conn,    \* control state of `connection`
    address, \* stack.config_v4() is Some
    drops    \* connections lost so far

stationVars == <<link, event, conn, address, drops>>

StationInit ==
    /\ link = "stopped"
    /\ event = FALSE
    /\ conn = "off"
    /\ address = FALSE
    /\ drops = 0

----------------------------------------------------------------------------
SeesConnected ==
    /\ conn = "loop"
    /\ link = "connected"
    /\ conn' = "arming"
    /\ UNCHANGED <<link, event, address, drops>>

\* wait_for_event forgets earlier events before it waits.
Arms ==
    /\ conn = "arming"
    /\ event' = FALSE
    /\ conn' = "waiting"
    /\ UNCHANGED <<link, address, drops>>

HearsDisconnect ==
    /\ conn = "waiting"
    /\ event
    /\ conn' = "settling"
    /\ UNCHANGED <<link, event, address, drops>>

TimerOver ==
    /\ conn \in {"settling", "retrying"}
    /\ conn' = "loop"
    /\ UNCHANGED <<link, event, address, drops>>

Starts ==
    /\ conn = "loop"
    /\ link = "stopped"
    /\ conn' = "starting"
    /\ UNCHANGED <<link, event, address, drops>>

Started ==
    /\ conn = "starting"
    /\ link' = "started"
    /\ conn' = "connecting"
    /\ UNCHANGED <<event, address, drops>>

\* A loop that connects after its own start only.
TriesOnce ==
    /\ conn = "loop"
    /\ link = "started"
    /\ conn' = "connecting"
    /\ UNCHANGED <<link, event, address, drops>>

TriesAgain ==
    /\ conn = "loop"
    /\ link \in {"started", "disconnected"}
    /\ conn' = "connecting"
    /\ UNCHANGED <<link, event, address, drops>>

Connects ==
    /\ conn = "connecting"
    /\ link' = "connected"
    /\ conn' = "loop"
    /\ UNCHANGED <<event, address, drops>>

Refused ==
    /\ conn = "connecting"
    /\ link' = "disconnected"
    /\ conn' = "retrying"
    /\ UNCHANGED <<event, address, drops>>

Connection ==
    \/ SeesConnected
    \/ Arms
    \/ HearsDisconnect
    \/ TimerOver
    \/ Starts
    \/ Started
    \/ TriesAgain
    \/ Connects
    \/ Refused

\* The stack takes a DHCP lease while the link is up and drops it with the link.
NetTask ==
    /\ conn # "off"
    /\ address # (link = "connected")
    /\ address' = (link = "connected")
    /\ UNCHANGED <<link, event, conn, drops>>

\* The driver loses the access point.
LinkLost ==
    /\ link = "connected"
    /\ drops < MaxDrops
    /\ link' = "disconnected"
    /\ event' = TRUE
    /\ drops' = drops + 1
    /\ UNCHANGED <<conn, address>>

\* The link went down after `connection` had seen it up and before it waited:
\* the event it waits for has been forgotten, and no other will come.
Deaf == conn = "waiting" /\ link # "connected" /\ ~event
=============================================================================
