---------------------------- MODULE LoraNetwork ----------------------------
(***************************************************************************)
(* Two boards, A and B, that run task_lora_gateway and hear each other     *)
(* over LoRa.  A frame reaches the other board only if that board listens  *)
(* when the transmission ends, and even then it may be lost.               *)
(*                                                                         *)
(* MQTT is reduced to its ends of the channels: a request with the next    *)
(* sequence number may be queued whenever there is room, a result may be   *)
(* taken at any time.  (What the MQTT tasks do in between is MqttTasks.)   *)
(*                                                                         *)
(* MaxRequests bounds the requests of a board, below the range of sequence *)
(* numbers: what happens when they wrap is not asked here.  MaxRestarts    *)
(* bounds how often the boards lose power, both together.                  *)
(***************************************************************************)
EXTENDS LoraEnvelope, Sequences

CONSTANTS ForwardCap, ResultCap, MaxRequests, MaxRestarts

ASSUME RequestsAssumption == MaxRequests \in Nat /\ MaxRequests < SeqMod

VARIABLES
    pcA, pendingA, handA, servoA, forwardA, resultsA,  \* LoraTask on board A
    pcB, pendingB, handB, servoB, forwardB, resultsB,  \* LoraTask on board B
    heard,     \* heard[x]: the frame the radio of x has received, or None
    asked,     \* asked[x]: how many requests MQTT has given to x
    opened,    \* opened[x]: the sequence numbers of the Opens x has obeyed since
               \* the board that numbers them was last switched on
    reported,  \* reported[x]: the results MQTT has taken from x since then
    restarts   \* restarts[x]: how often x has been switched off and on

taskA == <<pcA, pendingA, handA, servoA, forwardA, resultsA>>
taskB == <<pcB, pendingB, handB, servoB, forwardB, resultsB>>
vars == <<taskA, taskB, heard, asked, opened, reported, restarts>>

A == INSTANCE LoraTask WITH
        pc <- pcA, pending <- pendingA, hand <- handA, servo <- servoA,
        forward <- forwardA, results <- resultsA

B == INSTANCE LoraTask WITH
        pc <- pcB, pending <- pendingB, hand <- handB, servo <- servoB,
        forward <- forwardB, results <- resultsB

Board == {"A", "B"}
Other(x) == IF x = "A" THEN "B" ELSE "A"

Init ==
    /\ A!LoraInit /\ A!ChannelInit
    /\ B!LoraInit /\ B!ChannelInit
    /\ heard = [x \in Board |-> None]
    /\ asked = [x \in Board |-> 0]
    /\ opened = [x \in Board |-> {}]
    /\ reported = [x \in Board |-> <<>>]
    /\ restarts = [x \in Board |-> 0]

----------------------------------------------------------------------------
(***************************************************************************)
(* Polls that end a transmission put a frame on the air; the verdict of    *)
(* the radio says nothing about who has heard it.                          *)
(***************************************************************************)
ASends ==
    \/ A!ReplySent
    \/ A!ReplySentChannelFull
    \/ A!AckSent
    \/ A!RetrySent
    \/ A!ForwardSent

BSends ==
    \/ B!ReplySent
    \/ B!ReplySentChannelFull
    \/ B!AckSent
    \/ B!RetrySent
    \/ B!ForwardSent

ASendsHeard ==
    /\ ASends
    /\ pcB = "rx"
    /\ heard' = [heard EXCEPT !["B"] = handA]
    /\ UNCHANGED <<taskB, asked, opened, reported, restarts>>

BSendsHeard ==
    /\ BSends
    /\ pcA = "rx"
    /\ heard' = [heard EXCEPT !["A"] = handB]
    /\ UNCHANGED <<taskA, asked, opened, reported, restarts>>

\* Nobody listens, the frame is damaged, or the 5 s timeout of the listener
\* cancels the receive while the frame arrives.
ASendsLost == ASends /\ UNCHANGED <<taskB, heard, asked, opened, reported, restarts>>
BSendsLost == BSends /\ UNCHANGED <<taskA, heard, asked, opened, reported, restarts>>

----------------------------------------------------------------------------
Obeyed(x, e) ==
    opened' = IF e.msg_type = "Open"
              THEN [opened EXCEPT ![x] = @ \cup {e.seq}]
              ELSE opened

AHears ==
    /\ heard["A"] # None
    /\ A!RxFrame(heard["A"])
    /\ Obeyed("A", heard["A"])
    /\ heard' = [heard EXCEPT !["A"] = None]
    /\ UNCHANGED <<taskB, asked, reported, restarts>>

BHears ==
    /\ heard["B"] # None
    /\ B!RxFrame(heard["B"])
    /\ Obeyed("B", heard["B"])
    /\ heard' = [heard EXCEPT !["B"] = None]
    /\ UNCHANGED <<taskA, asked, reported, restarts>>

(***************************************************************************)
(* The other polls.  with_timeout polls the receive before it looks at the *)
(* clock, so a frame that has been received is not timed out.              *)
(***************************************************************************)
\* The clock looked at first: the received frame stays in the radio, and the
\* task goes on to transmit.
AElseClockFirst ==
    /\ \/ A!RxTimeout
       \/ heard["A"] = None /\ A!RxError
       \/ A!ErrorDelayOver
       \/ A!ForwardFailed
       \/ A!ForwardFailedChannelFull
       \/ A!ResultQueued
       \/ A!FailureQueued
    /\ UNCHANGED <<taskB, heard, asked, opened, reported, restarts>>

AElse ==
    /\ \/ heard["A"] = None /\ (A!RxTimeout \/ A!RxError)
       \/ A!ErrorDelayOver
       \/ A!ForwardFailed
       \/ A!ForwardFailedChannelFull
       \/ A!ResultQueued
       \/ A!FailureQueued
    /\ UNCHANGED <<taskB, heard, asked, opened, reported, restarts>>

BElse ==
    /\ \/ heard["B"] = None /\ (B!RxTimeout \/ B!RxError)
       \/ B!ErrorDelayOver
       \/ B!ForwardFailed
       \/ B!ForwardFailedChannelFull
       \/ B!ResultQueued
       \/ B!FailureQueued
    /\ UNCHANGED <<taskA, heard, asked, opened, reported, restarts>>

----------------------------------------------------------------------------
\* MQTT's end of the channels.  The first request has the number 1; one that is
\* too long for a frame is queued like the others and fails at the radio.
Request(x, p) == NewEnvelope("Open", asked[x] + 1, p)

AAsked(p) ==
    /\ asked["A"] < MaxRequests
    /\ A!ForwardRoom
    /\ forwardA' = Append(forwardA, Request("A", p))
    /\ asked' = [asked EXCEPT !["A"] = @ + 1]
    /\ UNCHANGED <<pcA, pendingA, handA, servoA, resultsA, taskB, heard,
                   opened, reported, restarts>>

BAsked(p) ==
    /\ asked["B"] < MaxRequests
    /\ B!ForwardRoom
    /\ forwardB' = Append(forwardB, Request("B", p))
    /\ asked' = [asked EXCEPT !["B"] = @ + 1]
    /\ UNCHANGED <<pcB, pendingB, handB, servoB, resultsB, taskA, heard,
                   opened, reported, restarts>>

AReports ==
    /\ resultsA # <<>>
    /\ resultsA' = Tail(resultsA)
    /\ reported' = [reported EXCEPT !["A"] = Append(@, Head(resultsA))]
    /\ UNCHANGED <<pcA, pendingA, handA, servoA, forwardA, taskB, heard, asked,
                   opened, restarts>>

BReports ==
    /\ resultsB # <<>>
    /\ resultsB' = Tail(resultsB)
    /\ reported' = [reported EXCEPT !["B"] = Append(@, Head(resultsB))]
    /\ UNCHANGED <<pcB, pendingB, handB, servoB, forwardB, taskA, heard, asked,
                   opened, restarts>>

(***************************************************************************)
(* A board loses power and boots again.  Nothing is stored: its task, its  *)
(* channels and its numbering begin anew, while the other board still has  *)
(* whatever it had pending.                                                *)
(***************************************************************************)
Restart(x) ==
    /\ restarts["A"] + restarts["B"] < MaxRestarts
    /\ restarts' = [restarts EXCEPT ![x] = @ + 1]
    /\ heard' = [heard EXCEPT ![x] = None]
    /\ asked' = [asked EXCEPT ![x] = 0]
    /\ reported' = [reported EXCEPT ![x] = <<>>]
    /\ opened' = [opened EXCEPT ![Other(x)] = {}]

ARestarts == Restart("A") /\ A!LoraReboots /\ UNCHANGED taskB
BRestarts == Restart("B") /\ B!LoraReboots /\ UNCHANGED taskA

Next ==
    \/ ASendsHeard \/ ASendsLost \/ AHears \/ AElse \/ AReports
    \/ BSendsHeard \/ BSendsLost \/ BHears \/ BElse \/ BReports
    \/ \E p \in RequestPayload : AAsked(p) \/ BAsked(p)
    \/ ARestarts \/ BRestarts

Spec == Init /\ [][Next]_vars

(***************************************************************************)
(* Every await of a task ends and MQTT takes the results (LoraGateway says *)
(* why).  The air may lose any number of frames, but of a board that never *)
(* stops transmitting some frame is heard again and again.                 *)
(***************************************************************************)
APolled == ASendsHeard \/ ASendsLost \/ AHears \/ AElse
BPolled == BSendsHeard \/ BSendsLost \/ BHears \/ BElse

FairAir ==
    /\ []<><<ASends>>_vars => []<><<ASendsHeard>>_vars
    /\ []<><<BSends>>_vars => []<><<BSendsHeard>>_vars

FairSpec ==
    /\ Spec
    /\ WF_vars(APolled) /\ WF_vars(BPolled)
    /\ WF_vars(AReports) /\ WF_vars(BReports)
    /\ FairAir

----------------------------------------------------------------------------
ReportedTo(x) == {reported[x][i] : i \in DOMAIN reported[x]}

\* A result that says the forward was acknowledged is true: the other board has
\* opened its servo for that very request, whatever was lost or sent twice, and
\* although that board may have restarted in between.  It holds for a board that
\* has not restarted itself; AckIsForThisRequest is about the others.
AckMeansOpened ==
    \A x \in Board : restarts[x] = 0 => \A r \in ReportedTo(x) :
        r.payload = "ackReceived" => r.seq \in opened[Other(x)]

\* An Ack closes an exchange as a success only if it answers a request.  The code
\* compares nothing but numbers, pending_forward can hold the board's own Ack, and
\* both boards count from 1: two boards could take their Acks for answers to each
\* other.  They take turns too strictly for that: a board looks at a received
\* frame before it transmits, and cannot receive while it does.
AckEndsRequest ==
    /\ pcA \in {"replyTx", "resultWait"} => pendingA.msg_type = "Open"
    /\ pcB \in {"replyTx", "resultWait"} => pendingB.msg_type = "Open"

\* The outcomes as RequestService speaks of them.
Outcomes(x) ==
    [i \in DOMAIN reported[x] |->
        [seq |-> reported[x][i].seq, success |-> reported[x][i].payload = "ackReceived"]]

Service ==
    INSTANCE RequestService WITH
        Number <- 1 .. MaxRequests,
        outcomes <- [x \in Board |-> Outcomes(x)]

\* Two boards are a request service: no retransmission, late frame or restart
\* makes a gateway report a request twice, out of order, without having been
\* asked, or as a success before the other board has obeyed.
ImplementsService == Service!Spec

\* While nothing is asked of board B, a request given to A always has an
\* outcome in the end: it is retransmitted until it is heard, and so is the
\* answer, which B gives again if it restarted.  (With requests on both sides an
\* Open can displace a request that waits for its answer, which then has no
\* outcome; and a restart of A forgets its requests.)
RequestAnswered ==
    [](asked["B"] = 0 /\ restarts["A"] = 0) =>
        \A n \in 1 .. MaxRequests :
            asked["A"] >= n ~> \E r \in ReportedTo("A") : r.seq = n

----------------------------------------------------------------------------
\* "the ACK matches the pending_forward, we can consider the forward
\* successful", says the comment in task_lora_gateway (line 127).  After a
\* restart the numbering begins at 1 again, and the other board may still be
\* retransmitting the Ack of a request with that number from before.
AckIsForThisRequest ==
    \A x \in Board : \A r \in ReportedTo(x) :
        r.payload = "ackReceived" => r.seq \in opened[Other(x)]
=============================================================================
