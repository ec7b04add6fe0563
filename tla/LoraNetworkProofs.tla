------------------------- MODULE LoraNetworkProofs -------------------------
(***************************************************************************)
(* Theorems of LoraNetwork, for every capacity of the channels, every      *)
(* number of requests below the range of sequence numbers and every number *)
(* of restarts.                                                            *)
(*                                                                         *)
(* The two boards run the same task on different variables.  To argue once *)
(* for both, the state of a task is gathered in a record, and TaskPoll and *)
(* TaskHears say what LoraTask does to it; PollOfA, PollOfB, HearingOfA    *)
(* and HearingOfB show that the actions of LoraTask do just that.          *)
(***************************************************************************)
EXTENDS LoraNetwork, TLAPS

Task(x) ==
    IF x = "A"
    THEN [pc |-> pcA, pending |-> pendingA, hand |-> handA,
          forward |-> forwardA, results |-> resultsA]
    ELSE [pc |-> pcB, pending |-> pendingB, hand |-> handB,
          forward |-> forwardB, results |-> resultsB]

SendFailed(e) == NewEnvelope("Reply", e.seq, "sendFailed")

----------------------------------------------------------------------------
(***************************************************************************)
(* The steps of a task, from its state v to its state w.                   *)
(***************************************************************************)
\* An iteration takes the next request, or refuses it.
Takes(v, w, queued) ==
    /\ v.forward # <<>>
    /\ w.forward = Tail(v.forward)
    /\ LET e == Head(v.forward) IN
       \/ w.pc = "fwdTx" /\ w.hand = e /\ w.results = queued
       \/ w.pc = "rx" /\ w.hand = None /\ w.results = Append(queued, SendFailed(e))
       \/ w.pc = "failWait" /\ w.hand = SendFailed(e) /\ w.results = queued

\* EndIteration.
Iterates(v, w, p, queued) ==
    /\ w.pending = p
    /\ \/ /\ p # None
          /\ w.pc = "retryTx"
          /\ w.hand = p
          /\ w.forward = v.forward
          /\ w.results = queued
       \/ p = None /\ Takes(v, w, queued)
       \/ /\ p = None
          /\ w.pc = "rx"
          /\ w.hand = None
          /\ w.forward = v.forward
          /\ w.results = queued

Listens(v, w) ==
    v.pc \in {"rx", "errDelay"} /\ Iterates(v, w, v.pending, v.results)

Closes(v, w) ==
    /\ v.pc \in {"replyTx", "resultWait"}
    /\ Iterates(v, w, None, Append(v.results, v.hand))

Acknowledges(v, w) == v.pc = "ackTx" /\ Iterates(v, w, v.hand, v.results)

SameQueues(v, w) == w.forward = v.forward /\ w.results = v.results

\* The polls after which the task only waits for something else.
Waits(v, w) ==
    /\ SameQueues(v, w)
    /\ \/ /\ v.pc = "rx" /\ w.pc = "errDelay"
          /\ w.pending = v.pending /\ w.hand = v.hand
       \/ /\ v.pc = "replyTx" /\ w.pc = "resultWait"
          /\ w.pending = v.pending /\ w.hand = v.hand
       \/ /\ v.pc = "retryTx" /\ w.pc = "rx"
          /\ w.pending = v.pending /\ w.hand = None
       \/ /\ v.pc = "fwdTx" /\ w.pc = "rx"
          /\ w.pending = v.hand /\ w.hand = None

\* A request that could not be sent.
Fails(v, w) ==
    /\ w.forward = v.forward
    /\ w.pending = v.pending
    /\ \/ /\ v.pc = "fwdTx" /\ w.pc = "rx" /\ w.hand = None
          /\ w.results = Append(v.results, SendFailed(v.hand))
       \/ /\ v.pc = "fwdTx" /\ w.pc = "failWait" /\ w.hand = SendFailed(v.hand)
          /\ w.results = v.results
       \/ /\ v.pc = "failWait" /\ w.pc = "rx" /\ w.hand = None
          /\ w.results = Append(v.results, v.hand)

TaskPoll(v, w) ==
    Listens(v, w) \/ Closes(v, w) \/ Acknowledges(v, w) \/ Waits(v, w) \/ Fails(v, w)

Matches(v, e) == v.pending # None /\ v.pending.seq = e.seq

TaskHears(v, w, e) ==
    /\ v.pc = "rx"
    /\ \/ /\ e.msg_type = "Ack" /\ Matches(v, e)
          /\ w.pc = "replyTx" /\ SameQueues(v, w) /\ w.pending = v.pending
          /\ w.hand = NewEnvelope("Reply", v.pending.seq, "ackReceived")
       \/ /\ e.msg_type = "Open"
          /\ w.pc = "ackTx" /\ SameQueues(v, w) /\ w.pending = v.pending
          /\ w.hand = NewEnvelope("Ack", e.seq, "ACK")
       \/ e.msg_type = "Reply" /\ Iterates(v, w, None, v.results)
       \/ e.msg_type # "Open" /\ Iterates(v, w, v.pending, v.results)

----------------------------------------------------------------------------
(***************************************************************************)
(* The inductive invariant, in parts.                                      *)
(***************************************************************************)
\* What passes through the channels, and what a board can have to send again.
RequestEnvelope == {e \in Envelope : e.msg_type = "Open" /\ e.payload # "ackReceived"}
AckEnvelope == {e \in Envelope : e.msg_type = "Ack" /\ e.payload # "ackReceived"}
ResultEnvelope == {e \in Envelope : e.msg_type = "Reply"}
PendingEnvelope == RequestEnvelope \cup AckEnvelope

\* The data of a task: an exchange that is closing is about a request of the
\* board's own, and a request is taken only when nothing is pending.
TaskType(v) ==
    /\ v.pc \in A!LoraPc
    /\ v.pending \in PendingEnvelope \cup {None}
    /\ v.hand \in Envelope \cup {None}
    /\ v.forward \in Seq(RequestEnvelope)
    /\ v.results \in Seq(ResultEnvelope)
    /\ v.pc \in {"rx", "errDelay"} => v.hand = None
    /\ v.pc \in {"replyTx", "resultWait"} =>
          /\ v.pending # None
          /\ v.pending.msg_type = "Open"
          /\ v.hand = NewEnvelope("Reply", v.pending.seq, "ackReceived")
    /\ v.pc = "ackTx" => v.hand \in AckEnvelope
    /\ v.pc = "retryTx" => v.pending # None /\ v.hand = v.pending
    /\ v.pc = "fwdTx" => v.pending = None /\ v.hand \in RequestEnvelope
    /\ v.pc = "failWait" =>
          /\ v.pending = None
          /\ v.hand \in ResultEnvelope
          /\ v.hand.payload = "sendFailed"

NetworkType ==
    /\ \A x \in Board : TaskType(Task(x))
    /\ heard \in [Board -> Envelope \cup {None}]
    /\ asked \in [Board -> 0 .. MaxRequests]
    /\ opened \in [Board -> SUBSET SeqNum]
    /\ reported \in [Board -> Seq(ResultEnvelope)]
    /\ restarts \in [Board -> Nat]

Has(e, type) == e # None /\ e.msg_type = type

\* The envelopes a task works on.
Held(v) == {v.pending, v.hand}

Acking(v) == \E e \in Held(v) : Has(e, "Ack")

\* Radio turns: a received frame finds its board listening, and there is at most
\* one in the two radios.  While a board acknowledges, the other one does not,
\* neither waits for it to hear an Ack, and it has not sent an Open unheard.
Turn(v, u, atV, atU) ==
    /\ atV # None => v.pc = "rx" /\ atU = None
    /\ Acking(v) => ~Acking(u) /\ ~Has(atV, "Ack") /\ ~Has(atU, "Open")

Turns ==
    \A x \in Board : Turn(Task(x), Task(Other(x)), heard[x], heard[Other(x)])

\* Every Ack a board has, and every success it is about to report, names a
\* request in S.
AcksIn(v, S) == \A e \in Held(v) : Has(e, "Ack") => e.seq \in S

IsSuccess(e) == e.payload = "ackReceived"

ClaimsIn(v, S) ==
    /\ Has(v.hand, "Reply") /\ IsSuccess(v.hand) => v.hand.seq \in S
    /\ \A i \in DOMAIN v.results : IsSuccess(v.results[i]) => v.results[i].seq \in S

\* For a board that has not restarted, the Acks of the other board and the
\* successes of its own name requests that the other board has obeyed.
AcksAreTrue ==
    \A x \in Board : restarts[x] = 0 =>
        /\ ClaimsIn(Task(x), opened[Other(x)])
        /\ AcksIn(Task(Other(x)), opened[Other(x)])
        /\ Has(heard[x], "Ack") => heard[x].seq \in opened[Other(x)]

\* The numbers of the request a board is working on.
InFlight(v) == {e.seq : e \in {e \in Held(v) : Has(e, "Open") \/ Has(e, "Reply")}}

NumbersOf(s) == {s[i].seq : i \in DOMAIN s}

Increasing(s) == \A i, j \in DOMAIN s : i < j => s[i].seq < s[j].seq

Below(S, T) == \A m \in S, n \in T : m < n

\* The requests of a board pass through the forward channel, the task, the result
\* channel and MQTT in the order of their numbers, none of them twice.
Line(told, done, working, waiting, last) ==
    /\ Increasing(done)
    /\ Increasing(waiting)
    /\ Below(told, NumbersOf(done))
    /\ Below(told \cup NumbersOf(done), working)
    /\ Below(told \cup NumbersOf(done) \cup working, NumbersOf(waiting))
    /\ told \cup NumbersOf(done) \cup working \cup NumbersOf(waiting) \subseteq 1 .. last

Order ==
    \A x \in Board :
        Line(NumbersOf(reported[x]), Task(x).results, InFlight(Task(x)),
             Task(x).forward, asked[x])

\* An Open in a radio is a request its board has made, unless that board has
\* begun its numbering anew.
OpensAreAsked ==
    \A x \in Board : Has(heard[x], "Open") =>
        /\ heard[x].seq \in 1 .. MaxRequests
        /\ restarts[Other(x)] = 0 => heard[x].seq <= asked[Other(x)]

NetworkInv ==
    /\ NetworkType
    /\ Turns
    /\ AcksAreTrue
    /\ AckMeansOpened
    /\ Order
    /\ OpensAreAsked

----------------------------------------------------------------------------
(***************************************************************************)
(* The actions of LoraTask are steps of a task.                            *)
(***************************************************************************)
LEMMA IterationOfA ==
    ASSUME NEW p, NEW queued, A!EndIteration(p, queued)
    PROVE  Iterates(Task("A"), Task("A")', p, queued)
<1> USE DEF Task, Iterates
<1>1. CASE A!Retransmit(p, queued)
  BY <1>1 DEF A!EndIteration, A!Retransmit
<1>2. CASE A!TakeRequest(p, queued)
  BY <1>2
  DEF Takes, SendFailed, NewEnvelope, A!EndIteration, A!TakeRequest,
      A!StartSending, A!RejectRequest, A!SendFailed, A!NewEnvelope
<1>3. CASE A!NothingToSend(p, queued)
  BY <1>3 DEF A!EndIteration, A!NothingToSend
<1> QED
  BY <1>1, <1>2, <1>3 DEF A!EndIteration

LEMMA SendingOfA ==
    ASSUME ASends
    PROVE  /\ TaskPoll(Task("A"), Task("A")')
           /\ Task("A").pc \in A!Transmitting
<1> USE DEF Task, TaskPoll, A!Transmitting
<1>1. CASE A!ReplySent
  BY <1>1, IterationOfA DEF A!ReplySent, Closes
<1>2. CASE A!ReplySentChannelFull
  BY <1>2 DEF A!ReplySentChannelFull, Waits, SameQueues
<1>3. CASE A!AckSent
  BY <1>3, IterationOfA DEF A!AckSent, Acknowledges
<1>4. CASE A!RetrySent
  BY <1>4 DEF A!RetrySent, Waits, SameQueues
<1>5. CASE A!ForwardSent
  BY <1>5 DEF A!ForwardSent, Waits, SameQueues
<1> QED
  BY <1>1, <1>2, <1>3, <1>4, <1>5 DEF ASends

LEMMA PollOfA ==
    ASSUME AElse
    PROVE  /\ TaskPoll(Task("A"), Task("A")')
           /\ Task("A").pc = "rx" => heard["A"] = None
<1> USE DEF Task, TaskPoll
<1>1. CASE heard["A"] = None /\ A!RxTimeout
  BY <1>1, IterationOfA DEF A!RxTimeout, Listens
<1>2. CASE heard["A"] = None /\ A!RxError
  BY <1>2 DEF A!RxError, Waits, SameQueues
<1>3. CASE A!ErrorDelayOver
  BY <1>3, IterationOfA DEF A!ErrorDelayOver, Listens
<1>4. CASE A!ForwardFailed
  BY <1>4
  DEF A!ForwardFailed, Fails, SendFailed, NewEnvelope,
      A!SendFailed, A!NewEnvelope
<1>5. CASE A!ForwardFailedChannelFull
  BY <1>5
  DEF A!ForwardFailedChannelFull, Fails, SendFailed, NewEnvelope,
      A!SendFailed, A!NewEnvelope
<1>6. CASE A!ResultQueued
  BY <1>6, IterationOfA DEF A!ResultQueued, Closes
<1>7. CASE A!FailureQueued
  BY <1>7 DEF A!FailureQueued, Fails
<1> QED
  BY <1>1, <1>2, <1>3, <1>4, <1>5, <1>6, <1>7 DEF AElse

LEMMA HearingOfA ==
    ASSUME NEW e, A!RxFrame(e)
    PROVE  TaskHears(Task("A"), Task("A")', e)
<1> USE DEF Task, TaskHears
<1>1. CASE A!RxMatchingAck(e)
  BY <1>1
  DEF A!RxMatchingAck, A!AnswersPending, A!NewEnvelope, NewEnvelope,
      Matches, SameQueues
<1>2. CASE A!RxStrayAck(e)
  BY <1>2, IterationOfA DEF A!RxStrayAck
<1>3. CASE A!RxOpen(e)
  BY <1>3 DEF A!RxOpen, A!NewEnvelope, NewEnvelope, SameQueues
<1>4. CASE A!RxReply(e)
  BY <1>4, IterationOfA DEF A!RxReply
<1>5. CASE A!RxOther(e)
  BY <1>5, IterationOfA DEF A!RxOther
<1> QED
  BY <1>1, <1>2, <1>3, <1>4, <1>5 DEF A!RxFrame
LEMMA IterationOfB ==
    ASSUME NEW p, NEW queued, B!EndIteration(p, queued)
    PROVE  Iterates(Task("B"), Task("B")', p, queued)
<1> USE DEF Task, Iterates
<1>1. CASE B!Retransmit(p, queued)
  BY <1>1 DEF B!EndIteration, B!Retransmit
<1>2. CASE B!TakeRequest(p, queued)
  BY <1>2
  DEF Takes, SendFailed, NewEnvelope, B!EndIteration, B!TakeRequest,
      B!StartSending, B!RejectRequest, B!SendFailed, B!NewEnvelope
<1>3. CASE B!NothingToSend(p, queued)
  BY <1>3 DEF B!EndIteration, B!NothingToSend
<1> QED
  BY <1>1, <1>2, <1>3 DEF B!EndIteration

LEMMA SendingOfB ==
    ASSUME BSends
    PROVE  /\ TaskPoll(Task("B"), Task("B")')
           /\ Task("B").pc \in A!Transmitting
<1> USE DEF Task, TaskPoll, A!Transmitting
<1>1. CASE B!ReplySent
  BY <1>1, IterationOfB DEF B!ReplySent, Closes
<1>2. CASE B!ReplySentChannelFull
  BY <1>2 DEF B!ReplySentChannelFull, Waits, SameQueues
<1>3. CASE B!AckSent
  BY <1>3, IterationOfB DEF B!AckSent, Acknowledges
<1>4. CASE B!RetrySent
  BY <1>4 DEF B!RetrySent, Waits, SameQueues
<1>5. CASE B!ForwardSent
  BY <1>5 DEF B!ForwardSent, Waits, SameQueues
<1> QED
  BY <1>1, <1>2, <1>3, <1>4, <1>5 DEF BSends

LEMMA PollOfB ==
    ASSUME BElse
    PROVE  /\ TaskPoll(Task("B"), Task("B")')
           /\ Task("B").pc = "rx" => heard["B"] = None
<1> USE DEF Task, TaskPoll
<1>1. CASE heard["B"] = None /\ B!RxTimeout
  BY <1>1, IterationOfB DEF B!RxTimeout, Listens
<1>2. CASE heard["B"] = None /\ B!RxError
  BY <1>2 DEF B!RxError, Waits, SameQueues
<1>3. CASE B!ErrorDelayOver
  BY <1>3, IterationOfB DEF B!ErrorDelayOver, Listens
<1>4. CASE B!ForwardFailed
  BY <1>4
  DEF B!ForwardFailed, Fails, SendFailed, NewEnvelope,
      B!SendFailed, B!NewEnvelope
<1>5. CASE B!ForwardFailedChannelFull
  BY <1>5
  DEF B!ForwardFailedChannelFull, Fails, SendFailed, NewEnvelope,
      B!SendFailed, B!NewEnvelope
<1>6. CASE B!ResultQueued
  BY <1>6, IterationOfB DEF B!ResultQueued, Closes
<1>7. CASE B!FailureQueued
  BY <1>7 DEF B!FailureQueued, Fails
<1> QED
  BY <1>1, <1>2, <1>3, <1>4, <1>5, <1>6, <1>7 DEF BElse

LEMMA HearingOfB ==
    ASSUME NEW e, B!RxFrame(e)
    PROVE  TaskHears(Task("B"), Task("B")', e)
<1> USE DEF Task, TaskHears
<1>1. CASE B!RxMatchingAck(e)
  BY <1>1
  DEF B!RxMatchingAck, B!AnswersPending, B!NewEnvelope, NewEnvelope,
      Matches, SameQueues
<1>2. CASE B!RxStrayAck(e)
  BY <1>2, IterationOfB DEF B!RxStrayAck
<1>3. CASE B!RxOpen(e)
  BY <1>3 DEF B!RxOpen, B!NewEnvelope, NewEnvelope, SameQueues
<1>4. CASE B!RxReply(e)
  BY <1>4, IterationOfB DEF B!RxReply
<1>5. CASE B!RxOther(e)
  BY <1>5, IterationOfB DEF B!RxOther
<1> QED
  BY <1>1, <1>2, <1>3, <1>4, <1>5 DEF B!RxFrame

----------------------------------------------------------------------------
(***************************************************************************)
(* The steps of the network, as steps of one of the boards.                *)
(***************************************************************************)
\* Board x polls its task; if the poll ends a transmission, the other board may
\* have received the frame.
Polls(x) ==
    /\ TaskPoll(Task(x), Task(x)')
    /\ Task(x).pc = "rx" => heard[x] = None
    /\ \/ heard' = heard
       \/ /\ Task(x).pc \in A!Transmitting
          /\ Task(Other(x)).pc = "rx"
          /\ heard' = [heard EXCEPT ![Other(x)] = Task(x).hand]
    /\ UNCHANGED <<asked, opened, reported, restarts>>

Hears(x) ==
    /\ heard[x] # None
    /\ TaskHears(Task(x), Task(x)', heard[x])
    /\ heard' = [heard EXCEPT ![x] = None]
    /\ Obeyed(x, heard[x])
    /\ UNCHANGED <<asked, reported, restarts>>

\* The steps of MQTT leave the task where it is.
SameWork(v, w) == w.pc = v.pc /\ w.pending = v.pending /\ w.hand = v.hand

IsAsked(x) ==
    /\ asked[x] < MaxRequests
    /\ SameWork(Task(x), Task(x)')
    /\ Task(x)'.results = Task(x).results
    /\ \E p \in RequestPayload :
           Task(x)'.forward = Append(Task(x).forward, Request(x, p))
    /\ asked' = [asked EXCEPT ![x] = @ + 1]
    /\ UNCHANGED <<heard, opened, reported, restarts>>

Reports(x) ==
    /\ Task(x).results # <<>>
    /\ SameWork(Task(x), Task(x)')
    /\ Task(x)'.forward = Task(x).forward
    /\ Task(x)'.results = Tail(Task(x).results)
    /\ reported' = [reported EXCEPT ![x] = Append(@, Head(Task(x).results))]
    /\ UNCHANGED <<heard, asked, opened, restarts>>

Restarts(x) ==
    /\ Restart(x)
    /\ Task(x)' = [pc |-> "rx", pending |-> None, hand |-> None,
                   forward |-> <<>>, results |-> <<>>]

Step(x) ==
    /\ Task(Other(x))' = Task(Other(x))
    /\ Polls(x) \/ Hears(x) \/ IsAsked(x) \/ Reports(x) \/ Restarts(x)

\* Every step of the network is a step of one board.
LEMMA StepOfABoard == Next => \E x \in Board : Step(x)
<1> SUFFICES ASSUME Next PROVE \E x \in Board : Step(x)
  OBVIOUS
<1>1. CASE ASendsHeard \/ ASendsLost
  BY <1>1, SendingOfA
  DEF ASendsHeard, ASendsLost, Step, Polls, Task, taskB, Board, Other,
      A!Transmitting
<1>2. CASE AElse
  BY <1>2, PollOfA DEF AElse, Step, Polls, Task, taskB, Board, Other
<1>3. CASE AHears
  BY <1>3, HearingOfA DEF AHears, Step, Hears, Task, taskB, Board, Other
<1>4. CASE \E p \in RequestPayload : AAsked(p)
  BY <1>4 DEF AAsked, Step, IsAsked, SameWork, Task, taskB, Board, Other
<1>5. CASE AReports
  BY <1>5 DEF AReports, Step, Reports, SameWork, Task, taskB, Board, Other
<1>6. CASE ARestarts
  BY <1>6
  DEF ARestarts, A!LoraReboots, Step, Restarts, Task, taskB, Board, Other
<1>7. CASE BSendsHeard \/ BSendsLost
  BY <1>7, SendingOfB
  DEF BSendsHeard, BSendsLost, Step, Polls, Task, taskA, Board, Other,
      A!Transmitting
<1>8. CASE BElse
  BY <1>8, PollOfB DEF BElse, Step, Polls, Task, taskA, Board, Other
<1>9. CASE BHears
  BY <1>9, HearingOfB DEF BHears, Step, Hears, Task, taskA, Board, Other
<1>10. CASE \E p \in RequestPayload : BAsked(p)
  BY <1>10 DEF BAsked, Step, IsAsked, SameWork, Task, taskA, Board, Other
<1>11. CASE BReports
  BY <1>11 DEF BReports, Step, Reports, SameWork, Task, taskA, Board, Other
<1>12. CASE BRestarts
  BY <1>12
  DEF BRestarts, B!LoraReboots, Step, Restarts, Task, taskA, Board, Other
<1> QED
  BY <1>1, <1>2, <1>3, <1>4, <1>5, <1>6, <1>7, <1>8, <1>9, <1>10, <1>11, <1>12
  DEF Next

----------------------------------------------------------------------------
(***************************************************************************)
(* Type correctness.                                                       *)
(***************************************************************************)
LEMMA EnvelopeTypes ==
    /\ PendingEnvelope \subseteq Envelope
    /\ None \notin PendingEnvelope
    /\ \A e \in Envelope :
          /\ e.seq \in SeqNum
          /\ SendFailed(e) \in ResultEnvelope
          /\ SendFailed(e).payload = "sendFailed"
          /\ SendFailed(e).seq = e.seq
          /\ NewEnvelope("Ack", e.seq, "ACK") \in AckEnvelope
          /\ NewEnvelope("Reply", e.seq, "ackReceived") \in ResultEnvelope
BY NoneAssumption
DEF PendingEnvelope, RequestEnvelope, AckEnvelope, ResultEnvelope, Envelope,
    NewEnvelope, SendFailed, MessageType, Payload, RequestPayload

LEMMA IteratesType ==
    ASSUME NEW v, NEW w, NEW p \in PendingEnvelope \cup {None},
           NEW queued \in Seq(ResultEnvelope),
           v.forward \in Seq(RequestEnvelope),
           Iterates(v, w, p, queued)
    PROVE  TaskType(w)
<1> USE DEF TaskType, A!LoraPc, A!Transmitting, A!Blocked
<1>1. CASE p # None
  BY <1>1, EnvelopeTypes DEF Iterates
<1>2. CASE p = None /\ Takes(v, w, queued)
  <2> DEFINE e == Head(v.forward)
  <2>1. /\ e \in RequestEnvelope
        /\ w.forward \in Seq(RequestEnvelope)
    BY <1>2 DEF Takes
  <2>2. e \in Envelope
    BY <2>1 DEF RequestEnvelope
  <2>3. /\ SendFailed(e) \in ResultEnvelope
        /\ SendFailed(e) \in Envelope
        /\ SendFailed(e).payload = "sendFailed"
    BY <2>2, EnvelopeTypes DEF ResultEnvelope
  <2>4. Append(queued, SendFailed(e)) \in Seq(ResultEnvelope)
    BY <2>3
  <2>5. w.pending = None
    BY <1>2 DEF Iterates
  <2> HIDE DEF e
  <2>6. \/ w.pc = "fwdTx" /\ w.hand = e /\ w.results = queued
        \/ w.pc = "rx" /\ w.hand = None /\ w.results = Append(queued, SendFailed(e))
        \/ w.pc = "failWait" /\ w.hand = SendFailed(e) /\ w.results = queued
    BY <1>2 DEF Takes, e
  <2> QED
    BY <2>1, <2>2, <2>3, <2>4, <2>5, <2>6
<1>3. CASE p = None /\ ~Takes(v, w, queued)
  BY <1>3 DEF Iterates
<1> QED
  BY <1>1, <1>2, <1>3

LEMMA PollType ==
    ASSUME NEW v, NEW w, TaskType(v), TaskPoll(v, w)
    PROVE  TaskType(w)
<1>1. CASE Listens(v, w)
  BY <1>1, IteratesType DEF Listens, TaskType
<1>2. CASE Closes(v, w)
  <2>1. v.hand \in ResultEnvelope
    BY <1>2, EnvelopeTypes DEF Closes, TaskType, PendingEnvelope
  <2>2. Append(v.results, v.hand) \in Seq(ResultEnvelope)
    BY <2>1 DEF TaskType
  <2>3. v.forward \in Seq(RequestEnvelope)
    BY DEF TaskType
  <2>4. Iterates(v, w, None, Append(v.results, v.hand))
    BY <1>2 DEF Closes
  <2> QED
    BY <2>2, <2>3, <2>4, IteratesType
<1>3. CASE Acknowledges(v, w)
  BY <1>3, IteratesType DEF Acknowledges, TaskType, PendingEnvelope
<1>4. CASE Waits(v, w)
  BY <1>4, EnvelopeTypes
  DEF Waits, SameQueues, TaskType, PendingEnvelope, A!LoraPc, A!Transmitting,
      A!Blocked
<1>5. CASE Fails(v, w)
  <2>1. v.pc = "fwdTx" => v.hand \in Envelope
    BY DEF TaskType, RequestEnvelope
  <2>2. v.pc = "fwdTx" =>
            /\ SendFailed(v.hand) \in ResultEnvelope
            /\ SendFailed(v.hand) \in Envelope
            /\ SendFailed(v.hand).payload = "sendFailed"
            /\ Append(v.results, SendFailed(v.hand)) \in Seq(ResultEnvelope)
    BY <2>1, EnvelopeTypes DEF ResultEnvelope, TaskType
  <2>3. v.pc = "failWait" => Append(v.results, v.hand) \in Seq(ResultEnvelope)
    BY DEF TaskType
  <2> QED
    BY <1>5, <2>2, <2>3
    DEF Fails, TaskType, A!LoraPc, A!Transmitting, A!Blocked
<1> QED
  BY <1>1, <1>2, <1>3, <1>4, <1>5 DEF TaskPoll

\* An Ack heard while the board is not acknowledging itself can only match an
\* Open.
LEMMA HearingType ==
    ASSUME NEW v, NEW w, TaskType(v), NEW e \in Envelope,
           e.msg_type = "Ack" => ~Acking(v), TaskHears(v, w, e)
    PROVE  TaskType(w)
<1>1. CASE /\ e.msg_type = "Ack" /\ Matches(v, e)
           /\ w.pc = "replyTx" /\ SameQueues(v, w) /\ w.pending = v.pending
           /\ w.hand = NewEnvelope("Reply", v.pending.seq, "ackReceived")
  <2>1. v.pending \in PendingEnvelope
    BY <1>1 DEF Matches, TaskType
  <2>2. v.pending.msg_type = "Open"
    BY <1>1, <2>1
    DEF Acking, Held, Has, Matches, PendingEnvelope, AckEnvelope, RequestEnvelope
  <2>3. w.hand \in Envelope
    BY <1>1, <2>1, EnvelopeTypes DEF ResultEnvelope
  <2> QED
    BY <1>1, <2>1, <2>2, <2>3
    DEF Matches, SameQueues, TaskType, A!LoraPc, A!Transmitting, A!Blocked
<1>2. CASE /\ e.msg_type = "Open"
           /\ w.pc = "ackTx" /\ SameQueues(v, w) /\ w.pending = v.pending
           /\ w.hand = NewEnvelope("Ack", e.seq, "ACK")
  BY <1>2, EnvelopeTypes
  DEF SameQueues, TaskType, AckEnvelope, A!LoraPc, A!Transmitting, A!Blocked
<1>3. CASE Iterates(v, w, None, v.results) \/ Iterates(v, w, v.pending, v.results)
  BY <1>3, IteratesType DEF TaskType
<1> QED
  BY <1>1, <1>2, <1>3 DEF TaskHears

LEMMA Boards ==
    ASSUME NEW x \in Board
    PROVE  /\ Other(x) \in Board
           /\ Other(x) # x
           /\ Other(Other(x)) = x
           /\ \A z \in Board : z = x \/ z = Other(x)
BY DEF Board, Other

LEMMA InitType == Init => NetworkType
<1> SUFFICES ASSUME Init PROVE NetworkType
  OBVIOUS
<1>1. \A x \in Board : TaskType(Task(x))
  BY DEF Init, A!LoraInit, A!ChannelInit, B!LoraInit, B!ChannelInit, Task,
         TaskType, A!LoraPc
<1>2. 0 \in 0 .. MaxRequests
  BY RequestsAssumption
<1> QED
  BY <1>1, <1>2 DEF Init, NetworkType

LEMMA StepType ==
    ASSUME NetworkType, Turns, NEW x \in Board, Step(x)
    PROVE  NetworkType'
<1> DEFINE y == Other(x)
<1>1. /\ y \in Board
      /\ \A z \in Board : z = x \/ z = y
  BY Boards
<1>2. SUFFICES /\ TaskType(Task(x)')
               /\ heard' \in [Board -> Envelope \cup {None}]
               /\ asked' \in [Board -> 0 .. MaxRequests]
               /\ opened' \in [Board -> SUBSET SeqNum]
               /\ reported' \in [Board -> Seq(ResultEnvelope)]
               /\ restarts' \in [Board -> Nat]
  BY <1>1 DEF NetworkType, Step
<1> HIDE DEF y
<1>3. TaskType(Task(x))
  BY DEF NetworkType
<1>4. CASE Polls(x)
  <2>1. TaskType(Task(x)')
    BY <1>3, <1>4, PollType DEF Polls
  <2>2. Task(x).hand \in Envelope \cup {None}
    BY <1>3 DEF TaskType
  <2>3. heard' \in [Board -> Envelope \cup {None}]
    BY <1>4, <2>2 DEF Polls, NetworkType
  <2> QED
    BY <1>4, <2>1, <2>3 DEF Polls, NetworkType
<1>5. CASE Hears(x)
  <2>1. heard[x] \in Envelope
    BY <1>5 DEF Hears, NetworkType
  <2>2. heard[x].msg_type = "Ack" => ~Acking(Task(x))
    BY <1>5 DEF Hears, Turns, Turn, Has
  <2>3. TaskType(Task(x)')
    BY <1>3, <1>5, <2>1, <2>2, HearingType DEF Hears
  <2>4. opened' \in [Board -> SUBSET SeqNum]
    BY <1>5, <2>1, EnvelopeTypes DEF Hears, Obeyed, NetworkType
  <2> QED
    BY <1>5, <2>3, <2>4 DEF Hears, NetworkType
<1>6. CASE IsAsked(x)
  <2> PICK p \in RequestPayload : Task(x)'.forward = Append(Task(x).forward, Request(x, p))
    BY <1>6 DEF IsAsked
  <2>1. asked[x] \in 0 .. MaxRequests /\ asked[x] < MaxRequests
    BY <1>6 DEF IsAsked, NetworkType
  <2>2. asked[x] + 1 \in 0 .. MaxRequests /\ asked[x] + 1 \in SeqNum
    BY <2>1, RequestsAssumption, SeqModAssumption DEF SeqNum
  <2>3. Request(x, p) \in RequestEnvelope
    BY <2>2
    DEF Request, NewEnvelope, RequestEnvelope, Envelope, MessageType, Payload,
        RequestPayload
  <2>4. Append(Task(x).forward, Request(x, p)) \in Seq(RequestEnvelope)
    BY <1>3, <2>3 DEF TaskType
  <2>5. TaskType(Task(x)')
    BY <1>3, <1>6, <2>4 DEF IsAsked, SameWork, TaskType
  <2> QED
    BY <1>6, <2>2, <2>5 DEF IsAsked, NetworkType
<1>7. CASE Reports(x)
  <2>1. /\ Head(Task(x).results) \in ResultEnvelope
        /\ Tail(Task(x).results) \in Seq(ResultEnvelope)
    BY <1>3, <1>7 DEF Reports, TaskType
  <2>2. TaskType(Task(x)')
    BY <1>3, <1>7, <2>1 DEF Reports, SameWork, TaskType
  <2>3. Append(reported[x], Head(Task(x).results)) \in Seq(ResultEnvelope)
    BY <2>1 DEF NetworkType
  <2> QED
    BY <1>7, <2>2, <2>3 DEF Reports, NetworkType
<1>8. CASE Restarts(x)
  <2>1. TaskType(Task(x)')
    BY <1>8 DEF Restarts, TaskType, A!LoraPc
  <2>2. 0 \in 0 .. MaxRequests /\ <<>> \in Seq(ResultEnvelope)
    BY RequestsAssumption
  <2>3. Restart(x)
    BY <1>8 DEF Restarts
  <2>4. /\ heard' \in [Board -> Envelope \cup {None}]
        /\ asked' \in [Board -> 0 .. MaxRequests]
        /\ restarts' \in [Board -> Nat]
    BY <2>2, <2>3 DEF Restart, NetworkType
  <2>5. opened' \in [Board -> SUBSET SeqNum]
    BY <2>3 DEF Restart, NetworkType
  <2>6. reported' \in [Board -> Seq(ResultEnvelope)]
    BY <2>2, <2>3 DEF Restart, NetworkType
  <2> QED
    BY <2>1, <2>4, <2>5, <2>6
<1> QED
  BY <1>4, <1>5, <1>6, <1>7, <1>8 DEF Step

----------------------------------------------------------------------------
(***************************************************************************)
(* Whose turn it is to speak.                                              *)
(***************************************************************************)
LEMMA IteratesAcking ==
    ASSUME NEW v, NEW w, NEW p, NEW queued,
           v.forward \in Seq(RequestEnvelope),
           Iterates(v, w, p, queued), Acking(w)
    PROVE  Has(p, "Ack")
<1> USE DEF Acking, Held, Has
<1>1. CASE p = None /\ Takes(v, w, queued)
  <2>1. Head(v.forward) \in RequestEnvelope
    BY <1>1 DEF Takes
  <2>2. /\ Head(v.forward).msg_type = "Open"
        /\ SendFailed(Head(v.forward)).msg_type = "Reply"
    BY <2>1 DEF RequestEnvelope, SendFailed, NewEnvelope
  <2> QED
    BY <1>1, <2>2 DEF Iterates, Takes
<1> QED
  BY <1>1 DEF Iterates

\* A poll does not make a board acknowledge, and one that sends an Open leaves
\* it with nothing to acknowledge.
LEMMA PollAcking ==
    ASSUME NEW v, NEW w, TaskType(v), TaskPoll(v, w), Acking(w)
    PROVE  /\ Acking(v)
           /\ v.pc \in A!Transmitting => ~Has(v.hand, "Open")
<1>1. v.forward \in Seq(RequestEnvelope)
  BY DEF TaskType
<1>2. CASE Listens(v, w)
  BY <1>1, <1>2, IteratesAcking
  DEF Listens, Acking, Held, Has, A!Transmitting
<1>3. CASE Closes(v, w)
  BY <1>1, <1>3, IteratesAcking DEF Closes, Has
<1>4. CASE Acknowledges(v, w)
  BY <1>1, <1>4, IteratesAcking DEF Acknowledges, Acking, Held, Has
<1>5. CASE Waits(v, w)
  BY <1>5
  DEF Waits, TaskType, Acking, Held, Has, RequestEnvelope, NewEnvelope,
      A!Transmitting
<1>6. CASE Fails(v, w)
  BY <1>6
  DEF Fails, TaskType, Acking, Held, Has, SendFailed, NewEnvelope
<1> QED
  BY <1>2, <1>3, <1>4, <1>5, <1>6 DEF TaskPoll

LEMMA HearingAcking ==
    ASSUME NEW v, NEW w, NEW e, v.forward \in Seq(RequestEnvelope),
           TaskHears(v, w, e), Acking(w)
    PROVE  Acking(v) \/ e.msg_type = "Open"
<1>1. CASE Iterates(v, w, None, v.results) \/ Iterates(v, w, v.pending, v.results)
  BY <1>1, IteratesAcking DEF Acking, Held, Has
<1>2. CASE w.pending = v.pending /\ w.hand = NewEnvelope("Reply", v.pending.seq, "ackReceived")
  BY <1>2 DEF Acking, Held, Has, NewEnvelope
<1> QED
  BY <1>1, <1>2 DEF TaskHears

LEMMA InitTurns == Init => Turns
BY DEF Init, A!LoraInit, B!LoraInit, Task, Turns, Turn, Acking, Held, Has, Board,
       Other

LEMMA StepTurns ==
    ASSUME NetworkType, Turns, NEW x \in Board, Step(x)
    PROVE  Turns'
<1> DEFINE y == Other(x)
<1>1. /\ y \in Board
      /\ Other(y) = x
      /\ x # y
      /\ \A z \in Board : z = x \/ z = y
  BY Boards
<1>2. SUFFICES /\ Turn(Task(x)', Task(y), heard'[x], heard'[y])
               /\ Turn(Task(y), Task(x)', heard'[y], heard'[x])
  BY <1>1 DEF Step, Turns
<1> DEFINE v == Task(x)
<1> DEFINE u == Task(y)
<1> DEFINE w == Task(x)'
<1>3. /\ Turn(v, u, heard[x], heard[y])
      /\ Turn(u, v, heard[y], heard[x])
      /\ TaskType(v)
      /\ v.forward \in Seq(RequestEnvelope)
  BY <1>1 DEF Turns, NetworkType, TaskType
<1>4. heard \in [Board -> Envelope \cup {None}]
  BY DEF NetworkType
<1>5. CASE Polls(x)
  <2>1. /\ TaskPoll(v, w)
        /\ heard[x] = None
        /\ heard'[x] = None
        /\ \/ heard'[y] = heard[y]
           \/ /\ v.pc \in A!Transmitting
              /\ u.pc = "rx"
              /\ heard'[y] = v.hand
    BY <1>1, <1>3, <1>4, <1>5 DEF Polls, Turn
  <2>2. Acking(w) => Acking(v) /\ (v.pc \in A!Transmitting => ~Has(v.hand, "Open"))
    BY <1>3, <2>1, PollAcking
  <2>3. Has(v.hand, "Ack") => Acking(v)
    BY DEF Acking, Held
  <2> HIDE DEF v, u, w, y
  <2>4. Turn(w, u, heard'[x], heard'[y])
    BY <1>3, <2>1, <2>2 DEF Turn, Has
  <2>5. Turn(u, w, heard'[y], heard'[x])
    BY <1>3, <2>1, <2>2, <2>3 DEF Turn, Has
  <2> QED
    BY <2>4, <2>5 DEF v, u, w, y
<1>6. CASE Hears(x)
  <2>1. /\ TaskHears(v, w, heard[x])
        /\ heard[x] # None
        /\ heard'[x] = None
        /\ heard'[y] = None
    BY <1>1, <1>3, <1>4, <1>6 DEF Hears, Turn
  <2>2. Acking(w) => Acking(v) \/ heard[x].msg_type = "Open"
    BY <1>3, <2>1, HearingAcking
  <2> QED
    BY <1>3, <2>1, <2>2 DEF Turn, Has
<1>7. CASE IsAsked(x) \/ Reports(x)
  <2>1. /\ heard' = heard
        /\ w.pc = v.pc
        /\ Acking(w) <=> Acking(v)
    BY <1>7 DEF IsAsked, Reports, SameWork, Acking, Held
  <2> QED
    BY <1>3, <2>1 DEF Turn
<1>8. CASE Restarts(x)
  <2>1. /\ heard'[x] = None
        /\ heard'[y] = heard[y]
    BY <1>1, <1>4, <1>8 DEF Restarts, Restart
  <2>2. ~Acking(w)
    BY <1>8 DEF Restarts, Acking, Held, Has
  <2> QED
    BY <1>3, <2>1, <2>2 DEF Turn, Has
<1> QED
  BY <1>5, <1>6, <1>7, <1>8 DEF Step

----------------------------------------------------------------------------
(***************************************************************************)
(* A success is reported only of a request that has been obeyed.           *)
(***************************************************************************)
LEMMA AppendClaim ==
    ASSUME NEW s \in Seq(ResultEnvelope), NEW r \in ResultEnvelope, NEW S,
           \A i \in DOMAIN s : IsSuccess(s[i]) => s[i].seq \in S,
           IsSuccess(r) => r.seq \in S
    PROVE  \A i \in DOMAIN Append(s, r) :
              IsSuccess(Append(s, r)[i]) => Append(s, r)[i].seq \in S
<1> SUFFICES ASSUME NEW i \in DOMAIN Append(s, r)
             PROVE  IsSuccess(Append(s, r)[i]) => Append(s, r)[i].seq \in S
  OBVIOUS
<1>1. (i \in DOMAIN s /\ Append(s, r)[i] = s[i]) \/ Append(s, r)[i] = r
  OBVIOUS
<1> QED
  BY <1>1

LEMMA IteratesClaims ==
    ASSUME NEW v, NEW w, NEW p \in PendingEnvelope \cup {None},
           NEW queued \in Seq(ResultEnvelope), NEW S,
           v.forward \in Seq(RequestEnvelope),
           \A i \in DOMAIN queued : IsSuccess(queued[i]) => queued[i].seq \in S,
           Iterates(v, w, p, queued)
    PROVE  ClaimsIn(w, S)
<1>1. CASE p = None /\ Takes(v, w, queued)
  <2> DEFINE e == Head(v.forward)
  <2>1. e \in Envelope /\ e.msg_type = "Open"
    BY <1>1 DEF Takes, RequestEnvelope
  <2>2. SendFailed(e) \in ResultEnvelope /\ ~IsSuccess(SendFailed(e))
    BY <2>1, EnvelopeTypes DEF IsSuccess
  <2>3. \A i \in DOMAIN Append(queued, SendFailed(e)) :
            IsSuccess(Append(queued, SendFailed(e))[i]) =>
                Append(queued, SendFailed(e))[i].seq \in S
    BY <2>2, AppendClaim
  <2>4. /\ \/ w.hand \in {e, None}
           \/ w.hand = SendFailed(e)
        /\ \/ w.results = queued
           \/ w.results = Append(queued, SendFailed(e))
    BY <1>1 DEF Takes
  <2> HIDE DEF e
  <2> QED
    BY <2>1, <2>2, <2>3, <2>4 DEF ClaimsIn, Has
<1>2. CASE w.results = queued /\ w.hand \in {p, None}
  BY <1>2 DEF ClaimsIn, Has, PendingEnvelope, RequestEnvelope, AckEnvelope
<1> QED
  BY <1>1, <1>2 DEF Iterates

LEMMA PollClaims ==
    ASSUME NEW v, NEW w, NEW S, TaskType(v), TaskPoll(v, w), ClaimsIn(v, S)
    PROVE  ClaimsIn(w, S)
<1> DEFINE Good(s) == \A i \in DOMAIN s : IsSuccess(s[i]) => s[i].seq \in S
<1>1. /\ v.forward \in Seq(RequestEnvelope)
      /\ v.results \in Seq(ResultEnvelope)
      /\ v.pending \in PendingEnvelope \cup {None}
      /\ Good(v.results)
  BY DEF TaskType, ClaimsIn
<1>2. ASSUME v.hand \in ResultEnvelope
      PROVE  /\ Append(v.results, v.hand) \in Seq(ResultEnvelope)
             /\ Good(Append(v.results, v.hand))
  <2>1. IsSuccess(v.hand) => v.hand.seq \in S
    BY <1>2, NoneAssumption DEF ClaimsIn, Has, ResultEnvelope
  <2> QED
    BY <1>1, <1>2, <2>1, AppendClaim
<1>3. CASE Listens(v, w)
  BY <1>1, <1>3, IteratesClaims DEF Listens
<1>4. CASE Closes(v, w)
  <2>1. v.hand \in ResultEnvelope
    BY <1>4, EnvelopeTypes DEF Closes, TaskType, PendingEnvelope
  <2>2. Iterates(v, w, None, Append(v.results, v.hand))
    BY <1>4 DEF Closes
  <2> QED
    BY <1>1, <1>2, <2>1, <2>2, IteratesClaims
<1>5. CASE Acknowledges(v, w)
  BY <1>1, <1>5, IteratesClaims DEF Acknowledges, TaskType, PendingEnvelope
<1>6. CASE Waits(v, w)
  BY <1>6 DEF Waits, SameQueues, ClaimsIn, Has
<1>7. CASE Fails(v, w)
  <2>1. v.pc = "fwdTx" =>
            /\ SendFailed(v.hand) \in ResultEnvelope
            /\ ~IsSuccess(SendFailed(v.hand))
    BY EnvelopeTypes DEF TaskType, RequestEnvelope, IsSuccess
  <2>2. v.pc = "fwdTx" => Good(Append(v.results, SendFailed(v.hand)))
    BY <1>1, <2>1, AppendClaim
  <2>3. v.pc = "failWait" => Good(Append(v.results, v.hand))
    BY <1>2 DEF TaskType
  <2> QED
    BY <1>1, <1>7, <2>1, <2>2, <2>3 DEF Fails, ClaimsIn, Has
<1> QED
  BY <1>3, <1>4, <1>5, <1>6, <1>7 DEF TaskPoll

LEMMA HearingClaims ==
    ASSUME NEW v, NEW w, NEW e, NEW S, TaskType(v), TaskHears(v, w, e),
           ClaimsIn(v, S), e.msg_type = "Ack" => e.seq \in S
    PROVE  ClaimsIn(w, S)
<1>1. CASE Iterates(v, w, None, v.results) \/ Iterates(v, w, v.pending, v.results)
  BY <1>1, IteratesClaims DEF TaskType, ClaimsIn
<1>2. CASE /\ e.msg_type = "Ack"
           /\ Matches(v, e)
           /\ SameQueues(v, w)
           /\ w.hand = NewEnvelope("Reply", v.pending.seq, "ackReceived")
  BY <1>2 DEF SameQueues, Matches, ClaimsIn, NewEnvelope
<1>3. CASE SameQueues(v, w) /\ w.hand = NewEnvelope("Ack", e.seq, "ACK")
  BY <1>3 DEF SameQueues, ClaimsIn, Has, NewEnvelope
<1> QED
  BY <1>1, <1>2, <1>3 DEF TaskHears

\* What a board acknowledges next is what it acknowledged before, or the Open it
\* has just heard.
LEMMA IteratesAcks ==
    ASSUME NEW v, NEW w, NEW p, NEW queued, NEW S,
           v.forward \in Seq(RequestEnvelope),
           Has(p, "Ack") => p.seq \in S,
           Iterates(v, w, p, queued)
    PROVE  AcksIn(w, S)
<1> USE DEF AcksIn, Held, Has
<1>1. CASE p = None /\ Takes(v, w, queued)
  <2>1. Head(v.forward) \in RequestEnvelope
    BY <1>1 DEF Takes
  <2>2. /\ Head(v.forward).msg_type = "Open"
        /\ SendFailed(Head(v.forward)).msg_type = "Reply"
    BY <2>1 DEF RequestEnvelope, SendFailed, NewEnvelope
  <2> QED
    BY <1>1, <2>2 DEF Iterates, Takes
<1> QED
  BY <1>1 DEF Iterates

LEMMA PollAcks ==
    ASSUME NEW v, NEW w, NEW S, TaskType(v), TaskPoll(v, w), AcksIn(v, S)
    PROVE  AcksIn(w, S)
<1>1. v.forward \in Seq(RequestEnvelope)
  BY DEF TaskType
<1>2. /\ Has(v.pending, "Ack") => v.pending.seq \in S
      /\ Has(v.hand, "Ack") => v.hand.seq \in S
  BY DEF AcksIn, Held
<1>3. CASE Listens(v, w) \/ Closes(v, w) \/ Acknowledges(v, w)
  BY <1>1, <1>2, <1>3, IteratesAcks DEF Listens, Closes, Acknowledges, Has
<1>4. CASE Waits(v, w) \/ Fails(v, w)
  BY <1>2, <1>4 DEF Waits, Fails, AcksIn, Held, Has, SendFailed, NewEnvelope
<1> QED
  BY <1>3, <1>4 DEF TaskPoll

LEMMA HearingAcks ==
    ASSUME NEW v, NEW w, NEW e, NEW S, NEW T, v.forward \in Seq(RequestEnvelope),
           TaskHears(v, w, e), AcksIn(v, S),
           S \subseteq T, e.msg_type = "Open" => e.seq \in T
    PROVE  AcksIn(w, T)
<1>1. CASE Iterates(v, w, None, v.results) \/ Iterates(v, w, v.pending, v.results)
  BY <1>1, IteratesAcks DEF AcksIn, Held, Has
<1>2. CASE /\ w.pending = v.pending
           /\ \/ w.hand = NewEnvelope("Reply", v.pending.seq, "ackReceived")
              \/ /\ e.msg_type = "Open"
                 /\ w.hand = NewEnvelope("Ack", e.seq, "ACK")
  BY <1>2 DEF AcksIn, Held, Has, NewEnvelope
<1> QED
  BY <1>1, <1>2 DEF TaskHears

LEMMA InitAcks == Init => AcksAreTrue /\ AckMeansOpened
BY DEF Init, A!LoraInit, A!ChannelInit, B!LoraInit, B!ChannelInit, Task,
       AcksAreTrue, AckMeansOpened, ReportedTo, ClaimsIn, AcksIn, Held, Has, Board,
       Other

LEMMA StepAcks ==
    ASSUME NetworkType, Turns, AcksAreTrue, NEW x \in Board, Step(x)
    PROVE  AcksAreTrue'
<1> DEFINE y == Other(x)
<1> DEFINE v == Task(x)
<1> DEFINE u == Task(y)
<1> DEFINE w == Task(x)'
<1>1. /\ y \in Board
      /\ Other(y) = x
      /\ x # y
      /\ \A z \in Board : z = x \/ z = y
  BY Boards
<1>2. SUFFICES
        /\ restarts'[x] = 0 =>
              /\ ClaimsIn(w, opened'[y])
              /\ AcksIn(u, opened'[y])
              /\ Has(heard'[x], "Ack") => heard'[x].seq \in opened'[y]
        /\ restarts'[y] = 0 =>
              /\ ClaimsIn(u, opened'[x])
              /\ AcksIn(w, opened'[x])
              /\ Has(heard'[y], "Ack") => heard'[y].seq \in opened'[x]
  BY <1>1 DEF Step, AcksAreTrue
<1>3. /\ restarts[x] = 0 =>
            /\ ClaimsIn(v, opened[y])
            /\ AcksIn(u, opened[y])
            /\ Has(heard[x], "Ack") => heard[x].seq \in opened[y]
      /\ restarts[y] = 0 =>
            /\ ClaimsIn(u, opened[x])
            /\ AcksIn(v, opened[x])
            /\ Has(heard[y], "Ack") => heard[y].seq \in opened[x]
  BY <1>1 DEF AcksAreTrue
<1>4. /\ heard \in [Board -> Envelope \cup {None}]
      /\ opened \in [Board -> SUBSET SeqNum]
      /\ restarts \in [Board -> Nat]
      /\ TaskType(v)
      /\ v.forward \in Seq(RequestEnvelope)
  BY DEF NetworkType, TaskType
<1> HIDE DEF y, v, u, w
<1>5. CASE Polls(x)
  <2>1. /\ TaskPoll(v, w)
        /\ UNCHANGED <<opened, restarts>>
        /\ heard'[x] = heard[x]
        /\ heard'[y] = heard[y] \/ heard'[y] = v.hand
    BY <1>1, <1>4, <1>5 DEF Polls, v, w, y
  <2>2. restarts[x] = 0 => ClaimsIn(w, opened[y])
    BY <1>3, <1>4, <2>1, PollClaims
  <2>3. restarts[y] = 0 =>
            /\ AcksIn(w, opened[x])
            /\ Has(v.hand, "Ack") => v.hand.seq \in opened[x]
    BY <1>3, <1>4, <2>1, PollAcks DEF AcksIn, Held
  <2> QED
    BY <1>3, <2>1, <2>2, <2>3
<1>6. CASE Hears(x)
  <2>1. /\ TaskHears(v, w, heard[x])
        /\ heard[x] # None
        /\ heard'[x] = None
        /\ heard'[y] = heard[y]
        /\ restarts' = restarts
        /\ opened'[y] = opened[y]
        /\ opened[x] \subseteq opened'[x]
        /\ heard[x].msg_type = "Open" => heard[x].seq \in opened'[x]
    BY <1>1, <1>4, <1>6 DEF Hears, Obeyed, v, w, y
  <2>2. restarts[x] = 0 => ClaimsIn(w, opened[y])
    BY <1>3, <1>4, <2>1, HearingClaims DEF Has
  <2>3. restarts[y] = 0 => AcksIn(w, opened'[x])
    BY <1>3, <1>4, <2>1, HearingAcks
  <2>4. restarts[y] = 0 => ClaimsIn(u, opened'[x])
    BY <1>3, <2>1 DEF ClaimsIn
  <2> QED
    BY <1>3, <2>1, <2>2, <2>3, <2>4 DEF Has
<1>7. CASE IsAsked(x) \/ Reports(x)
  <2>1. /\ UNCHANGED <<heard, opened, restarts>>
        /\ w.pending = v.pending /\ w.hand = v.hand
    BY <1>7 DEF IsAsked, Reports, SameWork, v, w
  <2>2. \/ w.results = v.results
        \/ v.results # <<>> /\ w.results = Tail(v.results)
    BY <1>7 DEF IsAsked, Reports, v, w
  <2>3. v.results \in Seq(ResultEnvelope)
    BY <1>4 DEF TaskType
  <2>4. v.results # <<>> =>
            \A i \in DOMAIN Tail(v.results) :
                i + 1 \in DOMAIN v.results /\ Tail(v.results)[i] = v.results[i + 1]
    BY <2>3
  <2>5. restarts[x] = 0 => ClaimsIn(w, opened[y])
    BY <1>3, <2>1, <2>2, <2>4 DEF ClaimsIn
  <2>6. restarts[y] = 0 => AcksIn(w, opened[x])
    BY <1>3, <2>1 DEF AcksIn, Held
  <2> QED
    BY <1>3, <2>1, <2>5, <2>6
<1>8. CASE Restarts(x)
  <2>1. /\ restarts'[x] # 0
        /\ restarts'[y] = restarts[y]
        /\ heard'[y] = heard[y]
        /\ opened'[x] = opened[x]
    BY <1>1, <1>4, <1>8 DEF Restarts, Restart, y
  <2>2. AcksIn(w, opened[x])
    BY <1>8 DEF Restarts, AcksIn, Held, Has, w
  <2> QED
    BY <1>3, <2>1, <2>2
<1> QED
  BY <1>5, <1>6, <1>7, <1>8 DEF Step

LEMMA StepAckMeansOpened ==
    ASSUME NetworkType, AcksAreTrue, AckMeansOpened, NEW x \in Board, Step(x)
    PROVE  AckMeansOpened'
<1> SUFFICES ASSUME NEW z \in Board, restarts'[z] = 0,
                    NEW i \in DOMAIN reported'[z],
                    reported'[z][i].payload = "ackReceived"
             PROVE  reported'[z][i].seq \in opened'[Other(z)]
  BY DEF AckMeansOpened, ReportedTo
<1>1. /\ Other(x) \in Board
      /\ Other(z) \in Board
      /\ Other(Other(z)) = z
  BY Boards
<1>2. /\ opened \in [Board -> SUBSET SeqNum]
      /\ reported \in [Board -> Seq(ResultEnvelope)]
      /\ restarts \in [Board -> Nat]
      /\ Task(x).results \in Seq(ResultEnvelope)
  BY DEF NetworkType, TaskType
<1>3. ASSUME restarts[z] = 0, reported'[z] = reported[z]
      PROVE  reported'[z][i].seq \in opened[Other(z)]
  BY <1>3 DEF AckMeansOpened, ReportedTo
<1>4. CASE Polls(x) \/ IsAsked(x)
  BY <1>3, <1>4 DEF Polls, IsAsked
<1>5. CASE Hears(x)
  BY <1>1, <1>2, <1>3, <1>5 DEF Hears, Obeyed
<1>6. CASE Reports(x)
  <2>1. CASE z = x
    <3>1. /\ restarts[x] = 0
          /\ opened' = opened
          /\ reported'[x] = Append(reported[x], Head(Task(x).results))
          /\ Task(x).results # <<>>
      BY <1>2, <1>6, <2>1 DEF Reports
    <3>2. IsSuccess(Head(Task(x).results)) =>
              Head(Task(x).results).seq \in opened[Other(x)]
      BY <1>2, <3>1 DEF AcksAreTrue, ClaimsIn
    <3>3. \A j \in DOMAIN reported[x] : IsSuccess(reported[x][j]) =>
              reported[x][j].seq \in opened[Other(x)]
      BY <3>1 DEF AckMeansOpened, ReportedTo, IsSuccess
    <3>4. reported[x] \in Seq(ResultEnvelope) /\ Head(Task(x).results) \in ResultEnvelope
      BY <1>2, <3>1
    <3> QED
      BY <2>1, <3>1, <3>2, <3>3, <3>4, AppendClaim DEF IsSuccess
  <2>2. CASE z # x
    BY <1>2, <1>3, <1>6, <2>2 DEF Reports
  <2> QED
    BY <2>1, <2>2
<1>7. CASE Restarts(x)
  <2>1. z # x
    BY <1>2, <1>7 DEF Restarts, Restart
  <2>2. Other(x) = z /\ Other(z) = x
    BY <2>1 DEF Board, Other
  <2> QED
    BY <1>1, <1>2, <1>3, <1>7, <2>1, <2>2 DEF Restarts, Restart
<1> QED
  BY <1>4, <1>5, <1>6, <1>7 DEF Step

----------------------------------------------------------------------------
(***************************************************************************)
(* Requests stay in the order of their numbers.                            *)
(***************************************************************************)
LEMMA AppendNumbers ==
    ASSUME NEW s \in Seq(Envelope), NEW r \in Envelope
    PROVE  /\ NumbersOf(Append(s, r)) = NumbersOf(s) \cup {r.seq}
           /\ Increasing(s) /\ Below(NumbersOf(s), {r.seq}) => Increasing(Append(s, r))
<1> DEFINE t == Append(s, r)
<1>1. /\ t \in Seq(Envelope)
      /\ Len(s) \in Nat
      /\ Len(t) = Len(s) + 1
      /\ DOMAIN s = 1 .. Len(s)
      /\ DOMAIN t = 1 .. Len(s) + 1
      /\ \A i \in 1 .. Len(s) : t[i] = s[i]
      /\ t[Len(s) + 1] = r
  OBVIOUS
<1> HIDE DEF t
<1>2. \A i \in DOMAIN t : i \in DOMAIN s \/ i = Len(s) + 1
  BY <1>1
<1>3. NumbersOf(t) = NumbersOf(s) \cup {r.seq}
  BY <1>1, <1>2 DEF NumbersOf
<1>4. ASSUME Increasing(s), Below(NumbersOf(s), {r.seq}),
             NEW i \in DOMAIN t, NEW j \in DOMAIN t, i < j
      PROVE  t[i].seq < t[j].seq
  BY <1>1, <1>4 DEF Increasing, Below, NumbersOf
<1> QED
  BY <1>3, <1>4 DEF Increasing, t

LEMMA TailNumbers ==
    ASSUME NEW s \in Seq(Envelope), s # <<>>
    PROVE  /\ NumbersOf(s) = {Head(s).seq} \cup NumbersOf(Tail(s))
           /\ Increasing(s) => /\ Increasing(Tail(s))
                              /\ Below({Head(s).seq}, NumbersOf(Tail(s)))
<1> DEFINE t == Tail(s)
<1>1. /\ t \in Seq(Envelope)
      /\ Len(s) \in Nat \ {0}
      /\ Len(t) = Len(s) - 1
      /\ DOMAIN s = 1 .. Len(s)
      /\ DOMAIN t = 1 .. Len(s) - 1
      /\ \A i \in 1 .. Len(s) - 1 : t[i] = s[i + 1]
      /\ Head(s) = s[1]
  OBVIOUS
<1> HIDE DEF t
<1>2. NumbersOf(s) = {s[1].seq} \cup NumbersOf(t)
  <2>1. ASSUME NEW i \in DOMAIN s
        PROVE  s[i].seq \in {s[1].seq} \cup NumbersOf(t)
    <3>1. i = 1 \/ (i - 1 \in DOMAIN t /\ t[i - 1] = s[i])
      BY <1>1
    <3> QED
      BY <3>1 DEF NumbersOf
  <2>2. \A i \in DOMAIN t : t[i].seq \in NumbersOf(s)
    <3>1. \A i \in DOMAIN t : i + 1 \in DOMAIN s /\ t[i] = s[i + 1]
      BY <1>1
    <3> QED
      BY <3>1 DEF NumbersOf
  <2>3. s[1].seq \in NumbersOf(s)
    BY <1>1 DEF NumbersOf
  <2> QED
    BY <2>1, <2>2, <2>3 DEF NumbersOf
<1>3. ASSUME Increasing(s)
      PROVE  Increasing(t) /\ Below({s[1].seq}, NumbersOf(t))
  <2>1. \A i \in DOMAIN t : 1 < i + 1 /\ i + 1 \in DOMAIN s /\ t[i] = s[i + 1]
    BY <1>1
  <2>2. Below({s[1].seq}, NumbersOf(t))
    BY <1>1, <1>3, <2>1 DEF Increasing, Below, NumbersOf
  <2>3. ASSUME NEW i \in DOMAIN t, NEW j \in DOMAIN t, i < j
        PROVE  t[i].seq < t[j].seq
    <3>1. i + 1 < j + 1
      BY <1>1, <2>3
    <3> QED
      BY <1>3, <2>1, <3>1 DEF Increasing
  <2> QED
    BY <2>2, <2>3 DEF Increasing
<1> QED
  BY <1>1, <1>2, <1>3 DEF t

\* A board works on less.
LEMMA LineShrinks ==
    ASSUME NEW told, NEW done, NEW working, NEW waiting, NEW last, NEW less,
           Line(told, done, working, waiting, last), less \subseteq working
    PROVE  Line(told, done, less, waiting, last)
BY DEF Line, Below

\* It takes the next request, once it works on nothing else.
LEMMA LineTakes ==
    ASSUME NEW told, NEW done, NEW working, NEW waiting \in Seq(Envelope), NEW last,
           Line(told, done, working, waiting, last), waiting # <<>>
    PROVE  Line(told, done, {Head(waiting).seq}, Tail(waiting), last)
BY TailNumbers DEF Line, Below

\* What it works on is done.
LEMMA LineEnds ==
    ASSUME NEW told, NEW done \in Seq(Envelope), NEW working, NEW waiting, NEW last,
           Line(told, done, working, waiting, last),
           NEW r \in Envelope, r.seq \in working
    PROVE  Line(told, Append(done, r), {}, waiting, last)
BY AppendNumbers DEF Line, Below

\* MQTT is told of the oldest result.
LEMMA LineTells ==
    ASSUME NEW told, NEW done \in Seq(Envelope), NEW working, NEW waiting, NEW last,
           Line(told, done, working, waiting, last), done # <<>>
    PROVE  Line(told \cup {Head(done).seq}, Tail(done), working, waiting, last)
BY TailNumbers DEF Line, Below

\* MQTT makes a new request.
LEMMA LineGrows ==
    ASSUME NEW told, NEW done, NEW working, NEW waiting \in Seq(Envelope),
           NEW last \in Nat, Line(told, done, working, waiting, last),
           NEW r \in Envelope, r.seq = last + 1
    PROVE  Line(told, done, working, Append(waiting, r), last + 1)
<1>1. /\ 1 .. last \subseteq 1 .. last + 1
      /\ last + 1 \in 1 .. last + 1
      /\ \A n \in 1 .. last : n < last + 1
  OBVIOUS
<1>2. NumbersOf(Append(waiting, r)) = NumbersOf(waiting) \cup {last + 1}
  BY AppendNumbers
<1>3. Below(NumbersOf(waiting), {r.seq})
  BY <1>1 DEF Line, Below
<1>4. Increasing(Append(waiting, r))
  BY <1>3, AppendNumbers DEF Line
<1> QED
  BY <1>1, <1>2, <1>4 DEF Line, Below

LEMMA ChannelsHoldEnvelopes ==
    /\ \A s \in Seq(RequestEnvelope) : s \in Seq(Envelope)
    /\ \A s \in Seq(ResultEnvelope) : s \in Seq(Envelope)
BY DEF RequestEnvelope, ResultEnvelope

LEMMA IteratesOrder ==
    ASSUME NEW v, NEW w, NEW p, NEW queued \in Seq(ResultEnvelope), NEW N,
           NEW told, NEW last,
           v.forward \in Seq(RequestEnvelope),
           Has(p, "Reply") => FALSE, Has(p, "Open") => p.seq \in N,
           Line(told, queued, N, v.forward, last),
           Iterates(v, w, p, queued)
    PROVE  Line(told, w.results, InFlight(w), w.forward, last)
<1> USE DEF InFlight, Held, Has
<1>1. CASE p = None /\ Takes(v, w, queued)
  <2> DEFINE e == Head(v.forward)
  <2>1. /\ v.forward \in Seq(Envelope)
        /\ queued \in Seq(Envelope)
        /\ e \in Envelope
        /\ v.forward # <<>>
        /\ w.forward = Tail(v.forward)
        /\ w.pending = None
    BY <1>1, ChannelsHoldEnvelopes DEF Takes, Iterates, RequestEnvelope
  <2>2. Line(told, queued, {e.seq}, w.forward, last)
    BY <2>1, LineTakes
  <2>3. SendFailed(e) \in Envelope /\ SendFailed(e).seq = e.seq
    BY <2>1, EnvelopeTypes DEF ResultEnvelope
  <2> HIDE DEF e
  <2>4. Line(told, Append(queued, SendFailed(e)), {}, w.forward, last)
    BY <2>1, <2>2, <2>3, LineEnds
  <2>5. CASE w.hand \in {e, SendFailed(e)} /\ w.results = queued
    <3>1. InFlight(w) \subseteq {e.seq}
      BY <2>1, <2>3, <2>5
    <3> QED
      BY <2>2, <2>5, <3>1, LineShrinks
  <2>6. CASE w.hand = None /\ w.results = Append(queued, SendFailed(e))
    <3>1. InFlight(w) \subseteq {}
      BY <2>1, <2>6
    <3> QED
      BY <2>4, <2>6, <3>1, LineShrinks
  <2> QED
    BY <1>1, <2>5, <2>6 DEF Takes, e
<1>2. CASE /\ w.pending = p
           /\ w.hand \in {p, None}
           /\ w.forward = v.forward
           /\ w.results = queued
  <2>1. InFlight(w) \subseteq N
    BY <1>2
  <2> QED
    BY <1>2, <2>1, LineShrinks
<1> QED
  BY <1>1, <1>2 DEF Iterates

LEMMA PendingIsNoReply ==
    \A e \in PendingEnvelope \cup {None} : ~Has(e, "Reply")
BY DEF PendingEnvelope, RequestEnvelope, AckEnvelope, Has

LEMMA PollOrder ==
    ASSUME NEW v, NEW w, NEW told, NEW last, TaskType(v), TaskPoll(v, w),
           Line(told, v.results, InFlight(v), v.forward, last)
    PROVE  Line(told, w.results, InFlight(w), w.forward, last)
<1>1. /\ v.forward \in Seq(RequestEnvelope)
      /\ v.results \in Seq(ResultEnvelope)
      /\ v.results \in Seq(Envelope)
      /\ v.pending \in PendingEnvelope \cup {None}
  BY ChannelsHoldEnvelopes DEF TaskType
<1>2. /\ Has(v.pending, "Open") => v.pending.seq \in InFlight(v)
      /\ Has(v.hand, "Open") \/ Has(v.hand, "Reply") => v.hand.seq \in InFlight(v)
  BY DEF InFlight, Held
<1>3. CASE Listens(v, w)
  BY <1>1, <1>2, <1>3, IteratesOrder, PendingIsNoReply DEF Listens
<1>4. CASE Closes(v, w)
  <2>1. v.hand \in ResultEnvelope
    BY <1>4, EnvelopeTypes DEF Closes, TaskType, PendingEnvelope
  <2>2. Append(v.results, v.hand) \in Seq(ResultEnvelope)
    BY <1>1, <2>1
  <2>3. v.hand \in Envelope /\ v.hand.seq \in InFlight(v)
    BY <1>2, <2>1, NoneAssumption DEF ResultEnvelope, Has
  <2>4. Line(told, Append(v.results, v.hand), {}, v.forward, last)
    BY <1>1, <2>3, LineEnds
  <2>5. Iterates(v, w, None, Append(v.results, v.hand))
    BY <1>4 DEF Closes
  <2>6. ~Has(None, "Reply") /\ ~Has(None, "Open")
    BY DEF Has
  <2> QED
    BY <1>1, <2>2, <2>4, <2>5, <2>6, IteratesOrder
<1>5. CASE Acknowledges(v, w)
  <2>1. ~Has(v.hand, "Reply") /\ ~Has(v.hand, "Open")
    BY <1>5 DEF Acknowledges, TaskType, AckEnvelope, Has
  <2> QED
    BY <1>1, <1>5, <2>1, IteratesOrder DEF Acknowledges
<1>6. CASE Waits(v, w)
  <2>1. InFlight(w) \subseteq InFlight(v)
    BY <1>6 DEF Waits, InFlight, Held, Has
  <2> QED
    BY <1>6, <2>1, LineShrinks DEF Waits, SameQueues
<1>7. CASE Fails(v, w)
  <2>1. v.pc = "fwdTx" =>
            /\ v.pending = None
            /\ v.hand.seq \in InFlight(v)
            /\ SendFailed(v.hand) \in Envelope
            /\ SendFailed(v.hand).seq = v.hand.seq
    BY <1>2, EnvelopeTypes, NoneAssumption
    DEF TaskType, RequestEnvelope, ResultEnvelope, Has
  <2>2. v.pc = "failWait" =>
            /\ v.pending = None
            /\ v.hand.seq \in InFlight(v)
            /\ v.hand \in Envelope
    BY <1>2, NoneAssumption DEF TaskType, ResultEnvelope, Has
  <2>3. w.hand = None /\ w.pending = None => InFlight(w) = {}
    BY DEF InFlight, Held, Has
  <2>4. CASE w.results = Append(v.results, SendFailed(v.hand)) /\ v.pc = "fwdTx" /\ w.hand = None
    <3>1. Line(told, Append(v.results, SendFailed(v.hand)), {}, v.forward, last)
      BY <1>1, <2>1, <2>4, LineEnds
    <3> QED
      BY <1>7, <2>1, <2>3, <2>4, <3>1 DEF Fails
  <2>5. CASE w.results = Append(v.results, v.hand) /\ v.pc = "failWait" /\ w.hand = None
    <3>1. Line(told, Append(v.results, v.hand), {}, v.forward, last)
      BY <1>1, <2>2, <2>5, LineEnds
    <3> QED
      BY <1>7, <2>2, <2>3, <2>5, <3>1 DEF Fails
  <2>6. CASE v.pc = "fwdTx" /\ w.hand = SendFailed(v.hand) /\ w.results = v.results
    <3>1. InFlight(w) \subseteq InFlight(v)
      BY <1>7, <2>1, <2>6 DEF Fails, InFlight, Held, Has
    <3> QED
      BY <1>7, <2>6, <3>1, LineShrinks DEF Fails
  <2> QED
    BY <1>7, <2>4, <2>5, <2>6 DEF Fails
<1> QED
  BY <1>3, <1>4, <1>5, <1>6, <1>7 DEF TaskPoll

LEMMA HearingOrder ==
    ASSUME NEW v, NEW w, NEW told, NEW last, NEW e, TaskType(v),
           e.msg_type = "Ack" => ~Acking(v), TaskHears(v, w, e),
           Line(told, v.results, InFlight(v), v.forward, last)
    PROVE  Line(told, w.results, InFlight(w), w.forward, last)
<1>1. /\ v.forward \in Seq(RequestEnvelope)
      /\ v.results \in Seq(ResultEnvelope)
      /\ v.pending \in PendingEnvelope \cup {None}
  BY DEF TaskType
<1>2. Has(v.pending, "Open") => v.pending.seq \in InFlight(v)
  BY DEF InFlight, Held
<1>3. CASE Iterates(v, w, None, v.results) \/ Iterates(v, w, v.pending, v.results)
  <2>1. ~Has(None, "Reply") /\ ~Has(None, "Open")
    BY DEF Has
  <2> QED
    BY <1>1, <1>2, <1>3, <2>1, IteratesOrder, PendingIsNoReply
<1>4. CASE /\ e.msg_type = "Ack" /\ Matches(v, e)
           /\ SameQueues(v, w) /\ w.pending = v.pending
           /\ w.hand = NewEnvelope("Reply", v.pending.seq, "ackReceived")
  <2>1. Has(v.pending, "Open")
    BY <1>1, <1>4
    DEF Matches, Acking, Held, Has, PendingEnvelope, RequestEnvelope, AckEnvelope
  <2>2. InFlight(w) \subseteq InFlight(v)
    BY <1>2, <1>4, <2>1 DEF InFlight, Held, Has, NewEnvelope
  <2> QED
    BY <1>4, <2>2, LineShrinks DEF SameQueues
<1>5. CASE /\ SameQueues(v, w) /\ w.pending = v.pending
           /\ w.hand = NewEnvelope("Ack", e.seq, "ACK")
  <2>1. InFlight(w) \subseteq InFlight(v)
    BY <1>5 DEF InFlight, Held, Has, NewEnvelope
  <2> QED
    BY <1>5, <2>1, LineShrinks DEF SameQueues
<1> QED
  BY <1>3, <1>4, <1>5 DEF TaskHears

LEMMA InitOrder == Init => Order /\ OpensAreAsked
<1> SUFFICES ASSUME Init PROVE Order /\ OpensAreAsked
  OBVIOUS
<1>1. OpensAreAsked
  BY DEF Init, OpensAreAsked, Has
<1>2. ASSUME NEW x \in Board
      PROVE  Line(NumbersOf(reported[x]), Task(x).results, InFlight(Task(x)),
                  Task(x).forward, asked[x])
  <2>1. /\ reported[x] = <<>>
        /\ Task(x).results = <<>>
        /\ Task(x).forward = <<>>
        /\ Task(x).pending = None
        /\ Task(x).hand = None
    BY DEF Init, A!LoraInit, A!ChannelInit, B!LoraInit, B!ChannelInit, Task
  <2>2. InFlight(Task(x)) = {}
    BY <2>1 DEF InFlight, Held, Has
  <2>3. NumbersOf(<<>>) = {}
    BY DEF NumbersOf
  <2> QED
    BY <2>1, <2>2, <2>3 DEF Line, Increasing, Below
<1> QED
  BY <1>1, <1>2 DEF Order

LEMMA StepOrder ==
    ASSUME NetworkType, Turns, Order, NEW x \in Board, Step(x)
    PROVE  Order'
<1> DEFINE v == Task(x)
<1> DEFINE w == Task(x)'
<1> DEFINE told == NumbersOf(reported[x])
<1>1. /\ Other(x) \in Board
      /\ Other(x) # x
      /\ \A z \in Board : z = x \/ z = Other(x)
  BY Boards
<1>2. /\ asked \in [Board -> 0 .. MaxRequests]
      /\ reported \in [Board -> Seq(ResultEnvelope)]
      /\ heard \in [Board -> Envelope \cup {None}]
      /\ TaskType(v)
      /\ v.results \in Seq(ResultEnvelope)
      /\ v.results \in Seq(Envelope)
      /\ v.forward \in Seq(Envelope)
  BY ChannelsHoldEnvelopes DEF NetworkType, TaskType
<1>3. Line(told, v.results, InFlight(v), v.forward, asked[x])
  BY DEF Order
<1>4. ASSUME asked'[Other(x)] = asked[Other(x)],
             reported'[Other(x)] = reported[Other(x)],
             Line(NumbersOf(reported'[x]), w.results, InFlight(w), w.forward,
                  asked'[x])
      PROVE  Order'
  BY <1>1, <1>4 DEF Order, Step
<1> HIDE DEF v, w, told
<1>5. CASE Polls(x)
  <2>1. Line(told, w.results, InFlight(w), w.forward, asked[x])
    BY <1>2, <1>3, <1>5, PollOrder DEF Polls, v, w
  <2> QED
    BY <1>4, <1>5, <2>1 DEF Polls, told
<1>6. CASE Hears(x)
  <2>1. heard[x].msg_type = "Ack" => ~Acking(v)
    BY <1>6 DEF Hears, Turns, Turn, Has, v
  <2>2. Line(told, w.results, InFlight(w), w.forward, asked[x])
    BY <1>2, <1>3, <1>6, <2>1, HearingOrder DEF Hears, v, w
  <2> QED
    BY <1>4, <1>6, <2>2 DEF Hears, told
<1>7. CASE IsAsked(x)
  <2> PICK p \in RequestPayload : w.forward = Append(v.forward, Request(x, p))
    BY <1>7 DEF IsAsked, v, w
  <2>1. asked[x] \in Nat /\ asked[x] + 1 \in SeqNum
    BY <1>2, <1>7, RequestsAssumption, SeqModAssumption DEF IsAsked, SeqNum
  <2>2. Request(x, p) \in Envelope /\ Request(x, p).seq = asked[x] + 1
    BY <2>1
    DEF Request, NewEnvelope, Envelope, MessageType, Payload, RequestPayload
  <2>3. Line(told, v.results, InFlight(v), Append(v.forward, Request(x, p)), asked[x] + 1)
    BY <1>2, <1>3, <2>1, <2>2, LineGrows
  <2>4. /\ asked'[x] = asked[x] + 1
        /\ asked'[Other(x)] = asked[Other(x)]
        /\ InFlight(w) = InFlight(v)
        /\ w.results = v.results
        /\ w.forward = Append(v.forward, Request(x, p))
        /\ reported' = reported
    BY <1>1, <1>2, <1>7 DEF IsAsked, SameWork, InFlight, Held, v, w
  <2> QED
    BY <1>4, <2>3, <2>4 DEF told
<1>8. CASE Reports(x)
  <2>1. /\ v.results # <<>>
        /\ asked' = asked
        /\ InFlight(w) = InFlight(v)
        /\ w.results = Tail(v.results)
        /\ w.forward = v.forward
        /\ reported'[Other(x)] = reported[Other(x)]
        /\ reported'[x] = Append(reported[x], Head(v.results))
    BY <1>1, <1>2, <1>8 DEF Reports, SameWork, InFlight, Held, v, w
  <2>2. NumbersOf(reported'[x]) = told \cup {Head(v.results).seq}
    <3>1. reported[x] \in Seq(Envelope) /\ Head(v.results) \in Envelope
      BY <1>2, <2>1, ChannelsHoldEnvelopes
    <3> QED
      BY <2>1, <3>1, AppendNumbers DEF told
  <2>3. Line(told \cup {Head(v.results).seq}, w.results, InFlight(w), w.forward, asked[x])
    <3>1. Line(told \cup {Head(v.results).seq}, Tail(v.results), InFlight(v),
               v.forward, asked[x])
      BY <1>2, <1>3, <2>1, LineTells
    <3> QED
      BY <2>1, <3>1
  <2> QED
    BY <1>4, <2>1, <2>2, <2>3
<1>9. CASE Restarts(x)
  <2>1. /\ reported'[x] = <<>>
        /\ asked'[x] = 0
        /\ asked'[Other(x)] = asked[Other(x)]
        /\ reported'[Other(x)] = reported[Other(x)]
        /\ w.results = <<>>
        /\ w.forward = <<>>
        /\ InFlight(w) = {}
    BY <1>1, <1>2, <1>9 DEF Restarts, Restart, InFlight, Held, Has, w
  <2>2. NumbersOf(<<>>) = {}
    BY DEF NumbersOf
  <2>3. Line({}, <<>>, {}, <<>>, 0)
    BY <2>2 DEF Line, Increasing, Below
  <2> QED
    BY <1>4, <2>1, <2>2, <2>3
<1> QED
  BY <1>5, <1>6, <1>7, <1>8, <1>9 DEF Step

LEMMA StepOpensAreAsked ==
    ASSUME NetworkType, Order, OpensAreAsked, NEW x \in Board, Step(x)
    PROVE  OpensAreAsked'
<1> SUFFICES ASSUME NEW z \in Board, Has(heard'[z], "Open")
             PROVE  /\ heard'[z].seq \in 1 .. MaxRequests
                    /\ restarts'[Other(z)] = 0 => heard'[z].seq <= asked'[Other(z)]
  BY DEF OpensAreAsked
<1>1. /\ heard \in [Board -> Envelope \cup {None}]
      /\ asked \in [Board -> 0 .. MaxRequests]
      /\ restarts \in [Board -> Nat]
      /\ Other(z) \in Board
      /\ Other(x) \in Board
      /\ Other(Other(x)) = x
  BY Boards DEF NetworkType
<1>2. ASSUME heard'[z] = heard[z],
             restarts'[Other(z)] = 0 => restarts[Other(z)] = 0,
             restarts'[Other(z)] = 0 => asked[Other(z)] <= asked'[Other(z)]
      PROVE  /\ heard'[z].seq \in 1 .. MaxRequests
             /\ restarts'[Other(z)] = 0 => heard'[z].seq <= asked'[Other(z)]
  <2>1. /\ heard[z].seq \in 1 .. MaxRequests
        /\ restarts[Other(z)] = 0 => heard[z].seq <= asked[Other(z)]
    BY <1>2 DEF OpensAreAsked
  <2>2. asked[Other(z)] \in Nat /\ heard[z].seq \in Nat
    BY <1>1, <2>1, RequestsAssumption
  <2>3. restarts'[Other(z)] = 0 => asked'[Other(z)] \in Nat
    BY <1>1, RequestsAssumption
    DEF Step, Polls, Hears, IsAsked, Reports, Restarts, Restart
  <2> QED
    BY <1>2, <2>1, <2>2, <2>3
<1>3. asked[Other(z)] \in Nat
  BY <1>1, RequestsAssumption
<1>4. CASE Polls(x)
  <2>1. CASE heard'[z] = heard[z]
    BY <1>2, <1>3, <1>4, <2>1 DEF Polls
  <2>2. CASE heard'[z] # heard[z]
    <3>1. /\ z = Other(x)
          /\ heard'[z] = Task(x).hand
          /\ asked' = asked
      BY <1>1, <1>4, <2>2 DEF Polls
    <3>2. Task(x).hand.seq \in InFlight(Task(x))
      BY <3>1 DEF InFlight, Held
    <3>3. Task(x).hand.seq \in 1 .. asked[x]
      BY <3>2 DEF Order, Line
    <3> QED
      BY <1>1, <3>1, <3>3, RequestsAssumption
  <2> QED
    BY <2>1, <2>2
<1>5. CASE Hears(x)
  <2>1. heard'[z] = heard[z]
    BY <1>1, <1>5 DEF Hears, Has
  <2> QED
    BY <1>2, <1>3, <1>5, <2>1 DEF Hears
<1>6. CASE IsAsked(x)
  <2>1. asked[Other(z)] <= asked'[Other(z)]
    BY <1>1, <1>3, <1>6 DEF IsAsked
  <2> QED
    BY <1>2, <1>6, <2>1 DEF IsAsked
<1>7. CASE Reports(x)
  BY <1>2, <1>3, <1>7 DEF Reports
<1>8. CASE Restarts(x)
  <2>1. heard'[z] = heard[z] /\ z = Other(x)
    BY <1>1, <1>8, Boards DEF Restarts, Restart, Has
  <2>2. restarts'[Other(z)] # 0
    BY <1>1, <1>8, <2>1 DEF Restarts, Restart
  <2> QED
    BY <1>2, <2>1, <2>2
<1> QED
  BY <1>4, <1>5, <1>6, <1>7, <1>8 DEF Step

----------------------------------------------------------------------------
(***************************************************************************)
(* The theorems.                                                           *)
(***************************************************************************)
LEMMA InitNetworkInv == Init => NetworkInv
BY InitType, InitTurns, InitAcks, InitOrder DEF NetworkInv

LEMMA NextNetworkInv == NetworkInv /\ [Next]_vars => NetworkInv'
<1> SUFFICES ASSUME NetworkInv, [Next]_vars PROVE NetworkInv'
  OBVIOUS
<1> USE DEF NetworkInv
<1>1. CASE Next
  <2>1. PICK x \in Board : Step(x)
    BY <1>1, StepOfABoard
  <2> QED
    BY <2>1, StepType, StepTurns, StepAcks, StepAckMeansOpened, StepOrder,
       StepOpensAreAsked
<1>2. CASE UNCHANGED vars
  <2>1. \A x \in Board : Task(x)' = Task(x)
    BY <1>2 DEF vars, taskA, taskB, Task
  <2>2. UNCHANGED <<heard, asked, opened, reported, restarts>>
    BY <1>2 DEF vars
  <2>3. NetworkType' /\ Turns'
    BY <2>1, <2>2, Boards DEF NetworkType, Turns
  <2>4. AcksAreTrue'
    BY <2>1, <2>2, Boards DEF AcksAreTrue
  <2>5. AckMeansOpened' /\ OpensAreAsked'
    BY <2>2 DEF AckMeansOpened, ReportedTo, OpensAreAsked
  <2>6. Order'
    BY <2>1, <2>2 DEF Order
  <2> QED
    BY <2>3, <2>4, <2>5, <2>6
<1> QED
  BY <1>1, <1>2

\* The turns of the radios, the truth of every Ack on its way and the order of the
\* numbers from MQTT to MQTT hold together, in every reachable state.
THEOREM NetworkInvariant == Spec => []NetworkInv
BY InitNetworkInv, NextNetworkInv, PTL DEF Spec

\* Whatever the radio loses, repeats or delays, and whatever the other board
\* forgets when it restarts: a board that has not restarted reports "LoRa forward
\* ACK received" only of a request the other board has opened its servo for.
THEOREM SuccessIsTrue == Spec => []AckMeansOpened
<1>1. NetworkInv => AckMeansOpened
  BY DEF NetworkInv
<1> QED
  BY <1>1, NetworkInvariant, PTL

\* It takes a restart to make the comment at line 127 of the gateway untrue: as
\* long as no board loses power, no success is reported of a request that the
\* other board has not obeyed.
THEOREM OnlyRestartsDeceive ==
    ASSUME MaxRestarts = 0
    PROVE  Spec => []AckIsForThisRequest
<1> DEFINE NoRestart == \A x \in Board : restarts[x] = 0
<1>1. Init => NoRestart
  BY DEF Init
<1>2. NoRestart /\ [Next]_vars => NoRestart'
  <2> SUFFICES ASSUME NoRestart, [Next]_vars
               PROVE  NoRestart'
    OBVIOUS
  <2>1. ~ Restart("A") /\ ~ Restart("B")
    BY DEF Restart, Board
  <2>2. restarts' = restarts
    BY <2>1, StepOfABoard
    DEF vars, Step, Polls, Hears, IsAsked, Reports, Restarts, Board
  <2> QED
    BY <2>2
<1>3. NetworkInv /\ NoRestart => AckIsForThisRequest
  BY DEF NetworkInv, AckMeansOpened, AckIsForThisRequest
<1> QED
  BY <1>1, <1>2, <1>3, NetworkInvariant, PTL DEF Spec

\* Although task_lora_gateway compares nothing but numbers, an Ack only ever ends a
\* request: it never meets the board's own Ack with the same number.
THEOREM AckNeverMeetsAck == Spec => []AckEndsRequest
<1>1. NetworkInv => AckEndsRequest
  BY DEF NetworkInv, NetworkType, TaskType, Task, Board, AckEndsRequest
<1> QED
  BY <1>1, NetworkInvariant, PTL

\* What MQTT has been told of a board's requests is in the order of their numbers.
ReportedInOrder == \A x \in Board : Increasing(reported[x])

\* Since a board was last switched on no request has two outcomes, and no outcome
\* overtakes another, although results are queued at two places of the loop, where
\* an Ack is heard and where a send has failed.
THEOREM OneOutcomeEach == Spec => []ReportedInOrder
<1>1. Init => ReportedInOrder
  BY DEF Init, ReportedInOrder, Increasing
<1>2. NetworkInv /\ ReportedInOrder /\ [Next]_vars => ReportedInOrder'
  <2> SUFFICES ASSUME NetworkInv, ReportedInOrder, Next
               PROVE  ReportedInOrder'
    BY DEF vars, ReportedInOrder
  <2>1. PICK x \in Board : Step(x)
    BY StepOfABoard
  <2>2. reported \in [Board -> Seq(ResultEnvelope)]
    BY DEF NetworkInv, NetworkType
  <2>3. CASE UNCHANGED reported
    BY <2>3 DEF ReportedInOrder
  <2>4. CASE Reports(x)
    <3> DEFINE s == Task(x).results
    <3>1. s \in Seq(Envelope) /\ reported[x] \in Seq(Envelope) /\ s # <<>>
      BY <2>2, <2>4, ChannelsHoldEnvelopes DEF NetworkInv, NetworkType, TaskType, Reports
    <3>2. Below(NumbersOf(reported[x]), {Head(s).seq})
      BY <3>1, TailNumbers DEF NetworkInv, Order, Line, Below
    <3>3. Increasing(Append(reported[x], Head(s)))
      <4>1. Head(s) \in Envelope
        BY <3>1
      <4> HIDE DEF s
      <4> QED
        BY <3>1, <3>2, <4>1, AppendNumbers DEF ReportedInOrder
    <3>4. reported' = [reported EXCEPT ![x] = Append(@, Head(s))]
      BY <2>4 DEF Reports
    <3> HIDE DEF s
    <3> QED
      BY <2>2, <3>3, <3>4 DEF ReportedInOrder
  <2>5. CASE Restarts(x)
    <3>1. Increasing(<<>>)
      BY DEF Increasing
    <3>2. reported' = [reported EXCEPT ![x] = <<>>]
      BY <2>5 DEF Restarts, Restart
    <3> QED
      BY <2>2, <3>1, <3>2 DEF ReportedInOrder
  <2> QED
    BY <2>1, <2>3, <2>4, <2>5 DEF Step, Polls, Hears, IsAsked
<1> QED
  BY <1>1, <1>2, NetworkInvariant, PTL DEF Spec

----------------------------------------------------------------------------
(***************************************************************************)
(* Two boards are a request service.                                       *)
(***************************************************************************)
Outcome(e) == [seq |-> e.seq, success |-> e.payload = "ackReceived"]

LEMMA AppendOutcome ==
    ASSUME NEW s \in Seq(Envelope), NEW r \in Envelope
    PROVE  [i \in DOMAIN Append(s, r) |-> Outcome(Append(s, r)[i])]
              = Append([i \in DOMAIN s |-> Outcome(s[i])], Outcome(r))
<1> DEFINE t == Append(s, r)
<1> DEFINE O == [seq : SeqNum, success : BOOLEAN]
<1> DEFINE os == [i \in DOMAIN s |-> Outcome(s[i])]
<1> DEFINE ot == [i \in DOMAIN t |-> Outcome(t[i])]
<1>1. /\ t \in Seq(Envelope)
      /\ Len(s) \in Nat
      /\ Len(t) = Len(s) + 1
      /\ DOMAIN s = 1 .. Len(s)
      /\ DOMAIN t = 1 .. Len(s) + 1
      /\ \A i \in 1 .. Len(s) : t[i] = s[i] /\ s[i] \in Envelope
      /\ t[Len(s) + 1] = r
  OBVIOUS
<1>2. \A e \in Envelope : Outcome(e) \in O
  BY DEF Outcome, Envelope
<1> HIDE DEF t, O
<1>3. os \in Seq(O) /\ Len(os) = Len(s)
  <2>1. os \in [1 .. Len(s) -> O]
    BY <1>1, <1>2
  <2> QED
    BY <1>1, <2>1
<1>4. ot \in Seq(O) /\ Len(ot) = Len(s) + 1
  <2>1. \A i \in 1 .. Len(s) + 1 : t[i] \in Envelope
    BY <1>1
  <2>2. ot \in [1 .. Len(s) + 1 -> O]
    BY <1>1, <1>2, <2>1
  <2> QED
    BY <1>1, <2>2
<1>5. /\ Append(os, Outcome(r)) \in Seq(O)
      /\ Len(Append(os, Outcome(r))) = Len(s) + 1
      /\ \A i \in 1 .. Len(s) : Append(os, Outcome(r))[i] = os[i]
      /\ Append(os, Outcome(r))[Len(s) + 1] = Outcome(r)
  BY <1>2, <1>3
<1>6. \A i \in 1 .. Len(s) + 1 : ot[i] = Append(os, Outcome(r))[i]
  <2>1. \A i \in 1 .. Len(s) : ot[i] = Outcome(s[i]) /\ os[i] = Outcome(s[i])
    BY <1>1
  <2>2. ot[Len(s) + 1] = Outcome(r)
    BY <1>1
  <2> HIDE DEF os, ot
  <2>3. \A i \in 1 .. Len(s) + 1 : i \in 1 .. Len(s) \/ i = Len(s) + 1
    BY <1>1
  <2> QED
    BY <1>5, <2>1, <2>2, <2>3
<1> HIDE DEF os, ot
<1>7. ot = Append(os, Outcome(r))
  BY <1>1, <1>4, <1>5, <1>6
<1> QED
  BY <1>7 DEF os, ot, t

LEMMA InitService == Init => Service!Init
<1> SUFFICES ASSUME Init PROVE Service!Init
  OBVIOUS
<1>1. \A x \in Board : Outcomes(x) = <<>>
  BY DEF Init, Outcomes
<1> QED
  BY <1>1 DEF Init, Service!Init

LEMMA StepService ==
    ASSUME NetworkInv, NEW x \in Board, Step(x)
    PROVE  Service!Next \/ UNCHANGED Service!vars
<1> DEFINE v == Task(x)
<1> DEFINE r == Head(v.results)
<1>1. /\ heard \in [Board -> Envelope \cup {None}]
      /\ asked \in [Board -> 0 .. MaxRequests]
      /\ reported \in [Board -> Seq(ResultEnvelope)]
      /\ v.results \in Seq(ResultEnvelope)
      /\ v.results \in Seq(Envelope)
      /\ Other(x) \in Board
  BY ChannelsHoldEnvelopes, Boards DEF NetworkInv, NetworkType, TaskType
<1>2. ASSUME reported' = reported
      PROVE  [z \in Board |-> Outcomes(z)]' = [z \in Board |-> Outcomes(z)]
  BY <1>2 DEF Outcomes
<1>3. CASE Polls(x)
  BY <1>2, <1>3 DEF Polls, Service!vars
<1>4. CASE Hears(x)
  <2>1. CASE heard[x].msg_type = "Open"
    <3>1. /\ heard[x].seq \in 1 .. MaxRequests
          /\ restarts[Other(x)] = 0 => heard[x].seq <= asked[Other(x)]
      BY <1>4, <2>1 DEF Hears, NetworkInv, OpensAreAsked, Has
    <3>2. Service!Obey(x, heard[x].seq)
      BY <1>2, <1>4, <2>1, <3>1 DEF Hears, Obeyed, Service!Obey
    <3> QED
      BY <3>1, <3>2 DEF Service!Next
  <2>2. CASE heard[x].msg_type # "Open"
    BY <1>2, <1>4, <2>2 DEF Hears, Obeyed, Service!vars
  <2> QED
    BY <2>1, <2>2
<1>5. CASE IsAsked(x)
  <2>1. Service!Ask(x)
    BY <1>2, <1>5 DEF IsAsked, Service!Ask
  <2> QED
    BY <2>1 DEF Service!Next
<1>6. CASE Reports(x)
  <2>1. /\ v.results # <<>>
        /\ reported' = [reported EXCEPT ![x] = Append(@, r)]
        /\ UNCHANGED <<asked, opened, restarts>>
        /\ r \in ResultEnvelope
        /\ r \in Envelope
    BY <1>1, <1>6 DEF Reports, ResultEnvelope
  <2>2. r.seq \in NumbersOf(v.results)
    BY <1>1, <2>1, TailNumbers
  <2>3. r.seq \in 1 .. asked[x]
    BY <2>2 DEF NetworkInv, Order, Line
  <2>4. r.seq \in 1 .. MaxRequests /\ r.seq <= asked[x]
    BY <1>1, <2>3, RequestsAssumption
  <2>5. \A i \in DOMAIN Outcomes(x) : Outcomes(x)[i].seq < r.seq
    <3>1. Below(NumbersOf(reported[x]), NumbersOf(v.results))
      BY DEF NetworkInv, Order, Line
    <3> QED
      BY <2>2, <3>1 DEF Below, NumbersOf, Outcomes
  <2>6. r.payload = "ackReceived" /\ restarts[x] = 0 => r.seq \in opened[Other(x)]
    <3>1. 1 \in DOMAIN v.results /\ r = v.results[1]
      BY <1>1, <2>1
    <3> QED
      BY <3>1 DEF NetworkInv, AcksAreTrue, ClaimsIn, IsSuccess
  <2>7. [z \in Board |-> Outcomes(z)]'
           = [[z \in Board |-> Outcomes(z)] EXCEPT ![x] = Append(@, Outcome(r))]
    <3> HIDE DEF v, r
    <3>1. reported[x] \in Seq(Envelope)
      BY <1>1, ChannelsHoldEnvelopes
    <3>2. reported'[x] = Append(reported[x], r)
      BY <1>1, <2>1
    <3>3. Outcomes(x)' = Append(Outcomes(x), Outcome(r))
      <4>1. /\ Outcomes(x) = [i \in DOMAIN reported[x] |-> Outcome(reported[x][i])]
            /\ Outcomes(x)' = [i \in DOMAIN reported'[x] |-> Outcome(reported'[x][i])]
        BY DEF Outcomes, Outcome
      <4> QED
        BY <2>1, <3>1, <3>2, <4>1, AppendOutcome
    <3>4. \A z \in Board : z # x => Outcomes(z)' = Outcomes(z)
      BY <1>1, <2>1 DEF Outcomes
    <3> QED
      BY <3>3, <3>4
  <2>8. Service!Report(x, r.seq, r.payload = "ackReceived")
    BY <2>1, <2>4, <2>5, <2>6, <2>7 DEF Service!Report, Outcome
  <2> QED
    BY <2>4, <2>8 DEF Service!Next
<1>7. CASE Restarts(x)
  <2>1. [z \in Board |-> Outcomes(z)]'
           = [[z \in Board |-> Outcomes(z)] EXCEPT ![x] = <<>>]
    <3>1. reported' = [reported EXCEPT ![x] = <<>>]
      BY <1>7 DEF Restarts, Restart
    <3>2. Outcomes(x)' = <<>>
      BY <1>1, <3>1 DEF Outcomes
    <3>3. \A z \in Board : z # x => Outcomes(z)' = Outcomes(z)
      BY <1>1, <3>1 DEF Outcomes
    <3> QED
      BY <3>2, <3>3
  <2>2. Service!Restart(x)
    BY <1>7, <2>1 DEF Restarts, Restart, Service!Restart
  <2> QED
    BY <2>2 DEF Service!Next
<1> QED
  BY <1>3, <1>4, <1>5, <1>6, <1>7 DEF Step

\* However the radio behaves, two boards running task_lora_gateway keep the
\* promise RequestService makes to MQTT: requests obeyed are requests asked, and
\* outcomes come in order, at most one of each, no success before the servo.
THEOREM NetworkIsAService == Spec => ImplementsService
<1>1. NetworkInv /\ [Next]_vars => [Service!Next]_Service!vars
  <2> SUFFICES ASSUME NetworkInv, [Next]_vars
               PROVE  Service!Next \/ UNCHANGED Service!vars
    OBVIOUS
  <2>1. CASE Next
    BY <2>1, StepOfABoard, StepService
  <2>2. CASE UNCHANGED vars
    BY <2>2 DEF vars, Service!vars, Outcomes
  <2> QED
    BY <2>1, <2>2
<1> QED
  BY <1>1, InitService, NetworkInvariant, PTL
  DEF Spec, ImplementsService, Service!Spec
=============================================================================
