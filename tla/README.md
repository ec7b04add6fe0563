# Verification of haviliar-IoT

TLA+ models, TLC runs and TLAPS proofs for the ESP32 firmware in this
repository.  The firmware is a library crate (`src/src`) and a set of binaries
(`src/bin`).  The one that carries the system's logic is the **gateway**,
`bin/lora_gateway_single_task.rs`: it takes requests from an MQTT broker, sends
them over LoRa, waits for the device's acknowledgement, and reports outcomes.
The same binary is also the only one that *obeys* a request (it opens the servo
when it hears an `Open`), so both ends of the LoRa protocol are this code.

## 1. Inventory

| Part | State | Operations | Hard behaviour | What makes it correct |
|---|---|---|---|---|
| `task_lora_gateway` (gateway:102-197) | `pending_forward`, the frame in hand, the servo | receive with a 5 s timeout, handle Ack / Open / Reply, retransmit or take the next request, queue a result | loss, duplicates, late frames; a bounded channel in the middle of the receive loop | a reported Ack is true, one outcome per request and in order, it always listens again, the queue is served |
| `task_mqtt_ingress` (200-246) | MQTT guard, next sequence number | lock, ping, receive with a 10 s timeout, `forward.send`, release, sleep 100 ms | sends on a bounded channel while it holds the mutex | numbers neither skipped nor reused; no circular wait |
| `task_mqtt_egress` (249-273) | result in hand, MQTT guard | receive a result, lock, publish | contends for the mutex; keeps it while there are results | results get out; what is published is true |
| the two channels (55-59) | two queues of 8 | send, receive, try_receive | full on both sides at once | capacity, order |
| `main` of the gateway (275-370) | boot progress | DHCP wait, TCP retry, MQTT connect, LoRa and servo set-up, spawn | partial failure at every step | either everything is spawned or the failure is visible |
| protocol (`src/protocol`) | none | encode, decode an envelope | sizes at their limits | everything within the limit fits a frame, nothing is read outside it |
| `LoraController`, `Lora` (`controller/lora.rs`, `hal/lora.rs`) | the radio | send, receive | errors at any step | errors reach the task |
| `MqttController` (`controller/mqtt.rs`) | client, `is_connected` | connect, subscribe, receive, publish, ping | any operation may fail; no reconnect | errors reach the task |
| `lora_response_time.rs` | four mutexes, two one-slot channels | send task, receive task, display loop | a rendezvous under two guards, an acknowledgement skipped on error | the loop goes on after a radio error |
| `lora-display.rs` | one mutex, three users | send task, receive task, display loop | an allocator without a heap | it gets to its tasks (it does not) |
| `wifi.rs` | one mutex, a channel of 4 | MQTT watcher, ping task, servo task | a guard held through a timer, `try_send` on a full channel | pings are attempted again and again, a burst of commands fits, accepted commands are obeyed, the servo is closed again |
| `ServoMotor` | duty cycle | `set_angle`, `open`, `close` | u32 to u16 arithmetic | duty within range |
| `PeripheralManager` | take-once options, an atomic flag | `init`, `get`, `take_*` | `get` between flag and value | each peripheral has one owner |
| `connection`, `net_task`, `Wifi` | station state | connect, reconnect after 5 s | event and state race | it reconnects |
| the five `main`s | boot progress, peripherals, globals (heap, time driver) | the steps of set-up, some awaited | tasks run during the awaits, the link comes and goes | no `unwrap` fails, nothing is used before it is there, the tasks are reached |
| factories, `Display` | – | constructors, the first message | – | steps of the `main`s |
| `teste.rs`, `lib.rs` | – | a sweep of the servo; an empty `init_heap` | – | the sweep's arithmetic is `ServoMotor`'s |

Interactions: the ingress and the egress share the `MqttController` behind an
embassy mutex; `FORWARD_TO_LORA_CHANNEL` goes from the ingress to the LoRa task,
`LORA_TO_MQTT_CHANNEL` from the LoRa task to the egress; boards interact only by
frames on the air, which carry no address.

## 2. Modules

| Module | Models | Correspondence |
|---|---|---|
| `LoraEnvelope` | `protocol/lora.rs`, `message_type.rs` | an envelope is its type, sequence number and payload class; `NextSeq` is `wrapping_add(1)`; `FitsFrame` is the outcome of `OutgoingFrame::new`, which `LoraFrame` justifies |
| `GatewayChannels` | the two static channels | `forward`, `results`: sequences with a capacity |
| `LoraTask` | `task_lora_gateway` with the controller and radio below it | `pc` names the await the task is suspended in; one action per poll that makes progress: what runs from one suspension to the next, the end of the iteration and the next `try_receive` included |
| `MqttTasks` | `task_mqtt_ingress`, `task_mqtt_egress`, the mutex | `ingress` and `egress` name the await; the drop of a guard and the next lock in the same poll are one action |
| `LoraGateway` | the gateway binary: the three tasks on one executor | `polled` and `due` are the run queue of the current pass; other boards are "any frame, any time" |
| `LoraGatewayProofs` | – | the theorems about `LoraGateway` |
| `LoraBoard` | a board as its LoRa task sees it | abstract: `LoraTask` plus "a request is queued" and "a result is taken"; `LoraGateway` implements it |
| `LoraBoardProofs` | – | that `LoraGateway` implements `LoraBoard` |
| `LoraNetwork` | two boards and the link between them, power losses | two instances of `LoraTask`; MQTT reduced to the far ends of the channels, as in `LoraBoard`, requests that fit no frame included |
| `RequestService` | what two boards promise to MQTT | abstract: requests, obeyed requests and reported outcomes only; `LoraNetwork` implements it |
| `LoraNetworkProofs` | – | the theorems about `LoraNetwork`, its implementing `RequestService` among them |
| `LoraFrame` | `OutgoingFrame::new`, `LoraParser::decode_envelope`, reached through `LoraController` | sizes: a message is the numbers its encoding's length depends on, received bytes are their count, the length they declare and the message they encode |
| `LoraFrameProofs` | – | the theorems about `LoraFrame` |
| `ResponseTime` | the tasks of `lora_response_time.rs` | `send`, `receive`, `display` name the awaits; one action per await; `radio` and `guard` name the holders of the mutexes, `replies` and `acks` count the messages in the two channels |
| `ResponseTimeProofs` | – | the theorems about `ResponseTime` |
| `ServoMotor` | `hal/servo_motor.rs` | `Duty` is `set_angle`, cast to u16 included |
| `WifiServo` | the tasks of `wifi.rs` | `ping`, `watch`, `servo` name the awaits; `watchDue` and `servoDue` are timers in half seconds; the channel is its length, the angle in it is not used by the code |
| `WifiServoProofs` | – | the theorems about `ServoMotor` and `WifiServo` |
| `WifiStation` | `connection`, `net_task`, the driver below | `conn` names the step of the loop, `link` is `wifi_state()`, `event` the event that `wait_for_event` waits for |
| `Boot` | the `main`s of gateway, wifi, tester, display and lora-display | a `main` is a sequence of records (what a step needs, takes, whether it awaits, what an error does); one action performs a step, one suspends, one fails; `WifiStation` runs in between |
| `BootProofs` | – | the theorem about `Boot` |
| `MCLoraFrame` | – | values on both sides of every size boundary |
| `MCLoraGateway` | – | values for the constants of `LoraGateway` |

The main abstractions:

* **Polls.**  embassy is cooperative: between two awaits a task runs alone.  An
  action is therefore one poll.  The SPI transfers inside a radio operation
  suspend the task too; nothing shared is touched between them, so an operation
  is one await.
* **The run queue.**  The executor takes the whole queue, polls each task in it
  once and starts again.  `NextPass` puts every task that another one has woken
  into `due`; a pass ends only when `due` is empty.  This matters: with an
  arbitrary scheduler the LoRa task could fill the result channel before the
  egress is polled at all, and `NoCircularWait` would fail.
* **Timers.**  A timeout may fire at any time.  Three places need a length: when
  the ingress releases the mutex to a waiting egress and sleeps 100 ms, the
  egress is polled before the ingress wakes (`IngressWakes`); likewise when the
  ping task of `wifi.rs` sleeps 30 s (`PingWakes`); and in `WifiServo` the 1 s and
  3 s timers, counted in half seconds, decide how many commands come before
  one is obeyed.  Half seconds suffice because both are multiples of it and all
  else (socket operations, the 10 ms pause) is left any duration up to the next
  tick or, for the socket, any duration at all.
* **Data.**  Payloads are classes: `short` fits a frame, `long` passes the
  ingress's check (255 bytes) and not the frame's (229).  Payloads over 255
  bytes end the ingress's iteration like an error (`IngressFailed`).  The
  topic, time stamps, RSSI and log texts are left out.
* **Restarts.**  `LoraNetwork!Restart` is a power loss followed by a boot: nothing
  is stored, so the task, the channels, the numbering and what MQTT was told are
  as at the start, while the other board keeps what it had pending.
* **Third-party code** (lora-phy, rust-mqtt, embassy-net): an operation ends,
  well or badly.

Each module also defines, next to the operators they vary, a few wrong variants
(`ForwardRoomOffByOne`, `EndIterationListening`, ...).  No specification uses
them: they are plausible bugs, guards kept too long as Rust's scopes would keep them
included, and substituting one makes TLC find the property
it is paired with in PROJECT.json violated.

## 3. Runs

| Run | Checks | What it shows |
|---|---|---|
| `gateway_schedule` | `TypeOK`, `HoldBacklog`, `NoCircularWait`, `LoraKeepsListening` | the tasks never wait in a circle; the LoRa task goes back to the radio for ever |
| `gateway_order` | `QueueInOrder`, `ImplementsBoard` | requests keep their order and their numbers, also when they wrap; the gateway is a `LoraBoard` |
| `network` | `AckMeansOpened`, `AckEndsRequest`, `RequestAnswered`, `ImplementsService` | over a lossy link, with a board that restarts, a reported Ack is true (for a board that has not itself restarted), no Ack is taken for the answer to another Ack, outcomes come once and in order, a lone requester gets one |
| `frame` | `LimitSuffices`, `RoundTrip`, `StaysInside` | a message is framed exactly when its payload is at most 229 bytes, frames decode to their message, other traffic is never read past its end |
| `response_time` | `TypeOK`, `Rendezvous`, `RadioUncontended`, `KeepsListening`, `KeepsShowing` | reply and acknowledgement stay paired, the radio is always free for the task that wants it, listening and display go on for ever unless a transmission fails |
| `wifi_servo` | `TypeOK`, `PulseInRange`, `BurstAccepted`, `CommandsObeyed`, `ServoIsClosedAgain`, `KeepAlive`, `PingStarved` | a burst of six commands is taken although the channel has four slots; what is taken is obeyed, and the servo closed again; the ping task never gets the mutex again once the watcher has it, and the pings that are attempted are the watcher's own |
| `boot` | `OnlyDriversPanic`, `BootCompletes`, `Reconnects` | four `main`s reach their tasks unless a driver or the broker reports an error, whatever the link does; a lost link is made again, unless its loss falls between the look at the state and the wait for the event |
| `status_means_ack` (violated) | `StatusMeansAck` | a failed send is published like an acknowledged request |
| `forward_awaits_ack` (violated) | `ForwardAwaitsAck` | a pending request is forgotten on any Reply and on any Open |
| `queue_served` (violated) | `QueueServed` | a silent device blocks the queue for ever |
| `heap` (violated) | `HeapBeforeUse` | lora-display panics at its first message, for want of a heap |
| `restart` (violated) | `AckIsForThisRequest` | after a restart the Ack of an old request 1 is taken for that of the new one |

**Bounds.**  `gateway_schedule`: one sequence number (the schedule does not
depend on them), `ForwardCap = 2`, `ResultCap = 5`.  The channels have 8 slots in
the code; shorter ones fill up sooner, and the theorems cover every size.  The
hazard is real at the boundary: with `ResultCap = 1` TLC finds the circle, with 2
it finds none.  `gateway_order`: three numbers, exactly what two queued requests
and one in flight use, so that every wrap occurs.  `network`: two requests per
board, short or too long for a frame, so that late Acks of the first meet the second, and one restart, of either
board, at any time; the numbers do not wrap (`MaxRequests < SeqMod`).  The
counterexample of `restart` needs one request and one restart.  `wifi_servo`: the
resolution of the 12-bit timer as the comment in `teste.rs` counts it, and eight
commands: six that fit, one that is dropped, and one more to go on with.
`BurstAccepted` is tight: with seven in place of six TLC finds it violated.
`boot`: three losses of the link, one for each wait of `wifi.rs` for the
network.  `frame`: sizes just below, at and above
each CBOR head's boundary and the frame's own; the largest time stamp, 65536,
stands for every stamp of more than 16 bits, which all take five bytes.

**Fairness.**  `LoraGateway!Fairness`: each task's poll, the vain poll and the
next pass are weakly fair.  Every await in the code ends: the LoRa receive by its
5 s timeout, transmissions by the radio's interrupt, the MQTT receive by its 10 s
timeout, pauses by timers, a ping or publish by the answer or, when the peer is
dead, by the socket's 60 s timeout with keep-alive (lines 315-316).  A broker
that keeps the TCP connection alive and never answers is outside this
assumption: `publish_message` and `send_ping` have no timeout of their own.
Nothing is assumed about frames from other boards.  `LoraNetwork!FairSpec` adds
`FairAir`: if a board never stops transmitting, infinitely many of its frames
are heard.

`WifiServo!Spec`: each task and the clock are weakly fair: timers expire, and the
socket has a timeout of its own (60 s, `wifi.rs` line 240).  Nothing is assumed
about which commands arrive.

`Boot!Spec`: main, `connection` and the network stack are weakly fair, and strong
fairness of `Connects` says that an access point that is tried again and again
accepts the station now and then.  `BootCompletes` and `Reconnects` are stated under
`[]~Deaf`: `Deaf` is the state in which `connection` waits for an event that it
has missed.  The driver's threads preempt the tasks, so the link can be lost between
the look at the state and the wait; without that assumption both are false, and
with it neither says anything of the missed event (hazard at `wifi.rs` line 49).

`ResponseTime!Fairness`: each task runs when it can, and radio operations and
timers end.  For main's loop the fairness is strong: `task_receive` takes and
drops the same guards again and again, and the drop wakes main, which the executor
polls before the radio can have brought another frame.

**Deadlock** is checked in every run but `boot`, `heap` and `response_time`.  In
`Boot` a panic stops the board, and two programs use no network and have nothing
left to do once their last loop runs.  The response-time tester does stop.
When a reply cannot be transmitted `task_send` logs the error and acknowledges
nothing (line 64), `task_receive` waits for ever with its guards in hand, and main
waits for those.  `Rendezvous` says exactly that (a failure, and nothing else,
leaves `task_receive` without a reply underway); the two liveness properties hold
up to such a failure.

## 4. Proofs

`LoraGatewayProofs`, for every `SeqMod`, `ForwardCap`, `ResultCap`
(positive naturals) and every set of foreign frames.

* `TypeCorrect`: `Spec => []TypeOK`.  `TypeOK` is inductive; one lemma per task.
* `BacklogBounded`, `NoDeadlock`: `ScheduleInv` is the inductive invariant.
  `NoCircularWait` alone is not inductive: whether a circle can close depends on
  how many results existed when the ingress took the mutex.  `MutexDiscipline`
  says who holds it, `RecvBacklog` that while the egress waits for a result the
  LoRa task has been polled at most twice, and a poll queues at most two results;
  so at most four exist when the ingress locks.  From then on, as long as the
  forward channel is full no request has been taken (the ingress adds one only
  when it releases), and without taking a request the LoRa task can queue at most
  two more (`StillToCome`).  `HoldBacklog` adds this up to six, counting the
  result in the egress's hand.  A circle needs `ResultCap + 2`.  Hence `NoDeadlock`
  for `ResultCap >= 5`; the code has 8.  The constant is not the best possible.
* `RequestsInOrder`: `OrderInv` is `QueueInOrder` with what a suspended
  `forward.send` offers and what an answer to an Open carries.  Nothing about
  `NextSeq` is used but its being a function.

`LoraBoardProofs`: `GatewayIsABoard` is the refinement of `LoraBoard`.  The polls
of the LoRa task are actions of the board, the ingress's send (at once or after it
was suspended) is "a request is queued", the egress's receive "a result is taken",
and everything else stutters.  A suspended send offers an envelope made earlier; that
it still carries the next number is what `OrderInv` is needed for.

`LoraNetworkProofs`, for every size of the channels, every number of restarts and
every number of requests below the range of sequence numbers
(`RequestsAssumption`: the numbers do not wrap; hazard at line 234).  The two boards
run one task on different variables; `Task(x)` gathers the state of board x in a
record, and `TaskPoll` and `TaskHears` say what a poll does to it.  The inductive
invariant `NetworkInv` adds these to `AckMeansOpened`:

* `NetworkType`: types, and for each await what the task holds there.
* `Turns`: a board looks at a received frame before it transmits, and hears
  nothing while it transmits.  So of the two boards only one acknowledges at a time,
  no Ack is in its radio, and no Open of its own is still unheard in the other's.
  Without it `AckEndsRequest` is lost, and with it the meaning of every Ack: the
  code compares nothing but numbers.
* `AcksAreTrue`: an Ack that is pending, in hand, in a radio or already turned into
  a result belongs to an Open that was obeyed.  This is what makes `AckMeansOpened`
  inductive; a board that has restarted is excepted, because the other's Acks are
  from before.
* `Order`: the numbers already reported, those of the results in the channel, of
  the exchange in progress, of the requests in the channel and the last one given
  out form one increasing line (`Line`).  Hence one outcome per request, in order.
* `OpensAreAsked`: an Open in a radio carries a number that was given out.

`SuccessIsTrue` and `AckNeverMeetsAck` follow at once.  `OneOutcomeEach` adds that
what MQTT has been told since a board was switched on is in the order of the numbers,
without a repetition.  `OnlyRestartsDeceive` says
that the counterexample of the run `restart` needs its restart: with
`MaxRestarts = 0` `AckIsForThisRequest` holds.  `NetworkIsAService` is the refinement
of `RequestService`, restarts included: a heard Open is `Obey`, a result taken by
MQTT is `Report` (its three guards are `Order` and `AckMeansOpened`), a power loss is
`Restart`, the rest stutters.

`LoraFrameProofs`, for every set of sequence numbers (u16), time stamps, payload
sizes and received bytes.  The sizes minicbor gives to integers and arrays are the
model's assumption about that library (`HeadLen`, `CborLen`).

* `EnvelopeOverhead` bounds an envelope: at most 20 bytes around a payload within
  the limit (the comment in the code allows for 24).  Hence `LimitIsSufficient`,
  which is also why `LoraEnvelope!FitsFrame` need only look at the payload.
* `FramesRoundTrip` and `DecodeStaysInside` follow from the lemmas about
  `DecodeEnvelope`; the invariant `FrameInv` says only that a frame is its
  message's and an answer its bytes'.

`ResponseTimeProofs`: `TesterTypes`, `RepliesAreMatched` and `RadioIsFree`.  `TesterInv` adds to `TypeOK` and `Rendezvous` who holds the
radio at which await (`RadioUse`); it is inductive, one lemma per task.
`RadioUncontended` alone is not: that nobody listens while a reply is underway is
what the rendezvous is for.

`WifiServoProofs`, for every resolution `MaxDutyCycle` that a u16 can hold:

* `SetAngleIsExact`: for all angles from 0 to 180 no product of `set_angle` reaches
  2^32, the cast to u16 is exact, and the duty cycle lies between those of the two
  ends.  The product of two variables, `deg * gap`, is bounded in a lemma of its own
  (`OffsetBounds`).  `PulsesInRange` is its consequence for the servo task.
* `TypeCorrect`: `TypeOK` is inductive.
* `BurstsAreAccepted`: the action property `BurstAccepted`.  The invariant is
  `RoomLeft`, an account in ticks: what is queued has cost the watcher two ticks a
  command, and since the servo task was idle only so much time can have passed
  with the servo opened less than twice.  A full channel therefore means that it
  has been opened twice, and two commands more than the four have been accepted.

`BootProofs`: `BootIsSound`, for every number of losses of the link and every choice of
programs among the four that have a heap or need none (`Ready`; lora-display is the
finding `heap`).  `WellOrdered` is a fact about the list of steps of a `main`, proved for
each of them: needs come first, peripherals are taken once, main can only be
suspended after the time driver is there, and `unwrap` comes in the same poll as the
look at the address.  `BootInv` carries it along: what is behind main
(`StepsBehind`), that the tasks run only with the time driver (`TimersKnown`), and that
no task has run since the address was seen (`AddressStands`).

Only model-checked: the liveness properties (`LoraKeepsListening`,
`RequestAnswered`, `KeepsListening`, `KeepsShowing`, `CommandsObeyed`,
`ServoIsClosedAgain`, `KeepAlive`, `PingStarved`, `BootCompletes`, `Reconnects`), which are
out of the prover's reach.  Every invariant, action property and refinement that a
passing run checks is a theorem.

## 5. Findings

1. `status_means_ack`: lines 189-190 queue "LoRa send failed" for the egress,
   which clears the payload and publishes an empty status for every result
   (257-264); the comment at 259-260 says the device has received the request.
2. `forward_awaits_ack`: `pending_forward = None` on any Reply (154) and
   `= Some(ack)` on any Open (150); the comment at 170 describes the protocol as
   "send a forward and wait for the ACK before sending another".
3. `queue_served`: `forward_ack_timeout_ms` (51) is never read; a request without
   an answer is retransmitted for ever (177) and the queue behind it stands still,
   the ingress eventually too, with the MQTT mutex in its hands.  The comment at
   33 promises to alternate between radio and queue.

4. `heap`: lora-display (line 177, through `controller/lora.rs` line 24) allocates
   without ever having given the allocator a region; `init_heap` in `lib.rs` is empty.
5. `restart`: an Ack is matched by a number that begins at 1 with every start
   (205); the comment at 127 takes a matching number for a successful forward.

Observed, and no run is about it: `wifi.rs` logs "Setting servo angle to" with the
angle of a command (124), and the servo task never uses that angle (96): every
command opens the servo alike.  `CommandsObeyed` claims no more than that it opens.

Observed and not findings, because nothing in the repository says otherwise: in
`wifi.rs` the ping task starves (114); after a broken MQTT connection nothing connects again; `connection` can miss the
event it waits for (49).

## 6. Plan

Done: the gateway's tasks, channels and executor; the LoRa exchange of two boards
with losses and restarts; the frame format; the response-time tester; the WiFi
servo program; the start of every program; two abstract specifications and
their refinements; the theorems above.

Next, in this order:

1. `NoDeadlock` for `ResultCap >= 2`, the bound TLC finds, in place of 5.
2. A wrap of the sequence numbers in `LoraNetwork`: which distance between two
   requests with one number keeps `AckMeansOpened`.

## 7. Not modelled

* Display drawing and log texts: output only.  The `continue` of the tester's display
  loop (263-266) is left out with them: `Display::clear` clears a buffer in memory,
  which does not fail.
* The registers of the PWM unit, of SPI and of the radio: constructors are steps that
  succeed or fail.
* The two tasks of `lora-display.rs`: `main` panics before either is polled.
* `Wifi::connect` and its getters, `PeripheralManagerStatic::get`,
  `DisplayFactory::create_from_manager`, `Lora::receive_from_mutex` and
  `send_from_mutex`: nothing calls them.
* `teste.rs`: a loop without interaction, its arithmetic is `ServoMotor`'s.
* `protocol/chiper.rs` is empty; `mqtt_poc` configures a broker.
* Third-party drivers, the IP stack and the MQTT client, but for their outcomes.
