-------------------------------- MODULE Boot --------------------------------
(***************************************************************************)
(* How the programs start: main of lora_gateway_single_task, wifi,         *)
(* lora_response_time, display and lora-display, up to the point where     *)
(* their tasks, or their last loops, run.  A main is a sequence of steps,  *)
(* and a step a record:                                                    *)
(*                                                                         *)
(*   name                                                                  *)
(*   needs    the steps whose result it uses, be it through a global: an   *)
(*            allocation needs the heap, a timer needs the time driver     *)
(*   takes    the peripherals it takes out of the PeripheralManager        *)
(*   awaits   whether main is suspended in it                              *)
(*   onError  what main does when its driver, or the broker, reports an    *)
(*            error: "panicked", "returned", or "none" if it cannot fail   *)
(*                                                                         *)
(* A step whose needs are not met, or whose peripheral is gone, panics.    *)
(* While main waits in its step the other tasks run, in between they       *)
(* cannot: a task only yields at an await.                                 *)
(***************************************************************************)
EXTENDS WifiStation, Sequences

CONSTANT Programs    \* those to boot

VARIABLES
    program,    \* the one that boots
    step,       \* index of the step main is in
    suspended,  \* main is suspended in it
    done,       \* the names of the steps behind it
    taken,      \* peripherals no longer in the PeripheralManager
    failed,     \* drivers that reported an error
    outcome     \* "booting", "running", "returned" or "panicked"

mainVars == <<program, step, suspended, done, taken, failed, outcome>>
vars == <<mainVars, stationVars>>

----------------------------------------------------------------------------
Heap ==
    [name |-> "heap", needs |-> {}, takes |-> {}, awaits |-> FALSE, onError |-> "none"]

Manager ==
    [name |-> "manager", needs |-> {}, takes |-> {}, awaits |-> FALSE, onError |-> "none"]

TimePer ==
    [name |-> "time", needs |-> {"manager"}, takes |-> {"TIMG1"},
     awaits |-> FALSE, onError |-> "none"]

WifiNew ==
    [name |-> "wifi", needs |-> {"manager", "heap"}, takes |-> {"TIMG0", "RNG", "WIFI"},
     awaits |-> FALSE, onError |-> "panicked"]

SpawnNetwork ==
    [name |-> "network", needs |-> {"wifi"}, takes |-> {}, awaits |-> FALSE,
     onError |-> "none"]

\* Looks for the address first, and sleeps only without one.
AwaitAddress(name) ==
    [name |-> name, needs |-> {"network", "time"}, takes |-> {}, awaits |-> FALSE,
     onError |-> "none"]

\* stack.config_v4().unwrap()
UnwrapAddress ==
    [name |-> "unwrap", needs |-> {"network"}, takes |-> {}, awaits |-> FALSE,
     onError |-> "none"]

\* Tried again every second until it succeeds.
TcpConnect ==
    [name |-> "tcp", needs |-> {"network", "time"}, takes |-> {}, awaits |-> TRUE,
     onError |-> "none"]

MqttNew ==
    [name |-> "mqtt", needs |-> {"tcp"}, takes |-> {}, awaits |-> TRUE,
     onError |-> "returned"]

\* The radio driver delays with the time driver.
LoraNew ==
    [name |-> "lora", needs |-> {"manager", "time"},
     takes |-> {"SPI2", "GPIO5", "GPIO27", "GPIO19", "GPIO18", "GPIO26", "GPIO14"},
     awaits |-> TRUE, onError |-> "panicked"]

DisplayNew ==
    [name |-> "display", needs |-> {"manager"},
     takes |-> {"I2C0", "GPIO4", "GPIO15", "GPIO16"},
     awaits |-> FALSE, onError |-> "panicked"]

\* The first message on the display.  An error is only logged, but its text is
\* put together on the heap: a program without one panics over it.
Draw(onError) ==
    [name |-> "draw", needs |-> {"display"}, takes |-> {}, awaits |-> FALSE,
     onError |-> onError]

ServoNew ==
    [name |-> "servo", needs |-> {"manager"}, takes |-> {"GPIO13", "LEDC"},
     awaits |-> FALSE, onError |-> "none"]

SpawnServo ==
    [name |-> "servoTask", needs |-> {"servo", "time"}, takes |-> {},
     awaits |-> FALSE, onError |-> "none"]

RngNew ==
    [name |-> "rng", needs |-> {"manager"}, takes |-> {"TIMG0", "RNG", "WIFI"},
     awaits |-> FALSE, onError |-> "none"]

SpawnTasks ==
    [name |-> "tasks", needs |-> {"time"}, takes |-> {}, awaits |-> FALSE,
     onError |-> "none"]

\* A message's payload is copied to the heap before anything is awaited.
FirstSend ==
    [name |-> "send", needs |-> {"lora", "heap"}, takes |-> {}, awaits |-> FALSE,
     onError |-> "none"]

----------------------------------------------------------------------------
GatewayMain ==
    <<Heap, Manager, TimePer, WifiNew, SpawnNetwork, AwaitAddress("dhcp"),
      TcpConnect, MqttNew, LoraNew, ServoNew, SpawnTasks>>

\* The time driver initialised where it is first used.
WifiMainLateTime ==
    <<Heap, Manager, WifiNew, SpawnNetwork, AwaitAddress("dhcp"), TimePer,
      ServoNew, SpawnServo, AwaitAddress("address"), UnwrapAddress, TcpConnect,
      MqttNew, SpawnTasks>>

\* The network tasks are spawned before the time driver they use is there.
WifiMain ==
    <<Heap, Manager, WifiNew, SpawnNetwork, TimePer, AwaitAddress("dhcp"),
      ServoNew, SpawnServo, AwaitAddress("address"), UnwrapAddress, TcpConnect,
      MqttNew, SpawnTasks>>

TesterMain ==
    <<Heap, Manager, TimePer, DisplayNew, LoraNew, RngNew, Draw("none"), SpawnTasks>>

\* init_heap(), which it calls first, is empty.
DisplayMain ==
    <<Manager, TimePer, DisplayNew, Draw("panicked")>>

\* Up to the first message of its loop.  Here init_heap() is not even called.
LoraDisplayMain ==
    <<Manager, TimePer, DisplayNew, LoraNew, Draw("panicked"), SpawnTasks, FirstSend>>

Main(p) ==
    CASE p = "gateway" -> GatewayMain
      [] p = "wifi" -> WifiMain
      [] p = "tester" -> TesterMain
      [] p = "display" -> DisplayMain
      [] p = "lora-display" -> LoraDisplayMain

Init ==
    /\ StationInit
    /\ program \in Programs
    /\ step = 1
    /\ suspended = FALSE
    /\ done = {}
    /\ taken = {}
    /\ failed = {}
    /\ outcome = "booting"

----------------------------------------------------------------------------
Current == Main(program)[step]

\* No unwrap of this step finds None, no global it uses is missing.
Possible(s) ==
    /\ s.needs \subseteq done
    /\ s.takes \cap taken = {}
    /\ s.name = "unwrap" => address

\* Main has the processor: `connection` yields at its awaits only.
MainRuns == outcome = "booting" /\ conn # "arming"

NeedsNetwork == {"dhcp", "address", "tcp", "mqtt"}

MainSuspends ==
    /\ MainRuns
    /\ ~suspended
    /\ Possible(Current)
    /\ Current.awaits \/ (Current.name \in {"dhcp", "address"} /\ ~address)
    /\ suspended' = TRUE
    /\ UNCHANGED <<program, step, done, taken, failed, outcome, stationVars>>

\* An address, or the broker's answer, can only come over a link that is up.
\* Polls that find it missing and sleep again change nothing.
MainStep ==
    /\ MainRuns
    /\ Possible(Current) => /\ Current.awaits => suspended
                            /\ Current.name \in NeedsNetwork => address
    /\ suspended' = FALSE
    /\ taken' = taken \cup Current.takes
    /\ done' = done \cup {Current.name}
    /\ outcome' = IF ~Possible(Current) THEN "panicked"
                  ELSE IF step = Len(Main(program)) THEN "running" ELSE "booting"
    /\ step' = IF outcome' = "booting" THEN step + 1 ELSE step
    /\ conn' = IF Current.name = "network" THEN "loop" ELSE conn
    /\ UNCHANGED <<program, failed, link, event, address, drops>>

\* A main that gives up when the broker cannot be reached.
MainFailsEarly ==
    /\ MainRuns
    /\ Current.onError # "none" \/ Current.name = "tcp"
    /\ Current.awaits => suspended
    /\ failed' = failed \cup ({Current.name} \ {"tcp"})
    /\ outcome' = IF Current.name = "tcp" THEN "returned" ELSE Current.onError
    /\ UNCHANGED <<program, step, suspended, done, taken, stationVars>>

MainFails ==
    /\ MainRuns
    /\ Current.onError # "none"
    /\ Possible(Current)
    /\ Current.awaits => suspended
    /\ failed' = failed \cup {Current.name}
    /\ outcome' = Current.onError
    /\ UNCHANGED <<program, step, suspended, done, taken, stationVars>>

\* start_async().await.unwrap()
StartFails ==
    /\ conn = "starting"
    /\ failed' = failed \cup {"start"}
    /\ outcome' = "panicked"
    /\ UNCHANGED <<program, step, suspended, done, taken, stationVars>>

----------------------------------------------------------------------------
\* Main waits in its step, sleeps in its last loop, or has returned.
TasksRun == suspended \/ outcome \in {"running", "returned"}

ConnectionStep == TasksRun /\ Connection /\ UNCHANGED mainVars
ConnectionFails == TasksRun /\ StartFails
NetworkStep == TasksRun /\ NetTask /\ UNCHANGED mainVars
DriverStep == LinkLost /\ UNCHANGED mainVars

Next ==
    \/ MainSuspends
    \/ MainStep
    \/ MainFails
    \/ outcome # "panicked" /\ ConnectionStep
    \/ outcome # "panicked" /\ ConnectionFails
    \/ outcome # "panicked" /\ NetworkStep
    \/ outcome # "panicked" /\ DriverStep

\* Every await ends, and the access point accepts the station now and then.
Spec ==
    /\ Init /\ [][Next]_vars
    /\ WF_vars(MainSuspends) /\ WF_vars(MainStep)
    /\ WF_vars(outcome # "panicked" /\ ConnectionStep)
    /\ SF_vars(outcome # "panicked" /\ Connects /\ ConnectionStep)
    /\ WF_vars(outcome # "panicked" /\ NetworkStep)

----------------------------------------------------------------------------
\* No program brings itself down: every unwrap of main finds its peripheral or
\* its address whatever the network does meanwhile, and neither main nor the
\* tasks spawned early use the heap or a timer before they are there.
OnlyDriversPanic ==
    /\ outcome = "panicked" => failed # {}
    /\ conn \in {"settling", "retrying"} => "time" \in done

\* "Initialize the heap", says the comment at the call of init_heap() in
\* display.rs (line 23), and lora-display logs "haviliar_iot::init_heap() called"
\* (line 88): a program that allocates has a heap by then.
HeapBeforeUse ==
    outcome = "panicked" /\ failed = {} => "heap" \in done

\* Unless a driver or the broker reports an error, main gets to its tasks,
\* although the link may be lost and TCP refused on the way ...
BootCompletes ==
    []~Deaf /\ [](failed = {}) => <>(outcome = "running")

\* ... and from then on a lost connection is made again.
Reconnects ==
    []~Deaf =>
        (conn # "off" /\ link # "connected" ~> link = "connected" \/ outcome = "panicked")
=============================================================================
