----------------------------- MODULE BootProofs -----------------------------
(***************************************************************************)
(* Why no program that sets up its heap, or never needs one, brings itself *)
(* down at boot.  Each main is well ordered: a step comes after those it   *)
(* needs and takes nothing an earlier one took, and wherever main lets the *)
(* tasks run the time driver is there.  A main that is well ordered then   *)
(* panics only over an error of a driver, for every number of connections  *)
(* lost and every interleaving with the tasks of the station.              *)
(*                                                                         *)
(* lora-display is not among them: it copies a payload to a heap it never  *)
(* sets up (the run heap).                                                 *)
(***************************************************************************)
EXTENDS Boot, TLAPS

Ready == {"gateway", "wifi", "tester", "display"}

----------------------------------------------------------------------------
\* A step before the i-th of m has the name k.
Earlier(m, i, k) == \E j \in 1 .. i - 1 : m[j].name = k

\* Main may be suspended in the step s.
MaySuspend(s) == s.awaits \/ s.name \in {"dhcp", "address"}

\* The i-th step of m has its needs behind it and its peripherals for itself; it
\* can only be suspended, or give up, once the time driver is there; and it looks
\* at the address in the poll in which the step before has seen one.
InOrder(m, i) ==
    /\ \A k \in m[i].needs : Earlier(m, i, k)
    /\ \A j \in 1 .. i - 1 : m[i].takes \cap m[j].takes = {}
    /\ MaySuspend(m[i]) => Earlier(m, i, "time")
    /\ m[i].onError \in {"none", "returned", "panicked"}
    /\ m[i].onError = "returned" => m[i].awaits
    /\ m[i].name = "unwrap" => ~ MaySuspend(m[i]) /\ i > 1 /\ m[i - 1].name = "address"

WellOrdered(m) ==
    /\ Len(m) \in Nat \ {0}
    /\ \A i \in 1 .. Len(m) : InOrder(m, i)
    /\ \E i \in 1 .. Len(m) : m[i].name = "time"

\* main of lora_gateway_single_task.rs.
LEMMA GatewayInOrder == WellOrdered(GatewayMain)
<1> USE DEF Heap, Manager, TimePer, WifiNew, SpawnNetwork, AwaitAddress, UnwrapAddress,
            TcpConnect, MqttNew, LoraNew, DisplayNew, Draw, ServoNew, SpawnServo, RngNew,
            SpawnTasks
<1> DEFINE m == GatewayMain
<1>1. /\ Len(m) = 11
      /\ m[1] = Heap /\ m[2] = Manager /\ m[3] = TimePer /\ m[4] = WifiNew
      /\ m[5] = SpawnNetwork /\ m[6] = AwaitAddress("dhcp") /\ m[7] = TcpConnect /\ m[8] = MqttNew
      /\ m[9] = LoraNew /\ m[10] = ServoNew /\ m[11] = SpawnTasks
  BY DEF GatewayMain
<1> HIDE DEF m
<1>2. ASSUME NEW i \in 1 .. Len(m)
      PROVE  InOrder(m, i)
  <2>1. i \in {1, 2, 3, 4, 5, 6, 7, 8, 9, 10, 11}
    BY <1>1
  <2>2. \A k \in m[i].needs : Earlier(m, i, k)
    BY <1>1, <2>1 DEF Earlier
  <2>3. ASSUME NEW j \in 1 .. i - 1
        PROVE  m[i].takes \cap m[j].takes = {}
    <3>1. j < i /\ j \in {1, 2, 3, 4, 5, 6, 7, 8, 9, 10}
      BY <2>1
    <3> QED
      BY <1>1, <2>1, <3>1
  <2>4. MaySuspend(m[i]) => Earlier(m, i, "time")
    BY <1>1, <2>1 DEF Earlier, MaySuspend
  <2>5. /\ m[i].onError \in {"none", "returned", "panicked"}
        /\ m[i].onError = "returned" => m[i].awaits
        /\ m[i].name = "unwrap" => ~ MaySuspend(m[i]) /\ i > 1 /\ m[i - 1].name = "address"
    BY <1>1, <2>1 DEF MaySuspend
  <2> QED
    BY <2>2, <2>3, <2>4, <2>5 DEF InOrder
<1> QED
  BY <1>1, <1>2 DEF WellOrdered, m

\* main of wifi.rs.
LEMMA WifiInOrder == WellOrdered(WifiMain)
<1> USE DEF Heap, Manager, TimePer, WifiNew, SpawnNetwork, AwaitAddress, UnwrapAddress,
            TcpConnect, MqttNew, LoraNew, DisplayNew, Draw, ServoNew, SpawnServo, RngNew,
            SpawnTasks
<1> DEFINE m == WifiMain
<1>1. /\ Len(m) = 13
      /\ m[1] = Heap /\ m[2] = Manager /\ m[3] = WifiNew /\ m[4] = SpawnNetwork
      /\ m[5] = TimePer /\ m[6] = AwaitAddress("dhcp") /\ m[7] = ServoNew /\ m[8] = SpawnServo
      /\ m[9] = AwaitAddress("address") /\ m[10] = UnwrapAddress /\ m[11] = TcpConnect /\ m[12] = MqttNew
      /\ m[13] = SpawnTasks
  BY DEF WifiMain
<1> HIDE DEF m
<1>2. ASSUME NEW i \in 1 .. Len(m)
      PROVE  InOrder(m, i)
  <2>1. i \in {1, 2, 3, 4, 5, 6, 7, 8, 9, 10, 11, 12, 13}
    BY <1>1
  <2>2. \A k \in m[i].needs : Earlier(m, i, k)
    BY <1>1, <2>1 DEF Earlier
  <2>3. ASSUME NEW j \in 1 .. i - 1
        PROVE  m[i].takes \cap m[j].takes = {}
    <3>1. j < i /\ j \in {1, 2, 3, 4, 5, 6, 7, 8, 9, 10, 11, 12}
      BY <2>1
    <3> QED
      BY <1>1, <2>1, <3>1
  <2>4. MaySuspend(m[i]) => Earlier(m, i, "time")
    BY <1>1, <2>1 DEF Earlier, MaySuspend
  <2>5. /\ m[i].onError \in {"none", "returned", "panicked"}
        /\ m[i].onError = "returned" => m[i].awaits
        /\ m[i].name = "unwrap" => ~ MaySuspend(m[i]) /\ i > 1 /\ m[i - 1].name = "address"
    BY <1>1, <2>1 DEF MaySuspend
  <2> QED
    BY <2>2, <2>3, <2>4, <2>5 DEF InOrder
<1> QED
  BY <1>1, <1>2 DEF WellOrdered, m

\* main of lora_response_time.rs.
LEMMA TesterInOrder == WellOrdered(TesterMain)
<1> USE DEF Heap, Manager, TimePer, WifiNew, SpawnNetwork, AwaitAddress, UnwrapAddress,
            TcpConnect, MqttNew, LoraNew, DisplayNew, Draw, ServoNew, SpawnServo, RngNew,
            SpawnTasks
<1> DEFINE m == TesterMain
<1>1. /\ Len(m) = 8
      /\ m[1] = Heap /\ m[2] = Manager /\ m[3] = TimePer /\ m[4] = DisplayNew
      /\ m[5] = LoraNew /\ m[6] = RngNew /\ m[7] = Draw("none") /\ m[8] = SpawnTasks
  BY DEF TesterMain
<1> HIDE DEF m
<1>2. ASSUME NEW i \in 1 .. Len(m)
      PROVE  InOrder(m, i)
  <2>1. i \in {1, 2, 3, 4, 5, 6, 7, 8}
    BY <1>1
  <2>2. \A k \in m[i].needs : Earlier(m, i, k)
    BY <1>1, <2>1 DEF Earlier
  <2>3. ASSUME NEW j \in 1 .. i - 1
        PROVE  m[i].takes \cap m[j].takes = {}
    <3>1. j < i /\ j \in {1, 2, 3, 4, 5, 6, 7}
      BY <2>1
    <3> QED
      BY <1>1, <2>1, <3>1
  <2>4. MaySuspend(m[i]) => Earlier(m, i, "time")
    BY <1>1, <2>1 DEF Earlier, MaySuspend
  <2>5. /\ m[i].onError \in {"none", "returned", "panicked"}
        /\ m[i].onError = "returned" => m[i].awaits
        /\ m[i].name = "unwrap" => ~ MaySuspend(m[i]) /\ i > 1 /\ m[i - 1].name = "address"
    BY <1>1, <2>1 DEF MaySuspend
  <2> QED
    BY <2>2, <2>3, <2>4, <2>5 DEF InOrder
<1> QED
  BY <1>1, <1>2 DEF WellOrdered, m

\* main of display.rs.
LEMMA DisplayInOrder == WellOrdered(DisplayMain)
<1> USE DEF Heap, Manager, TimePer, WifiNew, SpawnNetwork, AwaitAddress, UnwrapAddress,
            TcpConnect, MqttNew, LoraNew, DisplayNew, Draw, ServoNew, SpawnServo, RngNew,
            SpawnTasks
<1> DEFINE m == DisplayMain
<1>1. /\ Len(m) = 4
      /\ m[1] = Manager /\ m[2] = TimePer /\ m[3] = DisplayNew /\ m[4] = Draw("panicked")
  BY DEF DisplayMain
<1> HIDE DEF m
<1>2. ASSUME NEW i \in 1 .. Len(m)
      PROVE  InOrder(m, i)
  <2>1. i \in {1, 2, 3, 4}
    BY <1>1
  <2>2. \A k \in m[i].needs : Earlier(m, i, k)
    BY <1>1, <2>1 DEF Earlier
  <2>3. ASSUME NEW j \in 1 .. i - 1
        PROVE  m[i].takes \cap m[j].takes = {}
    <3>1. j < i /\ j \in {1, 2, 3}
      BY <2>1
    <3> QED
      BY <1>1, <2>1, <3>1
  <2>4. MaySuspend(m[i]) => Earlier(m, i, "time")
    BY <1>1, <2>1 DEF Earlier, MaySuspend
  <2>5. /\ m[i].onError \in {"none", "returned", "panicked"}
        /\ m[i].onError = "returned" => m[i].awaits
        /\ m[i].name = "unwrap" => ~ MaySuspend(m[i]) /\ i > 1 /\ m[i - 1].name = "address"
    BY <1>1, <2>1 DEF MaySuspend
  <2> QED
    BY <2>2, <2>3, <2>4, <2>5 DEF InOrder
<1> QED
  BY <1>1, <1>2 DEF WellOrdered, m

----------------------------------------------------------------------------
\* Every main that is in Ready.
LEMMA MainsInOrder ==
    ASSUME NEW p \in Ready
    PROVE  WellOrdered(Main(p))
<1>1. CASE p = "gateway"
  BY <1>1, GatewayInOrder DEF Main
<1>2. CASE p = "wifi"
  BY <1>2, WifiInOrder DEF Main
<1>3. CASE p = "tester"
  BY <1>3, TesterInOrder DEF Main
<1>4. CASE p = "display"
  BY <1>4, DisplayInOrder DEF Main
<1> QED
  BY <1>1, <1>2, <1>3, <1>4 DEF Ready

\* Main is at one of its steps, the earlier ones are done, and they have taken
\* what is gone.
StepsBehind ==
    /\ program \in Ready
    /\ step \in 1 .. Len(Main(program))
    /\ outcome = "booting" =>
           /\ \A k : Earlier(Main(program), step, k) => k \in done
           /\ \A p \in taken : \E j \in 1 .. step - 1 : p \in Main(program)[j].takes

\* The tasks run after the time driver is there, `connection` beyond the head of
\* its loop included.
TimersKnown ==
    /\ suspended => "time" \in done
    /\ outcome \in {"running", "returned"} => "time" \in done
    /\ conn \notin {"off", "loop"} => "time" \in done

\* No task has run since main saw the address it unwraps.
AddressStands ==
    outcome = "booting" /\ Current.name = "unwrap" => address /\ ~ suspended

PanicHasCause == outcome = "panicked" => failed # {}

BootInv == StepsBehind /\ TimersKnown /\ AddressStands /\ PanicHasCause

----------------------------------------------------------------------------
\* The order of main's steps makes every one of them possible.
LEMMA StepPossible ==
    ASSUME BootInv, outcome = "booting"
    PROVE  InOrder(Main(program), step) /\ Possible(Current)
<1> DEFINE m == Main(program)
<1>1. WellOrdered(m) /\ step \in 1 .. Len(m)
  BY MainsInOrder DEF BootInv, StepsBehind
<1>2. InOrder(m, step)
  BY <1>1 DEF WellOrdered
<1>3. Current.needs \subseteq done
  BY <1>2 DEF BootInv, StepsBehind, InOrder, Current
<1>4. Current.takes \cap taken = {}
  BY <1>2 DEF BootInv, StepsBehind, InOrder, Current
<1>5. Current.name = "unwrap" => address
  BY DEF BootInv, AddressStands
<1> QED
  BY <1>2, <1>3, <1>4, <1>5 DEF Possible

\* With one step more behind main, what Earlier says of the next.
LEMMA OneStepOn ==
    ASSUME NEW m, NEW i \in Nat \ {0}, NEW k, Earlier(m, i + 1, k)
    PROVE  Earlier(m, i, k) \/ k = m[i].name
  BY DEF Earlier

\* Init.
LEMMA BootInvInit ==
    ASSUME Programs \subseteq Ready
    PROVE  Init => BootInv
<1> SUFFICES ASSUME Init
             PROVE  BootInv
  OBVIOUS
<1>1. program \in Ready /\ step = 1 /\ outcome = "booting" /\ conn = "off"
      /\ taken = {} /\ suspended = FALSE
  BY DEF Init, StationInit
<1>2. WellOrdered(Main(program))
  BY <1>1, MainsInOrder
<1>3. StepsBehind
  BY <1>1, <1>2 DEF StepsBehind, WellOrdered, Earlier
<1>4. TimersKnown /\ PanicHasCause
  BY <1>1 DEF TimersKnown, PanicHasCause
<1>5. Current.name # "unwrap"
  BY <1>1, <1>2 DEF WellOrdered, InOrder, Current
<1> QED
  BY <1>3, <1>4, <1>5 DEF BootInv, AddressStands

\* Main is suspended in a step that needs the time driver, and never looks at the
\* address when it wakes.
LEMMA SuspendsKeeps ==
    ASSUME BootInv, MainSuspends
    PROVE  BootInv'
<1>1. outcome = "booting" /\ UNCHANGED <<program, step, done, taken, failed, outcome>>
      /\ UNCHANGED stationVars /\ MaySuspend(Current)
  BY DEF MainSuspends, MainRuns, MaySuspend
<1>2. InOrder(Main(program), step)
  BY <1>1, StepPossible
<1>3. "time" \in done /\ Current.name # "unwrap"
  BY <1>1, <1>2 DEF InOrder, Current, BootInv, StepsBehind
<1>4. StepsBehind'
  BY <1>1 DEF BootInv, StepsBehind
<1>5. TimersKnown' /\ PanicHasCause'
  BY <1>1, <1>3 DEF BootInv, TimersKnown, PanicHasCause, stationVars
<1>6. AddressStands'
  BY <1>1, <1>3 DEF AddressStands, Current
<1> QED
  BY <1>4, <1>5, <1>6 DEF BootInv

\* Main takes a step: it is possible, so it does not panic.
LEMMA StepKeeps ==
    ASSUME BootInv, MainStep
    PROVE  BootInv'
<1> DEFINE m == Main(program)
<1>1. outcome = "booting" /\ program' = program /\ failed' = failed
      /\ suspended' = FALSE /\ address' = address
      /\ done' = done \cup {m[step].name} /\ taken' = taken \cup m[step].takes
  BY DEF MainStep, MainRuns, Current
<1>2. InOrder(m, step) /\ Possible(Current)
  BY <1>1, StepPossible
<1>3. WellOrdered(m) /\ program \in Ready /\ step \in 1 .. Len(m)
  BY MainsInOrder DEF BootInv, StepsBehind
<1>4. \/ step = Len(m) /\ outcome' = "running" /\ step' = step
      \/ step # Len(m) /\ outcome' = "booting" /\ step' = step + 1
  BY <1>2 DEF MainStep
<1>5. step' \in 1 .. Len(m)
  BY <1>3, <1>4 DEF WellOrdered
<1>6. StepsBehind'
  <2>1. CASE outcome' = "running"
    BY <1>1, <1>3, <1>5, <2>1 DEF StepsBehind
  <2>2. CASE outcome' = "booting" /\ step' = step + 1
    <3>1. ASSUME NEW k, Earlier(m, step', k)
          PROVE  k \in done'
      BY <1>1, <1>3, <2>2, <3>1, OneStepOn DEF BootInv, StepsBehind
    <3>2. ASSUME NEW p \in taken'
          PROVE  \E j \in 1 .. step' - 1 : p \in m[j].takes
      BY <1>1, <1>3, <2>2 DEF BootInv, StepsBehind
    <3> QED
      BY <1>1, <1>3, <1>5, <3>1, <3>2 DEF StepsBehind
  <2> QED
    BY <1>4, <2>1, <2>2
<1>7. TimersKnown'
  <2>1. conn' \notin {"off", "loop"} => "time" \in done
    BY DEF MainStep, BootInv, TimersKnown
  <2>2. outcome' = "running" => "time" \in done'
    <3> SUFFICES ASSUME step = Len(m)
                 PROVE  "time" \in done'
      BY <1>4
    <3>1. PICK i \in 1 .. Len(m) : m[i].name = "time"
      BY <1>3 DEF WellOrdered
    <3>2. CASE i = Len(m)
      BY <1>1, <3>1, <3>2
    <3>3. CASE i # Len(m)
      <4>1. Earlier(m, step, "time")
        BY <1>3, <3>1, <3>3 DEF Earlier, WellOrdered
      <4> QED
        BY <1>1, <4>1 DEF BootInv, StepsBehind
    <3> QED
      BY <3>2, <3>3
  <2> QED
    BY <1>1, <1>4, <2>1, <2>2 DEF TimersKnown
<1>8. AddressStands'
  <2> SUFFICES ASSUME outcome' = "booting", Current'.name = "unwrap"
               PROVE  address
    BY <1>1 DEF AddressStands
  <2>1. step' = step + 1 /\ m[step + 1].name = "unwrap"
    BY <1>1, <1>4 DEF Current
  <2>2. InOrder(m, step + 1)
    BY <1>3, <1>5, <2>1 DEF WellOrdered
  <2>3. m[step].name = "address"
    BY <1>3, <2>1, <2>2 DEF InOrder
  <2> QED
    BY <1>2, <2>3 DEF MainStep, NeedsNetwork, Current
<1>9. PanicHasCause'
  BY <1>4 DEF PanicHasCause
<1> QED
  BY <1>6, <1>7, <1>8, <1>9 DEF BootInv

\* A driver or the broker reports an error; main only returns from a step it was
\* suspended in.
LEMMA FailsKeeps ==
    ASSUME BootInv, MainFails
    PROVE  BootInv'
<1>1. outcome = "booting" /\ failed' # {} /\ outcome' = Current.onError
      /\ UNCHANGED <<program, step, suspended, done, taken>> /\ UNCHANGED stationVars
  BY DEF MainFails, MainRuns
<1>2. InOrder(Main(program), step)
  BY <1>1, StepPossible
<1>3. outcome' \in {"panicked", "returned"}
  BY <1>1, <1>2 DEF InOrder, Current, MainFails
<1>4. outcome' = "returned" => "time" \in done
  BY <1>1, <1>2 DEF InOrder, Current, MainFails, BootInv, TimersKnown
<1> QED
  BY <1>1, <1>3, <1>4
     DEF BootInv, StepsBehind, TimersKnown, AddressStands, PanicHasCause, stationVars

\* The tasks run: main is suspended or at its end, so that the time driver is
\* there, and it is not about to unwrap the address.
LEMMA TasksKeep ==
    ASSUME BootInv, outcome # "panicked",
           ConnectionStep \/ ConnectionFails \/ NetworkStep
    PROVE  BootInv'
<1>1. "time" \in done
  BY DEF ConnectionStep, ConnectionFails, NetworkStep, TasksRun, BootInv, TimersKnown
<1>2. ~ (outcome = "booting" /\ Current.name = "unwrap")
  BY DEF ConnectionStep, ConnectionFails, NetworkStep, TasksRun, BootInv, AddressStands
<1>3. UNCHANGED <<program, step, suspended, done, taken>>
  BY DEF ConnectionStep, ConnectionFails, NetworkStep, StartFails, mainVars
<1>4. \/ UNCHANGED <<outcome, failed>>
      \/ outcome' = "panicked" /\ failed' # {}
  BY DEF ConnectionStep, ConnectionFails, NetworkStep, StartFails, mainVars
<1>5. StepsBehind'
  BY <1>3, <1>4 DEF BootInv, StepsBehind
<1>6. TimersKnown' /\ PanicHasCause'
  BY <1>1, <1>3, <1>4 DEF BootInv, TimersKnown, PanicHasCause
<1>7. AddressStands'
  BY <1>2, <1>3, <1>4 DEF AddressStands, Current
<1> QED
  BY <1>5, <1>6, <1>7 DEF BootInv

\* The driver loses the connection, or nothing happens.
LEMMA RestKeeps ==
    ASSUME BootInv, DriverStep \/ UNCHANGED vars
    PROVE  BootInv'
<1>1. UNCHANGED <<mainVars, conn, address>>
  BY DEF DriverStep, LinkLost, vars, stationVars
<1> QED
  BY <1>1 DEF BootInv, StepsBehind, TimersKnown, AddressStands, PanicHasCause, Current,
              mainVars

\* The four programs never panic but over an error of a driver or the broker, and
\* `connection` uses no timer before the time driver is there: the order of the
\* steps of their main functions is right, whatever the network does meanwhile.
THEOREM BootIsSound ==
    ASSUME Programs \subseteq Ready
    PROVE  Spec => []OnlyDriversPanic
<1>1. Init => BootInv
  BY BootInvInit
<1>2. BootInv /\ [Next]_vars => BootInv'
  BY SuspendsKeeps, StepKeeps, FailsKeeps, TasksKeep, RestKeeps DEF Next
<1>3. BootInv => OnlyDriversPanic
  BY DEF BootInv, PanicHasCause, TimersKnown, OnlyDriversPanic
<1> QED
  BY <1>1, <1>2, <1>3, PTL DEF Spec
=============================================================================
