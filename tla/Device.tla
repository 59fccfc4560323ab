------------------------------- MODULE Device -------------------------------
(***************************************************************************)
(* The whole device over many boots: App (app/App.cpp) carrying out the    *)
(* decisions of RunState on a board whose switch, USB, cell and receiver   *)
(* move as they please, whose switch sense is noisy, and which can lose    *)
(* power or be reset between any two steps.                                *)
(*                                                                         *)
(* pc is where the program is.  begin() runs "hold" .. "ble" in order,     *)
(* stopPeripherals() "bleEnd" .. "imuEnd"; "loop" is the scheduler's loop, *)
(* in which each enabled job is one atomic action: the jobs are            *)
(* cooperative and share no state with the BLE tasks at this level.        *)
(***************************************************************************)
EXTENDS RunState

CONSTANTS
  Boards,      \* the boards to start from: "nrf" (battery, switched power), "esp32"
  NoiseSpan,   \* longest run of wrong switch readings, in power periods
  MaxLate,     \* longest time between two runs of the power job, in periods
  MaxFaults    \* bound: watchdog, pin and upload resets in a behaviour

ASSUME DeviceAssumption ==
  /\ Boards \subseteq {"nrf", "esp32"} /\ Boards # {}
  /\ NoiseSpan \in Nat /\ NoiseSpan < Debounce
  /\ MaxLate \in Nat \ {0}
  /\ MaxFaults \in Nat

VARIABLES
  board,                      \* "nrf" has a battery and switched power, "esp32" neither
  sw, usb, cell, receiver,    \* the world
  burst,                      \* 0, or 1 + how long the readings have been wrong
  faults,                     \* resets nobody asked for, so far
  pc, goal,                   \* where the program is; what it is on the way to
  waited, bootOn, bootUsb,    \* locals of begin(): the boot classification
  live,                       \* what is powered, open, advertising, running
  monitor,                    \* what GnssFeed and BatteryMonitor have concluded
  kept, cause, reason,        \* the kept restart code; this boot's ResetRecord
  ended,                      \* history: the restart that ended the last boot, if any
  switchWas,                  \* history: has the switch been off since this boot
  silentRestarts              \* history: GNSS restarts since the last epoch

world  == <<board, sw, usb, cell, receiver>>
locals == <<waited, bootOn, bootUsb>>
record == <<cause, reason>>
vars == <<coreVars, world, burst, faults, pc, goal, locals, live, monitor,
          kept, record, ended, switchWas, silentRestarts>>

HasBattery == board = "nrf"     \* and board::kHasSwitchedPower
Stopping == {"bleEnd", "uartEnd", "railOff", "imuEnd", "systemOff"}
Pcs == {"hold", "record", "sense", "wait", "railOn", "gnss", "imu", "ble"}
         \cup Stopping \cup {"loop", "store", "resetting", "sleep", "dead"}

TypeOK ==
  /\ CoreTypeOK
  /\ board \in Boards
  /\ sw \in Switch /\ usb \in Usb
  /\ cell \in {"Ok", "Low"} /\ receiver \in {"Streams", "Silent"}
  /\ burst \in 0 .. NoiseSpan + 1
  /\ faults \in 0 .. MaxFaults
  /\ pc \in Pcs /\ goal \in {"stay", "sleep"} \cup RestartReasons
  /\ waited \in 0 .. Debounce /\ bootOn \in Switch /\ bootUsb \in Usb
  /\ live \subseteq {"rail", "uart", "ble", "imu", "vbatHigh"}
  /\ monitor \subseteq {"epoch", "low", "cutoff"}
  /\ kept \in RestartReasons \cup {"none"}
  /\ cause \in {"PowerOn", "WakeUsb", "Pin", "Watchdog", "Software", "read"}
  /\ reason \in RestartReasons \cup {"unknown"}
  /\ ended \in RestartReasons \cup {"other"}
  /\ switchWas \in {"AlwaysOn", "OnceOff"}
  /\ silentRestarts \in Nat
-----------------------------------------------------------------------------
(* Resets and power.                                                       *)

Powered(s, u) == u = "In" \/ (HasBattery /\ s = "On")
WasFrom(s) == IF s = "On" THEN "AlwaysOn" ELSE "OnceOff"

\* Every reset forgets RAM and releases the pins.
Forget ==
  /\ CoreReset
  /\ burst' = 0 /\ goal' = "stay"
  /\ waited' = 0 /\ bootOn' = "On" /\ bootUsb' = "Out"
  /\ monitor' = {} /\ reason' = "unknown"
  /\ switchWas' = WasFrom(sw')
  /\ UNCHANGED silentRestarts

\* A reset of a powered chip keeps the restart code; an undriven GNSS rail is on.
Reset(why, c) ==
  /\ pc' = "hold" /\ live' = {"rail"} /\ cause' = c /\ ended' = why
  /\ Forget
  /\ UNCHANGED kept

\* Power gone: the kept byte comes back as anything.
PowerLost ==
  /\ pc' = "dead" /\ live' = {} /\ cause' = "PowerOn" /\ ended' = "other"
  /\ Forget
  /\ kept' \in RestartReasons \cup {"none"}

\* What the board does when its switch or its USB has moved.
PowerMoved ==
  \/ /\ ~Powered(sw', usb') /\ PowerLost
  \/ /\ Powered(sw', usb') /\ pc = "dead"
     /\ Reset("other", "PowerOn")
  \/ /\ Powered(sw', usb') /\ pc = "sleep" /\ usb = "Out" /\ usb' = "In"
     /\ Reset("other", "WakeUsb")
  \/ /\ Powered(sw', usb') /\ pc # "dead" /\ ~(pc = "sleep" /\ usb = "Out" /\ usb' = "In")
     /\ burst' = (IF sw' = sw THEN burst ELSE 0)
     /\ switchWas' = (IF sw' = "On" THEN switchWas ELSE "OnceOff")
     /\ UNCHANGED <<coreVars, pc, goal, locals, live, monitor, kept, record, ended,
                    silentRestarts>>

FlipSwitch ==
  /\ HasBattery
  /\ sw' \in Switch \ {sw}
  /\ UNCHANGED <<board, usb, cell, receiver, faults>>
  /\ PowerMoved

FlipUsb ==
  /\ usb' \in Usb \ {usb}
  /\ UNCHANGED <<board, sw, cell, receiver, faults>>
  /\ PowerMoved

CellChanges ==
  /\ HasBattery
  /\ cell' \in {"Ok", "Low"} \ {cell}
  /\ UNCHANGED <<coreVars, board, sw, usb, receiver, burst, faults, pc, goal, locals, live,
                 monitor, kept, record, ended, switchWas, silentRestarts>>

ReceiverChanges ==
  /\ receiver' \in {"Streams", "Silent"} \ {receiver}
  /\ UNCHANGED <<coreVars, board, sw, usb, cell, burst, faults, pc, goal, locals, live,
                 monitor, kept, record, ended, switchWas, silentRestarts>>

\* A hang anywhere, the reset pin, or an upload through the running console.
HardReset(c) ==
  /\ faults < MaxFaults /\ faults' = faults + 1
  /\ \/ c = "Watchdog" /\ pc \notin {"dead", "sleep"}
     \/ c = "Pin" /\ pc # "dead"
     \/ c = "Software" /\ pc = "loop" /\ usb = "In"
  /\ UNCHANGED world
  /\ Reset("other", c)
-----------------------------------------------------------------------------
(* Readings.                                                               *)

\* One reading of the switch, dt periods after the last: right, or wrong as
\* long as the readings have not been wrong for more than NoiseSpan.
ReadSwitch(reading, dt) ==
  \/ reading = sw /\ burst' = 0
  \/ /\ reading # sw
     /\ burst' = (IF burst = 0 THEN 1 ELSE burst + dt)
     /\ burst' <= NoiseSpan + 1

\* What a fresh cell voltage can say.  With the switch off the cell is out of
\* the circuit and the divider reads anything.
CellReadings == IF sw = "On" THEN {cell} ELSE {"Ok", "Low"}

\* App::apply: what a transition leads to.  Entering Starting powers up,
\* entering a stopped state stops everything.
Apply(t) ==
  \/ /\ t = "stay"
     /\ UNCHANGED <<pc, goal>>
  \/ /\ t = "enter"
     /\ goal' = "stay"
     /\ pc' = CASE state' = "Starting" -> "railOn"
                [] state' = "Running"  -> "loop"
                [] OTHER               -> "bleEnd"
  \/ /\ t = "systemOff"
     /\ goal' = "sleep" /\ pc' = "bleEnd"
  \/ /\ t \in RestartReasons
     /\ goal' = t /\ pc' = "store"
-----------------------------------------------------------------------------
(* begin(): hold everything off, note why we booted, classify, bring up.   *)

HoldAllOff ==
  /\ pc = "hold" /\ pc' = "record"
  /\ live' = (IF HasBattery THEN live \ {"rail", "imu"} ELSE live)
  /\ UNCHANGED <<coreVars, world, burst, faults, goal, locals, monitor, kept, record, ended,
                 switchWas, silentRestarts>>

ReasonTrusting(c, code) == IF code # "none" THEN code ELSE "unknown"

\* makeResetRecord: the code only counts after a software reset.
ReasonOf(c, code) == IF c = "Software" /\ code # "none" THEN code ELSE "unknown"

\* takeRestartCode: the byte never outlives the boot that read it.
Taken(code) == "none"

TakeRecord ==
  /\ pc = "record"
  /\ reason' = ReasonOf(cause, kept)
  /\ kept' = Taken(kept) /\ cause' = "read"
  /\ pc' = (IF HasBattery THEN "sense" ELSE "wait")
  /\ UNCHANGED <<coreVars, world, burst, faults, goal, locals, live, monitor, ended,
                 switchWas, silentRestarts>>

\* BatteryPort::begin(), primeBattery(), then USB and the switch, read once.
Sense ==
  /\ pc = "sense" /\ pc' = "wait"
  /\ \E v \in CellReadings : monitor' = (IF v = "Low" THEN {"low"} ELSE {})
  /\ bootUsb' = usb /\ waited' = 0
  /\ \E reading \in Switch : ReadSwitch(reading, 1) /\ bootOn' = reading
  /\ UNCHANGED <<coreVars, world, faults, goal, live, kept, record, ended, switchWas,
                 silentRestarts>>

StillOffShort == bootOn = "Off" /\ bootUsb = "In" /\ waited + 1 < Debounce
\* An OFF reading on USB has to hold as long as at runtime.
StillOff == bootOn = "Off" /\ bootUsb = "In" /\ waited < Debounce

WaitForSwitch ==
  /\ pc = "wait" /\ StillOff
  /\ waited' = waited + 1
  /\ \E reading \in Switch : ReadSwitch(reading, 1) /\ bootOn' = reading
  /\ UNCHANGED <<coreVars, world, faults, pc, goal, bootUsb, live, monitor, kept, record,
                 ended, switchWas, silentRestarts>>

\* Bring-up takes far longer than a burst of noise, so none outlives it.
\* Without a battery the policy is not consulted.
Classify ==
  /\ pc = "wait" /\ ~StillOff
  /\ \E t \in Transitions :
       /\ \/ HasBattery /\ Boot(bootOn, bootUsb, "low" \in monitor, t)
          \/ ~HasBattery /\ t = "enter" /\ UNCHANGED coreVars
       /\ Apply(t)
  /\ burst' = 0
  /\ waited' = 0 /\ bootOn' = "On" /\ bootUsb' = "Out"
  /\ UNCHANGED <<world, faults, live, monitor, kept, record, ended, switchWas,
                 silentRestarts>>

RailOn ==
  /\ pc = "railOn" /\ pc' = "gnss"
  /\ live' = live \cup {"rail"}
  /\ UNCHANGED <<coreVars, world, burst, faults, goal, locals, monitor, kept, record, ended,
                 switchWas, silentRestarts>>

\* Detection opens the UART, found or not.  A failure ends the bring-up here.
GnssBegin ==
  /\ pc = "gnss"
  /\ live' = live \cup {"uart"}
  /\ \/ pc' = "imu" /\ UNCHANGED <<coreVars, goal>>
     \/ \E failure \in {"GnssMissing", "GnssConfigFailed"}, t \in Transitions :
          Started(failure, t) /\ Apply(t)
  /\ UNCHANGED <<world, burst, faults, locals, monitor, kept, record, ended, switchWas,
                 silentRestarts>>

\* An IMU that does not come up is not fatal.
ImuBegin ==
  /\ pc = "imu" /\ pc' = "ble"
  /\ live' \in {live, live \cup {"imu"}}
  /\ UNCHANGED <<coreVars, world, burst, faults, goal, locals, monitor, kept, record, ended,
                 switchWas, silentRestarts>>

BleBegin ==
  /\ pc = "ble"
  /\ \E t \in Transitions :
       /\ \/ live' = live \cup {"ble"} /\ Started("None", t)
          \/ live' = live /\ Started("BleFailed", t)
       /\ Apply(t)
  /\ UNCHANGED <<world, burst, faults, locals, monitor, kept, record, ended, switchWas,
                 silentRestarts>>
-----------------------------------------------------------------------------
(* stopPeripherals(), and what follows it.  The UART closes before the     *)
(* rail goes off, so that its TX pin can idle low.                         *)

AfterUartSkipping == "imuEnd"
AfterBleRailFirst == "railOff"
AfterBle  == "uartEnd"
AfterUart == "railOff"

BleEnd ==
  /\ pc = "bleEnd" /\ pc' = AfterBle
  /\ live' = live \ {"ble"}
  /\ UNCHANGED <<coreVars, world, burst, faults, goal, locals, monitor, kept, record, ended,
                 switchWas, silentRestarts>>

UartEnd ==
  /\ pc = "uartEnd" /\ pc' = AfterUart
  /\ live' = live \ {"uart"}
  /\ UNCHANGED <<coreVars, world, burst, faults, goal, locals, monitor, kept, record, ended,
                 switchWas, silentRestarts>>

RailOff ==
  /\ pc = "railOff" /\ pc' = "imuEnd"
  /\ live' = (IF HasBattery THEN live \ {"rail"} ELSE live)
  /\ UNCHANGED <<coreVars, world, burst, faults, goal, locals, monitor, kept, record, ended,
                 switchWas, silentRestarts>>

ImuEnd ==
  /\ pc = "imuEnd" /\ pc' = (IF goal = "sleep" THEN "systemOff" ELSE "loop")
  /\ live' = live \ {"imu"}
  /\ UNCHANGED <<coreVars, world, burst, faults, goal, locals, monitor, kept, record, ended,
                 switchWas, silentRestarts>>

\* The rest of enterSystemOff(): VBAT_ENABLE driven HIGH, everything held off,
\* then asleep.
SystemOff ==
  /\ pc = "systemOff" /\ pc' = "sleep"
  /\ live' = (live \ {"rail", "imu"}) \cup {"vbatHigh"}
  /\ UNCHANGED <<coreVars, world, burst, faults, goal, locals, monitor, kept, record, ended,
                 switchWas, silentRestarts>>

\* restart(): the reason is kept, the console drained, then the reset.
StoreCode ==
  /\ pc = "store" /\ pc' = "resetting"
  /\ kept' = goal
  /\ UNCHANGED <<coreVars, world, burst, faults, goal, locals, live, monitor, record, ended,
                 switchWas, silentRestarts>>

Restart ==
  /\ pc = "resetting"
  /\ UNCHANGED <<world, faults>>
  /\ Reset(goal, "Software")
-----------------------------------------------------------------------------
(* The loop: the jobs that decide something.                               *)

Runs(job) == pc = "loop" /\ job \in JobsFor(state, HasBattery)

\* An epoch: feed_.add, and a liveness verdict that keeps everything as is.
GnssEpoch ==
  /\ Runs("gnss") /\ receiver = "Streams"
  /\ monitor' = monitor \cup {"epoch"} /\ silentRestarts' = 0
  /\ GnssLiveness("Flowing", "stay")
  /\ UNCHANGED <<world, burst, faults, pc, goal, locals, live, kept, record, ended,
                 switchWas>>

\* No epoch for kGnssSilenceMs.
GnssSilence ==
  /\ Runs("gnss") /\ receiver = "Silent"
  /\ \E t \in Transitions :
       /\ GnssLiveness(IF "epoch" \in monitor THEN "Stopped" ELSE "NeverStarted", t)
       /\ Apply(t)
       /\ silentRestarts' = silentRestarts + (IF t = "GnssSilent" THEN 1 ELSE 0)
  /\ UNCHANGED <<world, burst, faults, locals, live, monitor, kept, record, ended,
                 switchWas>>

\* A finished run of samples: one at or above the cutoff withdraws its request.
BatteryJob ==
  /\ Runs("battery")
  /\ \E v \in CellReadings :
       monitor' = (IF v = "Low" THEN monitor \cup {"low"} ELSE monitor \ {"low", "cutoff"})
  /\ UNCHANGED <<coreVars, world, burst, faults, pc, goal, locals, live, kept, record, ended,
                 switchWas, silentRestarts>>

\* The run that makes it kBatteryCutoffDebounceMs below the cutoff.
CutoffHeld ==
  /\ Runs("battery")
  /\ "low" \in monitor /\ "Low" \in CellReadings
  /\ monitor' = monitor \cup {"cutoff"}
  /\ UNCHANGED <<coreVars, world, burst, faults, pc, goal, locals, live, kept, record, ended,
                 switchWas, silentRestarts>>

PowerJob ==
  /\ Runs("power")
  /\ \E reading \in Switch, dt \in 1 .. MaxLate, t \in Transitions :
       /\ ReadSwitch(reading, dt)
       /\ Power(dt, reading, usb, "cutoff" \in monitor, t)
       /\ Apply(t)
  /\ UNCHANGED <<world, faults, locals, live, monitor, kept, record, ended, switchWas,
                 silentRestarts>>

\* R and O, from the console in any state or from a BLE client.
Command ==
  /\ Runs("console")
  /\ \E t \in {"Requested", IF HasBattery THEN "systemOff" ELSE "stay"} : Apply(t)
  /\ UNCHANGED <<coreVars, world, burst, faults, locals, live, monitor, kept, record, ended,
                 switchWas, silentRestarts>>
-----------------------------------------------------------------------------
Init ==
  /\ CoreInit
  /\ board \in Boards
  /\ sw \in (IF HasBattery THEN Switch ELSE {"On"})
  /\ usb = "Out" /\ cell = "Ok" /\ receiver = "Streams"
  /\ burst = 0 /\ faults = 0
  /\ pc = (IF Powered(sw, usb) THEN "hold" ELSE "dead")
  /\ goal = "stay"
  /\ waited = 0 /\ bootOn = "On" /\ bootUsb = "Out"
  /\ live = (IF Powered(sw, usb) THEN {"rail"} ELSE {})
  /\ monitor = {}
  /\ kept \in RestartReasons \cup {"none"}
  /\ cause = "PowerOn" /\ reason = "unknown" /\ ended = "other"
  /\ switchWas = WasFrom(sw)
  /\ silentRestarts = 0

World == FlipSwitch \/ FlipUsb \/ CellChanges \/ ReceiverChanges
          \/ (\E c \in {"Watchdog", "Pin", "Software"} : HardReset(c))

Boots == HoldAllOff \/ TakeRecord \/ Sense \/ WaitForSwitch \/ Classify
          \/ RailOn \/ GnssBegin \/ ImuBegin \/ BleBegin

Stops == BleEnd \/ UartEnd \/ RailOff \/ ImuEnd \/ SystemOff \/ StoreCode \/ Restart

Jobs == GnssEpoch \/ GnssSilence \/ BatteryJob \/ CutoffHeld \/ PowerJob \/ Command

Next == World \/ Boots \/ Stops \/ Jobs

Spec == Init /\ [][Next]_vars

\* The program runs and its jobs come round; nothing is fair about the world,
\* but that noise ends: the power job comes round with a right reading.
Fairness ==
  /\ WF_vars(Boots) /\ WF_vars(Stops)
  /\ WF_vars(GnssEpoch) /\ WF_vars(GnssSilence)
  /\ WF_vars(BatteryJob) /\ WF_vars(CutoffHeld)
  /\ WF_vars(PowerJob /\ burst' = 0)

FairSpec == Spec /\ Fairness
-----------------------------------------------------------------------------
(* Properties.                                                             *)

\* While the loop runs, every action the power policy could return next is
\* one the current state acts on: the state machine and the policy it owns
\* never drift apart, so no switch edge, USB removal or cutoff is swallowed
\* by the final "stay" of RunStateMachine::power.
NothingDropped ==
  pc = "loop" /\ HasBattery =>
    \A on \in Switch, u \in Usb, cut \in BOOLEAN :
      Decide(on, u, cut) \in Obeyed(state) \cup {"None"}

\* Noise on the switch sense never parks a device: it waits or charges only
\* if the switch really has been off since this boot (App::begin and
\* Debounced apply the same hold).
NoGhostStop == state \in {"BatteryWait", "ChargeOnly"} => switchWas = "OnceOff"

\* The boot log tells the truth: it names one of our restart reasons exactly
\* when the reset before this boot was that restart, whatever power losses,
\* watchdog resets and uploads came between storing the byte and reading it.
ReasonTrue ==
  pc \notin {"hold", "record", "dead"} =>
    reason = IF ended \in RestartReasons THEN ended ELSE "unknown"

\* A device that is not running, or asleep, has nothing left on: no rail, no
\* open UART, no advertising, no IMU, whichever step stopped it.
StoppedMeansOff ==
  (pc = "loop" /\ state # "Running") \/ pc = "sleep" =>
    /\ live \cap {"uart", "ble", "imu"} = {}
    /\ HasBattery => "rail" \notin live

\* The UART is never open over an unpowered receiver, which would back-power
\* it through TX (PeripheralPower::gnssRailOff's precondition).
UartNeedsRail == "uart" \in live => "rail" \in live

\* Every bring-up is the first since a reset: no epoch or request from before it
\* is still kept, because the drivers' end() does not clear what begin() assumes
\* ("Running is only ever entered from this boot-time bring-up", App::enter).
FreshStart ==
  pc \in {"railOn", "gnss", "imu", "ble"} => monitor \cap {"epoch", "cutoff"} = {}

\* "A dead receiver costs one restart and no more": between two epochs at
\* most one GNSS restart, across any boots, faults and power cycles.
OneRestartPerSilence == silentRestarts <= 1

\* The mode the owner sees.
SeenAs == [Starting |-> "boot", Running |-> "running", Fault |-> "fault",
           BatteryWait |-> "wait", ChargeOnly |-> "charge"]
ModeSeen == IF pc \in {"dead", "sleep"} THEN "off" ELSE SeenAs[state]

Modes == INSTANCE PowerModes WITH
  mode <- ModeSeen,
  onLeadsTo <- IF ModeSeen = "wait" THEN onLeadsTo ELSE "charge"

\* The device does only what PowerModes promises its owner.
PromisedModes == Modes!Spec

\* A cell that stays below the cutoff, on battery, ends in System OFF from
\* whatever state it is in: the battery job runs in every state.
LowCellSleeps ==
  <>[](HasBattery /\ sw = "On" /\ usb = "Out" /\ cell = "Low") => <>(pc = "sleep")

\* A switch that stays off on USB is honoured, in Running and Fault alike:
\* again and again the device waits, unless someone put it to sleep.
SwitchHonoured ==
  <>[](HasBattery /\ sw = "Off" /\ usb = "In" /\ burst = 0)
    => []<>(state = "BatteryWait" \/ pc = "sleep")

\* A device unplugged with its switch on goes back to work: it does not stay
\* in BATTERY_WAIT or CHARGE_ONLY on its battery.
UnpluggedRuns ==
  <>[](HasBattery /\ sw = "On" /\ usb = "Out")
    => []<>(state \in {"Running", "Fault"} \/ pc = "sleep")

\* What platform/BatteryPort.h says of disableVoltageSense: VBAT_ENABLE goes
\* HIGH only with the cell measured below the cutoff.
SenseOffOnlyLow == "vbatHigh" \in live => "low" \in monitor
=============================================================================
