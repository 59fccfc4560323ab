------------------------------ MODULE RunState ------------------------------
(***************************************************************************)
(* The decisions of the firmware: core/RunStateMachine.h over              *)
(* core/PowerPolicy.h over its Debounced switch.  Nothing here touches     *)
(* hardware; module Device carries each transition out, as App does.       *)
(*                                                                         *)
(* The unit of time is one period of the power job (50 ms).  Flags that    *)
(* have a name for each value are modelled by those names.                 *)
(***************************************************************************)
EXTENDS Integers

CONSTANT Debounce   \* kSwitchDebounceMs, in power periods

ASSUME DebounceAssumption == Debounce \in Nat \ {0}

VARIABLES
  state,       \* RunStateMachine::state_
  fault,       \* RunStateMachine::fault_
  stable,      \* Debounced::stable_
  held,        \* Debounced: 0, or 1 + how long a differing run has lasted
  phase,       \* PowerPolicy: running_, chargingOnly_, or neither
  onLeadsTo    \* PowerPolicy::onEntersChargeOnly_: what ON leads to when waiting

coreVars == <<state, fault, stable, held, phase, onLeadsTo>>

Switch         == {"On", "Off"}
Usb            == {"In", "Out"}
RunStates      == {"Starting", "Running", "Fault", "BatteryWait", "ChargeOnly"}
FaultReasons   == {"None", "GnssMissing", "GnssConfigFailed", "GnssNoData", "BleFailed"}
RestartReasons == {"SwitchOn", "UsbRemoved", "GnssSilent", "Requested"}

(***************************************************************************)
(* What an event leads to: "stay", "enter" (the state is then state'),     *)
(* "systemOff", or a restart, named by its reason.                         *)
(***************************************************************************)
Transitions == {"stay", "enter", "systemOff"} \cup RestartReasons

CoreTypeOK ==
  /\ state \in RunStates
  /\ fault \in FaultReasons
  /\ stable \in Switch
  /\ held \in 0 .. Debounce
  /\ phase \in {"running", "charging", "waiting"}
  /\ onLeadsTo \in {"charge", "run"}

\* The members' initial values: what every reset starts from.
CoreInit ==
  /\ state = "Starting" /\ fault = "None"
  /\ stable = "On" /\ held = 0
  /\ phase = "waiting" /\ onLeadsTo = "charge"

CoreReset ==
  /\ state' = "Starting" /\ fault' = "None"
  /\ stable' = "On" /\ held' = 0
  /\ phase' = "waiting" /\ onLeadsTo' = "charge"
-----------------------------------------------------------------------------
(* The switch, cleaned up twice: the USB rule and the debounce.            *)

\* Without USB, switching off unpowers the MCU: an OFF reading is noise.
Clean(reading, u) == IF u = "Out" THEN "On" ELSE reading

HoldMetLate(age) == age > Debounce
HoldMet(age) == age >= Debounce

\* One reading, dt periods after the previous one.
DebounceReading(reading, dt) ==
  LET age == IF held = 0 THEN 0 ELSE held - 1 + dt
  IN  \/ /\ reading = stable
         /\ held' = 0 /\ UNCHANGED stable
      \/ /\ reading # stable /\ ~HoldMet(age)
         /\ held' = age + 1 /\ UNCHANGED stable
      \/ /\ reading # stable /\ HoldMet(age)
         /\ stable' = reading /\ held' = 0
-----------------------------------------------------------------------------
(* PowerPolicy: what the cleaned switch, USB and the cutoff call for.      *)

PowerActions == {"None", "StopForSwitch", "EnterChargeOnly", "ResetForSwitchOn",
                 "ResetForUsbRemoval", "EnterSystemOff"}

DecideForgetful(on, u, cut) ==
  CASE phase = "waiting" /\ on = "Off" -> "None"
    [] phase = "waiting" /\ on = "On" /\ u = "In" -> "EnterChargeOnly"
    [] phase = "waiting" /\ on = "On" /\ u = "Out" -> "ResetForSwitchOn"
    [] phase = "charging" /\ u = "Out" -> "ResetForUsbRemoval"
    [] phase = "running" /\ cut /\ u = "Out" -> "EnterSystemOff"
    [] OTHER -> IF on = "On" THEN "None" ELSE "StopForSwitch"

Decide(on, u, cut) ==
  CASE phase = "waiting" /\ on = "Off" -> "None"
    [] phase = "waiting" /\ on = "On" /\ onLeadsTo = "charge" /\ u = "In" -> "EnterChargeOnly"
    [] phase = "waiting" /\ on = "On" /\ ~(onLeadsTo = "charge" /\ u = "In")
         -> "ResetForSwitchOn"
    [] phase = "charging" /\ u = "Out" -> "ResetForUsbRemoval"
    [] phase = "running" /\ cut /\ u = "Out" -> "EnterSystemOff"
    [] OTHER -> IF on = "On" THEN "None" ELSE "StopForSwitch"

\* What update() keeps for its next call: off from running waits to charge,
\* off from charging waits to run.
Remember(action) ==
  /\ phase' = CASE action = "StopForSwitch"   -> "waiting"
                [] action = "EnterChargeOnly" -> "charging"
                [] OTHER                      -> phase
  /\ onLeadsTo' = CASE action # "StopForSwitch" -> onLeadsTo
                    [] action = "StopForSwitch" /\ phase = "charging" -> "run"
                    [] action = "StopForSwitch" /\ phase # "charging" -> "charge"
-----------------------------------------------------------------------------
(* RunStateMachine: one operator per event.                                *)

ObeyedRunning(s) ==
  CASE s = "Running" -> {"StopForSwitch", "EnterSystemOff"}
    [] s = "BatteryWait" -> {"EnterChargeOnly", "ResetForSwitchOn"}
    [] s = "ChargeOnly"  -> {"StopForSwitch", "ResetForSwitchOn"}
    [] s \in {"Starting", "Fault"} -> {}

ObeyedCharging(s) ==
  CASE s \in {"Running", "Fault"} -> {"StopForSwitch", "EnterSystemOff"}
    [] s = "BatteryWait" -> {"EnterChargeOnly", "ResetForSwitchOn"}
    [] s = "ChargeOnly"  -> {"StopForSwitch", "ResetForSwitchOn"}
    [] s = "Starting"    -> {}

\* The policy's actions each state acts on; the others come to "stay".
Obeyed(s) ==
  CASE s \in {"Running", "Fault"} -> {"StopForSwitch", "EnterSystemOff"}
    [] s = "BatteryWait" -> {"EnterChargeOnly", "ResetForSwitchOn"}
    [] s = "ChargeOnly"  -> {"StopForSwitch", "ResetForSwitchOn", "ResetForUsbRemoval"}
    [] s = "Starting"    -> {}

\* boot() with a battery: PowerPolicy::begin, then the state it picks.
Boot(reading, u, belowCutoff, t) ==
  LET on == Clean(reading, u)
  IN  /\ stable' = on /\ held' = 0
      /\ phase' = (IF on = "On" THEN "running" ELSE "waiting") /\ onLeadsTo' = "charge"
      /\ state' = (IF on = "On" THEN "Starting" ELSE "BatteryWait")
      /\ t = (IF on = "On" /\ u = "Out" /\ belowCutoff THEN "systemOff" ELSE "enter")
      /\ UNCHANGED fault

\* started(), in Starting: the only way into Running.
Started(failure, t) ==
  \/ /\ state # "Starting" /\ t = "stay"
     /\ UNCHANGED <<state, fault, stable, held, phase, onLeadsTo>>
  \/ /\ state = "Starting" /\ failure = "None" /\ t = "enter"
     /\ state' = "Running"
     /\ UNCHANGED <<fault, stable, held, phase, onLeadsTo>>
  \/ /\ state = "Starting" /\ failure # "None" /\ t = "enter"
     /\ state' = "Fault" /\ fault' = failure
     /\ UNCHANGED <<stable, held, phase, onLeadsTo>>

GnssLivenessRestarting(verdict, t) ==
  /\ t = IF state = "Running" /\ verdict # "Flowing" THEN "GnssSilent" ELSE "stay"
  /\ UNCHANGED coreVars

\* gnssLiveness(): epochs that stop restart, epochs that never came are a fault.
GnssLiveness(verdict, t) ==
  \/ /\ state # "Running" \/ verdict = "Flowing"
     /\ t = "stay" /\ UNCHANGED coreVars
  \/ /\ state = "Running" /\ verdict = "Stopped"
     /\ t = "GnssSilent" /\ UNCHANGED coreVars
  \/ /\ state = "Running" /\ verdict = "NeverStarted"
     /\ t = "enter" /\ state' = "Fault" /\ fault' = "GnssNoData"
     /\ UNCHANGED <<stable, held, phase, onLeadsTo>>

ObeyWithoutReset(action, t) ==
  \/ /\ action \notin Obeyed(state)
     /\ t = "stay" /\ UNCHANGED state
  \/ /\ action \in Obeyed(state)
     /\ \/ action = "StopForSwitch"      /\ t = "enter" /\ state' = "BatteryWait"
        \/ action = "EnterChargeOnly"    /\ t = "enter" /\ state' = "ChargeOnly"
        \/ action = "EnterSystemOff"     /\ t = "systemOff" /\ UNCHANGED state
        \/ action = "ResetForSwitchOn"   /\ t = "enter" /\ state' = "Starting"
        \/ action = "ResetForUsbRemoval" /\ t = "UsbRemoved" /\ UNCHANGED state

\* power(): what the state makes of the policy's action.
Obey(action, t) ==
  \/ /\ action \notin Obeyed(state)
     /\ t = "stay" /\ UNCHANGED state
  \/ /\ action \in Obeyed(state)
     /\ \/ action = "StopForSwitch"      /\ t = "enter" /\ state' = "BatteryWait"
        \/ action = "EnterChargeOnly"    /\ t = "enter" /\ state' = "ChargeOnly"
        \/ action = "EnterSystemOff"     /\ t = "systemOff" /\ UNCHANGED state
        \/ action = "ResetForSwitchOn"   /\ t = "SwitchOn" /\ UNCHANGED state
        \/ action = "ResetForUsbRemoval" /\ t = "UsbRemoved" /\ UNCHANGED state

\* power(): the policy is updated on every call, whatever comes of its action.
Power(dt, reading, u, cut, t) ==
  /\ DebounceReading(Clean(reading, u), dt)
  /\ LET action == Decide(stable', u, cut) IN Remember(action) /\ Obey(action, t)
  /\ UNCHANGED fault

JobsForStrict(s, hasBattery) ==
  {"led", "console"}
    \cup (IF s = "Running" THEN {"gnss", "imu", "ble"} ELSE {})
    \cup (IF hasBattery /\ s # "Fault" THEN {"battery", "power"} ELSE {})

\* jobsFor(), for a protocol that uses the IMU (RaceBox, the only one, does).
JobsFor(s, hasBattery) ==
  {"led", "console"}
    \cup (IF s = "Running" THEN {"gnss", "imu", "ble"} ELSE {})
    \cup (IF hasBattery THEN {"battery", "power"} ELSE {})
=============================================================================
