---------------------------- MODULE DeviceProofs ----------------------------
(* Theorems about Device, for every value of its constants. *)
EXTENDS Device, TLAPS

USE DebounceAssumption, DeviceAssumption

(***************************************************************************)
(* The invariants of Device are not inductive as they stand.  Each part    *)
(* below adds what its neighbours at other places of the program supply;   *)
(* a part rests on the parts before it.                                    *)
(***************************************************************************)

\* A restart in progress has a reason.
TypeInv == TypeOK /\ (pc \in {"store", "resetting"} => goal \in RestartReasons)

BringingUp == {"railOn", "gnss", "imu", "ble"}
Classifying == {"hold", "record", "sense", "wait"}

\* The state machine's state, its policy's phase and the program's place agree.
PolicyInv ==
  /\ HasBattery /\ state \in {"Running", "Fault"} => phase = "running"
  /\ HasBattery /\ pc \in BringingUp => phase = "running"
  /\ state = "BatteryWait" => HasBattery /\ phase = "waiting"
  /\ state = "ChargeOnly" => HasBattery /\ phase = "charging"
  /\ pc \in BringingUp \cup Classifying => state = "Starting"
  /\ pc = "loop" => state # "Starting"
  /\ pc \in Stopping /\ goal # "sleep" => state \notin {"Starting", "Running"}
  /\ phase = "charging" => state = "ChargeOnly"

\* As long as the switch has been on, no reading it gave has outlived a burst.
NoiseInv ==
  /\ phase \in {"running", "charging"} => stable = "On"
  /\ pc \in Classifying => held = 0
  /\ pc \in {"hold", "record"} => bootOn = "On"
  /\ switchWas = "AlwaysOn" =>
       /\ sw = "On" /\ stable = "On" /\ held <= burst
       /\ state \notin {"BatteryWait", "ChargeOnly"}
       /\ pc = "wait" /\ bootOn = "Off" => waited + 1 <= burst

\* Where the restart code is, and what it says of the last boot.
ReasonInv ==
  /\ ReasonTrue
  /\ pc \notin {"hold", "record", "dead", "resetting"} => kept = "none"
  /\ pc = "resetting" => kept = goal
  /\ pc = "dead" => cause = "PowerOn" /\ ended = "other"
  /\ pc \in {"hold", "record"} =>
       IF cause = "Software" THEN kept = (IF ended = "other" THEN "none" ELSE ended)
                             ELSE ended = "other"

\* What is live at each place of the program.
LiveInv ==
  /\ UartNeedsRail
  /\ pc \in Classifying \cup {"railOn", "dead"} => live \cap {"uart", "ble", "imu"} = {}
  /\ pc \in BringingUp \ {"railOn"} => "rail" \in live
  /\ pc \in Stopping \ {"bleEnd"} => "ble" \notin live
  /\ pc \in Stopping \ {"bleEnd", "uartEnd"} => "uart" \notin live
  /\ HasBattery /\ pc \in {"imuEnd", "systemOff"} => "rail" \notin live
  /\ pc = "systemOff" => "imu" \notin live
  /\ StoppedMeansOff

\* A GNSS restart is followed by an epoch before there can be another.
RestartInv ==
  /\ OneRestartPerSilence
  /\ "epoch" \in monitor /\ pc \notin {"store", "resetting"} => silentRestarts = 0

\* A device out of the box, switched on or not, is in its types.
LEMMA TypeInit == Init => TypeOK
  BY DEF Init, CoreInit, TypeOK, CoreTypeOK, Pcs, Stopping, RunStates, Switch, Usb, WasFrom,
         FaultReasons, RestartReasons, Powered, HasBattery

\* What every reset forgets comes back as a member's initial value.
LEMMA ForgetType ==
  ASSUME TypeOK, Forget, sw' \in Switch
  PROVE  /\ CoreTypeOK' /\ burst' = 0 /\ goal' = "stay"
         /\ waited' \in 0 .. Debounce /\ bootOn' \in Switch /\ bootUsb' \in Usb
         /\ monitor' = {} /\ reason' = "unknown" /\ silentRestarts' \in Nat
         /\ switchWas' \in {"AlwaysOn", "OnceOff"}
  BY DEF Forget, CoreReset, CoreTypeOK, TypeOK, RunStates, FaultReasons, Switch, Usb, WasFrom

\* A reset leaves the device in a state of its types, at the start of begin().
LEMMA ResetType ==
  ASSUME TypeOK, NEW why \in RestartReasons \cup {"other"},
         NEW c \in {"PowerOn", "WakeUsb", "Pin", "Watchdog", "Software"},
         Reset(why, c), sw' \in Switch, usb' \in Usb, faults' \in 0 .. MaxFaults,
         UNCHANGED <<board, cell, receiver>>
  PROVE  TypeOK'
  BY ForgetType DEF Reset, TypeOK, Pcs

\* The switch, USB, the cell, the receiver and faults keep every type.
LEMMA WorldType == TypeOK /\ World => TypeOK'
  <1> SUFFICES ASSUME TypeOK, World PROVE TypeOK'
    OBVIOUS
  <1>1. ASSUME sw' \in Switch, usb' \in Usb, PowerMoved,
               UNCHANGED <<board, cell, receiver, faults>>
        PROVE  TypeOK'
    <2>0. faults' \in 0 .. MaxFaults
      BY <1>1 DEF TypeOK
    <2>1. CASE PowerLost
      BY <1>1, <2>1, ForgetType DEF PowerLost, TypeOK, Pcs
    <2>2. CASE Reset("other", "PowerOn")
      BY <1>1, <2>0, <2>2, ResetType
    <2>3. CASE Reset("other", "WakeUsb")
      BY <1>1, <2>0, <2>3, ResetType
    <2>4. CASE /\ burst' = (IF sw' = sw THEN burst ELSE 0)
               /\ switchWas' = (IF sw' = "On" THEN switchWas ELSE "OnceOff")
               /\ UNCHANGED <<coreVars, pc, goal, locals, live, monitor, kept, record,
                              ended, silentRestarts>>
      BY <1>1, <2>4 DEF TypeOK, CoreTypeOK, coreVars, locals, record
    <2>5. QED
      BY <1>1, <2>1, <2>2, <2>3, <2>4 DEF PowerMoved
  <1>2. CASE FlipSwitch
    BY <1>1, <1>2 DEF FlipSwitch, TypeOK
  <1>3. CASE FlipUsb
    BY <1>1, <1>3 DEF FlipUsb, TypeOK
  <1>4. CASE CellChanges
    BY <1>4 DEF CellChanges, TypeOK, CoreTypeOK, coreVars, locals, record
  <1>5. CASE ReceiverChanges
    BY <1>5 DEF ReceiverChanges, TypeOK, CoreTypeOK, coreVars, locals, record
  <1>6. ASSUME NEW c \in {"Watchdog", "Pin", "Software"}, HardReset(c)
        PROVE  TypeOK'
    <2>1. faults' \in 0 .. MaxFaults /\ UNCHANGED world /\ Reset("other", c)
      BY <1>6 DEF HardReset, TypeOK
    <2>2. QED
      BY <2>1, ResetType DEF TypeOK, world
  <1>7. QED
    BY <1>2, <1>3, <1>4, <1>5, <1>6 DEF World

\* A transition leaves the program at a place of its own, with a goal.
LEMMA ApplyType ==
  ASSUME TypeOK, NEW t \in Transitions, Apply(t)
  PROVE  pc' \in Pcs /\ goal' \in {"stay", "sleep"} \cup RestartReasons
  BY DEF Apply, TypeOK, Pcs, Stopping, RestartReasons, Transitions

\* However wrong, a reading keeps its burst within the longest one.
LEMMA ReadType ==
  ASSUME TypeOK, NEW reading \in Switch, NEW dt \in Nat, ReadSwitch(reading, dt)
  PROVE  burst' \in 0 .. NoiseSpan + 1
  BY DEF ReadSwitch, TypeOK

\* The debounced switch never counts past the hold.
LEMMA PowerType ==
  ASSUME CoreTypeOK, NEW dt \in Nat, NEW reading \in Switch, NEW t \in Transitions,
         Power(dt, reading, usb, "cutoff" \in monitor, t)
  PROVE  CoreTypeOK'
  <1>1. stable' \in Switch /\ held' \in 0 .. Debounce
    BY DEF Power, DebounceReading, HoldMet, Clean, CoreTypeOK, Switch
  <1>2. phase' \in {"running", "charging", "waiting"} /\ onLeadsTo' \in {"charge", "run"}
    BY DEF Power, Remember, CoreTypeOK
  <1>3. state' \in RunStates /\ fault' \in FaultReasons
    BY DEF Power, Obey, CoreTypeOK, RunStates
  <1>4. QED
    BY <1>1, <1>2, <1>3 DEF CoreTypeOK

\* started() leads to a run state, with a fault it has a name for.
LEMMA StartedType ==
  ASSUME CoreTypeOK, NEW failure \in FaultReasons, NEW t, Started(failure, t)
  PROVE  CoreTypeOK'
  BY DEF Started, CoreTypeOK, RunStates, FaultReasons

\* gnssLiveness() leads to a run state, with a fault it has a name for.
LEMMA LivenessType ==
  ASSUME CoreTypeOK, NEW verdict, NEW t, GnssLiveness(verdict, t)
  PROVE  CoreTypeOK'
  BY DEF GnssLiveness, CoreTypeOK, RunStates, FaultReasons, coreVars

\* The steps of begin() keep every type.
LEMMA BootsType == TypeOK /\ Boots => TypeOK'
  <1> SUFFICES ASSUME TypeOK, Boots PROVE TypeOK'
    OBVIOUS
  <1> USE DEF TypeOK, coreVars, world, locals, record
  <1>1. CASE HoldAllOff
    BY <1>1 DEF HoldAllOff, CoreTypeOK, Pcs
  <1>2. CASE TakeRecord
    BY <1>2 DEF TakeRecord, ReasonOf, Taken, CoreTypeOK, Pcs
  <1>3. CASE Sense
    BY <1>3, ReadType DEF Sense, CoreTypeOK, Pcs
  <1>4. CASE WaitForSwitch
    BY <1>4, ReadType DEF WaitForSwitch, StillOff, CoreTypeOK
  <1>5. CASE Classify
    <2> PICK t \in Transitions :
          /\ \/ HasBattery /\ Boot(bootOn, bootUsb, "low" \in monitor, t)
             \/ ~HasBattery /\ t = "enter" /\ UNCHANGED coreVars
          /\ Apply(t)
      BY <1>5 DEF Classify
    <2>1. CoreTypeOK'
      BY DEF Boot, Clean, CoreTypeOK, RunStates, Switch
    <2>2. pc' \in Pcs /\ goal' \in {"stay", "sleep"} \cup RestartReasons
      BY ApplyType
    <2>3. QED
      BY <1>5, <2>1, <2>2 DEF Classify, Switch, Usb
  <1>6. CASE RailOn
    BY <1>6 DEF RailOn, CoreTypeOK, Pcs
  <1>7. CASE GnssBegin
    <2>1. CASE pc' = "imu" /\ UNCHANGED <<coreVars, goal>>
      BY <1>7, <2>1 DEF GnssBegin, CoreTypeOK, Pcs
    <2>2. CASE \E failure \in {"GnssMissing", "GnssConfigFailed"}, t \in Transitions :
                 Started(failure, t) /\ Apply(t)
      <3>1. CoreTypeOK' /\ pc' \in Pcs /\ goal' \in {"stay", "sleep"} \cup RestartReasons
        BY <2>2, StartedType, ApplyType DEF FaultReasons
      <3>2. QED
        BY <1>7, <3>1 DEF GnssBegin
    <2>3. QED
      BY <1>7, <2>1, <2>2 DEF GnssBegin
  <1>8. CASE ImuBegin
    BY <1>8 DEF ImuBegin, CoreTypeOK, Pcs
  <1>9. CASE BleBegin
    <2>1. CoreTypeOK' /\ pc' \in Pcs /\ goal' \in {"stay", "sleep"} \cup RestartReasons
      BY <1>9, StartedType, ApplyType DEF BleBegin, FaultReasons
    <2>2. QED
      BY <1>9, <2>1 DEF BleBegin
  <1>10. QED
    BY <1>1, <1>2, <1>3, <1>4, <1>5, <1>6, <1>7, <1>8, <1>9 DEF Boots

\* stopPeripherals(), System OFF and restart() keep every type; a restart has a
\* reason to store.
LEMMA StopsType == TypeInv /\ Stops => TypeOK'
  <1> SUFFICES ASSUME TypeInv, Stops PROVE TypeOK'
    OBVIOUS
  <1>1. CASE Restart
    BY <1>1, ResetType DEF Restart, world, TypeOK, TypeInv
  <1> USE DEF TypeInv, TypeOK, coreVars, world, locals, record, CoreTypeOK, Pcs, Stopping
  <1>2. CASE BleEnd
    BY <1>2 DEF BleEnd, AfterBle
  <1>3. CASE UartEnd
    BY <1>3 DEF UartEnd, AfterUart
  <1>4. CASE RailOff
    BY <1>4 DEF RailOff
  <1>5. CASE ImuEnd
    BY <1>5 DEF ImuEnd
  <1>6. CASE SystemOff
    BY <1>6 DEF SystemOff
  <1>7. CASE StoreCode
    BY <1>7 DEF StoreCode
  <1>8. QED
    BY <1>1, <1>2, <1>3, <1>4, <1>5, <1>6, <1>7 DEF Stops

\* The jobs of the loop keep every type.
LEMMA JobsType == TypeOK /\ Jobs => TypeOK'
  <1> SUFFICES ASSUME TypeOK, Jobs PROVE TypeOK'
    OBVIOUS
  <1> USE DEF TypeOK, coreVars, world, locals, record
  <1>1. CASE GnssEpoch
    BY <1>1, LivenessType DEF GnssEpoch
  <1>2. CASE GnssSilence
    <2>1. CoreTypeOK' /\ pc' \in Pcs /\ goal' \in {"stay", "sleep"} \cup RestartReasons
      BY <1>2, LivenessType, ApplyType DEF GnssSilence
    <2>2. silentRestarts' \in Nat
      BY <1>2 DEF GnssSilence
    <2>3. QED
      BY <1>2, <2>1, <2>2 DEF GnssSilence
  <1>3. CASE BatteryJob
    BY <1>3 DEF BatteryJob, CoreTypeOK
  <1>4. CASE CutoffHeld
    BY <1>4 DEF CutoffHeld, CoreTypeOK
  <1>5. CASE PowerJob
    <2> PICK reading \in Switch, dt \in 1 .. MaxLate, t \in Transitions :
          /\ ReadSwitch(reading, dt)
          /\ Power(dt, reading, usb, "cutoff" \in monitor, t)
          /\ Apply(t)
      BY <1>5 DEF PowerJob
    <2>1. dt \in Nat
      OBVIOUS
    <2>2. CoreTypeOK'
      BY <2>1, PowerType
    <2>3. pc' \in Pcs /\ goal' \in {"stay", "sleep"} \cup RestartReasons
      BY ApplyType
    <2>4. burst' \in 0 .. NoiseSpan + 1
      BY <2>1, ReadType
    <2>5. QED
      BY <1>5, <2>2, <2>3, <2>4 DEF PowerJob
  <1>6. CASE Command
    <2>1. PICK t \in Transitions : Apply(t)
      BY <1>6 DEF Command, Transitions, RestartReasons
    <2>2. pc' \in Pcs /\ goal' \in {"stay", "sleep"} \cup RestartReasons
      BY <2>1, ApplyType
    <2>3. QED
      BY <1>6, <2>2 DEF Command, CoreTypeOK
  <1>7. QED
    BY <1>1, <1>2, <1>3, <1>4, <1>5, <1>6 DEF Jobs

\* Only a transition leads into a restart, and it names its reason.
LEMMA GoalStep == TypeInv /\ Next => (pc' \in {"store", "resetting"} => goal' \in RestartReasons)
  <1> SUFFICES ASSUME TypeInv, Next, pc' \in {"store", "resetting"}
               PROVE  goal' \in RestartReasons
    OBVIOUS
  <1> USE DEF TypeInv
  <1>1. ASSUME NEW t, Apply(t), pc \notin {"store", "resetting"}
        PROVE  goal' \in RestartReasons
    BY <1>1 DEF Apply
  <1>2. CASE World
    BY <1>2 DEF World, FlipSwitch, FlipUsb, CellChanges, ReceiverChanges, HardReset, PowerMoved,
                PowerLost, Reset
  <1>3. CASE Boots
    BY <1>1, <1>3 DEF Boots, HoldAllOff, TakeRecord, Sense, WaitForSwitch, Classify, RailOn,
                GnssBegin, ImuBegin, BleBegin
  <1>4. CASE Stops
    BY <1>4 DEF Stops, BleEnd, UartEnd, RailOff, ImuEnd, SystemOff, StoreCode, Restart, Reset,
                AfterBle, AfterUart
  <1>5. CASE Jobs
    BY <1>1, <1>5 DEF Jobs, GnssEpoch, GnssSilence, BatteryJob, CutoffHeld, PowerJob, Command,
                Runs
  <1>6. QED
    BY <1>2, <1>3, <1>4, <1>5 DEF Next

\* In every state of every boot each variable of the firmware has a value of its
\* type, and a restart on its way always has one of RestartReasons to keep.
THEOREM TypesAndGoals == Spec => []TypeInv
  <1>1. Init => TypeInv
    BY TypeInit DEF TypeInv, Init
  <1>2. TypeInv /\ [Next]_vars => TypeInv'
    <2> SUFFICES ASSUME TypeInv, [Next]_vars PROVE TypeInv'
      OBVIOUS
    <2>1. CASE Next
      BY <2>1, WorldType, BootsType, StopsType, JobsType, GoalStep DEF Next, TypeInv
    <2>2. CASE UNCHANGED vars
      BY <2>2 DEF vars, TypeInv, TypeOK, CoreTypeOK, coreVars, world, locals, record
    <2>3. QED
      BY <2>1, <2>2
  <1>3. QED
    BY <1>1, <1>2, PTL DEF Spec

\* The types alone.
THEOREM TypeCorrect == Spec => []TypeOK
  <1>1. TypeInv => TypeOK
    BY DEF TypeInv
  <1>2. QED
    BY <1>1, TypesAndGoals, PTL
-----------------------------------------------------------------------------
(* The state machine and its policy.                                       *)

\* Before the first boot the policy and the state machine agree.
LEMMA PolicyInit == Init => PolicyInv
  BY DEF Init, CoreInit, PolicyInv, BringingUp, Classifying, Stopping, HasBattery

\* Every reset starts the policy over with the state machine.
LEMMA PolicyWorld == PolicyInv /\ World => PolicyInv'
  <1> SUFFICES ASSUME PolicyInv, World PROVE PolicyInv'
    OBVIOUS
  <1>1. board' = board /\ (UNCHANGED <<coreVars, pc, goal>>
                            \/ (CoreReset /\ pc' \in {"hold", "dead"} /\ goal' = "stay"))
    BY DEF World, FlipSwitch, FlipUsb, CellChanges, ReceiverChanges, HardReset, PowerMoved,
           PowerLost, Reset, Forget, world
  <1>2. CASE UNCHANGED <<coreVars, pc, goal>>
    BY <1>1, <1>2 DEF coreVars, PolicyInv, HasBattery
  <1>3. CASE CoreReset /\ pc' \in {"hold", "dead"}
    BY <1>1, <1>3 DEF CoreReset, PolicyInv, HasBattery, BringingUp, Classifying, Stopping
  <1>4. QED
    BY <1>1, <1>2, <1>3

\* boot() and started() leave the policy in the phase of the state they pick.
LEMMA PolicyBoots == TypeInv /\ PolicyInv /\ Boots => PolicyInv'
  <1> SUFFICES ASSUME TypeInv, PolicyInv, Boots PROVE PolicyInv'
    OBVIOUS
  <1> USE DEF PolicyInv, HasBattery, BringingUp, Classifying, Stopping, coreVars, world
  <1>1. CASE HoldAllOff \/ TakeRecord \/ Sense \/ WaitForSwitch \/ RailOn \/ ImuBegin
    BY <1>1 DEF HoldAllOff, TakeRecord, Sense, WaitForSwitch, RailOn, ImuBegin
  <1>2. CASE Classify
    BY <1>2 DEF Classify, Boot, Apply, RestartReasons
  <1>3. CASE GnssBegin
    BY <1>3 DEF GnssBegin, Started, Apply, RestartReasons
  <1>4. CASE BleBegin
    BY <1>4 DEF BleBegin, Started, Apply, RestartReasons
  <1>5. QED
    BY <1>1, <1>2, <1>3, <1>4 DEF Boots

\* Stopping moves neither the policy nor the state machine.
LEMMA PolicyStops == TypeInv /\ PolicyInv /\ Stops => PolicyInv'
  <1> SUFFICES ASSUME TypeInv, PolicyInv, Stops PROVE PolicyInv'
    OBVIOUS
  <1> USE DEF PolicyInv, HasBattery, BringingUp, Classifying, Stopping, coreVars, world
  <1>1. CASE Restart
    BY <1>1 DEF Restart, Reset, Forget, CoreReset
  <1>2. CASE ~Restart
    BY <1>2 DEF Stops, BleEnd, UartEnd, RailOff, ImuEnd, SystemOff, StoreCode, AfterBle, AfterUart
  <1>3. QED
    BY <1>1, <1>2

\* What the policy does in each phase, and the state machine makes of it.
LEMMA PolicyJobs == TypeInv /\ PolicyInv /\ Jobs => PolicyInv'
  <1> SUFFICES ASSUME TypeInv, PolicyInv, Jobs PROVE PolicyInv'
    OBVIOUS
  <1> USE DEF PolicyInv, HasBattery, BringingUp, Classifying, Stopping, coreVars, world, Runs
  <1>1. CASE GnssEpoch \/ BatteryJob \/ CutoffHeld
    BY <1>1 DEF GnssEpoch, GnssLiveness, BatteryJob, CutoffHeld
  <1>2. CASE GnssSilence
    BY <1>2 DEF GnssSilence, GnssLiveness, Apply, RestartReasons
  <1>3. CASE Command
    BY <1>3 DEF Command, Apply, RestartReasons
  <1>4. CASE PowerJob
    <2> PICK reading \in Switch, dt \in 1 .. MaxLate, t \in Transitions :
          /\ Power(dt, reading, usb, "cutoff" \in monitor, t)
          /\ Apply(t)
      BY <1>4 DEF PowerJob
    <2>1. pc = "loop" /\ HasBattery
      BY <1>4 DEF PowerJob, JobsFor
    <2> DEFINE action == Decide(stable', usb, "cutoff" \in monitor)
    <2>2. CASE phase = "running"
      <3>1. action \in {"None", "StopForSwitch", "EnterSystemOff"}
        BY <2>2 DEF Decide
      <3>2. QED
        BY <1>4, <2>1, <2>2, <3>1 DEF PowerJob, Power, Remember, Obey, Obeyed, Apply,
           RestartReasons, TypeInv, TypeOK, CoreTypeOK, RunStates
    <2>3. CASE phase = "waiting"
      <3>1. action \in {"None", "EnterChargeOnly", "ResetForSwitchOn"}
        BY <2>3, PowerType DEF Decide, TypeInv, TypeOK, CoreTypeOK, Switch
      <3>2. QED
        BY <1>4, <2>1, <2>3, <3>1 DEF PowerJob, Power, Remember, Obey, Obeyed, Apply,
           RestartReasons, TypeInv, TypeOK, CoreTypeOK, RunStates
    <2>4. CASE phase = "charging"
      <3>1. action \in {"None", "StopForSwitch", "ResetForUsbRemoval"}
        BY <2>4 DEF Decide
      <3>2. QED
        BY <1>4, <2>1, <2>4, <3>1 DEF PowerJob, Power, Remember, Obey, Obeyed, Apply,
           RestartReasons, TypeInv, TypeOK, CoreTypeOK, RunStates
    <2>5. QED
      BY <2>2, <2>3, <2>4 DEF TypeInv, TypeOK, CoreTypeOK
  <1>5. QED
    BY <1>1, <1>2, <1>3, <1>4 DEF Jobs

\* State and phase never drift apart, so no action of the policy is swallowed.
THEOREM PolicyCorrect == Spec => [](PolicyInv /\ NothingDropped)
  <1>1. TypeInv /\ PolicyInv /\ [Next]_vars => PolicyInv'
    <2> SUFFICES ASSUME TypeInv, PolicyInv, [Next]_vars PROVE PolicyInv'
      OBVIOUS
    <2>1. CASE Next
      BY <2>1, PolicyWorld, PolicyBoots, PolicyStops, PolicyJobs DEF Next
    <2>2. CASE UNCHANGED vars
      BY <2>2 DEF vars, PolicyInv, coreVars, world, HasBattery
    <2>3. QED
      BY <2>1, <2>2
  <1>2. TypeInv /\ PolicyInv => NothingDropped
    <2> SUFFICES ASSUME TypeInv, PolicyInv, pc = "loop", HasBattery,
                        NEW on \in Switch, NEW u \in Usb, NEW cut \in BOOLEAN
                 PROVE  Decide(on, u, cut) \in Obeyed(state) \cup {"None"}
      BY DEF NothingDropped
    <2>1. CASE phase = "running"
      BY <2>1 DEF Decide, Obeyed, PolicyInv, TypeInv, TypeOK, CoreTypeOK, RunStates
    <2>2. CASE phase = "waiting"
      BY <2>2 DEF Decide, Obeyed, PolicyInv, TypeInv, TypeOK, CoreTypeOK, RunStates, Switch, Usb
    <2>3. CASE phase = "charging"
      BY <2>3 DEF Decide, Obeyed, PolicyInv, TypeInv, TypeOK, CoreTypeOK, RunStates
    <2>4. QED
      BY <2>1, <2>2, <2>3 DEF TypeInv, TypeOK, CoreTypeOK
  <1>3. QED
    BY <1>1, <1>2, PolicyInit, TypesAndGoals, PTL DEF Spec
-----------------------------------------------------------------------------
(* Noise on the switch sense.                                              *)

\* No reading has been wrong before the first one.
LEMMA NoiseInit == Init => NoiseInv
  BY DEF Classifying, Init, CoreInit, NoiseInv, WasFrom

\* A switch that really moves starts the account of wrong readings over.
LEMMA NoiseWorld == TypeInv /\ NoiseInv /\ World => NoiseInv'
  <1> SUFFICES ASSUME TypeInv, NoiseInv, World PROVE NoiseInv'
    OBVIOUS
  <1>1. CASE /\ CoreReset /\ pc' \in {"hold", "dead"} /\ burst' = 0 /\ bootOn' = "On"
             /\ switchWas' = WasFrom(sw')
    BY <1>1 DEF CoreReset, WasFrom, NoiseInv
  <1>2. CASE /\ UNCHANGED <<coreVars, pc, locals>>
             /\ burst' = (IF sw' = sw THEN burst ELSE 0)
             /\ switchWas' = (IF sw' = "On" THEN switchWas ELSE "OnceOff")
    BY <1>2 DEF coreVars, locals, NoiseInv, TypeInv, TypeOK, Switch
  <1>3. CASE UNCHANGED <<coreVars, pc, locals, burst, sw, switchWas>>
    BY <1>3 DEF coreVars, locals, NoiseInv
  <1>4. CASE FlipSwitch \/ FlipUsb
    BY <1>1, <1>2, <1>4 DEF FlipSwitch, FlipUsb, PowerMoved, PowerLost, Reset, Forget
  <1>5. CASE CellChanges \/ ReceiverChanges
    BY <1>3, <1>5 DEF CellChanges, ReceiverChanges
  <1>6. CASE \E c \in {"Watchdog", "Pin", "Software"} : HardReset(c)
    BY <1>1, <1>6 DEF HardReset, Reset, Forget
  <1>7. QED
    BY <1>4, <1>5, <1>6 DEF World

\* The hold at boot outlasts any burst: an OFF that survives it is real.
LEMMA NoiseBoots == TypeInv /\ PolicyInv /\ NoiseInv /\ Boots => NoiseInv'
  <1> SUFFICES ASSUME TypeInv, PolicyInv, NoiseInv, Boots PROVE NoiseInv'
    OBVIOUS
  <1> USE DEF NoiseInv, coreVars, world, locals, Classifying
  <1>1. CASE HoldAllOff \/ TakeRecord \/ RailOn \/ ImuBegin
    BY <1>1 DEF HoldAllOff, TakeRecord, RailOn, ImuBegin, TypeInv, TypeOK
  <1>2. CASE Sense
    BY <1>2 DEF Sense, ReadSwitch, TypeInv, TypeOK, CoreTypeOK, PolicyInv, Classifying
  <1>3. CASE WaitForSwitch
    BY <1>3 DEF WaitForSwitch, StillOff, ReadSwitch, TypeInv, TypeOK, CoreTypeOK, PolicyInv,
                Classifying
  <1>4. CASE Classify
    <2>1. switchWas = "AlwaysOn" => bootOn = "On" \/ bootUsb = "Out"
      BY <1>4 DEF Classify, StillOff, TypeInv, TypeOK, Switch, Usb
    <2>2. CASE HasBattery
      BY <1>4, <2>1, <2>2 DEF Classify, Boot, Clean, TypeInv, TypeOK, Switch, Usb
    <2>3. CASE ~HasBattery
      BY <1>4, <2>3 DEF Classify, PolicyInv, Classifying, TypeInv, TypeOK, CoreTypeOK
    <2>4. QED
      BY <2>2, <2>3
  <1>5. CASE GnssBegin
    BY <1>5 DEF GnssBegin, Started, TypeInv, TypeOK, Apply, RestartReasons
  <1>6. CASE BleBegin
    BY <1>6 DEF BleBegin, Started, TypeInv, TypeOK, Apply, RestartReasons
  <1>7. QED
    BY <1>1, <1>2, <1>3, <1>4, <1>5, <1>6 DEF Boots

\* Stopping reads no switch.
LEMMA NoiseStops == TypeInv /\ NoiseInv /\ Stops => NoiseInv'
  <1> SUFFICES ASSUME TypeInv, NoiseInv, Stops PROVE NoiseInv'
    OBVIOUS
  <1> USE DEF NoiseInv, coreVars, world, locals, Classifying
  <1>1. CASE Restart
    BY <1>1 DEF Restart, Reset, Forget, CoreReset, WasFrom
  <1>2. CASE ~Restart
    BY <1>2 DEF Stops, BleEnd, UartEnd, RailOff, ImuEnd, SystemOff, StoreCode, AfterBle, AfterUart
  <1>3. QED
    BY <1>1, <1>2

\* While the switch has been on, the debounce is never held longer than the
\* burst that feeds it, and no burst is as long as the hold.
LEMMA NoiseReading ==
  ASSUME TypeInv, NoiseInv, switchWas = "AlwaysOn",
         NEW reading \in Switch, NEW dt \in Nat \ {0}, ReadSwitch(reading, dt),
         DebounceReading(Clean(reading, usb), dt)
  PROVE  stable' = "On" /\ held' <= burst'
  BY DEF NoiseInv, ReadSwitch, DebounceReading, HoldMet, Clean, TypeInv, TypeOK, CoreTypeOK, Switch

LEMMA NoiseJobs == TypeInv /\ PolicyInv /\ NoiseInv /\ Jobs => NoiseInv'
  <1> SUFFICES ASSUME TypeInv, PolicyInv, NoiseInv, Jobs PROVE NoiseInv'
    OBVIOUS
  <1> USE DEF coreVars, world, locals, Runs, Classifying
  <1>1. CASE GnssEpoch \/ BatteryJob \/ CutoffHeld
    BY <1>1 DEF GnssEpoch, GnssLiveness, BatteryJob, CutoffHeld, NoiseInv
  <1>2. CASE GnssSilence
    BY <1>2 DEF GnssSilence, GnssLiveness, Apply, RestartReasons, NoiseInv
  <1>3. CASE Command
    BY <1>3 DEF Command, Apply, RestartReasons, NoiseInv
  <1>4. CASE PowerJob
    <2> PICK reading \in Switch, dt \in 1 .. MaxLate, t \in Transitions :
          /\ ReadSwitch(reading, dt)
          /\ Power(dt, reading, usb, "cutoff" \in monitor, t)
          /\ Apply(t)
      BY <1>4 DEF PowerJob
    <2> DEFINE action == Decide(stable', usb, "cutoff" \in monitor)
    <2>1. /\ pc = "loop" /\ pc' \notin Classifying /\ UNCHANGED <<sw, switchWas>>
          /\ DebounceReading(Clean(reading, usb), dt)
          /\ Remember(action) /\ Obey(action, t)
      BY <1>4 DEF PowerJob, Power, Apply, RestartReasons
    <2>2. CASE switchWas = "AlwaysOn"
      <3>1. stable' = "On" /\ held' <= burst'
        BY <2>1, <2>2, NoiseReading
      <3>2. phase = "running"
        BY <2>2, <1>4 DEF NoiseInv, PowerJob, JobsFor, PolicyInv, TypeInv, TypeOK, CoreTypeOK,
           RunStates
      <3>3. action \in {"None", "EnterSystemOff"}
        BY <3>1, <3>2 DEF Decide
      <3>4. UNCHANGED <<state, phase>>
        BY <2>1, <3>3 DEF Remember, Obey
      <3>5. QED
        BY <2>1, <2>2, <3>1, <3>4 DEF NoiseInv
    <2>3. CASE switchWas # "AlwaysOn"
      <3>1. CASE stable' = "On"
        BY <2>1, <2>3, <3>1 DEF NoiseInv
      <3>2. CASE stable' = "Off"
        <4>1. action # "EnterChargeOnly"
          BY <3>2 DEF Decide
        <4>2. CASE action = "StopForSwitch"
          BY <2>1, <2>3, <3>2, <4>2 DEF NoiseInv, Remember
        <4>3. CASE action # "StopForSwitch"
          <5>1. phase = "waiting" \/ usb = "Out"
            BY <3>2, <4>3 DEF Decide, TypeInv, TypeOK, CoreTypeOK, Usb
          <5>2. usb = "Out" => stable = "Off"
            BY <2>1, <3>2 DEF DebounceReading, Clean
          <5>3. phase = "waiting"
            BY <5>1, <5>2 DEF NoiseInv, TypeInv, TypeOK, CoreTypeOK
          <5>4. QED
            BY <2>1, <2>3, <4>1, <4>3, <5>3 DEF NoiseInv, Remember
        <4>4. QED
          BY <4>2, <4>3
      <3>3. QED
        BY <3>1, <3>2, PowerType DEF TypeInv, TypeOK, CoreTypeOK, Switch
    <2>4. QED
      BY <2>2, <2>3
  <1>5. QED
    BY <1>1, <1>2, <1>3, <1>4 DEF Jobs

\* A burst of noise shorter than the debounce never parks the device, however
\* late the power job runs.
THEOREM NoiseCorrect == Spec => [](NoiseInv /\ NoGhostStop)
  <1>1. TypeInv /\ PolicyInv /\ NoiseInv /\ [Next]_vars => NoiseInv'
    <2> SUFFICES ASSUME TypeInv, PolicyInv, NoiseInv, [Next]_vars PROVE NoiseInv'
      OBVIOUS
    <2>1. CASE Next
      BY <2>1, NoiseWorld, NoiseBoots, NoiseStops, NoiseJobs DEF Next
    <2>2. CASE UNCHANGED vars
      BY <2>2 DEF vars, NoiseInv, coreVars, world, locals
    <2>3. QED
      BY <2>1, <2>2
  <1>2. TypeInv /\ NoiseInv => NoGhostStop
    BY DEF NoiseInv, NoGhostStop, TypeInv, TypeOK
  <1>3. QED
    BY <1>1, <1>2, NoiseInit, TypesAndGoals, PolicyCorrect, PTL DEF Spec
-----------------------------------------------------------------------------
(* The kept restart code.                                                  *)

\* No boot has read the kept code yet.
LEMMA ReasonInit == Init => ReasonInv
  BY DEF Init, ReasonInv, ReasonTrue, Powered

\* Power losses, resets and uploads leave a code only where none is believed.
LEMMA ReasonWorld == TypeInv /\ ReasonInv /\ World => ReasonInv'
  <1> SUFFICES ASSUME TypeInv, ReasonInv, World PROVE ReasonInv'
    OBVIOUS
  <1> USE DEF ReasonInv, ReasonTrue, TypeInv, TypeOK
  <1>1. CASE UNCHANGED <<pc, goal, kept, record, ended>>
    BY <1>1 DEF record
  <1>2. CASE pc' = "dead" /\ cause' = "PowerOn" /\ ended' = "other"
    BY <1>2
  <1>3. ASSUME NEW c \in {"PowerOn", "WakeUsb", "Watchdog", "Pin"}, Reset("other", c)
        PROVE  ReasonInv'
    BY <1>3 DEF Reset
  <1>4. CASE FlipSwitch \/ FlipUsb
    BY <1>1, <1>2, <1>3, <1>4 DEF FlipSwitch, FlipUsb, PowerMoved, PowerLost
  <1>5. CASE CellChanges \/ ReceiverChanges
    BY <1>1, <1>5 DEF CellChanges, ReceiverChanges
  <1>6. ASSUME NEW c \in {"Watchdog", "Pin", "Software"}, HardReset(c)
        PROVE  ReasonInv'
    <2>1. CASE c = "Software"
      BY <1>6, <2>1 DEF HardReset, Reset, RestartReasons
    <2>2. CASE c # "Software"
      BY <1>3, <1>6, <2>2 DEF HardReset
    <2>3. QED
      BY <2>1, <2>2
  <1>7. QED
    BY <1>4, <1>5, <1>6 DEF World

\* The code is taken once, by the boot its restart led to.
LEMMA ReasonBoots == TypeInv /\ ReasonInv /\ Boots => ReasonInv'
  <1> SUFFICES ASSUME TypeInv, ReasonInv, Boots PROVE ReasonInv'
    OBVIOUS
  <1> USE DEF ReasonInv, ReasonTrue, record
  <1>1. CASE TakeRecord
    BY <1>1 DEF TakeRecord, ReasonOf, Taken, TypeInv, TypeOK, RestartReasons
  <1>2. CASE HoldAllOff \/ Sense \/ WaitForSwitch \/ RailOn \/ ImuBegin
    BY <1>2 DEF HoldAllOff, Sense, WaitForSwitch, RailOn, ImuBegin
  <1>3. CASE Classify
    BY <1>3 DEF Classify, Apply
  <1>4. CASE GnssBegin
    BY <1>4 DEF GnssBegin, Apply
  <1>5. CASE BleBegin
    BY <1>5 DEF BleBegin, Apply
  <1>6. QED
    BY <1>1, <1>2, <1>3, <1>4, <1>5 DEF Boots

\* restart() keeps the code of the reason it resets for.
LEMMA ReasonStops == TypeInv /\ ReasonInv /\ Stops => ReasonInv'
  <1> SUFFICES ASSUME TypeInv, ReasonInv, Stops PROVE ReasonInv'
    OBVIOUS
  <1> USE DEF ReasonInv, ReasonTrue, record
  <1>1. CASE Restart
    BY <1>1 DEF Restart, Reset, TypeInv, RestartReasons
  <1>2. CASE ~Restart
    BY <1>2 DEF Stops, BleEnd, UartEnd, RailOff, ImuEnd, SystemOff, StoreCode, AfterBle, AfterUart
  <1>3. QED
    BY <1>1, <1>2

\* No job touches the reset record.
LEMMA ReasonJobs == ReasonInv /\ Jobs => ReasonInv'
  BY DEF Jobs, GnssEpoch, GnssSilence, BatteryJob, CutoffHeld, PowerJob, Command, Runs, Apply,
         ReasonInv, ReasonTrue, record

\* The boot log names one of our restarts exactly when it was one.
THEOREM ReasonCorrect == Spec => []ReasonTrue
  <1>1. TypeInv /\ ReasonInv /\ [Next]_vars => ReasonInv'
    <2> SUFFICES ASSUME TypeInv, ReasonInv, [Next]_vars PROVE ReasonInv'
      OBVIOUS
    <2>1. CASE Next
      BY <2>1, ReasonWorld, ReasonBoots, ReasonStops, ReasonJobs DEF Next
    <2>2. CASE UNCHANGED vars
      BY <2>2 DEF vars, ReasonInv, ReasonTrue, record
    <2>3. QED
      BY <2>1, <2>2
  <1>2. ReasonInv => ReasonTrue
    BY DEF ReasonInv
  <1>3. QED
    BY <1>1, <1>2, ReasonInit, TypesAndGoals, PTL DEF Spec
-----------------------------------------------------------------------------
(* What is live.                                                           *)

\* Nothing is open before the first boot.
LEMMA LiveInit == Init => LiveInv
  BY DEF Init, CoreInit, LiveInv, UartNeedsRail, StoppedMeansOff, Classifying, BringingUp,
         Stopping, Powered

\* A reset closes the UART and stops BLE, and whatever it leaves on is in a boot.
LEMMA LiveWorld == LiveInv /\ World => LiveInv'
  <1> SUFFICES ASSUME LiveInv, World PROVE LiveInv'
    OBVIOUS
  <1>1. /\ board' = board
        /\ \/ UNCHANGED <<coreVars, pc, live, goal>>
           \/ pc' = "hold" /\ live' = {"rail"}
           \/ pc' = "dead" /\ live' = {}
    BY DEF World, FlipSwitch, FlipUsb, CellChanges, ReceiverChanges, HardReset, PowerMoved,
           PowerLost, Reset, world
  <1>2. QED
    BY <1>1 DEF LiveInv, UartNeedsRail, StoppedMeansOff, Classifying, BringingUp, Stopping,
                HasBattery, coreVars

\* Bring-up opens the UART only after the rail is on.
LEMMA LiveBoots == PolicyInv /\ LiveInv /\ Boots => LiveInv'
  <1> SUFFICES ASSUME PolicyInv, LiveInv, Boots PROVE LiveInv'
    OBVIOUS
  <1> USE DEF LiveInv, UartNeedsRail, StoppedMeansOff, Classifying, BringingUp, Stopping,
              HasBattery, coreVars, world
  <1>1. CASE HoldAllOff \/ TakeRecord \/ Sense \/ WaitForSwitch
    BY <1>1 DEF HoldAllOff, TakeRecord, Sense, WaitForSwitch
  <1>2. CASE Classify
    BY <1>2 DEF Classify, Boot, Apply, RestartReasons, PolicyInv
  <1>3. CASE RailOn \/ ImuBegin
    BY <1>3 DEF RailOn, ImuBegin
  <1>4. CASE GnssBegin
    BY <1>4 DEF GnssBegin, Started, Apply, RestartReasons, PolicyInv
  <1>5. CASE BleBegin
    BY <1>5 DEF BleBegin, Started, Apply, RestartReasons, PolicyInv
  <1>6. QED
    BY <1>1, <1>2, <1>3, <1>4, <1>5 DEF Boots

\* Each step of stopPeripherals() turns off its own part, the UART before the
\* rail, and the loop is reached after the last.
LEMMA LiveStops == PolicyInv /\ LiveInv /\ Stops => LiveInv'
  <1> SUFFICES ASSUME PolicyInv, LiveInv, Stops PROVE LiveInv'
    OBVIOUS
  <1> USE DEF LiveInv, UartNeedsRail, StoppedMeansOff, Classifying, BringingUp, Stopping,
              HasBattery, coreVars, world
  <1>1. CASE BleEnd
    BY <1>1 DEF BleEnd, AfterBle
  <1>2. CASE UartEnd
    BY <1>2 DEF UartEnd, AfterUart
  <1>3. CASE RailOff
    BY <1>3 DEF RailOff
  <1>4. CASE ImuEnd
    BY <1>4 DEF ImuEnd
  <1>5. CASE SystemOff
    BY <1>5 DEF SystemOff
  <1>6. CASE StoreCode \/ Restart
    BY <1>6 DEF StoreCode, Restart, Reset
  <1>7. QED
    BY <1>1, <1>2, <1>3, <1>4, <1>5, <1>6 DEF Stops

\* A job leaves Running or sleeps only through stopPeripherals().
LEMMA LiveJobs == TypeInv /\ PolicyInv /\ LiveInv /\ Jobs => LiveInv'
  <1> SUFFICES ASSUME TypeInv, PolicyInv, LiveInv, Jobs PROVE LiveInv'
    OBVIOUS
  <1> USE DEF LiveInv, UartNeedsRail, StoppedMeansOff, Classifying, BringingUp, Stopping,
              HasBattery, coreVars, world, Runs
  <1>1. CASE GnssEpoch \/ BatteryJob \/ CutoffHeld
    BY <1>1 DEF GnssEpoch, GnssLiveness, BatteryJob, CutoffHeld
  <1>2. CASE GnssSilence
    BY <1>2 DEF GnssSilence, GnssLiveness, Apply, RestartReasons
  <1>3. CASE Command
    BY <1>3, PolicyJobs DEF Command, Apply, RestartReasons, PolicyInv
  <1>4. CASE PowerJob
    <2>1. PICK t \in Transitions :
            \/ t = "stay" /\ state' = state /\ Apply(t)
            \/ t # "stay" /\ state' \notin {"Running", "Starting"} /\ Apply(t)
            \/ t \notin {"stay", "enter"} /\ Apply(t)
      BY <1>4 DEF PowerJob, Power, Obey
    <2>2. QED
      BY <1>4, <2>1 DEF PowerJob, Apply, RestartReasons, PolicyInv
  <1>5. QED
    BY <1>1, <1>2, <1>3, <1>4 DEF Jobs

\* What is live at each place of the program, through bring-ups that fail half
\* way and every stop.
THEOREM LiveHolds == Spec => []LiveInv
  <1>1. TypeInv /\ PolicyInv /\ LiveInv /\ [Next]_vars => LiveInv'
    <2> SUFFICES ASSUME TypeInv, PolicyInv, LiveInv, [Next]_vars PROVE LiveInv'
      OBVIOUS
    <2>1. CASE Next
      BY <2>1, LiveWorld, LiveBoots, LiveStops, LiveJobs DEF Next
    <2>2. CASE UNCHANGED vars
      BY <2>2 DEF vars, LiveInv, UartNeedsRail, StoppedMeansOff, HasBattery, coreVars, world
    <2>3. QED
      BY <2>1, <2>2
  <1>2. QED
    BY <1>1, LiveInit, TypesAndGoals, PolicyCorrect, PTL DEF Spec

\* A stopped or sleeping device has nothing on.
THEOREM LiveCorrect == Spec => []StoppedMeansOff
  <1>1. LiveInv => StoppedMeansOff
    BY DEF LiveInv
  <1>2. QED
    BY <1>1, LiveHolds, PTL

\* The UART is only ever open over a powered receiver: whatever stops a bring-up
\* or a run, it is closed before the rail goes off.
THEOREM UartCorrect == Spec => []UartNeedsRail
  <1>1. LiveInv => UartNeedsRail
    BY DEF LiveInv
  <1>2. QED
    BY <1>1, LiveHolds, PTL
-----------------------------------------------------------------------------
(* The first run since a reset.                                            *)

\* From its reset to the end of its bring-up a boot has seen no epoch, and asked
\* for no cutoff.
FreshInv == pc \in Classifying \cup BringingUp => monitor \cap {"epoch", "cutoff"} = {}

\* No transition of the loop leads back into bring-up: only the boot enters
\* Starting.
LEMMA FreshJobs == TypeInv /\ PolicyInv /\ Jobs => pc' \notin Classifying \cup BringingUp
  <1> SUFFICES ASSUME TypeInv, PolicyInv, Jobs PROVE pc' \notin Classifying \cup BringingUp
    OBVIOUS
  <1> USE DEF Classifying, BringingUp, Runs, PolicyInv, RestartReasons
  <1>1. CASE GnssEpoch \/ BatteryJob \/ CutoffHeld
    BY <1>1 DEF GnssEpoch, GnssLiveness, BatteryJob, CutoffHeld
  <1>2. CASE GnssSilence
    BY <1>2 DEF GnssSilence, GnssLiveness, Apply
  <1>3. CASE Command
    BY <1>3 DEF Command, Apply
  <1>4. CASE PowerJob
    <2>1. PICK t \in Transitions : Apply(t) /\ (t = "enter" => state' # "Starting")
      BY <1>4 DEF PowerJob, Power, Obey
    <2>2. QED
      BY <1>4, <2>1 DEF PowerJob, Apply
  <1>5. QED
    BY <1>1, <1>2, <1>3, <1>4 DEF Jobs

\* A reset empties the monitor; whatever else the world does leaves the flow and
\* the monitor alone.
LEMMA FreshWorld == FreshInv /\ World => FreshInv'
  <1> SUFFICES ASSUME FreshInv, World PROVE FreshInv'
    OBVIOUS
  <1>1. monitor' = {} \/ UNCHANGED <<pc, monitor>>
    BY DEF World, FlipSwitch, FlipUsb, CellChanges, ReceiverChanges, HardReset, PowerMoved,
           PowerLost, Reset, Forget
  <1> QED
    BY <1>1 DEF FreshInv

\* begin() marks neither an epoch nor a cutoff, and a stop goes back to it only by
\* a reset.
LEMMA FreshFlow == FreshInv /\ (Boots \/ Stops) => FreshInv'
  <1> SUFFICES ASSUME FreshInv, Boots \/ Stops PROVE FreshInv'
    OBVIOUS
  <1> USE DEF FreshInv, Classifying, BringingUp
  <1>1. ASSUME Boots PROVE FreshInv'
    BY <1>1 DEF Boots, HoldAllOff, TakeRecord, Sense, WaitForSwitch, Classify, RailOn, GnssBegin,
                ImuBegin, BleBegin
  <1>2. ASSUME Stops PROVE FreshInv'
    BY <1>2 DEF Stops, BleEnd, UartEnd, RailOff, ImuEnd, SystemOff, StoreCode, Restart, Reset,
                Forget, AfterBle, AfterUart
  <1> QED
    BY <1>1, <1>2

\* Every bring-up is the first since a reset.
THEOREM FreshCorrect == Spec => []FreshStart
  <1> DEFINE Known == TypeInv /\ PolicyInv
  <1>1. Init => FreshInv
    BY DEF Init, FreshInv
  <1>2. ASSUME Known, FreshInv, [Next]_vars PROVE FreshInv'
    <2>1. Next => FreshInv'
      BY <1>2, FreshWorld, FreshFlow, FreshJobs DEF Next, FreshInv
    <2>2. UNCHANGED vars => FreshInv'
      BY <1>2 DEF FreshInv, vars
    <2> QED
      BY <1>2, <2>1, <2>2
  <1>3. FreshInv => FreshStart
    BY DEF FreshInv, FreshStart, BringingUp
  <1> QED
    BY TypesAndGoals, PolicyCorrect, <1>1, <1>2, <1>3, PTL DEF Spec
-----------------------------------------------------------------------------
(* The one restart of a dead receiver.                                     *)

\* Only a job of the loop counts a GNSS restart: the world, begin() and a stop keep
\* the count, and a reset forgets that an epoch was seen.
LEMMA RestartOutside == RestartInv /\ (World \/ Boots \/ Stops) => RestartInv'
  <1> SUFFICES ASSUME RestartInv, World \/ Boots \/ Stops PROVE RestartInv'
    OBVIOUS
  <1> USE DEF RestartInv, OneRestartPerSilence
  <1>1. ASSUME World PROVE RestartInv'
    BY <1>1 DEF World, FlipSwitch, FlipUsb, CellChanges, ReceiverChanges, HardReset, PowerMoved,
                PowerLost, Reset, Forget
  <1>2. ASSUME Boots PROVE RestartInv'
    BY <1>2 DEF Boots, HoldAllOff, TakeRecord, Sense, WaitForSwitch, Classify, RailOn, GnssBegin,
                ImuBegin, BleBegin
  <1>3. ASSUME Stops PROVE RestartInv'
    BY <1>3 DEF Stops, BleEnd, UartEnd, RailOff, ImuEnd, SystemOff, StoreCode, Restart, Reset,
                Forget
  <1> QED
    BY <1>1, <1>2, <1>3

\* Of the loop's jobs only the silence of the receiver asks for the restart, and
\* an epoch is what allows the next one.
LEMMA RestartJobs == TypeInv /\ RestartInv /\ Jobs => RestartInv'
  <1> SUFFICES ASSUME TypeInv, RestartInv, Jobs PROVE RestartInv'
    OBVIOUS
  <1> USE DEF RestartInv, OneRestartPerSilence, Runs
  <1>1. ASSUME GnssSilence PROVE RestartInv'
    BY <1>1 DEF GnssSilence, GnssLiveness, Apply, RestartReasons, TypeInv, TypeOK
  <1>2. ASSUME ~GnssSilence PROVE RestartInv'
    BY <1>2 DEF Jobs, GnssEpoch, BatteryJob, CutoffHeld, PowerJob, Command
  <1> QED
    BY <1>1, <1>2

\* However the receiver behaves and whatever resets the device, two GNSS
\* restarts have an epoch between them.
THEOREM RestartCorrect == Spec => []OneRestartPerSilence
  <1>1. Init => RestartInv
    BY DEF Init, RestartInv, OneRestartPerSilence
  <1>2. ASSUME TypeInv, RestartInv, [Next]_vars PROVE RestartInv'
    <2>1. Next => RestartInv'
      BY <1>2, RestartOutside, RestartJobs DEF Next
    <2>2. UNCHANGED vars => RestartInv'
      BY <1>2 DEF RestartInv, OneRestartPerSilence, vars
    <2> QED
      BY <1>2, <2>1, <2>2
  <1>3. RestartInv => OneRestartPerSilence
    BY DEF RestartInv
  <1> QED
    BY TypesAndGoals, <1>1, <1>2, <1>3, PTL DEF Spec
-----------------------------------------------------------------------------
(* The device implements PowerModes.                                       *)

\* The refinement mapping: what a step must be for its owner.
Waits == IF ModeSeen = "wait" THEN onLeadsTo ELSE "charge"
ModeStep == Modes!Next \/ UNCHANGED <<ModeSeen, Waits>>

\* A step that keeps the state and stays awake, or stays not, is a stutter.
LEMMA SameMode ==
  ASSUME UNCHANGED <<state, onLeadsTo>>,
         pc \in {"dead", "sleep"} <=> pc' \in {"dead", "sleep"}
  PROVE  ModeStep
  <1>1. ModeSeen' = ModeSeen
    BY DEF ModeSeen, SeenAs
  <1>2. onLeadsTo' = onLeadsTo /\ Waits' = Waits
    BY <1>1 DEF Waits
  <1>3. QED
    BY <1>1, <1>2 DEF ModeStep

\* What the world does is a boot, an off or a stutter of PowerModes.
LEMMA ModesWorld == TypeInv /\ World => ModeStep
  <1> SUFFICES ASSUME TypeInv, World PROVE ModeStep
    OBVIOUS
  <1>1. \/ UNCHANGED <<coreVars, pc>>
        \/ pc' = "hold" /\ CoreReset
        \/ pc' = "dead" /\ CoreReset
    BY DEF World, FlipSwitch, FlipUsb, CellChanges, ReceiverChanges, HardReset, PowerMoved,
           PowerLost, Reset, Forget
  <1>2. CASE UNCHANGED <<coreVars, pc>>
    BY <1>2 DEF coreVars, ModeSeen, SeenAs, ModeStep, Waits
  <1>3. CASE pc' = "hold" /\ CoreReset
    BY <1>3 DEF CoreReset, ModeSeen, SeenAs, ModeStep, Modes!Next, Modes!Boot
  <1>4. CASE pc' = "dead" /\ CoreReset
    BY <1>4 DEF CoreReset, ModeSeen, SeenAs, ModeStep, Modes!Next, Modes!Off
  <1>5. QED
    BY <1>1, <1>2, <1>3, <1>4

\* begin() is a bring-up, or a wait when the switch has been off.
LEMMA ModesBoots == TypeInv /\ PolicyInv /\ NoiseInv' /\ Boots => ModeStep
  <1> SUFFICES ASSUME TypeInv, PolicyInv, NoiseInv', Boots PROVE ModeStep
    OBVIOUS
  <1> USE DEF ModeSeen, SeenAs, ModeStep, Waits, coreVars
  <1>1. CASE HoldAllOff \/ TakeRecord \/ Sense \/ WaitForSwitch \/ RailOn \/ ImuBegin
    BY <1>1, SameMode DEF HoldAllOff, TakeRecord, Sense, WaitForSwitch, RailOn, ImuBegin
  <1>2. CASE Classify
    <2>1. /\ pc = "wait" /\ state = "Starting" /\ pc' \in {"railOn", "bleEnd", "store", "wait"}
          /\ UNCHANGED switchWas
          /\ \/ state' = "Starting"
             \/ state' = "BatteryWait" /\ onLeadsTo' = "charge"
      BY <1>2 DEF Classify, Boot, Apply, PolicyInv, Classifying, RestartReasons
    <2>2. CASE state' = "Starting"
      BY <2>1, <2>2
    <2>3. CASE state' = "BatteryWait" /\ onLeadsTo' = "charge"
      BY <2>1, <2>3 DEF NoiseInv, TypeInv, TypeOK, Modes!Next, Modes!BootIntoWait
    <2>4. QED
      BY <2>1, <2>2, <2>3
  <1>3. CASE GnssBegin \/ BleBegin
    <2>1. /\ pc \in {"gnss", "ble"} /\ state = "Starting"
          /\ pc' \in {"imu", "loop", "bleEnd", "gnss", "ble"}
          /\ state' \in {"Starting", "Running", "Fault"}
      BY <1>3 DEF GnssBegin, BleBegin, Started, Apply, PolicyInv, BringingUp, RestartReasons
    <2>2. QED
      BY <2>1 DEF Modes!Next, Modes!BringUp
  <1>4. QED
    BY <1>1, <1>2, <1>3 DEF Boots

\* Stopping and restarting end in off or a boot, and are stutters on the way.
LEMMA ModesStops == Stops => ModeStep
  <1> SUFFICES ASSUME Stops PROVE ModeStep
    OBVIOUS
  <1> USE DEF ModeSeen, SeenAs, ModeStep, Waits, coreVars
  <1>1. CASE SystemOff
    BY <1>1 DEF SystemOff, Modes!Next, Modes!Off
  <1>2. CASE Restart
    BY <1>2 DEF Restart, Reset, Forget, CoreReset, Modes!Next, Modes!Boot
  <1>3. CASE BleEnd \/ UartEnd \/ RailOff \/ ImuEnd \/ StoreCode
    BY <1>3, SameMode DEF BleEnd, UartEnd, RailOff, ImuEnd, StoreCode, AfterBle, AfterUart
  <1>4. QED
    BY <1>1, <1>2, <1>3 DEF Stops

\* Each job is a step between run states that PowerModes allows, or a stutter.
LEMMA ModesJobs == TypeInv /\ PolicyInv /\ NoiseInv /\ NoiseInv' /\ Jobs => ModeStep
  <1> SUFFICES ASSUME TypeInv, PolicyInv, NoiseInv, NoiseInv', Jobs PROVE ModeStep
    OBVIOUS
  <1> USE DEF Runs
  <1>1. CASE GnssEpoch \/ BatteryJob \/ CutoffHeld
    BY <1>1, SameMode DEF coreVars, GnssEpoch, GnssLiveness, BatteryJob, CutoffHeld
  <1>2. CASE GnssSilence
    BY <1>2 DEF GnssSilence, GnssLiveness, Apply, RestartReasons, ModeSeen, SeenAs, ModeStep, Waits,
                coreVars, Modes!Next, Modes!NoData
  <1>3. CASE Command
    <2>1. UNCHANGED <<state, onLeadsTo>> /\ pc = "loop" /\ pc' \in {"loop", "store", "bleEnd"}
      BY <1>3 DEF Command, Apply, RestartReasons, coreVars
    <2>2. QED
      BY <2>1, SameMode
  <1>4. CASE PowerJob
    <2> PICK reading \in Switch, dt \in 1 .. MaxLate, t \in Transitions :
          /\ Power(dt, reading, usb, "cutoff" \in monitor, t)
          /\ Apply(t)
      BY <1>4 DEF PowerJob
    <2> DEFINE action == Decide(stable', usb, "cutoff" \in monitor)
    <2>1. /\ pc = "loop" /\ HasBattery /\ UNCHANGED <<usb, switchWas>>
          /\ pc' \in {"loop", "bleEnd", "store", "railOn"}
          /\ DebounceReading(Clean(reading, usb), dt)
          /\ Remember(action) /\ Obey(action, t)
      BY <1>4 DEF PowerJob, JobsFor, Power, Apply, RestartReasons, world
    <2>2. CASE action = "StopForSwitch"
      <3>1. stable' # "On" /\ phase # "waiting"
        BY <2>2, PowerType DEF Decide, TypeInv, TypeOK, CoreTypeOK, Switch, Usb
      <3>2. usb = "In"
        BY <2>1, <3>1 DEF DebounceReading, Clean, NoiseInv, TypeInv, TypeOK, CoreTypeOK, Usb
      <3>3. /\ state \in {"Running", "Fault", "ChargeOnly"} /\ state' = "BatteryWait"
            /\ phase = "charging" <=> state = "ChargeOnly"
        BY <2>1, <2>2, <3>1 DEF Obey, Obeyed, PolicyInv, TypeInv, TypeOK, CoreTypeOK, RunStates
      <3>4. switchWas = "OnceOff"
        BY <2>1, <3>3 DEF NoiseInv, TypeInv, TypeOK
      <3>5. onLeadsTo' = IF state = "ChargeOnly" THEN "run" ELSE "charge"
        BY <2>1, <2>2, <3>3 DEF Remember
      <3>6. QED
        BY <2>1, <3>2, <3>3, <3>4, <3>5 DEF ModeSeen, SeenAs, ModeStep, Waits, Modes!Next, Modes!SwitchOff
    <2>3. CASE action = "EnterChargeOnly"
      <3>1. phase = "waiting" /\ onLeadsTo = "charge" /\ usb = "In"
        BY <2>3 DEF Decide
      <3>2. state = "BatteryWait" /\ state' = "ChargeOnly" /\ onLeadsTo' = "charge"
        BY <2>1, <2>3, <3>1 DEF Obey, Obeyed, Remember, PolicyInv, TypeInv, TypeOK, CoreTypeOK,
           RunStates
      <3>3. QED
        BY <2>1, <3>1, <3>2 DEF ModeSeen, SeenAs, ModeStep, Waits, Modes!Next, Modes!SwitchOn
    <2>4. CASE action \notin {"StopForSwitch", "EnterChargeOnly"}
      BY <2>1, <2>4, SameMode DEF Obey, Remember
    <2>5. QED
      BY <2>2, <2>3, <2>4
  <1>5. QED
    BY <1>1, <1>2, <1>3, <1>4 DEF Jobs

\* Every behaviour of the device is one its owner was promised.
THEOREM DeviceImplementsModes == Spec => PromisedModes
  <1>1. Init => Modes!Init
    BY DEF Init, CoreInit, Modes!Init, ModeSeen, SeenAs
  <1>2. TypeInv /\ PolicyInv /\ NoiseInv /\ NoiseInv' /\ [Next]_vars
          => [Modes!Next]_<<ModeSeen, Waits>>
    <2> SUFFICES ASSUME TypeInv, PolicyInv, NoiseInv, NoiseInv', [Next]_vars
                 PROVE  ModeStep
      BY DEF ModeStep
    <2>1. CASE Next
      BY <2>1, ModesWorld, ModesBoots, ModesStops, ModesJobs DEF Next
    <2>2. CASE UNCHANGED vars
      BY <2>2 DEF vars, coreVars, ModeSeen, SeenAs, ModeStep, Waits
    <2>3. QED
      BY <2>1, <2>2
  <1>3. QED
    BY <1>1, <1>2, TypesAndGoals, PolicyCorrect, NoiseCorrect, PTL
    DEF Spec, PromisedModes, Modes!Spec, Waits
=============================================================================
