# Gnimu: a TLA+ model of the firmware

Gnimu (`src/code/Gnimu`) is the firmware of a small battery-powered GNSS + IMU logger that
streams RaceBox packets over BLE. It runs on an nRF52840 (battery, a switch, a switched GNSS
rail) and on an ESP32 (none of those). This directory holds the TLA+ modules of its control logic, the TLC
configurations that check them on small instances, and the TLAPS proofs of what matters most
for every value of the constants. `PROJECT.json` maps each definition to the lines it models.
Paths below are relative to `src/code/Gnimu/src`.

## The system

One loop runs cooperative jobs in priority order and then sleeps (`core/Scheduler.h`,
`app/App.cpp`). The only code that runs beside it is the BLE stack's callbacks: a task of its
own on the nRF, another core on the ESP32. Everything else that is hard comes from outside:
power that goes at any instant, a noisy switch sense, a receiver that falls silent, resets.

| Component | State it keeps | Operations | Talks to | Hard parts |
|---|---|---|---|---|
| Run-state machine and power policy: `core/RunStateMachine.h`, `core/PowerPolicy.h` | run state, fault, policy phase, debounced switch | `boot`, `started`, `gnssLiveness`, `power`, `jobsFor` | called by App; owns the policy | two state machines that must not drift apart; debounce fed late |
| App: `app/App.cpp` | which jobs run, what is up, the boot locals | `begin`, `tick`, `apply`/`enter`, `stopPeripherals`, `restart`, `enterSystemOff`, the jobs | everything | order of bring-up and stop; power loss between any two steps |
| Reset cause and restart code: `core/ResetReason.h`, `platform/*/ResetInfo.cpp` | one kept byte | `takeRestartCode`, `storeRestartCode`, `makeResetRecord` | App, across boots | a stale byte after another kind of reset |
| Peripheral power and battery hardware: `platform/*/PeripheralPower.cpp`, `platform/*/BatteryPort.cpp` | pins | rail on/off, hold all off, System OFF, read switch, cell, charger | App | back-powering, the divider above the ADC's range, switch noise |
| Scheduler: `core/Scheduler.h` | `nextDue_`, `enabled_`, `JobStats` | `start`, `tick`, `setEnabled`, `clearStats` | runs the jobs; jobs re-enter it | overload, priority, re-entry during a pass |
| Clock: `platform/*/Clock.cpp` | extension of a 32-bit counter | `nowUs`, `sleepUntilUs` | Scheduler | wrap; early and late wake-ups |
| BLE receive ring: `core/ByteRing.h` | `buf_`, `head_`, `tail_`, `pushed_`, `dropped_` | `push` (callback), `pop` (loop) | BLE transport to App | lock-free, two contexts, wrapping indices |
| BLE transports: `peripherals/ble/*` | connection, MTU, admission, statistics | `begin`, `end`, `update`, `send`, callbacks | stack tasks, App | values read across a reconnect |
| Battery monitor: `core/BatteryMonitor.h` | sampling run, cutoff, charger | `sampling`, `addSample`, `updateCharger` | App's `battery` job; its request goes to the policy | sag under load, late jobs, wrapping milliseconds |
| GNSS receiver driver: `peripherals/gnss/Gnss.cpp`, `core/GnssClock.h` | what is configured | `begin`, `poll`, `factoryReset`, `end` | receiver over UART | lost replies; a baud rate switched but not saved |
| GNSS feed and epochs: `core/GnssFeed.h`, `core/GnssEpoch.h` | last epoch, missed count | `add`, `liveness`, `feed` | App's `gnss` job | iTOW wrap; silence from the start |
| IMU device, health, trim: `peripherals/imu/*`, `core/ImuHealth.h`, `core/ImuTrim.*` | health, window, lock | `begin`, `poll`, `retrim`, `end` | App's `imu` job | a window over two stops; relock |
| Console, entries, confirm window: `app/Console.*`, `core/ConsoleEntry.h`, `core/ConfirmWindow.h` | a line in progress, an armed `G` | `poll`, `feed`, `press`, `cancel` | App | what cancels a pending `G`; wrap of its deadline |
| Diagnostics: `app/Diagnostics.*`, `core/RateTracker.h` | status run | `handle`, `tick` | App, console | a run that outlives its command |
| Device commands: `core/DeviceCommand.h`, `app/protocol/*` | partial frame | `feed` | bytes popped from the ring | resynchronisation |
| GNSS tools: `src/tools/gnss_otp_clock`, `src/tools/gnss_reset` | none between runs; the receiver keeps what they wrote | burn the high clock, wipe the receiver | receiver over UART, in the firmware's place | one-time memory; RAM that lags what was burned; a run cut short |
| Watchdog: `platform/*/Watchdog.cpp` | hardware | `begin`, `feed` | App | a boot step longer than its period |
| Packet encoder, IMU filters and chips, status LED, reports, board support | none that decides anything | conversions and register access | | |

### What makes each component correct

- State machine, policy, App: no decision is lost; noise parks nothing; a stopped device is off;
  the modes an owner sees are the promised ones; a dead receiver costs one restart; the boot log is true.
- Scheduler: no starvation under overload, exact accounting, no busy loop.
- Receive ring: a bounded FIFO, exact drop statistics.
- Battery monitor: the cutoff is earned, and never late.
- BLE transports: no frame larger than the MTU of the client it goes to; a running transport
  can be found, a stopped one stays silent and keeps no client it knew of.
- GNSS driver: `begin` succeeds only on a receiver that is configured, and one reset at any
  step leaves a receiver that the next boot finds.
- GNSS tools: what is burned once is not burned again, and the verdict is true.
- Clock: every time acted on is the true one. GNSS feed: what is counted as missed was missed.
- IMU trim: a lock comes from one stop only. Device commands: each frame is acted on once. Console: what is executed is what the whole line
  said; only two `G` in time, with no other letter between, erase settings. Status line: at most one a period.

## What is modelled

### RunState and Device (over PowerModes)

`RunState` is the decision logic alone: `RunStateMachine` over `PowerPolicy` over `Debounced`,
one operator per event (`Boot`, `Started`, `GnssLiveness`, `Power`), each relating the state
before and after to the `Transition` it returns. Flags that come in pairs are one variable with
named values: `phase` is `running_`/`chargingOnly_`, `onLeadsTo` is `onEntersChargeOnly_`. Time
is counted in periods of the power job.

`Device` is the program around it. `pc` is the place in `begin()` (`hold` to `ble`), in
`stopPeripherals()` (`bleEnd` to `imuEnd`), in `restart()` or `enterSystemOff()`, or the
loop, where each enabled job is one action. The world moves between any two of them:

- `FlipSwitch`, `FlipUsb` lose and restore power exactly as the board does (a battery behind
  the switch; USB always powers it); power comes back with the kept byte holding anything.
- `HardReset` is the watchdog, the reset pin or an upload, between any two steps; a stored
  restart code survives it.
- `ReadSwitch` is right, or wrong for at most `NoiseSpan` periods in a row, and `PowerJob`
  runs `1..MaxLate` periods after the last run. `burst` tells how long readings have been wrong.
- the receiver falls silent and recovers; the cell sinks and recovers; with the switch off the
  divider reads anything.

The board is chosen in `Init`, so one model covers both. What bring-up finds (`GnssBegin`,
`ImuBegin`, `BleBegin`) and what the monitors conclude (`monitor`) are choices here. The set
`live` says what is powered, open or advertising. `Command` is `R` and `O`, the console's and
the BLE client's ways into `apply`. `ended`, `switchWas` and `silentRestarts` are history
variables: no guard reads them.

`PowerModes` is the abstract specification: the five modes of `docs/architecture.md` and "off",
and the only ways between them. `Device` implements it under the mapping `ModeSeen`.

### Scheduler

`tick()` is a pass over `pos`: `Pass` (disabled or not due), `StartRun` (catch the grid up,
start), `Work` (the clock moves), `EndRun`, `EndPass` (what `tick` returns) and `Wake`
(`sleepUntilUs`, early, on time or up to `MaxOver` late). A running job may switch other jobs
or clear the statistics, as `App::setJobs` and `App::clearStats` do from inside a job. The
guard `now > begin` of `SwitchOn` and `SwitchOff` is a bound: a job that reaches `setJobs` has taken
some time. `origin` and `counted` are history.

### ByteRing (over ByteQueue)

Every load and store of `push()` and `pop()` that the other side can see is a step: the two
indices, each byte, each counter. Sequential consistency stands for the acquire and release
orders of the code: the only shared data read without an index between them are the counters,
which only reports read. `ByteQueue` is the abstract bounded queue whose push takes what fits
when it publishes; the mapping takes the bytes between the indices for the queue.

### BatteryMonitor

`App::primeBattery` and `App::batteryJob` on a `uint32` millisecond clock that wraps at `W`. A
voltage is below the cutoff, between, or charge-full; a loaded reading is any level up to the
resting one (sag). Passes are `1..MaxGap` apart. `lowFor`, `sunkFor` and `idleFor` are history.
Device's `CutoffHeld` takes the request from a cell already seen low: `NeverOnOneRun` shows
that the monitor does make it only then.

### BleSession

A transport over `BleLink`, between the stack and the loop. The link (`client`, `exchanged`,
`advertising`) changes at any time; each change queues a callback that runs later, and
`onConnect` is two steps on the ESP32. The loop is `begin` (`Begin`), a `send` in three looks
(`Send` sees the link, `Admit` the MTU, `Notify` hands over), `update`, and `end` in its own
order on each board (`EndFlag`, then `EndDrop` and `EndStop`, or `EndStop` and `EndDrop`).
`Transports` chooses in `Init`. The stack is external and modelled as the code's comments use it: it
advertises again after a disconnect as long as it was told to. Connections are numbered, so
`seen`, `told` and `knownAtEnd` can say whose link, MTU or drop it was.

### ConsoleSession

One console job: `BeginPoll`, a `ReadByte` or `ReadEnter` per byte while the host types on, then
`Tick`. `FeedByte` and `FeedEnter` are `ConsoleEntry::feed`, `Route` is `App::consoleJob` with
`press` and `cancel`, `Handle` and `Tick` are `Diagnostics`. Times are kept relative: `dueIn` to
the next status line, `phase` in the uptime grid, `sincePress` modulo the clock's width `W`.
`line` and `meant` are history: what was typed since the last Enter, and what all of it says
(`Meaning`). `C`, `V`, `D` and `T` are one letter here, `R` and `O` belong to Device.

### ClockedScheduler (over Scheduler)

`Scheduler` takes the time as it is; `ClockedScheduler` adds the nRF's `nowUs()`, a counter
modulo `Wrap` whose wraps are counted when a read comes out lower than the last. `Reading` names
the steps of the scheduler that begin with a read, `Silent` the others. `Clock.cpp:21` says that the
scheduler guarantees a read per wrap; `ClockTrue` checks it. Jobs read the clock too; leaving that
out only makes the gaps longer.

### CommandStream (over ByteRing)

`bleJob` gives each byte of a pop to `CommandFrameParser`. `Written` and `Read` extend the ring's
`Publish` and `Release`, its other steps leave the stream alone. A frame is two bytes, so the
parser's window is one; as in the code the frame starts with a byte that the cleared window does not hold.
`due` is history: frames written by the client and not yet acted on. After a drop nothing is claimed:
a cut frame's head may meet another's tail, and the parser is not reset by a reconnect.

### GnssConfig and OtpTool (over Receiver, in GnssBench)

`Receiver` is the u-blox receiver as far as `Gnss.cpp` says it relies on it (external): RAM, BBR
and flash of each key, the running and the saved rate, the one-time memory, and a wire that loses
up to `MaxLost` exchanges. A value is `right` (the one the firmware wants) or `wrong`. A restart builds RAM anew.

`GnssConfig` is the driver: the target rate, the sweep, switch, reconnect and save
(`Connecting`), then the pause of the output, each key's read, write and readback, the clock and
the callback (`Configuring`). The retries of one read are one step that gets its answer or loses
`ReadAttempts` exchanges. `McuReset` comes between any two steps, and `FactoryReset` is the confirmed `G`.

`OtpTool` is `setup()` of the two sketches, run in the firmware's place, unplugged at any step and run
again. RAM may read the stock clock after any burn, as the tool's own comments warn.
`GnssBench` puts firmware, tools and receiver together and states the properties.
`restarted`, `lostBefore` are history: they excuse a verdict from what happened since the program started.

### GnssFeed and ImuTrim (in Motion)

`GnssFeed` holds `EpochTracker`, `GnssSpeedGate` and the liveness verdict, over a receiver whose
epochs are due once a tick, are measured less than half a period off their grid, get lost, and whose
clock steps. `ImuTrim` holds the gate, window, blocks, lock, tilt refusal and re-trim, with
`ImuHealth` and `ImuDevice` around them; an average is the set of stops its samples were taken
at, a variance is a choice (`quiet`) once it has settled. `Motion` drives a vehicle from stop to stop
under `gnssJob` and `imuJob`. On the road the readings may be as quiet as at a stop: the comments name smooth
cruising as the one case that only the GNSS speed tells apart. `fresh` and `gone` are history. A re-trim is
`T`, from the console or a client; `Reset` is any restart of the device.

## The runs

| Run | Instance | Shows |
|---|---|---|
| `device` | both boards, debounce 2, noise 1, lateness 2, one unasked reset; 1.4 M states | the invariants below, and `PromisedModes` |
| `device_live` | nRF board, lateness 1, no unasked resets | `LowCellSleeps`, `SwitchHonoured`, `UnpluggedRuns` |
| `device_sense` | nRF board | *violation* of `SenseOffOnlyLow`, see Findings |
| `scheduler` | two jobs of periods 2 and 1, runs up to 2, oversleep 3, counter modulo 6, clock to 8; 3.7 M states | `LateBounded`, `AccountedFor`, `SleepsForAJob`, `ClockTrue` |
| `byte_ring` | 2 slots, indices modulo 8, writes and pops of 1 to 3, a frame of two bytes; 2.1 M states | `IsAQueue`, `CountsAddUp`, `CommandsExact` |
| `battery` | 2 samples a run, interval 3, debounces 4 and 3, gap 2, clock modulo 14; 1.0 M states | `CutoffEarned`, `CutoffInTime`, `FullEarned`, `NeverOnOneRun` |
| `ble` | both transports, three connections, refusal log 3, gap 2; 2.0 M states | `SamePeerFits`, `SilentOnceEnded`, `ReportedLeave`, `NeverStranded` |
| `ble_refusal` | nRF, two connections | *violation* of `LogEarned`, see Findings |
| `console` | bytes `G`, `L`, `2`, Enter, lines of 2 over an entry of 1, clock modulo 6; 2.7 M states | `EntryAsTyped`, `NothingBetween`, `InTimeOrWrapped`, `LinePaced` |
| `console_confirm` | the same | *violation* of `OnlyTwoInARow`, see Findings |
| `gnss_bench` | two settings and the output key, two rates, anything stored at first, 3 lost exchanges, 2 attempts; 8.5 M states | `BootVerdict`, `MissingMeansLost`, `OutputResumes`, `BurnVerdict`, `SpentOnce` |
| `motion` | two stops 3 ticks apart, stale after 2, silent after 3, a window of 2 + 2 blocks of 2, a week of 5 periods; 0.46 M states | `LockFromOneStop`, `RetrimWaits`, `MissedExact` |

Run one with `tlc -config MCDevice.cfg MCDevice.tla`.

Each module states its type invariant as `TypeOK`. It is proved of every one; the runs `device` and
`scheduler` check it too, and the other runs keep to the properties below.

What the properties say:

- `NothingDropped`: in the loop, whatever the switch, USB and cutoff do next, the policy's
  action is one the state acts on. The policy moves on even when the machine stays, so an
  ignored action would be lost for good.
- `NoGhostStop`: noise shorter than the debounce, sampled as late as it may be, never parks a device.
- `ReasonTrue`: the boot log names one of our restarts exactly when the last reset was one.
- `StoppedMeansOff`, `UartNeedsRail`: what is on in a stopped device, and the order of stopping.
- `FreshStart`: each bring-up is the first since a reset, which the drivers rely on.
- `OneRestartPerSilence`: between two epochs at most one GNSS restart.
- `LowCellSleeps`, `SwitchHonoured`, `UnpluggedRuns`: where a device ends whose switch, USB and
  cell stay as they are. `UnpluggedRuns` also covers a device that had been charging.
- `LateBounded`: no enabled job is later than one pass and one sleep, even when the loop is
  overloaded for ever; `AccountedFor`: each period is one run or one skip; `SleepsForAJob`: a
  disabled job's old deadline does not keep the loop awake.
- `CutoffEarned`, `CutoffInTime`: no transient asks for the cutoff, and a low cell asks for it
  within `CutoffLimit`, a good sample left in an old run and late jobs included.
- `SamePeerFits`: an MTU is never used for a client other than the one it came from, as long as
  the client `send` saw is still there. A client that replaces it between `connected()` and
  `notify()` is outside: the code does not promise that case, and the stack may cut such a frame short.
- `SilentOnceEnded`: the disconnect that `end` asks for comes after `end` has returned and does
  not advertise again. `ReportedLeave`: a client published before `end` is told to leave; one that
  connects during it may stay. `NeverStranded`: with nobody connected the device advertises.
- `EntryAsTyped`: split over polls, preceded by any rest, too long or not, a line is taken for what all of it says.
- `InTimeOrWrapped`: a confirmed erase is in the window, or half the clock's range (25 days) late:
  `int32_t(now - deadline) < 0` holds again, and nothing cancels an armed press but a command.
- `ClockTrue`: what `nowUs` returns to the scheduler is the time, past the counter's wrap.
- `CommandsExact`: as long as nothing was dropped, each frame written is acted on once, however
  writes, ring and reads cut it.
- `BootVerdict`: `configured()` is true of what the receiver runs on. It says no only of a wrong
  setting, or after all attempts at one read were lost. `MissingMeansLost`: the sweep finds the
  receiver at any rate an earlier boot, a lost save or a factory reset left it at.
- `OutputResumes`: after a boot without a warning for the output key, a restarted receiver streams
  again. A stale 0 in BBR is its exception: see the end of Findings.
- `BurnVerdict`, `SpentOnce`: SUCCESS is true, FAILED of a whole burn takes a lost exchange, and a
  receiver that holds both frames is not written again without one, over any number of runs.
- `LockFromOneStop`: neither the lock nor the block in progress ever holds two stops, though the
  speed may be stale and failed reads leave the window standing. `RetrimWaits`: the lock after a
  re-trim took a full window of its own.
- `MissedExact`: the missed counter grows by the epochs lost, and a clock step is a clock step.
- `LinePaced`: re-armed, stalled or not, each status line is in a grid period of its own, and the
  first a full period after arming.

### Bounds, and why they are enough

- `Debounce = 2` with `NoiseSpan = 1` is the smallest hold that a burst can fail to reach, and
  `MaxLate = 2` lets one late pass bridge the whole hold. `MaxFaults = 1` interrupts any one
  step; the proofs cover any number. `silentRestarts` is unbounded in the model and stays at most 1.
- The scheduler's periods and run times let both jobs overrun for ever, both priorities suffer,
  and `LateBounded` is reached with equality. `Horizon` ends the clock, so the run has no deadlock
  check; the proofs need neither.
- The ring's indices wrap at 8, four times its size, so full, empty and wrapped are all met;
  pushes of 3 overflow it. Two byte values suffice: the ring does not look at its bytes.
- The battery's clock wraps inside every debounce. The constants keep the order of the real
  ones (`CutoffDebounce >= Interval`, `W` larger than anything measured). `CutoffLimit` is a bound
  on what the worst case can be, not the least one.
- BLE: three connections are one for each side of a look, and one that comes and goes unseen. A
  refusal lasts 3 ticks while `update` comes every 2, so that a log can be earned between two. In
  `ble_refusal`, which only needs one client's time to pass into the next one's, it is 2 and 1.
- Console: entries hold one byte, so two overflow; a poll reads 3, fewer than two lines and their
  Enters. The longest stall, 3, is more than the period of 2 and the window of 2.
- The counter's range of 6 is one more than the longest gap between reads (a run or a sleep with
  its lateness), so one read left out would already be seen; the clock passes the wrap once.
- GNSS: attempts are 2 for the code's 3 and 1 for its 2 (`ReadAttempts`, `PauseAttempts`,
  `OtpAttempts`), and 3 losses exhaust any one of them and still lose something else. One setting is right by
  default and one not; one rate is the target and the other the factory's.
- Motion: `MinMove >= StaleAfter + DownAfter - 1` is assumed, and tight: with 2 for 3 TLC finds a
  lock from two stops. The code's times are a staleness in GNSS periods and 9 failed reads of 10 ms, and no
  vehicle reaches another stop in that. An IMU sample per epoch stands for the 4 or more of the
  device: the gaps count in ticks, not in samples. `Silence * Period < MaxGap` is the code's 2 s against 5 s, and the
  counters wrap at 3.
- `CHECK_DEADLOCK FALSE` in BleSession: an ended transport with no client has stopped; in
  ConsoleSession: the erase ends the boot; in Device: a device without power whose world does nothing has stopped;
  in Scheduler: the clock has a horizon.

### Fairness

Safety runs have none. `FairSpec` has weak fairness of the program's own steps (`Boots`,
`Stops`) and of each job: the scheduler runs every enabled job in turn, which `LateBounded`
shows. `PowerJob /\ burst' = 0` says that noise ends: the job comes round with a right
reading. Nothing is assumed of the world beyond each property's own premise.

## What is proved

Every invariant, action property and refinement that a passing run checks is also a theorem, for every
value of the constants; only liveness is not. Each proof module extends the module it is about
and is checked to the last leaf by `tlapm DeviceProofs.tla` and so on. They rest on the named assumptions in
the modules alone, which TLC evaluates in every run: sizes and debounces are positive, and the orders
among them are those the code asserts, notes or implies by its constants.

Except for the Device, where `TypeInv` is the base of layers, a module has one inductive invariant,
a conjunction of named parts, most of them about history variables or about what is on its way.

| Module | Theorems | The inductive invariant |
|---|---|---|
| `DeviceProofs` | `TypeCorrect`, `PolicyCorrect`, `NoiseCorrect`, `ReasonCorrect`, `LiveCorrect`, `UartCorrect`, `FreshCorrect`, `RestartCorrect`, `DeviceImplementsModes` | below |
| `SchedulerProofs` | `TypeCorrect`, `LateCorrect`, `AccountCorrect`, `SleepCorrect`, `ClockedIsScheduler`, `ClockCorrect` | below |
| `RingProofs` | `QueueCorrect`, `CountsCorrect`, `CommandsCorrect`, and the first two behind the parser (`StreamCorrect`) | `PushInv`, `PopInv`: what each side has copied so far, and that it has room or content for the rest; `CountInv`: which counter is behind by how much at each step of a push |
| `BatteryProofs` | `Earned`, `InTime`, `NeverOne`, `FullTold` | `RunInv`, `DueInv`: how old a run, or a row of low runs, can be; `SunkInv`: how long a low cell has been unnoticed; `LowInv`, `IdleInv`: until the debounce is over the clock's answer is the true one |
| `BleProofs` | `FramesFit`, `Silence`, `AllToldToLeave`, `Found` | `QueueInv`: a numbering gives each queued callback its connection; `CellsInv`, `SendInv`: what the atomics say of the one last published; `AirInv`, `EndInv`: who may advertise, who is told to leave |
| `ConsoleProofs` | `AsTyped`, `NoneBetween`, `InTime`, `PaceKept` | `EntryInv`: buffer, overflow and digits against the line; `PressInv`: no letter since the press; `RunInv`: the next line on the grid, a period after the last; `LateInv` |
| `BenchProofs` | `VerdictTrue`, `Found`, `Resumes`, `BurnTold`, `BurnedOnce` | `FindInv`, `JudgeInv`: what the driver knows at each step as long as the receiver has not restarted; `LinkInv`, `BurnInv`: the same of the burn tool, as long as nothing was lost |
| `MotionProofs` | `OneStop`, `WaitsForIts`, `ExactlyMissed` | `HeldInv`: a window that lasts on the road has lived on a stale speed, then on failed reads; `FreshInv`; `ClockInv`: the last iTOW plus the epochs gone is the receiver's clock |

`DeviceProofs` layers five invariants, each proved on top of the earlier ones, one step per
group of actions:

1. `TypeInv`: types, and a restart under way has a reason (`TypesAndGoals`).
2. `PolicyInv`: each run state goes with one phase of the policy, and `pc` with the state; it
   implies `NothingDropped`. `NothingDropped` alone is not inductive: it says nothing of the
   phase while the device boots or stops.
3. `NoiseInv`: as long as the switch has really been on, the debounce has held no longer than
   the burst (`held <= burst`), and at boot the wait no longer than it. With `NoiseSpan <
   Debounce` this gives `NoGhostStop`, however late the readings.
4. `ReasonInv`: where the kept byte can be at each `pc`, by reset cause; it implies `ReasonTrue`.
5. `LiveInv` (`LiveHolds`), `FreshInv`, `RestartInv`: what is live at each `pc`; nothing in the
   loop leads back into a bring-up; after an epoch no restart is uncounted.

`DeviceImplementsModes`: each step of `Device` is a step of `PowerModes` or a stutter, from
`TypeInv`, `PolicyInv` and `NoiseInv`.

`SchedulerProofs`: `LateBounded` is not inductive. `LateInv` bounds each job by where the pass is: a job
the pass has seen is late by the runs since, `(pos - i) * MaxRun`; an unseen one by those of this
pass on top of `Base(i)`, what a whole pass or a sleep can have left it. `WakeInv` gives the
sleep its end, `DueInv` a job that is on. `ClockInv` bounds the time since the counter was last read, by the run or the sleep
under way, so it has wrapped at most once.

`RingProofs` stands on arithmetic modulo `W`: reducing early changes nothing (`ReduceFirst`), the
distance between the indices grows and shrinks with them (`HeldGrows`, `HeldShrinks`), and indices less than
`N` apart have slots of their own across the wrap, because `N` divides `W` (`SlotsApart`).
So a copy in never disturbs what the queue holds (`CopyInHides`); publishing appends
(`PublishPuts`), releasing takes from the front (`ReleaseHands`), and the mapped step is one of
`ByteQueue`'s. `CommandsExact` then needs one fact of the parser: cutting a stream of bytes
in two completes the same frames (`CompletedConcat`).

What the proofs changed in the models, each of which TLC had passed on its small instance:

- `CutoffLimit` was too short: with many samples a run, one that begins just before the cell sinks and
  one that ends late both count. TLC confirms it with 5 samples.
- `GnssFeed` let an epoch be off its grid by exactly half a period, where two clock steps
  look alike; `Order` in `GnssConfig` did not say that a key is checked once.
- `WrapAssumption` says how much slower than the scheduler the counter must wrap: its range exceeds a
  run, and each period with its lateness. In the code that is 71 minutes against a 5 s watchdog.
- `ConsoleSession` knew numbers of two digits; it has them of any length.
- `Completed` counts the positions that complete a frame, which is what can be reasoned about.

Only model-checked: `LowCellSleeps`, `SwitchHonoured` and `UnpluggedRuns`. They need `ENABLED`, which the
prover does not reason about. That a recursive function such as `Value` computes the decimal number
is not proved either: it would take induction over its digits.

## Findings

`device_sense`: `platform/BatteryPort.h:26` and `platform/nrf52840/BatteryPort.cpp:71` say that
`disableVoltageSense` is called only below the cutoff, where driving VBAT_ENABLE high is safe for
the ADC pin. `App::enterSystemOff` calls it on every System OFF, and the `O` command reaches that
with a cell at any voltage. The counterexample is a boot, then `O`.

`ble_refusal`: `peripherals/ble/BleLink.h:26` says that a few refusals right after connecting are
normal, and that only a lasting one is logged. `edges` forgets a refusal at a connect it sees and
keeps it at a disconnect. The counterexample: client 1 is refused and leaves; `update` finds the link
down at most; client 2 connects, and its first frame, during its MTU exchange and before the next
`update`, is refused and logged at once, for the time since client 1's. `LogEarned` counts a client's age from its connect in the
air (`upFor`), and only a log about the client in the air, so that late callbacks make no difference. The run has the nRF,
which asks the stack for the MTU and so refuses nobody who has left; the ESP32 fails the same way.

`console_confirm`: `docs/console.md:25` says of `G` that any other command cancels it, and lists a
number as a command two rows on; `app/App.cpp:312` says that a second press only counts as the very
next command. `consoleJob` cancels by `cmd.kind`, which is `None` for a number and for a rejected
entry. The counterexample is `G`, `2`, `G`: the receiver is erased.

Met while modelling, and without a run:

- `peripherals/gnss/Gnss.cpp:216-218` and `:373` say that a setting right in RAM and wrong in flash
  is rewritten at the next boot. It is only if RAM reads wrong then: with BBR kept, or the receiver still
  powered, that boot reads RAM alone and writes nothing. Lines 219-221 say why that is harmless.
- `Gnss.cpp:278-279` says that a receiver that resets mid-session resumes on its own. It does not
  at a rate that was switched but not saved: after a lost save, or after a reset between switch
  and save, the next boot finds it at the target rate and never saves that. Nor with a 0 left in BBR for the output key,
  which Check::FlashOnly does not read. In both cases the silence check restarts the device once, and that boot brings the output back.
- `src/tools/gnss_otp_clock/gnss_otp_clock.ino:714-718` says that a second run does not write again.
  With RAM lagging, one lost reply to the single OTP poll offers the burn again; the operator still has to
  type the word. `SpentOnce` excuses it as a lost exchange.

## Not modelled, and why

- Floating-point work (IMU rotation, variances, filters, smoothed voltage), the packet encoder, report
  texts, LED patterns: conversions with no control to check.
- The gyro's offsets: each block's mean replaces them, and the blocks are `ImuTrim`'s.
- `console_` traffic and statistics inside `Device`: nothing in it decides a transition.
- The time a boot step takes against the watchdog's period: those times are the libraries', and the code
  bounds the longest by a static assertion (`Gnss.cpp:28`).
- A `T` from a BLE client while a `G` waits: `bleJob` takes it past the console, so it cancels nothing;
  `NothingBetween` is about the console's letters.
- A NAK of its own: a write the receiver refuses ends like one whose exchange is lost, and the
  properties excuse it as that. The library sends a factory reset (`FactoryReset`, `RunReset`) as two
  messages; here both arrive or neither.
- Job durations and overrun counts of `JobStats`: reported only.
- `gnss_ver` and `ble_peripheral_test` (they read and print), host scripts, tests.
- `src/classic`: the deprecated predecessor, three variants of it in sketches and headers of their
  own. It is about three quarters of the repository's lines, so the share of lines the map covers stays
  small; the current firmware's control code is nearly all mapped.

## Plan

Done: A `RunState`, `Device`, `PowerModes`, `DeviceProofs`; B `Scheduler`, `SchedulerProofs`;
C `ByteRing`, `ByteQueue`; D `BleSession`; E `BatteryMonitor`; F `ConsoleSession`; G `ImuTrim`,
`GnssFeed`, `Motion`; H `Receiver`, `GnssConfig`, `OtpTool`, `GnssBench`; I `ClockedScheduler`;
J `CommandStream`. What is left of the firmware converts, prints or blinks.

Proved: A to J, see above. What is left to prove is liveness, which stays with TLC.
