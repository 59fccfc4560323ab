---------------------------- MODULE BatteryMonitor ----------------------------
(***************************************************************************)
(* core/BatteryMonitor.h under App::primeBattery and App::batteryJob:      *)
(* sampling runs, the low-voltage cutoff and "charge full", over a uint32  *)
(* millisecond clock that wraps.  A voltage is one of three levels, which  *)
(* is all the two decisions tell apart; the smoothed voltage, the percent  *)
(* and the warnings are display only and left out.                         *)
(***************************************************************************)
EXTENDS Naturals

CONSTANTS
  Samples,         \* samplesPerRun
  Interval,        \* runIntervalMs
  CutoffDebounce,  \* cutoffDebounceMs
  FullDebounce,    \* chargeFullDebounceMs
  W,               \* the range of nowMs: 2^32
  MaxGap           \* the longest time between two passes of the battery job

ASSUME MonitorAssumption ==
  /\ Samples \in Nat \ {0} /\ Interval \in Nat /\ MaxGap \in Nat \ {0}
  /\ CutoffDebounce \in Nat \ {0} /\ FullDebounce \in Nat \ {0}
  /\ CutoffDebounce >= Interval                        \* static_assert
  /\ W \in Nat
  \* the clock wraps slower than anything measured on it
  /\ W > CutoffDebounce + Interval + (Samples + 1) * MaxGap
  /\ W > FullDebounce + MaxGap

\* Below the cutoff, between, and at or above chargeFullV.
Levels == 0 .. 2

VARIABLES
  now,             \* nowMs()
  cell,            \* the resting voltage; a loaded reading is never above it
  primed,          \* primeBattery is over
  running, everStarted, runStart, count, peak,   \* the sampling run
  valid, fresh,                                  \* BatteryStatus
  belowCutoff, belowSince, cutoff,               \* cutoffRequested
  inactivePending, inactiveSince, full,          \* chargeFull
  lowFor,          \* history: how long since the first low run of a row ended
  sunkFor,         \* history: how long the cell itself has been below the cutoff
  idleFor          \* history: how long the charger has read inactive

run == <<running, everStarted, runStart, count, peak>>
result == <<valid, fresh, belowCutoff, belowSince, cutoff>>
charger == <<inactivePending, inactiveSince, full>>
history == <<lowFor, sunkFor, idleFor>>
vars == <<now, cell, primed, run, result, charger, history>>

Higher(a, b) == IF a >= b THEN a ELSE b

\* The longest from the start of a run to the start of the next, and to its end.
RunPeriod == Higher(Interval, (Samples - 1) * MaxGap) + MaxGap
RunLength == (Samples - 1) * MaxGap

\* The longest a low cell goes without the request: a run a good sample spoils and
\* the first low one, the debounce, and the run that starts last before it is over
\* with the one that ends after it.
CutoffLimit == RunPeriod + RunLength + CutoffDebounce + RunPeriod + RunLength

TypeOK ==
  /\ now \in 0 .. W - 1 /\ runStart \in 0 .. W - 1
  /\ belowSince \in 0 .. W - 1 /\ inactiveSince \in 0 .. W - 1
  /\ cell \in Levels /\ peak \in Levels /\ fresh \in Levels
  /\ count \in 0 .. Samples
  /\ {primed, running, everStarted, valid, belowCutoff, cutoff, inactivePending, full}
       \subseteq BOOLEAN
  /\ lowFor \in 0 .. CutoffDebounce /\ sunkFor \in 0 .. CutoffLimit + 1
  /\ idleFor \in 0 .. FullDebounce

\* nowMs - sinceMs, unsigned.
Since(t, start) == (W + t - start) % W

\* A history stops counting where no property tells more time apart: bound.
Later(t, dt, enough) == IF t + dt < enough THEN t + dt ELSE enough

Init ==
  /\ now \in {0, W - 1}
  /\ cell \in Levels /\ primed = FALSE
  /\ running = FALSE /\ everStarted = FALSE /\ runStart = 0 /\ count = 0 /\ peak = 0
  /\ valid = FALSE /\ fresh = 0
  /\ belowCutoff = FALSE /\ belowSince = 0 /\ cutoff = FALSE
  /\ inactivePending = FALSE /\ inactiveSince = 0 /\ full = FALSE
  /\ lowFor = 0 /\ sunkFor = 0 /\ idleFor = 0
-----------------------------------------------------------------------------
\* sampling(): a run is open, or one starts now.
Sampling(t) == running \/ ~everStarted \/ Since(t, runStart) >= Interval

\* What the run's peak becomes, and how many samples it has, with one reading more.
PeakAfter(reading) == Higher(reading, IF running THEN peak ELSE 0)
CountAfter == (IF running THEN count ELSE 0) + 1

HeldOnce(t, since) == TRUE

\* How long the cell must have been below the cutoff.
HeldLow(t, since) == Since(t, since) >= CutoffDebounce

LowSinceLast(t) == t

\* When the row of low runs began.
LowSince(t) == IF belowCutoff THEN belowSince ELSE t

\* finishRun(): a run below the cutoff asks for it once they have lasted; one
\* run that is not withdraws the request.
FinishRun(t, p) ==
  /\ valid' = TRUE /\ fresh' = p
  /\ \/ /\ p = 0
        /\ belowCutoff' = TRUE
        /\ belowSince' = LowSince(t)
        /\ cutoff' = (cutoff \/ HeldLow(t, belowSince'))
     \/ /\ p > 0
        /\ belowCutoff' = FALSE /\ cutoff' = FALSE
        /\ UNCHANGED belowSince

\* addSample(), a run of Samples readings; the readings sag below the cell.
AddSample(t) ==
  \E reading \in 0 .. cell' :
    /\ everStarted' = TRUE
    /\ runStart' = (IF running THEN runStart ELSE t)
    /\ running' = (CountAfter < Samples)
    /\ count' = CountAfter /\ peak' = PeakAfter(reading)
    /\ IF CountAfter < Samples THEN UNCHANGED result ELSE FinishRun(t, PeakAfter(reading))

Sample(t) == IF Sampling(t) THEN AddSample(t) ELSE UNCHANGED <<run, result>>
-----------------------------------------------------------------------------
IdleSinceKept(t) == inactiveSince

\* When the charger was first seen inactive.
IdleSince(t) == IF inactivePending THEN inactiveSince ELSE t

\* updateCharger(): full is a charger inactive for long and a cell near the top.
UpdateCharger(active, t) ==
  \/ /\ active
     /\ inactivePending' = FALSE /\ full' = FALSE
     /\ UNCHANGED inactiveSince
  \/ /\ ~active
     /\ inactivePending' = TRUE
     /\ inactiveSince' = IdleSince(t)
     /\ full' = (full \/ (valid' /\ fresh' = 2 /\ Since(t, inactiveSince') >= FullDebounce))

\* The cell and the clock move on between two passes.
Elapse(dt) ==
  /\ now' = (now + dt) % W
  /\ cell' \in Levels

Record(dt) ==
  /\ sunkFor' = (IF cell > 0 \/ cell' > 0 THEN 0 ELSE Later(sunkFor, dt, CutoffLimit + 1))
  /\ lowFor' = (IF ~belowCutoff' \/ ~belowCutoff THEN 0 ELSE Later(lowFor, dt, CutoffDebounce))

\* One turn of primeBattery's loop, or its end.
Prime ==
  /\ ~primed
  /\ \E dt \in 1 .. MaxGap :
       /\ Elapse(dt)
       /\ \/ /\ Sampling(now') /\ AddSample(now')
             /\ UNCHANGED <<primed, charger, idleFor>>
          \/ /\ ~Sampling(now')
             /\ UNCHANGED <<run, result>>
             /\ \E active \in BOOLEAN : UpdateCharger(active, now')
             /\ primed' = TRUE /\ idleFor' = 0
       /\ Record(dt)

BatteryJob ==
  /\ primed
  /\ \E dt \in 1 .. MaxGap, active \in BOOLEAN :
       /\ Elapse(dt)
       /\ Sample(now')
       /\ UpdateCharger(active, now')
       /\ Record(dt)
       /\ idleFor' = (IF active \/ ~inactivePending THEN 0 ELSE Later(idleFor, dt, FullDebounce))
  /\ UNCHANGED primed

Next == Prime \/ BatteryJob

Spec == Init /\ [][Next]_vars
-----------------------------------------------------------------------------
(* Properties.                                                             *)

\* The cutoff is asked for only after the cell's peaks have all been low for the
\* whole debounce, the clock wrapping or not: no transient turns the device off.
CutoffEarned == cutoff => belowCutoff /\ lowFor >= CutoffDebounce

\* A cell below the cutoff is asked for within the debounce and the runs around
\* it, however the jobs are late: the one run that a good sample from before may
\* still spoil, the first that is low, and the last two.
CutoffInTime == sunkFor > CutoffLimit => cutoff

\* Device takes the request from a cell already seen low, never from one run.
NeverOnOneRun == [][cutoff' /\ ~cutoff => valid /\ fresh = 0]_vars

\* "Full" is shown only after the charger was inactive for its whole debounce,
\* and is gone once it has been seen charging.
FullEarned == full => inactivePending /\ idleFor >= FullDebounce
=============================================================================
