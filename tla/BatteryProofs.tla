----------------------------- MODULE BatteryProofs -----------------------------
(***************************************************************************)
(* The two decisions of the battery monitor, proved for any number of      *)
(* samples, interval, debounces and lateness of the job, over a clock that *)
(* wraps slower than anything is measured on it.                           *)
(*                                                                         *)
(* Each start time is followed by what the clock says has passed since:    *)
(* that is the true time as long as it has not wrapped, which the bounds   *)
(* on it show.  How long a low cell can go unnoticed is then a sum along   *)
(* one run that was spoilt, one that was low, and those of the debounce.   *)
(***************************************************************************)
EXTENDS BatteryMonitor, Integers, TLAPS

\* What the clock says of the run, and of the row of low runs.
RunFor == Since(now, runStart)
BelowFor == Since(now, belowSince)

\* The longest a run of so many samples has taken.
Taken(samples) == (samples - 1) * MaxGap

\* How old the run is that is open, or was last.
RunInv ==
  /\ running => everStarted /\ count \in 1 .. Samples - 1 /\ RunFor <= Taken(count)
  /\ ~running /\ everStarted => RunFor <= RunLength \/ RunFor < Interval
  /\ ~everStarted => ~belowCutoff /\ sunkFor = 0

\* How long ago the row of low runs began that has not asked for the cutoff yet.
DueInv ==
  belowCutoff /\ ~cutoff =>
    IF running
    THEN BelowFor < CutoffDebounce + Interval + MaxGap + RunFor
    ELSE /\ BelowFor < CutoffDebounce + RunFor
         /\ BelowFor < CutoffDebounce \/ RunFor < Interval

\* How long a low cell has gone unnoticed.
SunkInv ==
  /\ running /\ peak > 0 => sunkFor <= RunFor
  /\ running /\ peak = 0 /\ ~belowCutoff => sunkFor <= RunPeriod + RunFor
  /\ ~running /\ everStarted /\ ~belowCutoff => sunkFor <= RunFor
  /\ belowCutoff /\ ~cutoff => sunkFor <= RunPeriod + RunLength + BelowFor

\* What the row of low runs was measured by.
LowInv ==
  /\ belowCutoff => valid /\ fresh = 0
  /\ belowCutoff /\ lowFor < CutoffDebounce => BelowFor = lowFor
  /\ CutoffEarned

\* The same of the charger.
IdleInv ==
  /\ ~primed => ~inactivePending
  /\ inactivePending /\ idleFor < FullDebounce => Since(now, inactiveSince) = idleFor
  /\ FullEarned

IInv == TypeOK /\ RunInv /\ DueInv /\ SunkInv /\ LowInv /\ IdleInv
-----------------------------------------------------------------------------
(* Arithmetic.                                                             *)

LEMMA Product == ASSUME NEW a \in Nat, NEW b \in Nat PROVE a * b \in Nat
OBVIOUS

LEMMA Ordered == ASSUME NEW a \in Nat, NEW b \in Nat, NEW c \in Nat, a <= b PROVE a * c <= b * c
OBVIOUS

LEMMA OneMore == ASSUME NEW a \in Nat, NEW b \in Nat PROVE (a + 1) * b = a * b + b
OBVIOUS

LEMMA Constants ==
  /\ Samples \in Nat /\ Samples >= 1 /\ Interval \in Nat /\ MaxGap \in Nat /\ MaxGap >= 1
  /\ CutoffDebounce \in Nat /\ CutoffDebounce >= 1 /\ FullDebounce \in Nat /\ FullDebounce >= 1
  /\ CutoffDebounce >= Interval
  /\ RunLength \in Nat /\ RunPeriod \in Nat /\ CutoffLimit \in Nat
  /\ RunPeriod >= Interval + MaxGap /\ RunPeriod >= RunLength + MaxGap
  /\ CutoffLimit = RunPeriod + RunLength + CutoffDebounce + RunPeriod + RunLength
  /\ W \in Nat /\ W > CutoffDebounce + Interval + RunLength + MaxGap + MaxGap
  /\ W > FullDebounce + MaxGap
<1>1. /\ Samples \in Nat /\ Samples >= 1 /\ Interval \in Nat /\ MaxGap \in Nat /\ MaxGap >= 1
      /\ CutoffDebounce \in Nat /\ CutoffDebounce >= 1 /\ FullDebounce \in Nat /\ FullDebounce >= 1
      /\ CutoffDebounce >= Interval /\ W \in Nat
  BY MonitorAssumption
<1>2. PICK s \in Nat : s = Samples - 1
  BY <1>1
<1>3. PICK r \in Nat : r = s * MaxGap
  BY <1>1, Product
<1>4. RunLength = r
  BY <1>2, <1>3 DEF RunLength
<1>5. (Samples + 1) * MaxGap = r + MaxGap + MaxGap
  <2>1. (s + 1) * MaxGap = r + MaxGap /\ (s + 1 + 1) * MaxGap = (s + 1) * MaxGap + MaxGap
    BY <1>1, <1>3, OneMore
  <2>2. Samples + 1 = s + 1 + 1
    BY <1>1, <1>2
  <2> QED
    BY <2>1, <2>2
<1>6. W > CutoffDebounce + Interval + (Samples + 1) * MaxGap /\ W > FullDebounce + MaxGap
  BY MonitorAssumption
<1>7. W > CutoffDebounce + Interval + r + MaxGap + MaxGap
  BY <1>1, <1>5, <1>6
<1>8. RunPeriod = (IF Interval >= r THEN Interval ELSE r) + MaxGap
  BY <1>4 DEF RunPeriod, Higher, RunLength
<1>9. RunPeriod \in Nat /\ RunPeriod >= Interval + MaxGap /\ RunPeriod >= r + MaxGap
  BY <1>1, <1>8
<1>10. CutoffLimit \in Nat
  BY <1>1, <1>4, <1>9 DEF CutoffLimit
<1> QED
  BY <1>1, <1>4, <1>6, <1>7, <1>9, <1>10 DEF CutoffLimit

LEMMA TakenSteps ==
  /\ Taken(1) = 0 /\ Taken(Samples) = RunLength
  /\ \A c \in 1 .. Samples - 1 :
       Taken(c) \in Nat /\ Taken(c + 1) = Taken(c) + MaxGap /\ Taken(c) + MaxGap <= RunLength
<1>1. Taken(1) = 0 /\ Taken(Samples) = RunLength
  BY Constants DEF Taken, RunLength
<1>2. ASSUME NEW c \in 1 .. Samples - 1
      PROVE  Taken(c) \in Nat /\ Taken(c + 1) = Taken(c) + MaxGap /\ Taken(c) + MaxGap <= RunLength
  <2>1. PICK k \in Nat, s \in Nat : k = c - 1 /\ s = Samples - 1
    BY Constants
  <2>2. k + 1 <= s /\ c + 1 - 1 = k + 1
    BY <2>1, Constants
  <2>3. k * MaxGap \in Nat /\ (k + 1) * MaxGap = k * MaxGap + MaxGap /\ (k + 1) * MaxGap <= s * MaxGap
    BY <2>2, Constants, Product, OneMore, Ordered
  <2>4. Taken(c) = k * MaxGap /\ Taken(c + 1) = (k + 1) * MaxGap /\ RunLength = s * MaxGap
    BY <2>1, <2>2 DEF Taken, RunLength
  <2> QED
    BY <2>3, <2>4
<1> QED
  BY <1>1, <1>2

\* What unsigned subtraction gives.
LEMMA Unsigned ==
  ASSUME NEW w \in Nat, NEW x \in 0 .. w - 1, NEW y \in 0 .. w - 1
  PROVE  /\ x >= y => (w + x - y) % w = x - y
         /\ x < y => (w + x - y) % w = w + x - y
         /\ (w + x - y) % w \in 0 .. w - 1
<1>1. CASE x >= y
  BY <1>1
<1>2. CASE x < y
  BY <1>2
<1> QED
  BY <1>1, <1>2

LEMMA SinceType ==
  ASSUME NEW x \in 0 .. W - 1, NEW y \in 0 .. W - 1
  PROVE  /\ Since(x, y) \in 0 .. W - 1 /\ Since(x, y) \in Nat
         /\ Since(x, y) = IF x >= y THEN x - y ELSE W + x - y
         /\ Since(x, x) = 0
<1>1. W \in Nat
  BY Constants
<1>2. x >= y \/ x < y
  BY <1>1
<1>3. Since(x, y) = IF x >= y THEN x - y ELSE W + x - y
  BY <1>1, <1>2, Unsigned DEF Since
<1>4. Since(x, x) = 0
  BY <1>1, Unsigned DEF Since
<1> QED
  BY <1>1, <1>3, <1>4

LEMMA Wraps ==
  ASSUME NEW w \in Nat, NEW x \in 0 .. w - 1, NEW d \in 0 .. w - 1
  PROVE  /\ x + d < w => (x + d) % w = x + d
         /\ x + d >= w => (x + d) % w = x + d - w
         /\ (x + d) % w \in 0 .. w - 1
<1>1. CASE x + d < w
  BY <1>1
<1>2. CASE x + d >= w
  BY <1>2
<1> QED
  BY <1>1, <1>2

\* As long as it does not wrap, what has passed grows with the clock.
LEMMA Passing ==
  ASSUME NEW x \in 0 .. W - 1, NEW y \in 0 .. W - 1, NEW dt \in 1 .. MaxGap,
         NEW z, z = (x + dt) % W
  PROVE  z \in 0 .. W - 1 /\ (Since(x, y) + dt < W => Since(z, y) = Since(x, y) + dt)
<1>1. W \in Nat /\ MaxGap < W /\ dt \in Nat /\ dt \in 0 .. W - 1
  BY Constants
<1>2. PICK u \in 0 .. W - 1 : u = z
  BY <1>1, Wraps
<1>3. u = x + dt \/ u = x + dt - W
  <2>1. x + dt < W \/ x + dt >= W
    BY <1>1
  <2> QED
    BY <1>1, <1>2, <2>1, Wraps
<1>4. PICK a \in Nat, b \in Nat : a = Since(x, y) /\ b = Since(u, y)
  BY SinceType
<1>5. a = (IF x >= y THEN x - y ELSE W + x - y) /\ b = (IF u >= y THEN u - y ELSE W + u - y)
  BY <1>4, SinceType
<1>6. a + dt < W => b = a + dt
  BY <1>1, <1>3, <1>5
<1> QED
  BY <1>2, <1>4, <1>6
-----------------------------------------------------------------------------
(* Types.                                                                  *)

\* What Prime and BatteryJob do but for the charger.
Pass(dt) ==
  /\ Elapse(dt) /\ Record(dt)
  /\ \/ Sampling(now') /\ AddSample(now')
     \/ ~Sampling(now') /\ UNCHANGED <<run, result>>

LEMMA Passes ==
  [Next]_vars => (\E dt \in 1 .. MaxGap : Pass(dt)) \/ UNCHANGED vars
BY DEF Next, Prime, BatteryJob, Sample, Pass

LEMMA LaterType ==
  ASSUME NEW enough \in Nat, NEW t \in 0 .. enough, NEW dt \in Nat
  PROVE  /\ Later(t, dt, enough) \in 0 .. enough
         /\ Later(t, dt, enough) <= t + dt
         /\ Later(t, dt, enough) < enough => Later(t, dt, enough) = t + dt
         /\ t + dt >= enough => Later(t, dt, enough) = enough
BY DEF Later

\* The history of the sunken cell.
LEMMA Sunk ==
  ASSUME TypeOK, NEW dt \in 1 .. MaxGap, Elapse(dt), Record(dt)
  PROVE  /\ sunkFor \in Nat /\ sunkFor' \in Nat /\ sunkFor' \in 0 .. CutoffLimit + 1
         /\ sunkFor' <= sunkFor + dt
         /\ cell' \in Levels /\ (cell' > 0 => sunkFor' = 0)
<1>1. CutoffLimit + 1 \in Nat /\ dt \in Nat /\ sunkFor \in 0 .. CutoffLimit + 1
  BY Constants DEF TypeOK
<1>2. /\ Later(sunkFor, dt, CutoffLimit + 1) \in 0 .. CutoffLimit + 1
      /\ Later(sunkFor, dt, CutoffLimit + 1) <= sunkFor + dt
  BY <1>1, LaterType
<1>3. /\ sunkFor' = (IF cell > 0 \/ cell' > 0 THEN 0 ELSE Later(sunkFor, dt, CutoffLimit + 1))
      /\ cell' \in Levels
  BY DEF Record, Elapse
<1>4. CASE cell > 0 \/ cell' > 0
  BY <1>1, <1>3, <1>4
<1>5. CASE ~(cell > 0 \/ cell' > 0)
  BY <1>1, <1>2, <1>3, <1>5
<1> QED
  BY <1>4, <1>5

LEMMA Clock ==
  ASSUME TypeOK, NEW dt \in 1 .. MaxGap, Elapse(dt)
  PROVE  /\ now' \in 0 .. W - 1 /\ dt \in Nat
         /\ \A y \in 0 .. W - 1 :
              /\ Since(now, y) \in Nat /\ Since(now', y) \in Nat /\ Since(now', now') = 0
              /\ Since(now, y) + dt < W => Since(now', y) = Since(now, y) + dt
<1>1. now \in 0 .. W - 1 /\ now' = (now + dt) % W
  BY DEF TypeOK, Elapse
<1>2. now' \in 0 .. W - 1
  <2>1. 0 \in 0 .. W - 1
    BY Constants
  <2> QED
    BY <1>1, <2>1, Passing
<1>3. ASSUME NEW y \in 0 .. W - 1
      PROVE  /\ Since(now, y) \in Nat /\ Since(now', y) \in Nat /\ Since(now', now') = 0
             /\ Since(now, y) + dt < W => Since(now', y) = Since(now, y) + dt
  BY <1>1, <1>2, Passing, SinceType
<1> QED
  BY <1>2, <1>3, Constants

LEMMA PeakType ==
  ASSUME TypeOK, cell' \in Levels, NEW reading \in 0 .. cell'
  PROVE  /\ reading \in Levels /\ PeakAfter(reading) \in Levels
         /\ PeakAfter(reading) = 0 => reading = 0 /\ (running => peak = 0)
         /\ PeakAfter(reading) > 0 => cell' > 0 \/ (running /\ peak > 0)
BY DEF TypeOK, Levels, PeakAfter, Higher

LEMMA CountType ==
  ASSUME TypeOK, RunInv
  PROVE  CountAfter \in 1 .. Samples
BY Constants DEF TypeOK, RunInv, CountAfter

LEMMA FinishType ==
  ASSUME TypeOK, now' \in 0 .. W - 1, NEW q \in Levels, FinishRun(now', q)
  PROVE  /\ belowSince' \in 0 .. W - 1 /\ fresh' \in Levels
         /\ valid' \in BOOLEAN /\ belowCutoff' \in BOOLEAN /\ cutoff' \in BOOLEAN
<1>1. belowSince' \in 0 .. W - 1
  BY DEF FinishRun, TypeOK, LowSince
<1>2. valid' \in BOOLEAN /\ belowCutoff' \in BOOLEAN
  BY DEF FinishRun
<1>3. cutoff' \in BOOLEAN
  <2>1. CASE cutoff' = FALSE
    BY <2>1
  <2>2. CASE cutoff' = (cutoff \/ HeldLow(now', belowSince'))
    <3>1. (cutoff \/ HeldLow(now', belowSince')) \in BOOLEAN
      <4>1. cutoff \in BOOLEAN
        BY DEF TypeOK
      <4>2. HeldLow(now', belowSince') \in BOOLEAN
        BY <1>1, SinceType, Constants DEF HeldLow
      <4> QED
        BY <4>1, <4>2, Zenon
    <3> QED
      BY <2>2, <3>1, Zenon
  <2> QED
    BY <2>1, <2>2 DEF FinishRun
<1> QED
  BY <1>1, <1>2, <1>3 DEF FinishRun

LEMMA SampleType ==
  ASSUME TypeOK, RunInv, NEW dt \in 1 .. MaxGap, Pass(dt)
  PROVE  /\ now' \in 0 .. W - 1 /\ runStart' \in 0 .. W - 1 /\ belowSince' \in 0 .. W - 1
         /\ cell' \in Levels /\ peak' \in Levels /\ fresh' \in Levels
         /\ count' \in 0 .. Samples
         /\ running' \in BOOLEAN /\ everStarted' \in BOOLEAN
         /\ valid' \in BOOLEAN /\ belowCutoff' \in BOOLEAN /\ cutoff' \in BOOLEAN
         /\ sunkFor' \in 0 .. CutoffLimit + 1 /\ lowFor' \in 0 .. CutoffDebounce
<1>0. Elapse(dt) /\ Record(dt)
  BY DEF Pass
<1>1. now' \in 0 .. W - 1 /\ cell' \in Levels /\ sunkFor' \in 0 .. CutoffLimit + 1 /\ dt \in Nat
  BY <1>0, Clock, Sunk
<1>2. lowFor' \in 0 .. CutoffDebounce
  <2>1. lowFor \in 0 .. CutoffDebounce /\ CutoffDebounce \in Nat
    BY Constants DEF TypeOK
  <2>2. Later(lowFor, dt, CutoffDebounce) \in 0 .. CutoffDebounce
    BY <1>1, <2>1, LaterType
  <2> QED
    BY <1>0, <2>1, <2>2 DEF Record
<1>3. CASE UNCHANGED <<run, result>>
  <2>1. UNCHANGED <<running, everStarted, runStart, count, peak>>
    BY <1>3 DEF run
  <2>2. UNCHANGED <<valid, fresh, belowCutoff, belowSince, cutoff>>
    BY <1>3 DEF result
  <2> QED
    BY <1>1, <1>2, <2>1, <2>2 DEF TypeOK
<1>4. CASE AddSample(now')
  <2>1. PICK reading \in 0 .. cell' :
          /\ everStarted' = TRUE
          /\ runStart' = (IF running THEN runStart ELSE now')
          /\ running' = (CountAfter < Samples)
          /\ count' = CountAfter /\ peak' = PeakAfter(reading)
          /\ IF CountAfter < Samples THEN UNCHANGED result ELSE FinishRun(now', PeakAfter(reading))
    BY <1>4 DEF AddSample
  <2>2. PeakAfter(reading) \in Levels /\ CountAfter \in 1 .. Samples
    BY <1>1, PeakType, CountType
  <2>3. running' \in BOOLEAN
    <3>1. (CountAfter < Samples) \in BOOLEAN
      BY <2>2, Constants
    <3> QED
      BY <2>1, <3>1, Zenon
  <2>4. /\ belowSince' \in 0 .. W - 1 /\ fresh' \in Levels
        /\ valid' \in BOOLEAN /\ belowCutoff' \in BOOLEAN /\ cutoff' \in BOOLEAN
    <3>1. CASE UNCHANGED result
      <4>1. UNCHANGED <<valid, fresh, belowCutoff, belowSince, cutoff>>
        BY <3>1 DEF result
      <4> QED
        BY <4>1 DEF TypeOK
    <3>2. CASE FinishRun(now', PeakAfter(reading))
      BY <1>1, <2>2, <3>2, FinishType
    <3> QED
      BY <2>1, <3>1, <3>2
  <2>5. runStart' \in 0 .. W - 1
    BY <1>1, <2>1 DEF TypeOK
  <2>6. count' \in 0 .. Samples /\ peak' \in Levels /\ everStarted' \in BOOLEAN
    BY <2>1, <2>2, Constants
  <2> QED
    BY <1>1, <1>2, <2>3, <2>4, <2>5, <2>6
<1> QED
  BY <1>3, <1>4 DEF Pass

LEMMA ChargerType ==
  ASSUME TypeOK, now' \in 0 .. W - 1, valid' \in BOOLEAN, NEW active \in BOOLEAN,
         UpdateCharger(active, now')
  PROVE  inactiveSince' \in 0 .. W - 1 /\ inactivePending' \in BOOLEAN /\ full' \in BOOLEAN
<1>1. inactiveSince' \in 0 .. W - 1
  BY DEF UpdateCharger, IdleSince, TypeOK
<1>2. inactivePending' \in BOOLEAN
  BY DEF UpdateCharger
<1>3. full' \in BOOLEAN
  <2>1. full \in BOOLEAN
    BY DEF TypeOK
  <2>2. (Since(now', inactiveSince') >= FullDebounce) \in BOOLEAN
    BY <1>1, SinceType, Constants
  <2> QED
    BY <2>1, <2>2, Zenon DEF UpdateCharger
<1> QED
  BY <1>1, <1>2, <1>3

LEMMA TypeStep == TypeOK /\ RunInv /\ [Next]_vars => TypeOK'
<1> SUFFICES ASSUME TypeOK, RunInv, [Next]_vars PROVE TypeOK'
  OBVIOUS
<1>1. CASE UNCHANGED vars
  BY <1>1 DEF vars, run, result, charger, history, TypeOK
<1>2. CASE Next
  <2>1. PICK dt \in 1 .. MaxGap : Pass(dt)
    <3>1. ASSUME UNCHANGED vars PROVE FALSE
      <4>1. now' = now /\ \E d \in 1 .. MaxGap : now' = (now + d) % W
        BY <1>2, <3>1 DEF vars, Next, Prime, BatteryJob, Elapse
      <4>2. now \in 0 .. W - 1 /\ W \in Nat /\ MaxGap \in Nat /\ MaxGap < W
        BY Constants DEF TypeOK
      <4>3. \A d \in 1 .. MaxGap : (now + d) % W # now
        BY <4>2, Wraps
      <4> QED
        BY <4>1, <4>3
    <3> QED
      BY <1>2, <3>1, Passes
  <2>2. \/ UNCHANGED charger
        \/ \E active \in BOOLEAN : UpdateCharger(active, now')
    BY <1>2 DEF Next, Prime, BatteryJob
  <2>3. inactiveSince' \in 0 .. W - 1 /\ inactivePending' \in BOOLEAN /\ full' \in BOOLEAN
    <3>1. now' \in 0 .. W - 1 /\ valid' \in BOOLEAN
      BY <2>1, SampleType
    <3>2. CASE UNCHANGED charger
      BY <3>2 DEF charger, TypeOK
    <3> QED
      BY <2>2, <3>1, <3>2, ChargerType
  <2>4. primed' \in BOOLEAN
    BY <1>2 DEF Next, Prime, BatteryJob, TypeOK
  <2>5. idleFor' \in 0 .. FullDebounce
    <3>1. idleFor \in 0 .. FullDebounce /\ FullDebounce \in Nat /\ \A d \in 1 .. MaxGap : d \in Nat
      BY Constants DEF TypeOK
    <3>2. \A d \in 1 .. MaxGap : Later(idleFor, d, FullDebounce) \in 0 .. FullDebounce
      BY <3>1, LaterType
    <3> QED
      BY <1>2, <3>1, <3>2 DEF Next, Prime, BatteryJob
  <2> QED
    BY <2>1, <2>3, <2>4, <2>5, SampleType DEF TypeOK
<1> QED
  BY <1>1, <1>2

-----------------------------------------------------------------------------
(* A step of the job, the charger aside.                                   *)

\* The bounds that one more sample keeps, before the run is judged.
LEMMA SampleTaken ==
  ASSUME TypeOK, RunInv, DueInv, SunkInv, NEW dt \in 1 .. MaxGap, Elapse(dt), Record(dt),
         NEW reading \in 0 .. cell', runStart' = (IF running THEN runStart ELSE now')
  PROVE  /\ CountAfter \in 1 .. Samples /\ RunFor' \in Nat /\ RunFor' <= Taken(CountAfter)
         /\ PeakAfter(reading) > 0 => sunkFor' <= RunFor'
         /\ PeakAfter(reading) = 0 /\ ~belowCutoff => sunkFor' <= RunPeriod + RunFor'
         /\ belowCutoff /\ ~cutoff =>
              /\ Since(now', belowSince) < CutoffDebounce + Interval + MaxGap + RunFor'
              /\ sunkFor' <= RunPeriod + RunLength + Since(now', belowSince)
<1>1. /\ runStart \in 0 .. W - 1 /\ belowSince \in 0 .. W - 1 /\ now \in 0 .. W - 1
      /\ count \in 0 .. Samples /\ running \in BOOLEAN /\ peak \in Levels
  BY DEF TypeOK
<1>2. now' \in 0 .. W - 1 /\ dt \in Nat /\ dt <= MaxGap
  BY Clock, Constants
<1>3. PICK r \in Nat : r = RunFor
  BY <1>1, SinceType DEF RunFor
<1>4. PICK b \in Nat, bb \in Nat : b = BelowFor /\ bb = Since(now', belowSince)
  BY <1>1, <1>2, SinceType DEF BelowFor
<1>5. b + dt < W => bb = b + dt
  BY <1>1, <1>4, Clock DEF BelowFor
<1>6. PICK s \in Nat, ss \in Nat : s = sunkFor /\ ss = sunkFor' /\ ss <= s + dt /\ (cell' > 0 => ss = 0)
  BY Sunk
<1>7. cell' \in Levels
  BY Sunk
<1>8. CASE running
  <2>1. count \in 1 .. Samples - 1 /\ r <= Taken(count)
    BY <1>3, <1>8 DEF RunInv
  <2>2. CountAfter = count + 1 /\ CountAfter \in 1 .. Samples
    BY <1>8, <2>1, Constants DEF CountAfter
  <2>3. PICK q \in Nat : q = Taken(count) /\ Taken(CountAfter) = q + MaxGap /\ q + MaxGap <= RunLength
    BY <2>1, <2>2, TakenSteps
  <2>4. r + dt < W
    BY <1>2, <2>1, <2>3, Constants
  <2>5. RunFor' = r + dt
    <3>1. RunFor' = Since(now', runStart)
      BY <1>8 DEF RunFor
    <3> QED
      BY <1>1, <1>3, <2>4, <3>1, Clock DEF RunFor
  <2>6. RunFor' \in Nat /\ RunFor' <= Taken(CountAfter)
    BY <1>2, <2>1, <2>3, <2>5, Constants
  <2>7. ASSUME PeakAfter(reading) > 0 PROVE sunkFor' <= RunFor'
    <3>1. cell' > 0 \/ peak > 0
      BY <1>7, <2>7, PeakType
    <3>2. peak > 0 => s <= r
      BY <1>3, <1>6, <1>8 DEF SunkInv
    <3> QED
      BY <1>2, <1>6, <2>5, <3>1, <3>2
  <2>8. ASSUME PeakAfter(reading) = 0, ~belowCutoff PROVE sunkFor' <= RunPeriod + RunFor'
    <3>1. peak = 0
      BY <1>7, <1>8, <2>8, PeakType
    <3>2. s <= RunPeriod + r
      BY <1>3, <1>6, <1>8, <2>8, <3>1 DEF SunkInv
    <3> QED
      BY <1>2, <1>6, <2>5, <3>2, Constants
  <2>9. ASSUME belowCutoff, ~cutoff
        PROVE  /\ bb < CutoffDebounce + Interval + MaxGap + RunFor'
               /\ sunkFor' <= RunPeriod + RunLength + bb
    <3>1. b < CutoffDebounce + Interval + MaxGap + r
      BY <1>3, <1>4, <1>8, <2>9 DEF DueInv
    <3>2. s <= RunPeriod + RunLength + b
      BY <1>4, <1>6, <2>9 DEF SunkInv
    <3>3. bb = b + dt
      BY <1>2, <1>5, <2>1, <2>3, <3>1, Constants
    <3> QED
      BY <1>2, <1>6, <2>5, <3>1, <3>2, <3>3, Constants
  <2> QED
    BY <1>4, <2>2, <2>6, <2>7, <2>8, <2>9
<1>9. CASE ~running
  <2>1. CountAfter = 1 /\ CountAfter \in 1 .. Samples /\ Taken(CountAfter) = 0
    BY <1>9, TakenSteps, Constants DEF CountAfter
  <2>2. RunFor' = 0
    BY <1>2, <1>9, SinceType DEF RunFor
  <2>3. ASSUME PeakAfter(reading) > 0 PROVE sunkFor' <= RunFor'
    <3>1. cell' > 0
      BY <1>7, <1>9, <2>3, PeakType
    <3> QED
      BY <1>6, <2>2, <3>1
  <2>4. ASSUME ~belowCutoff PROVE sunkFor' <= RunPeriod + RunFor'
    <3>1. CASE everStarted
      <4>1. s <= r
        BY <1>3, <1>6, <1>9, <2>4, <3>1 DEF SunkInv
      <4>2. r <= RunLength \/ r < Interval
        BY <1>3, <1>9, <3>1 DEF RunInv
      <4> QED
        BY <1>2, <1>6, <2>2, <4>1, <4>2, Constants
    <3>2. CASE ~everStarted
      <4>1. s = 0
        BY <1>6, <3>2 DEF RunInv
      <4> QED
        BY <1>2, <1>6, <2>2, <4>1, Constants
    <3> QED
      BY <3>1, <3>2
  <2>5. ASSUME belowCutoff, ~cutoff
        PROVE  /\ bb < CutoffDebounce + Interval + MaxGap + RunFor'
               /\ sunkFor' <= RunPeriod + RunLength + bb
    <3>1. b < CutoffDebounce + r /\ (b < CutoffDebounce \/ r < Interval)
      BY <1>3, <1>4, <1>9, <2>5 DEF DueInv
    <3>2. s <= RunPeriod + RunLength + b
      BY <1>4, <1>6, <2>5 DEF SunkInv
    <3>3. bb = b + dt
      BY <1>2, <1>5, <3>1, Constants
    <3> QED
      BY <1>2, <1>6, <2>2, <3>1, <3>2, <3>3, Constants
  <2> QED
    BY <1>4, <2>1, <2>2, <2>3, <2>4, <2>5
<1> QED
  BY <1>8, <1>9

\* Between two runs the clock only moves on.
LEMMA NotSampled ==
  ASSUME TypeOK, RunInv, DueInv, SunkInv, NEW dt \in 1 .. MaxGap, Elapse(dt), Record(dt),
         ~Sampling(now'), UNCHANGED <<run, result>>
  PROVE  RunInv' /\ DueInv' /\ SunkInv'
<1>1. /\ runStart \in 0 .. W - 1 /\ belowSince \in 0 .. W - 1 /\ now \in 0 .. W - 1
  BY DEF TypeOK
<1>2. now' \in 0 .. W - 1 /\ dt \in Nat /\ dt <= MaxGap
  BY Clock, Constants
<1>3. /\ UNCHANGED <<running, everStarted, runStart, count, peak>>
      /\ UNCHANGED <<valid, fresh, belowCutoff, belowSince, cutoff>>
  BY DEF run, result
<1>4. ~running /\ everStarted /\ ~(Since(now', runStart) >= Interval)
  BY DEF Sampling
<1>5. PICK r \in Nat, b \in Nat : r = RunFor /\ b = BelowFor
  BY <1>1, SinceType DEF RunFor, BelowFor
<1>6. PICK rr \in Nat, bb \in Nat : rr = RunFor' /\ bb = BelowFor'
  BY <1>1, <1>2, <1>3, SinceType DEF RunFor, BelowFor
<1>7. rr = Since(now', runStart) /\ bb = Since(now', belowSince)
  BY <1>3, <1>6 DEF RunFor, BelowFor
<1>8. r <= RunLength \/ r < Interval
  BY <1>4, <1>5 DEF RunInv
<1>9. rr = r + dt
  BY <1>1, <1>2, <1>5, <1>7, <1>8, Clock, Constants DEF RunFor
<1>10. rr < Interval
  BY <1>4, <1>7, Constants
<1>11. PICK s \in Nat, ss \in Nat : s = sunkFor /\ ss = sunkFor' /\ ss <= s + dt
  BY Sunk
<1>12. RunInv'
  BY <1>3, <1>4, <1>6, <1>10 DEF RunInv
<1>13. ASSUME belowCutoff, ~cutoff
       PROVE  bb = b + dt /\ bb < CutoffDebounce + rr
  <2>1. b < CutoffDebounce + r /\ (b < CutoffDebounce \/ r < Interval)
    BY <1>4, <1>5, <1>13 DEF DueInv
  <2>2. bb = b + dt
    <3>1. b + dt < W
      BY <1>2, <2>1, Constants
    <3> QED
      BY <1>1, <1>5, <1>7, <3>1, Clock DEF BelowFor
  <2> QED
    BY <1>2, <1>9, <2>1, <2>2, Constants
<1>14. DueInv'
  <2> SUFFICES ASSUME belowCutoff, ~cutoff
               PROVE  BelowFor' < CutoffDebounce + RunFor' /\ RunFor' < Interval
    BY <1>3, <1>4 DEF DueInv
  <2> QED
    BY <1>6, <1>10, <1>13
<1>15. SunkInv'
  <2>1. ASSUME ~belowCutoff PROVE sunkFor' <= RunFor'
    <3>1. s <= r
      BY <1>4, <1>5, <1>11, <2>1 DEF SunkInv
    <3> QED
      BY <1>2, <1>6, <1>9, <1>11, <3>1
  <2>2. ASSUME belowCutoff, ~cutoff PROVE sunkFor' <= RunPeriod + RunLength + BelowFor'
    <3>1. s <= RunPeriod + RunLength + b
      BY <1>5, <1>11, <2>2 DEF SunkInv
    <3> QED
      BY <1>2, <1>6, <1>11, <1>13, <2>2, <3>1, Constants
  <2> QED
    BY <1>3, <1>4, <2>1, <2>2 DEF SunkInv
<1> QED
  BY <1>12, <1>14, <1>15

\* A sample leaves the run open, or ends it and judges it.
LEMMA Sampled ==
  ASSUME TypeOK, RunInv, DueInv, SunkInv, NEW dt \in 1 .. MaxGap, Elapse(dt), Record(dt),
         AddSample(now')
  PROVE  RunInv' /\ DueInv' /\ SunkInv'
<1>1. PICK reading \in 0 .. cell' :
        /\ everStarted' = TRUE
        /\ runStart' = (IF running THEN runStart ELSE now')
        /\ running' = (CountAfter < Samples)
        /\ count' = CountAfter /\ peak' = PeakAfter(reading)
        /\ IF CountAfter < Samples THEN UNCHANGED result ELSE FinishRun(now', PeakAfter(reading))
  BY DEF AddSample
<1>2. /\ CountAfter \in 1 .. Samples /\ RunFor' \in Nat /\ RunFor' <= Taken(CountAfter)
      /\ PeakAfter(reading) > 0 => sunkFor' <= RunFor'
      /\ PeakAfter(reading) = 0 /\ ~belowCutoff => sunkFor' <= RunPeriod + RunFor'
      /\ belowCutoff /\ ~cutoff =>
           /\ Since(now', belowSince) < CutoffDebounce + Interval + MaxGap + RunFor'
           /\ sunkFor' <= RunPeriod + RunLength + Since(now', belowSince)
  BY <1>1, SampleTaken
<1>3. sunkFor' \in Nat /\ now' \in 0 .. W - 1
  BY Sunk, Clock
<1>4. CASE CountAfter < Samples
  <2>1. UNCHANGED <<valid, fresh, belowCutoff, belowSince, cutoff>>
    BY <1>1, <1>4 DEF result
  <2>2. running' /\ CountAfter \in 1 .. Samples - 1
    <3>1. running'
      BY <1>1, <1>4, Zenon
    <3>2. PICK c \in 1 .. Samples : c = CountAfter
      BY <1>2
    <3>3. c \in 1 .. Samples - 1
      BY <1>4, <3>2, Constants
    <3> QED
      BY <3>1, <3>2, <3>3
  <2>3. RunInv'
    <3>1. Taken(count)' = Taken(CountAfter)
      BY <1>1 DEF Taken
    <3> QED
      BY <1>1, <1>2, <2>2, <3>1 DEF RunInv
  <2>4. BelowFor' = Since(now', belowSince)
    BY <2>1 DEF BelowFor
  <2>5. DueInv'
    BY <1>2, <2>1, <2>2, <2>4 DEF DueInv
  <2>6. SunkInv'
    BY <1>1, <1>2, <2>1, <2>2, <2>4 DEF SunkInv
  <2> QED
    BY <2>3, <2>5, <2>6
<1>5. CASE ~(CountAfter < Samples)
  <2>1. FinishRun(now', PeakAfter(reading)) /\ ~running' /\ everStarted'
    BY <1>1, <1>5
  <2>2. RunFor' <= RunLength
    <3>1. CountAfter = Samples
      BY <1>2, <1>5, Constants
    <3> QED
      BY <1>2, <3>1, TakenSteps
  <2>3. RunInv'
    BY <1>2, <2>1, <2>2 DEF RunInv
  <2>4. CASE PeakAfter(reading) = 0
    <3>1. /\ belowCutoff' /\ belowSince' = LowSince(now')
          /\ cutoff' = (cutoff \/ HeldLow(now', belowSince'))
      BY <2>1, <2>4 DEF FinishRun
    <3>2. belowSince' \in 0 .. W - 1
      BY <1>3, <3>1 DEF LowSince, TypeOK
    <3>3. PICK bb \in Nat : bb = BelowFor'
      BY <1>3, <3>2, SinceType DEF BelowFor
    <3>4. ~cutoff' => ~cutoff /\ bb < CutoffDebounce
      <4>1. ~cutoff' => ~cutoff /\ ~HeldLow(now', belowSince')
        BY <3>1
      <4>2. HeldLow(now', belowSince') <=> bb >= CutoffDebounce
        BY <3>3 DEF HeldLow, BelowFor
      <4> QED
        BY <4>1, <4>2, Constants
    <3>5. DueInv'
      <4> SUFFICES ASSUME ~cutoff'
                   PROVE  BelowFor' < CutoffDebounce + RunFor' /\ BelowFor' < CutoffDebounce
        BY <2>1 DEF DueInv
      <4>1. PICK rr \in Nat : rr = RunFor'
        BY <1>2
      <4>2. bb < CutoffDebounce /\ bb < CutoffDebounce + rr
        BY <3>4, Constants
      <4> QED
        BY <3>3, <4>1, <4>2
    <3>6. SunkInv'
      <4> SUFFICES ASSUME ~cutoff' PROVE sunkFor' <= RunPeriod + RunLength + BelowFor'
        BY <2>1, <3>1 DEF SunkInv
      <4>1. CASE belowCutoff
        <5>1. BelowFor' = Since(now', belowSince)
          BY <3>1, <4>1 DEF BelowFor, LowSince
        <5> QED
          BY <1>2, <3>4, <4>1, <5>1
      <4>2. CASE ~belowCutoff
        <5>1. PICK rr \in Nat, ss \in Nat : rr = RunFor' /\ ss = sunkFor'
          BY <1>2, <1>3
        <5>2. rr <= RunLength /\ ss <= RunPeriod + rr
          BY <1>2, <2>2, <2>4, <4>2, <5>1
        <5>3. ss <= RunPeriod + RunLength + bb
          BY <5>2, Constants
        <5> QED
          BY <3>3, <5>1, <5>3
      <4> QED
        BY <4>1, <4>2
    <3> QED
      BY <2>3, <3>5, <3>6
  <2>5. CASE PeakAfter(reading) > 0
    <3>1. ~belowCutoff'
      BY <2>1, <2>5 DEF FinishRun
    <3>2. sunkFor' <= RunFor'
      BY <1>2, <2>5
    <3> QED
      BY <2>1, <2>3, <3>1, <3>2 DEF DueInv, SunkInv
  <2> QED
    <3>1. PeakAfter(reading) \in Levels
      BY Sunk, PeakType
    <3> QED
      BY <2>4, <2>5, <3>1 DEF Levels
<1> QED
  BY <1>4, <1>5

\* One low run alone is no row: it is judged at the time it began.
LEMMA Low ==
  ASSUME TypeOK, RunInv, LowInv, NEW dt \in 1 .. MaxGap, Pass(dt)
  PROVE  LowInv' /\ (cutoff' /\ ~cutoff => valid /\ fresh = 0)
<1>1. Elapse(dt) /\ Record(dt)
  BY DEF Pass
<1>2. now' \in 0 .. W - 1 /\ dt \in Nat /\ dt <= MaxGap
  BY <1>1, Clock, Constants
<1>3. PICK l \in Nat : l = lowFor /\ l <= CutoffDebounce
  BY Constants DEF TypeOK
<1>4. PICK ll \in Nat :
        /\ ll = Later(lowFor, dt, CutoffDebounce) /\ ll <= CutoffDebounce
        /\ (ll < CutoffDebounce => ll = l + dt) /\ (l + dt >= CutoffDebounce => ll = CutoffDebounce)
  <2>1. CutoffDebounce \in Nat /\ lowFor \in 0 .. CutoffDebounce
    BY <1>3, Constants
  <2>2. /\ Later(lowFor, dt, CutoffDebounce) \in 0 .. CutoffDebounce
        /\ Later(lowFor, dt, CutoffDebounce) < CutoffDebounce =>
             Later(lowFor, dt, CutoffDebounce) = lowFor + dt
        /\ lowFor + dt >= CutoffDebounce => Later(lowFor, dt, CutoffDebounce) = CutoffDebounce
    BY <1>2, <2>1, LaterType
  <2>3. /\ Later(lowFor, dt, CutoffDebounce) \in Nat
        /\ Later(lowFor, dt, CutoffDebounce) <= CutoffDebounce
    BY <2>1, <2>2
  <2> QED
    BY <1>3, <2>2, <2>3
<1>5. lowFor' = (IF ~belowCutoff' \/ ~belowCutoff THEN 0 ELSE ll)
  BY <1>1, <1>4 DEF Record
\* The history and the clock agree on a row that goes on.
<1>6. ASSUME belowCutoff
      PROVE  /\ ll < CutoffDebounce => Since(now', belowSince) = ll
             /\ Since(now', belowSince) >= CutoffDebounce => ll >= CutoffDebounce
  <2>1. l < CutoffDebounce => BelowFor = l
    BY <1>3, <1>6 DEF LowInv
  <2>2. now \in 0 .. W - 1 /\ belowSince \in 0 .. W - 1
    BY DEF TypeOK
  <2>3. l < CutoffDebounce => Since(now', belowSince) = l + dt
    <3>1. l < CutoffDebounce => BelowFor + dt < W
      BY <1>2, <2>1, Constants
    <3> QED
      BY <1>1, <2>1, <2>2, <3>1, Clock DEF BelowFor
  <2>4. Since(now', belowSince) \in Nat
    BY <1>2, <2>2, SinceType
  <2> QED
    BY <1>2, <1>3, <1>4, <2>3, <2>4, Constants
<1>7. ASSUME UNCHANGED result PROVE LowInv' /\ cutoff' = cutoff
  <2>1. UNCHANGED <<valid, fresh, belowCutoff, belowSince, cutoff>>
    BY <1>7 DEF result
  <2>2. (belowCutoff => valid /\ fresh = 0)'
    BY <2>1 DEF LowInv
  <2>3. (belowCutoff /\ lowFor < CutoffDebounce => BelowFor = lowFor)'
    BY <1>5, <1>6, <2>1 DEF BelowFor
  <2>4. CutoffEarned'
    <3> SUFFICES ASSUME cutoff PROVE belowCutoff /\ lowFor' >= CutoffDebounce
      BY <2>1 DEF CutoffEarned
    <3>1. belowCutoff /\ l >= CutoffDebounce
      BY <1>3 DEF LowInv, CutoffEarned
    <3> QED
      BY <1>2, <1>4, <1>5, <2>1, <3>1, Constants
  <2> QED
    BY <2>1, <2>2, <2>3, <2>4 DEF LowInv
<1>8. ASSUME NEW q \in Levels, FinishRun(now', q)
      PROVE  LowInv' /\ (cutoff' /\ ~cutoff => valid /\ fresh = 0)
  <2>1. CASE q > 0
    BY <1>8, <2>1 DEF FinishRun, LowInv, CutoffEarned
  <2>2. CASE q = 0
    <3>1. /\ valid' /\ fresh' = 0 /\ belowCutoff' /\ belowSince' = LowSince(now')
          /\ cutoff' = (cutoff \/ HeldLow(now', belowSince'))
      BY <1>8, <2>2 DEF FinishRun
    <3>2. CASE belowCutoff
      <4>1. belowSince' = belowSince /\ BelowFor' = Since(now', belowSince) /\ lowFor' = ll
        BY <1>5, <3>1, <3>2 DEF LowSince, BelowFor
      <4>2. (belowCutoff /\ lowFor < CutoffDebounce => BelowFor = lowFor)'
        BY <1>6, <3>2, <4>1
      <4>3. cutoff' => ll >= CutoffDebounce
        <5>1. cutoff => l >= CutoffDebounce
          BY <1>3 DEF LowInv, CutoffEarned
        <5>2. cutoff' => cutoff \/ Since(now', belowSince) >= CutoffDebounce
          BY <3>1, <4>1 DEF HeldLow
        <5> QED
          BY <1>2, <1>4, <1>6, <3>2, <5>1, <5>2, Constants
      <4>4. valid /\ fresh = 0
        BY <3>2 DEF LowInv
      <4> QED
        BY <3>1, <4>1, <4>2, <4>3, <4>4 DEF LowInv, CutoffEarned
    <3>3. CASE ~belowCutoff
      <4>1. belowSince' = now' /\ BelowFor' = 0 /\ lowFor' = 0
        BY <1>2, <1>5, <3>1, <3>3, SinceType DEF LowSince, BelowFor
      <4>2. ~cutoff
        BY <3>3 DEF LowInv, CutoffEarned
      <4>3. ~HeldLow(now', belowSince')
        BY <4>1, Constants DEF HeldLow, BelowFor
      <4>4. ~cutoff'
        BY <3>1, <4>2, <4>3
      <4> QED
        BY <3>1, <4>1, <4>4 DEF LowInv, CutoffEarned
    <3> QED
      BY <3>2, <3>3
  <2> QED
    BY <2>1, <2>2 DEF Levels
<1>9. UNCHANGED result \/ \E q \in Levels : FinishRun(now', q)
  <2>1. CASE UNCHANGED <<run, result>>
    BY <2>1
  <2>2. CASE AddSample(now')
    <3>1. PICK reading \in 0 .. cell' :
            IF CountAfter < Samples THEN UNCHANGED result ELSE FinishRun(now', PeakAfter(reading))
      BY <2>2 DEF AddSample
    <3>2. PeakAfter(reading) \in Levels
      BY <1>1, Sunk, PeakType
    <3> QED
      BY <3>1, <3>2
  <2> QED
    BY <2>1, <2>2 DEF Pass
<1> QED
  BY <1>7, <1>8, <1>9

\* The charger's start, under the job and at the end of priming.
LEMMA Idle ==
  ASSUME TypeOK, TypeOK', IdleInv, Next
  PROVE  IdleInv'
<1>1. ASSUME Prime PROVE IdleInv'
  <2>1. ~primed /\ ~inactivePending /\ ~full
    BY <1>1 DEF Prime, IdleInv, FullEarned
  <2>2. CASE UNCHANGED <<primed, charger, idleFor>>
    <3>1. UNCHANGED <<primed, inactivePending, inactiveSince, full>>
      BY <2>2 DEF charger
    <3> QED
      BY <2>1, <3>1 DEF IdleInv, FullEarned
  <2>3. ASSUME NEW active \in BOOLEAN, UpdateCharger(active, now'), primed', idleFor' = 0
        PROVE  IdleInv'
    <3>1. CASE active
      BY <2>3, <3>1 DEF UpdateCharger, IdleInv, FullEarned
    <3>2. CASE ~active
      <4>1. inactiveSince' = now' /\ inactivePending'
        BY <2>1, <2>3, <3>2 DEF UpdateCharger, IdleSince
      <4>2. Since(now', inactiveSince') = 0
        BY <4>1, SinceType DEF TypeOK
      <4>3. ~full'
        <5>1. ~(Since(now', inactiveSince') >= FullDebounce)
          BY <4>2, Constants
        <5> QED
          BY <2>1, <2>3, <3>2, <5>1 DEF UpdateCharger
      <4> QED
        BY <2>3, <4>1, <4>2, <4>3 DEF IdleInv, FullEarned
    <3> QED
      BY <3>1, <3>2
  <2> QED
    BY <1>1, <2>2, <2>3 DEF Prime
<1>2. ASSUME BatteryJob PROVE IdleInv'
  <2>1. PICK dt \in 1 .. MaxGap, active \in BOOLEAN :
          /\ Elapse(dt) /\ UpdateCharger(active, now')
          /\ idleFor' = (IF active \/ ~inactivePending THEN 0 ELSE Later(idleFor, dt, FullDebounce))
    BY <1>2 DEF BatteryJob
  <2>2. primed /\ primed' = primed
    BY <1>2 DEF BatteryJob
  <2>3. CASE active
    BY <2>1, <2>2, <2>3 DEF UpdateCharger, IdleInv, FullEarned
  <2>4. CASE ~active /\ ~inactivePending
    <3>1. inactiveSince' = now' /\ inactivePending' /\ idleFor' = 0 /\ ~full
      BY <2>1, <2>4 DEF UpdateCharger, IdleSince, IdleInv, FullEarned
    <3>2. Since(now', inactiveSince') = 0
      BY <3>1, SinceType DEF TypeOK
    <3>3. ~full'
      <4>1. ~(Since(now', inactiveSince') >= FullDebounce)
        BY <3>2, Constants
      <4> QED
        BY <2>1, <2>4, <3>1, <4>1 DEF UpdateCharger
    <3> QED
      BY <2>2, <3>1, <3>2, <3>3 DEF IdleInv, FullEarned
  <2>5. CASE ~active /\ inactivePending
    <3>1. /\ inactiveSince' = inactiveSince /\ inactivePending'
          /\ idleFor' = Later(idleFor, dt, FullDebounce)
          /\ full' => full \/ Since(now', inactiveSince) >= FullDebounce
      BY <2>1, <2>5 DEF UpdateCharger, IdleSince
    <3>2. PICK l \in 0 .. FullDebounce : l = idleFor
      BY DEF TypeOK
    <3>3. dt \in Nat /\ dt <= MaxGap /\ l \in Nat
      BY <3>2, Constants
    <3>4. PICK ll \in 0 .. FullDebounce :
            /\ ll = idleFor'
            /\ (ll < FullDebounce => ll = l + dt) /\ (l + dt >= FullDebounce => ll = FullDebounce)
      <4>1. FullDebounce \in Nat /\ Later(l, dt, FullDebounce) = idleFor'
        BY <3>1, <3>2, Constants
      <4> QED
        BY <3>3, <4>1, LaterType
    <3>5. PICK a \in Nat, b \in Nat : a = Since(now, inactiveSince) /\ b = Since(now', inactiveSince)
      BY SinceType, <3>1 DEF TypeOK
    <3>6. l < FullDebounce => a = l
      BY <2>5, <3>2, <3>5 DEF IdleInv
    <3>7. l < FullDebounce => b = l + dt
      <4>1. l < FullDebounce => a + dt < W
        BY <3>3, <3>6, Constants
      <4>2. inactiveSince \in 0 .. W - 1
        BY DEF TypeOK
      <4> QED
        BY <2>1, <3>5, <3>6, <4>1, <4>2, Clock
    <3>8. full => l >= FullDebounce
      BY <3>2 DEF IdleInv, FullEarned
    <3>9. ll < FullDebounce => b = ll
      BY <3>2, <3>3, <3>4, <3>7, Constants
    <3>10. full' => ll >= FullDebounce
      <4>1. full' => l >= FullDebounce \/ b >= FullDebounce
        BY <3>1, <3>5, <3>8
      <4> QED
        BY <3>3, <3>4, <3>7, <4>1, Constants
    <3> QED
      BY <2>2, <3>1, <3>4, <3>5, <3>9, <3>10 DEF IdleInv, FullEarned
  <2> QED
    BY <2>3, <2>4, <2>5
<1> QED
  BY <1>1, <1>2 DEF Next
-----------------------------------------------------------------------------
(* Theorems.                                                               *)

LEMMA Initial == Init => IInv
<1> SUFFICES ASSUME Init PROVE IInv
  OBVIOUS
<1>1. TypeOK
  <2>1. now \in 0 .. W - 1 /\ 0 \in 0 .. W - 1
    BY Constants DEF Init
  <2>2. 0 \in 0 .. Samples /\ 0 \in 0 .. CutoffDebounce /\ 0 \in 0 .. CutoffLimit + 1
        /\ 0 \in 0 .. FullDebounce
    BY Constants
  <2>3. {primed, running, everStarted, valid, belowCutoff, cutoff, inactivePending, full}
          \subseteq BOOLEAN
    BY DEF Init
  <2> QED
    BY <2>1, <2>2, <2>3 DEF Init, TypeOK, Levels
<1>2. RunInv /\ DueInv /\ SunkInv /\ LowInv /\ IdleInv
  BY DEF Init, RunInv, DueInv, SunkInv, LowInv, IdleInv, CutoffEarned, FullEarned
<1> QED
  BY <1>1, <1>2 DEF IInv

\* A step keeps it, and asks for the cutoff only when the row has been seen low.
LEMMA Step == IInv /\ [Next]_vars => IInv' /\ (cutoff' /\ ~cutoff => valid /\ fresh = 0)
<1> SUFFICES ASSUME IInv, [Next]_vars
             PROVE  IInv' /\ (cutoff' /\ ~cutoff => valid /\ fresh = 0)
  OBVIOUS
<1>1. TypeOK /\ RunInv /\ DueInv /\ SunkInv /\ LowInv /\ IdleInv /\ TypeOK'
  BY TypeStep DEF IInv
<1>2. CASE UNCHANGED vars
  <2>1. /\ UNCHANGED <<now, primed, lowFor, sunkFor, idleFor>>
        /\ UNCHANGED <<running, everStarted, runStart, count, peak>>
        /\ UNCHANGED <<valid, fresh, belowCutoff, belowSince, cutoff>>
        /\ UNCHANGED <<inactivePending, inactiveSince, full>>
    BY <1>2 DEF vars, run, result, charger, history
  <2>2. RunFor' = RunFor /\ BelowFor' = BelowFor /\ Taken(count)' = Taken(count)
    BY <2>1 DEF RunFor, BelowFor, Taken
  <2>3. RunInv' /\ DueInv' /\ SunkInv'
    BY <1>1, <2>1, <2>2 DEF RunInv, DueInv, SunkInv
  <2>4. LowInv' /\ IdleInv'
    BY <1>1, <2>1, <2>2 DEF LowInv, IdleInv, CutoffEarned, FullEarned
  <2> QED
    BY <1>1, <2>1, <2>3, <2>4 DEF IInv
<1>3. CASE Next /\ ~UNCHANGED vars
  <2>1. PICK dt \in 1 .. MaxGap : Pass(dt)
    BY <1>3, Passes
  <2>2. Elapse(dt) /\ Record(dt)
    BY <2>1 DEF Pass
  <2>3. RunInv' /\ DueInv' /\ SunkInv'
    BY <1>1, <2>1, <2>2, Sampled, NotSampled DEF Pass
  <2>4. LowInv' /\ (cutoff' /\ ~cutoff => valid /\ fresh = 0)
    BY <1>1, <2>1, Low
  <2>5. IdleInv'
    BY <1>1, <1>3, Idle
  <2> QED
    BY <1>1, <2>3, <2>4, <2>5 DEF IInv
<1> QED
  BY <1>2, <1>3

\* The runs, the row of low ones and the charger are as the code keeps them.
THEOREM InvCorrect == Spec => []IInv
<1> QED
  BY Initial, Step, PTL DEF Spec

\* The monitor's state has its types, and no start time leaves the clock's range.
THEOREM TypeCorrect == Spec => []TypeOK
<1>1. IInv => TypeOK
  BY DEF IInv
<1> QED
  BY InvCorrect, <1>1, PTL

\* The cutoff is asked for only after every run has ended low for the whole
\* debounce in true time, whatever the clock's wrap.
THEOREM Earned == Spec => []CutoffEarned
<1>1. IInv => CutoffEarned
  BY DEF IInv, LowInv
<1> QED
  BY InvCorrect, <1>1, PTL

\* A cell that has been below the cutoff for longer than CutoffLimit has asked
\* for it, for any number of samples and however late the jobs within MaxGap.
THEOREM InTime == Spec => []CutoffInTime
<1>1. IInv => CutoffInTime
  <2> SUFFICES ASSUME IInv, ~cutoff PROVE ~(sunkFor > CutoffLimit)
    BY DEF CutoffInTime
  <2>1. TypeOK /\ RunInv /\ DueInv /\ SunkInv
    BY DEF IInv
  <2>2. PICK r \in Nat, b \in Nat : r = RunFor /\ b = BelowFor
    BY <2>1, SinceType DEF TypeOK, RunFor, BelowFor
  <2>3. PICK s \in Nat : s = sunkFor
    BY <2>1, Constants DEF TypeOK
  <2>4. running \/ everStarted => r <= RunLength \/ r < Interval
    <3>1. CASE running
      <4>1. count \in 1 .. Samples - 1 /\ r <= Taken(count)
        BY <2>1, <2>2, <3>1 DEF RunInv
      <4>2. PICK q \in Nat : q = Taken(count) /\ q + MaxGap <= RunLength
        BY <4>1, TakenSteps
      <4> QED
        BY <4>1, <4>2, Constants
    <3>2. CASE ~running
      BY <2>1, <2>2, <3>2 DEF RunInv
    <3> QED
      BY <3>1, <3>2
  <2>5. CASE ~belowCutoff
    <3>1. CASE running
      <4>1. s <= RunPeriod + r
        <5>1. peak = 0 \/ peak > 0
          BY <2>1 DEF TypeOK, Levels
        <5> QED
          BY <2>1, <2>2, <2>3, <2>5, <3>1, <5>1, Constants DEF SunkInv
      <4> QED
        BY <2>3, <2>4, <3>1, <4>1, Constants
    <3>2. CASE ~running /\ everStarted
      <4>1. s <= r
        BY <2>1, <2>2, <2>3, <2>5, <3>2 DEF SunkInv
      <4> QED
        BY <2>3, <2>4, <3>2, <4>1, Constants
    <3>3. CASE ~running /\ ~everStarted
      BY <2>1, <3>3, Constants DEF RunInv
    <3> QED
      BY <3>1, <3>2, <3>3
  <2>6. CASE belowCutoff
    <3>1. s <= RunPeriod + RunLength + b
      BY <2>1, <2>2, <2>3, <2>6 DEF SunkInv
    <3>2. CASE running
      <4>1. b < CutoffDebounce + Interval + MaxGap + r /\ r <= RunLength
        <5>1. b < CutoffDebounce + Interval + MaxGap + r
          BY <2>1, <2>2, <2>6, <3>2 DEF DueInv
        <5>2. count \in 1 .. Samples - 1 /\ r <= Taken(count)
          BY <2>1, <2>2, <3>2 DEF RunInv
        <5>3. PICK q \in Nat : q = Taken(count) /\ q + MaxGap <= RunLength
          BY <5>2, TakenSteps
        <5> QED
          BY <5>1, <5>2, <5>3, Constants
      <4> QED
        BY <2>3, <3>1, <4>1, Constants
    <3>3. CASE ~running
      <4>1. b < CutoffDebounce + r /\ (b < CutoffDebounce \/ r < Interval)
        BY <2>1, <2>2, <2>6, <3>3 DEF DueInv
      <4> QED
        BY <2>3, <3>1, <4>1, Constants
    <3> QED
      BY <3>2, <3>3
  <2> QED
    BY <2>1, <2>5, <2>6 DEF TypeOK
<1> QED
  BY InvCorrect, <1>1, PTL

\* No run alone asks for the cutoff: the status has already shown a low run.
THEOREM NeverOne == Spec => NeverOnOneRun
<1>1. IInv /\ [Next]_vars => [cutoff' /\ ~cutoff => valid /\ fresh = 0]_vars
  BY Step
<1> QED
  BY InvCorrect, <1>1, PTL DEF Spec, NeverOnOneRun

\* "Full" is shown only after the charger was inactive for its whole debounce,
\* in true time.
THEOREM FullTold == Spec => []FullEarned
<1>1. IInv => FullEarned
  BY DEF IInv, IdleInv
<1> QED
  BY InvCorrect, <1>1, PTL
=============================================================================
