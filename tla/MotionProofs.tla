------------------------------ MODULE MotionProofs ------------------------------
(***************************************************************************)
(* What the trim and the epoch tracker promise of a vehicle that drives    *)
(* from stop to stop, proved for any thresholds and window sizes that fit  *)
(* together the way the configuration's static_asserts demand, any number  *)
(* of stops and any period.                                                *)
(*                                                                         *)
(* Three arguments.  A window that survived a tick on the road did so by a *)
(* stale speed or by a failed read, and neither lasts for a whole drive.   *)
(* A window's samples are all counted in fresh.  And as long as a silence  *)
(* is shorter than what the tracker takes for a step of the clock, the     *)
(* last iTOW is off the receiver's clock by just the epochs lost since.    *)
(***************************************************************************)
EXTENDS Motion, FiniteSetTheorems, TLAPS

\* The stops a window holds measurements of.
Held == lockStops \cup blockStops

\* When a run of silence or of failures ends, and when a window is full.
TimeInv == running => age < Silence
UpInv == up => failures < DownAfter
FullInv == lockBlocksSeen = LockBlocks => converged

\* On the road a window lasts while the speed is stale and the reads fail.
HeldInv ==
  /\ \A a, b \in Held : a = b
  /\ up /\ road = 0 => Held \subseteq {stop}
  /\ up /\ road > 0 /\ Held # {} => road < failures + StaleAfter
  /\ road > 0 /\ stands => age >= road

\* The samples a window holds.
Samples == qualifySamples + blockSamples + Block * lockBlocksSeen

\* Every one of them passed the gate since the last re-trim.
FreshInv ==
  /\ relocking => ~converged
  /\ ~converged => fresh >= Samples

\* The last iTOW, moved on by the epochs lost and the one due, is the receiver's
\* clock but for what it was off its grid.
ClockInv ==
  have =>
    /\ haveEpoch /\ gone = age
    /\ running =>
         \E off \in 0 .. (Period - 1) \div 2 :
           \/ lastTow + (gone + 1) * Period = tow + off
           \/ lastTow + (gone + 1) * Period = tow + Week + off

IInv == TypeOK /\ TimeInv /\ UpInv /\ FullInv /\ HeldInv /\ FreshInv /\ ClockInv
-----------------------------------------------------------------------------
(* Arithmetic.                                                             *)

LEMMA Constants ==
  /\ StaleAfter \in Nat /\ StaleAfter >= 1 /\ Silence \in Nat /\ Silence >= StaleAfter
  /\ Period \in Nat /\ Period >= 1 /\ Week \in Nat /\ MaxGap \in Nat /\ MaxGap < Week
  /\ Width \in Nat /\ Width >= 2
  /\ VarNeeded \in Nat /\ VarNeeded >= 1 /\ Qualify \in Nat /\ Qualify >= 1
  /\ Block \in Nat /\ Block >= 1 /\ LockBlocks \in Nat /\ LockBlocks >= 1
  /\ DownAfter \in Nat /\ DownAfter >= 1
  /\ MinMove \in Nat /\ MinMove >= 1 /\ MinMove + 1 >= StaleAfter + DownAfter
<1>1. /\ StaleAfter \in Nat /\ StaleAfter >= 1 /\ Silence \in Nat /\ Silence >= StaleAfter
      /\ Period \in Nat /\ Period >= 1 /\ Week \in Nat /\ MaxGap \in Nat
      /\ Width \in Nat /\ Width >= 2
  BY FeedAssumption
<1>2. MaxGap < Week
  BY FeedAssumption
<1>3. /\ VarNeeded \in Nat /\ VarNeeded >= 1 /\ Qualify \in Nat /\ Qualify >= 1
      /\ Block \in Nat /\ Block >= 1 /\ LockBlocks \in Nat /\ LockBlocks >= 1
      /\ DownAfter \in Nat /\ DownAfter >= 1
  BY TrimAssumption
<1>4. MinMove \in Nat /\ MinMove >= 1 /\ MinMove >= StaleAfter + DownAfter - 1
  BY MotionAssumption
<1>5. MinMove + 1 >= StaleAfter + DownAfter
  BY <1>1, <1>3, <1>4
<1> QED
  BY <1>1, <1>2, <1>3, <1>4, <1>5

LEMMA Product == ASSUME NEW a \in Nat, NEW b \in Nat PROVE a * b \in Nat
OBVIOUS

\* One more of a factor is one more of the other.
LEMMA OneMore == ASSUME NEW a \in Nat, NEW b \in Nat PROVE (a + 1) * b = a * b + b
OBVIOUS

LEMMA Ordered == ASSUME NEW a \in Nat, NEW b \in Nat, NEW c \in Nat, a <= b PROVE a * c <= b * c
OBVIOUS

\* No silence the device lives through is as long as the gap that is a step.
LEMMA Gaps ==
  ASSUME NEW n \in Nat, n <= Silence
  PROVE  n * Period \in Nat /\ n * Period + Period \div 2 <= MaxGap
<1>1. n * Period <= Silence * Period /\ n * Period \in Nat /\ Silence * Period \in Nat
  BY Constants, Ordered, Product
<1>2. Silence * Period + Period \div 2 <= MaxGap
  BY FeedAssumption
<1>3. Period \div 2 \in Int /\ MaxGap \in Int
  BY Constants
<1> QED
  BY <1>1, <1>2, <1>3

LEMMA Halves ==
  /\ Period \div 2 \in Nat /\ (Period - 1) \div 2 \in Nat
  /\ (Period - 1) \div 2 <= Period \div 2
  /\ Period \div 2 + (Period - 1) \div 2 = Period - 1
  /\ Period <= Week
<1>1. \A n \in Nat : n >= 1 =>
        /\ n \div 2 \in Nat /\ (n - 1) \div 2 \in Nat
        /\ (n - 1) \div 2 <= n \div 2 /\ n \div 2 + (n - 1) \div 2 = n - 1
  OBVIOUS
<1>2. Period \in Nat /\ Period >= 1
  BY Constants
<1>3. 1 * Period + Period \div 2 <= MaxGap
  BY Constants, Gaps
<1> QED
  BY <1>1, <1>2, <1>3, Constants

LEMMA Wrapped ==
  ASSUME NEW w \in Nat, NEW x \in 0 .. w - 1, NEW d \in 0 .. w
  PROVE  /\ x + d < w => (x + d) % w = x + d
         /\ x + d >= w => (x + d) % w = x + d - w
         /\ (x + d) % w \in 0 .. w - 1
<1>1. CASE x + d < w
  BY <1>1
<1>2. CASE x + d >= w
  BY <1>2
<1> QED
  BY <1>1, <1>2

\* A time of the week and what is at most a period later.
LEMMA InWeek ==
  ASSUME NEW x \in 0 .. Week - 1, NEW d \in 0 .. Period
  PROVE  /\ x + d < Week => (x + d) % Week = x + d
         /\ x + d >= Week => (x + d) % Week = x + d - Week
         /\ (x + d) % Week \in 0 .. Week - 1
<1>1. Week \in Nat /\ Period \in Nat /\ Period <= Week
  BY Constants, Halves
<1>2. d \in 0 .. Week
  BY <1>1
<1> QED
  BY <1>1, <1>2, Wrapped

LEMMA Multiple ==
  ASSUME NEW p \in Nat, p >= 1, NEW x \in Int
  PROVE  x % p = 0 <=> \E k \in Int : x = p * k
<1>1. ASSUME x % p = 0 PROVE \E k \in Int : x = p * k
  <2>1. x = p * (x \div p) + (x % p) /\ x \div p \in Int
    OBVIOUS
  <2> QED
    BY <1>1, <2>1
<1>2. ASSUME NEW k \in Int, x = p * k PROVE x % p = 0
  BY <1>2
<1> QED
  BY <1>1, <1>2

LEMMA GridOf ==
  ASSUME NEW p \in Nat, p >= 1, NEW w \in Nat, w % p = 0, NEW x \in Int, x % p = 0
  PROVE  (x + p) % p = 0 /\ (x + p - w) % p = 0
<1>1. PICK k \in Int, j \in Int : x = p * k /\ w = p * j
  <2>1. \E k \in Int : x = p * k
    BY Multiple
  <2>2. w \in Int
    OBVIOUS
  <2>3. \E j \in Int : w = p * j
    BY <2>2, Multiple
  <2> QED
    BY <2>1, <2>3
<1>2. p * (k + 1) = x + p /\ p * (k + 1 - j) = x + p - w
  BY <1>1
<1>3. k + 1 \in Int /\ k + 1 - j \in Int /\ x + p \in Int /\ x + p - w \in Int
  OBVIOUS
<1>4. (x + p) % p = 0
  BY <1>2, <1>3, Multiple
<1>5. (x + p - w) % p = 0
  BY <1>2, <1>3, Multiple
<1> QED
  BY <1>4, <1>5

\* The grid goes round with the week.
LEMMA Grid ==
  ASSUME NEW x \in 0 .. Week - 1, x % Period = 0
  PROVE  (x + Period) % Week \in 0 .. Week - 1 /\ ((x + Period) % Week) % Period = 0
<1>1. Week \in Nat /\ Period \in Nat /\ Period >= 1 /\ Week % Period = 0 /\ x \in Int
  BY Constants, FeedAssumption
<1>2. (x + Period) % Period = 0 /\ (x + Period - Week) % Period = 0
  BY <1>1, GridOf
<1>3. Period \in 0 .. Period
  BY <1>1
<1>4. (x + Period) % Week \in {x + Period, x + Period - Week}
  <2>1. x + Period < Week \/ x + Period >= Week
    BY <1>1
  <2> QED
    BY <1>3, <2>1, InWeek
<1>5. (x + Period) % Week \in 0 .. Week - 1
  BY <1>3, InWeek
<1> QED
  BY <1>2, <1>4, <1>5

-----------------------------------------------------------------------------
(* Types.                                                                  *)

LEMMA AddType == ASSUME NEW n \in Int, NEW k \in Int PROVE Add(n, k) \in 0 .. Width - 1
<1>1. Width \in Nat /\ Width >= 2
  BY Constants
<1>2. \A x \in Int, w \in Nat : w >= 2 => x % w \in 0 .. w - 1
  OBVIOUS
<1>3. n + k \in Int
  OBVIOUS
<1> QED
  BY <1>1, <1>2, <1>3 DEF Add

LEMMA SlotsType == ASSUME NEW dt \in Int PROVE Slots(dt) \in Int
<1>1. Period \in Nat /\ Period >= 1 /\ Period \div 2 \in Int
  BY Constants, Halves
<1>2. \A x \in Int, p \in Nat : p >= 1 => x \div p \in Int
  OBVIOUS
<1> QED
  BY <1>1, <1>2 DEF Slots

LEMMA SinceType ==
  ASSUME FeedTypeOK, NEW t \in 0 .. Week - 1
  PROVE  Since(t) \in 0 .. Week - 1
<1>1. Week \in Nat /\ lastTow \in 0 .. Week - 1
  BY Constants DEF FeedTypeOK
<1> QED
  BY <1>1 DEF Since

LEMMA TrackType ==
  ASSUME FeedTypeOK, NEW t \in 0 .. Week - 1, Track(t)
  PROVE  /\ have' = TRUE /\ lastTow' = t
         /\ missed' \in 0 .. Width - 1 /\ timeSteps' \in 0 .. Width - 1
<1>1. missed \in 0 .. Width - 1 /\ timeSteps \in 0 .. Width - 1 /\ missed \in Int /\ timeSteps \in Int
  BY Constants DEF FeedTypeOK
<1>2. Since(t) \in Int /\ Slots(Since(t)) \in Int
  BY SinceType, SlotsType, Constants
<1>3. Add(timeSteps, 1) \in 0 .. Width - 1
  BY <1>1, AddType
<1>4. Add(missed, Slots(Since(t)) - 1) \in 0 .. Width - 1
  <2>1. Slots(Since(t)) - 1 \in Int
    BY <1>2
  <2> QED
    BY <1>1, <2>1, AddType
<1> QED
  BY <1>1, <1>3, <1>4 DEF Track

\* The ways a tick's epoch can go.
LEMMA FeedType ==
  ASSUME FeedTypeOK, age < Silence, Epoch, age' \in 0 .. Silence
  PROVE  FeedTypeOK'
<1>0. Silence \in Nat /\ gone \in Nat /\ tow \in 0 .. Week - 1 /\ tow % Period = 0
  BY Constants DEF FeedTypeOK
<1>1. (tow + Period) % Week \in 0 .. Week - 1 /\ ((tow + Period) % Week) % Period = 0
  BY <1>0, Grid
<1>2. ASSUME NEW fix \in BOOLEAN, Arrives(fix, Stands) PROVE FeedTypeOK'
  <2>1. PICK off \in 0 .. (Period - 1) \div 2 : AddEpoch((tow + off) % Week, fix, Stands)
    BY <1>2 DEF Arrives
  <2>2. (tow + off) % Week \in 0 .. Week - 1
    <3>1. off \in 0 .. Period
      BY Halves, Constants
    <3> QED
      BY <1>0, <3>1, InWeek
  <2>3. Stands \in BOOLEAN
    BY DEF Stands
  <2>4. /\ have' = TRUE /\ lastTow' \in 0 .. Week - 1
        /\ missed' \in 0 .. Width - 1 /\ timeSteps' \in 0 .. Width - 1
    BY <2>1, <2>2, TrackType DEF AddEpoch
  <2>5. tow' = (tow + Period) % Week /\ gone' = 0 /\ fixOk' = fix /\ stands' = Stands /\ haveEpoch' = TRUE
    BY <1>2, <2>1 DEF Arrives, NextTow, AddEpoch
  <2> QED
    BY <1>1, <2>3, <2>4, <2>5 DEF FeedTypeOK
<1>3. ASSUME NEW t \in 0 .. Week - 1, Steps(t, TRUE, Stands) PROVE FeedTypeOK'
  <2>1. AddEpoch(t, TRUE, Stands) /\ tow' = (t + Period) % Week /\ gone' = 0 /\ t % Period = 0
    BY <1>3 DEF Steps
  <2>2. Stands \in BOOLEAN
    BY DEF Stands
  <2>3. /\ have' = TRUE /\ lastTow' \in 0 .. Week - 1
        /\ missed' \in 0 .. Width - 1 /\ timeSteps' \in 0 .. Width - 1
    BY <2>1, TrackType DEF AddEpoch
  <2>4. tow' \in 0 .. Week - 1 /\ tow' % Period = 0
    BY <2>1, Grid
  <2> QED
    BY <2>1, <2>2, <2>3, <2>4 DEF FeedTypeOK, AddEpoch
<1>4. CASE IsLost
  <2>1. tow' = (tow + Period) % Week /\ gone' \in Nat
    BY <1>0, <1>4 DEF IsLost, NextTow
  <2> QED
    BY <1>1, <1>4, <2>1 DEF IsLost, NoEpoch, FeedTypeOK
<1> QED
  BY <1>2, <1>3, <1>4 DEF Epoch

LEMMA AgeStep == ASSUME TypeOK, TimeInv, running, Epoch PROVE age' \in 0 .. Silence
<1>1. Silence \in Nat /\ age \in 0 .. Silence /\ age < Silence
  BY Constants DEF TypeOK, FeedTypeOK, TimeInv
<1> QED
  BY <1>1 DEF Epoch, Arrives, Steps, AddEpoch, IsLost, NoEpoch

LEMMA FeedStep == TypeOK /\ TimeInv /\ [Next]_vars => FeedTypeOK'
<1> SUFFICES ASSUME TypeOK, TimeInv, [Next]_vars PROVE FeedTypeOK'
  OBVIOUS
<1>0. FeedTypeOK
  BY DEF TypeOK
<1>1. CASE Tick \/ NeverStarted
  BY <1>0, <1>1, FeedType, AgeStep DEF Tick, NeverStarted, TimeInv
<1>2. CASE (Restarts \/ Reset) /\ tow' \in 0 .. Week - 1 /\ tow' % Period = 0
  <2>1. FeedAnew /\ gone' = 0
    BY <1>2 DEF Restarts, Reset, Anew
  <2>2. 0 \in 0 .. Silence /\ 0 \in 0 .. Week - 1 /\ 0 \in 0 .. Width - 1
    BY Constants, Halves
  <2> QED
    BY <1>2, <2>1, <2>2 DEF FeedAnew, FeedTypeOK
<1>3. CASE Restarts
  <2>1. tow \in 0 .. Week - 1 /\ tow % Period = 0 /\ tow' = (tow + Period) % Week
    BY <1>0, <1>3 DEF Restarts, NextTow, FeedTypeOK
  <2> QED
    BY <1>2, <1>3, <2>1, Grid
<1>4. CASE Reset
  BY <1>0, <1>2, <1>4 DEF Reset, FeedTypeOK
<1>5. CASE Clear
  <2>1. 0 \in 0 .. Week - 1 /\ 0 \in 0 .. Width - 1
    BY Constants, Halves
  <2> QED
    BY <1>0, <1>5, <2>1 DEF Clear, ClearStats, FeedTypeOK
<1>6. CASE Redo \/ UNCHANGED vars
  BY <1>0, <1>6 DEF Redo, vars, feed, sender, FeedTypeOK
<1> QED
  BY <1>1, <1>3, <1>4, <1>5, <1>6 DEF Next

LEMMA WorldStep ==
  TypeOK /\ [Next]_vars => stop' \in Stop /\ road' \in 0 .. MinMove /\ running' \in BOOLEAN
<1> SUFFICES ASSUME TypeOK, [Next]_vars
             PROVE  stop' \in Stop /\ road' \in 0 .. MinMove /\ running' \in BOOLEAN
  OBVIOUS
<1>0. MinMove \in Nat /\ MinMove >= 1 /\ stop \in Stop /\ road \in 0 .. MinMove /\ running \in BOOLEAN
  BY Constants DEF TypeOK
<1>1. Travel \/ UNCHANGED world
  BY DEF Next, Tick, NeverStarted, Restarts, Reset, Clear, Redo, vars
<1>2. stop' \in Stop /\ road' \in 0 .. MinMove
  BY <1>0, <1>1 DEF Travel, world
<1>3. running' \in {running, TRUE, FALSE}
  BY DEF Next, Tick, NeverStarted, Restarts, Reset, Anew, Clear, Redo, vars
<1> QED
  BY <1>0, <1>2, <1>3
-----------------------------------------------------------------------------
(* The trim.                                                               *)

LEMMA Blocks ==
  ASSUME NEW b \in Nat, NEW s \in Nat, NEW n \in Nat
  PROVE  /\ b * s \in Nat /\ b * (s + 1) = b * s + b
         /\ s < n => b * s + b <= b * n
<1>1. b * s \in Nat /\ b * n \in Nat /\ b * (s + 1) = b * s + b
  OBVIOUS
<1>2. ASSUME s < n PROVE b * (s + 1) <= b * n
  BY <1>2
<1> QED
  BY <1>1, <1>2

LEMMA WindowType ==
  ASSUME TrimTypeOK
  PROVE  /\ qualifySamples \in Nat /\ blockSamples \in Nat /\ lockBlocksSeen \in Nat
         /\ Block * lockBlocksSeen \in Nat /\ Block * LockBlocks \in Nat
         /\ FullWindow \in Nat /\ Samples \in Nat /\ fresh \in Nat /\ failures \in Nat
<1>1. /\ qualifySamples \in Nat /\ blockSamples \in Nat /\ lockBlocksSeen \in Nat
      /\ failures \in Nat
  BY Constants DEF TrimTypeOK
<1>2. Block * lockBlocksSeen \in Nat /\ Block * LockBlocks \in Nat
  BY <1>1, Constants, Blocks
<1>3. FullWindow \in Nat
  BY <1>2, Constants DEF FullWindow
<1>4. Samples \in Nat
  BY <1>1, <1>2 DEF Samples
<1>5. fresh \in Nat
  BY <1>3 DEF TrimTypeOK
<1> QED
  BY <1>1, <1>2, <1>3, <1>4, <1>5

\* A sample that passes the gate adds one, and what it was measured at, to the window.
LEMMA AccumulateStep ==
  ASSUME TrimTypeOK, lockBlocksSeen = LockBlocks => converged,
         NEW stops, IsFiniteSet(stops), NEW tilted \in BOOLEAN, Accumulate(stops, tilted)
  PROVE  /\ qualifySamples' \in 0 .. Qualify /\ blockSamples' \in 0 .. Block - 1
         /\ lockBlocksSeen' \in 0 .. LockBlocks /\ converged' \in BOOLEAN
         /\ IsFiniteSet(blockStops') /\ IsFiniteSet(lockStops')
         /\ lockBlocksSeen' = LockBlocks => converged'
         /\ converged => converged'
         /\ Held' \subseteq Held \cup stops
         /\ ~converged' => Samples' <= Samples + 1 /\ Samples' <= FullWindow
         /\ ~converged /\ converged' => Samples = FullWindow - 1
<1> USE Constants
<1>0. /\ qualifySamples \in 0 .. Qualify /\ blockSamples \in 0 .. Block - 1
      /\ lockBlocksSeen \in 0 .. LockBlocks /\ converged \in BOOLEAN
      /\ IsFiniteSet(blockStops) /\ IsFiniteSet(lockStops)
      /\ ~converged => lockBlocksSeen < LockBlocks
  BY DEF TrimTypeOK
<1>1. /\ Block * lockBlocksSeen \in Nat /\ Block * LockBlocks \in Nat
      /\ Block * (lockBlocksSeen + 1) = Block * lockBlocksSeen + Block
      /\ ~converged => Block * lockBlocksSeen + Block <= Block * LockBlocks
      /\ Block * 0 = 0
  <2>1. lockBlocksSeen \in Nat
    BY <1>0
  <2> QED
    BY <1>0, <2>1, Blocks
<1>2. IsFiniteSet(blockStops \cup stops) /\ IsFiniteSet(lockStops \cup (blockStops \cup stops))
  BY <1>0, FS_Union
<1>3. CASE qualifySamples < Qualify
  <2>1. /\ qualifySamples' = qualifySamples + 1
        /\ UNCHANGED <<blockSamples, blockStops, lockBlocksSeen, lockStops, converged>>
    BY <1>3 DEF Accumulate
  <2>2. Samples' = Samples + 1
    BY <1>0, <1>1, <2>1 DEF Samples
  <2>3. ~converged' => Samples' <= FullWindow
    BY <1>0, <1>1, <1>3, <2>1, <2>2 DEF Samples, FullWindow
  <2>4. Samples \in Int
    BY <1>0, <1>1 DEF Samples
  <2> QED
    BY <1>0, <1>3, <2>1, <2>2, <2>3, <2>4 DEF Held
<1>4. CASE ~(qualifySamples < Qualify) /\ blockSamples + 1 < Block
  <2>1. /\ blockSamples' = blockSamples + 1 /\ blockStops' = blockStops \cup stops
        /\ UNCHANGED <<qualifySamples, lockBlocksSeen, lockStops, converged>>
    BY <1>4 DEF Accumulate
  <2>2. Samples' = Samples + 1
    BY <1>0, <1>1, <2>1 DEF Samples
  <2>3. ~converged' => Samples' <= FullWindow
    BY <1>0, <1>1, <1>4, <2>1, <2>2 DEF Samples, FullWindow
  <2>4. Samples \in Int
    BY <1>0, <1>1 DEF Samples
  <2> QED
    BY <1>0, <1>2, <1>4, <2>1, <2>2, <2>3, <2>4 DEF Held
<1>5. CASE ~(qualifySamples < Qualify) /\ ~(blockSamples + 1 < Block)
  <2>1. /\ UNCHANGED qualifySamples /\ blockSamples' = 0 /\ blockStops' = {}
        /\ ConsumeBlock(blockStops \cup stops, tilted)
    BY <1>5 DEF Accumulate
  <2>2. qualifySamples = Qualify /\ blockSamples = Block - 1
    BY <1>0, <1>5
  <2>3. CASE converged
    <3>1. UNCHANGED <<qualifySamples, lockBlocksSeen, lockStops, converged>>
      BY <2>1, <2>3 DEF ConsumeBlock
    <3>2. blockSamples' \in 0 .. Block - 1 /\ IsFiniteSet(blockStops') /\ Held' \subseteq Held
      BY <2>1, <3>1, FS_EmptySet DEF Held
    <3>3. converged'
      BY <2>3, <3>1
    <3> QED
      BY <1>0, <2>3, <3>1, <3>2, <3>3
  <2>4. CASE ~converged /\ tilted /\ lockBlocksSeen + 1 = LockBlocks
    <3>1. lockBlocksSeen' = 0 /\ lockStops' = {} /\ UNCHANGED converged
      BY <2>1, <2>4 DEF ConsumeBlock
    <3>2. Samples' = Qualify
      BY <1>1, <2>1, <2>2, <3>1 DEF Samples
    <3>3. Qualify <= Samples /\ Qualify <= FullWindow /\ Samples \in Int
      BY <1>0, <1>1, <2>2 DEF Samples, FullWindow
    <3>4. Held' = {} /\ IsFiniteSet({})
      BY <2>1, <3>1, FS_EmptySet DEF Held
    <3> QED
      BY <1>0, <2>1, <2>4, <3>1, <3>2, <3>3, <3>4
  <2>5. CASE ~converged /\ ~(tilted /\ lockBlocksSeen + 1 = LockBlocks)
    <3>1. /\ lockBlocksSeen' = lockBlocksSeen + 1
          /\ lockStops' = lockStops \cup (blockStops \cup stops)
          /\ converged' = (lockBlocksSeen' = LockBlocks)
      BY <2>1, <2>5 DEF ConsumeBlock
    <3>2. Samples' = Samples + 1 /\ Samples \in Int
      BY <1>0, <1>1, <2>1, <2>2, <3>1 DEF Samples
    <3>3. Samples + 1 <= FullWindow
      BY <1>0, <1>1, <2>2, <2>5 DEF Samples, FullWindow
    <3>4. ASSUME converged' PROVE Samples = FullWindow - 1
      <4>1. lockBlocksSeen + 1 = LockBlocks
        BY <3>1, <3>4, Zenon
      <4>2. Block * LockBlocks = Block * lockBlocksSeen + Block
        BY <1>1, <4>1
      <4> QED
        BY <1>0, <1>1, <2>2, <4>2 DEF Samples, FullWindow
    <3>5. lockBlocksSeen' \in 0 .. LockBlocks
      <4>1. lockBlocksSeen < LockBlocks
        BY <1>0, <2>5
      <4>2. lockBlocksSeen' = lockBlocksSeen + 1
        BY <2>1, <2>5 DEF ConsumeBlock
      <4> QED
        BY <1>0, <4>1, <4>2
    <3>9. converged' \in BOOLEAN /\ (lockBlocksSeen' = LockBlocks => converged')
      BY <3>1, Zenon
    <3>6. IsFiniteSet(blockStops') /\ IsFiniteSet(lockStops')
      BY <1>2, <2>1, <3>1, FS_EmptySet
    <3>7. Held' \subseteq Held \cup stops
      BY <2>1, <3>1 DEF Held
    <3>8. qualifySamples' \in 0 .. Qualify /\ blockSamples' \in 0 .. Block - 1
      BY <1>0, <2>1
    <3> QED
      BY <2>5, <3>2, <3>3, <3>4, <3>5, <3>6, <3>7, <3>8, <3>9
  <2> QED
    BY <2>3, <2>4, <2>5
<1> QED
  BY <1>3, <1>4, <1>5

LEMMA NoWindow ==
  ASSUME ResetWindow
  PROVE  /\ qualifySamples' \in 0 .. Qualify /\ blockSamples' \in 0 .. Block - 1
         /\ lockBlocksSeen' \in 0 .. LockBlocks /\ lockBlocksSeen' # LockBlocks
         /\ IsFiniteSet(blockStops') /\ IsFiniteSet(lockStops')
         /\ Samples' = 0 /\ Held' = {}
<1>1. Block * 0 = 0
  BY Constants
<1>2. IsFiniteSet({}) /\ {} \cup {} = {}
  BY FS_EmptySet
<1> QED
  BY <1>1, <1>2, Constants DEF ResetWindow, Samples, Held

\* A reading either empties the window or adds its sample, with a speed said valid of
\* a standing vehicle; and a lock takes a full window.
LEMMA ReadStep ==
  ASSUME TrimTypeOK, FullInv, FreshInv, NEW speedValid, NEW st, NEW quiet,
         NEW stops, IsFiniteSet(stops), NEW tilted \in BOOLEAN,
         ReadOk(speedValid, st, quiet, stops, tilted)
  PROVE  /\ TrimTypeOK' /\ UpInv' /\ FullInv' /\ FreshInv'
         /\ up /\ up' /\ failures' = 0
         /\ Held' = {} \/ (speedValid /\ st /\ Held' \subseteq Held \cup stops)
         /\ relocking /\ converged' => fresh >= FullWindow - 1
<1>0. /\ fresh \in Nat /\ FullWindow \in Nat /\ Samples \in Nat /\ varSamples \in 0 .. VarNeeded
      /\ fresh \in 0 .. FullWindow /\ converged \in BOOLEAN /\ relocking \in BOOLEAN
  BY WindowType DEF TrimTypeOK
<1>1. /\ up /\ up' = up /\ failures' = 0 /\ failures' \in 0 .. DownAfter /\ failures' < DownAfter
      /\ relocking' = (relocking /\ ~converged')
  BY Constants DEF ReadOk
<1>2. varSamples' \in 0 .. VarNeeded
  BY <1>0, Constants DEF ReadOk, Update, Settle
<1>3. UpInv' /\ (relocking' => ~converged') /\ relocking' \in BOOLEAN /\ up' \in BOOLEAN
  BY <1>1 DEF UpInv, TrimTypeOK
<1>4. CASE GatePasses(speedValid, st, quiet)
  <2>1. /\ Accumulate(stops, tilted) /\ speedValid /\ st
        /\ fresh' = IF converged' THEN 0 ELSE IF fresh < FullWindow THEN fresh + 1 ELSE fresh
    BY <1>4 DEF ReadOk, Update, GatePasses
  <2>2. /\ qualifySamples' \in 0 .. Qualify /\ blockSamples' \in 0 .. Block - 1
        /\ lockBlocksSeen' \in 0 .. LockBlocks /\ converged' \in BOOLEAN
        /\ IsFiniteSet(blockStops') /\ IsFiniteSet(lockStops')
        /\ lockBlocksSeen' = LockBlocks => converged'
        /\ converged => converged'
        /\ Held' \subseteq Held \cup stops
        /\ ~converged' => Samples' <= Samples + 1 /\ Samples' <= FullWindow
        /\ ~converged /\ converged' => Samples = FullWindow - 1
    BY <2>1, AccumulateStep DEF FullInv
  <2>3. fresh' \in 0 .. FullWindow
    BY <1>0, <2>1
  <2>4. TrimTypeOK'
    <3>1. FullWindow' = FullWindow
      BY DEF FullWindow
    <3> QED
      BY <1>1, <1>2, <1>3, <2>2, <2>3, <3>1 DEF TrimTypeOK
  <2>5. Samples' \in Nat
    <3>1. /\ qualifySamples' \in Nat /\ blockSamples' \in Nat /\ lockBlocksSeen' \in Nat
          /\ Block \in Nat
      BY <2>2, Constants
    <3>2. Block * lockBlocksSeen' \in Nat
      BY <3>1, Product
    <3>3. \A a, b, c \in Nat : a + b + c \in Nat
      OBVIOUS
    <3> QED
      BY <3>1, <3>2, <3>3 DEF Samples
  <2>6. ASSUME ~converged' PROVE fresh' >= Samples'
    <3>1. ~converged /\ fresh >= Samples /\ Samples' <= Samples + 1 /\ Samples' <= FullWindow
      BY <2>2, <2>6 DEF FreshInv
    <3>2. fresh' = IF fresh < FullWindow THEN fresh + 1 ELSE fresh
      BY <2>1, <2>6
    <3> QED
      BY <1>0, <2>5, <3>1, <3>2
  <2>7. ASSUME relocking, converged' PROVE fresh >= FullWindow - 1
    <3>1. fresh >= Samples /\ Samples = FullWindow - 1
      BY <2>2, <2>7 DEF FreshInv
    <3> QED
      BY <1>0, <3>1
  <2>8. FullInv' /\ FreshInv'
    BY <1>3, <2>2, <2>6 DEF FullInv, FreshInv
  <2> QED
    BY <1>1, <1>3, <2>1, <2>2, <2>4, <2>7, <2>8
<1>5. CASE ~GatePasses(speedValid, st, quiet)
  <2>1. ResetWindow /\ UNCHANGED converged /\ fresh' = 0
    BY <1>5 DEF ReadOk, Update
  <2>2. TrimTypeOK'
    <3>1. fresh' \in 0 .. FullWindow' /\ converged' \in BOOLEAN
      BY <1>0, <2>1 DEF FullWindow
    <3> QED
      BY <1>1, <1>2, <1>3, <2>1, <3>1, NoWindow DEF TrimTypeOK
  <2>3. FullInv' /\ FreshInv'
    <3>1. Samples' = 0 /\ lockBlocksSeen' # LockBlocks
      BY <2>1, NoWindow
    <3> QED
      BY <1>3, <2>1, <3>1 DEF FullInv, FreshInv
  <2>4. ~(relocking /\ converged')
    BY <2>1 DEF FreshInv
  <2>5. Held' = {}
    BY <2>1, NoWindow
  <2> QED
    BY <1>1, <1>3, <2>2, <2>3, <2>4, <2>5
<1> QED
  BY <1>4, <1>5

\* The attitude of one reading, and what the other steps do to the trim.
LEMMA AttitudeType == IsFiniteSet(Attitude)
BY FS_EmptySet, FS_Singleton DEF Attitude

LEMMA StillStep ==
  ASSUME TrimTypeOK, UpInv, FullInv, FreshInv, ReadFails \/ NoImu
  PROVE  TrimTypeOK' /\ UpInv' /\ FullInv' /\ FreshInv'
<1>1. /\ UNCHANGED <<varSamples, qualifySamples, blockSamples, blockStops, lockBlocksSeen>>
      /\ UNCHANGED <<lockStops, converged, relocking, fresh>>
  BY DEF ReadFails, NoImu, device, trim, window
<1>2. failures' \in 0 .. DownAfter /\ up' \in BOOLEAN /\ (up' => failures' < DownAfter)
  <2>1. CASE ReadFails
    <3>1. up /\ failures' = failures + 1 /\ up' = (failures' < DownAfter)
      BY <2>1 DEF ReadFails
    <3>2. failures \in 0 .. DownAfter /\ failures < DownAfter
      BY <3>1 DEF UpInv, TrimTypeOK
    <3>3. failures' \in 0 .. DownAfter
      BY <3>1, <3>2, Constants
    <3>4. up' \in BOOLEAN /\ (up' => failures' < DownAfter)
      <4>1. (failures' < DownAfter) \in BOOLEAN
        BY <3>3, Constants
      <4> QED
        BY <3>1, <4>1, Zenon
    <3> QED
      BY <3>3, <3>4
  <2>2. CASE NoImu
    BY <2>2 DEF NoImu, device, UpInv, TrimTypeOK
  <2> QED
    BY <2>1, <2>2
<1>3. Samples' = Samples /\ FullWindow' = FullWindow
  BY <1>1 DEF Samples, FullWindow
<1> QED
  BY <1>1, <1>2, <1>3 DEF TrimTypeOK, UpInv, FullInv, FreshInv

LEMMA SampleStep ==
  ASSUME TrimTypeOK, UpInv, FullInv, FreshInv, Sample
  PROVE  TrimTypeOK' /\ UpInv' /\ FullInv' /\ FreshInv'
<1>1. CASE ReadFails \/ NoImu
  BY <1>1, StillStep
<1>2. CASE \E quiet, tilted \in BOOLEAN :
             ReadOk(SpeedValid(age'), stands', quiet, Attitude, tilted)
  BY <1>2, AttitudeType, ReadStep
<1> QED
  BY <1>1, <1>2 DEF Sample

LEMMA TrimStep ==
  TypeOK /\ UpInv /\ FullInv /\ FreshInv /\ [Next]_vars
    => TrimTypeOK' /\ UpInv' /\ FullInv' /\ FreshInv'
<1> SUFFICES ASSUME TypeOK, UpInv, FullInv, FreshInv, [Next]_vars
             PROVE  TrimTypeOK' /\ UpInv' /\ FullInv' /\ FreshInv'
  OBVIOUS
<1>0. TrimTypeOK
  BY DEF TypeOK
<1>1. CASE Tick
  BY <1>0, <1>1, SampleStep DEF Tick
<1>2. CASE NeverStarted
  <2>1. /\ UNCHANGED <<failures, varSamples, qualifySamples, blockSamples, blockStops>>
        /\ UNCHANGED <<lockBlocksSeen, lockStops, converged, relocking, fresh>> /\ up' = FALSE
    BY <1>2 DEF NeverStarted, trim, window
  <2>2. Samples' = Samples /\ FullWindow' = FullWindow
    BY <2>1 DEF Samples, FullWindow
  <2> QED
    BY <1>0, <2>1, <2>2 DEF TrimTypeOK, UpInv, FullInv, FreshInv
<1>3. CASE Restarts \/ Reset
  <2>1. TrimAnew
    BY <1>3 DEF Restarts, Reset, Anew
  <2>2. ResetWindow /\ 0 \in 0 .. DownAfter /\ 0 < DownAfter /\ 0 \in 0 .. VarNeeded
    BY <2>1, Constants DEF TrimAnew, ResetWindow
  <2>3. FullWindow' = FullWindow /\ 0 \in 0 .. FullWindow
    BY <1>0, WindowType DEF FullWindow
  <2>4. Samples' = 0
    BY <2>2, NoWindow
  <2>5. TrimTypeOK'
    BY <2>1, <2>2, <2>3, NoWindow DEF TrimAnew, TrimTypeOK
  <2> QED
    BY <2>1, <2>2, <2>4, <2>5, NoWindow DEF TrimAnew, UpInv, FullInv, FreshInv
<1>4. CASE Redo
  <2>1. /\ up /\ converged' = FALSE /\ relocking' = TRUE /\ fresh' = 0 /\ ResetWindow
        /\ UNCHANGED <<up, failures, varSamples>>
    BY <1>4 DEF Redo, Retrim
  <2>2. FullWindow' = FullWindow /\ 0 \in 0 .. FullWindow
    BY <1>0, WindowType DEF FullWindow
  <2>3. TrimTypeOK'
    BY <1>0, <2>1, <2>2, NoWindow DEF TrimTypeOK
  <2>4. Samples' = 0
    BY <2>1, NoWindow
  <2> QED
    BY <2>1, <2>3, <2>4, NoWindow DEF UpInv, FullInv, FreshInv
<1>5. CASE Clear \/ UNCHANGED vars
  <2>1. UNCHANGED device
    BY <1>5 DEF Clear, vars
  <2>2. Samples' = Samples /\ FullWindow' = FullWindow
    BY <2>1 DEF device, trim, window, Samples, FullWindow
  <2> QED
    BY <1>0, <2>1, <2>2 DEF device, trim, window, TrimTypeOK, UpInv, FullInv, FreshInv
<1> QED
  BY <1>1, <1>2, <1>3, <1>4, <1>5 DEF Next

LEMMA TypeStep == TypeOK /\ TimeInv /\ UpInv /\ FullInv /\ FreshInv /\ [Next]_vars => TypeOK'
BY FeedStep, TrimStep, WorldStep DEF TypeOK

LEMMA TimeStep == TypeOK /\ TimeInv /\ [Next]_vars => TimeInv'
<1> SUFFICES ASSUME TypeOK, TimeInv, [Next]_vars PROVE TimeInv'
  OBVIOUS
<1>1. CASE Tick
  <2>1. age' \in 0 .. Silence
    BY <1>1, AgeStep DEF Tick
  <2>2. age' < Silence
    BY <1>1 DEF Tick, Liveness
  <2> QED
    BY <2>2 DEF TimeInv
<1>2. CASE NeverStarted
  BY <1>2 DEF NeverStarted, TimeInv
<1>3. CASE Restarts \/ Reset
  <2>1. age' = 0 /\ 0 < Silence
    BY <1>3, Constants DEF Restarts, Reset, Anew, FeedAnew
  <2> QED
    BY <2>1 DEF TimeInv
<1>4. CASE Clear \/ Redo \/ UNCHANGED vars
  BY <1>4 DEF Clear, ClearStats, Redo, vars, feed, TimeInv
<1> QED
  BY <1>1, <1>2, <1>3, <1>4 DEF Next
-----------------------------------------------------------------------------
(* From one stop.                                                          *)

\* An epoch of a moving vehicle says so, and only a lost one leaves the last.
LEMMA RoadAge ==
  ASSUME TypeOK, HeldInv, Travel, Epoch
  PROVE  road' > 0 /\ stands' => age' >= road'
<1>0. road \in Nat /\ age \in Nat /\ MinMove \in Nat
  BY Constants DEF TypeOK, FeedTypeOK
<1>1. CASE IsLost
  <2>1. age' = age + 1 /\ stands' = stands
    BY <1>1 DEF IsLost, NoEpoch
  <2>2. CASE road = 0
    BY <1>0, <2>1, <2>2 DEF Travel, world
  <2>3. CASE road > 0
    <3>1. stands => age >= road
      BY <2>3 DEF HeldInv
    <3>2. road' <= road + 1
      BY <1>0, <2>3 DEF Travel, world
    <3>3. road' \in Nat
      BY <1>0, <2>3 DEF Travel, world
    <3> QED
      BY <1>0, <2>1, <3>1, <3>2, <3>3
  <2> QED
    BY <1>0, <2>2, <2>3
<1>2. CASE stands' = Stands
  <2>1. Stands => ~(road' > 0)
    BY DEF Stands
  <2>2. stands' => Stands
    BY <1>2, Zenon
  <2> QED
    BY <2>1, <2>2
<1> QED
  BY <1>1, <1>2 DEF Epoch, Arrives, Steps, AddEpoch

\* Whoever gets to the next stop has dropped what was held of the last.
LEMMA Arrived ==
  ASSUME TypeOK, UpInv, HeldInv, up, road = MinMove
  PROVE  Held = {}
<1>1. failures < DownAfter /\ failures \in Nat /\ road > 0 /\ road \in Nat
  BY Constants DEF UpInv, TypeOK, TrimTypeOK
<1>2. ~(road < failures + StaleAfter)
  BY <1>1, Constants
<1> QED
  BY <1>1, <1>2 DEF HeldInv

LEMMA HeldStep ==
  TypeOK /\ TimeInv /\ UpInv /\ FullInv /\ FreshInv /\ HeldInv /\ [Next]_vars => HeldInv'
<1> SUFFICES ASSUME TypeOK, TimeInv, UpInv, FullInv, FreshInv, HeldInv, [Next]_vars
             PROVE  HeldInv'
  OBVIOUS
<1>0. /\ road \in Nat /\ MinMove \in Nat /\ MinMove >= 1 /\ failures \in Nat
      /\ StaleAfter \in Nat /\ StaleAfter >= 1
  BY Constants DEF TypeOK, TrimTypeOK
<1>1. CASE Tick
  <2>0. Travel /\ Epoch /\ Sample
    BY <1>1 DEF Tick
  <2>1. /\ road' > 0 /\ stands' => age' >= road'
        /\ road' \in Nat /\ road' <= road + 1
    <3>1. road' \in Nat /\ road' <= road + 1
      BY <1>0, <2>0 DEF Travel, world
    <3> QED
      BY <2>0, <3>1, RoadAge
  <2>2. up /\ road' = 0 => Held \subseteq {stop'}
    <3>1. CASE road = 0
      BY <2>0, <3>1 DEF Travel, world, HeldInv
    <3>2. CASE road # 0
      <4>1. road' = 0 => road = MinMove
        BY <1>0, <2>0, <3>2 DEF Travel, world
      <4> QED
        BY <4>1, Arrived
    <3> QED
      BY <3>1, <3>2
  <2>3. CASE ReadFails
    <3>1. up /\ Held' = Held /\ failures' = failures + 1
      BY <2>3 DEF ReadFails, trim, window, Held
    <3>2. road' > 0 /\ Held' # {} => road' < failures' + StaleAfter
      <4>1. CASE road = 0
        BY <1>0, <2>1, <3>1, <4>1
      <4>2. CASE road > 0
        BY <1>0, <2>1, <3>1, <4>2 DEF HeldInv
      <4> QED
        BY <1>0, <4>1, <4>2
    <3> QED
      BY <2>1, <2>2, <3>1, <3>2 DEF HeldInv
  <2>4. CASE NoImu
    <3>1. ~up' /\ Held' = Held
      BY <2>4 DEF NoImu, device, trim, window, Held
    <3> QED
      BY <2>1, <3>1 DEF HeldInv
  <2>5. ASSUME NEW quiet \in BOOLEAN, NEW tilted \in BOOLEAN,
               ReadOk(SpeedValid(age'), stands', quiet, Attitude, tilted)
        PROVE  HeldInv'
    <3>1. /\ up /\ failures' = 0
          /\ Held' = {} \/ (SpeedValid(age') /\ stands' /\ Held' \subseteq Held \cup Attitude)
      BY <2>5, AttitudeType, ReadStep DEF TypeOK
    <3>2. CASE Held' = {}
      BY <2>1, <3>2 DEF HeldInv
    <3>3. CASE Held' # {} /\ road' = 0
      <4>1. Held' \subseteq {stop'}
        BY <2>2, <3>1, <3>3 DEF Attitude, Stands
      <4> QED
        BY <2>1, <3>3, <4>1 DEF HeldInv
    <3>4. CASE Held' # {} /\ road' # 0
      <4>1. Held' \subseteq Held
        BY <3>1, <3>4 DEF Attitude, Stands
      <4>2. age' < StaleAfter /\ stands'
        BY <3>1, <3>4 DEF SpeedValid
      <4>3. age' \in Nat
        BY <1>1, AgeStep, Constants DEF Tick
      <4>4. road' < failures' + StaleAfter
        BY <1>0, <2>1, <3>1, <3>4, <4>2, <4>3
      <4> QED
        BY <2>1, <3>4, <4>1, <4>4 DEF HeldInv
    <3> QED
      BY <3>2, <3>3, <3>4
  <2> QED
    BY <2>0, <2>3, <2>4, <2>5 DEF Sample
<1>2. CASE NeverStarted
  <2>1. ~up' /\ Held' = Held
    BY <1>2 DEF NeverStarted, trim, window, Held
  <2>2. road' > 0 /\ stands' => age' >= road'
    BY <1>2, RoadAge DEF NeverStarted
  <2> QED
    BY <2>1, <2>2 DEF HeldInv
<1>3. CASE Restarts \/ Reset
  <2>1. Held' = {} /\ stands' = FALSE
    BY <1>3 DEF Restarts, Reset, Anew, FeedAnew, TrimAnew, Held
  <2> QED
    BY <2>1 DEF HeldInv
<1>4. CASE Clear \/ UNCHANGED vars
  <2>1. UNCHANGED <<Held, up, road, stop, failures, stands, age>>
    BY <1>4 DEF Clear, ClearStats, vars, feed, world, device, trim, window, Held
  <2> QED
    BY <2>1 DEF HeldInv
<1>5. CASE Redo
  <2>1. Held' = {} /\ UNCHANGED <<road, stands, age>>
    BY <1>5 DEF Redo, Retrim, ResetWindow, feed, world, Held
  <2> QED
    BY <2>1 DEF HeldInv
<1> QED
  BY <1>1, <1>2, <1>3, <1>4, <1>5 DEF Next
-----------------------------------------------------------------------------
(* The epochs missed.                                                      *)

LEMMA Divided ==
  ASSUME NEW p \in Nat, p >= 1, NEW n \in Nat, NEW r \in 0 .. p - 1, NEW x \in Int, x = n * p + r
  PROVE  x \div p = n
<1>1. PICK q \in Int : q = x \div p
  OBVIOUS
<1>2. PICK s \in 0 .. p - 1 : x = p * q + s
  BY <1>1
<1>3. p * (q - n) = r - s
  BY <1>2
<1>4. ~(q - n >= 1) /\ ~(q - n <= -1)
  <2>1. ASSUME q - n >= 1 PROVE FALSE
    <3>1. p * (q - n) >= p
      BY <2>1
    <3> QED
      BY <1>3, <3>1
  <2>2. ASSUME q - n <= -1 PROVE FALSE
    <3>1. p * (q - n) <= -p
      BY <2>2
    <3> QED
      BY <1>3, <3>1
  <2> QED
    BY <2>1, <2>2
<1> QED
  BY <1>1, <1>4

\* How far the iTOW of the epoch due is from the last one, n epochs before.
LEMMA Distance ==
  ASSUME NEW x \in 0 .. Week - 1, NEW y \in 0 .. Week - 1, NEW n \in Nat, n >= 1, n <= Silence,
         NEW o \in 0 .. (Period - 1) \div 2, NEW off \in 0 .. (Period - 1) \div 2,
         x + n * Period = y + o \/ x + n * Period = y + Week + o,
         NEW t \in Int, t = (y + off) % Week,
         NEW d \in Int, d = IF t >= x THEN t - x ELSE t + Week - x
  PROVE  d = n * Period + off - o /\ d <= MaxGap /\ Slots(d) = n
<1>1. PICK g \in Nat : g = n * Period
  BY Product, Constants
<1>2. PICK h \in Nat, k \in Nat : h = (Period - 1) \div 2 /\ k = Period \div 2
  BY Halves
<1>3. /\ g >= Period /\ g + k <= MaxGap /\ MaxGap < Week /\ h <= k /\ h + k = Period - 1
      /\ Period \in Nat /\ Period >= 1 /\ Week \in Nat /\ MaxGap \in Nat
      /\ o \in 0 .. h /\ off \in 0 .. h
  <2>1. g >= Period
    BY <1>1, Constants, Ordered
  <2> QED
    BY <1>1, <1>2, <2>1, Gaps, Halves, Constants
<1>4. t = y + off \/ (t = y + off - Week /\ y + off >= Week)
  <2>1. off \in 0 .. Period
    BY <1>3
  <2>2. y + off < Week \/ y + off >= Week
    BY <1>3
  <2> QED
    BY <2>1, <2>2, InWeek
<1>5. d = g + off - o
  <2>1. x + g = y + o \/ x + g = y + Week + o
    BY <1>1
  <2>2. x \in Int /\ y \in Int /\ x >= 0 /\ x < Week /\ y >= 0 /\ y < Week /\ o \in Int /\ off \in Int
    BY <1>3
  <2>3. CASE t >= x
    <3>1. d = t - x
      BY <2>3
    <3> QED
      BY <1>3, <1>4, <2>1, <2>2, <2>3, <3>1
  <2>4. CASE ~(t >= x)
    <3>1. d = t + Week - x
      BY <2>4
    <3> QED
      BY <1>3, <1>4, <2>1, <2>2, <2>4, <3>1
  <2> QED
    BY <2>3, <2>4
<1>6. d <= MaxGap
  BY <1>3, <1>5
<1>7. Slots(d) = n
  <2>1. PICK r \in 0 .. Period - 1 : r = off - o + k
    BY <1>3
  <2>2. PICK x0 \in Int : x0 = d + k
    BY <1>2
  <2>3. x0 = n * Period + r
    BY <1>1, <1>3, <1>5, <2>1, <2>2
  <2>4. x0 \div Period = n
    BY <1>3, <2>3, Divided
  <2>5. (d + k) \div Period = n
    BY <2>2, <2>4
  <2> QED
    BY <1>2, <2>5 DEF Slots
<1> QED
  BY <1>1, <1>5, <1>6, <1>7

\* An epoch of a receiver whose clock ran on is fed n periods after the last, for the
\* n - 1 that were lost.
LEMMA SinceLast ==
  ASSUME TypeOK, TimeInv, ClockInv, running, have,
         NEW off \in 0 .. (Period - 1) \div 2, NEW t \in 0 .. Week - 1, t = (tow + off) % Week
  PROVE  /\ gone \in Nat /\ gone + 1 <= Silence
         /\ Since(t) <= MaxGap /\ Slots(Since(t)) = gone + 1
<1>1. gone = age /\ age < Silence /\ gone \in Nat /\ Silence \in Nat
  BY Constants DEF ClockInv, TimeInv, TypeOK, FeedTypeOK
<1>2. PICK n \in Nat : n = gone + 1
  BY <1>1
<1>3. n >= 1 /\ n <= Silence
  BY <1>1, <1>2
<1>4. PICK o \in 0 .. (Period - 1) \div 2 :
        lastTow + n * Period = tow + o \/ lastTow + n * Period = tow + Week + o
  BY <1>2 DEF ClockInv
<1>5. lastTow \in 0 .. Week - 1 /\ tow \in 0 .. Week - 1 /\ t \in Int
  BY Constants DEF TypeOK, FeedTypeOK
<1>6. Since(t) \in Int
  BY Constants, SinceType DEF TypeOK
<1>7. PICK d \in Int : d = Since(t)
  BY <1>6
<1>8. d = IF t >= lastTow THEN t - lastTow ELSE t + Week - lastTow
  BY <1>7 DEF Since
<1>9. d <= MaxGap /\ Slots(d) = n
  BY <1>3, <1>4, <1>5, <1>8, Distance
<1> QED
  BY <1>1, <1>2, <1>3, <1>7, <1>9

LEMMA OffType ==
  ASSUME TypeOK, NEW off \in 0 .. (Period - 1) \div 2
  PROVE  (tow + off) % Week \in 0 .. Week - 1
<1>1. off \in 0 .. Period /\ tow \in 0 .. Week - 1
  BY Constants, Halves DEF TypeOK, FeedTypeOK
<1> QED
  BY <1>1, InWeek

\* The epochs lost before one that arrives are just what it counts.
LEMMA Counts ==
  ASSUME TypeOK, TimeInv, ClockInv, running, have, NEW fix, Arrives(fix, Stands)
  PROVE  missed' = Add(missed, gone) /\ timeSteps' = timeSteps
<1>1. PICK off \in 0 .. (Period - 1) \div 2 : AddEpoch((tow + off) % Week, fix, Stands)
  BY DEF Arrives
<1>2. PICK t \in 0 .. Week - 1 : t = (tow + off) % Week
  BY OffType
<1>3. gone \in Nat /\ Since(t) <= MaxGap /\ Slots(Since(t)) = gone + 1
  BY <1>2, SinceLast
<1>4. Since(t) \in Int /\ MaxGap \in Int
  BY Constants, SinceType DEF TypeOK
<1>5. /\ missed' = IF gone + 1 > 1 THEN Add(missed, (gone + 1) - 1) ELSE missed
      /\ timeSteps' = timeSteps
  BY <1>1, <1>2, <1>3, <1>4 DEF AddEpoch, Track
<1>6. CASE gone = 0
  <2>1. missed \in 0 .. Width - 1 /\ Width \in Nat
    BY Constants DEF TypeOK, FeedTypeOK
  <2>2. \A x \in Int, w \in Nat : x \in 0 .. w - 1 => (x + 0) % w = x
    OBVIOUS
  <2>3. Add(missed, 0) = missed
    BY <2>1, <2>2 DEF Add
  <2> QED
    BY <1>5, <1>6, <2>3
<1>7. CASE gone # 0
  <2>1. gone + 1 > 1 /\ (gone + 1) - 1 = gone
    BY <1>3, <1>7
  <2> QED
    BY <1>5, <2>1
<1> QED
  BY <1>6, <1>7

\* A step of the receiver's clock is one to the tracker, and one indeed.
LEMMA StepCounts ==
  ASSUME TypeOK, TimeInv, ClockInv, running, NEW t \in 0 .. Week - 1, Steps(t, TRUE, Stands)
  PROVE  Stepped /\ missed' = missed /\ timeSteps' = Add(timeSteps, 1)
<1>1. have /\ Since(t) > MaxGap /\ Track(t) /\ tow' = (t + Period) % Week
  BY DEF Steps, AddEpoch
<1>2. missed' = missed /\ timeSteps' = Add(timeSteps, 1)
  BY <1>1 DEF Track
<1>3. tow \in 0 .. Week - 1 /\ Week \in Nat /\ 0 \in 0 .. (Period - 1) \div 2 /\ MaxGap \in Int
  BY Constants, Halves DEF TypeOK, FeedTypeOK
<1>4. t # tow
  <2>1. ASSUME t = tow PROVE FALSE
    <3>1. t = (tow + 0) % Week
      BY <1>3, <2>1
    <3>2. Since(t) <= MaxGap
      BY <1>1, <1>3, <3>1, SinceLast
    <3>3. Since(t) \in Int
      BY Constants, SinceType DEF TypeOK
    <3> QED
      BY <1>1, <1>3, <3>2, <3>3
  <2> QED
    BY <2>1
<1>5. (t + Period) % Week # (tow + Period) % Week
  <2>1. Period \in 0 .. Period /\ Period <= Week /\ Period \in Nat
    BY Constants, Halves
  <2>2. ASSUME NEW x \in 0 .. Week - 1
        PROVE  \/ x + Period < Week /\ (x + Period) % Week = x + Period
               \/ x + Period >= Week /\ (x + Period) % Week = x + Period - Week
    <3>1. x + Period < Week \/ x + Period >= Week
      BY <1>3, <2>1
    <3> QED
      BY <2>1, <3>1, InWeek
  <2>3. PICK u \in 0 .. Week - 1, v \in 0 .. Week - 1 :
          u = (t + Period) % Week /\ v = (tow + Period) % Week
    <3>1. (t + Period) % Week \in 0 .. Week - 1 /\ (tow + Period) % Week \in 0 .. Week - 1
      BY <1>3, <2>1, InWeek
    <3> QED
      BY <3>1
  <2>4. u = t + Period \/ u = t + Period - Week
    BY <2>2, <2>3
  <2>5. v = tow + Period \/ v = tow + Period - Week
    BY <1>3, <2>2, <2>3
  <2>6. u # v
    BY <1>3, <1>4, <2>1, <2>4, <2>5
  <2> QED
    BY <2>3, <2>6
<1> QED
  BY <1>1, <1>2, <1>5 DEF Stepped

\* What an epoch leaves behind is the receiver's clock, but for what it was off.
LEMMA AfterEpoch ==
  ASSUME NEW x \in 0 .. Week - 1, NEW off \in 0 .. (Period - 1) \div 2
  PROVE  \/ ((x + off) % Week) + 1 * Period = ((x + Period) % Week) + off
         \/ ((x + off) % Week) + 1 * Period = ((x + Period) % Week) + Week + off
<1>1. /\ Period \in Nat /\ Period >= 1 /\ Week \in Nat /\ Period <= Week
      /\ off \in 0 .. Period /\ off < Period /\ x \in Int /\ Period \in 0 .. Period /\ off \in Int
  BY Constants, Halves
<1>2. PICK u \in 0 .. Week - 1, v \in 0 .. Week - 1 : u = (x + off) % Week /\ v = (x + Period) % Week
  <2>1. (x + off) % Week \in 0 .. Week - 1 /\ (x + Period) % Week \in 0 .. Week - 1
    BY <1>1, InWeek
  <2> QED
    BY <2>1
<1>3. (x + off < Week /\ u = x + off) \/ (x + off >= Week /\ u = x + off - Week)
  <2>1. x + off < Week \/ x + off >= Week
    BY <1>1
  <2> QED
    BY <1>1, <1>2, <2>1, InWeek
<1>4. (x + Period < Week /\ v = x + Period) \/ (x + Period >= Week /\ v = x + Period - Week)
  <2>1. x + Period < Week \/ x + Period >= Week
    BY <1>1
  <2> QED
    BY <1>1, <1>2, <2>1, InWeek
<1>5. u + Period = v + off \/ u + Period = v + Week + off
  BY <1>1, <1>3, <1>4
<1>6. 1 * Period = Period
  BY <1>1
<1> QED
  BY <1>2, <1>5, <1>6

\* An epoch that is lost moves both on by a period.
LEMMA AfterLoss ==
  ASSUME NEW x \in 0 .. Week - 1, NEW y \in 0 .. Week - 1, NEW n \in Nat, n + 1 <= Silence,
         NEW o \in 0 .. (Period - 1) \div 2,
         x + n * Period = y + o \/ x + n * Period = y + Week + o
  PROVE  \/ x + (n + 1) * Period = ((y + Period) % Week) + o
         \/ x + (n + 1) * Period = ((y + Period) % Week) + Week + o
<1>1. /\ Period \in Nat /\ Period >= 1 /\ Week \in Nat /\ Period <= Week
      /\ x \in Int /\ y \in Int /\ Period \in 0 .. Period /\ o \in Int /\ o >= 0
      /\ MaxGap \in Int /\ MaxGap < Week
  BY Constants, Halves
<1>2. PICK g \in Nat, f \in Nat : g = n * Period /\ f = (n + 1) * Period
  BY <1>1, Product
<1>3. f = g + Period
  BY <1>1, <1>2, OneMore
<1>4. f <= MaxGap
  <2>1. n + 1 \in Nat /\ Period \div 2 \in Nat
    BY Halves
  <2>2. f + Period \div 2 <= MaxGap
    BY <1>2, <2>1, Gaps
  <2> QED
    BY <1>1, <2>1, <2>2
<1>5. PICK v \in 0 .. Week - 1 : v = (y + Period) % Week
  <2>1. (y + Period) % Week \in 0 .. Week - 1
    BY <1>1, InWeek
  <2> QED
    BY <2>1
<1>6. (y + Period < Week /\ v = y + Period) \/ (y + Period >= Week /\ v = y + Period - Week)
  <2>1. y + Period < Week \/ y + Period >= Week
    BY <1>1
  <2> QED
    BY <1>1, <1>5, <2>1, InWeek
<1>7. x + g = y + o \/ x + g = y + Week + o
  BY <1>2
<1>8. x + f = v + o \/ x + f = v + Week + o
  BY <1>1, <1>3, <1>4, <1>6, <1>7
<1> QED
  BY <1>2, <1>5, <1>8

LEMMA ClockStep == TypeOK /\ TimeInv /\ ClockInv /\ [Next]_vars => ClockInv'
<1> SUFFICES ASSUME TypeOK, TimeInv, ClockInv, [Next]_vars, have'
             PROVE  /\ haveEpoch' /\ gone' = age'
                    /\ running' =>
                         \E off \in 0 .. (Period - 1) \div 2 :
                           \/ lastTow' + (gone' + 1) * Period = tow' + off
                           \/ lastTow' + (gone' + 1) * Period = tow' + Week + off
  BY DEF ClockInv
<1>0. /\ tow \in 0 .. Week - 1 /\ lastTow \in 0 .. Week - 1 /\ gone \in Nat /\ age \in Nat
      /\ Silence \in Nat
  BY Constants DEF TypeOK, FeedTypeOK
<1>1. ASSUME NEW fix, Arrives(fix, Stands)
      PROVE  /\ haveEpoch' /\ gone' = age'
             /\ \E off \in 0 .. (Period - 1) \div 2 :
                  \/ lastTow' + (gone' + 1) * Period = tow' + off
                  \/ lastTow' + (gone' + 1) * Period = tow' + Week + off
  <2>1. PICK off \in 0 .. (Period - 1) \div 2 : AddEpoch((tow + off) % Week, fix, Stands)
    BY <1>1 DEF Arrives
  <2>2. /\ haveEpoch' /\ gone' = 0 /\ age' = 0 /\ lastTow' = (tow + off) % Week
        /\ tow' = (tow + Period) % Week /\ gone' + 1 = 1
    BY <1>1, <2>1 DEF Arrives, NextTow, AddEpoch, Track
  <2>3. \/ lastTow' + (gone' + 1) * Period = tow' + off
        \/ lastTow' + (gone' + 1) * Period = tow' + Week + off
    BY <1>0, <2>2, AfterEpoch
  <2> QED
    BY <2>2, <2>3
<1>2. ASSUME NEW t \in 0 .. Week - 1, Steps(t, TRUE, Stands)
      PROVE  /\ haveEpoch' /\ gone' = age'
             /\ \E off \in 0 .. (Period - 1) \div 2 :
                  \/ lastTow' + (gone' + 1) * Period = tow' + off
                  \/ lastTow' + (gone' + 1) * Period = tow' + Week + off
  <2>1. /\ haveEpoch' /\ gone' = 0 /\ age' = 0 /\ lastTow' = t
        /\ tow' = (t + Period) % Week /\ gone' + 1 = 1
    BY <1>2 DEF Steps, AddEpoch, Track
  <2>2. 0 \in 0 .. (Period - 1) \div 2 /\ Week \in Nat
    BY Halves, Constants
  <2>3. (t + 0) % Week = t
    <3>1. \A w \in Nat : \A x \in 0 .. w - 1 : (x + 0) % w = x
      OBVIOUS
    <3> QED
      BY <2>2, <3>1
  <2>4. \/ lastTow' + (gone' + 1) * Period = tow' + 0
        \/ lastTow' + (gone' + 1) * Period = tow' + Week + 0
    BY <2>1, <2>2, <2>3, AfterEpoch
  <2> QED
    BY <2>1, <2>2, <2>4
<1>3. CASE IsLost
  <2>1. /\ age' = age + 1 /\ gone' = gone + 1 /\ UNCHANGED <<haveEpoch, have, lastTow>>
        /\ tow' = (tow + Period) % Week
    BY <1>3 DEF IsLost, NoEpoch, NextTow
  <2>2. haveEpoch' /\ gone = age /\ have
    BY <2>1 DEF ClockInv
  <2>3. CASE Tick
    <3>1. running /\ age' < Silence
      BY <2>3 DEF Tick, Liveness
    <3>2. PICK n \in Nat : n = gone + 1
      BY <1>0
    <3>3. PICK o \in 0 .. (Period - 1) \div 2 :
            lastTow + n * Period = tow + o \/ lastTow + n * Period = tow + Week + o
      BY <2>2, <3>1, <3>2 DEF ClockInv
    <3>4. n + 1 <= Silence /\ gone' = n
      BY <1>0, <2>1, <2>2, <3>1, <3>2
    <3>5. \/ lastTow + (n + 1) * Period = ((tow + Period) % Week) + o
          \/ lastTow + (n + 1) * Period = ((tow + Period) % Week) + Week + o
      BY <1>0, <3>3, <3>4, AfterLoss
    <3> QED
      BY <2>1, <2>2, <3>4, <3>5
  <2>4. CASE NeverStarted
    BY <2>1, <2>2, <2>4 DEF NeverStarted
  <2> QED
    BY <1>0, <1>3, <2>1, <2>2, <2>3, <2>4
       DEF Next, Restarts, Reset, Clear, Redo, Anew, FeedAnew, ClearStats, vars, feed
<1>4. CASE Tick \/ NeverStarted
  BY <1>1, <1>2, <1>3, <1>4 DEF Tick, NeverStarted, Epoch
<1>5. CASE Restarts \/ Reset \/ Clear
  BY <1>5 DEF Restarts, Reset, Anew, FeedAnew, Clear, ClearStats
<1>6. CASE Redo \/ UNCHANGED vars
  <2>1. UNCHANGED <<feed, sender, running>>
    BY <1>6 DEF Redo, vars
  <2> QED
    BY <2>1 DEF feed, sender, ClockInv
<1> QED
  BY <1>4, <1>5, <1>6 DEF Next
-----------------------------------------------------------------------------
(* The invariant, and what it shows.                                       *)

LEMMA Initial == Init => IInv
<1> SUFFICES ASSUME Init PROVE IInv
  OBVIOUS
<1> USE DEF Init, FeedInit, SenderInit, TrimInit
<1>1. FeedTypeOK
  <2>1. 0 \in 0 .. Silence /\ 0 \in 0 .. Week - 1 /\ 0 \in 0 .. Width - 1
    BY Constants, Halves
  <2>2. 0 % Period = 0
    <3>1. \A p \in Nat : p >= 1 => 0 % p = 0
      OBVIOUS
    <3> QED
      BY <3>1, Constants
  <2> QED
    BY <2>1, <2>2 DEF FeedTypeOK
<1>2. /\ 0 \in 0 .. DownAfter /\ 0 < DownAfter /\ 0 \in 0 .. VarNeeded /\ 0 \in 0 .. Qualify
      /\ 0 \in 0 .. Block - 1 /\ 0 \in 0 .. LockBlocks /\ 0 # LockBlocks /\ Block * 0 = 0
      /\ IsFiniteSet({})
  BY Constants, FS_EmptySet
<1>3. 0 \in 0 .. FullWindow
  <2>1. Block * LockBlocks \in Nat
    BY Constants, Product
  <2>2. FullWindow \in Nat
    BY <2>1, Constants DEF FullWindow
  <2> QED
    BY <2>2
<1>4. TrimTypeOK
  BY <1>2, <1>3 DEF TrimTypeOK
<1>5. TypeOK
  BY <1>1, <1>4, Constants DEF TypeOK
<1>6. TimeInv /\ UpInv /\ FullInv
  BY <1>2, Constants DEF TimeInv, UpInv, FullInv
<1>7. Held = {}
  BY DEF Held
<1>8. HeldInv
  BY <1>7 DEF HeldInv
<1>9. FreshInv
  BY <1>2 DEF FreshInv, Samples
<1>10. ClockInv
  BY DEF ClockInv
<1> QED
  BY <1>5, <1>6, <1>8, <1>9, <1>10 DEF IInv

\* How a window survives a drive, what fresh counts, and how far the tracker's last
\* iTOW is from the receiver's clock.
THEOREM InvCorrect == Spec => []IInv
<1>1. IInv /\ [Next]_vars => IInv'
  BY TypeStep, TimeStep, TrimStep, HeldStep, ClockStep DEF IInv
<1> QED
  BY <1>1, Initial, PTL DEF Spec

\* Every variable stays of its type: in particular the last epoch is never older than
\* the silence, and no window larger than full.
THEOREM TypeCorrect == Spec => []TypeOK
<1>1. IInv => TypeOK
  BY DEF IInv
<1> QED
  BY <1>1, InvCorrect, PTL

\* An orientation is never locked from two stops: GnssSpeedGate's staleness and the
\* failures ImuHealth tolerates are together shorter than a drive.
THEOREM OneStop == Spec => []LockFromOneStop
<1>1. IInv => LockFromOneStop
  <2> SUFFICES ASSUME IInv PROVE Cardinality(Held) <= 1
    BY DEF LockFromOneStop, Held
  <2>1. \A a, b \in Held : a = b
    BY DEF IInv, HeldInv
  <2>2. CASE Held = {}
    <3>1. Cardinality(Held) = 0
      BY <2>2, FS_EmptySet
    <3> QED
      BY <3>1
  <2>3. CASE Held # {}
    <3>1. PICK a \in Held : Held = {a}
      BY <2>1, <2>3
    <3>2. Cardinality(Held) = 1
      BY <3>1, FS_Singleton
    <3> QED
      BY <3>2
  <2> QED
    BY <2>2, <2>3
<1> QED
  BY <1>1, InvCorrect, PTL

\* After T the new lock takes a whole window of its own.
THEOREM WaitsForIts == Spec => RetrimWaits
<1> DEFINE Waits == relocking /\ ~relocking' /\ converged' => fresh >= FullWindow - 1
<1>1. IInv /\ [Next]_vars => [Waits]_vars
  <2> SUFFICES ASSUME IInv, Next, relocking, ~relocking', converged'
               PROVE  fresh >= FullWindow - 1
    OBVIOUS
  <2>1. \E quiet, tilted \in BOOLEAN :
          ReadOk(SpeedValid(age'), stands', quiet, Attitude, tilted)
    <3>1. Tick
      BY DEF Next, NeverStarted, Restarts, Reset, Anew, TrimAnew, Clear, device, Redo, Retrim
    <3> QED
      BY <3>1 DEF Tick, Sample, ReadFails, NoImu, device
  <2> QED
    BY <2>1, AttitudeType, ReadStep DEF IInv, TypeOK
<1> QED
  BY <1>1, InvCorrect, PTL DEF Spec, RetrimWaits

\* The missed counter is exact, over the end of the week and whatever the jitter, and a
\* step of the receiver's clock is one.
THEOREM ExactlyMissed == Spec => MissedExact
<1> DEFINE Exact ==
      Fed => IF Stepped
             THEN missed' = missed /\ timeSteps' = Add(timeSteps, 1)
             ELSE missed' = Add(missed, gone) /\ timeSteps' = timeSteps
<1>1. IInv /\ [Next]_vars => [Exact]_vars
  <2> SUFFICES ASSUME IInv, Next, Fed PROVE Exact
    OBVIOUS
  <2>1. TypeOK /\ TimeInv /\ ClockInv /\ have /\ have' /\ lastTow' # lastTow
    BY DEF IInv, Fed
  <2>2. running /\ Epoch /\ ~IsLost
    BY <2>1 DEF Next, Tick, NeverStarted, Restarts, Reset, Anew, FeedAnew, Clear, ClearStats,
                Redo, feed, IsLost, NoEpoch
  <2>3. ASSUME NEW fix, Arrives(fix, Stands) PROVE Exact
    <3>1. ~Stepped
      BY <2>3 DEF Arrives, NextTow, Stepped
    <3> QED
      BY <2>1, <2>2, <2>3, <3>1, Counts
  <2>4. ASSUME NEW t \in 0 .. Week - 1, Steps(t, TRUE, Stands) PROVE Exact
    BY <2>1, <2>2, <2>4, StepCounts
  <2> QED
    BY <2>2, <2>3, <2>4 DEF Epoch
<1> QED
  BY <1>1, InvCorrect, PTL DEF Spec, MissedExact
=============================================================================
