--------------------------- MODULE SchedulerProofs ---------------------------
(***************************************************************************)
(* For any jobs, periods and run times: no job is ever later than one pass *)
(* and one sleep can make it, every period of every grid is accounted for, *)
(* the loop sleeps only for a job that is on, and the 32-bit counter never *)
(* wraps unseen between two of the scheduler's reads.                      *)
(***************************************************************************)
EXTENDS ClockedScheduler, TLAPS

\* The time k runs may take.
Cost(k) == k * MaxRun

\* How late job i may be when a pass starts: the jobs that ran after it, or
\* the sleep.
Base(i) == Larger(Cost(N + 1 - i), MaxOver)

\* How long the running job has run.
Elapsed == IF doing = "run" THEN now - begin ELSE 0

\* Whether the pass has seen job i: it has run, or was not due.
Seen(i) == i < pos \/ (doing = "run" /\ i = pos)

\* A run lies inside its limit, and the pass inside the table.
RunInv ==
  /\ doing = "run" => pos \in Jobs /\ begin <= now /\ now <= begin + MaxRun
  /\ doing = "sleep" => pos = N + 1

\* A seen job is late by the runs since; an unseen one by those of this pass, on
\* top of what it was late by when the pass started.
Allowed(i) == IF Seen(i) THEN Cost(pos - i) ELSE Base(i) + Cost(pos - 1)

LateInv == \A i \in enabled : now - nextDue[i] <= Allowed(i) + Elapsed

\* A sleep ends at or before every enabled job's deadline, give or take MaxOver.
WakeInv == doing = "sleep" => \A i \in enabled : wake <= nextDue[i]

\* The strengthening LateBounded needs.
LateIInv == TypeOK /\ RunInv /\ LateInv /\ WakeInv
-----------------------------------------------------------------------------
\* The time of one more run, and of more runs.
LEMMA CostMore ==
  ASSUME NEW a \in Nat, NEW b \in Nat
  PROVE  /\ Cost(a) \in Nat
         /\ Cost(a + b) = Cost(a) + Cost(b)
         /\ Cost(0) = 0 /\ Cost(1) = MaxRun
         /\ Cost(a + 1) = Cost(a) + MaxRun
BY SchedulerAssumption DEF Cost

\* A longer list of runs takes no less time.
LEMMA CostMonotone ==
  ASSUME NEW a \in Nat, NEW b \in Nat, a <= b
  PROVE  Cost(a) <= Cost(b)
<1>1. b - a \in Nat /\ a + (b - a) = b
  OBVIOUS
<1>2. Cost(b) = Cost(a) + Cost(b - a)
  BY <1>1, CostMore
<1> QED
  BY <1>1, <1>2, CostMore

\* The periods a late run gives up fit in its lateness, and one more does not.
LEMMA Division ==
  ASSUME NEW late \in Nat, NEW period \in Nat \ {0}
  PROVE  /\ Missed(late, period) \in Nat
         /\ late < (Missed(late, period) + 1) * period
         /\ Missed(late, period) * period <= late
BY DEF Missed

\* Going forward lands on the grid, after the run's start.
LEMMA ForwardAhead ==
  ASSUME NEW due \in Nat, NEW t \in Nat, t >= due, NEW period \in Nat \ {0}
  PROVE  /\ Forward(due, t - due, period) \in Nat
         /\ Forward(due, t - due, period) > t
<1>1. t - due \in Nat
  OBVIOUS
<1>2. PICK m \in Nat : m = Missed(t - due, period) /\ t - due < (m + 1) * period
  BY <1>1, Division
<1>3. (m + 1) * period \in Nat
  BY <1>2
<1> QED
  BY <1>2, <1>3 DEF Forward
-----------------------------------------------------------------------------
\* A job that is due is late by some time, and has a period.
LEMMA DueJob ==
  ASSUME TypeOK, StartRun
  PROVE  /\ pos \in Jobs
         /\ nextDue[pos] \in Nat /\ nextDue[pos] <= now
         /\ now - nextDue[pos] \in Nat
         /\ Period[pos] \in Nat \ {0}
<1>1. pos \in Jobs /\ nextDue[pos] <= now
  BY DEF TypeOK, StartRun, Jobs
<1>2. now \in Nat /\ nextDue[pos] \in Nat
  BY <1>1 DEF TypeOK
<1>3. Period[pos] \in Nat \ {0}
  BY <1>1, SchedulerAssumption DEF Jobs
<1> QED
  BY <1>1, <1>2, <1>3

\* A step keeps clocks and counters in their types: no missed count is negative.
LEMMA TypeStep == TypeOK /\ RunInv /\ [Next]_vars => TypeOK'
<1> SUFFICES ASSUME TypeOK, RunInv, [Next]_vars PROVE TypeOK'
  OBVIOUS
<1> USE SchedulerAssumption DEF TypeOK
<1>1. CASE Pass
  BY <1>1 DEF Pass
<1>2. CASE StartRun
  <2>0. pos \in Jobs
    BY <1>2, DueJob
  <2>1. now - nextDue[pos] \in Nat /\ Period[pos] \in Nat \ {0}
    BY <1>2, DueJob
  <2>2. Missed(now - nextDue[pos], Period[pos]) \in Nat
    BY <2>1, Division
  <2>3. nextDue[pos] \in Nat /\ nextDue[pos] <= now
    BY <1>2, DueJob
  <2>4. Forward(nextDue[pos], now - nextDue[pos], Period[pos]) \in Nat
    BY <2>0, <2>1, <2>3, ForwardAhead
  <2>5. nextDue' \in [Jobs -> Nat]
    BY <1>2, <2>0, <2>1, <2>4 DEF StartRun
  <2>6. skipped' \in [Jobs -> Nat]
    BY <1>2, <2>0, <2>1, <2>2 DEF StartRun
  <2> QED
    BY <1>2, <2>5, <2>6 DEF StartRun
<1>3. CASE Work
  BY <1>3 DEF Work
<1>4. CASE Switches
  <2>1. CASE \E i \in Jobs : SwitchOff(i)
    BY <2>1 DEF SwitchOff
  <2>2. ASSUME NEW i \in Jobs, SwitchOn(i) PROVE TypeOK'
    <3>1. Counted(i, runs, skipped) \in Int
      BY DEF Counted
    <3>2. counted' \in [Jobs -> Int]
      BY <2>2, <3>1 DEF SwitchOn
    <3> QED
      BY <2>2, <3>2 DEF SwitchOn
  <2> QED
    BY <1>4, <2>1, <2>2 DEF Switches
<1>5. CASE ClearStats
  <2>1. counted' \in [Jobs -> Int]
    BY <1>5 DEF ClearStats
  <2> QED
    BY <1>5, <2>1 DEF ClearStats
<1>6. CASE EndRun
  <2>1. pos \in Jobs /\ pos' = pos + 1
    BY <1>6 DEF EndRun, RunInv
  <2>2. runs' \in [Jobs -> Nat]
    BY <1>6, <2>1 DEF EndRun
  <2>3. pos' \in 1 .. N + 1
    BY <2>1 DEF Jobs
  <2> QED
    BY <1>6, <2>2, <2>3 DEF EndRun
<1>7. CASE EndPass
  BY <1>7 DEF EndPass
<1>8. CASE Wake
  BY <1>8 DEF Wake
<1>9. CASE UNCHANGED vars
  BY <1>9 DEF vars
<1> QED
  BY <1>1, <1>2, <1>3, <1>4, <1>5, <1>6, <1>7, <1>8, <1>9 DEF Next

\* A step keeps the run inside its limit and the pass inside the table.
LEMMA RunStep == TypeOK /\ RunInv /\ [Next]_vars => RunInv'
<1> SUFFICES ASSUME TypeOK, RunInv, [Next]_vars PROVE RunInv'
  OBVIOUS
<1> USE SchedulerAssumption DEF TypeOK, RunInv
<1>1. CASE Pass
  BY <1>1 DEF Pass
<1>2. CASE StartRun
  BY <1>2 DEF StartRun, Jobs
<1>3. CASE Work
  BY <1>3 DEF Work
<1>4. CASE Switches
  BY <1>4 DEF Switches, SwitchOn, SwitchOff
<1>5. CASE ClearStats
  BY <1>5 DEF ClearStats
<1>6. CASE EndRun
  BY <1>6 DEF EndRun
<1>7. CASE EndPass
  BY <1>7 DEF EndPass
<1>8. CASE Wake
  BY <1>8 DEF Wake
<1>9. CASE UNCHANGED vars
  BY <1>9 DEF vars
<1> QED
  BY <1>1, <1>2, <1>3, <1>4, <1>5, <1>6, <1>7, <1>8, <1>9 DEF Next

\* The first pass starts with everything in its type.
LEMMA TypeInit == Init => TypeOK /\ RunInv
BY SchedulerAssumption DEF Init, TypeOK, RunInv, Jobs

\* Clocks, deadlines and counters keep their types for ever: no lateness makes a
\* deadline or a skipped count go backwards through zero.
THEOREM TypesAndRuns == Spec => [](TypeOK /\ RunInv)
<1>1. TypeOK /\ RunInv /\ [Next]_vars => (TypeOK /\ RunInv)'
  BY TypeStep, RunStep
<1> QED
  BY <1>1, TypeInit, PTL DEF Spec
-----------------------------------------------------------------------------
\* What is allowed is a time, and Base covers both of its reasons.
LEMMA Allowances ==
  ASSUME TypeOK, NEW i \in Jobs
  PROVE  /\ i \in Nat /\ Base(i) \in Nat
         /\ Base(i) >= Cost(N + 1 - i) /\ Base(i) >= MaxOver
         /\ Allowed(i) \in Nat /\ Cost(pos - 1) \in Nat
<1>1. i \in Nat /\ N + 1 - i \in Nat /\ pos - 1 \in Nat /\ (Seen(i) => pos - i \in Nat)
  BY SchedulerAssumption DEF TypeOK, Jobs, Seen
<1>2. Cost(N + 1 - i) \in Nat /\ Cost(pos - 1) \in Nat /\ (Seen(i) => Cost(pos - i) \in Nat)
  BY <1>1, CostMore
<1>3. Base(i) \in Nat /\ Base(i) >= Cost(N + 1 - i) /\ Base(i) >= MaxOver
  BY <1>2, SchedulerAssumption DEF Base, Larger
<1> QED
  BY <1>1, <1>2, <1>3 DEF Allowed

\* A pass moving on allows every job one more run.
LEMMA MoveOn ==
  ASSUME TypeOK, pos \in Jobs, pos' = pos + 1, doing' = "check", NEW i \in Jobs
  PROVE  Allowed(i)' = (IF i = pos THEN MaxRun ELSE Allowed(i) + MaxRun)
<1>0. i \in Nat /\ pos \in Nat /\ i >= 1 /\ pos >= 1 /\ N \in Nat
  BY SchedulerAssumption DEF Jobs
<1>1. CASE i < pos
  <2>1. pos - i \in Nat /\ pos' - i = (pos - i) + 1 /\ i < pos' /\ i # pos
    BY <1>0, <1>1
  <2>2. Cost(pos' - i) = Cost(pos - i) + MaxRun
    BY <2>1, CostMore
  <2>3. Allowed(i)' = Cost(pos' - i) /\ Allowed(i) = Cost(pos - i)
    BY <1>1, <2>1 DEF Allowed, Seen
  <2> QED
    BY <2>1, <2>2, <2>3
<1>2. CASE i = pos
  <2>1. pos' - i = 1 /\ i < pos'
    BY <1>0, <1>2
  <2>2. Cost(pos' - i) = MaxRun
    BY <2>1, CostMore
  <2>3. Allowed(i)' = Cost(pos' - i)
    BY <2>1 DEF Allowed, Seen
  <2> QED
    BY <1>2, <2>2, <2>3
<1>3. CASE i > pos
  <2>1. pos - 1 \in Nat /\ pos' - 1 = (pos - 1) + 1 /\ ~(i < pos) /\ ~(i < pos') /\ i # pos
    BY <1>0, <1>3
  <2>2. Cost(pos' - 1) = Cost(pos - 1) + MaxRun
    BY <2>1, CostMore
  <2>3. Allowed(i)' = Base(i) + Cost(pos' - 1) /\ Allowed(i) = Base(i) + Cost(pos - 1)
    BY <2>1 DEF Allowed, Seen, Base
  <2>4. Base(i) \in Nat /\ Cost(pos - 1) \in Nat /\ MaxRun \in Nat
    BY Allowances, SchedulerAssumption
  <2> QED
    BY <2>1, <2>2, <2>3, <2>4
<1> QED
  BY <1>0, <1>1, <1>2, <1>3

\* Everybody is on time at the first pass.
LEMMA LateInit == Init => LateInv /\ WakeInv
<1> SUFFICES ASSUME Init, NEW i \in enabled PROVE now - nextDue[i] <= Allowed(i) + Elapsed
  BY DEF LateInv, WakeInv, Init
<1>1. i \in Jobs /\ Elapsed = 0 /\ now - nextDue[i] = 0
  BY DEF Init, Elapsed
<1>2. Allowed(i) \in Nat
  BY <1>1, TypeInit, Allowances
<1> QED
  BY <1>1, <1>2

\* A step keeps every job within what it is allowed.
LEMMA LateStep == LateIInv /\ [Next]_vars => LateInv'
<1> SUFFICES ASSUME LateIInv, [Next]_vars, NEW i \in enabled'
             PROVE  (now - nextDue[i] <= Allowed(i) + Elapsed)'
  BY DEF LateInv
<1>t. TypeOK /\ RunInv /\ LateInv /\ WakeInv /\ TypeOK' /\ RunInv'
  BY TypeStep, RunStep DEF LateIInv
<1>i. i \in Jobs /\ i \in Nat /\ now \in Nat /\ nextDue[i] \in Nat /\ MaxRun \in Nat
  BY <1>t, SchedulerAssumption DEF TypeOK, Jobs
<1>a. Allowed(i) \in Nat
  BY <1>t, <1>i, Allowances
<1>e. Elapsed \in Nat /\ Elapsed <= MaxRun
  BY <1>t, <1>i DEF Elapsed, RunInv, TypeOK
<1>1. CASE Pass
  <2>1. pos \in Jobs /\ pos' = pos + 1 /\ doing' = "check" /\ i \in enabled /\ Elapsed = 0 /\ Elapsed' = 0
    BY <1>1, <1>t DEF Pass, TypeOK, Jobs, Elapsed
  <2>2. Allowed(i)' = (IF i = pos THEN MaxRun ELSE Allowed(i) + MaxRun)
    BY <1>t, <1>i, <2>1, MoveOn
  <2>3. i = pos => now < nextDue[i]
    BY <1>1, <2>1 DEF Pass
  <2>4. now' = now /\ nextDue' = nextDue
    BY <1>1 DEF Pass
  <2> QED
    BY <1>t, <1>i, <1>a, <2>1, <2>2, <2>3, <2>4 DEF LateInv
<1>2. CASE StartRun
  <2>1. pos \in Jobs /\ pos' = pos /\ i \in enabled /\ now' = now /\ Elapsed = 0 /\ Elapsed' = 0
    BY <1>2, <1>t, <1>i DEF StartRun, TypeOK, Jobs, Elapsed
  <2>2. CASE i = pos
    <3>1. nextDue[i]' = Forward(nextDue[i], now - nextDue[i], Period[i])
      BY <1>2, <1>t, <2>1, <2>2 DEF StartRun, TypeOK
    <3>2. now >= nextDue[i] /\ Period[i] \in Nat \ {0}
      BY <1>2, <1>i, <2>2, SchedulerAssumption DEF StartRun, Jobs
    <3>3. Forward(nextDue[i], now - nextDue[i], Period[i]) > now
      BY <1>i, <3>2, ForwardAhead
    <3>4. Forward(nextDue[i], now - nextDue[i], Period[i]) \in Nat
      BY <1>i, <3>2, ForwardAhead
    <3>5. Allowed(i)' = 0
      BY <1>2, <1>i, <2>1, <2>2, CostMore DEF StartRun, Allowed, Seen
    <3> QED
      BY <1>i, <2>1, <3>1, <3>3, <3>4, <3>5
  <2>3. CASE i # pos
    <3>1. nextDue[i]' = nextDue[i]
      BY <1>2, <1>t, <2>1, <2>3 DEF StartRun, TypeOK
    <3>2. Allowed(i)' = Allowed(i)
      BY <1>2, <2>1, <2>3 DEF StartRun, Allowed, Seen, Base
    <3> QED
      BY <1>t, <2>1, <3>1, <3>2 DEF LateInv
  <2> QED
    BY <2>2, <2>3
<1>3. CASE Work
  <2>1. /\ i \in enabled /\ now' = now + 1 /\ nextDue' = nextDue /\ Elapsed' = Elapsed + 1
        /\ Allowed(i)' = Allowed(i)
    BY <1>3, <1>t, <1>i DEF Work, Elapsed, Allowed, Seen, Base, TypeOK
  <2> QED
    BY <1>t, <1>i, <1>a, <1>e, <2>1 DEF LateInv
<1>4. CASE Switches
  <2>1. now' = now /\ Elapsed' = Elapsed /\ Allowed(i)' = Allowed(i)
    BY <1>4 DEF Switches, SwitchOn, SwitchOff, Elapsed, Allowed, Seen, Base
  <2>2. CASE \E k \in Jobs : SwitchOff(k)
    BY <1>t, <2>1, <2>2 DEF SwitchOff, LateInv
  <2>3. ASSUME NEW k \in Jobs, SwitchOn(k)
        PROVE  nextDue'[i] = now \/ (i \in enabled /\ nextDue'[i] = nextDue[i])
    <3>1. nextDue' = [nextDue EXCEPT ![k] = now] /\ enabled' = enabled \cup {k}
      BY <2>3 DEF SwitchOn
    <3>2. nextDue \in [Jobs -> Nat]
      BY <1>t DEF TypeOK
    <3> QED
      BY <1>i, <3>1, <3>2
  <2>4. CASE \E k \in Jobs : SwitchOn(k)
    <3>1. nextDue'[i] = now \/ (i \in enabled /\ nextDue'[i] = nextDue[i])
      BY <2>3, <2>4
    <3> QED
      BY <1>t, <1>i, <1>a, <1>e, <2>1, <3>1 DEF LateInv
  <2> QED
    BY <1>4, <2>2, <2>4 DEF Switches
<1>5. CASE ClearStats
  BY <1>5, <1>t DEF ClearStats, LateInv, Elapsed, Allowed, Seen, Base
<1>6. CASE EndRun
  <2>1. /\ pos \in Jobs /\ pos' = pos + 1 /\ doing' = "check" /\ i \in enabled /\ Elapsed' = 0
        /\ now' = now /\ nextDue' = nextDue
    BY <1>6, <1>t DEF EndRun, RunInv, Elapsed
  <2>2. Allowed(i)' = (IF i = pos THEN MaxRun ELSE Allowed(i) + MaxRun)
    BY <1>t, <1>i, <2>1, MoveOn
  <2>3. i = pos => Allowed(i) = 0
    BY <1>6, <1>t, <1>i, CostMore DEF EndRun, Allowed, Seen
  <2> QED
    BY <1>t, <1>i, <1>a, <1>e, <2>1, <2>2, <2>3 DEF LateInv
<1>7. CASE EndPass
  BY <1>7, <1>t DEF EndPass, LateInv, Elapsed, Allowed, Seen, Base
<1>8. CASE Wake
  <2>1. /\ pos = N + 1 /\ pos' = 1 /\ doing' = "check" /\ doing = "sleep"
        /\ i \in enabled /\ nextDue' = nextDue /\ Elapsed = 0 /\ Elapsed' = 0
    BY <1>8, <1>t DEF Wake, RunInv, Elapsed
  <2>2. i < pos /\ ~(i < pos') /\ pos' - 1 = 0
    BY <1>i, <2>1, SchedulerAssumption DEF Jobs
  <2>3. Allowed(i) = Cost(N + 1 - i) /\ Allowed(i)' = Base(i) + Cost(0)
    <3>1. ~Seen(i)' /\ Seen(i)
      BY <2>1, <2>2 DEF Seen
    <3>2. Allowed(i)' = Base(i) + Cost(pos' - 1)
      BY <3>1 DEF Allowed, Base
    <3>3. Allowed(i) = Cost(pos - i)
      BY <3>1 DEF Allowed
    <3>4. pos = N + 1 /\ pos' - 1 = 0
      BY <2>1, <2>2
    <3>5. Cost(pos - i) = Cost(N + 1 - i)
      BY <1>i, <3>4, SchedulerAssumption
    <3>6. Cost(pos' - 1) = Cost(0)
      BY <3>4
    <3> QED
      BY <3>2, <3>3, <3>5, <3>6
  <2>4. Base(i) \in Nat /\ Base(i) >= Cost(N + 1 - i) /\ Base(i) >= MaxOver /\ Cost(0) = 0
    BY <1>t, <1>i, Allowances, CostMore
  <2>5. now' = now \/ now' <= nextDue[i] + MaxOver
    BY <1>8, <1>t, <1>i, <2>1, SchedulerAssumption DEF Wake, WakeInv, TypeOK
  <2>6. now - nextDue[i] <= Allowed(i)
    BY <1>t, <1>i, <1>a, <2>1 DEF LateInv
  <2>7. now' - nextDue[i] <= Base(i)
    <3>1. now' \in Nat /\ MaxOver \in Nat /\ Cost(N + 1 - i) \in Nat
      BY <1>t, <1>a, <2>3, SchedulerAssumption DEF TypeOK
    <3> QED
      BY <1>i, <2>3, <2>4, <2>5, <2>6, <3>1
  <2> QED
    BY <1>t, <1>i, <2>1, <2>3, <2>4, <2>7
<1>9. CASE UNCHANGED vars
  BY <1>9, <1>t DEF vars, LateInv, Elapsed, Allowed, Seen, Base
<1> QED
  BY <1>1, <1>2, <1>3, <1>4, <1>5, <1>6, <1>7, <1>8, <1>9 DEF Next

\* The deadline a pass returns is at or before every enabled job's.
LEMMA WakeStep == LateIInv /\ [Next]_vars => WakeInv'
<1> SUFFICES ASSUME LateIInv, [Next]_vars, doing' = "sleep" PROVE WakeInv'
  BY DEF WakeInv
<1>1. CASE EndPass
  BY <1>1 DEF EndPass, NextDeadline, WakeInv
<1>2. CASE UNCHANGED vars
  BY <1>2 DEF vars, WakeInv, LateIInv
<1> QED
  BY <1>1, <1>2 DEF Next, Pass, StartRun, Work, Switches, SwitchOn, SwitchOff, ClearStats, EndRun, Wake

\* No enabled job is ever later than one pass of the others and one sleep,
\* whatever the load: LateBounded for every number of jobs.
THEOREM LateCorrect == Spec => []LateBounded
<1>1. Init => LateIInv
  BY TypeInit, LateInit DEF LateIInv
<1>2. LateIInv /\ [Next]_vars => LateIInv'
  BY TypeStep, RunStep, LateStep, WakeStep DEF LateIInv
<1>3. LateIInv => LateBounded
  <2> SUFFICES ASSUME LateIInv, NEW i \in enabled PROVE now - nextDue[i] <= LateLimit
    BY DEF LateBounded
  <2>1. TypeOK /\ RunInv /\ i \in Jobs /\ now - nextDue[i] <= Allowed(i) + Elapsed
    BY DEF LateIInv, LateInv, TypeOK
  <2>2. /\ i \in Nat /\ i >= 1 /\ i <= N /\ N \in Nat /\ pos \in Nat /\ pos >= 1 /\ pos <= N + 1
        /\ now \in Nat /\ nextDue[i] \in Nat /\ MaxRun \in Nat /\ MaxOver \in Nat
    BY <2>1, SchedulerAssumption DEF TypeOK, Jobs
  <2>3. Elapsed \in Nat /\ Elapsed <= (IF doing = "run" THEN MaxRun ELSE 0)
    BY <2>1, <2>2 DEF Elapsed, RunInv, TypeOK
  <2>4. Cost(N) = Cost(N - 1) + MaxRun /\ Cost(N - 1) \in Nat /\ Cost(N) \in Nat
    <3>1. N - 1 \in Nat /\ (N - 1) + 1 = N
      BY <2>2
    <3> QED
      BY <2>2, <3>1, CostMore
  <2>5. LateLimit = Larger(Cost(N), MaxOver + Cost(N - 1))
    BY DEF LateLimit, Cost
  <2>6. CASE Seen(i)
    <3>1. Cost(pos - i) + (IF doing = "run" THEN MaxRun ELSE 0) <= Cost(N)
      <4>1. CASE doing = "run"
        <5>1. pos - i \in Nat /\ pos - i <= N - 1 /\ N - 1 \in Nat
          BY <2>1, <2>2, <2>6, <4>1 DEF Seen, RunInv, Jobs
        <5> QED
          BY <2>2, <2>4, <4>1, <5>1, CostMonotone, CostMore
      <4>2. CASE doing # "run"
        <5>1. pos - i \in Nat /\ pos - i <= N
          BY <2>2, <2>6, <4>2 DEF Seen
        <5> QED
          BY <2>2, <4>2, <5>1, CostMonotone, CostMore
      <4> QED
        BY <4>1, <4>2
    <3>2. Allowed(i) = Cost(pos - i) /\ Allowed(i) \in Nat
      BY <2>1, <2>6, Allowances DEF Allowed
    <3> QED
      BY <2>1, <2>2, <2>3, <2>4, <2>5, <3>1, <3>2 DEF Larger
  <2>7. CASE ~Seen(i)
    <3>1. Cost(pos - 1) + (IF doing = "run" THEN MaxRun ELSE 0) <= Cost(i - 1)
      <4>1. CASE doing = "run"
        <5>1. pos - 1 \in Nat /\ pos - 1 + 1 = pos /\ pos <= i - 1 /\ i - 1 \in Nat
          <6>1. ~(i < pos) /\ i # pos
            BY <2>7, <4>1 DEF Seen
          <6> QED
            BY <2>2, <6>1
        <5>2. Cost(pos - 1) + MaxRun = Cost(pos)
          BY <5>1, CostMore
        <5> QED
          BY <2>2, <4>1, <5>1, <5>2, CostMonotone
      <4>2. CASE doing # "run"
        <5>1. pos - 1 \in Nat /\ pos - 1 <= i - 1 /\ i - 1 \in Nat
          <6>1. ~(i < pos)
            BY <2>7 DEF Seen
          <6> QED
            BY <2>2, <6>1
        <5> QED
          BY <2>2, <4>2, <5>1, CostMonotone, CostMore
      <4> QED
        BY <4>1, <4>2
    <3>2. Cost(N + 1 - i) + Cost(i - 1) = Cost(N) /\ Cost(N + 1 - i) \in Nat /\ Cost(i - 1) \in Nat
      <4>1. N + 1 - i \in Nat /\ i - 1 \in Nat /\ (N + 1 - i) + (i - 1) = N
        BY <2>2
      <4> QED
        BY <4>1, CostMore
    <3>3. Cost(i - 1) <= Cost(N - 1)
      <4>1. i - 1 \in Nat /\ N - 1 \in Nat /\ i - 1 <= N - 1
        BY <2>2
      <4> QED
        BY <4>1, CostMonotone
    <3>4. Base(i) + Cost(i - 1) <= LateLimit
      BY <2>2, <2>4, <2>5, <3>2, <3>3 DEF Base, Larger
    <3>5. Allowed(i) = Base(i) + Cost(pos - 1) /\ Base(i) \in Nat /\ Cost(pos - 1) \in Nat
      BY <2>1, <2>7, Allowances DEF Allowed
    <3>6. LateLimit \in Nat
      BY <2>2, <2>4, <2>5 DEF Larger
    <3> QED
      BY <2>1, <2>2, <2>3, <3>1, <3>2, <3>4, <3>5, <3>6
  <2> QED
    BY <2>6, <2>7
<1> QED
  BY <1>1, <1>2, <1>3, PTL DEF Spec
-----------------------------------------------------------------------------
\* AccountedFor, of one job.
Account(i) == nextDue[i] - origin[i] = (Counted(i, runs, skipped) - counted[i]) * Period[i]

\* Periods of two counts are those of each.
LEMMA Distributes ==
  ASSUME NEW a \in Int, NEW b \in Int, NEW p \in Int
  PROVE  (a + b) * p = a * p + b * p
OBVIOUS

\* A step accounts for every period the grid of a job moves on by.
LEMMA AccountStep == TypeOK /\ RunInv /\ AccountedFor /\ [Next]_vars => AccountedFor'
<1> SUFFICES ASSUME TypeOK, RunInv, AccountedFor, [Next]_vars, NEW i \in Jobs
             PROVE  Account(i)'
  BY DEF AccountedFor, Account
<1>i. Account(i)
  BY DEF AccountedFor, Account
<1>t. /\ nextDue[i] \in Nat /\ origin[i] \in Nat /\ runs[i] \in Nat /\ skipped[i] \in Nat
      /\ counted[i] \in Int /\ Period[i] \in Nat \ {0} /\ now \in Nat
      /\ Counted(i, runs, skipped) \in Int
  BY SchedulerAssumption DEF TypeOK, Jobs, Counted
<1>1. CASE Pass
  BY <1>1, <1>i DEF Pass, Account, Counted
<1>2. CASE StartRun
  <2>1. CASE i = pos
    <3> DEFINE m == Missed(now - nextDue[i], Period[i])
    <3>1. now >= nextDue[i] /\ now - nextDue[i] \in Nat
      BY <1>2, <1>t, <2>1 DEF StartRun
    <3>2. m \in Nat
      BY <1>t, <3>1, Division
    <3>3. nextDue'[i] = nextDue[i] + (m + 1) * Period[i] /\ skipped'[i] = skipped[i] + m
      BY <1>2, <2>1 DEF StartRun, Forward, TypeOK
    <3>4. Counted(i, runs, skipped)' = Counted(i, runs, skipped) + (m + 1)
      BY <1>2, <1>t, <2>1, <3>2, <3>3 DEF StartRun, Counted
    <3> HIDE DEF m
    <3>5. Period[i] \in Int /\ m + 1 \in Int /\ (Counted(i, runs, skipped) - counted[i]) \in Int
      BY <1>t, <3>2
    <3>6. (Counted(i, runs, skipped)' - counted[i]) = (Counted(i, runs, skipped) - counted[i]) + (m + 1)
      BY <1>t, <3>2, <3>4
    <3>7. ((Counted(i, runs, skipped) - counted[i]) + (m + 1)) * Period[i]
            = (Counted(i, runs, skipped) - counted[i]) * Period[i] + (m + 1) * Period[i]
      BY <3>5, Distributes
    <3>8. (Counted(i, runs, skipped)' - counted[i]) * Period[i]
            = (Counted(i, runs, skipped) - counted[i]) * Period[i] + (m + 1) * Period[i]
      BY <3>6, <3>7
    <3>9. (m + 1) * Period[i] \in Int
      BY <1>t, <3>2
    <3>10. origin' = origin /\ counted' = counted
      BY <1>2 DEF StartRun
    <3> QED
      BY <1>i, <1>t, <3>3, <3>8, <3>9, <3>10 DEF Account
  <2>2. CASE i # pos
    <3>1. nextDue'[i] = nextDue[i] /\ skipped'[i] = skipped[i]
      BY <1>2, <2>2 DEF StartRun, TypeOK
    <3> QED
      BY <1>2, <1>i, <2>2, <3>1 DEF StartRun, Account, Counted
  <2> QED
    BY <2>1, <2>2
<1>3. CASE Work
  BY <1>3, <1>i DEF Work, Account, Counted
<1>4. CASE Switches
  <2>1. CASE \E k \in Jobs : SwitchOff(k)
    BY <2>1, <1>i DEF SwitchOff, Account, Counted
  <2>2. ASSUME NEW k \in Jobs, SwitchOn(k) PROVE Account(i)'
    <3>1. CASE i = k
      <4>1. nextDue'[i] = now /\ origin'[i] = now /\ counted'[i] = Counted(i, runs, skipped)
        BY <2>2, <3>1 DEF SwitchOn, TypeOK
      <4>2. Counted(i, runs, skipped)' = Counted(i, runs, skipped)
        BY <2>2 DEF SwitchOn, Counted
      <4> QED
        BY <1>t, <4>1, <4>2 DEF Account
    <3>2. CASE i # k
      <4>1. nextDue'[i] = nextDue[i] /\ origin'[i] = origin[i] /\ counted'[i] = counted[i]
        BY <2>2, <3>2 DEF SwitchOn, TypeOK
      <4> QED
        BY <2>2, <1>i, <4>1 DEF SwitchOn, Account, Counted
    <3> QED
      BY <3>1, <3>2
  <2> QED
    BY <1>4, <2>1, <2>2 DEF Switches
<1>5. CASE ClearStats
  <2>1. runs'[i] = 0 /\ skipped'[i] = 0 /\ counted'[i] = counted[i] - runs[i] - skipped[i]
    BY <1>5 DEF ClearStats
  <2>2. Counted(i, runs, skipped)' - counted'[i] = Counted(i, runs, skipped) - counted[i]
    BY <1>5, <1>t, <2>1 DEF ClearStats, Counted
  <2> QED
    BY <1>5, <1>i, <2>2 DEF ClearStats, Account
<1>6. CASE EndRun
  <2>1. runs'[i] = runs[i] + (IF pos = i THEN 1 ELSE 0)
    BY <1>6, <1>t DEF EndRun, TypeOK
  <2>2. Counted(i, runs, skipped)' = Counted(i, runs, skipped)
    BY <1>6, <1>t, <2>1 DEF EndRun, Counted
  <2> QED
    BY <1>6, <1>i, <2>2 DEF EndRun, Account
<1>7. CASE EndPass
  BY <1>7, <1>i DEF EndPass, Account, Counted
<1>8. CASE Wake
  BY <1>8, <1>i DEF Wake, Account, Counted
<1>9. CASE UNCHANGED vars
  BY <1>9, <1>i DEF vars, Account, Counted
<1> QED
  BY <1>1, <1>2, <1>3, <1>4, <1>5, <1>6, <1>7, <1>8, <1>9 DEF Next

\* Every period of every job's grid is a run or a skip, exactly once, and its
\* deadline never leaves the grid: AccountedFor for any jobs and run times.
THEOREM AccountCorrect == Spec => []AccountedFor
<1>1. Init => TypeOK /\ RunInv /\ AccountedFor
  <2>1. Init => AccountedFor
    BY SchedulerAssumption DEF Init, AccountedFor, Counted, Jobs
  <2> QED
    BY <2>1, TypeInit
<1>2. TypeOK /\ RunInv /\ AccountedFor /\ [Next]_vars => (TypeOK /\ RunInv /\ AccountedFor)'
  BY TypeStep, RunStep, AccountStep
<1> QED
  BY <1>1, <1>2, PTL DEF Spec

\* Clocks, counters and deadlines stay in their types, whatever the jobs do.
THEOREM TypeCorrect == Spec => []TypeOK
<1>1. TypeOK /\ RunInv => TypeOK
  OBVIOUS
<1> QED
  BY <1>1, TypesAndRuns, PTL
-----------------------------------------------------------------------------
(* What the loop sleeps for, and for how long.                             *)

\* Some job is on, and no job's next run is further off than its period.
DueInv ==
  /\ enabled # {}
  /\ \A i \in Jobs : nextDue[i] <= now + Period[i]
  /\ SleepsForAJob

\* The grid's next point is at most a period ahead.
LEMMA ForwardNear ==
  ASSUME NEW due \in Nat, NEW t \in Nat, t >= due, NEW period \in Nat \ {0}
  PROVE  Forward(due, t - due, period) <= t + period
<1>1. t - due \in Nat
  OBVIOUS
<1>2. PICK m \in Nat : m = Missed(t - due, period) /\ m * period <= t - due
  BY <1>1, Division
<1>3. (m + 1) * period = m * period + period /\ m * period \in Nat
  BY <1>2
<1> QED
  BY <1>2, <1>3 DEF Forward

LEMMA DueInit == Init => DueInv
<1> SUFFICES ASSUME Init PROVE DueInv
  OBVIOUS
<1>1. enabled # {} /\ SleepsForAJob
  <2>1. enabled \in (SUBSET Jobs) \ {{}} /\ doing = "check"
    BY DEF Init
  <2> QED
    BY <2>1 DEF SleepsForAJob
<1>2. ASSUME NEW i \in Jobs PROVE nextDue[i] <= now + Period[i]
  <2>1. nextDue[i] = 0 /\ now = 0
    BY <1>2 DEF Init
  <2>2. Period[i] \in Nat
    BY SchedulerAssumption DEF Jobs
  <2> QED
    BY <2>1, <2>2
<1> QED
  BY <1>1, <1>2 DEF DueInv

LEMMA DueStep == TypeOK /\ RunInv /\ DueInv /\ [Next]_vars => DueInv'
<1> SUFFICES ASSUME TypeOK, RunInv, DueInv, [Next]_vars PROVE DueInv'
  OBVIOUS
<1>0. /\ now \in Nat /\ wake \in Nat /\ nextDue \in [Jobs -> Nat]
      /\ \A i \in Jobs : Period[i] \in Nat \ {0}
  BY SchedulerAssumption DEF TypeOK, Jobs
<1>1. CASE Pass
  BY <1>1 DEF Pass, DueInv, SleepsForAJob
<1>2. CASE StartRun
  <2>1. PICK p \in Jobs : p = pos /\ nextDue[p] <= now
    BY <1>2, DueJob
  <2>2. nextDue' = [nextDue EXCEPT ![p] = Forward(nextDue[p], now - nextDue[p], Period[p])]
    BY <1>2, <2>1 DEF StartRun
  <2>3. Forward(nextDue[p], now - nextDue[p], Period[p]) <= now + Period[p]
    BY <1>0, <2>1, ForwardNear
  <2>4. \A i \in Jobs : nextDue'[i] <= now + Period[i]
    BY <1>0, <2>1, <2>2, <2>3 DEF DueInv
  <2> QED
    BY <1>2, <2>4 DEF StartRun, DueInv, SleepsForAJob
<1>3. CASE Work
  <2>1. now' = now + 1 /\ UNCHANGED <<nextDue, enabled, doing>> /\ doing = "run"
    BY <1>3 DEF Work
  <2> QED
    BY <1>0, <2>1 DEF DueInv, SleepsForAJob
<1>4. CASE Switches
  <2>1. ASSUME NEW i \in Jobs, SwitchOn(i) PROVE DueInv'
    BY <1>0, <2>1 DEF SwitchOn, DueInv, SleepsForAJob
  <2>2. ASSUME NEW i \in Jobs, SwitchOff(i) PROVE DueInv'
    BY <1>0, <2>2 DEF SwitchOff, DueInv, SleepsForAJob
  <2> QED
    BY <1>4, <2>1, <2>2 DEF Switches
<1>5. CASE ClearStats
  BY <1>5 DEF ClearStats, DueInv, SleepsForAJob
<1>6. CASE EndRun
  BY <1>6 DEF EndRun, DueInv, SleepsForAJob
<1>7. CASE EndPass
  <2>1. PICK i \in enabled : wake' = nextDue[i]
    BY <1>7 DEF EndPass, NextDeadline
  <2>2. UNCHANGED <<now, nextDue, enabled>>
    BY <1>7 DEF EndPass
  <2> QED
    BY <1>0, <2>1, <2>2 DEF DueInv, SleepsForAJob
<1>8. CASE Wake
  <2>1. now' \in Nat /\ now' >= now
    BY <1>0, <1>8, SchedulerAssumption DEF Wake
  <2>2. UNCHANGED <<nextDue, enabled>> /\ doing' = "check"
    BY <1>8 DEF Wake
  <2> QED
    BY <1>0, <2>1, <2>2 DEF DueInv, SleepsForAJob
<1>9. CASE UNCHANGED vars
  BY <1>9 DEF vars, DueInv, SleepsForAJob
<1> QED
  BY <1>1, <1>2, <1>3, <1>4, <1>5, <1>6, <1>7, <1>8, <1>9 DEF Next

\* A sleeping loop waits for a job that is on, and only while none is due, for
\* any jobs and however they are switched.
THEOREM SleepCorrect == Spec => []SleepsForAJob
<1>1. TypeOK /\ RunInv /\ DueInv /\ [Next]_vars => (TypeOK /\ RunInv /\ DueInv)'
  BY TypeStep, RunStep, DueStep
<1>2. TypeOK /\ RunInv /\ DueInv => SleepsForAJob
  BY DEF DueInv
<1> QED
  BY <1>1, <1>2, TypeInit, DueInit, PTL DEF Spec
-----------------------------------------------------------------------------
(* The counter extended to 64 bits.                                        *)

\* The scheduler over the counter is the scheduler.
THEOREM ClockedIsScheduler == ClockedSpec => Spec
<1>1. ClockedInit => Init
  BY DEF ClockedInit
<1>2. [ClockedNext]_<<vars, clock>> => [Next]_vars
  BY DEF ClockedNext, Reading, Silent, Next, Switches
<1> QED
  BY <1>1, <1>2, PTL DEF ClockedSpec, Spec

\* What the clock was at the last read, and that a wrap cannot have been missed
\* since: a job reads at its start, and a pass that gets to a sleep has read.
ClockInv ==
  /\ wraps \in Nat /\ last \in 0 .. Wrap - 1
  /\ Returned <= now /\ now < Returned + Wrap
  /\ doing = "run" => begin <= Returned
  /\ doing = "check" /\ Returned # now => \A i \in enabled : i >= pos
  /\ doing = "sleep" => Returned = now

\* One wrap at most lies between two reads, and it is seen.
LEMMA OneWrap ==
  ASSUME NEW w \in Nat \ {0}, NEW t \in Nat, NEW k \in Nat, NEW l \in 0 .. w - 1,
         k * w + l <= t, t < k * w + l + w
  PROVE  \E c \in 0 .. w - 1 :
           c = t % w /\ (c < l => (k + 1) * w + c = t) /\ (c >= l => k * w + c = t)
<1>1. PICK q \in Nat, c \in 0 .. w - 1 : q = t \div w /\ c = t % w /\ t = q * w + c
  OBVIOUS
<1>2. ASSUME q < k PROVE FALSE
  <2>1. (q + 1) * w <= k * w
    <3>1. PICK d \in Nat : k = q + 1 + d
      <4>1. k - (q + 1) \in Nat
        BY <1>2
      <4> QED
        BY <4>1
    <3>2. (q + 1 + d) * w = (q + 1) * w + d * w /\ d * w \in Nat
      OBVIOUS
    <3> QED
      BY <3>1, <3>2
  <2>2. (q + 1) * w = q * w + w
    OBVIOUS
  <2> QED
    BY <1>1, <2>1, <2>2
<1>3. ASSUME q > k + 1 PROVE FALSE
  <2>1. (k + 2) * w <= q * w
    <3>1. PICK d \in Nat : q = k + 2 + d
      <4>1. q - (k + 2) \in Nat
        BY <1>3
      <4> QED
        BY <4>1
    <3>2. (k + 2 + d) * w = (k + 2) * w + d * w /\ d * w \in Nat
      OBVIOUS
    <3> QED
      BY <3>1, <3>2
  <2>2. (k + 2) * w = k * w + w + w /\ k * w \in Nat
    OBVIOUS
  <2> QED
    BY <1>1, <2>1, <2>2
<1>4. CASE q = k
  BY <1>1, <1>4
<1>5. CASE q = k + 1
  <2>1. (k + 1) * w = k * w + w /\ k * w \in Nat
    OBVIOUS
  <2>2. c < l
    BY <1>1, <1>5, <2>1
  <2> QED
    BY <1>1, <1>5, <2>2
<1> QED
  BY <1>2, <1>3, <1>4, <1>5

\* A read returns the time.
LEMMA ReadsTrue ==
  ASSUME now \in Nat, ClockInv, ReadClock
  PROVE  wraps' \in Nat /\ last' \in 0 .. Wrap - 1 /\ Returned' = now
<1>1. Wrap \in Nat \ {0}
  BY WrapAssumption
<1>2. wraps \in Nat /\ last \in 0 .. Wrap - 1
  BY DEF ClockInv
<1>3. wraps * Wrap + last <= now /\ now < wraps * Wrap + last + Wrap
  BY DEF ClockInv, Returned
<1>4. last' = now % Wrap /\ wraps' = (IF last' < last THEN wraps + 1 ELSE wraps)
  BY DEF ReadClock, Wrapped
<1>5. last' \in 0 .. Wrap - 1 /\ wraps' * Wrap + last' = now
  <2>1. PICK w \in Nat \ {0}, t \in Nat, k \in Nat : w = Wrap /\ t = now /\ k = wraps
    BY <1>1, <1>2
  <2>2. PICK l \in 0 .. w - 1 : l = last
    BY <1>2, <2>1
  <2>3. k * w + l <= t /\ t < k * w + l + w
    BY <1>3, <2>1, <2>2
  <2>4. last' = t % w /\ wraps' = (IF last' < l THEN k + 1 ELSE k)
    BY <1>4, <2>1, <2>2
  <2>5. PICK c \in 0 .. w - 1 :
          c = t % w /\ (c < l => (k + 1) * w + c = t) /\ (c >= l => k * w + c = t)
    BY <2>3, OneWrap
  <2>6. c < l \/ c >= l
    OBVIOUS
  <2> QED
    BY <2>1, <2>4, <2>5, <2>6
<1> QED
  BY <1>2, <1>4, <1>5 DEF Returned

LEMMA ClockInit == ClockedInit => ClockInv
<1> SUFFICES ASSUME ClockedInit PROVE ClockInv
  OBVIOUS
<1>1. Wrap \in Nat \ {0}
  BY WrapAssumption
<1>2. Returned = 0
  BY <1>1 DEF ClockedInit, Returned
<1> QED
  BY <1>1, <1>2 DEF ClockedInit, Init, ClockInv

\* A step that reads.
LEMMA ClockRead ==
  ASSUME TypeOK, RunInv, DueInv, ClockInv, Reading, ReadClock
  PROVE  ClockInv' /\ Returned' = now
<1>1. /\ wraps' \in Nat /\ last' \in 0 .. Wrap - 1 /\ Returned' = now
      /\ now \in Nat /\ begin \in Nat /\ wake \in Nat /\ Wrap \in Nat \ {0}
  BY ReadsTrue, WrapAssumption DEF TypeOK
<1>2. CASE now' = now /\ doing' \in {"check", "run"} /\ (doing' = "run" => begin' <= now)
  BY <1>1, <1>2 DEF ClockInv
<1>3. CASE Wake
  <2>1. now' \in Nat /\ now' >= now /\ now' < now + Wrap
    <3>1. PICK i \in Jobs : wake = nextDue[i]
      BY <1>3 DEF DueInv, SleepsForAJob, Wake, TypeOK
    <3>2. /\ wake <= now + Period[i] /\ Period[i] \in Nat
          /\ Wrap > Period[i] + MaxOver /\ MaxOver \in Nat
      BY <3>1, SchedulerAssumption, WrapAssumption DEF DueInv, Jobs
    <3>3. now' = now \/ now' \in now + 1 .. wake + MaxOver
      BY <1>3 DEF Wake
    <3> QED
      BY <1>1, <3>2, <3>3
  <2>2. doing' = "check" /\ pos' = 1 /\ enabled' = enabled
    BY <1>3 DEF Wake
  <2>3. \A i \in enabled : i >= 1
    BY DEF TypeOK, Jobs
  <2> QED
    BY <1>1, <2>1, <2>2, <2>3 DEF ClockInv
<1>4. CASE Pass \/ StartRun \/ EndRun
  <2>1. now' = now /\ doing' \in {"check", "run"} /\ (doing' = "run" => begin' <= now)
    BY <1>1, <1>4 DEF Pass, StartRun, EndRun
  <2> QED
    BY <1>1, <1>2, <2>1
<1>5. ASSUME NEW i \in Jobs, SwitchOn(i) PROVE ClockInv'
  <2>1. now' = now /\ doing' = "run" /\ begin' = begin /\ begin <= now
    BY <1>5 DEF SwitchOn, RunInv
  <2> QED
    BY <1>1, <1>2, <2>1
<1> QED
  BY <1>1, <1>3, <1>4, <1>5 DEF Reading

\* A step that does not.
LEMMA ClockSilent ==
  ASSUME TypeOK, RunInv, DueInv, ClockInv, Silent, UNCHANGED clock
  PROVE  ClockInv' /\ ~Reading
<1>1. /\ now \in Nat /\ begin \in Nat /\ pos \in 1 .. N + 1 /\ N \in Nat /\ Wrap \in Nat
      /\ MaxRun \in Nat /\ Wrap > MaxRun /\ enabled \subseteq 1 .. N
  BY SchedulerAssumption, WrapAssumption DEF TypeOK, Jobs
<1>2. wraps' = wraps /\ last' = last /\ Returned' = Returned
  BY DEF clock, Returned
<1>3. PICK r \in Nat : r = Returned
  <2>1. wraps \in Nat /\ last \in Nat
    BY <1>1 DEF ClockInv
  <2>2. wraps * Wrap \in Nat
    BY <1>1, <2>1
  <2> QED
    BY <2>1, <2>2 DEF Returned
<1>4. CASE Pass /\ pos \notin enabled
  BY <1>1, <1>2, <1>3, <1>4 DEF Pass, ClockInv, Reading, StartRun, EndRun, Wake, SwitchOn
<1>5. CASE Work
  <2>1. doing = "run" /\ now < begin + MaxRun /\ now' = now + 1 /\ UNCHANGED <<doing, begin>>
    BY <1>5 DEF Work
  <2>2. r <= now /\ begin <= r
    BY <1>3, <2>1 DEF ClockInv
  <2>3. r <= now + 1 /\ now + 1 < r + Wrap
    BY <1>1, <2>1, <2>2
  <2>4. ClockInv'
    BY <1>2, <1>3, <2>1, <2>2, <2>3 DEF ClockInv
  <2>5. ~Reading
    BY <1>1, <2>1 DEF Reading, Pass, StartRun, EndRun, Wake, SwitchOn
  <2> QED
    BY <2>4, <2>5
<1>6. CASE ClearStats
  <2>1. ClockInv'
    BY <1>2, <1>6 DEF ClearStats, ClockInv
  <2>2. ~Reading
    BY <1>6 DEF ClearStats, Reading, Pass, StartRun, EndRun, Wake, SwitchOn
  <2> QED
    BY <2>1, <2>2
<1>7. CASE EndPass
  <2>1. Returned = now
    <3>1. PICK i \in enabled : TRUE
      BY DEF DueInv
    <3>2. ~(i >= pos)
      BY <1>1, <1>7 DEF EndPass
    <3> QED
      BY <1>7, <3>2 DEF ClockInv, EndPass
  <2>2. ClockInv'
    BY <1>2, <1>7, <2>1 DEF EndPass, ClockInv
  <2>3. ~Reading
    BY <1>1, <1>7 DEF EndPass, Reading, Pass, StartRun, EndRun, Wake, SwitchOn
  <2> QED
    BY <2>2, <2>3
<1>8. ASSUME NEW i \in Jobs, SwitchOff(i) PROVE ClockInv' /\ ~Reading
  <2>1. ClockInv'
    BY <1>2, <1>8 DEF SwitchOff, ClockInv
  <2>2. ~Reading
    BY <1>8 DEF SwitchOff, Reading, Pass, StartRun, EndRun, Wake, SwitchOn
  <2> QED
    BY <2>1, <2>2
<1> QED
  BY <1>4, <1>5, <1>6, <1>7, <1>8 DEF Silent

\* The scheduler's own reads see every wrap of the counter, once, however long
\* its jobs run and it sleeps within what the counter lasts.
THEOREM ClockCorrect == ClockedSpec => ClockTrue
<1>1. ClockedInit => TypeOK /\ RunInv /\ DueInv /\ ClockInv
  BY TypeInit, DueInit, ClockInit DEF ClockedInit
<1>2. TypeOK /\ RunInv /\ DueInv /\ ClockInv /\ [ClockedNext]_<<vars, clock>>
        => /\ (TypeOK /\ RunInv /\ DueInv /\ ClockInv)'
           /\ [Reading => Returned' = now]_<<vars, clock>>
  <2> SUFFICES ASSUME TypeOK, RunInv, DueInv, ClockInv, [ClockedNext]_<<vars, clock>>
               PROVE  /\ (TypeOK /\ RunInv /\ DueInv /\ ClockInv)'
                      /\ [Reading => Returned' = now]_<<vars, clock>>
    OBVIOUS
  <2>1. [Next]_vars
    BY DEF ClockedNext, Reading, Silent, Next, Switches
  <2>2. (TypeOK /\ RunInv /\ DueInv)'
    BY <2>1, TypeStep, RunStep, DueStep
  <2>3. CASE Reading /\ ReadClock
    BY <2>2, <2>3, ClockRead
  <2>4. CASE Silent /\ UNCHANGED clock
    BY <2>2, <2>4, ClockSilent
  <2>5. CASE UNCHANGED <<vars, clock>>
    <3>1. ClockInv'
      BY <2>5 DEF vars, clock, ClockInv, Returned
    <3> QED
      BY <2>2, <2>5, <3>1
  <2> QED
    BY <2>3, <2>4, <2>5 DEF ClockedNext
<1> QED
  BY <1>1, <1>2, PTL DEF ClockedSpec, ClockTrue
=============================================================================
