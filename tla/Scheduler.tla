------------------------------ MODULE Scheduler ------------------------------
(***************************************************************************)
(* core/Scheduler.h: fixed-rate cooperative jobs in priority order, over a *)
(* clock that moves while a job runs and while the loop sleeps.  A job may *)
(* take any time up to MaxRun and, while it runs, switch jobs on and off   *)
(* (App::setJobs) or clear the statistics (App::clearStats).  The checks   *)
(* between two jobs take no time of their own: MaxRun covers them.         *)
(***************************************************************************)
EXTENDS Integers

CONSTANTS
  N,         \* the number of jobs; a lower number is a higher priority
  Period,    \* periodUs of each job
  MaxRun,    \* the longest a job runs
  MaxOver,   \* the longest sleepUntilUs overshoots its deadline
  Horizon    \* bound: the clock stops here

ASSUME SchedulerAssumption ==
  /\ N \in Nat \ {0}
  /\ Period \in [1 .. N -> Nat \ {0}]     \* jobSpecsValid
  /\ MaxRun \in Nat /\ MaxOver \in Nat /\ Horizon \in Nat

VARIABLES
  now,             \* Clock::nowUs()
  nextDue,         \* nextDue_
  enabled,         \* the jobs with enabled_ set
  doing,           \* "check" or "run" a job in a pass, or "sleep" between two
  pos,             \* the job the pass is at; N + 1 when it has seen them all
  begin,           \* when the running job started
  wake,            \* what the last tick() returned
  runs, skipped,   \* JobStats
  origin, counted  \* history: where each job's grid starts, what was counted then

vars == <<now, nextDue, enabled, doing, pos, begin, wake, runs, skipped, origin, counted>>

Jobs == 1 .. N

TypeOK ==
  /\ now \in Nat /\ begin \in Nat /\ wake \in Nat
  /\ nextDue \in [Jobs -> Nat]
  /\ enabled \subseteq Jobs
  /\ doing \in {"check", "run", "sleep"}
  /\ pos \in 1 .. N + 1
  /\ runs \in [Jobs -> Nat] /\ skipped \in [Jobs -> Nat]
  /\ origin \in [Jobs -> Nat] /\ counted \in [Jobs -> Int]

\* start(): every grid starts now, at the first pass.  The app enables some job.
Init ==
  /\ now = 0 /\ begin = 0 /\ wake = 0
  /\ nextDue = [i \in Jobs |-> 0]
  /\ enabled \in (SUBSET Jobs) \ {{}}
  /\ doing = "check" /\ pos = 1
  /\ runs = [i \in Jobs |-> 0] /\ skipped = [i \in Jobs |-> 0]
  /\ origin = [i \in Jobs |-> 0] /\ counted = [i \in Jobs |-> 0]
-----------------------------------------------------------------------------
MissedNone(late, period) == 0

MissedOneFewer(late, period) == (late \div period) - 1

\* How many whole periods a run starting late has missed.
Missed(late, period) == late \div period

DriftForward(due, late, period) == due + late + period

\* The first deadline of the grid after a run starting late.
Forward(due, late, period) == due + (Missed(late, period) + 1) * period

\* Disabled, or not due yet.
Pass ==
  /\ doing = "check" /\ pos <= N
  /\ pos \notin enabled \/ now < nextDue[pos]
  /\ pos' = pos + 1
  /\ UNCHANGED <<now, nextDue, enabled, doing, begin, wake, runs, skipped, origin, counted>>

\* Due: back onto the grid first, then run.
StartRun ==
  /\ doing = "check" /\ pos <= N
  /\ pos \in enabled /\ now >= nextDue[pos]
  /\ LET late == now - nextDue[pos]
     IN  /\ skipped' = [skipped EXCEPT ![pos] = @ + Missed(late, Period[pos])]
         /\ nextDue' = [nextDue EXCEPT ![pos] = Forward(@, late, Period[pos])]
  /\ begin' = now /\ doing' = "run"
  /\ UNCHANGED <<now, enabled, pos, wake, runs, origin, counted>>

Work ==
  /\ doing = "run"
  /\ now < Horizon /\ now < begin + MaxRun
  /\ now' = now + 1
  /\ UNCHANGED <<nextDue, enabled, doing, pos, begin, wake, runs, skipped, origin, counted>>

\* What job i is accounted for: its runs, the one under way included.
Counted(i, run, skip) == run[i] + skip[i] + (IF doing = "run" /\ pos = i THEN 1 ELSE 0)

\* setEnabled(i, on): switching on a job that was off restarts its grid now.
\* A job that gets to App::setJobs has read its inputs by then, so a microsecond
\* clock has moved; without it a job could switch for ever at one instant (bound).
SwitchOn(i) ==
  /\ doing = "run" /\ now > begin /\ i \notin enabled
  /\ enabled' = enabled \cup {i}
  /\ nextDue' = [nextDue EXCEPT ![i] = now]
  /\ origin' = [origin EXCEPT ![i] = now]
  /\ counted' = [counted EXCEPT ![i] = Counted(i, runs, skipped)]
  /\ UNCHANGED <<now, doing, pos, begin, wake, runs, skipped>>

\* At least one job stays enabled.
SwitchOff(i) ==
  /\ doing = "run" /\ now > begin /\ i \in enabled /\ enabled # {i}
  /\ enabled' = enabled \ {i}
  /\ UNCHANGED <<now, nextDue, doing, pos, begin, wake, runs, skipped, origin, counted>>

\* clearStats(), from inside a job: that job's run is counted after it.
ClearStats ==
  /\ doing = "run"
  /\ runs' = [i \in Jobs |-> 0] /\ skipped' = [i \in Jobs |-> 0]
  /\ counted' = [i \in Jobs |-> counted[i] - runs[i] - skipped[i]]
  /\ UNCHANGED <<now, nextDue, enabled, doing, pos, begin, wake, origin>>

EndRun ==
  /\ doing = "run"
  /\ runs' = [runs EXCEPT ![pos] = @ + 1]
  /\ doing' = "check" /\ pos' = pos + 1
  /\ UNCHANGED <<now, nextDue, enabled, begin, wake, skipped, origin, counted>>

NextDeadlineOfAll(w) == \E i \in Jobs : w = nextDue[i] /\ \A j \in Jobs : w <= nextDue[j]

\* The earliest deadline among the enabled jobs.
NextDeadline(w) ==
  \E i \in enabled : w = nextDue[i] /\ \A j \in enabled : w <= nextDue[j]

EndPass ==
  /\ doing = "check" /\ pos = N + 1
  /\ \E w \in {nextDue[i] : i \in Jobs} : NextDeadline(w) /\ wake' = w
  /\ doing' = "sleep"
  /\ UNCHANGED <<now, nextDue, enabled, pos, begin, runs, skipped, origin, counted>>

\* sleepUntilUs: not at all if the deadline has passed; else whole ticks, at
\* least one, which may end before the deadline or after it.
Wake ==
  /\ doing = "sleep"
  /\ \/ wake <= now /\ UNCHANGED now
     \/ wake > now /\ now' \in now + 1 .. wake + MaxOver /\ now' <= Horizon
  /\ doing' = "check" /\ pos' = 1
  /\ UNCHANGED <<nextDue, enabled, begin, wake, runs, skipped, origin, counted>>
-----------------------------------------------------------------------------
Switches == \E i \in Jobs : SwitchOn(i) \/ SwitchOff(i)

Next == Pass \/ StartRun \/ Work \/ Switches \/ ClearStats \/ EndRun \/ EndPass \/ Wake

Spec == Init /\ [][Next]_vars
-----------------------------------------------------------------------------
(* Properties.                                                             *)

Larger(a, b) == IF a >= b THEN a ELSE b

\* What one pass and one sleep can cost a job.
LateLimit == Larger(N * MaxRun, MaxOver + (N - 1) * MaxRun)

\* No enabled job is ever later than one pass of the others, however overloaded
\* the loop is, whatever its priority and whoever switches it on: missed periods
\* are given up, never made up for, so no job can starve another.
LateBounded == \A i \in enabled : now - nextDue[i] <= LateLimit

\* Every period of a job's grid is accounted for exactly once, as a run or as
\* skipped, across overruns, switching off and on, and clearing the statistics
\* in the middle of a pass; and its deadline stays on the grid.
AccountedFor ==
  \A i \in Jobs :
    nextDue[i] - origin[i] = (Counted(i, runs, skipped) - counted[i]) * Period[i]

\* A loop with nothing due sleeps: the deadline it was given is ahead of it (a
\* disabled job's stale one would keep it spinning), and it wakes for a job
\* that is enabled.
SleepsForAJob ==
  doing = "sleep" =>
    /\ \E i \in enabled : wake = nextDue[i]
    /\ (\A i \in enabled : nextDue[i] > now) => wake > now
=============================================================================
