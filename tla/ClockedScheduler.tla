--------------------------- MODULE ClockedScheduler ---------------------------
(***************************************************************************)
(* The scheduler over platform/nrf52840/Clock.cpp: a 32-bit counter made   *)
(* into 64 bits by counting the wraps that the reads notice.  Only the     *)
(* reads the scheduler itself makes are counted on; what a job reads       *)
(* besides can only shorten the gaps.                                      *)
(***************************************************************************)
EXTENDS Scheduler

CONSTANT Wrap   \* the counter's range: 2^32 microseconds in the code

\* The counter wraps every 71 minutes: no job runs that long (the watchdog bites
\* after 5 s), and no sleep to a job's next period lasts that long.
ASSUME WrapAssumption ==
  /\ Wrap \in Nat \ {0}
  /\ Wrap > MaxRun
  /\ \A i \in 1 .. N : Wrap > Period[i] + MaxOver

VARIABLES last, wraps   \* nowUs()'s statics

clock == <<last, wraps>>

WrapsOnEqual(c) == c <= last

\* A counter that reads less than before has wrapped.
Wrapped(c) == c < last

\* nowUs()
ReadClock ==
  LET c == now % Wrap
  IN  /\ wraps' = IF Wrapped(c) THEN wraps + 1 ELSE wraps
      /\ last' = c

\* What nowUs() returned.
Returned == wraps * Wrap + last

ClockedInit == Init /\ last = 0 /\ wraps = 0

\* The steps that begin with a read: a due check of an enabled job, its start and
\* its end, setEnabled() switching on, and sleepUntilUs().
Reading ==
  \/ Pass /\ pos \in enabled
  \/ StartRun \/ EndRun \/ Wake
  \/ \E i \in Jobs : SwitchOn(i)

\* And those that do not read.
Silent ==
  \/ Pass /\ pos \notin enabled
  \/ Work \/ ClearStats \/ EndPass
  \/ \E i \in Jobs : SwitchOff(i)

ClockedNext == (Reading /\ ReadClock) \/ (Silent /\ UNCHANGED clock)

ClockedSpec == ClockedInit /\ [][ClockedNext]_<<vars, clock>>
-----------------------------------------------------------------------------
\* The scheduler by itself reads the clock often enough: whatever the jobs take
\* and however long the loop sleeps, no wrap of the counter goes unseen and none
\* is counted twice, so every time it acts on is the true one.
ClockTrue == [][Reading => Returned' = now]_<<vars, clock>>
=============================================================================
