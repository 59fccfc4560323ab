------------------------------- MODULE GnssFeed -------------------------------
(***************************************************************************)
(* core/GnssFeed.h, GnssEpoch.h and GnssSpeedGate.h: what is kept of the   *)
(* epochs the receiver sends, one due in every tick.  An epoch says        *)
(* whether its fix is good and whether it saw the vehicle stand, and when  *)
(* it was measured, as a time of week (iTOW) that may be off its grid by   *)
(* less than half a period and jumps when the receiver gets the time.      *)
(***************************************************************************)
EXTENDS Integers

CONSTANTS
  StaleAfter,  \* staleAfterUs_, in ticks
  Silence,     \* silenceUs_, in ticks
  Period,      \* periodMs_
  Week,        \* kWeekMs
  MaxGap,      \* kMaxGapMs
  Width        \* the range of the counters: 2^32 in the code

ASSUME FeedAssumption ==
  /\ StaleAfter \in Nat \ {0} /\ Silence \in Nat \ {0} /\ StaleAfter <= Silence
  /\ Period \in Nat \ {0} /\ Week \in Nat \ {0} /\ MaxGap \in Nat
  /\ Width \in Nat \ {0, 1}
  /\ Week % Period = 0
  /\ Silence * Period + Period \div 2 <= MaxGap /\ MaxGap < Week  \* kGnssSilenceMs < kMaxGapMs

VARIABLES
  haveEpoch,          \* haveEpoch_
  age,                \* ticks since the last epoch, or since the first check (armedUs_)
  fixOk, stands,      \* fixOk_, and whether speedMps_ is within the trim's limit
  have, lastTow,      \* EpochTracker: have_, lastITowMs_
  missed, timeSteps,  \* and its counters
  tow,                \* the receiver: its clock at the epoch due now, on the grid
  gone                \* history: epochs lost since the last one fed

feed == <<haveEpoch, age, fixOk, stands, have, lastTow, missed, timeSteps>>
sender == <<tow, gone>>

FeedTypeOK ==
  /\ haveEpoch \in BOOLEAN /\ age \in 0 .. Silence
  /\ fixOk \in BOOLEAN /\ stands \in BOOLEAN
  /\ have \in BOOLEAN /\ lastTow \in 0 .. Week - 1
  /\ missed \in 0 .. Width - 1 /\ timeSteps \in 0 .. Width - 1
  /\ tow \in 0 .. Week - 1 /\ tow % Period = 0 /\ gone \in Nat

FeedInit ==
  /\ haveEpoch = FALSE /\ age = 0 /\ fixOk = FALSE /\ stands = FALSE
  /\ have = FALSE /\ lastTow = 0 /\ missed = 0 /\ timeSteps = 0

\* The same, at a restart of the device.
FeedAnew ==
  /\ haveEpoch' = FALSE /\ age' = 0 /\ fixOk' = FALSE /\ stands' = FALSE
  /\ have' = FALSE /\ lastTow' = 0 /\ missed' = 0 /\ timeSteps' = 0

SenderInit == tow = 0 /\ gone = 0

Add(n, k) == (n + k) % Width
-----------------------------------------------------------------------------
(* EpochTracker.                                                           *)

SinceNoWrap(t) == IF t >= lastTow THEN t - lastTow ELSE Week - lastTow

\* From the last iTOW to this one, across the end of the week.
Since(t) == IF t >= lastTow THEN t - lastTow ELSE t + Week - lastTow

\* The periods in a gap, to the nearest.
Slots(dt) == (dt + Period \div 2) \div Period

\* feed(): a gap beyond kMaxGapMs is a step of the receiver's clock.
Track(t) ==
  /\ IF ~have THEN UNCHANGED <<missed, timeSteps>>
     ELSE IF Since(t) > MaxGap
     THEN timeSteps' = Add(timeSteps, 1) /\ UNCHANGED missed
     ELSE /\ missed' = IF Slots(Since(t)) > 1 THEN Add(missed, Slots(Since(t)) - 1) ELSE missed
          /\ UNCHANGED timeSteps
  /\ have' = TRUE /\ lastTow' = t

\* C: the statistics; the latest epoch and the speed stay.
ClearStats ==
  /\ missed' = 0 /\ timeSteps' = 0 /\ have' = FALSE /\ lastTow' = 0
  /\ UNCHANGED <<haveEpoch, age, fixOk, stands>>
-----------------------------------------------------------------------------
(* GnssFeed.                                                               *)

\* add(), of an epoch measured at t.
AddEpoch(t, fix, standing) ==
  /\ Track(t)
  /\ haveEpoch' = TRUE /\ age' = 0 /\ fixOk' = fix /\ stands' = standing

\* A tick without one.
NoEpoch ==
  /\ age' = age + 1
  /\ UNCHANGED <<haveEpoch, fixOk, stands, have, lastTow, missed, timeSteps>>

\* liveness(), after this tick's poll.
Liveness ==
  IF age' < Silence THEN "ok" ELSE IF haveEpoch' THEN "stopped" ELSE "never started"

\* speedValid(), this many ticks after the last epoch.
SpeedValid(a) == haveEpoch' /\ fixOk' /\ a < StaleAfter
-----------------------------------------------------------------------------
(* The receiver.                                                           *)

NextTow == tow' = (tow + Period) % Week

\* The epoch due now arrives, measured less than half a period past the grid.
Arrives(fix, standing) ==
  /\ \E off \in 0 .. (Period - 1) \div 2 : AddEpoch((tow + off) % Week, fix, standing)
  /\ NextTow /\ gone' = 0

\* Its clock steps, further than any silence the device waits out.
Steps(t, fix, standing) ==
  /\ have /\ Since(t) > MaxGap /\ t % Period = 0
  /\ AddEpoch(t, fix, standing)
  /\ tow' = (t + Period) % Week /\ gone' = 0

\* It is lost, or overwritten by the next before the poll ends.
IsLost == NoEpoch /\ NextTow /\ gone' = gone + 1
=============================================================================
