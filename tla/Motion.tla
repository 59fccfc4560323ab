-------------------------------- MODULE Motion --------------------------------
(***************************************************************************)
(* A vehicle that stops and moves under the GNSS and IMU jobs of App.cpp.  *)
(* In every tick an epoch arrives or is lost, then the IMU is read; the    *)
(* trim's only hint of motion on a smooth road is the speed of the last    *)
(* epoch, which may be stale.                                              *)
(***************************************************************************)
EXTENDS GnssFeed, ImuTrim

CONSTANTS
  MinMove,  \* the fewest ticks it takes to get from one stop to another
  Stop      \* the stops, told apart by the attitude of the vehicle there

ASSUME MotionAssumption ==
  /\ MinMove \in Nat \ {0} /\ MinMove >= StaleAfter + DownAfter - 1
  /\ IsFiniteSet(Stop) /\ Cardinality(Stop) > 1

VARIABLES
  stop,    \* the stop it stands at, or the one it is on the way to
  road,    \* how many ticks it has been on the way, 0 when it stands
  running  \* the device is in Running

world == <<stop, road>>
vars == <<feed, sender, device, world, running>>

TypeOK ==
  /\ FeedTypeOK /\ TrimTypeOK
  /\ stop \in Stop /\ road \in 0 .. MinMove /\ running \in BOOLEAN

Init ==
  /\ FeedInit /\ SenderInit /\ TrimInit
  /\ stop \in Stop /\ road = 0 /\ running = TRUE
-----------------------------------------------------------------------------
Stands == road' = 0

\* It stands on, sets out for another stop, drives on, or gets there.
Travel ==
  \/ road = 0 /\ UNCHANGED world
  \/ road = 0 /\ road' = 1 /\ stop' \in Stop \ {stop}
  \/ road > 0 /\ road' = (IF road < MinMove THEN road + 1 ELSE road) /\ UNCHANGED stop
  \/ road = MinMove /\ road' = 0 /\ UNCHANGED stop

\* What a reading holds of the vehicle's attitude at a stop.
Attitude == IF Stands THEN {stop'} ELSE {}

\* gnssJob(): the epoch, if one came; its speed is the vehicle's.
Epoch ==
  \/ \E fix \in BOOLEAN : Arrives(fix, Stands)
  \/ \E t \in 0 .. Week - 1 : Steps(t, TRUE, Stands)
  \/ IsLost

\* imuJob(), with what the feed says now.
Sample ==
  \/ \E quiet, tilted \in BOOLEAN :
       ReadOk(SpeedValid(age'), stands', quiet, Attitude, tilted)
  \/ ReadFails
  \/ NoImu

\* A tick in which the receiver is alive.
Tick ==
  /\ running /\ Travel /\ Epoch
  /\ Liveness = "ok"
  /\ Sample
  /\ UNCHANGED running

\* One in which the silence is noticed: none ever came, and the device stops in
\* Fault with the IMU off; or they stopped, and it restarts.
NeverStarted ==
  /\ running /\ Travel /\ Epoch /\ Liveness = "never started"
  /\ up' = FALSE /\ running' = FALSE
  /\ UNCHANGED <<failures, trim, relocking, fresh>>

Anew == FeedAnew /\ TrimAnew /\ gone' = 0 /\ running' = TRUE

Restarts ==
  /\ running /\ age = Silence - 1 /\ haveEpoch
  /\ Travel /\ NextTow /\ Anew

\* Any other restart, at any time.
Reset == Anew /\ UNCHANGED <<tow, world>>

\* C and T.
Clear == running /\ ClearStats /\ gone' = 0 /\ UNCHANGED <<tow, device, world, running>>

Redo == running /\ Retrim /\ UNCHANGED <<feed, sender, world, running>>

Next == Tick \/ NeverStarted \/ Restarts \/ Reset \/ Clear \/ Redo

Spec == Init /\ [][Next]_vars
-----------------------------------------------------------------------------
(* Properties.                                                             *)

\* An orientation is never locked from two stops: whatever epochs are lost, however
\* the road feels and whichever reads fail, no window survives a drive.
LockFromOneStop == Cardinality(lockStops \cup blockStops) <= 1

\* After a re-trim nothing measured before it counts: the new lock takes a whole
\* window of its own, qualification included.
RetrimWaits == [][relocking /\ ~relocking' /\ converged' => fresh >= FullWindow - 1]_vars

\* An epoch was fed after another, and the receiver's clock stepped before it.
Fed == have /\ have' /\ lastTow' # lastTow
Stepped == tow' # (tow + Period) % Week

\* The missed counter grows by exactly the epochs lost, over the end of the week and
\* whatever the jitter; a step of the receiver's clock is counted as one and never as
\* missed epochs; and no silence the device lives through is taken for one.
MissedExact ==
  [][Fed =>
       IF Stepped
       THEN missed' = missed /\ timeSteps' = Add(timeSteps, 1)
       ELSE missed' = Add(missed, gone) /\ timeSteps' = timeSteps]_vars
=============================================================================
