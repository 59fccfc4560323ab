-------------------------------- MODULE ImuTrim --------------------------------
(***************************************************************************)
(* core/ImuTrim.cpp and core/ImuHealth.h under peripherals/imu/ImuDevice:  *)
(* the mounting trim qualifies a stillness window sample by sample, folds  *)
(* it into blocks and locks the orientation after LockBlocks of them; a    *)
(* failed sample gate throws the window away.  Of the averages only the    *)
(* stops they were measured at are kept; the rotation is left out.         *)
(***************************************************************************)
EXTENDS Integers, FiniteSets

CONSTANTS
  VarNeeded,  \* varSamplesNeeded_
  Qualify,    \* qualifyNeeded_
  Block,      \* blockNeeded_
  LockBlocks, \* cfg_.lockBlocks
  DownAfter   \* downAfterFailures_

ASSUME TrimAssumption ==
  /\ VarNeeded \in Nat \ {0} /\ Qualify \in Nat \ {0} /\ Block \in Nat \ {0}
  /\ LockBlocks \in Nat \ {0} /\ DownAfter \in Nat \ {0}

VARIABLES
  up, failures,                \* ImuHealth
  varSamples,                  \* varSamples_
  qualifySamples,              \* qualifySamples_
  blockSamples, blockStops,    \* blockSamples_, and the stops accelSum_ holds
  lockBlocksSeen, lockStops,   \* lockBlocksSeen_, and the stops lockSum_ holds
  converged,                   \* converged_
  relocking,                   \* ImuDevice: relocking_
  fresh                        \* history: samples that passed the gate since the last re-trim,
                               \* counted up to a full window and only until it locks

window == <<qualifySamples, blockSamples, blockStops, lockBlocksSeen, lockStops>>
trim == <<varSamples, window, converged>>
device == <<up, failures, trim, relocking, fresh>>

FullWindow == Qualify + Block * LockBlocks

TrimTypeOK ==
  /\ up \in BOOLEAN /\ failures \in 0 .. DownAfter
  /\ varSamples \in 0 .. VarNeeded /\ qualifySamples \in 0 .. Qualify
  /\ blockSamples \in 0 .. Block - 1 /\ lockBlocksSeen \in 0 .. LockBlocks
  /\ IsFiniteSet(blockStops) /\ IsFiniteSet(lockStops)
  /\ converged \in BOOLEAN /\ relocking \in BOOLEAN /\ fresh \in 0 .. FullWindow

\* ImuDevice::begin(): the chip answers or not.
TrimInit ==
  /\ up \in BOOLEAN /\ failures = 0 /\ varSamples = 0
  /\ qualifySamples = 0 /\ blockSamples = 0 /\ blockStops = {}
  /\ lockBlocksSeen = 0 /\ lockStops = {}
  /\ converged = FALSE /\ relocking = FALSE /\ fresh = 0

\* The same, at a restart of the device.
TrimAnew ==
  /\ up' \in BOOLEAN /\ failures' = 0 /\ varSamples' = 0
  /\ qualifySamples' = 0 /\ blockSamples' = 0 /\ blockStops' = {}
  /\ lockBlocksSeen' = 0 /\ lockStops' = {}
  /\ converged' = FALSE /\ relocking' = FALSE /\ fresh' = 0

ResetBlockOnly ==
  /\ qualifySamples' = 0 /\ blockSamples' = 0 /\ blockStops' = {}
  /\ UNCHANGED <<lockBlocksSeen, lockStops>>

ResetWindow ==
  /\ qualifySamples' = 0 /\ blockSamples' = 0 /\ blockStops' = {}
  /\ lockBlocksSeen' = 0 /\ lockStops' = {}
-----------------------------------------------------------------------------
\* gatePasses: the speed first, then plausible and quiet readings, once the
\* variance has settled.  It has settled by the sample that completes its window.
GatePasses(speedValid, stands, quiet) ==
  speedValid /\ stands /\ quiet /\ varSamples' = VarNeeded

\* consumeBlock(), of a block measured at these stops.  A mount tilted too far is
\* refused and its capture dropped.
ConsumeBlock(stops, tilted) ==
  IF converged THEN UNCHANGED <<lockBlocksSeen, lockStops, converged>>
  ELSE IF tilted /\ lockBlocksSeen + 1 = LockBlocks
  THEN lockBlocksSeen' = 0 /\ lockStops' = {} /\ UNCHANGED converged
  ELSE /\ lockBlocksSeen' = lockBlocksSeen + 1 /\ lockStops' = lockStops \cup stops
       /\ converged' = (lockBlocksSeen' = LockBlocks)

\* update(), with a reading taken at these stops: the window only ever grows by an
\* unbroken run of samples that pass.
Accumulate(stops, tilted) ==
  IF qualifySamples < Qualify
  THEN /\ qualifySamples' = qualifySamples + 1
       /\ UNCHANGED <<blockSamples, blockStops, lockBlocksSeen, lockStops, converged>>
  ELSE /\ UNCHANGED qualifySamples
       /\ IF blockSamples + 1 < Block
          THEN /\ blockSamples' = blockSamples + 1 /\ blockStops' = blockStops \cup stops
               /\ UNCHANGED <<lockBlocksSeen, lockStops, converged>>
          ELSE /\ blockSamples' = 0 /\ blockStops' = {}
               /\ ConsumeBlock(blockStops \cup stops, tilted)

Settle == varSamples' = IF varSamples < VarNeeded THEN varSamples + 1 ELSE varSamples

Update(speedValid, stands, quiet, stops, tilted) ==
  /\ Settle
  /\ IF GatePasses(speedValid, stands, quiet)
     THEN /\ Accumulate(stops, tilted)
          /\ fresh' = IF converged' THEN 0
                      ELSE IF fresh < FullWindow THEN fresh + 1 ELSE fresh
     ELSE ResetWindow /\ UNCHANGED converged /\ fresh' = 0

\* poll() of an answering chip.
ReadOk(speedValid, stands, quiet, stops, tilted) ==
  /\ up
  /\ Update(speedValid, stands, quiet, stops, tilted)
  /\ relocking' = (relocking /\ ~converged')
  /\ failures' = 0 /\ UNCHANGED up

\* poll() of one that does not: the trim does not hear of it; enough in a row
\* latch the IMU down until the next boot.
ReadFails ==
  /\ up
  /\ failures' = failures + 1 /\ up' = (failures' < DownAfter)
  /\ UNCHANGED <<trim, relocking, fresh>>

\* poll() of one that is down.
NoImu == ~up /\ UNCHANGED device

RetrimKeepingWindow ==
  /\ up /\ converged
  /\ converged' = FALSE /\ relocking' = TRUE /\ fresh' = 0
  /\ UNCHANGED <<up, failures, varSamples, window>>

\* T or its command, with an orientation locked: it goes, and qualifying starts over.
Retrim ==
  /\ up /\ converged
  /\ converged' = FALSE /\ relocking' = TRUE /\ fresh' = 0 /\ ResetWindow
  /\ UNCHANGED <<up, failures, varSamples>>
=============================================================================
