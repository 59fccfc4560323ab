-------------------------------- MODULE OtpTool --------------------------------
(***************************************************************************)
(* src/tools/gnss_otp_clock and src/tools/gnss_reset: the sketches flashed *)
(* in the firmware's place to burn the high CPU clock into the receiver's  *)
(* one-time memory, and to wipe its stored settings.  Each runs once per   *)
(* power-up; the operator may cut it at any step and run it again.         *)
(***************************************************************************)
EXTENDS Receiver

CONSTANT Quieted   \* the keys quietReceiver() changes in RAM

ASSUME ToolAssumption == Quieted \subseteq Key

VARIABLES
  tpc,     \* what the sketch is about to do
  verdict, \* what it reported
  link     \* the rate it found the receiver at

tool == <<tpc, verdict, link>>

ToolSteps == {"off", "connect", "quiet", "read", "confirm", "frame1", "frame2", "reset",
              "reconnect", "quietAgain", "verify", "halt"}

ToolTypeOK ==
  /\ tpc \in ToolSteps
  /\ verdict \in {"none", "already", "refused", "aborted", "unlinked", "success", "partial",
                  "failed"}
  /\ link \in Rate

ToolInit == tpc = "off" /\ verdict = "none" /\ link = FactoryRate

Step(from, to) == tpc = from /\ tpc' = to

Says(v) == tpc' = "halt" /\ verdict' = v

Kept == UNCHANGED <<lostBefore, restarted>>

\* An exchange that only asks.
Ask == UNCHANGED <<layers, port, burned>> /\ Kept
-----------------------------------------------------------------------------
\* setup(), from a power-up.
Run ==
  /\ Step("off", "connect") /\ ProgramStarts
  /\ UNCHANGED <<layers, port, burned, lost, verdict, link>>

\* connectAtAnyBaud(): the sweep, whatever the rate; it changes nothing.
Connect(from, to) ==
  /\ tpc = from /\ Ask
  /\ \/ tpc' = to /\ link' = rate /\ UNCHANGED <<lost, verdict>>
     \/ Lose(1) /\ Says("unlinked") /\ UNCHANGED link

\* quietReceiver(): best effort, in RAM.
Quiet(from, to) ==
  /\ Step(from, to)
  /\ \E unheard \in SUBSET Quieted :
       /\ rate # link => unheard = Quieted
       /\ WriteRam(Quieted \ unheard, "wrong")
       /\ Unheard(link, Cardinality(unheard))
  /\ Kept
  /\ UNCHANGED <<port, burned, verdict, link>>

\* printClockState(): four RAM keys, any of which may go unread, and one poll of
\* the OTP layer, whose reply may be lost.
ClockStates == IF rate = link THEN {clock, "unknown"} ELSE {"unknown"}

LossesOf(state, polled) == (IF state = "unknown" THEN 1 ELSE 0) + (IF polled THEN 0 ELSE 1)

\* RAM alone decides what is programmed.
DecideByRam(m10, state, matched) ==
  \/ state = "high" /\ Says("already")
  \/ state # "high" /\ (~m10 \/ state = "unknown") /\ Says("refused")
  \/ state = "stock" /\ m10 /\ tpc' = "confirm" /\ UNCHANGED verdict

\* setup(): the burn is only offered on an M10 whose RAM reads stock and whose
\* OTP did not match.
Decide(m10, state, matched) ==
  \/ state = "high" /\ Says("already")
  \/ state # "high" /\ (~m10 \/ state = "unknown") /\ Says("refused")
  \/ state = "stock" /\ m10 /\ matched /\ Says("already")
  \/ state = "stock" /\ m10 /\ ~matched /\ tpc' = "confirm" /\ UNCHANGED verdict

\* printIdentity() and printClockState(), of an M10, and what setup() makes of them.
Inspect ==
  /\ tpc = "read" /\ Ask
  /\ \E m10, polled \in BOOLEAN, state \in ClockStates :
       /\ rate # link => ~m10 /\ ~polled
       /\ Unheard(link, (IF m10 THEN 0 ELSE 1) + LossesOf(state, polled))
       /\ Decide(m10, state, polled /\ otp = Frames)
  /\ UNCHANGED link

\* waitForConfirmation(): the word, or anything else.
Confirm ==
  /\ tpc = "confirm"
  /\ (tpc' = "frame1" /\ UNCHANGED verdict) \/ Says("aborted")
  /\ UNCHANGED <<receiver, link>>

\* performOtpWrite(): each frame goes out whatever became of the other; a missing
\* acknowledgement changes nothing.
Burn(f, from, to) ==
  /\ Step(from, to)
  /\ \/ otp' = otp \cup {f} /\ Heard(link)
     \/ UNCHANGED otp /\ Unheard(link, 1)
  /\ UNCHANGED <<layers, port, clock, verdict, link>> /\ Kept

\* resetReceiver(): a hot start, unacknowledged.
ResetReceiver ==
  /\ Step("reset", "reconnect") /\ UNCHANGED lostBefore
  /\ \/ StartUp(bbr) /\ Heard(link)
     \/ UNCHANGED <<layers, port, burned, restarted>> /\ Unheard(link, 1)
  /\ UNCHANGED <<verdict, link>>

\* RAM alone is the verdict.
VerdictByRam(state, matched) == IF state = "high" THEN "success" ELSE "failed"

\* The OTP-layer reply is the verdict.
Verdict(state, matched) ==
  IF matched THEN "success" ELSE IF state = "high" THEN "partial" ELSE "failed"

Verify ==
  /\ tpc = "verify" /\ Ask
  /\ \E polled \in BOOLEAN, state \in ClockStates :
       /\ rate # link => ~polled
       /\ Unheard(link, LossesOf(state, polled))
       /\ Says(Verdict(state, polled /\ otp = Frames))
  /\ UNCHANGED link

\* Power off, at any step: the board's RAM is gone.
Unplug ==
  /\ tpc # "off" /\ tpc' = "off"
  /\ verdict' = "none" /\ link' = FactoryRate
  /\ UNCHANGED receiver

\* gnss_reset: a sweep and one unacknowledged factory reset.
RunReset ==
  /\ tpc = "off"
  /\ (Wipe /\ UNCHANGED <<lost, lostBefore>>) \/ (Ask /\ Lose(1))
  /\ UNCHANGED tool
-----------------------------------------------------------------------------
Before == Connect("connect", "quiet") \/ Quiet("quiet", "read") \/ Inspect \/ Confirm

Burning == Burn(1, "frame1", "frame2") \/ Burn(2, "frame2", "reset") \/ ResetReceiver

After == Connect("reconnect", "quietAgain") \/ Quiet("quietAgain", "verify") \/ Verify

Tools == Run \/ Before \/ Burning \/ After \/ Unplug \/ RunReset
=============================================================================
