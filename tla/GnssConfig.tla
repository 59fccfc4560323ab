------------------------------ MODULE GnssConfig ------------------------------
(***************************************************************************)
(* peripherals/gnss/Gnss.cpp: how the driver finds the receiver at any     *)
(* rate, moves it to its own, brings every setting to the wanted value and *)
(* judges each by reading it back.  One action per exchange that changes   *)
(* the receiver or decides; attempts that a retry makes good are left out, *)
(* n attempts in a row that all fail lose n exchanges.                     *)
(***************************************************************************)
EXTENDS Receiver, Sequences

CONSTANTS
  Order,         \* the keys in the order configure() goes through them
  ReadAttempts,  \* kReadAttempts
  PauseAttempts, \* kPauseAttempts
  OtpAttempts    \* kOtpReadAttempts

ASSUME ConfigAssumption ==
  /\ Order \in Seq(Key) /\ \A k \in Key : \E i \in DOMAIN Order : Order[i] = k
  /\ \A i, j \in DOMAIN Order : Order[i] = Order[j] => i = j   \* each key once
  /\ Order[Len(Order)] = Pvt
  /\ ReadAttempts \in Nat \ {0} /\ PauseAttempts \in Nat \ {0} /\ OtpAttempts \in Nat \ {0}

VARIABLES
  pc,          \* what the driver is about to do
  at,          \* the key configure() is at
  allOk,       \* allOk
  warned,      \* the keys flashWarnings_ counts
  configured,  \* configured_
  clockState   \* clock_

driver == <<pc, at, allOk, warned, configured, clockState>>

Steps == {"off", "target", "sweep", "switch", "reconnect", "save", "pause", "check",
          "readback", "clock", "callback", "ready", "missing"}

DriverTypeOK ==
  /\ pc \in Steps /\ at \in 1 .. Len(Order)
  /\ allOk \in BOOLEAN /\ warned \subseteq Key /\ configured \in BOOLEAN
  /\ clockState \in {"unchecked", "unknown", "stock", "pending", "active"}

DriverInit ==
  /\ pc = "off" /\ at = 1
  /\ allOk = TRUE /\ warned = {} /\ configured = FALSE /\ clockState = "unchecked"

\* The board's RAM is gone.
DriverGone ==
  /\ pc' = "off" /\ at' = 1
  /\ allOk' = TRUE /\ warned' = {} /\ configured' = FALSE /\ clockState' = "unchecked"

Goto(next) == pc' = next /\ UNCHANGED <<at, allOk, warned, configured, clockState>>

Asks == UNCHANGED <<layers, port, burned, lostBefore, restarted>>

Answered == UNCHANGED lost

\* Once connected, it talks at the target rate.
Done == Heard(Target)

Fails(n) == Unheard(Target, n)
-----------------------------------------------------------------------------
(* Finding it.                                                             *)

\* begin(), at a boot that brings the GNSS up.
Begin ==
  /\ pc = "off" /\ Goto("target")
  /\ ProgramStarts
  /\ UNCHANGED <<layers, port, burned, lost>>

\* connectAtBaud(): the target first.
TryTarget ==
  /\ pc = "target" /\ Asks
  /\ \/ rate = Target /\ Answered /\ Goto("pause")
     \/ rate = Target /\ Lose(1) /\ Goto("sweep")
     \/ rate # Target /\ Answered /\ Goto("sweep")

SweepNoOther == {Target}

\* The rates of the sweep.
SweepRates == Rate

\* Then every other rate once.
TryTheRest ==
  /\ pc = "sweep" /\ Asks
  /\ IF rate \in SweepRates \ {Target}
     THEN (Answered /\ Goto("switch")) \/ (Lose(1) /\ Goto("missing"))
     ELSE Answered /\ Goto("missing")

\* switchToTargetBaud(): the result of setSerialRate is ignored.
SwitchRate ==
  /\ pc = "switch" /\ Goto("reconnect")
  /\ \/ rate' = Target /\ Answered
     \/ UNCHANGED rate /\ Lose(1)
  /\ UNCHANGED <<layers, savedRate, burned, lostBefore, restarted>>

\* The reconnect is the check.
Reconnect ==
  /\ pc = "reconnect" /\ Asks
  /\ \/ rate = Target /\ Answered /\ Goto("save")
     \/ rate = Target /\ Lose(1) /\ Goto("missing")
     \/ rate # Target /\ Answered /\ Goto("missing")

\* saveConfigSelective(IOPORT): failing is only logged.
SaveRate ==
  /\ pc = "save" /\ Goto("pause")
  /\ \/ savedRate' = rate /\ Done
     \/ UNCHANGED savedRate /\ Fails(1)
  /\ UNCHANGED <<layers, rate, burned, lostBefore, restarted>>
-----------------------------------------------------------------------------
(* configure()                                                             *)

\* NAV-PVT output off in RAM while it works.
PauseOutput ==
  /\ pc = "pause" /\ pc' = "check"
  /\ \/ WriteRam({Pvt}, "wrong") /\ Done
     \/ UNCHANGED layers /\ Fails(PauseAttempts)
  /\ at' = 1 /\ allOk' = TRUE /\ warned' = {}
  /\ UNCHANGED <<configured, clockState, port, burned, lostBefore, restarted>>

Here == Order[at]

\* The layer ensureVal judges the key by: Check::FlashOnly for the output key,
\* Check::Ram for the rest.
Judged == IF Here = Pvt THEN flash[Here] ELSE ram[Here]

NextKey ==
  IF at = Len(Order) THEN pc' = "clock" /\ UNCHANGED at ELSE pc' = "check" /\ at' = at + 1

\* A key read as wanted needs nothing.
ReadRight ==
  /\ pc = "check" /\ Judged = "right" /\ NextKey
  /\ Asks /\ Done
  /\ UNCHANGED <<allOk, warned, configured, clockState>>

\* One read as anything else, or not read at all, is written to every layer.
WriteKey ==
  /\ pc = "check" /\ pc' = "readback"
  /\ \E unread \in {0, ReadAttempts} :
       /\ unread > 0 \/ Judged # "right"
       /\ \/ /\ WriteAll(Here) /\ rate = Target
             /\ IF unread = 0 THEN Answered ELSE Lose(unread)
          \/ UNCHANGED layers /\ Fails(unread + 1)
  /\ UNCHANGED <<at, allOk, warned, configured, clockState, port, burned, lostBefore, restarted>>

\* A write taken at its word.
JudgeUnread(set, saved) ==
  /\ allOk' = allOk
  /\ warned' = IF ~saved THEN warned \cup {Here} ELSE warned

\* Warns of settings alone.
JudgeSettings(set, saved) ==
  /\ allOk' = (allOk /\ (set \/ Here = Pvt))
  /\ warned' = IF set /\ ~saved THEN warned \cup {Here} ELSE warned

\* How the readback judges the write: could not be set, set but not in flash,
\* or written.
Judge(set, saved) ==
  /\ allOk' = (allOk /\ (set \/ Here = Pvt))
  /\ warned' = IF (set \/ Here = Pvt) /\ ~saved THEN warned \cup {Here} ELSE warned

\* The second read asks the flash, and only of a key that was set.
ReadBack ==
  /\ pc = "readback" /\ NextKey /\ Asks
  /\ \/ Judged = "right" /\ flash[Here] = "right" /\ Done /\ Judge(TRUE, TRUE)
     \/ Judged = "right" /\ flash[Here] # "right" /\ Done /\ Judge(TRUE, FALSE)
     \/ Judged = "right" /\ Here # Pvt /\ rate = Target /\ Lose(ReadAttempts) /\ Judge(TRUE, FALSE)
     \/ Judged # "right" /\ Done /\ Judge(FALSE, FALSE)
     \/ Fails(ReadAttempts) /\ Judge(FALSE, FALSE)
  /\ UNCHANGED <<configured, clockState>>

\* classifyClock: running it counts however it got there; OTP is asked only of
\* one that answers and runs the stock clock.
CheckClock ==
  /\ pc = "clock" /\ pc' = "callback" /\ Asks
  /\ \/ Fails(ReadAttempts) /\ clockState' = "unknown"
     \/ clock = "high" /\ Done /\ clockState' = "active"
     \/ /\ clock = "stock" /\ Done
        /\ clockState' = IF otp = Frames THEN "pending" ELSE "stock"
     \/ clock = "stock" /\ rate = Target /\ Lose(OtpAttempts) /\ clockState' = "stock"
  /\ UNCHANGED <<at, allOk, warned, configured>>

\* setAutoPVTcallbackPtr: output on again, in RAM; begin() returns.
EnableOutput ==
  /\ pc = "callback" /\ pc' = "ready"
  /\ \/ WriteRam({Pvt}, "right") /\ Done
     \/ UNCHANGED layers /\ Fails(1)
  /\ configured' = allOk
  /\ UNCHANGED <<at, allOk, warned, clockState, port, burned, lostBefore, restarted>>

\* G, sent twice while Running: factoryReset(), then the restart.
FactoryReset ==
  /\ pc = "ready" /\ configured /\ DriverGone
  /\ \/ Wipe /\ Done
     \/ Asks /\ Fails(1)
  /\ UNCHANGED lostBefore

\* The board resets, powers down or is unplugged, at any step.
McuReset == pc # "off" /\ DriverGone /\ Asks /\ Answered
-----------------------------------------------------------------------------
Connecting == Begin \/ TryTarget \/ TryTheRest \/ SwitchRate \/ Reconnect \/ SaveRate

Configuring ==
  PauseOutput \/ ReadRight \/ WriteKey \/ ReadBack \/ CheckClock \/ EnableOutput

Firmware == Connecting \/ Configuring \/ FactoryReset \/ McuReset
=============================================================================
