------------------------------- MODULE BenchProofs -------------------------------
(***************************************************************************)
(* What a boot and the burn tool may conclude about the receiver, proved   *)
(* for any settings, defaults, rates and numbers of attempts, and however  *)
(* many exchanges are lost.                                                *)
(*                                                                         *)
(* Both programs judge a receiver they hear through a wire that loses and  *)
(* that may restart behind their back.  The invariants say what each       *)
(* step of a program still knows: of the driver, as long as the receiver   *)
(* has not restarted, which keys it has judged and at which rate it talks; *)
(* of the tool, what a restart can have done to the link.                  *)
(***************************************************************************)
EXTENDS GnssBench, FiniteSetTheorems, TLAPS

\* Steps of the driver once it has found the receiver, and while and after it
\* goes through the keys.
Connected == {"save", "pause", "check", "readback", "clock", "callback", "ready"}
Judging == {"check", "readback", "clock", "callback", "ready"}

OneProgram == pc = "off" \/ tpc = "off"

\* What finding the receiver has shown of its rate.
FindInv ==
  /\ pc = "sweep" => restarted \/ lost > lostBefore \/ rate # Target
  /\ pc = "reconnect" => restarted \/ lost > lostBefore \/ rate = Target
  /\ pc = "missing" => restarted \/ lost > lostBefore
  /\ pc \in Connected => restarted \/ rate = Target

\* The settings judged so far.
Passed(i) == i < at \/ pc \notin {"check", "readback"}
JudgedSettings == {Order[i] : i \in {j \in DOMAIN Order : Passed(j) /\ Order[j] # Pvt}}

\* As many exchanges lost as one read has attempts.
ReadGaveUp == lost >= lostBefore + ReadAttempts

JudgeInv ==
  pc \in Judging /\ ~restarted =>
    /\ allOk => \A k \in JudgedSettings : ram[k] = "right"
    /\ ~allOk => (\E k \in JudgedSettings : ram[k] = "wrong") \/ ReadGaveUp
    /\ pc \notin {"check", "readback"} /\ Pvt \notin warned => flash[Pvt] = "right"
    /\ pc = "ready" => configured = allOk

\* Steps of the tool while it holds a link, and after it told the receiver to restart.
Linked == {"quiet", "read", "confirm", "frame1", "frame2", "reset", "quietAgain", "verify"}
AfterReset == {"reconnect", "quietAgain", "verify"}

\* A link is lost to a restart only, and a receiver that has restarted runs at
\* the rate it saved.
LinkInv ==
  /\ tpc \in Linked => rate = link \/ rate = savedRate
  /\ tpc \in AfterReset => rate = savedRate \/ lost > lostBefore
  /\ tpc \in {"quietAgain", "verify"} => rate = link \/ lost > lostBefore

\* Without a loss the frames are burned in order, and only into a receiver that
\* did not hold them.
BurnInv ==
  lost = 0 =>
    /\ 2 \in otp => 1 \in otp
    /\ tpc \in {"confirm", "frame1", "frame2"} => otp # Frames
    /\ tpc = "frame2" => 1 \in otp \/ rate # link

IInv == TypeOK /\ OneProgram /\ FindInv /\ JudgeInv /\ LinkInv /\ BurnInv /\ BurnVerdict
-----------------------------------------------------------------------------
(* Types.                                                                  *)

LEMMA Indices ==
  /\ Len(Order) \in Nat \ {0} /\ DOMAIN Order = 1 .. Len(Order)
  /\ \A i \in 1 .. Len(Order) : Order[i] \in Key
<1>1. PICK i \in DOMAIN Order : Order[i] = Pvt
  BY ConfigAssumption DEF Key
<1> QED
  BY <1>1, ConfigAssumption

\* What the layers are built from is again a value of every key.
LEMMA BuiltType ==
  ASSUME NEW b \in [Key -> Stored], NEW f \in [Key -> Stored]
  PROVE  Built(b, f) \in [Key -> Value]
BY ReceiverAssumption DEF Built, Stored, Value

LEMMA NothingType == Nothing \in [Key -> Stored]
BY DEF Nothing, Stored

\* A restart keeps every layer of its type, its backed-up RAM lost or not.
LEMMA StartUpType ==
  ASSUME ReceiverTypeOK, NEW b \in [Key -> Stored], StartUp(b),
         lost' \in 0 .. MaxLost, lostBefore' \in 0 .. lost'
  PROVE  ReceiverTypeOK'
<1>1. ram' \in [Key -> Value]
  BY BuiltType DEF StartUp, ReceiverTypeOK
<1> QED
  BY <1>1 DEF StartUp, ReceiverTypeOK, Clocks

LEMMA WipeType ==
  ASSUME ReceiverTypeOK, Wipe, lost' \in 0 .. MaxLost, lostBefore' \in 0 .. lost'
  PROVE  ReceiverTypeOK'
<1>1. ram' \in [Key -> Value]
  BY BuiltType, NothingType DEF Wipe
<1> QED
  BY <1>1, NothingType, ReceiverAssumption DEF Wipe, ReceiverTypeOK, Clocks

LEMMA WriteRamType ==
  ASSUME ReceiverTypeOK, NEW ks, NEW v \in Value, WriteRam(ks, v)
  PROVE  /\ ram' \in [Key -> Value] /\ bbr' \in [Key -> Stored] /\ flash' \in [Key -> Stored]
BY DEF WriteRam, ReceiverTypeOK

LEMMA WriteAllType ==
  ASSUME ReceiverTypeOK, NEW k \in Key, WriteAll(k)
  PROVE  /\ ram' \in [Key -> Value] /\ bbr' \in [Key -> Stored] /\ flash' \in [Key -> Stored]
BY DEF WriteAll, ReceiverTypeOK, Value, Stored

\* Losses only ever add up, and within the bound.
LEMMA LoseType ==
  ASSUME ReceiverTypeOK, NEW n \in Nat, NEW r, Unheard(r, n) \/ Lose(n)
  PROVE  /\ lost' \in 0 .. MaxLost /\ lost' >= lost
         /\ lostBefore \in 0 .. lost'
         /\ rate = r /\ Unheard(r, n) => lost' = lost + n
         /\ Lose(n) => lost' = lost + n
<1>1. MaxLost \in Nat /\ lost \in Nat /\ lostBefore \in 0 .. lost
  BY ReceiverAssumption DEF ReceiverTypeOK
<1>2. lost' = lost \/ (lost + n <= MaxLost /\ lost' = lost + n)
  BY DEF Unheard, Lose
<1> QED
  BY <1>1, <1>2 DEF Unheard, Lose, ReceiverTypeOK

\* What an exchange with the receiver can do to the count of losses.
Counted == lost' \in 0 .. MaxLost /\ lost' >= lost /\ lostBefore \in 0 .. lost'

LEMMA Attempts ==
  /\ ReadAttempts \in Nat \ {0} /\ PauseAttempts \in Nat \ {0} /\ OtpAttempts \in Nat \ {0}
BY ConfigAssumption

LEMMA SameCounted == ASSUME ReceiverTypeOK, UNCHANGED lost PROVE Counted
BY ReceiverAssumption DEF ReceiverTypeOK, Counted

LEMMA UnheardCounted == ASSUME ReceiverTypeOK, NEW n \in Nat, NEW r, Unheard(r, n) PROVE Counted
BY LoseType DEF Counted

LEMMA LoseCounted == ASSUME ReceiverTypeOK, NEW n \in Nat, Lose(n) PROVE Counted
BY LoseType DEF Counted

LEMMA DriverCounted ==
  ASSUME ReceiverTypeOK, Connecting \/ Configuring \/ FactoryReset \/ McuReset
  PROVE  Counted
<1> USE Attempts, SameCounted, UnheardCounted, LoseCounted
        DEF Answered, Done, Heard, Fails
<1>1. CASE Begin
  BY <1>1 DEF Begin
<1>2. CASE TryTarget
  BY <1>2 DEF TryTarget
<1>3. CASE TryTheRest
  BY <1>3 DEF TryTheRest
<1>4. CASE SwitchRate \/ Reconnect \/ SaveRate
  BY <1>4 DEF SwitchRate, Reconnect, SaveRate
<1>5. CASE PauseOutput \/ EnableOutput
  BY <1>5 DEF PauseOutput, EnableOutput
<1>6. CASE ReadRight
  BY <1>6 DEF ReadRight
<1>7. CASE WriteKey
  <2>1. PICK unread \in {0, ReadAttempts} :
          \/ (IF unread = 0 THEN Answered ELSE Lose(unread))
          \/ Fails(unread + 1)
    BY <1>7 DEF WriteKey
  <2>2. unread \in Nat /\ unread + 1 \in Nat
    BY <2>1
  <2> QED
    BY <2>1, <2>2
<1>8. CASE ReadBack
  BY <1>8 DEF ReadBack
<1>9. CASE CheckClock
  BY <1>9 DEF CheckClock
<1>10. CASE FactoryReset
  BY <1>10 DEF FactoryReset
<1>11. CASE McuReset
  BY <1>11 DEF McuReset
<1> QED
  BY <1>1, <1>2, <1>3, <1>4, <1>5, <1>6, <1>7, <1>8, <1>9, <1>10, <1>11
     DEF Connecting, Configuring

LEMMA LossesType ==
  ASSUME NEW state, NEW polled
  PROVE  LossesOf(state, polled) \in {0, 1, 2} /\ (~polled => LossesOf(state, polled) >= 1)
BY DEF LossesOf

LEMMA ToolCounted == ASSUME ReceiverTypeOK, Tools PROVE Counted
<1> USE SameCounted, UnheardCounted, LoseCounted DEF Heard
<1>1. CASE Run \/ Confirm \/ Unplug
  BY <1>1 DEF Run, Confirm, Unplug, receiver
<1>2. ASSUME NEW from, NEW to, Connect(from, to) PROVE Counted
  BY <1>2 DEF Connect
<1>3. ASSUME NEW from, NEW to, Quiet(from, to) PROVE Counted
  <2>1. PICK unheard \in SUBSET Quieted : Unheard(link, Cardinality(unheard))
    BY <1>3 DEF Quiet
  <2>2. IsFiniteSet(Key)
    BY ReceiverAssumption, FS_AddElement, FS_EmptySet, FS_Singleton, FS_Union DEF Key
  <2>3. Cardinality(unheard) \in Nat
    BY <2>1, <2>2, ToolAssumption, FS_Subset, FS_CardinalityType
  <2> QED
    BY <2>1, <2>3
<1>4. CASE Inspect
  <2>1. PICK m10 \in BOOLEAN, polled \in BOOLEAN, state \in ClockStates :
          Unheard(link, (IF m10 THEN 0 ELSE 1) + LossesOf(state, polled))
    BY <1>4 DEF Inspect
  <2>2. (IF m10 THEN 0 ELSE 1) + LossesOf(state, polled) \in Nat
    BY LossesType
  <2> QED
    BY <2>1, <2>2
<1>5. ASSUME NEW f, NEW from, NEW to, Burn(f, from, to) PROVE Counted
  BY <1>5 DEF Burn
<1>6. CASE ResetReceiver
  BY <1>6 DEF ResetReceiver
<1>7. CASE Verify
  <2>1. PICK polled \in BOOLEAN, state \in ClockStates : Unheard(link, LossesOf(state, polled))
    BY <1>7 DEF Verify
  <2>2. LossesOf(state, polled) \in Nat
    BY LossesType
  <2> QED
    BY <2>1, <2>2
<1>8. CASE RunReset
  BY <1>8 DEF RunReset
<1> QED
  BY <1>1, <1>2, <1>3, <1>4, <1>5, <1>6, <1>7, <1>8 DEF Tools, Before, Burning, After

\* A step that keeps the parts of the receiver of their types.
LEMMA Parts ==
  ASSUME ReceiverTypeOK, Counted, lostBefore' \in {lostBefore, lost},
         lostBefore' = lost => lost' = lost \/ lostBefore' = lostBefore,
         restarted' \in {restarted, FALSE},
         ram' \in [Key -> Value], bbr' \in [Key -> Stored], flash' \in [Key -> Stored],
         rate' \in Rate, savedRate' \in Rate, otp' \subseteq Frames, clock' \in {"stock", "high"}
  PROVE  ReceiverTypeOK'
<1>1. lostBefore' \in 0 .. lost'
  BY DEF Counted, ReceiverTypeOK
<1>2. restarted' \in BOOLEAN
  BY DEF ReceiverTypeOK
<1> QED
  BY <1>1, <1>2 DEF ReceiverTypeOK, Counted

LEMMA ReceiverTypeStep ==
  TypeOK /\ [Next]_vars => ReceiverTypeOK'
<1> SUFFICES ASSUME TypeOK, [Next]_vars PROVE ReceiverTypeOK'
  OBVIOUS
<1>0. ReceiverTypeOK
  BY DEF TypeOK
<1> USE <1>0
<1>1. CASE Connecting \/ Configuring \/ FactoryReset \/ McuReset
  <2>0. Counted
    BY <1>1, DriverCounted
  <2> USE <2>0
  <2>1. CASE Begin
    BY <2>1, Parts DEF Begin, ProgramStarts, ReceiverTypeOK, layers, port, burned
  <2>2. CASE TryTarget \/ TryTheRest \/ Reconnect \/ ReadRight \/ ReadBack \/ CheckClock \/ McuReset
    <3>1. Asks
      BY <2>2 DEF TryTarget, TryTheRest, Reconnect, ReadRight, ReadBack, CheckClock, McuReset
    <3> QED
      BY <3>1, Parts DEF Asks, ReceiverTypeOK, layers, port, burned
  <2>3. CASE SwitchRate \/ SaveRate
    <3>1. /\ rate' \in Rate /\ savedRate' \in Rate
          /\ UNCHANGED <<layers, burned, lostBefore, restarted>>
      BY <2>3, ReceiverAssumption DEF SwitchRate, SaveRate, ReceiverTypeOK
    <3> QED
      BY <3>1, Parts DEF ReceiverTypeOK, layers, burned
  <2>4. CASE PauseOutput \/ EnableOutput
    <3>1. \/ \E v \in Value : WriteRam({Pvt}, v)
          \/ UNCHANGED layers
      BY <2>4 DEF PauseOutput, EnableOutput, Value
    <3>2. ram' \in [Key -> Value] /\ bbr' \in [Key -> Stored] /\ flash' \in [Key -> Stored]
      BY <3>1, WriteRamType DEF ReceiverTypeOK, layers
    <3> QED
      BY <2>4, <3>2, Parts DEF PauseOutput, EnableOutput, ReceiverTypeOK, port, burned
  <2>5. CASE WriteKey
    <3>1. WriteAll(Here) \/ UNCHANGED layers
      BY <2>5 DEF WriteKey
    <3>2. Here \in Key
      BY Indices DEF TypeOK, DriverTypeOK, Here
    <3>3. ram' \in [Key -> Value] /\ bbr' \in [Key -> Stored] /\ flash' \in [Key -> Stored]
      BY <3>1, <3>2, WriteAllType DEF ReceiverTypeOK, layers
    <3> QED
      BY <2>5, <3>3, Parts DEF WriteKey, ReceiverTypeOK, port, burned
  <2>6. CASE FactoryReset
    <3>1. CASE Wipe
      <4>1. lostBefore' \in 0 .. lost' /\ lost' \in 0 .. MaxLost
        BY <2>6 DEF FactoryReset, Counted
      <4> QED
        BY <3>1, <4>1, WipeType
    <3>2. CASE Asks
      BY <3>2, Parts DEF Asks, ReceiverTypeOK, layers, port, burned
    <3> QED
      BY <2>6, <3>1, <3>2 DEF FactoryReset
  <2> QED
    BY <1>1, <2>1, <2>2, <2>3, <2>4, <2>5, <2>6 DEF Connecting, Configuring
<1>2. CASE Tools
  <2>0. Counted
    BY <1>2, ToolCounted
  <2> USE <2>0
  <2>1. CASE Run
    BY <2>1, Parts DEF Run, ProgramStarts, ReceiverTypeOK, layers, port, burned
  <2>2. ASSUME Ask PROVE ReceiverTypeOK'
    BY <2>2, Parts DEF Ask, Kept, ReceiverTypeOK, layers, port, burned
  <2>3. ASSUME NEW from, NEW to, Quiet(from, to) PROVE ReceiverTypeOK'
    <3>1. PICK unheard \in SUBSET Quieted : WriteRam(Quieted \ unheard, "wrong")
      BY <2>3 DEF Quiet
    <3>2. ram' \in [Key -> Value] /\ bbr' \in [Key -> Stored] /\ flash' \in [Key -> Stored]
      BY <3>1, WriteRamType DEF Value
    <3> QED
      BY <2>3, <3>2, Parts DEF Quiet, Kept, ReceiverTypeOK, port, burned
  <2>4. CASE Confirm \/ Unplug
    BY <2>4, Parts DEF Confirm, Unplug, receiver, ReceiverTypeOK, layers, port, burned
  <2>5. ASSUME NEW f \in Frames, NEW from, NEW to, Burn(f, from, to) PROVE ReceiverTypeOK'
    <3>1. otp' \subseteq Frames
      BY <2>5 DEF Burn, ReceiverTypeOK
    <3> QED
      BY <2>5, <3>1, Parts DEF Burn, Kept, ReceiverTypeOK, layers, port
  <2>6. CASE ResetReceiver
    <3>1. CASE StartUp(bbr)
      <4>1. lostBefore' \in 0 .. lost' /\ lost' \in 0 .. MaxLost /\ bbr \in [Key -> Stored]
        BY <2>6 DEF ResetReceiver, Counted, ReceiverTypeOK
      <4> QED
        BY <3>1, <4>1, StartUpType
    <3>2. CASE UNCHANGED <<layers, port, burned, restarted>>
      BY <2>6, <3>2, Parts DEF ResetReceiver, ReceiverTypeOK, layers, port, burned
    <3> QED
      BY <2>6, <3>1, <3>2 DEF ResetReceiver
  <2>7. CASE RunReset
    <3>1. CASE Wipe /\ UNCHANGED <<lost, lostBefore>>
      <4>1. lostBefore' \in 0 .. lost' /\ lost' \in 0 .. MaxLost
        BY <3>1 DEF Counted
      <4> QED
        BY <3>1, <4>1, WipeType
    <3> QED
      BY <2>2, <2>7, <3>1 DEF RunReset
  <2> QED
    BY <1>2, <2>1, <2>2, <2>3, <2>4, <2>5, <2>6, <2>7
       DEF Tools, Before, Burning, After, Connect, Inspect, Verify, Frames
<1>3. CASE Restart
  <2>1. lostBefore' \in 0 .. lost' /\ lost' \in 0 .. MaxLost
    BY <1>3 DEF Restart, ReceiverTypeOK
  <2>2. bbr \in [Key -> Stored] /\ Nothing \in [Key -> Stored]
    BY NothingType DEF ReceiverTypeOK
  <2> QED
    BY <1>3, <2>1, <2>2, StartUpType DEF Restart
<1>4. CASE UNCHANGED vars
  BY <1>4 DEF vars, receiver, ReceiverTypeOK, layers, port, burned
<1> QED
  BY <1>1, <1>2, <1>3, <1>4 DEF Next, Firmware

LEMMA DriverTypeStep == TypeOK /\ [Next]_vars => DriverTypeOK'
<1> SUFFICES ASSUME TypeOK, [Next]_vars PROVE DriverTypeOK'
  OBVIOUS
<1>0. DriverTypeOK /\ ReceiverTypeOK
  BY DEF TypeOK
<1>a. 1 \in 1 .. Len(Order)
  BY Indices
<1>1. CASE DriverGone
  BY <1>a, <1>1 DEF DriverGone, DriverTypeOK, Steps
<1>2. ASSUME NEW next \in Steps, Goto(next) PROVE DriverTypeOK'
  BY <1>0, <1>2 DEF Goto, DriverTypeOK
<1>3. CASE Connecting
  BY <1>2, <1>3 DEF Connecting, Begin, TryTarget, TryTheRest, SwitchRate, Reconnect, SaveRate, Steps
<1>4. CASE PauseOutput
  BY <1>0, <1>a, <1>4 DEF PauseOutput, DriverTypeOK, Steps
<1>5. ASSUME NextKey PROVE pc' \in Steps /\ at' \in 1 .. Len(Order)
  <2>1. Len(Order) \in Nat /\ at \in 1 .. Len(Order)
    BY <1>0, Indices DEF DriverTypeOK
  <2>2. \/ pc' = "clock" /\ at' = at
        \/ at # Len(Order) /\ pc' = "check" /\ at' = at + 1
    BY <1>5 DEF NextKey
  <2>3. at' \in 1 .. Len(Order)
    BY <2>1, <2>2
  <2> QED
    BY <2>2, <2>3 DEF Steps
<1>6. CASE ReadRight
  BY <1>0, <1>5, <1>6 DEF ReadRight, DriverTypeOK
<1>7. CASE WriteKey
  BY <1>0, <1>7 DEF WriteKey, DriverTypeOK, Steps
<1>8. CASE ReadBack
  <2>1. ASSUME NEW set \in BOOLEAN, NEW saved \in BOOLEAN, Judge(set, saved)
        PROVE  allOk' \in BOOLEAN /\ warned' \subseteq Key
    <3>1. Here \in Key
      BY <1>0, Indices DEF DriverTypeOK, Here
    <3>2. allOk' \in BOOLEAN
      BY <2>1 DEF Judge
    <3> QED
      BY <1>0, <2>1, <3>1, <3>2 DEF Judge, DriverTypeOK
  <2>2. allOk' \in BOOLEAN /\ warned' \subseteq Key
    BY <1>8, <2>1 DEF ReadBack
  <2>3. NextKey /\ UNCHANGED <<configured, clockState>>
    BY <1>8 DEF ReadBack
  <2> QED
    BY <1>0, <1>5, <2>2, <2>3 DEF DriverTypeOK
<1>9. CASE CheckClock
  <2>1. clockState' \in {"unchecked", "unknown", "stock", "pending", "active"}
    BY <1>9 DEF CheckClock
  <2> QED
    BY <1>0, <1>9, <2>1 DEF CheckClock, DriverTypeOK, Steps
<1>10. CASE EnableOutput
  BY <1>0, <1>10 DEF EnableOutput, DriverTypeOK, Steps
<1>11. CASE FactoryReset \/ McuReset
  BY <1>1, <1>11 DEF FactoryReset, McuReset
<1>12. CASE UNCHANGED driver
  BY <1>0, <1>12 DEF driver, DriverTypeOK
<1> QED
  BY <1>3, <1>4, <1>6, <1>7, <1>8, <1>9, <1>10, <1>11, <1>12
     DEF Next, Firmware, Configuring, vars

LEMMA ToolTypeStep == TypeOK /\ [Next]_vars => ToolTypeOK'
<1> SUFFICES ASSUME TypeOK, [Next]_vars PROVE ToolTypeOK'
  OBVIOUS
<1>0. ToolTypeOK /\ ReceiverTypeOK
  BY DEF TypeOK
<1>1. CASE Run
  BY <1>0, <1>1 DEF Run, Step, ToolTypeOK, ToolSteps
<1>2. ASSUME NEW from \in ToolSteps, NEW to \in ToolSteps, Connect(from, to) PROVE ToolTypeOK'
  BY <1>0, <1>2 DEF Connect, Says, ToolTypeOK, ToolSteps, ReceiverTypeOK
<1>3. ASSUME NEW from \in ToolSteps, NEW to \in ToolSteps, Quiet(from, to) PROVE ToolTypeOK'
  BY <1>0, <1>3 DEF Quiet, Step, ToolTypeOK
<1>4. CASE Inspect
  <2>1. PICK m10 \in BOOLEAN, polled \in BOOLEAN, state \in ClockStates :
          Decide(m10, state, polled /\ otp = Frames)
    BY <1>4 DEF Inspect
  <2>2. tpc' \in ToolSteps /\ verdict' \in {verdict, "already", "refused"}
    BY <2>1 DEF Decide, Says, ToolSteps
  <2> QED
    BY <1>0, <1>4, <2>2 DEF Inspect, ToolTypeOK
<1>5. CASE Confirm
  BY <1>0, <1>5 DEF Confirm, Says, ToolTypeOK, ToolSteps
<1>6. ASSUME NEW f, NEW from \in ToolSteps, NEW to \in ToolSteps, Burn(f, from, to)
      PROVE  ToolTypeOK'
  BY <1>0, <1>6 DEF Burn, Step, ToolTypeOK
<1>7. CASE ResetReceiver
  BY <1>0, <1>7 DEF ResetReceiver, Step, ToolTypeOK, ToolSteps
<1>8. CASE Verify
  <2>1. PICK polled \in BOOLEAN, state \in ClockStates : Says(Verdict(state, polled /\ otp = Frames))
    BY <1>8 DEF Verify
  <2>2. tpc' = "halt" /\ verdict' \in {"success", "partial", "failed"}
    BY <2>1 DEF Says, Verdict
  <2> QED
    BY <1>0, <1>8, <2>2 DEF Verify, ToolTypeOK, ToolSteps
<1>9. CASE Unplug
  BY <1>9, ReceiverAssumption DEF Unplug, ToolTypeOK, ToolSteps
<1>10. CASE UNCHANGED tool
  BY <1>0, <1>10 DEF tool, ToolTypeOK
<1>11. CASE Before \/ Burning \/ After
  <2>1. {"connect", "quiet", "read", "frame1", "frame2", "reset", "reconnect", "quietAgain",
         "verify"} \subseteq ToolSteps
    BY DEF ToolSteps
  <2>2. CASE Before
    BY <1>2, <1>3, <1>4, <1>5, <2>1, <2>2 DEF Before
  <2>3. CASE Burning
    BY <1>6, <1>7, <2>1, <2>3 DEF Burning
  <2>4. CASE After
    BY <1>2, <1>3, <1>8, <2>1, <2>4 DEF After
  <2> QED
    BY <1>11, <2>2, <2>3, <2>4
<1>12. CASE Tools
  BY <1>1, <1>9, <1>10, <1>11, <1>12 DEF Tools, RunReset
<1> QED
  BY <1>10, <1>12 DEF Next, vars
-----------------------------------------------------------------------------
(* The driver.                                                             *)

LEMMA OneProgramStep == OneProgram /\ [Next]_vars => OneProgram'
BY DEF OneProgram, Next, vars, driver, tool

LEMMA Losses ==
  ASSUME TypeOK
  PROVE  lost \in Nat /\ lostBefore \in Nat /\ lostBefore <= lost /\ rate \in Rate
BY ReceiverAssumption DEF TypeOK, ReceiverTypeOK

LEMMA FindStep == TypeOK /\ FindInv /\ [Next]_vars => FindInv'
<1> SUFFICES ASSUME TypeOK, FindInv, [Next]_vars PROVE FindInv'
  OBVIOUS
<1>0. lost \in Nat /\ lostBefore \in Nat /\ lostBefore <= lost /\ rate \in Rate
  BY Losses
<1>1. CASE Begin
  BY <1>1 DEF Begin, Goto, FindInv, Connected
<1>2. CASE TryTarget
  BY <1>0, <1>2 DEF TryTarget, Goto, Asks, Answered, Lose, port, FindInv, Connected
<1>3. CASE TryTheRest
  BY <1>0, <1>3 DEF TryTheRest, SweepRates, Goto, Asks, Answered, Lose, port, FindInv, Connected
<1>4. CASE SwitchRate
  BY <1>0, <1>4 DEF SwitchRate, Goto, Answered, Lose, FindInv, Connected
<1>5. CASE Reconnect
  BY <1>0, <1>5 DEF Reconnect, Goto, Asks, Answered, Lose, port, FindInv, Connected
<1>6. CASE SaveRate
  BY <1>6 DEF SaveRate, Goto, FindInv, Connected
<1>7. CASE Configuring
  <2>1. UNCHANGED <<rate, restarted>> /\ pc \in Connected
    BY <1>7 DEF Configuring, PauseOutput, ReadRight, WriteKey, ReadBack, CheckClock, EnableOutput,
                Asks, port, Connected
  <2>2. pc' \in Connected
    BY <1>7 DEF Configuring, PauseOutput, ReadRight, WriteKey, ReadBack, CheckClock, EnableOutput,
                NextKey, Connected
  <2> QED
    BY <2>1, <2>2 DEF FindInv, Connected
<1>8. CASE pc' = "off"
  BY <1>8 DEF FindInv, Connected
<1>9. CASE FactoryReset \/ McuReset
  BY <1>8, <1>9 DEF FactoryReset, McuReset, DriverGone
<1>10. CASE pc = "off" /\ Tools /\ UNCHANGED driver
  BY <1>8, <1>10 DEF driver
<1>11. CASE Restart /\ UNCHANGED <<driver, tool>>
  <2>1. restarted' = TRUE
    BY <1>11 DEF Restart, StartUp
  <2> QED
    BY <2>1 DEF FindInv
<1>12. CASE UNCHANGED vars
  BY <1>12 DEF vars, receiver, driver, port, FindInv
<1> QED
  BY <1>1, <1>2, <1>3, <1>4, <1>5, <1>6, <1>7, <1>9, <1>10, <1>11, <1>12
     DEF Next, Firmware, Connecting

\* Going on to the next key adds the one just judged, and the output key is the last.
LEMMA NextKeyJudged ==
  ASSUME TypeOK, pc \in {"check", "readback"}, NextKey
  PROVE  /\ JudgedSettings' = JudgedSettings \cup (IF Here = Pvt THEN {} ELSE {Here})
         /\ pc' = "check" \/ (pc' = "clock" /\ Here = Pvt)
<1>1. /\ Len(Order) \in Nat /\ at \in 1 .. Len(Order) /\ DOMAIN Order = 1 .. Len(Order)
      /\ Order[Len(Order)] = Pvt
  BY Indices, ConfigAssumption DEF TypeOK, DriverTypeOK
<1>2. CASE at = Len(Order)
  <2>1. Here = Pvt /\ pc' = "clock" /\ at' = at
    BY <1>1, <1>2 DEF NextKey, Here
  <2>2. JudgedSettings' = {Order[i] : i \in {j \in DOMAIN Order : Order[j] # Pvt}}
    BY <2>1 DEF JudgedSettings, Passed
  <2>3. \A j \in DOMAIN Order : Order[j] # Pvt => j < at
    BY <1>1, <1>2
  <2>4. JudgedSettings = {Order[i] : i \in {j \in DOMAIN Order : Order[j] # Pvt}}
    BY <2>3 DEF JudgedSettings, Passed
  <2> QED
    BY <2>1, <2>2, <2>4
<1>3. CASE at # Len(Order)
  <2>1. pc' = "check" /\ at' = at + 1
    BY <1>3 DEF NextKey
  <2>2. JudgedSettings' = {Order[i] : i \in {j \in DOMAIN Order : j < at + 1 /\ Order[j] # Pvt}}
    BY <2>1 DEF JudgedSettings, Passed
  <2>3. JudgedSettings = {Order[i] : i \in {j \in DOMAIN Order : j < at /\ Order[j] # Pvt}}
    BY DEF JudgedSettings, Passed
  <2>4. \A j \in DOMAIN Order : j < at + 1 <=> j < at \/ j = at
    BY <1>1
  <2> QED
    BY <1>1, <2>1, <2>2, <2>3, <2>4 DEF Here
<1> QED
  BY <1>2, <1>3

\* A key is gone through once: writing it changes none that was judged.
LEMMA HereNotJudged ==
  ASSUME TypeOK, pc \in {"check", "readback"}
  PROVE  Here \notin JudgedSettings
<1>1. at \in DOMAIN Order /\ \A j \in DOMAIN Order : j < at => j # at
  BY Indices DEF TypeOK, DriverTypeOK
<1> QED
  BY <1>1, ConfigAssumption DEF JudgedSettings, Passed, Here

LEMMA JudgedKeys == ASSUME TypeOK PROVE JudgedSettings \subseteq Key /\ Pvt \notin JudgedSettings
BY Indices DEF JudgedSettings

\* Losses counted against a read stay counted.
LEMMA LossesStay == ASSUME TypeOK, Configuring PROVE ReadGaveUp => ReadGaveUp'
<1>1. lost \in Nat /\ lostBefore \in Nat /\ ReadAttempts \in Nat
  BY Losses, Attempts
<1>2. lost' \in Nat /\ lost' >= lost
  BY ReceiverAssumption, DriverCounted DEF Counted, TypeOK
<1>3. lostBefore' = lostBefore
  BY DEF Configuring, PauseOutput, ReadRight, WriteKey, ReadBack, CheckClock, EnableOutput, Asks
<1> QED
  BY <1>1, <1>2, <1>3 DEF ReadGaveUp

LEMMA JudgeStep == TypeOK /\ FindInv /\ JudgeInv /\ [Next]_vars => JudgeInv'
<1> SUFFICES ASSUME TypeOK, FindInv, JudgeInv, [Next]_vars, pc' \in Judging, ~restarted'
             PROVE  /\ allOk' => \A k \in JudgedSettings' : ram'[k] = "right"
                    /\ ~allOk' => \/ \E k \in JudgedSettings' : ram'[k] = "wrong"
                                  \/ ReadGaveUp'
                    /\ pc' \notin {"check", "readback"} /\ Pvt \notin warned' => flash'[Pvt] = "right"
                    /\ pc' = "ready" => configured' = allOk'
  BY DEF JudgeInv
<1>0. /\ lost \in Nat /\ lostBefore \in Nat /\ lostBefore <= lost
      /\ ReadAttempts \in Nat \ {0} /\ ram \in [Key -> Value]
  BY Losses, Attempts DEF TypeOK, ReceiverTypeOK
<1>1. Here \in Key
  BY Indices DEF TypeOK, DriverTypeOK, Here
<1>2. CASE PauseOutput
  <2>1. allOk' = TRUE /\ at' = 1 /\ pc' = "check"
    BY <1>2 DEF PauseOutput
  <2>2. JudgedSettings' = {}
    <3>1. \A j \in DOMAIN Order : ~(j < 1)
      BY Indices
    <3> QED
      BY <2>1, <3>1 DEF JudgedSettings, Passed
  <2> QED
    BY <2>1, <2>2
<1>3. CASE ReadRight
  <2>1. /\ Judged = "right" /\ NextKey /\ pc = "check"
        /\ UNCHANGED <<ram, flash, lost, lostBefore, restarted, allOk, warned>>
    BY <1>3 DEF ReadRight, Asks, layers, Done, Heard
  <2>2. /\ JudgedSettings' = JudgedSettings \cup (IF Here = Pvt THEN {} ELSE {Here})
        /\ pc' = "check" \/ (pc' = "clock" /\ Here = Pvt)
    BY <2>1, NextKeyJudged
  <2>3. ReadGaveUp' = ReadGaveUp
    BY <2>1 DEF ReadGaveUp
  <2>4. Here # Pvt => ram[Here] = "right"
    BY <2>1 DEF Judged
  <2>5. Here = Pvt => flash[Pvt] = "right"
    BY <2>1 DEF Judged
  <2> QED
    BY <2>1, <2>2, <2>3, <2>4, <2>5 DEF JudgeInv, Judging
<1>4. CASE WriteKey
  <2>1. /\ pc = "check" /\ pc' = "readback"
        /\ UNCHANGED <<at, allOk, lostBefore, restarted>>
        /\ WriteAll(Here) \/ UNCHANGED layers
    BY <1>4 DEF WriteKey
  <2>2. JudgedSettings' = JudgedSettings
    BY <2>1 DEF JudgedSettings, Passed
  <2>3. \A k \in JudgedSettings : ram'[k] = ram[k]
    <3>1. JudgedSettings \subseteq Key /\ Here \notin JudgedSettings
      BY <2>1, JudgedKeys, HereNotJudged
    <3> QED
      BY <1>0, <2>1, <3>1 DEF WriteAll, layers
  <2>5. ReadGaveUp => ReadGaveUp'
    BY <1>4, LossesStay DEF Configuring
  <2> QED
    BY <2>1, <2>2, <2>3, <2>5 DEF JudgeInv, Judging
<1>5. CASE ReadBack
  <2>1. pc = "readback" /\ NextKey /\ UNCHANGED <<ram, flash, lostBefore, restarted>>
    BY <1>5 DEF ReadBack, Asks, layers
  <2>2. /\ JudgedSettings' = JudgedSettings \cup (IF Here = Pvt THEN {} ELSE {Here})
        /\ pc' = "check" \/ (pc' = "clock" /\ Here = Pvt)
    BY <2>1, NextKeyJudged
  <2>4. ReadGaveUp => ReadGaveUp'
    BY <1>5, LossesStay DEF Configuring
  <2>5. rate = Target
    BY <2>1 DEF FindInv, Connected
  <2>6. /\ allOk => \A k \in JudgedSettings : ram[k] = "right"
        /\ ~allOk => \/ \E k \in JudgedSettings : ram[k] = "wrong"
                     \/ ReadGaveUp
    BY <2>1 DEF JudgeInv, Judging
  <2>7. \/ Judged = "right" /\ flash[Here] = "right" /\ Judge(TRUE, TRUE)
        \/ Judged = "right" /\ Judge(TRUE, FALSE)
        \/ Judged # "right" /\ Judge(FALSE, FALSE)
        \/ ReadGaveUp' /\ Judge(FALSE, FALSE)
    <3>1. Fails(ReadAttempts) => ReadGaveUp'
      BY <1>0, <2>1, <2>5 DEF Fails, Unheard, Lose, ReadGaveUp
    <3> QED
      BY <1>5, <3>1 DEF ReadBack
  <2>8. CASE Here = Pvt
    <3>1. allOk' = allOk
      BY <2>7, <2>8, Zenon DEF Judge, TypeOK, DriverTypeOK
    <3>2. Pvt \notin warned' => flash[Pvt] = "right"
      BY <2>7, <2>8 DEF Judge, Judged
    <3> QED
      BY <2>1, <2>2, <2>4, <2>6, <2>8, <3>1, <3>2
  <2>9. CASE Here # Pvt
    <3>1. pc' = "check" /\ JudgedSettings' = JudgedSettings \cup {Here}
      BY <2>2, <2>9
    <3>2. \/ ram[Here] = "right" /\ allOk' = allOk
          \/ (ram[Here] = "wrong" \/ ReadGaveUp') /\ allOk' = FALSE
      BY <1>0, <1>1, <2>7, <2>9 DEF Judge, Judged, Value, TypeOK, DriverTypeOK
    <3> QED
      BY <2>1, <2>4, <2>6, <3>1, <3>2
  <2> QED
    BY <2>8, <2>9
<1>6. CASE CheckClock \/ EnableOutput
  <2>1. /\ pc \in {"clock", "callback"} /\ pc' \notin {"check", "readback"}
        /\ UNCHANGED <<at, allOk, warned, flash, lostBefore, restarted>>
    BY <1>6 DEF CheckClock, EnableOutput, Asks, layers, WriteRam
  <2>2. JudgedSettings' = JudgedSettings
    BY <2>1 DEF JudgedSettings, Passed
  <2>3. \A k \in JudgedSettings : ram'[k] = ram[k]
    <3>1. JudgedSettings \subseteq Key /\ Pvt \notin JudgedSettings
      BY JudgedKeys
    <3> QED
      BY <1>6, <3>1 DEF CheckClock, EnableOutput, Asks, layers, WriteRam
  <2>5. ReadGaveUp => ReadGaveUp'
    BY <1>6, LossesStay DEF Configuring
  <2>6. pc' = "ready" => configured' = allOk'
    BY <1>6 DEF CheckClock, EnableOutput
  <2> QED
    BY <2>1, <2>2, <2>3, <2>5, <2>6 DEF JudgeInv, Judging
<1>7. CASE Connecting \/ FactoryReset \/ McuReset
  BY <1>7 DEF Connecting, Begin, TryTarget, TryTheRest, SwitchRate, Reconnect, SaveRate, Goto,
              FactoryReset, McuReset, DriverGone, Judging
<1>8. CASE pc = "off" /\ Tools /\ UNCHANGED driver
  BY <1>8 DEF driver, Judging
<1>9. CASE Restart
  BY <1>9 DEF Restart, StartUp
<1>10. CASE UNCHANGED vars
  <2>1. UNCHANGED <<ram, flash, lost, lostBefore, restarted, pc, at, allOk, warned, configured>>
    BY <1>10 DEF vars, receiver, layers, driver
  <2> QED
    BY <2>1 DEF JudgeInv, JudgedSettings, Passed, ReadGaveUp
<1> QED
  BY <1>2, <1>3, <1>4, <1>5, <1>6, <1>7, <1>8, <1>9, <1>10 DEF Next, Firmware, Configuring
-----------------------------------------------------------------------------
(* The tool.                                                               *)

\* Every step either stays out of the tool's way or is one of the tool's.
LEMMA WhoMoves ==
  ASSUME TypeOK, OneProgram, [Next]_vars
  PROVE  \/ tpc = "off" /\ UNCHANGED tool
         \/ Tools
         \/ Restart /\ UNCHANGED tool
         \/ UNCHANGED <<receiver, tool>>
BY DEF Next, vars

LEMMA LinkStep == TypeOK /\ OneProgram /\ LinkInv /\ [Next]_vars => LinkInv'
<1> SUFFICES ASSUME TypeOK, OneProgram, LinkInv, [Next]_vars PROVE LinkInv'
  OBVIOUS
<1> USE DEF Linked, AfterReset
<1>0. lost \in Nat /\ lostBefore \in Nat /\ lostBefore <= lost /\ rate \in Rate
  BY Losses
<1>1. CASE tpc' = "off"
  BY <1>1 DEF LinkInv
<1>2. CASE Run
  BY <1>2 DEF Run, Step, LinkInv
<1>3. ASSUME NEW from, NEW to, Connect(from, to), from = "connect" /\ to = "quiet" PROVE LinkInv'
  BY <1>3 DEF Connect, Says, Ask, port, LinkInv
<1>4. ASSUME NEW from, NEW to, Connect(from, to), from = "reconnect" /\ to = "quietAgain"
      PROVE  LinkInv'
  BY <1>0, <1>4 DEF Connect, Says, Ask, Kept, port, Lose, LinkInv
<1>5. ASSUME UNCHANGED <<port, link, lostBefore>>, Counted,
             \/ UNCHANGED tpc
             \/ tpc \in Linked /\ tpc' \in Linked \ AfterReset
             \/ tpc = "quietAgain" /\ tpc' = "verify"
             \/ tpc' \in {"halt", "confirm"} /\ tpc \in Linked
      PROVE  LinkInv'
  BY <1>0, <1>5 DEF port, Counted, LinkInv
<1>6. ASSUME NEW from, NEW to, Quiet(from, to),
             (from = "quiet" /\ to = "read") \/ (from = "quietAgain" /\ to = "verify"), Counted
      PROVE  LinkInv'
  BY <1>5, <1>6 DEF Quiet, Step, Kept
<1>7. CASE (Inspect \/ Verify) /\ Counted
  BY <1>5, <1>7 DEF Inspect, Verify, Decide, Says, Ask, Kept
<1>8. CASE Confirm /\ Counted
  BY <1>5, <1>8 DEF Confirm, Says, receiver
<1>9. ASSUME NEW f, NEW from, NEW to, Burn(f, from, to), Counted,
             (from = "frame1" /\ to = "frame2") \/ (from = "frame2" /\ to = "reset")
      PROVE  LinkInv'
  BY <1>5, <1>9 DEF Burn, Step, Kept
<1>10. CASE ResetReceiver
  <2>1. rate' = savedRate' \/ lost' > lostBefore'
    BY <1>0, <1>10 DEF ResetReceiver, StartUp, Step, Heard, Unheard, Lose, port, LinkInv
  <2> QED
    BY <1>10, <2>1 DEF ResetReceiver, Step, LinkInv
<1>11. CASE Restart /\ UNCHANGED tool
  BY <1>0, <1>11 DEF Restart, StartUp, tool, LinkInv
<1>12. CASE Tools
  <2>0. Counted
    BY <1>12, ToolCounted DEF TypeOK
  <2>1. CASE Before
    BY <1>3, <1>6, <1>7, <1>8, <2>0, <2>1 DEF Before
  <2>2. CASE Burning
    BY <1>9, <1>10, <2>0, <2>2 DEF Burning
  <2>3. CASE After
    BY <1>4, <1>6, <1>7, <2>0, <2>3 DEF After
  <2>4. CASE Unplug
    BY <1>1, <2>4 DEF Unplug
  <2>5. CASE RunReset
    BY <1>1, <2>5 DEF RunReset, tool
  <2> QED
    BY <1>2, <1>12, <2>1, <2>2, <2>3, <2>4, <2>5 DEF Tools
<1>13. CASE UNCHANGED <<receiver, tool>>
  BY <1>13 DEF receiver, port, tool, LinkInv
<1>14. CASE tpc = "off" /\ UNCHANGED tool
  BY <1>1, <1>14 DEF tool
<1> QED
  BY <1>11, <1>12, <1>13, <1>14, WhoMoves

\* Firmware changes nothing the tool knows but the link, and losses stay.
LEMMA OtherPrograms ==
  ASSUME TypeOK, [Next]_vars
  PROVE  lost' \in Nat /\ lost' >= lost /\ (~Tools => UNCHANGED otp)
<1>1. lost \in Nat
  BY Losses
<1>2. CASE Connecting \/ Configuring \/ FactoryReset \/ McuReset
  <2>1. Counted
    BY <1>2, DriverCounted DEF TypeOK
  <2>2. UNCHANGED otp
    BY <1>2 DEF Connecting, Begin, TryTarget, TryTheRest, SwitchRate, Reconnect, SaveRate, Asks,
       Configuring, PauseOutput, ReadRight, WriteKey, ReadBack, CheckClock, EnableOutput,
       FactoryReset, Wipe, McuReset, burned
  <2> QED
    BY <2>1, <2>2, ReceiverAssumption DEF Counted
<1>3. CASE Tools
  BY <1>3, ToolCounted, ReceiverAssumption DEF Counted, TypeOK
<1>4. CASE Restart \/ UNCHANGED vars
  BY <1>1, <1>4 DEF Restart, StartUp, vars, receiver, burned
<1> QED
  BY <1>2, <1>3, <1>4 DEF Next, Firmware

LEMMA BurnStep == TypeOK /\ OneProgram /\ LinkInv /\ BurnInv /\ [Next]_vars => BurnInv'
<1> SUFFICES ASSUME TypeOK, OneProgram, LinkInv, BurnInv, [Next]_vars, lost' = 0 PROVE BurnInv'
  BY DEF BurnInv
<1>0. lost = 0 /\ lost \in Nat /\ otp \subseteq {1, 2}
  BY Losses, OtherPrograms DEF TypeOK, ReceiverTypeOK, Frames
<1>1. ASSUME UNCHANGED otp, tpc' \notin {"confirm", "frame1", "frame2"} PROVE BurnInv'
  BY <1>0, <1>1 DEF BurnInv
<1>2. CASE Inspect
  <2>1. PICK m10 \in BOOLEAN, polled \in BOOLEAN, state \in ClockStates :
          /\ rate # link => ~m10 /\ ~polled
          /\ Unheard(link, (IF m10 THEN 0 ELSE 1) + LossesOf(state, polled))
          /\ Decide(m10, state, polled /\ otp = Frames)
    BY <1>2 DEF Inspect
  <2>2. CASE tpc' = "confirm"
    <3>1. m10 /\ rate = link
      BY <2>1, <2>2 DEF Decide, Says
    <3>2. lost' = lost + LossesOf(state, polled)
      BY <2>1, <3>1, LossesType DEF Unheard, Lose
    <3>3. polled
      BY <1>0, <3>2, LossesType
    <3>4. otp # Frames
      BY <2>1, <2>2, <3>3 DEF Decide, Says
    <3> QED
      BY <1>0, <1>2, <2>2, <3>4 DEF Inspect, Ask, burned, BurnInv
  <2>3. CASE tpc' # "confirm"
    BY <1>1, <1>2, <2>1, <2>3 DEF Inspect, Ask, burned, Decide, Says
  <2> QED
    BY <2>2, <2>3
<1>3. CASE Confirm
  BY <1>0, <1>3 DEF Confirm, Says, receiver, burned, BurnInv
<1>4. CASE Burn(1, "frame1", "frame2")
  BY <1>0, <1>4 DEF Burn, Step, port, Heard, Unheard, Lose, BurnInv, Frames
<1>5. CASE Burn(2, "frame2", "reset")
  BY <1>0, <1>5 DEF Burn, Step, Heard, Unheard, Lose, BurnInv, Frames
<1>6. ASSUME NEW from, NEW to, Connect(from, to), to \in {"quiet", "quietAgain"} PROVE BurnInv'
  BY <1>1, <1>6 DEF Connect, Says, Ask, burned
<1>7. ASSUME NEW from, NEW to, Quiet(from, to), to \in {"read", "verify"} PROVE BurnInv'
  BY <1>1, <1>7 DEF Quiet, Step, burned
<1>8. CASE ResetReceiver
  BY <1>1, <1>8 DEF ResetReceiver, StartUp, Step, burned
<1>9. CASE Verify
  BY <1>1, <1>9 DEF Verify, Says, Ask, burned
<1>10. CASE Run \/ Unplug
  BY <1>1, <1>10 DEF Run, Step, Unplug, receiver, burned
<1>11. CASE RunReset
  BY <1>1, <1>11 DEF RunReset, Wipe, Ask, burned, tool
<1>12. CASE Restart /\ UNCHANGED tool
  <2>1. tpc = "frame2" /\ rate # link => rate' # link'
    BY <1>12 DEF Restart, StartUp, tool, LinkInv, Linked
  <2> QED
    BY <1>0, <1>12, <2>1 DEF Restart, StartUp, tool, BurnInv
<1>13. CASE tpc = "off" /\ UNCHANGED tool /\ ~Tools
  BY <1>1, <1>13, OtherPrograms DEF tool
<1>14. CASE UNCHANGED <<receiver, tool>>
  BY <1>14 DEF receiver, burned, port, tool, BurnInv
<1> QED
  BY <1>2, <1>3, <1>4, <1>5, <1>6, <1>7, <1>8, <1>9, <1>10, <1>11, <1>12, <1>13, <1>14, WhoMoves
     DEF Tools, Before, Burning, After

LEMMA More == \A a, b \in Nat : a > b <=> a - b > 0
OBVIOUS

LEMMA VerdictStep ==
  TypeOK /\ OneProgram /\ LinkInv /\ BurnVerdict /\ [Next]_vars => BurnVerdict'
<1> SUFFICES ASSUME TypeOK, OneProgram, LinkInv, BurnVerdict, [Next]_vars PROVE BurnVerdict'
  OBVIOUS
<1> USE DEF BurnVerdict, LostSinceStart
<1>0. /\ lost \in Nat /\ lostBefore \in Nat /\ lostBefore <= lost /\ otp \subseteq {1, 2}
      /\ lost' \in Nat /\ lost' >= lost
  BY Losses, OtherPrograms DEF TypeOK, ReceiverTypeOK, Frames
<1>1. ASSUME UNCHANGED verdict, tpc' # "halt", otp \subseteq otp', otp' \subseteq Frames
      PROVE  BurnVerdict'
  BY <1>1
<1>2. ASSUME verdict' \notin {"success", "failed"} PROVE BurnVerdict'
  BY <1>2
<1>3. CASE Verify
  <2>1. PICK polled \in BOOLEAN, state \in ClockStates :
          /\ rate # link => ~polled
          /\ Unheard(link, LossesOf(state, polled))
          /\ Says(Verdict(state, polled /\ otp = Frames))
    BY <1>3 DEF Verify
  <2>2. tpc = "verify" /\ UNCHANGED <<otp, lostBefore>>
    BY <1>3 DEF Verify, Ask, burned, Kept
  <2>3. verdict' = "success" => otp = Frames
    BY <2>1 DEF Says, Verdict
  <2>4. verdict' = "failed" /\ otp = Frames => lost' > lostBefore
    <3>1. SUFFICES ASSUME verdict' = "failed", otp = Frames PROVE lost' > lostBefore
      OBVIOUS
    <3>2. ~polled
      BY <2>1, <3>1 DEF Says, Verdict
    <3>3. rate = link => lost' = lost + LossesOf(state, polled)
      BY <2>1 DEF Unheard, Lose
    <3>4. LossesOf(state, polled) \in Nat /\ LossesOf(state, polled) >= 1
      BY <3>2, LossesType
    <3>5. rate # link => lost > lostBefore
      BY <2>2 DEF LinkInv
    <3> QED
      BY <1>0, <3>3, <3>4, <3>5
  <2>5. verdict' = "failed" /\ otp = Frames => lost' - lostBefore > 0
    BY <1>0, <2>4, More
  <2> QED
    BY <2>2, <2>3, <2>5
<1>4. CASE Inspect
  <2>1. \/ verdict' \in {"already", "refused"}
        \/ UNCHANGED verdict /\ tpc' = "confirm"
    BY <1>4 DEF Inspect, Decide, Says
  <2> QED
    BY <1>1, <1>2, <1>4, <2>1, <1>0 DEF Inspect, Ask, burned, Frames
<1>5. CASE Confirm
  BY <1>0, <1>1, <1>2, <1>5 DEF Confirm, Says, receiver, burned, Frames
<1>6. ASSUME NEW f \in Frames, NEW from, NEW to, to # "halt", Burn(f, from, to) PROVE BurnVerdict'
  BY <1>0, <1>1, <1>6 DEF Burn, Step, Frames
<1>7. ASSUME NEW from, NEW to, to # "halt", Connect(from, to) PROVE BurnVerdict'
  BY <1>0, <1>1, <1>2, <1>7 DEF Connect, Says, Ask, burned, Frames
<1>8. ASSUME NEW from, NEW to, to # "halt", Quiet(from, to) PROVE BurnVerdict'
  BY <1>0, <1>1, <1>8 DEF Quiet, Step, burned, Frames
<1>9. CASE ResetReceiver
  BY <1>0, <1>1, <1>9 DEF ResetReceiver, StartUp, Step, burned, Frames
<1>10. CASE Run
  BY <1>0, <1>1, <1>10 DEF Run, Step, burned, Frames
<1>11. CASE Unplug
  BY <1>2, <1>11 DEF Unplug
<1>12. CASE RunReset
  BY <1>0, <1>1, <1>12 DEF RunReset, Wipe, Ask, burned, tool, Frames
<1>13. CASE Restart /\ UNCHANGED tool
  BY <1>13 DEF Restart, StartUp, tool
<1>14. CASE tpc = "off" /\ UNCHANGED tool /\ ~Tools
  BY <1>0, <1>1, <1>14, OtherPrograms DEF tool, Frames
<1>15. CASE UNCHANGED <<receiver, tool>>
  BY <1>15 DEF receiver, burned, tool
<1> QED
  BY <1>3, <1>4, <1>5, <1>6, <1>7, <1>8, <1>9, <1>10, <1>11, <1>12, <1>13, <1>14, <1>15, WhoMoves
     DEF Tools, Before, Burning, After, Frames
-----------------------------------------------------------------------------
(* The invariant, and what it shows.                                       *)

LEMMA Initial == Init => IInv
<1> SUFFICES ASSUME Init PROVE IInv
  OBVIOUS
<1> USE DEF Init, ReceiverInit, DriverInit, ToolInit
<1>1. ReceiverTypeOK
  <2>1. ram \in [Key -> Value]
    BY BuiltType
  <2>2. lost \in 0 .. MaxLost /\ lostBefore \in 0 .. lost
    <3>1. MaxLost \in Nat
      BY ReceiverAssumption
    <3> QED
      BY <3>1
  <2> QED
    BY <2>1, <2>2 DEF ReceiverTypeOK
<1>2. DriverTypeOK
  <2>1. at \in 1 .. Len(Order)
    BY Indices
  <2>2. allOk \in BOOLEAN /\ configured \in BOOLEAN
    OBVIOUS
  <2> QED
    BY <2>1, <2>2 DEF DriverTypeOK, Steps
<1>3. ToolTypeOK
  BY ReceiverAssumption DEF ToolTypeOK, ToolSteps
<1>4. OneProgram /\ FindInv /\ JudgeInv
  BY DEF OneProgram, FindInv, JudgeInv, Connected, Judging
<1>5. LinkInv /\ BurnInv /\ BurnVerdict
  BY DEF LinkInv, Linked, AfterReset, BurnInv, BurnVerdict
<1> QED
  BY <1>1, <1>2, <1>3, <1>4, <1>5 DEF IInv, TypeOK

\* What the programs know of the receiver is inductive.
THEOREM InvCorrect == Spec => []IInv
<1>1. IInv /\ [Next]_vars => IInv'
  <2>1. TypeOK /\ [Next]_vars => TypeOK'
    BY ReceiverTypeStep, DriverTypeStep, ToolTypeStep DEF TypeOK
  <2> QED
    BY <2>1, OneProgramStep, FindStep, JudgeStep, LinkStep, BurnStep, VerdictStep DEF IInv
<1> QED
  BY <1>1, Initial, PTL DEF Spec

\* Receiver, driver and tool stay of their types.
THEOREM TypeCorrect == Spec => []TypeOK
<1>1. IInv => TypeOK
  BY DEF IInv
<1> QED
  BY <1>1, InvCorrect, PTL

\* configured() is the truth about the receiver, whatever was lost on the wire
\* and whenever the board was reset.
THEOREM VerdictTrue == Spec => []BootVerdict
<1>1. IInv => BootVerdict
  <2> SUFFICES ASSUME IInv, pc = "ready", ~restarted
               PROVE  IF configured
                      THEN \A k \in Setting : ram[k] = "right"
                      ELSE \/ \E k \in Setting : ram[k] = "wrong"
                           \/ LostSinceStart >= ReadAttempts
    BY DEF BootVerdict
  <2>1. /\ configured => \A k \in JudgedSettings : ram[k] = "right"
        /\ ~configured => (\E k \in JudgedSettings : ram[k] = "wrong") \/ ReadGaveUp
    <3>1. JudgeInv /\ pc \in Judging
      BY DEF IInv, Judging
    <3>2. configured = allOk
      BY <3>1 DEF JudgeInv
    <3>3. /\ allOk => \A k \in JudgedSettings : ram[k] = "right"
          /\ ~allOk => (\E k \in JudgedSettings : ram[k] = "wrong") \/ ReadGaveUp
      BY <3>1 DEF JudgeInv
    <3> QED
      BY <3>2, <3>3, Zenon
  <2>2. JudgedSettings = Setting
    <3>1. \A k \in Setting : \E i \in DOMAIN Order : Order[i] = k
      BY ConfigAssumption DEF Key
    <3>2. \A i \in DOMAIN Order : Order[i] \in Setting \cup {Pvt}
      BY Indices DEF Key
    <3> QED
      BY <3>1, <3>2, ReceiverAssumption DEF JudgedSettings, Passed
  <2>3. ReadGaveUp => LostSinceStart >= ReadAttempts
    <3>1. \A a, b, c \in Nat : a >= b + c => a - b >= c
      OBVIOUS
    <3>2. lost \in Nat /\ lostBefore \in Nat /\ ReadAttempts \in Nat
      BY Losses, Attempts DEF IInv
    <3> QED
      BY <3>1, <3>2 DEF ReadGaveUp, LostSinceStart
  <2> QED
    BY <2>1, <2>2, <2>3
<1> QED
  BY <1>1, InvCorrect, PTL

\* Only a lost exchange or a restart of the receiver makes a boot miss it.
THEOREM Found == Spec => []MissingMeansLost
<1>1. IInv => MissingMeansLost
  <2> SUFFICES ASSUME IInv, pc = "missing", ~restarted PROVE LostSinceStart > 0
    BY DEF MissingMeansLost
  <2>1. lost \in Nat /\ lostBefore \in Nat /\ lost > lostBefore
    BY Losses DEF IInv, FindInv
  <2> QED
    BY <2>1, More DEF LostSinceStart
<1> QED
  BY <1>1, InvCorrect, PTL

\* A boot that did not warn leaves a receiver that streams again by itself.
THEOREM Resumes == Spec => []OutputResumes
<1>1. IInv => OutputResumes
  <2> SUFFICES ASSUME IInv, pc = "ready", Pvt \notin warned, ~restarted, bbr[Pvt] # "wrong"
               PROVE  Built(bbr, flash)[Pvt] = "right"
    BY DEF OutputResumes
  <2>1. flash[Pvt] = "right"
    BY DEF IInv, JudgeInv, Judging
  <2>2. bbr[Pvt] \in Stored /\ Pvt \in Key
    BY DEF IInv, TypeOK, ReceiverTypeOK, Key
  <2> QED
    BY <2>1, <2>2 DEF Built, Stored, Value
<1> QED
  BY <1>1, InvCorrect, PTL

\* The burn tool's SUCCESS is the truth, and its FAILED too unless something was lost.
THEOREM BurnTold == Spec => []BurnVerdict
<1>1. IInv => BurnVerdict
  BY DEF IInv
<1> QED
  BY <1>1, InvCorrect, PTL

\* No run of the tool writes a receiver that holds both frames, unless something was lost.
THEOREM BurnedOnce == Spec => SpentOnce
<1>1. IInv => (\A f \in Frames : Lands(f) /\ otp = Frames => lost > 0)
  <2> SUFFICES ASSUME IInv, NEW f \in Frames, Lands(f), otp = Frames PROVE lost > 0
    OBVIOUS
  <2>1. tpc \in {"frame1", "frame2"}
    BY DEF Lands
  <2>2. lost # 0 /\ lost \in Nat
    BY <2>1, Losses DEF IInv, BurnInv
  <2> QED
    BY <2>2
<1>2. IInv /\ [Next]_vars => [\A f \in Frames : Lands(f) /\ otp = Frames => lost > 0]_vars
  BY <1>1
<1> QED
  BY <1>2, InvCorrect, PTL DEF Spec, SpentOnce
=============================================================================
