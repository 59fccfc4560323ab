---------------------------- MODULE ConsoleSession ----------------------------
(***************************************************************************)
(* The console job: Console::poll over ConsoleEntry, the two-press G of    *)
(* App::onGnssReset over ConfirmWindow, and the status run of Diagnostics. *)
(* Bytes arrive at any time, also while a poll reads.  Time is in ticks,   *)
(* relative to what it is compared with: dueIn is nextStatusDueUs_ - now,  *)
(* sincePress is nowMs less the last press, modulo the clock's width.      *)
(*                                                                         *)
(* "G" and "L" are those commands, "D" one that changes nothing here (D, C,*)
(* V, T), and the digits make counts.  R and O leave the boot: Device has  *)
(* them.  The texts printed are left out.                                  *)
(***************************************************************************)
EXTENDS Integers, Sequences

CONSTANTS
  Typed,       \* the bytes a host may type, "Enter" for CR or LF
  MaxCount,    \* kStatusMaxCount
  Capacity,    \* kCapacity: the digits of MaxCount
  Period,      \* kStatusPeriodUs
  Window,      \* kConfirmWindowMs
  W,           \* the range of nowMs: 2^32
  MaxGap,      \* the longest time between two console jobs
  MaxInput,    \* bound: bytes the port holds
  MaxLine      \* bound: bytes in one entry

Figures == <<"0", "1", "2", "3", "4", "5", "6", "7", "8", "9">>
Digit == [c \in {Figures[i] : i \in 1 .. 10} |-> CHOOSE v \in 0 .. 9 : Figures[v + 1] = c]
Letters == {"G", "L", "D"}

ASSUME ConsoleAssumption ==
  /\ Typed \subseteq {"Enter", "x"} \cup Letters \cup DOMAIN Digit
  /\ {MaxCount, Capacity, Period, Window, MaxGap} \subseteq Nat \ {0}
  /\ MaxInput \in Nat /\ MaxLine \in Nat
  /\ W \in Nat /\ W % 2 = 0 /\ Window <= W \div 2

VARIABLES
  input,                          \* what Serial holds
  buf, overflow, allDigits, entryEnded,   \* ConsoleEntry
  pc, budget,                     \* poll(): bytes it may still read
  armed, sincePress,              \* ConfirmWindow; 0 when not armed
  remaining, dueIn, phase,        \* Diagnostics; now modulo the period; dueIn 0 with no run
  running,                        \* in RunState::Running
  gap,                            \* time since the last console job
  line, did, meant,               \* history: the entry as typed; what the last was taken for
  pressAge, between,              \* history: of the press, up to Stale; entries since
  sinceArm, first, crossed        \* history: since arming or the last line; no line yet; a new period

entry   == <<buf, overflow, allDigits, entryEnded>>
confirm == <<armed, sincePress, pressAge, between>>
status  == <<remaining, dueIn, sinceArm, first, crossed>>
vars == <<input, entry, pc, budget, confirm, status, phase, running, gap, line, did, meant>>

Chars == Typed \ {"Enter"}
\* EntryResult, with a command's letter for its kind.
Plain(kind) == [kind |-> kind, count |-> 0]
Count(n) == [kind |-> "Count", count |-> n]
Results == {Plain(k) : k \in {"None", "TooLarge", "Unrecognised"} \cup Letters}
             \cup {Count(n) : n \in 0 .. MaxCount}

\* Long enough for the press's deadline to look ahead again.
Stale == Window + W \div 2

TypeOK ==
  /\ input \in Seq(Typed) /\ Len(input) <= MaxInput
  /\ buf \in Seq(Chars) /\ Len(buf) <= Capacity
  /\ {overflow, allDigits, entryEnded, armed, running, first, crossed} \subseteq BOOLEAN
  /\ pc \in {"idle", "poll", "tick", "erased"} /\ budget \in 0 .. Capacity + 2
  /\ sincePress \in 0 .. W - 1 /\ pressAge \in 0 .. Stale
  /\ between \subseteq {"letter", "other"}
  /\ remaining \in 0 .. MaxCount /\ phase \in 0 .. Period - 1
  /\ dueIn \in 0 - MaxGap .. 2 * Period /\ sinceArm \in 0 .. Period
  /\ gap \in 0 .. MaxGap
  /\ line \in Seq(Chars) /\ did \in Results /\ meant \in Results

Init ==
  /\ input = <<>>
  /\ buf = <<>> /\ overflow = FALSE /\ allDigits = TRUE /\ entryEnded = FALSE
  /\ pc = "idle" /\ budget = 0
  /\ armed = FALSE /\ sincePress = 0 /\ pressAge = 0 /\ between = {}
  /\ remaining = 0 /\ dueIn = 0 /\ phase = 0
  /\ running \in BOOLEAN
  /\ gap = 0 /\ line = <<>> /\ did = Plain("None") /\ meant = Plain("None")
  /\ sinceArm = 0 /\ first = FALSE /\ crossed = FALSE
-----------------------------------------------------------------------------
(* The host, the device and time.                                          *)

EntryTyped == LET ends == {i \in 1 .. Len(input) : input[i] = "Enter"}
              IN  IF ends = {} THEN Len(line) + Len(input)
                  ELSE Len(input) - (CHOOSE i \in ends : \A j \in ends : j <= i)

Type ==
  /\ pc # "erased" /\ Len(input) < MaxInput
  /\ \E c \in Typed :
       /\ c # "Enter" => EntryTyped < MaxLine
       /\ input' = Append(input, c)
  /\ UNCHANGED <<entry, pc, budget, confirm, status, phase, running, gap, line, did, meant>>

\* A Fault, or a stop for the switch: Running does not come back in this boot.
StopRunning ==
  /\ pc = "idle" /\ running /\ running' = FALSE
  /\ UNCHANGED <<input, entry, pc, budget, confirm, status, phase, gap, line, did, meant>>

Capped(t, limit) == IF t < limit THEN t ELSE limit

Elapse ==
  /\ pc = "idle" /\ gap < MaxGap
  /\ gap' = gap + 1
  /\ phase' = (phase + 1) % Period
  /\ sincePress' = (IF armed THEN (sincePress + 1) % W ELSE 0)
  /\ pressAge' = (IF armed THEN Capped(pressAge + 1, Stale) ELSE 0)
  /\ dueIn' = (IF remaining = 0 THEN 0 ELSE dueIn - 1)
  /\ sinceArm' = (IF first THEN Capped(sinceArm + 1, Period) ELSE 0)
  /\ crossed' = (crossed \/ phase' = 0)
  /\ UNCHANGED <<input, entry, pc, budget, armed, between, remaining, first, running, line, did,
                 meant>>
-----------------------------------------------------------------------------
(* ConsoleEntry.                                                           *)

Value(digits) ==
  LET v[i \in 0 .. Len(digits)] == IF i = 0 THEN 0 ELSE 10 * v[i - 1] + Digit[digits[i]]
  IN  v[Len(digits)]

\* classify(), of what was kept of the entry.
Classify ==
  CASE buf = <<>> -> Plain("None")
    [] buf # <<>> /\ allDigits
         -> IF ~overflow /\ Value(buf) <= MaxCount THEN Count(Value(buf)) ELSE Plain("TooLarge")
    [] buf # <<>> /\ ~allDigits
         -> Plain(IF Len(buf) = 1 /\ ~overflow /\ buf[1] \in Letters THEN buf[1]
                  ELSE "Unrecognised")

OverflowForgotten(kept) == FALSE

\* A byte more than the entry holds.
OverflowAfter(kept) == overflow \/ Len(kept) >= Capacity

Keep(kept, c) == IF Len(kept) < Capacity THEN Append(kept, c) ELSE kept

\* feed(): a byte of an entry, the first one after an Enter starting over.
FeedByte(c) ==
  LET kept == IF entryEnded THEN <<>> ELSE buf
  IN  /\ buf' = Keep(kept, c)
      /\ allDigits' = ((entryEnded \/ allDigits) /\ c \in DOMAIN Digit)
      /\ overflow' = (~entryEnded /\ OverflowAfter(kept))
      /\ entryEnded' = FALSE

\* feed(): an Enter after an Enter ends an empty entry.
FeedEnter(result) ==
  /\ IF entryEnded
     THEN buf' = <<>> /\ allDigits' = TRUE /\ overflow' = FALSE /\ result = Plain("None")
     ELSE UNCHANGED <<buf, allDigits, overflow>> /\ result = Classify
  /\ entryEnded' = TRUE
-----------------------------------------------------------------------------
(* What becomes of an entry.                                               *)

\* firstStatusGridUs(now) - now: a grid point a full period away.
FirstDueInNext == Period - phase
FirstDueIn == ((phase + Period - 1) \div Period + 1) * Period - phase

\* armStatus().
ArmStatus(count) ==
  /\ remaining' = count
  /\ dueIn' = (IF count = 0 THEN 0 ELSE FirstDueIn)
  /\ sinceArm' = 0 /\ first' = (count > 0) /\ UNCHANGED crossed

\* Diagnostics::handle.
Handle(result) ==
  CASE result.kind = "L" -> ArmStatus(IF remaining # 0 THEN 0 ELSE MaxCount)
    [] result.kind = "Count" -> ArmStatus(result.count)
    [] OTHER -> UNCHANGED status

PressUntimed == armed

\* press(): inside the window, the clock's width permitting.
Confirms == armed /\ (W + sincePress - Window) % W >= W \div 2

OnGnssReset ==
  \/ /\ ~running
     /\ UNCHANGED confirm /\ pc' = "tick"
  \/ /\ running /\ Confirms
     /\ armed' = FALSE /\ pc' = "erased"
     /\ UNCHANGED <<sincePress, pressAge, between>>
  \/ /\ running /\ ~Confirms
     /\ armed' = TRUE /\ sincePress' = 0 /\ pressAge' = 0 /\ between' = {} /\ pc' = "tick"

CancelNever(result) == armed

\* consoleJob(): a command other than G cancels a press.
CancelAfter(result) == armed /\ result.kind \notin Letters

Route(result) ==
  \/ /\ result.kind = "G" /\ OnGnssReset
  \/ /\ result.kind # "G" /\ pc' = "tick"
     /\ armed' = CancelAfter(result)
     /\ between' = (between \cup
          CASE result.kind \in Letters -> {"letter"} [] result.kind \notin Letters -> {"other"})
     /\ sincePress' = (IF armed' THEN sincePress ELSE 0)
     /\ pressAge' = (IF armed' THEN pressAge ELSE 0)

Execute(result) == Route(result) /\ Handle(result)
-----------------------------------------------------------------------------
(* The console job.                                                        *)

BeginPoll ==
  /\ pc = "idle" /\ pc' = "poll"
  /\ budget' = Capacity + 2 /\ gap' = 0
  /\ UNCHANGED <<input, entry, confirm, status, phase, running, line, did, meant>>

\* What the line means, whole.
Meaning(typed) ==
  CASE typed = <<>> -> Plain("None")
    [] typed # <<>> /\ (\A i \in DOMAIN typed : typed[i] \in DOMAIN Digit)
         -> IF Len(typed) <= Capacity /\ Value(typed) <= MaxCount THEN Count(Value(typed))
            ELSE Plain("TooLarge")
    [] typed # <<>> /\ (\E i \in DOMAIN typed : typed[i] \notin DOMAIN Digit)
         -> Plain(IF Len(typed) = 1 /\ typed[1] \in Letters THEN typed[1] ELSE "Unrecognised")

ReadByte ==
  /\ pc = "poll" /\ budget > 0 /\ input # <<>> /\ Head(input) # "Enter"
  /\ FeedByte(Head(input))
  /\ input' = Tail(input) /\ budget' = budget - 1
  /\ line' = Append(line, Head(input))
  /\ UNCHANGED <<pc, confirm, status, phase, running, gap, did, meant>>

\* An Enter: an empty entry is read over, any other is the call's one entry.
ReadEnter ==
  /\ pc = "poll" /\ budget > 0 /\ input # <<>> /\ Head(input) = "Enter"
  /\ input' = Tail(input)
  /\ line' = <<>> /\ meant' = Meaning(line)
  /\ \E result \in Results :
       /\ FeedEnter(result) /\ did' = result
       /\ \/ /\ result.kind = "None"
             /\ budget' = budget - 1
             /\ UNCHANGED <<pc, confirm, status>>
          \/ /\ result.kind # "None"
             /\ budget' = 0
             /\ Execute(result)
  /\ UNCHANGED <<phase, running, gap>>

\* Nothing more to read: the job goes on with no command.
EndPoll ==
  /\ pc = "poll" /\ (budget = 0 \/ input = <<>>)
  /\ pc' = "tick" /\ budget' = 0
  /\ UNCHANGED <<input, entry, confirm, status, phase, running, gap, line, did, meant>>

\* The next point of the grid; after a stall, the next one still ahead.
DueInNext == IF dueIn + Period > 0 THEN dueIn + Period ELSE Period - phase

\* Diagnostics::tick: a line if it is due, and on to the next point of the grid.
Tick ==
  /\ pc = "tick" /\ pc' = "idle"
  /\ \/ /\ remaining = 0 \/ dueIn > 0
        /\ UNCHANGED status
     \/ /\ remaining # 0 /\ dueIn <= 0
        /\ remaining' = remaining - 1
        /\ dueIn' = (IF remaining' = 0 THEN 0 ELSE DueInNext)
        /\ sinceArm' = 0 /\ first' = FALSE /\ crossed' = FALSE
  /\ did' = Plain("None") /\ meant' = Plain("None")
  /\ UNCHANGED <<input, entry, budget, confirm, phase, running, gap, line>>
-----------------------------------------------------------------------------
Next == Type \/ StopRunning \/ Elapse \/ BeginPoll \/ ReadByte \/ ReadEnter \/ EndPoll \/ Tick

Spec == Init /\ [][Next]_vars
-----------------------------------------------------------------------------
(* Properties.                                                             *)

\* An entry is taken for what the whole line says, however it arrives and over
\* however many polls: nothing of a longer line is ever taken for a command.
EntryAsTyped == did = meant

\* The receiver is erased only by two G with no other letter between them.
NothingBetween == pc = "erased" => "letter" \notin between

\* And only if the second came within the window, or so long after the first
\* that the millisecond clock has half wrapped (25 days).
InTimeOrWrapped == pc = "erased" => pressAge < Window \/ pressAge >= Stale

\* Status lines keep their pace: at most one in each period of uptime, and the
\* first no sooner than a full period after its run was armed, whatever stalls
\* and re-arming come between.
LinePaced ==
  [][pc = "tick" /\ remaining' < remaining
       => crossed /\ (first => sinceArm >= Period)]_vars

\* What docs/console.md says of G: any other command cancels it, and a number is
\* one of the commands.
OnlyTwoInARow == pc = "erased" => between = {}
=============================================================================
