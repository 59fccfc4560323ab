----------------------------- MODULE ConsoleProofs -----------------------------
(***************************************************************************)
(* The console proved for any host, any length of line, any timing of the  *)
(* job, any period and window: an entry is taken for what was typed, the   *)
(* receiver is erased only by two G in time with no letter between them,   *)
(* and the status lines keep their pace.                                   *)
(***************************************************************************)
EXTENDS ConsoleSession, TLAPS, SequenceTheorems

\* What ConsoleEntry holds of the line: as much as fits, and whether there was more.
Holds ==
  /\ Len(buf) = (IF Len(line) <= Capacity THEN Len(line) ELSE Capacity)
  /\ \A i \in 1 .. Len(buf) : buf[i] = line[i]
  /\ overflow <=> Len(line) > Capacity
  /\ allDigits <=> \A i \in 1 .. Len(line) : line[i] \in DOMAIN Digit

EntryInv ==
  /\ EntryAsTyped
  /\ entryEnded => line = <<>>
  /\ ~entryEnded => Holds

\* What is known of the press that stands: no letter since, and the clock gives
\* its age until it could look fresh again.
PressInv ==
  /\ armed => "letter" \notin between
  /\ armed /\ pressAge < Stale => sincePress = pressAge
  /\ NothingBetween /\ InTimeOrWrapped

\* The run's next line: on the grid, a period after it was armed, and never in a
\* period that has had one.
OnGrid == \E k \in Int : dueIn + phase = k * Period

RunInv ==
  /\ remaining = 0 => dueIn = 0 /\ ~first
  /\ remaining # 0 => OnGrid
  /\ first => dueIn + sinceArm >= Period \/ sinceArm = Period
  /\ remaining # 0 /\ ~crossed => dueIn + phase >= Period

\* How late a line can be.
LateInv ==
  /\ pc = "idle" => dueIn >= 0 - gap
  /\ pc # "idle" => gap = 0

IInv == TypeOK /\ EntryInv /\ PressInv /\ RunInv /\ LateInv
-----------------------------------------------------------------------------
(* Constants and arithmetic.                                               *)

LEMMA Constants ==
  /\ MaxCount \in Nat /\ MaxCount >= 1 /\ Capacity \in Nat /\ Capacity >= 1
  /\ Period \in Nat /\ Period >= 1 /\ Window \in Nat /\ Window >= 1
  /\ MaxGap \in Nat /\ MaxGap >= 1 /\ MaxInput \in Nat
  /\ "Enter" \notin Chars /\ Chars \subseteq Typed
BY ConsoleAssumption DEF Chars

\* Half the clock's range, and when an old press can look new.
LEMMA Halves ==
  \E h \in Nat : W = h + h /\ W \div 2 = h /\ h >= Window /\ h >= 1 /\ Stale = Window + h
<1>1. W \in Nat /\ W % 2 = 0 /\ Window <= W \div 2
  BY ConsoleAssumption
<1>2. PICK h \in Nat : W = h + h /\ W \div 2 = h
  BY <1>1
<1> QED
  BY <1>1, <1>2, Constants DEF Stale

LEMMA UpToPeriod ==
  ASSUME NEW p \in Nat \ {0}, NEW f \in 0 .. p - 1
  PROVE  (f + p - 1) \div p = (IF f = 0 THEN 0 ELSE 1)
<1>1. PICK t \in Nat : t = f + p - 1
  OBVIOUS
<1>2. PICK q \in Nat, c \in 0 .. p - 1 : q = t \div p /\ c = t % p /\ t = q * p + c
  OBVIOUS
<1>3. ASSUME q >= 2 PROVE FALSE
  <2>1. PICK d \in Nat : q = 2 + d
    <3>1. q - 2 \in Nat
      BY <1>3
    <3> QED
      BY <3>1
  <2>2. (2 + d) * p = p + p + d * p /\ d * p \in Nat
    OBVIOUS
  <2> QED
    BY <1>1, <1>2, <2>1, <2>2
<1>4. q = 0 \/ q = 1
  BY <1>3
<1>5. CASE q = 0
  BY <1>1, <1>2, <1>5
<1>6. CASE q = 1
  BY <1>1, <1>2, <1>6
<1> QED
  BY <1>4, <1>5, <1>6

\* The first line of a run: the end of this period, or of the next one.
LEMMA FirstDue ==
  ASSUME phase \in 0 .. Period - 1
  PROVE  FirstDueIn = (IF phase = 0 THEN Period ELSE Period + Period - phase)
<1>1. PICK p \in Nat \ {0} : p = Period
  BY Constants
<1>2. PICK f \in 0 .. p - 1 : f = phase
  BY <1>1
<1>3. (f + p - 1) \div p = (IF f = 0 THEN 0 ELSE 1)
  BY UpToPeriod
<1>4. (0 + 1) * p = p /\ (1 + 1) * p = p + p
  OBVIOUS
<1>5. CASE f = 0
  BY <1>1, <1>2, <1>3, <1>4, <1>5 DEF FirstDueIn
<1>6. CASE f # 0
  BY <1>1, <1>2, <1>3, <1>4, <1>6 DEF FirstDueIn
<1> QED
  BY <1>2, <1>5, <1>6

LEMMA Wraps ==
  ASSUME NEW w \in Nat \ {0}, NEW x \in 0 .. w - 1
  PROVE  /\ x + 1 = w => (x + 1) % w = 0
         /\ x + 1 # w => (x + 1) % w = x + 1
         /\ (x + 1) % w \in 0 .. w - 1
<1>1. CASE x + 1 = w
  BY <1>1
<1>2. CASE x + 1 # w
  BY <1>2
<1> QED
  BY <1>1, <1>2

\* A press looks young exactly as long as it is.
LEMMA Young ==
  ASSUME NEW h \in Nat, NEW s \in Nat, NEW v \in 0 .. h, s < v + h,
         (h + h + s - v) % (h + h) >= h
  PROVE  s < v
<1>1. CASE s >= v
  <2>1. PICK d \in Nat : s = v + d /\ d < h
    <3>1. s - v \in Nat
      BY <1>1
    <3> QED
      BY <3>1
  <2>2. h + h + s - v = h + h + d
    BY <2>1
  <2>3. (h + h + d) % (h + h) = d
    <3>1. PICK w \in Nat \ {0} : w = h + h
      BY <2>1
    <3>2. (w + d) % w = d
      BY <2>1, <3>1
    <3> QED
      BY <3>1, <3>2
  <2> QED
    BY <2>1, <2>2, <2>3
<1> QED
  BY <1>1
-----------------------------------------------------------------------------
(* The entry.                                                              *)

\* The types of the entry's strings, for the sequence lemmas.
EntryType ==
  /\ input \in Seq(Typed) /\ buf \in Seq(Chars) /\ line \in Seq(Chars)
  /\ Len(buf) \in 0 .. Capacity
  /\ {overflow, allDigits, entryEnded} \subseteq BOOLEAN

\* One byte more is held as it was typed.
LEMMA HoldsByte ==
  ASSUME EntryType, EntryInv, NEW c \in Chars, FeedByte(c), line' = Append(line, c)
  PROVE  /\ ~entryEnded' /\ Holds'
         /\ buf' \in Seq(Chars) /\ line' \in Seq(Chars) /\ Len(buf') \in 0 .. Capacity
         /\ {overflow', allDigits', entryEnded'} \subseteq BOOLEAN
<1> DEFINE kept == IF entryEnded THEN <<>> ELSE buf
<1>1. /\ line \in Seq(Chars) /\ Len(line) \in Nat
      /\ kept \in Seq(Chars) /\ Len(kept) \in Nat
      /\ Len(kept) = (IF Len(line) <= Capacity THEN Len(line) ELSE Capacity)
      /\ \A i \in 1 .. Len(kept) : kept[i] = line[i]
  <2>1. line \in Seq(Chars) /\ buf \in Seq(Chars) /\ <<>> \in Seq(Chars) /\ Len(<<>>) = 0
    BY EmptySeq DEF EntryType
  <2>2. CASE entryEnded
    <3>1. kept = <<>> /\ line = <<>>
      BY <2>2 DEF EntryInv
    <3> QED
      BY <2>1, <3>1, Constants
  <2>3. CASE ~entryEnded
    <3>1. kept = buf /\ Holds
      BY <2>3 DEF EntryInv
    <3> QED
      BY <2>1, <3>1, LenProperties DEF Holds
  <2> QED
    BY <2>2, <2>3
<1>2. /\ line' \in Seq(Chars) /\ Len(line') = Len(line) + 1
      /\ \A i \in 1 .. Len(line) : line'[i] = line[i]
      /\ line'[Len(line) + 1] = c
  BY <1>1, AppendProperties
<1>3. /\ buf' = Keep(kept, c) /\ ~entryEnded'
      /\ allDigits' = ((entryEnded \/ allDigits) /\ c \in DOMAIN Digit)
      /\ overflow' = (~entryEnded /\ OverflowAfter(kept))
  BY DEF FeedByte
<1> HIDE DEF kept
<1>4. /\ buf' \in Seq(Chars) /\ Len(buf') \in 0 .. Capacity
      /\ Len(buf') = (IF Len(line') <= Capacity THEN Len(line') ELSE Capacity)
      /\ \A i \in 1 .. Len(buf') : buf'[i] = line'[i]
  <2>1. CASE Len(line) < Capacity
    <3>1. buf' = Append(kept, c) /\ Len(kept) = Len(line)
      BY <1>1, <1>3, <2>1, Constants DEF Keep
    <3>2. /\ buf' \in Seq(Chars) /\ Len(buf') = Len(kept) + 1
          /\ \A i \in 1 .. Len(kept) : buf'[i] = kept[i]
          /\ buf'[Len(kept) + 1] = c
      BY <1>1, <3>1, AppendProperties
    <3>3. ASSUME NEW i \in 1 .. Len(buf') PROVE buf'[i] = line'[i]
      <4>1. i \in 1 .. Len(line) \/ i = Len(line) + 1
        BY <1>1, <3>1, <3>2
      <4> QED
        BY <1>1, <1>2, <3>1, <3>2, <4>1
    <3>4. Len(buf') \in 0 .. Capacity /\ Len(buf') = Len(line') /\ Len(line') <= Capacity
      BY <1>1, <1>2, <2>1, <3>1, <3>2, Constants
    <3> QED
      BY <3>2, <3>3, <3>4
  <2>2. CASE ~(Len(line) < Capacity)
    <3>1. buf' = kept /\ Len(kept) = Capacity
      BY <1>1, <1>3, <2>2, Constants DEF Keep
    <3>2. ASSUME NEW i \in 1 .. Len(buf') PROVE buf'[i] = line'[i]
      BY <1>1, <1>2, <2>2, <3>1, <3>2, Constants
    <3>3. Len(buf') = Capacity /\ Capacity \in 0 .. Capacity /\ ~(Len(line') <= Capacity)
      BY <1>1, <1>2, <2>2, <3>1, Constants
    <3> QED
      BY <1>1, <3>1, <3>2, <3>3
  <2> QED
    BY <2>1, <2>2
<1>5. overflow' <=> Len(line') > Capacity
  <2>1. CASE entryEnded
    <3>1. Len(line) = 0 /\ ~overflow'
      BY <1>3, <2>1, EmptySeq DEF EntryInv
    <3> QED
      BY <1>2, <3>1, Constants
  <2>2. CASE ~entryEnded
    <3>1. overflow <=> Len(line) > Capacity
      BY <2>2 DEF EntryInv, Holds
    <3>2. overflow' <=> overflow \/ Len(kept) >= Capacity
      BY <1>3, <2>2 DEF OverflowAfter
    <3> QED
      BY <1>1, <1>2, <3>1, <3>2, Constants
  <2> QED
    BY <2>1, <2>2
<1>6. allDigits' <=> \A i \in 1 .. Len(line') : line'[i] \in DOMAIN Digit
  <2>1. (entryEnded \/ allDigits) <=> \A i \in 1 .. Len(line) : line[i] \in DOMAIN Digit
    <3>1. CASE entryEnded
      <4>1. Len(line) = 0
        BY <3>1, EmptySeq DEF EntryInv
      <4> QED
        BY <3>1, <4>1
    <3>2. CASE ~entryEnded
      BY <3>2 DEF EntryInv, Holds
    <3> QED
      BY <3>1, <3>2
  <2>2. \A i \in 1 .. Len(line') : i \in 1 .. Len(line) \/ i = Len(line) + 1
    BY <1>1, <1>2
  <2>3. Len(line) + 1 \in 1 .. Len(line') /\ 1 .. Len(line) \subseteq 1 .. Len(line')
    BY <1>1, <1>2
  <2> QED
    BY <1>2, <1>3, <2>1, <2>2, <2>3, Zenon
<1>7. {overflow', allDigits', entryEnded'} \subseteq BOOLEAN
  <2>1. overflow' \in BOOLEAN /\ entryEnded' \in BOOLEAN /\ allDigits' \in BOOLEAN
    <3>1. (Len(line') > Capacity) \in BOOLEAN
      BY <1>1, <1>2, Constants
    <3> QED
      BY <1>3 DEF FeedByte
  <2> QED
    BY <2>1
<1> QED
  BY <1>2, <1>3, <1>4, <1>5, <1>6, <1>7 DEF Holds

\* What is held is enough to take the line for what it says, and to reject the
\* rest of it whole.
LEMMA ClassifyMeans ==
  ASSUME EntryType, Holds
  PROVE  Classify = Meaning(line)
<1>1. /\ line \in Seq(Chars) /\ Len(line) \in Nat /\ DOMAIN line = 1 .. Len(line)
      /\ buf \in Seq(Chars) /\ Len(buf) \in Nat
      /\ Len(buf) = (IF Len(line) <= Capacity THEN Len(line) ELSE Capacity)
      /\ \A i \in 1 .. Len(buf) : buf[i] = line[i]
      /\ (overflow <=> Len(line) > Capacity)
      /\ (allDigits <=> \A i \in DOMAIN line : line[i] \in DOMAIN Digit)
  BY LenProperties DEF EntryType, Holds
<1>2. (buf = <<>> <=> line = <<>>) /\ (line # <<>> => Len(line) >= 1)
  <2>1. (line = <<>> <=> Len(line) = 0) /\ (buf = <<>> <=> Len(buf) = 0)
    BY <1>1, EmptySeq
  <2> QED
    BY <1>1, <2>1, Constants
<1>3. Len(line) <= Capacity => buf = line
  BY <1>1, SeqEqual
<1>4. (overflow <=> ~(Len(line) <= Capacity)) /\ (Len(line) <= Capacity) \in BOOLEAN
  BY <1>1, Constants
<1>5. CASE line = <<>>
  BY <1>2, <1>5 DEF Classify, Meaning
<1>6. CASE line # <<>> /\ allDigits
  <2>1. Classify = (IF ~overflow /\ Value(buf) <= MaxCount THEN Count(Value(buf))
                    ELSE Plain("TooLarge"))
    BY <1>2, <1>6 DEF Classify
  <2>2. Meaning(line) = (IF Len(line) <= Capacity /\ Value(line) <= MaxCount
                         THEN Count(Value(line)) ELSE Plain("TooLarge"))
    BY <1>1, <1>6 DEF Meaning
  <2>3. CASE Len(line) <= Capacity
    <3>1. buf = line /\ ~overflow
      BY <1>3, <1>4, <2>3
    <3> QED
      BY <2>1, <2>2, <2>3, <3>1
  <2>4. CASE ~(Len(line) <= Capacity)
    BY <1>4, <2>1, <2>2, <2>4
  <2> QED
    BY <2>3, <2>4
<1>7. CASE line # <<>> /\ ~allDigits
  <2>1. Classify = Plain(IF Len(buf) = 1 /\ ~overflow /\ buf[1] \in Letters THEN buf[1]
                         ELSE "Unrecognised")
    BY <1>2, <1>7 DEF Classify
  <2>2. Meaning(line) = Plain(IF Len(line) = 1 /\ line[1] \in Letters THEN line[1]
                              ELSE "Unrecognised")
    BY <1>1, <1>7 DEF Meaning
  <2>3. CASE Len(line) <= Capacity
    <3>1. buf = line /\ ~overflow
      BY <1>3, <1>4, <2>3
    <3> QED
      BY <2>1, <2>2, <3>1
  <2>4. CASE ~(Len(line) <= Capacity)
    <3>1. Len(line) # 1 /\ overflow
      BY <1>1, <1>4, <2>4, Constants
    <3> QED
      BY <2>1, <2>2, <3>1
  <2> QED
    BY <2>3, <2>4
<1> QED
  BY <1>5, <1>6, <1>7

LEMMA EntryStep == EntryType /\ EntryInv /\ [Next]_vars => EntryInv'
<1> SUFFICES ASSUME EntryType, EntryInv, [Next]_vars PROVE EntryInv'
  OBVIOUS
<1>1. ASSUME UNCHANGED <<entry, line, did, meant>> PROVE EntryInv'
  <2>1. UNCHANGED <<buf, overflow, allDigits, entryEnded, line, did, meant>>
    BY <1>1 DEF entry
  <2> QED
    BY <2>1 DEF EntryInv, Holds, EntryAsTyped
<1>2. CASE Type \/ StopRunning \/ Elapse \/ BeginPoll \/ EndPoll \/ UNCHANGED vars
  BY <1>1, <1>2 DEF Type, StopRunning, Elapse, BeginPoll, EndPoll, vars
<1>3. CASE ReadByte
  <2>1. Head(input) \in Chars
    BY <1>3, HeadTailProperties DEF ReadByte, EntryType, Chars
  <2>2. ~entryEnded' /\ Holds'
    BY <1>3, <2>1, HoldsByte DEF ReadByte
  <2> QED
    BY <1>3, <2>2 DEF ReadByte, EntryInv, EntryAsTyped
<1>4. CASE ReadEnter
  <2>1. PICK result \in Results : FeedEnter(result) /\ did' = result
    BY <1>4 DEF ReadEnter
  <2>2. line' = <<>> /\ meant' = Meaning(line)
    BY <1>4 DEF ReadEnter
  <2>3. entryEnded'
    BY <2>1 DEF FeedEnter
  <2>4. result = Meaning(line)
    <3>1. CASE entryEnded
      <4>1. result = Plain("None") /\ line = <<>>
        BY <2>1, <3>1 DEF FeedEnter, EntryInv
      <4> QED
        BY <4>1 DEF Meaning
    <3>2. CASE ~entryEnded
      BY <2>1, <3>2, ClassifyMeans DEF FeedEnter, EntryInv
    <3> QED
      BY <3>1, <3>2
  <2> QED
    BY <2>1, <2>2, <2>3, <2>4 DEF EntryInv, EntryAsTyped
<1>5. CASE Tick
  <2>1. UNCHANGED <<buf, overflow, allDigits, entryEnded, line>> /\ did' = meant'
    BY <1>5 DEF Tick, entry
  <2> QED
    BY <2>1 DEF EntryInv, Holds, EntryAsTyped
<1> QED
  BY <1>2, <1>3, <1>4, <1>5 DEF Next
-----------------------------------------------------------------------------
(* What an entry does.                                                     *)

LEMMA Handles ==
  ASSUME NEW result \in Results, Handle(result)
  PROVE  UNCHANGED status \/ \E n \in 0 .. MaxCount : ArmStatus(n)
<1>1. CASE result.kind = "L"
  <2>1. (IF remaining # 0 THEN 0 ELSE MaxCount) \in 0 .. MaxCount
    BY Constants
  <2>2. ArmStatus(IF remaining # 0 THEN 0 ELSE MaxCount)
    BY <1>1 DEF Handle
  <2> QED
    BY <2>1, <2>2
<1>2. CASE result.kind = "Count"
  <2>1. result.count \in 0 .. MaxCount
    BY <1>2 DEF Results, Plain, Count, Letters
  <2>2. ArmStatus(result.count)
    BY <1>2 DEF Handle
  <2> QED
    BY <2>1, <2>2
<1>3. CASE result.kind # "L" /\ result.kind # "Count"
  BY <1>3 DEF Handle
<1> QED
  BY <1>1, <1>2, <1>3

\* What poll() does to the window and the run.
LEMMA Executes ==
  ASSUME ReadEnter
  PROVE  /\ \/ UNCHANGED status
            \/ \E n \in 0 .. MaxCount : ArmStatus(n)
         /\ \/ UNCHANGED <<confirm, pc>>
            \/ \E result \in Results : Route(result)
<1>1. PICK result \in Results :
        UNCHANGED <<pc, confirm, status>> \/ (Route(result) /\ Handle(result))
  BY DEF ReadEnter, Execute
<1> QED
  BY <1>1, Handles
-----------------------------------------------------------------------------
(* The window.                                                             *)

\* The types of the press.
PressType == sincePress \in 0 .. W - 1 /\ pressAge \in 0 .. Stale

LEMMA PressStep ==
  ASSUME PressType, PressInv, [Next]_vars
  PROVE  PressInv' /\ PressType'
<1> USE DEF PressInv, NothingBetween, InTimeOrWrapped, PressType
<1>0. PICK h \in Nat : W = h + h /\ W \div 2 = h /\ h >= Window /\ h >= 1 /\ Stale = Window + h
  BY Halves
<1>1. ASSUME UNCHANGED <<confirm, pc>> PROVE PressInv' /\ PressType'
  BY <1>1 DEF confirm
<1>2. ASSUME UNCHANGED confirm, pc # "erased", pc' # "erased" PROVE PressInv' /\ PressType'
  BY <1>2 DEF confirm
<1>3. CASE Type \/ StopRunning \/ ReadByte \/ UNCHANGED vars
  BY <1>1, <1>3 DEF Type, StopRunning, ReadByte, vars
<1>4. CASE BeginPoll \/ EndPoll \/ Tick
  BY <1>2, <1>4 DEF BeginPoll, EndPoll, Tick
<1>5. CASE Elapse
  <2>1. /\ sincePress' = (IF armed THEN (sincePress + 1) % W ELSE 0)
        /\ pressAge' = (IF armed THEN Capped(pressAge + 1, Stale) ELSE 0)
        /\ UNCHANGED <<armed, between, pc>> /\ pc = "idle"
    BY <1>5 DEF Elapse
  <2>2. PICK w \in Nat \ {0}, a \in Nat : w = W /\ a = pressAge /\ a <= Stale /\ Stale <= w
    BY <1>0, Constants
  <2>3. PICK s \in 0 .. w - 1 : s = sincePress
    BY <2>2
  <2>4. /\ (s + 1) % w \in 0 .. w - 1
        /\ s + 1 # w => (s + 1) % w = s + 1
    BY Wraps
  <2>5. /\ Capped(a + 1, Stale) \in 0 .. Stale
        /\ Capped(a + 1, Stale) < Stale => Capped(a + 1, Stale) = a + 1 /\ a < Stale
    BY <1>0, <2>2, Constants DEF Capped
  <2>6. 0 \in 0 .. W - 1 /\ 0 \in 0 .. Stale
    BY <1>0, Constants
  <2>7. CASE ~armed
    BY <2>1, <2>6, <2>7
  <2>8. CASE armed
    <3>1. sincePress' = (s + 1) % w /\ pressAge' = Capped(a + 1, Stale)
      BY <2>1, <2>2, <2>3, <2>8
    <3>2. PressType'
      BY <2>2, <2>4, <2>5, <3>1
    <3>3. pressAge' < Stale => sincePress' = pressAge'
      <4>1. ASSUME pressAge' < Stale PROVE sincePress' = pressAge'
        <5>1. pressAge' = a + 1 /\ a < Stale
          BY <2>5, <3>1, <4>1
        <5>2. s = a
          BY <2>2, <2>3, <2>8, <5>1
        <5>3. s + 1 # w
          BY <1>0, <2>2, <4>1, <5>1, <5>2, Constants
        <5> QED
          BY <2>4, <3>1, <5>1, <5>2, <5>3
      <4> QED
        BY <4>1
    <3> QED
      BY <2>1, <3>2, <3>3
  <2> QED
    BY <2>7, <2>8
<1>6. CASE ReadEnter
  <2>0. pc = "poll"
    BY <1>6 DEF ReadEnter
  <2>1. ASSUME NEW result \in Results, Route(result) PROVE PressInv' /\ PressType'
    <3>1. CASE result.kind = "G" /\ ~running
      BY <1>2, <2>0, <2>1, <3>1 DEF Route, OnGnssReset
    <3>2. CASE result.kind = "G" /\ running /\ Confirms
      <4>1. armed /\ ~armed' /\ UNCHANGED <<sincePress, pressAge, between>>
        BY <2>1, <3>2 DEF Route, OnGnssReset, Confirms
      <4>2. pressAge < Window \/ pressAge >= Stale
        <5> SUFFICES ASSUME pressAge < Stale PROVE pressAge < Window
          BY <1>0, Constants
        <5>1. PICK s \in Nat, v \in 0 .. h : s = pressAge /\ v = Window
          BY <1>0, Constants
        <5>2. sincePress = s /\ s < v + h
          BY <1>0, <4>1, <5>1
        <5>3. (h + h + s - v) % (h + h) >= h
          BY <1>0, <3>2, <5>1, <5>2 DEF Confirms
        <5> QED
          BY <5>1, <5>2, <5>3, Young
      <4> QED
        BY <4>1, <4>2
    <3>3. CASE result.kind = "G" /\ running /\ ~Confirms
      <4>1. armed' /\ sincePress' = 0 /\ pressAge' = 0 /\ between' = {} /\ pc' = "tick"
        BY <2>1, <3>3 DEF Route, OnGnssReset
      <4>2. 0 \in 0 .. W - 1 /\ 0 \in 0 .. Stale
        BY <1>0, Constants
      <4> QED
        BY <4>1, <4>2
    <3>4. CASE result.kind # "G"
      <4>1. /\ pc' = "tick" /\ armed' = CancelAfter(result)
            /\ between' = (between \cup
                 CASE result.kind \in Letters -> {"letter"} [] result.kind \notin Letters -> {"other"})
            /\ sincePress' = (IF armed' THEN sincePress ELSE 0)
            /\ pressAge' = (IF armed' THEN pressAge ELSE 0)
        BY <2>1, <3>4 DEF Route
      <4>2. 0 \in 0 .. W - 1 /\ 0 \in 0 .. Stale
        BY <1>0, Constants
      <4>3. armed' => armed /\ between' = between \cup {"other"}
        BY <4>1 DEF CancelAfter
      <4>4. armed' => sincePress' = sincePress /\ pressAge' = pressAge
        BY <4>1
      <4>5. ~armed' => sincePress' = 0 /\ pressAge' = 0
        BY <4>1
      <4> QED
        BY <4>1, <4>2, <4>3, <4>4, <4>5
    <3> QED
      BY <3>1, <3>2, <3>3, <3>4
  <2> QED
    BY <1>1, <1>6, <2>1, Executes
<1> QED
  BY <1>3, <1>4, <1>5, <1>6 DEF Next
-----------------------------------------------------------------------------
(* The status run.                                                         *)

\* Its types.
RunType ==
  /\ phase \in 0 .. Period - 1 /\ sinceArm \in 0 .. Period /\ gap \in 0 .. MaxGap
  /\ dueIn \in 0 - MaxGap .. 2 * Period /\ remaining \in 0 .. MaxCount
  /\ first \in BOOLEAN /\ crossed \in BOOLEAN

\* Arming puts the first line on the grid, a full period away.
LEMMA Arms ==
  ASSUME RunType, NEW n \in 0 .. MaxCount, ArmStatus(n), UNCHANGED <<phase, gap>>
  PROVE  RunInv' /\ RunType' /\ dueIn' >= 0
<1>1. PICK p \in Nat \ {0}, f \in Nat : p = Period /\ f = phase /\ f < p
  BY Constants DEF RunType
<1>2. FirstDueIn = (IF f = 0 THEN p ELSE p + p - f)
  BY <1>1, FirstDue DEF RunType
<1>3. /\ remaining' = n /\ dueIn' = (IF n = 0 THEN 0 ELSE FirstDueIn)
      /\ sinceArm' = 0 /\ first' = (n > 0) /\ crossed' = crossed /\ phase' = f /\ gap' = gap
  BY <1>1 DEF ArmStatus
<1>4. (n > 0) \in BOOLEAN /\ n \in Nat
  BY Constants
<1>5. CASE n = 0
  <2>1. dueIn' = 0 /\ ~first' /\ remaining' = 0
    <3>1. ~(n > 0)
      BY <1>5
    <3> QED
      BY <1>3, <1>5, <3>1, Zenon
  <2>2. 0 \in 0 - MaxGap .. 2 * Period
    BY Constants
  <2>3. RunInv'
    BY <2>1 DEF RunInv
  <2> QED
    BY <1>1, <1>3, <2>1, <2>2, <2>3 DEF RunType
<1>6. CASE n # 0
  <2>1. first' /\ remaining' # 0
    <3>1. n > 0
      BY <1>4, <1>6
    <3> QED
      BY <1>3, <1>6, <3>1, Zenon
  <2>2. PICK d \in Nat : d = dueIn' /\ d = (IF f = 0 THEN p ELSE p + p - f) /\ d >= p /\ d <= p + p
    BY <1>1, <1>2, <1>3, <1>6
  <2>3. OnGrid'
    <3>1. d + f = 1 * p \/ d + f = 2 * p
      BY <2>2
    <3>2. \E k \in Int : dueIn' + phase' = k * Period
      BY <1>1, <1>3, <2>2, <3>1
    <3> QED
      BY <3>2 DEF OnGrid
  <2>4. dueIn' + sinceArm' >= Period /\ dueIn' + phase' >= Period
    BY <1>1, <1>3, <2>2
  <2>5. RunInv'
    BY <2>1, <2>3, <2>4 DEF RunInv
  <2>6. dueIn' \in 0 - MaxGap .. 2 * Period
    BY <1>1, <2>2, Constants
  <2>7. sinceArm' \in 0 .. Period /\ first' \in BOOLEAN /\ remaining' \in 0 .. MaxCount
    BY <1>1, <1>3, <2>1
  <2>8. RunType'
    BY <1>1, <1>3, <2>6, <2>7 DEF RunType
  <2> QED
    BY <2>2, <2>5, <2>8
<1> QED
  BY <1>5, <1>6

\* A tick of the clock brings the line nearer.
LEMMA RunElapses ==
  ASSUME RunType, RunInv, LateInv, Elapse
  PROVE  RunInv' /\ RunType' /\ LateInv'
<1>1. PICK p \in Nat \ {0}, f \in Nat : p = Period /\ f = phase /\ f \in 0 .. p - 1
  BY Constants DEF RunType
<1>2. PICK d \in Int, g \in Nat : d = dueIn /\ g = gap /\ d >= 0 - g /\ g < MaxGap /\ d <= 2 * Period
  <2>1. dueIn \in Int /\ gap \in Nat /\ gap < MaxGap /\ dueIn >= 0 - gap /\ dueIn <= 2 * Period
    BY Constants DEF RunType, LateInv, Elapse
  <2> QED
    BY <2>1
<1>3. PICK a \in Nat : a = sinceArm /\ a <= p
  BY <1>1 DEF RunType
<1>4. /\ gap' = g + 1 /\ phase' = (f + 1) % p
      /\ dueIn' = (IF remaining = 0 THEN 0 ELSE d - 1)
      /\ sinceArm' = (IF first THEN Capped(a + 1, p) ELSE 0)
      /\ crossed' = (crossed \/ phase' = 0)
      /\ UNCHANGED <<pc, remaining, first>> /\ pc = "idle"
  BY <1>1, <1>2, <1>3 DEF Elapse
<1>5. /\ f + 1 = p => phase' = 0
      /\ f + 1 # p => phase' = f + 1
      /\ phase' \in 0 .. p - 1
  <2>1. /\ f + 1 = p => (f + 1) % p = 0
        /\ f + 1 # p => (f + 1) % p = f + 1
        /\ (f + 1) % p \in 0 .. p - 1
    BY <1>1, Wraps
  <2> QED
    BY <1>4, <2>1, Zenon
<1>6. Capped(a + 1, p) \in 0 .. p /\ (Capped(a + 1, p) = a + 1 \/ Capped(a + 1, p) = p)
  BY <1>3 DEF Capped
<1>7. RunType'
  <2>1. dueIn' \in 0 - MaxGap .. 2 * Period
    BY <1>2, <1>4, Constants
  <2>2. sinceArm' \in 0 .. Period /\ gap' \in 0 .. MaxGap
    BY <1>1, <1>2, <1>4, <1>6, Constants
  <2>3. crossed' \in BOOLEAN
    BY <1>4 DEF RunType
  <2> QED
    BY <1>1, <1>4, <1>5, <2>1, <2>2, <2>3 DEF RunType
<1>8. LateInv'
  BY <1>2, <1>4 DEF LateInv
<1>9. CASE remaining = 0
  <2>1. remaining' = 0 /\ dueIn' = 0 /\ ~first'
    BY <1>4, <1>9 DEF RunInv
  <2> QED
    BY <1>7, <1>8, <2>1 DEF RunInv
<1>10. CASE remaining # 0
  <2>1. dueIn' = d - 1
    BY <1>4, <1>10
  <2>2. PICK k \in Int : d + f = k * p
    BY <1>1, <1>2, <1>10 DEF RunInv, OnGrid
  <2>3. OnGrid'
    <3>1. k - 1 \in Int /\ (k - 1) * p = k * p - p
      OBVIOUS
    <3>2. dueIn' + phase' = k * p \/ dueIn' + phase' = k * p - p
      <4>1. CASE f + 1 = p
        <5>1. phase' = 0
          BY <1>5, <4>1
        <5> QED
          BY <1>1, <2>1, <2>2, <4>1, <5>1
      <4>2. CASE f + 1 # p
        <5>1. phase' = f + 1
          BY <1>5, <4>2
        <5> QED
          BY <1>1, <2>1, <2>2, <5>1
      <4> QED
        BY <4>1, <4>2
    <3>3. \E j \in Int : dueIn' + phase' = j * p
      BY <3>1, <3>2
    <3> QED
      BY <1>1, <3>3 DEF OnGrid
  <2>4. first' => dueIn' + sinceArm' >= Period \/ sinceArm' = Period
    <3> SUFFICES ASSUME first PROVE dueIn' + sinceArm' >= Period \/ sinceArm' = Period
      BY <1>4
    <3>1. d + a >= p \/ a = p
      BY <1>1, <1>2, <1>3 DEF RunInv
    <3>2. sinceArm' = Capped(a + 1, p)
      BY <1>4
    <3>3. a = p => Capped(a + 1, p) = p
      BY <1>1 DEF Capped
    <3> QED
      BY <1>1, <1>3, <1>6, <2>1, <3>1, <3>2, <3>3
  <2>5. ~crossed' => dueIn' + phase' >= Period
    <3> SUFFICES ASSUME ~crossed' PROVE dueIn' + phase' >= Period
      OBVIOUS
    <3>1. ~crossed /\ phase' # 0
      BY <1>4
    <3>2. phase' = f + 1 /\ d + f >= p
      BY <1>1, <1>2, <1>5, <1>10, <3>1 DEF RunInv
    <3> QED
      BY <1>1, <2>1, <3>2
  <2>6. remaining' # 0
    BY <1>4, <1>10
  <2> QED
    BY <1>7, <1>8, <2>3, <2>4, <2>5, <2>6 DEF RunInv
<1> QED
  BY <1>7, <1>8, <1>9, <1>10

\* What is promised of a line that is printed.
Paced == pc = "tick" /\ remaining' < remaining => crossed /\ (first => sinceArm >= Period)

\* The tick's line, or none.
LEMMA RunTicks ==
  ASSUME RunType, RunInv, LateInv, Tick
  PROVE  RunInv' /\ RunType' /\ LateInv' /\ Paced
<1>1. PICK p \in Nat \ {0}, f \in Nat : p = Period /\ f = phase /\ f \in 0 .. p - 1
  BY Constants DEF RunType
<1>2. PICK d \in Int : d = dueIn /\ d \in 0 - MaxGap .. 2 * Period
  BY Constants DEF RunType
<1>3. gap = 0 /\ pc' = "idle" /\ UNCHANGED <<phase, gap>>
  BY DEF LateInv, Tick
<1>4. CASE UNCHANGED status /\ (remaining = 0 \/ dueIn > 0)
  <2>1. UNCHANGED <<remaining, dueIn, sinceArm, first, crossed>>
    BY <1>4 DEF status
  <2>2. RunInv' /\ RunType'
    BY <1>3, <2>1 DEF RunInv, RunType, OnGrid
  <2>3. d >= 0
    BY <1>2, <1>4 DEF RunInv
  <2>4. LateInv'
    BY <1>2, <1>3, <2>1, <2>3 DEF LateInv
  <2>5. ~(remaining' < remaining)
    BY <2>1, Constants DEF RunType
  <2> QED
    BY <2>2, <2>4, <2>5 DEF Paced
<1>5. CASE /\ remaining # 0 /\ dueIn <= 0
           /\ remaining' = remaining - 1
           /\ dueIn' = (IF remaining' = 0 THEN 0 ELSE DueInNext)
           /\ sinceArm' = 0 /\ first' = FALSE /\ crossed' = FALSE
  <2>1. PICK k \in Int : d + f = k * p
    BY <1>1, <1>2, <1>5 DEF RunInv, OnGrid
  <2>2. PICK n \in Int : n = DueInNext /\ n = (IF d + p > 0 THEN d + p ELSE p - f)
    <3>1. (IF d + p > 0 THEN d + p ELSE p - f) \in Int
      BY <1>1, <1>2
    <3>2. DueInNext = (IF d + p > 0 THEN d + p ELSE p - f)
      BY <1>1, <1>2 DEF DueInNext
    <3> QED
      BY <3>1, <3>2
  \* The next point is ahead, on the grid, and in a period of its own.
  <2>3. n > 0 /\ n <= p /\ n + f >= p /\ (n + f = k * p + p \/ n + f = p)
    <3>1. CASE d + p > 0
      <4>1. k >= 0
        <5>1. ASSUME k <= 0 - 1 PROVE FALSE
          <6>1. PICK j \in Nat : k = 0 - 1 - j
            <7>1. 0 - 1 - k \in Nat
              BY <5>1
            <7> QED
              BY <7>1
          <6>2. (0 - 1 - j) * p = 0 - p - j * p /\ j * p \in Nat
            OBVIOUS
          <6> QED
            BY <2>1, <3>1, <6>1, <6>2
        <5> QED
          BY <5>1
      <4>2. k * p >= 0
        BY <4>1
      <4> QED
        BY <1>2, <1>5, <2>1, <2>2, <3>1, <4>2
    <3>2. CASE ~(d + p > 0)
      <4>1. n = p - f
        BY <2>2, <3>2
      <4> QED
        BY <1>1, <4>1
    <3> QED
      BY <3>1, <3>2
  <2>4. PICK m \in Nat : m = remaining' /\ m \in 0 .. MaxCount
    BY <1>5, Constants DEF RunType
  <2>5. RunType'
    <3>1. dueIn' \in 0 - MaxGap .. 2 * Period
      BY <1>1, <1>5, <2>2, <2>3, Constants
    <3>2. 0 \in 0 .. Period
      BY Constants
    <3> QED
      BY <1>3, <1>5, <2>4, <3>1, <3>2 DEF RunType
  <2>6. LateInv'
    <3>1. dueIn' = 0 \/ dueIn' = n
      BY <1>5, <2>2
    <3> QED
      BY <1>3, <2>3, <3>1 DEF LateInv
  <2>7. RunInv'
    <3>1. CASE remaining' = 0
      BY <1>5, <3>1 DEF RunInv
    <3>2. CASE remaining' # 0
      <4>1. dueIn' = n
        BY <1>5, <2>2, <3>2
      <4>2. OnGrid'
        <5>1. (k + 1) * p = k * p + p /\ 1 * p = p /\ k + 1 \in Int /\ 1 \in Int
          OBVIOUS
        <5>2. n + f = (k + 1) * p \/ n + f = 1 * p
          BY <2>3, <5>1
        <5>3. \E j \in Int : n + f = j * p
          BY <5>1, <5>2, Zenon
        <5> QED
          BY <1>1, <1>3, <4>1, <5>3 DEF OnGrid
      <4>3. dueIn' + phase' >= Period
        BY <1>1, <1>3, <2>3, <4>1
      <4> QED
        BY <1>5, <3>2, <4>2, <4>3 DEF RunInv
    <3> QED
      BY <3>1, <3>2
  <2>8. Paced
    <3>1. crossed
      <4>1. ~crossed => d + f >= p
        BY <1>1, <1>2, <1>5 DEF RunInv
      <4> QED
        BY <1>1, <1>2, <1>5, <4>1
    <3>2. first => sinceArm >= Period
      <4>1. PICK a \in Nat : a = sinceArm
        BY DEF RunType
      <4>2. first => d + a >= p \/ a = p
        BY <1>1, <1>2, <4>1 DEF RunInv
      <4> QED
        BY <1>1, <1>2, <1>5, <4>1, <4>2
    <3> QED
      BY <3>1, <3>2 DEF Paced
  <2> QED
    BY <2>5, <2>6, <2>7, <2>8
<1> QED
  BY <1>4, <1>5 DEF Tick

LEMMA RunStep ==
  ASSUME RunType, RunInv, LateInv, [Next]_vars
  PROVE  RunInv' /\ RunType' /\ LateInv' /\ Paced
<1>1. ASSUME UNCHANGED <<status, phase, gap>>, pc' = pc
      PROVE  RunInv' /\ RunType' /\ LateInv' /\ Paced
  <2>1. UNCHANGED <<remaining, dueIn, sinceArm, first, crossed>>
    BY <1>1 DEF status
  <2>2. ~(remaining' < remaining)
    BY <2>1, Constants DEF RunType
  <2> QED
    BY <1>1, <2>1, <2>2 DEF RunInv, RunType, LateInv, Paced, OnGrid
<1>2. CASE Type \/ StopRunning \/ ReadByte \/ UNCHANGED vars
  BY <1>1, <1>2 DEF Type, StopRunning, ReadByte, vars
<1>3. CASE BeginPoll
  <2>1. UNCHANGED <<remaining, dueIn, sinceArm, first, crossed, phase>> /\ gap' = 0 /\ pc' = "poll"
        /\ pc = "idle"
    BY <1>3 DEF BeginPoll, status
  <2>2. 0 \in 0 .. MaxGap
    BY Constants
  <2> QED
    BY <2>1, <2>2 DEF RunInv, RunType, LateInv, Paced, OnGrid
<1>4. CASE EndPoll
  <2>1. UNCHANGED <<remaining, dueIn, sinceArm, first, crossed, phase, gap>> /\ pc' = "tick"
        /\ pc = "poll"
    BY <1>4 DEF EndPoll, status
  <2> QED
    BY <2>1 DEF RunInv, RunType, LateInv, Paced, OnGrid
<1>5. CASE ReadEnter
  <2>1. UNCHANGED <<phase, gap>> /\ pc = "poll" /\ pc' \in {"poll", "tick", "erased"}
    BY <1>5, Executes DEF ReadEnter, Route, OnGnssReset
  <2>2. gap' = 0 /\ LateInv' /\ Paced
    BY <2>1 DEF LateInv, Paced
  <2>3. CASE UNCHANGED status
    <3>1. UNCHANGED <<remaining, dueIn, sinceArm, first, crossed>>
      BY <2>3 DEF status
    <3> QED
      BY <2>1, <2>2, <3>1 DEF RunInv, RunType, OnGrid
  <2>4. CASE \E n \in 0 .. MaxCount : ArmStatus(n)
    BY <2>1, <2>2, <2>4, Arms
  <2> QED
    BY <1>5, <2>3, <2>4, Executes
<1>6. CASE Elapse
  <2>1. Paced
    BY <1>6 DEF Elapse, Paced
  <2> QED
    BY <1>6, <2>1, RunElapses
<1>7. CASE Tick
  BY <1>7, RunTicks
<1> QED
  BY <1>2, <1>3, <1>4, <1>5, <1>6, <1>7 DEF Next
-----------------------------------------------------------------------------
(* The types, and the theorems.                                            *)

LEMMA EntryTypes == TypeOK => EntryType
BY LenProperties, Constants DEF TypeOK, EntryType

LEMMA OtherTypes == TypeOK => PressType /\ RunType
BY DEF TypeOK, PressType, RunType

LEMMA EntryTypeStep == TypeOK /\ EntryInv /\ [Next]_vars => EntryType' /\ Len(input)' <= MaxInput
<1> SUFFICES ASSUME TypeOK, EntryInv, [Next]_vars PROVE EntryType' /\ Len(input)' <= MaxInput
  OBVIOUS
<1>0. EntryType /\ Len(input) <= MaxInput /\ input \in Seq(Typed) /\ Len(input) \in Nat
  BY EntryTypes, LenProperties DEF TypeOK
<1>1. CASE UNCHANGED <<input, entry, line>>
  BY <1>0, <1>1 DEF EntryType, entry
<1>2. CASE StopRunning \/ Elapse \/ BeginPoll \/ EndPoll \/ Tick \/ UNCHANGED vars
  BY <1>1, <1>2 DEF StopRunning, Elapse, BeginPoll, EndPoll, Tick, vars
<1>3. CASE Type
  <2>1. PICK c \in Typed : input' = Append(input, c)
    BY <1>3 DEF Type
  <2>2. input' \in Seq(Typed) /\ Len(input') = Len(input) + 1
    BY <1>0, <2>1, AppendProperties
  <2>3. Len(input') <= MaxInput /\ UNCHANGED <<entry, line>>
    BY <1>0, <1>3, <2>2, Constants DEF Type
  <2> QED
    BY <1>0, <2>2, <2>3 DEF EntryType, entry
<1>4. CASE ReadByte
  <2>1. /\ Head(input) \in Typed /\ input' \in Seq(Typed) /\ Len(input') = Len(input) - 1
        /\ Head(input) \in Chars
    BY <1>0, <1>4, HeadTailProperties DEF ReadByte, Chars
  <2>2. Len(input') <= MaxInput
    BY <1>0, <2>1, Constants
  <2> QED
    BY <1>0, <1>4, <2>1, <2>2, HoldsByte DEF ReadByte, EntryType
<1>5. CASE ReadEnter
  <2>1. input' \in Seq(Typed) /\ Len(input') = Len(input) - 1
    BY <1>0, <1>5, HeadTailProperties DEF ReadEnter
  <2>2. Len(input') <= MaxInput
    BY <1>0, <2>1, Constants
  <2>3. line' = <<>> /\ <<>> \in Seq(Chars) /\ Len(<<>>) = 0
    BY <1>5, EmptySeq DEF ReadEnter
  <2>4. buf' \in Seq(Chars) /\ Len(buf') \in 0 .. Capacity
        /\ {overflow', allDigits', entryEnded'} \subseteq BOOLEAN
    <3>1. PICK result \in Results : FeedEnter(result)
      BY <1>5 DEF ReadEnter
    <3>2. CASE entryEnded
      <4>1. buf' = <<>> /\ allDigits' = TRUE /\ overflow' = FALSE /\ entryEnded' = TRUE
        BY <3>1, <3>2 DEF FeedEnter
      <4>2. 0 \in 0 .. Capacity
        BY Constants
      <4>3. Len(buf') = 0 /\ buf' \in Seq(Chars)
        BY <2>3, <4>1
      <4> QED
        BY <4>1, <4>2, <4>3
    <3>3. CASE ~entryEnded
      BY <1>0, <3>1, <3>3 DEF FeedEnter, EntryType
    <3> QED
      BY <3>2, <3>3
  <2> QED
    BY <2>1, <2>2, <2>3, <2>4 DEF EntryType
<1> QED
  BY <1>2, <1>3, <1>4, <1>5 DEF Next

LEMMA PlaceTypeStep ==
  ASSUME TypeOK, [Next]_vars
  PROVE  /\ pc' \in {"idle", "poll", "tick", "erased"} /\ budget' \in 0 .. Capacity + 2
         /\ armed' \in BOOLEAN /\ running' \in BOOLEAN /\ between' \subseteq {"letter", "other"}
<1>0. /\ pc \in {"idle", "poll", "tick", "erased"} /\ budget \in 0 .. Capacity + 2
      /\ armed \in BOOLEAN /\ running \in BOOLEAN /\ between \subseteq {"letter", "other"}
      /\ Capacity + 2 \in 0 .. Capacity + 2 /\ 0 \in 0 .. Capacity + 2
  BY Constants DEF TypeOK
<1>1. CASE Type \/ StopRunning \/ Elapse \/ BeginPoll \/ EndPoll \/ Tick \/ UNCHANGED vars
  BY <1>0, <1>1 DEF Type, StopRunning, Elapse, BeginPoll, EndPoll, Tick, vars, confirm
<1>2. CASE ReadByte
  <2>1. budget' \in 0 .. Capacity + 2
    BY <1>0, <1>2, Constants DEF ReadByte
  <2> QED
    BY <1>0, <1>2, <2>1 DEF ReadByte, confirm
<1>3. CASE ReadEnter
  <2>1. budget' \in 0 .. Capacity + 2 /\ running' = running
    <3>1. budget' = 0 \/ (budget > 0 /\ budget' = budget - 1)
      BY <1>3 DEF ReadEnter
    <3> QED
      BY <1>0, <1>3, <3>1, Constants DEF ReadEnter
  <2>2. ASSUME NEW result \in Results, Route(result)
        PROVE  /\ pc' \in {"idle", "poll", "tick", "erased"}
               /\ armed' \in BOOLEAN /\ between' \subseteq {"letter", "other"}
    <3>1. CASE result.kind = "G"
      BY <1>0, <2>2, <3>1 DEF Route, OnGnssReset, confirm
    <3>2. CASE result.kind # "G"
      <4>1. /\ pc' = "tick" /\ armed' = (armed /\ result.kind \notin Letters)
            /\ between' = (between \cup
                 CASE result.kind \in Letters -> {"letter"} [] result.kind \notin Letters -> {"other"})
        BY <2>2, <3>2 DEF Route, CancelAfter
      <4> QED
        BY <1>0, <4>1
    <3> QED
      BY <3>1, <3>2
  <2> QED
    BY <1>0, <1>3, <2>1, <2>2, Executes DEF confirm
<1> QED
  BY <1>1, <1>2, <1>3 DEF Next

LEMMA TypeStep == TypeOK /\ EntryInv /\ PressInv /\ RunInv /\ LateInv /\ [Next]_vars => TypeOK'
<1> SUFFICES ASSUME TypeOK, EntryInv, PressInv, RunInv, LateInv, [Next]_vars PROVE TypeOK'
  OBVIOUS
<1>1. EntryType' /\ Len(input)' <= MaxInput
  BY EntryTypeStep
<1>2. PressType' /\ RunType'
  BY OtherTypes, PressStep, RunStep
<1>3. did' \in Results /\ meant' \in Results
  <2>1. did' \in Results
    BY DEF Next, Type, StopRunning, Elapse, BeginPoll, ReadByte, ReadEnter, EndPoll, Tick, vars,
           TypeOK, Results
  <2>2. did' = meant'
    BY EntryTypes, EntryStep DEF EntryInv, EntryAsTyped
  <2> QED
    BY <2>1, <2>2
<1>4. /\ input' \in Seq(Typed) /\ buf' \in Seq(Chars) /\ line' \in Seq(Chars)
      /\ Len(buf') <= Capacity /\ {overflow', allDigits', entryEnded'} \subseteq BOOLEAN
  BY <1>1, Constants DEF EntryType
<1> QED
  BY <1>1, <1>2, <1>3, <1>4, PlaceTypeStep DEF TypeOK, PressType, RunType

LEMMA Initial == Init => IInv
<1> SUFFICES ASSUME Init PROVE IInv
  OBVIOUS
<1>1. PICK h \in Nat : W = h + h /\ h >= 1 /\ Stale = Window + h
  BY Halves
<1>2. TypeOK
  <2>1. /\ input \in Seq(Typed) /\ buf \in Seq(Chars) /\ line \in Seq(Chars)
        /\ Len(input) = 0 /\ Len(buf) = 0
    BY EmptySeq DEF Init
  <2>2. /\ 0 \in 0 .. W - 1 /\ 0 \in 0 .. Stale /\ 0 \in 0 .. MaxCount /\ 0 \in 0 .. Period - 1
        /\ 0 \in 0 - MaxGap .. 2 * Period /\ 0 \in 0 .. Period /\ 0 \in 0 .. MaxGap
        /\ 0 \in 0 .. Capacity + 2 /\ 0 <= MaxInput /\ 0 <= Capacity
    BY <1>1, Constants
  <2>3. Plain("None") \in Results
    BY DEF Results
  <2> QED
    BY <2>1, <2>2, <2>3 DEF Init, TypeOK
<1>3. EntryInv
  <2>1. buf = <<>> /\ line = <<>> /\ Len(<<>>) = 0 /\ ~overflow /\ allDigits
    BY EmptySeq DEF Init
  <2>2. Holds
    BY <2>1, Constants DEF Holds
  <2> QED
    BY <2>2 DEF Init, EntryInv, EntryAsTyped
<1>4. PressInv
  BY DEF Init, PressInv, NothingBetween, InTimeOrWrapped
<1>5. RunInv /\ LateInv
  BY DEF Init, RunInv, LateInv
<1> QED
  BY <1>2, <1>3, <1>4, <1>5 DEF IInv

LEMMA Step == IInv /\ [Next]_vars => IInv' /\ Paced
BY TypeStep, EntryTypes, OtherTypes, EntryStep, PressStep, RunStep DEF IInv

\* What the entry holds is the line, what the window knows is the press, and what
\* is due is on the grid.
THEOREM InvCorrect == Spec => []IInv
<1> QED
  BY Initial, Step, PTL DEF Spec

\* The console's state has its types: no line is due more than MaxGap ago.
THEOREM TypeCorrect == Spec => []TypeOK
<1>1. IInv => TypeOK
  BY DEF IInv
<1> QED
  BY InvCorrect, <1>1, PTL

\* An entry is executed as it was typed, for lines of any length over any number
\* of polls, and any capacity and limit of the counts.
THEOREM AsTyped == Spec => []EntryAsTyped
<1>1. IInv => EntryAsTyped
  BY DEF IInv, EntryInv
<1> QED
  BY InvCorrect, <1>1, PTL

\* No letter is ever executed between the two G that erase.
THEOREM NoneBetween == Spec => []NothingBetween
<1>1. IInv => NothingBetween
  BY DEF IInv, PressInv
<1> QED
  BY InvCorrect, <1>1, PTL

\* The second G comes inside the window, or after half the clock's range, for
\* any window of at most that half.
THEOREM InTime == Spec => []InTimeOrWrapped
<1>1. IInv => InTimeOrWrapped
  BY DEF IInv, PressInv
<1> QED
  BY InvCorrect, <1>1, PTL

\* Status lines keep their pace, for any period and any stall of the job.
THEOREM PaceKept == Spec => LinePaced
<1>1. IInv /\ [Next]_vars => [pc = "tick" /\ remaining' < remaining
                                => crossed /\ (first => sinceArm >= Period)]_vars
  BY Step DEF Paced
<1> QED
  BY InvCorrect, <1>1, PTL DEF Spec, LinePaced
=============================================================================
