------------------------------ MODULE RingProofs ------------------------------
(***************************************************************************)
(* The ring and the parser behind it, proved for every size of the ring,   *)
(* every length of a push or a pop and every interleaving of the two       *)
(* sides: it is the queue of ByteQueue, its counters are exact, and each   *)
(* frame is acted on once.                                                 *)
(*                                                                         *)
(* Indices are only ever compared by their distance modulo W, and a slot   *)
(* is theirs modulo N.  As N divides W, indices less than N apart have     *)
(* slots of their own even across the wrap: the two sides never touch the  *)
(* same slot.                                                              *)
(***************************************************************************)
EXTENDS CommandStream, Integers, TLAPS, SequenceTheorems, FiniteSetTheorems

-----------------------------------------------------------------------------
(* Arithmetic modulo W.                                                    *)

\* A number is its quotient times w, and its remainder.
LEMMA Division ==
  ASSUME NEW w \in Nat \ {0}, NEW x \in Nat
  PROVE  \E q \in Nat, c \in 0 .. w - 1 : c = x % w /\ x = q * w + c
OBVIOUS

\* A remainder is known from any way of writing the number.
LEMMA RemainderIs ==
  ASSUME NEW w \in Nat \ {0}, NEW k \in Nat, NEW r \in 0 .. w - 1
  PROVE  (k * w + r) % w = r
<1> DEFINE x == k * w + r
<1>0. x \in Nat
  OBVIOUS
<1>1. PICK q \in Nat, c \in 0 .. w - 1 : c = x % w /\ x = q * w + c
  BY <1>0
<1>2. (q - k) * w = r - c
  BY <1>1
<1>3. q - k < 1
  BY <1>2
<1>4. k - q < 1
  BY <1>2
<1> QED
  BY <1>1, <1>2, <1>3, <1>4

\* Any part of a number may be reduced before the rest is added to it.
LEMMA ReduceFirst ==
  ASSUME NEW w \in Nat \ {0}, NEW a \in Nat, NEW b \in Nat
  PROVE  ((a % w) + b) % w = (a + b) % w
<1>1. PICK q \in Nat, c \in 0 .. w - 1 : c = a % w /\ a = q * w + c
  BY Division
<1>2. c + b \in Nat
  BY <1>1
<1>3. PICK p \in Nat, d \in 0 .. w - 1 : d = (c + b) % w /\ c + b = p * w + d
  BY <1>2, Division
<1>4. \A t \in Nat : (q * w) + (p * w + t) = (q + p) * w + t
  BY <1>1, <1>3
<1>5. a + b = (q + p) * w + d
  <2>1. a + b = q * w + (c + b)
    BY <1>1
  <2> QED
    BY <2>1, <1>3, <1>4
<1>6. ((q + p) * w + d) % w = d
  <2>1. q + p \in Nat
    BY <1>1, <1>3
  <2> QED
    BY <2>1, <1>3, RemainderIs
<1> QED
  BY <1>1, <1>3, <1>5, <1>6

\* The range is a number other than zero, wider than the ring.
LEMMA Sizes == W \in Nat \ {0} /\ N \in Nat \ {0} /\ W > N /\ MaxLen \in Nat
BY RingAssumption

LEMMA PlusInRange ==
  ASSUME NEW a \in Nat, NEW b \in Nat
  PROVE  Plus(a, b) \in Index
BY Sizes DEF Plus, Index

\* Two steps forward are one.
LEMMA PlusPlus ==
  ASSUME NEW a \in Nat, NEW b \in Nat, NEW c \in Nat
  PROVE  Plus(Plus(a, b), c) = Plus(a, b + c)
<1>0. W \in Nat \ {0} /\ a + b \in Nat
  BY Sizes
<1>1. (((a + b) % W) + c) % W = ((a + b) + c) % W
  BY <1>0, ReduceFirst
<1>2. (a + b) + c = a + (b + c)
  OBVIOUS
<1> QED
  BY <1>1, <1>2 DEF Plus

\* Adding n gives the sum or wraps once.
LEMMA Wrapped ==
  ASSUME NEW w \in Nat \ {0}, NEW a \in 0 .. w - 1, NEW n \in 0 .. w
  PROVE  /\ a + n < w => (a + n) % w = a + n
         /\ a + n >= w => (a + n) % w = a + n - w
<1>1. CASE a + n < w
  BY <1>1
<1>2. CASE a + n >= w
  <2>1. a + n - w \in 0 .. w - 1
    BY <1>2
  <2>2. (1 * w + (a + n - w)) % w = a + n - w
    BY <2>1, RemainderIs
  <2> QED
    BY <1>2, <2>2
<1> QED
  BY <1>1, <1>2

\* The distance between the indices.
LEMMA HeldIs ==
  ASSUME NEW h \in Index, NEW t \in Index
  PROVE  /\ Held(h, t) \in Index
         /\ h >= t => Held(h, t) = h - t
         /\ h < t => Held(h, t) = W + h - t
<1>1. h \in 0 .. W - 1 /\ t \in 0 .. W - 1 /\ W \in Nat \ {0}
  BY Sizes DEF Index
<1>2. W + h - t \in Nat /\ W - t \in 0 .. W /\ h + (W - t) = W + h - t
  BY <1>1
<1>3. /\ h + (W - t) < W => (h + (W - t)) % W = h + (W - t)
      /\ h + (W - t) >= W => (h + (W - t)) % W = h + (W - t) - W
  BY <1>1, <1>2, Wrapped
<1> QED
  BY <1>1, <1>2, <1>3 DEF Held, Minus, Index

\* The producer moves its index.
LEMMA HeldGrows ==
  ASSUME NEW h \in Index, NEW t \in Index, NEW n \in Nat, Held(h, t) + n < W
  PROVE  Held(Plus(h, n), t) = Held(h, t) + n
<1>1. h \in 0 .. W - 1 /\ t \in 0 .. W - 1 /\ W \in Nat \ {0} /\ n \in 0 .. W
  BY Sizes, HeldIs DEF Index
<1>2. PICK f \in Nat : f = Plus(h, n) /\ f \in Index
  BY <1>1, PlusInRange DEF Index
<1>3. /\ h + n < W => f = h + n
      /\ h + n >= W => f = h + n - W
  BY <1>1, <1>2, Wrapped DEF Plus
<1>4. /\ f >= t => Held(f, t) = f - t
      /\ f < t => Held(f, t) = W + f - t
  BY <1>2, HeldIs
<1>5. /\ h >= t => Held(h, t) = h - t
      /\ h < t => Held(h, t) = W + h - t
  BY HeldIs
<1> QED
  BY <1>1, <1>2, <1>3, <1>4, <1>5

\* The consumer moves its index.
LEMMA HeldShrinks ==
  ASSUME NEW h \in Index, NEW t \in Index, NEW n \in Nat, n <= Held(h, t)
  PROVE  Held(h, Plus(t, n)) = Held(h, t) - n
<1>1. h \in 0 .. W - 1 /\ t \in 0 .. W - 1 /\ W \in Nat \ {0} /\ n \in 0 .. W
  BY Sizes, HeldIs DEF Index
<1>2. PICK f \in Nat : f = Plus(t, n) /\ f \in Index
  BY <1>1, PlusInRange DEF Index
<1>3. /\ t + n < W => f = t + n
      /\ t + n >= W => f = t + n - W
  BY <1>1, <1>2, Wrapped DEF Plus
<1>4. /\ h >= f => Held(h, f) = h - f
      /\ h < f => Held(h, f) = W + h - f
  BY <1>2, HeldIs
<1>5. /\ h >= t => Held(h, t) = h - t
      /\ h < t => Held(h, t) = W + h - t
  BY HeldIs
<1> QED
  BY <1>1, <1>2, <1>3, <1>4, <1>5

\* From the consumer's index, over what is held, to the producer's.
LEMMA HeldReaches ==
  ASSUME NEW h \in Index, NEW t \in Index
  PROVE  Plus(t, Held(h, t)) = h
<1>1. h \in 0 .. W - 1 /\ t \in 0 .. W - 1 /\ W \in Nat \ {0}
  BY Sizes DEF Index
<1>2. PICK d \in 0 .. W - 1 : d = Held(h, t)
  BY HeldIs DEF Index
<1>3. /\ t + d < W => (t + d) % W = t + d
      /\ t + d >= W => (t + d) % W = t + d - W
  <2>1. d \in 0 .. W
    BY <1>1
  <2> QED
    BY <2>1, <1>1, Wrapped
<1>4. /\ h >= t => d = h - t
      /\ h < t => d = W + h - t
  BY <1>2, HeldIs
<1> QED
  BY <1>1, <1>2, <1>3, <1>4 DEF Plus

\* No multiple of n lies strictly between 0 and n.
LEMMA NoMultiple ==
  ASSUME NEW n \in Nat \ {0}, NEW k \in Int, NEW d \in Int, k * n = d
  PROVE  ~(0 < d /\ d < n)
<1>1. k <= 0 => k * n <= 0
  OBVIOUS
<1>2. k >= 1 => k * n >= n
  OBVIOUS
<1> QED
  BY <1>1, <1>2

\* Indices less than the ring's size apart have slots of their own, across the
\* wrap too, because the range is a multiple of the size.
LEMMA SlotsApart ==
  ASSUME NEW t \in Index, NEW i \in Nat, NEW j \in Nat, i < j, j < N
  PROVE  Slot(Plus(t, i)) # Slot(Plus(t, j))
<1>1. t \in 0 .. W - 1 /\ W \in Nat \ {0} /\ N \in Nat \ {0} /\ i \in 0 .. W /\ j \in 0 .. W
  BY Sizes DEF Index
<1>2. PICK m \in Nat : W = m * N
  <2>1. PICK q \in Nat, c \in 0 .. N - 1 : c = W % N /\ W = q * N + c
    BY <1>1, Division
  <2> QED
    BY <2>1, RingAssumption
<1>3. PICK x \in 0 .. W - 1 : x = Plus(t, i)
  BY <1>1, PlusInRange DEF Index
<1>4. PICK y \in 0 .. W - 1 : y = Plus(t, j)
  BY <1>1, PlusInRange DEF Index
<1>5. PICK a \in Nat, c \in 0 .. N - 1 : c = x % N /\ x = a * N + c
  <2>1. N \in Nat \ {0} /\ x \in Nat
    BY <1>1, <1>3
  <2> QED
    BY <2>1, Division
<1>6. PICK b \in Nat, d \in 0 .. N - 1 : d = y % N /\ y = b * N + d
  <2>1. N \in Nat \ {0} /\ y \in Nat
    BY <1>1, <1>4
  <2> QED
    BY <2>1, Division
<1>7. /\ t + i < W => x = t + i
      /\ t + i >= W => x = t + i - W
  BY <1>1, <1>3, Wrapped DEF Plus
<1>8. /\ t + j < W => y = t + j
      /\ t + j >= W => y = t + j - W
  BY <1>1, <1>4, Wrapped DEF Plus
<1>9. y - x = j - i \/ y - x + W = j - i
  BY <1>1, <1>3, <1>4, <1>7, <1>8
<1>10. SUFFICES ASSUME c = d PROVE FALSE
  BY <1>3, <1>4, <1>5, <1>6 DEF Slot
<1>11. (b - a) * N = y - x
  BY <1>1, <1>5, <1>6, <1>10
<1>12. (b - a + m) * N = y - x + W
  <2>1. (b - a + m) * N = (b - a) * N + m * N
    BY <1>1, <1>2, <1>5, <1>6
  <2> QED
    BY <2>1, <1>2, <1>11
<1>13. 0 < j - i /\ j - i < N
  BY <1>1
<1>14. b - a \in Int /\ b - a + m \in Int /\ j - i \in Int
  BY <1>2, <1>5, <1>6
<1> QED
  BY <1>1, <1>9, <1>11, <1>12, <1>13, <1>14, NoMultiple
-----------------------------------------------------------------------------
(* The invariant.                                                          *)

TypeInv ==
  /\ TypeOK
  /\ offered \in Seq(Byte) /\ out \in Seq(Byte) /\ got \in Seq(Byte)

\* A push stages no more than it was offered and, until it publishes, no more than
\* there is room for; what it has copied lies behind the producer's index.
PushInv ==
  /\ pn <= Len(offered)
  /\ owed \in {{}, {"pushed"}, {"dropped", "pushed"}}
  /\ offered = <<>> => owed = {}
  /\ owed # {} => pi = pn
  /\ Publishing => /\ pn + Held(head, tail) <= N
                   /\ \A i \in 0 .. pi - 1 : buf[Slot(Plus(head, i))] = offered[i + 1]

\* A pop takes no more than the ring holds; what it has copied are the oldest bytes.
PopInv ==
  /\ Held(head, tail) <= N /\ cn <= Held(head, tail)
  /\ max = 0 => cn = 0 /\ out = <<>>
  /\ \A i \in 1 .. Len(out) : out[i] = buf[Slot(Plus(tail, i - 1))]

\* The counters, at every point of a push.
CountInv ==
  /\ owed = {} => pushed = head
  /\ owed # {} => Plus(pushed, pn) = head
  /\ offered = <<>> => Plus(pushed, dropped) = total
  /\ offered # <<>> /\ owed # {"pushed"} => Plus(Plus(pushed, dropped), Len(offered)) = total
  /\ owed = {"pushed"} => Plus(Plus(pushed, dropped), pn) = total

RingInv == TypeInv /\ PushInv /\ PopInv /\ CountInv
-----------------------------------------------------------------------------
(* The invariant holds.                                                    *)

\* What a client writes is a sequence of bytes, and not an empty one.
LEMMA PushIsSeq ==
  ASSUME NEW data \in Pushes
  PROVE  data \in Seq(Byte) /\ Len(data) \in 1 .. MaxLen /\ data # <<>>
<1>1. PICK n \in 1 .. MaxLen : data \in [1 .. n -> Byte]
  BY DEF Pushes
<1>2. n \in Nat
  BY <1>1, Sizes
<1>3. data \in Seq(Byte)
  BY <1>1, <1>2
<1>4. Len(data) = n
  BY <1>1, <1>2, <1>3, LenProperties
<1> QED
  BY <1>1, <1>2, <1>3, <1>4, EmptySeq, Sizes

LEMMA SlotInRing ==
  ASSUME NEW a \in Nat, NEW b \in Nat
  PROVE  Slot(Plus(a, b)) \in 0 .. N - 1
<1>1. Plus(a, b) \in Nat /\ N \in Nat \ {0}
  BY PlusInRange, Sizes DEF Index
<1> QED
  BY <1>1 DEF Slot

LEMMA RingInit == Init => RingInv
<1> SUFFICES ASSUME Init PROVE RingInv
  OBVIOUS
<1> USE DEF Init
<1>1. 0 \in Index
  BY Sizes DEF Index
<1>2. Plus(0, 0) = 0 /\ Held(0, 0) = 0
  <2>1. 0 + 0 < W => (0 + 0) % W = 0 + 0
    BY <1>1, Wrapped, Sizes DEF Index
  <2>2. Held(0, 0) = 0 - 0
    BY <1>1, HeldIs
  <2> QED
    BY <2>1, <2>2, Sizes DEF Plus
<1>3. <<>> \in Seq(Byte) /\ Len(<<>>) = 0
  BY EmptySeq
<1>4. TypeInv
  BY <1>1, <1>3, Sizes DEF TypeInv, TypeOK
<1>5. PushInv
  BY <1>3 DEF PushInv, Publishing
<1>6. PopInv
  BY <1>2, <1>3, Sizes DEF PopInv
<1>7. CountInv
  BY <1>2 DEF CountInv
<1> QED
  BY <1>4, <1>5, <1>6, <1>7 DEF RingInv

\* What the invariant says of every value, for the steps to use.
Facts ==
  /\ buf \in [0 .. N - 1 -> Byte]
  /\ head \in Index /\ tail \in Index /\ pushed \in Index /\ dropped \in Index
  /\ total \in Index
  /\ head \in Nat /\ tail \in Nat /\ pushed \in Nat /\ dropped \in Nat /\ total \in Nat
  /\ offered \in Seq(Byte) /\ out \in Seq(Byte) /\ got \in Seq(Byte)
  /\ Len(offered) \in 0 .. MaxLen /\ Len(out) \in 0 .. cn /\ Len(got) \in 0 .. N
  /\ pn \in 0 .. N /\ pi \in 0 .. pn /\ pn <= Len(offered)
  /\ pn \in Nat /\ pi \in Nat /\ cn \in Nat /\ Len(out) \in Nat /\ Len(offered) \in Nat
  /\ max \in 0 .. MaxLen /\ cn \in 0 .. N
  /\ owed \subseteq {"dropped", "pushed"}
  /\ Held(head, tail) \in 0 .. N
  /\ W \in Nat \ {0} /\ N \in Nat \ {0} /\ MaxLen \in Nat /\ N < W

LEMMA FactsHold == RingInv => Facts
<1> SUFFICES ASSUME RingInv PROVE Facts
  OBVIOUS
<1>1. TypeOK /\ offered \in Seq(Byte) /\ out \in Seq(Byte) /\ got \in Seq(Byte)
  BY DEF RingInv, TypeInv
<1>2. Len(offered) \in Nat /\ Len(out) \in Nat /\ Len(got) \in Nat
  BY <1>1, LenProperties
<1>3. head \in Index /\ tail \in Index
  BY <1>1 DEF TypeOK
<1>4. Held(head, tail) \in 0 .. N
  BY <1>3, HeldIs, Sizes DEF RingInv, PopInv, Index
<1>5. pn <= Len(offered)
  BY DEF RingInv, PushInv
<1> QED
  BY <1>1, <1>2, <1>4, <1>5, Sizes DEF Facts, TypeOK, Index

LEMMA TypeStep ==
  ASSUME RingInv, Next
  PROVE  TypeInv'
<1> USE DEF producer, consumer
<1>t. Facts
  BY FactsHold
<1> USE DEF Facts
<1> SUFFICES TypeOK' /\ offered' \in Seq(Byte) /\ out' \in Seq(Byte) /\ got' \in Seq(Byte)
  BY DEF TypeInv
<1>1. CASE BeginPush
  <2>1. PICK data \in Pushes :
             /\ offered' = data
             /\ pn' = Smaller(Len(data), Room(head, tail))
             /\ total' = Plus(total, Len(data))
    BY <1>1 DEF BeginPush
  <2>2. data \in Seq(Byte) /\ Len(data) \in 1 .. MaxLen
    BY PushIsSeq
  <2>3. Room(head, tail) \in Nat /\ Room(head, tail) <= N
    BY <1>t DEF Room
  <2>4. pn' \in 0 .. N
    BY <2>1, <2>2, <2>3, <1>t DEF Smaller
  <2>5. total' \in Index
    BY <2>1, <2>2, <1>t, PlusInRange
  <2> QED
    BY <1>1, <1>t, <2>1, <2>2, <2>4, <2>5 DEF BeginPush, TypeOK
<1>2. CASE CopyIn
  <2>1. pi + 1 \in 1 .. Len(offered)
    BY <1>2, <1>t DEF CopyIn
  <2>2. offered[pi + 1] \in Byte
    BY <2>1, <1>t, ElementOfSeq
  <2>3. buf' \in [0 .. N - 1 -> Byte]
    BY <1>2, <1>t, <2>2 DEF CopyIn
  <2> QED
    BY <1>2, <1>t, <2>3 DEF CopyIn, TypeOK
<1>3. CASE Publish
  <2>1. head' \in Index
    BY <1>3, <1>t, PlusInRange DEF Publish
  <2> QED
    BY <1>3, <1>t, <2>1 DEF Publish, TypeOK
<1>4. CASE CountDropped
  <2>1. dropped' \in Index
    BY <1>4, <1>t, PlusInRange DEF CountDropped
  <2> QED
    BY <1>4, <1>t, <2>1 DEF CountDropped, TypeOK
<1>5. CASE CountPushed
  <2>1. pushed' \in Index
    BY <1>5, <1>t, PlusInRange DEF CountPushed
  <2> QED
    BY <1>5, <1>t, <2>1, EmptySeq DEF CountPushed, TypeOK
<1>6. CASE BeginPop
  <2>1. max' \in 1 .. MaxLen /\ cn' = Smaller(max', Held(head, tail))
    BY <1>6 DEF BeginPop
  <2>2. cn' \in 0 .. N
    BY <2>1, <1>t DEF Smaller
  <2> QED
    BY <1>6, <1>t, <2>1, <2>2, EmptySeq DEF BeginPop, TypeOK
<1>7. CASE CopyOut
  <2>1. Slot(Plus(tail, Len(out))) \in 0 .. N - 1
    BY <1>t, SlotInRing
  <2>2. PICK e \in Byte : e = buf[Slot(Plus(tail, Len(out)))]
    BY <2>1, <1>t
  <2>3. out' = Append(out, e)
    BY <1>7, <2>2 DEF CopyOut
  <2>4. out' \in Seq(Byte) /\ Len(out') = Len(out) + 1
    BY <2>3, <1>t, AppendProperties
  <2> QED
    BY <1>7, <1>t, <2>4 DEF CopyOut, TypeOK
<1>8. CASE Release
  <2>1. tail' \in Index
    BY <1>8, <1>t, PlusInRange DEF Release
  <2>2. got' \in Seq(Byte) /\ Len(got') <= N
    BY <1>8, <1>t DEF Release
  <2> QED
    BY <1>8, <1>t, <2>1, <2>2, EmptySeq DEF Release, TypeOK
<1> QED
  BY <1>1, <1>2, <1>3, <1>4, <1>5, <1>6, <1>7, <1>8 DEF Next, Producer, Consumer

\* The producer's next free slot is none of those that hold a byte.
LEMMA FreeSlot ==
  ASSUME NEW h \in Index, NEW t \in Index, NEW i \in Nat, NEW j \in Nat,
         j < Held(h, t), Held(h, t) + i < N
  PROVE  Slot(Plus(h, i)) # Slot(Plus(t, j))
<1>1. Held(h, t) \in Nat
  BY HeldIs DEF Index
<1>2. Plus(h, i) = Plus(t, Held(h, t) + i)
  <2>1. t \in Nat
    BY DEF Index
  <2>2. Plus(Plus(t, Held(h, t)), i) = Plus(t, Held(h, t) + i)
    BY <1>1, <2>1, PlusPlus
  <2> QED
    BY <2>2, HeldReaches
<1> QED
  BY <1>1, <1>2, SlotsApart

LEMMA PushStep ==
  ASSUME RingInv, Next
  PROVE  PushInv'
<1> USE DEF producer, consumer
<1>t. Facts
  BY FactsHold
<1> USE DEF Facts
<1>p. PushInv /\ Held(head, tail) \in Nat
  BY <1>t DEF RingInv
<1> USE DEF PushInv, Publishing
<1>1. CASE BeginPush
  <2>1. PICK data \in Pushes : offered' = data /\ pn' = Smaller(Len(data), Room(head, tail))
    BY <1>1 DEF BeginPush
  <2>2. Len(data) \in Nat /\ data # <<>>
    BY PushIsSeq, <1>t
  <2>3. pn' <= Len(data) /\ pn' + Held(head, tail) <= N
    BY <2>1, <2>2, <1>t DEF Smaller, Room
  <2>4. /\ owed' = {} /\ pi' = 0 /\ head' = head /\ tail' = tail
    BY <1>1 DEF BeginPush
  <2>5. \A i \in 0 .. pi' - 1 : buf'[Slot(Plus(head', i))] = offered'[i + 1]
    BY <2>4
  <2> QED
    BY <2>1, <2>2, <2>3, <2>4, <2>5 DEF Held, Minus, Slot, Plus
<1>2. CASE CopyIn
  <2>1. /\ offered' = offered /\ pn' = pn /\ owed' = owed /\ head' = head /\ tail' = tail
        /\ pi' = pi + 1 /\ offered # <<>> /\ pi < pn
        /\ buf' = [buf EXCEPT ![Slot(Plus(head, pi))] = offered[pi + 1]]
    BY <1>2 DEF CopyIn
  <2>2. CASE ~Publishing
    BY <1>p, <1>t, <2>1, <2>2
  <2>3. CASE Publishing
    <3>1. ASSUME NEW i \in 0 .. pi
          PROVE  buf'[Slot(Plus(head, i))] = offered[i + 1]
      <4>1. PICK s \in 0 .. N - 1 : s = Slot(Plus(head, pi))
        BY <1>t, SlotInRing
      <4>2. CASE i = pi
        <5>1. buf' = [buf EXCEPT ![s] = offered[pi + 1]]
          BY <2>1, <4>1
        <5>2. buf'[s] = offered[pi + 1]
          BY <5>1, <1>t
        <5> QED
          BY <5>2, <4>1, <4>2
      <4>3. CASE i < pi
        <5>1. Slot(Plus(head, i)) # Slot(Plus(head, pi))
          BY <4>3, <2>1, <1>t, SlotsApart
        <5> QED
          <6>0. i \in Nat
            BY <1>t
          <6>1. PICK r \in 0 .. N - 1 : r = Slot(Plus(head, i))
            BY <6>0, <1>t, SlotInRing
          <6>2. buf'[r] = buf[r]
            BY <5>1, <6>1, <4>1, <2>1, <1>t
          <6>3. buf[Slot(Plus(head, i))] = offered[i + 1]
            BY <4>3, <2>3, <1>t, <1>p
          <6> QED
            BY <6>1, <6>2, <6>3
      <4> QED
        BY <4>2, <4>3, <1>t
    <3> QED
      BY <3>1, <2>1, <2>3, <1>t, <1>p DEF Held, Minus, Slot, Plus
  <2> QED
    BY <2>2, <2>3
<1>3. CASE Publish
  <2>1. pi = pn
    BY <1>3, <1>t DEF Publish, AllCopied
  <2>2. /\ offered' = offered /\ pn' = pn /\ pi' = pi /\ offered # <<>>
        /\ owed' \in {{"pushed"}, {"dropped", "pushed"}}
    BY <1>3 DEF Publish
  <2>3. ~Publishing'
    BY <2>2
  <2> QED
    BY <2>1, <2>2, <2>3, <1>p
<1>4. CASE CountDropped
  BY <1>4, <1>p DEF CountDropped
<1>5. CASE CountPushed
  BY <1>5, <1>p, EmptySeq DEF CountPushed
<1>6. CASE BeginPop
  BY <1>6, <1>p DEF BeginPop, Held, Minus, Slot, Plus
<1>7. CASE CopyOut
  BY <1>7, <1>p DEF CopyOut, Held, Minus, Slot, Plus
<1>8. CASE Release
  <2>1. /\ offered' = offered /\ pn' = pn /\ pi' = pi /\ owed' = owed /\ buf' = buf
        /\ head' = head /\ tail' = Plus(tail, cn)
    BY <1>8 DEF Release
  <2>2. Held(head, Plus(tail, cn)) = Held(head, tail) - cn
    <3>1. cn \in Nat /\ cn <= Held(head, tail)
      BY <1>t DEF RingInv, PopInv
    <3> QED
      BY <3>1, <1>t, HeldShrinks
  <2>3. Held(head, tail)' = Held(head, tail) - cn
    BY <2>1, <2>2 DEF Held, Minus
  <2> QED
    BY <2>1, <2>3, <1>p, <1>t DEF Slot, Plus
<1> QED
  BY <1>1, <1>2, <1>3, <1>4, <1>5, <1>6, <1>7, <1>8 DEF Next, Producer, Consumer

LEMMA PopStep ==
  ASSUME RingInv, Next
  PROVE  PopInv'
<1> USE DEF producer, consumer
<1>t. Facts
  BY FactsHold
<1> USE DEF Facts
<1>p. PopInv /\ Held(head, tail) \in Nat
  BY <1>t DEF RingInv
<1> USE DEF PopInv
<1>1. CASE BeginPush
  BY <1>1, <1>p DEF BeginPush, Held, Minus, Slot, Plus
<1>2. CASE CopyIn
  <2>1. /\ head' = head /\ tail' = tail /\ max' = max /\ cn' = cn /\ out' = out
        /\ offered # <<>> /\ pi < pn
        /\ buf' = [buf EXCEPT ![Slot(Plus(head, pi))] = offered[pi + 1]]
    BY <1>2 DEF CopyIn
  <2>2. ASSUME NEW i \in 1 .. Len(out)
        PROVE  out[i] = buf'[Slot(Plus(tail, i - 1))]
    <3>1. i - 1 \in Nat /\ i - 1 < Held(head, tail)
      BY <1>t, <1>p
    <3>2. CASE owed = {}
      <4>1. Held(head, tail) + pi < N
        BY <2>1, <3>2, <1>t DEF RingInv, PushInv, Publishing
      <4>2. Slot(Plus(head, pi)) # Slot(Plus(tail, i - 1))
        BY <3>1, <4>1, <1>t, FreeSlot
      <4>3. Slot(Plus(tail, i - 1)) \in 0 .. N - 1
        BY <3>1, <1>t, SlotInRing
      <4> QED
        BY <4>2, <4>3, <2>1, <1>t, <1>p
    <3> QED
      BY <3>2, <2>1, <1>t DEF RingInv, PushInv
  <2> QED
    BY <2>1, <2>2, <1>p DEF Held, Minus, Slot, Plus
<1>3. CASE Publish
  <2>1. /\ tail' = tail /\ buf' = buf /\ max' = max /\ cn' = cn /\ out' = out
        /\ head' = Plus(head, pn)
    BY <1>3 DEF Publish
  <2>2. pn + Held(head, tail) <= N
    BY <1>3 DEF Publish, RingInv, PushInv, Publishing
  <2>3. Held(head, tail)' = Held(head, tail) + pn
    <3>1. pn \in Nat /\ Held(head, tail) + pn < W
      BY <2>2, <1>t
    <3>2. Held(Plus(head, pn), tail) = Held(head, tail) + pn
      BY <3>1, <1>t, HeldGrows
    <3> QED
      BY <3>2, <2>1 DEF Held, Minus
  <2> QED
    BY <2>1, <2>2, <2>3, <1>t, <1>p DEF Slot, Plus
<1>4. CASE CountDropped
  BY <1>4, <1>p DEF CountDropped, Held, Minus, Slot, Plus
<1>5. CASE CountPushed
  BY <1>5, <1>p DEF CountPushed, Held, Minus, Slot, Plus
<1>6. CASE BeginPop
  <2>1. /\ head' = head /\ tail' = tail /\ buf' = buf /\ out' = <<>>
        /\ max' \in 1 .. MaxLen /\ cn' = Smaller(max', Held(head, tail))
    BY <1>6 DEF BeginPop
  <2>2. cn' <= Held(head, tail) /\ max' # 0
    BY <2>1, <1>t DEF Smaller
  <2> QED
    BY <2>1, <2>2, <1>p, EmptySeq DEF Held, Minus
<1>7. CASE CopyOut
  <2>1. /\ head' = head /\ tail' = tail /\ buf' = buf /\ max' = max /\ cn' = cn /\ max > 0
        /\ out' = Append(out, buf[Slot(Plus(tail, Len(out)))])
    BY <1>7 DEF CopyOut
  <2>2. PICK e \in Byte : e = buf[Slot(Plus(tail, Len(out)))]
    <3>1. Slot(Plus(tail, Len(out))) \in 0 .. N - 1
      BY <1>t, SlotInRing
    <3> QED
      BY <3>1, <1>t
  <2>3. /\ Len(out') = Len(out) + 1
        /\ \A i \in 1 .. Len(out) : out'[i] = out[i]
        /\ out'[Len(out) + 1] = e
    BY <2>1, <2>2, <1>t, AppendProperties
  <2>4. ASSUME NEW i \in 1 .. Len(out')
        PROVE  out'[i] = buf[Slot(Plus(tail, i - 1))]
    <3>1. CASE i \in 1 .. Len(out)
      BY <3>1, <2>3, <1>p
    <3>2. CASE i = Len(out) + 1
      <4>1. i - 1 = Len(out)
        BY <3>2, <1>t
      <4> QED
        BY <3>2, <4>1, <2>2, <2>3
    <3> QED
      BY <3>1, <3>2, <2>3, <1>t
  <2> QED
    BY <2>1, <2>4, <1>t, <1>p DEF Held, Minus, Slot, Plus
<1>8. CASE Release
  <2>1. /\ head' = head /\ tail' = Plus(tail, cn) /\ cn' = 0 /\ out' = <<>>
    BY <1>8 DEF Release
  <2>2. Held(head, Plus(tail, cn)) = Held(head, tail) - cn
    BY <1>t, <1>p, HeldShrinks
  <2>3. Held(head, tail)' = Held(head, tail) - cn
    BY <2>1, <2>2 DEF Held, Minus
  <2> QED
    BY <2>1, <2>3, <1>t, <1>p, EmptySeq
<1> QED
  BY <1>1, <1>2, <1>3, <1>4, <1>5, <1>6, <1>7, <1>8 DEF Next, Producer, Consumer

LEMMA PlusCommutes ==
  ASSUME NEW a \in Nat, NEW b \in Nat
  PROVE  Plus(a, b) = Plus(b, a)
<1>1. a + b = b + a
  OBVIOUS
<1> QED
  BY <1>1 DEF Plus

LEMMA CountStep ==
  ASSUME RingInv, Next
  PROVE  CountInv'
<1> USE DEF producer, consumer
<1>t. Facts
  BY FactsHold
<1> USE DEF Facts
<1>c. CountInv
  BY DEF RingInv
<1>1. CASE BeginPush
  <2>1. PICK data \in Pushes : offered' = data /\ total' = Plus(total, Len(data))
    BY <1>1 DEF BeginPush
  <2>2. data # <<>>
    BY PushIsSeq
  <2>3. /\ offered = <<>> /\ owed = {} /\ owed' = owed /\ pushed' = pushed
        /\ dropped' = dropped /\ head' = head
    BY <1>1 DEF BeginPush
  <2> QED
    BY <2>1, <2>2, <2>3, <1>c DEF CountInv, Plus
<1>2. CASE CopyIn
  BY <1>2, <1>c DEF CopyIn, CountInv, Plus
<1>3. CASE Publish
  <2>1. /\ offered # <<>> /\ owed = {} /\ offered' = offered /\ pn' = pn /\ pushed' = pushed
        /\ dropped' = dropped /\ total' = total /\ head' = Plus(head, pn)
        /\ owed' = IF pn < Len(offered) THEN {"dropped", "pushed"} ELSE {"pushed"}
    BY <1>3 DEF Publish
  <2>2. pushed = head /\ Plus(Plus(pushed, dropped), Len(offered)) = total
    BY <2>1, <1>c DEF CountInv
  <2>3. Plus(pushed, pn)' = head'
    BY <2>1, <2>2 DEF Plus
  <2>4. Plus(Plus(pushed, dropped), Len(offered))' = total'
    BY <2>1, <2>2 DEF Plus
  <2>5. owed' = {"pushed"} => Plus(Plus(pushed, dropped), pn)' = total'
    <3>1. owed' = {"pushed"} => pn = Len(offered)
      <4>1. pn < Len(offered) => "dropped" \in owed'
        BY <2>1
      <4>2. owed' = {"pushed"} => ~(pn < Len(offered))
        BY <4>1
      <4> QED
        BY <4>2, <1>t
    <3> QED
      BY <3>1, <2>1, <2>4
  <2>6. owed' # {}
    BY <2>1
  <2> QED
    BY <2>1, <2>3, <2>4, <2>5, <2>6 DEF CountInv
<1>4. CASE CountDropped
  <2>1. /\ "dropped" \in owed /\ owed' = owed \ {"dropped"} /\ offered' = offered /\ pn' = pn
        /\ pushed' = pushed /\ total' = total /\ head' = head
        /\ dropped' = Plus(dropped, Len(offered) - pn)
    BY <1>4 DEF CountDropped
  <2>2. /\ owed = {"dropped", "pushed"} /\ owed' = {"pushed"} /\ offered # <<>>
    BY <2>1 DEF RingInv, PushInv
  <2>3. Plus(pushed, pn) = head /\ Plus(Plus(pushed, dropped), Len(offered)) = total
    BY <2>2, <1>c DEF CountInv
  <2> DEFINE d == Len(offered) - pn
  <2>4. d \in Nat /\ d + pn = Len(offered) /\ dropped' = Plus(dropped, d)
    BY <2>1, <1>t
  <2> HIDE DEF d
  <2>5. PICK e \in Nat : e = Plus(dropped, d)
    BY <2>4, <1>t, PlusInRange DEF Index
  <2>6. Plus(Plus(pushed, e), pn) = total
    <3>1. Plus(Plus(pushed, e), pn) = Plus(Plus(dropped, d), pushed + pn)
      BY <2>4, <2>5, <1>t, PlusCommutes, PlusPlus
    <3>2. Plus(Plus(dropped, d), pushed + pn) = Plus(dropped, d + (pushed + pn))
      <4>1. pushed + pn \in Nat
        BY <1>t
      <4> QED
        BY <2>4, <4>1, <1>t, PlusPlus
    <3>3. Plus(Plus(pushed, dropped), Len(offered)) = Plus(dropped, pushed + Len(offered))
      BY <1>t, PlusCommutes, PlusPlus
    <3>4. d + (pushed + pn) = pushed + Len(offered)
      <4>1. \A x, y \in Nat : d + (x + y) = x + (d + y)
        BY <2>4
      <4> QED
        <5>1. pushed \in Nat /\ pn \in Nat
          BY <1>t
        <5> QED
          BY <5>1, <2>4, <4>1
    <3> QED
      BY <3>1, <3>2, <3>3, <3>4, <2>3
  <2>7. Plus(Plus(pushed, dropped), pn)' = total' /\ Plus(pushed, pn)' = head'
    BY <2>1, <2>3, <2>4, <2>5, <2>6 DEF Plus
  <2> QED
    BY <2>1, <2>2, <2>7 DEF CountInv
<1>5. CASE CountPushed
  <2>1. /\ owed = {"pushed"} /\ pushed' = Plus(pushed, pn) /\ offered' = <<>> /\ owed' = {}
        /\ dropped' = dropped /\ total' = total /\ head' = head
    BY <1>5 DEF CountPushed
  <2>2. Plus(pushed, pn) = head /\ Plus(Plus(pushed, dropped), pn) = total
    BY <2>1, <1>c DEF CountInv
  <2>3. Plus(Plus(pushed, pn), dropped) = Plus(Plus(pushed, dropped), pn)
    <3>1. Plus(Plus(pushed, pn), dropped) = Plus(pushed, pn + dropped)
      BY <1>t, PlusPlus
    <3>2. Plus(Plus(pushed, dropped), pn) = Plus(pushed, dropped + pn)
      BY <1>t, PlusPlus
    <3>3. pn + dropped = dropped + pn
      BY <1>t
    <3> QED
      BY <3>1, <3>2, <3>3
  <2>4. Plus(pushed, dropped)' = total' /\ pushed' = head'
    BY <2>1, <2>2, <2>3 DEF Plus
  <2> QED
    BY <2>1, <2>4 DEF CountInv
<1>6. CASE BeginPop
  BY <1>6, <1>c DEF BeginPop, CountInv, Plus
<1>7. CASE CopyOut
  BY <1>7, <1>c DEF CopyOut, CountInv, Plus
<1>8. CASE Release
  BY <1>8, <1>c DEF Release, CountInv, Plus
<1> QED
  BY <1>1, <1>2, <1>3, <1>4, <1>5, <1>6, <1>7, <1>8 DEF Next, Producer, Consumer

LEMMA RingStutter ==
  ASSUME RingInv, UNCHANGED vars
  PROVE  RingInv'
<1>t. RingInv
  OBVIOUS
<1>1. TypeInv'
  BY DEF vars, producer, consumer, RingInv, TypeInv, TypeOK
<1>2. PushInv'
  BY DEF vars, producer, consumer, RingInv, PushInv, Publishing, Held, Minus, Slot, Plus
<1>3. PopInv'
  BY DEF vars, producer, consumer, RingInv, PopInv, Held, Minus, Slot, Plus
<1>4. CountInv'
  BY DEF vars, producer, consumer, RingInv, CountInv, Plus
<1> QED
  BY <1>1, <1>2, <1>3, <1>4 DEF RingInv

\* The invariant holds of the ring, however its two sides interleave.
THEOREM InvCorrect == Spec => []RingInv
<1>1. RingInv /\ [Next]_vars => RingInv'
  <2> SUFFICES ASSUME RingInv, [Next]_vars PROVE RingInv'
    OBVIOUS
  <2>1. CASE Next
    BY <2>1, TypeStep, PushStep, PopStep, CountStep DEF RingInv
  <2> QED
    BY <2>1, RingStutter
<1> QED
  BY <1>1, RingInit, PTL DEF Spec

\* Every member of the ring stays in its range.
THEOREM TypeCorrect == Spec => []TypeOK
<1>1. RingInv => TypeOK
  BY DEF RingInv, TypeInv
<1> QED
  BY <1>1, InvCorrect, PTL

\* The statistics count every byte offered once, as pushed or as dropped, modulo
\* their width, whatever the ring's size and however long the pushes are.
THEOREM CountsCorrect == Spec => []CountsAddUp
<1>1. RingInv => CountsAddUp
  BY DEF RingInv, CountInv, CountsAddUp, PushInv
<1> QED
  BY <1>1, InvCorrect, PTL
-----------------------------------------------------------------------------
(* The ring is a queue.                                                    *)

LEMMA ContentsAre ==
  ASSUME RingInv
  PROVE  /\ Contents \in Seq(Byte) /\ Len(Contents) = Held(head, tail)
         /\ \A i \in 1 .. Held(head, tail) : Contents[i] = buf[Slot(Plus(tail, i - 1))]
<1>t. Facts
  BY FactsHold
<1>1. Held(head, tail) \in Nat
  BY <1>t DEF Facts
<1>2. ASSUME NEW i \in 1 .. Held(head, tail)
      PROVE  buf[Slot(Plus(tail, i - 1))] \in Byte
  <2>1. i - 1 \in Nat
    BY <1>1
  <2>2. PICK s \in 0 .. N - 1 : s = Slot(Plus(tail, i - 1))
    BY <2>1, <1>t, SlotInRing DEF Facts
  <2> QED
    BY <2>2, <1>t DEF Facts
<1>3. Contents \in [1 .. Held(head, tail) -> Byte]
  BY <1>2 DEF Contents
<1>4. Contents \in Seq(Byte)
  BY <1>1, <1>3
<1>5. Len(Contents) = Held(head, tail)
  BY <1>1, <1>3, <1>4, LenProperties
<1> QED
  BY <1>4, <1>5 DEF Contents

LEMMA SeqAsFunction ==
  ASSUME NEW S, NEW q \in Seq(S)
  PROVE  q = [i \in 1 .. Len(q) |-> q[i]]
<1>1. q \in [1 .. Len(q) -> S]
  BY LenProperties
<1> QED
  BY <1>1

\* A byte copied in lands beside what the ring holds.
LEMMA CopyInHides ==
  ASSUME RingInv, CopyIn
  PROVE  Contents' = Contents
<1>t. Facts
  BY FactsHold
<1>1. /\ head' = head /\ tail' = tail /\ offered # <<>> /\ pi < pn
      /\ buf' = [buf EXCEPT ![Slot(Plus(head, pi))] = offered[pi + 1]]
  BY DEF CopyIn
<1>2. Held(head, tail) + pi < N /\ Held(head, tail) \in Nat
  <2>1. owed = {}
    BY <1>1, <1>t DEF Facts, RingInv, PushInv
  <2> QED
    BY <1>1, <2>1, <1>t DEF Facts, RingInv, PushInv, Publishing
<1>3. ASSUME NEW i \in 1 .. Held(head, tail)
      PROVE  buf'[Slot(Plus(tail, i - 1))] = buf[Slot(Plus(tail, i - 1))]
  <2>1. i - 1 \in Nat /\ i - 1 < Held(head, tail)
    BY <1>2
  <2>2. PICK s \in 0 .. N - 1 : s = Slot(Plus(tail, i - 1))
    BY <2>1, <1>t, SlotInRing DEF Facts
  <2>3. PICK r \in 0 .. N - 1 : r = Slot(Plus(head, pi))
    BY <1>t, SlotInRing DEF Facts
  <2>4. r # s
    BY <2>1, <2>2, <2>3, <1>2, <1>t, FreeSlot DEF Facts
  <2> QED
    BY <2>2, <2>3, <2>4, <1>1, <1>t DEF Facts
<1>4. Held(head, tail)' = Held(head, tail)
  BY <1>1 DEF Held, Minus
<1>5. Contents' = [i \in 1 .. Held(head, tail) |-> buf'[Slot(Plus(tail, i - 1))]]
  BY <1>1, <1>4 DEF Contents, Slot, Plus
<1> QED
  BY <1>3, <1>5 DEF Contents

\* Publishing puts the bytes that had room behind those the ring holds.
LEMMA PublishPuts ==
  ASSUME RingInv, Publish
  PROVE  Contents' = Contents \o SubSeq(offered, 1, pn)
<1>t. Facts
  BY FactsHold
<1>1. /\ head' = Plus(head, pn) /\ tail' = tail /\ buf' = buf
  BY DEF Publish
<1>2. pi = pn /\ Publishing
  BY <1>t DEF Publish, AllCopied, Publishing, Facts
<1> DEFINE k == Held(head, tail)
<1>3. /\ k \in Nat /\ pn \in Nat /\ k + pn <= N
      /\ \A i \in 0 .. pn - 1 : buf[Slot(Plus(head, i))] = offered[i + 1]
  BY <1>2, <1>t DEF Facts, RingInv, PushInv
<1>4. Held(head, tail)' = k + pn
  <2>1. Held(Plus(head, pn), tail) = k + pn
    BY <1>3, <1>t, HeldGrows DEF Facts
  <2> QED
    BY <2>1, <1>1 DEF Held, Minus
<1>c. /\ Contents \in Seq(Byte) /\ Len(Contents) = k
      /\ \A i \in 1 .. k : Contents[i] = buf[Slot(Plus(tail, i - 1))]
  BY ContentsAre
<1>5. Contents' = [i \in 1 .. k + pn |-> buf[Slot(Plus(tail, i - 1))]]
  BY <1>1, <1>4 DEF Contents, Slot, Plus
<1> DEFINE s == SubSeq(offered, 1, pn)
<1>6. s \in Seq(Byte) /\ Len(s) = pn /\ \A i \in 1 .. pn : s[i] = offered[i]
  BY <1>t, SubSeqProperties DEF Facts
<1> DEFINE q == Contents \o s
<1>7. /\ q \in Seq(Byte) /\ Len(q) = k + pn
      /\ \A i \in 1 .. k + pn : q[i] = IF i <= k THEN Contents[i] ELSE s[i - k]
  BY <1>c, <1>6, ConcatProperties
<1>n. k \in Nat /\ pn \in Nat
  BY <1>3
<1>8. ASSUME NEW i \in 1 .. k + pn
      PROVE  q[i] = buf[Slot(Plus(tail, i - 1))]
  <2>1. CASE i <= k
    BY <2>1, <1>3, <1>7, <1>c
  <2>2. CASE i > k
    <3>1. i - k \in 1 .. pn /\ i - k - 1 \in 0 .. pn - 1
      BY <2>2, <1>3
    <3>2. q[i] = buf[Slot(Plus(head, i - k - 1))]
      BY <2>2, <3>1, <1>3, <1>6, <1>7
    <3>3. Plus(head, i - k - 1) = Plus(tail, i - 1)
      <4>1. Plus(tail, k) = head
        BY <1>t, HeldReaches DEF Facts
      <4>2. i - k - 1 \in Nat /\ k + (i - k - 1) = i - 1
        BY <3>1, <1>n
      <4>3. tail \in Nat
        BY <1>t DEF Facts
      <4> QED
        BY <4>1, <4>2, <4>3, <1>n, PlusPlus
    <3> QED
      BY <3>2, <3>3
  <2>3. i <= k \/ i > k
    BY <1>n
  <2> QED
    BY <2>1, <2>2, <2>3
<1>9. Contents' = q
  <2> HIDE DEF q, k
  <2>1. q = [i \in 1 .. k + pn |-> q[i]]
    BY <1>7, SeqAsFunction
  <2>2. [i \in 1 .. k + pn |-> q[i]] = [i \in 1 .. k + pn |-> buf[Slot(Plus(tail, i - 1))]]
    BY <1>8
  <2> QED
    BY <2>1, <2>2, <1>5
<1> QED
  BY <1>9

\* A sequence cut in two.
LEMMA SplitAt ==
  ASSUME NEW q \in Seq(Byte), NEW n \in 0 .. Len(q)
  PROVE  LET s == SubSeq(q, 1, n)
             t == SubSeq(q, n + 1, Len(q))
         IN  /\ s \in Seq(Byte) /\ Len(s) = n /\ \A i \in 1 .. n : s[i] = q[i]
             /\ t \in Seq(Byte) /\ Len(t) = Len(q) - n
             /\ \A i \in 1 .. Len(q) - n : t[i] = q[n + i]
             /\ q = s \o t
<1> DEFINE k == Len(q)
           s == SubSeq(q, 1, n)
           t == SubSeq(q, n + 1, k)
<1>1. k \in Nat /\ n \in Nat /\ n <= k
  BY LenProperties
<1>2. \A i \in 1 .. k : q[i] \in Byte
  BY ElementOfSeq
<1>3. s \in Seq(Byte) /\ Len(s) = n /\ \A i \in 1 .. n : s[i] = q[i]
  <2> HIDE DEF k
  <2>1. \A i \in 1 .. n : q[i] \in Byte
    BY <1>1, <1>2
  <2> QED
    BY <2>1, <1>1, SubSeqProperties
<1>4. t \in Seq(Byte) /\ Len(t) = k - n /\ \A i \in 1 .. k - n : t[i] = q[n + i]
  <2> HIDE DEF k
  <2>1. \A i \in n + 1 .. k : q[i] \in Byte
    BY <1>1, <1>2
  <2>2. n + 1 \in Int /\ k \in Int
    BY <1>1
  <2>3. /\ t \in Seq(Byte) /\ Len(t) = IF n + 1 <= k THEN k - (n + 1) + 1 ELSE 0
        /\ \A i \in 1 .. k - (n + 1) + 1 : t[i] = q[n + 1 + i - 1]
    BY <2>1, <2>2, SubSeqProperties
  <2>4. Len(t) = k - n
    BY <2>3, <1>1
  <2>5. ASSUME NEW i \in 1 .. k - n
        PROVE  t[i] = q[n + i]
    <3>1. i \in 1 .. k - (n + 1) + 1 /\ n + 1 + i - 1 = n + i
      BY <1>1
    <3> QED
      BY <3>1, <2>3
  <2> QED
    BY <2>3, <2>4, <2>5
<1>c. /\ s \o t \in Seq(Byte) /\ Len(s \o t) = Len(s) + Len(t)
      /\ \A j \in 1 .. Len(s) + Len(t) : (s \o t)[j] = IF j <= Len(s) THEN s[j] ELSE t[j - Len(s)]
  <2> HIDE DEF s, t, k
  <2>1. s \in Seq(Byte) /\ t \in Seq(Byte)
    BY <1>3, <1>4
  <2> QED
    BY <2>1, ConcatProperties
<1>5. Len(s \o t) = k
  <2> HIDE DEF s, t, k
  <2> QED
    BY <1>1, <1>3, <1>4, <1>c
<1>6. ASSUME NEW i \in 1 .. k
      PROVE  (s \o t)[i] = q[i]
  <2> HIDE DEF s, t, k
  <2>1. \A j \in 1 .. n + (k - n) : (s \o t)[j] = IF j <= n THEN s[j] ELSE t[j - n]
    BY <1>3, <1>4, <1>c
  <2>2. i \in 1 .. n + (k - n)
    BY <1>1
  <2>3. CASE i <= n
    BY <2>1, <2>2, <2>3, <1>1, <1>3
  <2>4. CASE ~(i <= n)
    <3>1. i - n \in 1 .. k - n /\ n + (i - n) = i
      BY <2>4, <1>1
    <3> QED
      BY <2>1, <2>2, <2>4, <3>1, <1>4
  <2> QED
    BY <2>3, <2>4
<1>7. q = s \o t
  <2> HIDE DEF s, t
  <2> QED
    BY <1>c, <1>5, <1>6, SeqEqual
<1> QED
  BY <1>3, <1>4, <1>7

\* Releasing hands over the oldest bytes, as they were pushed, and keeps the rest.
LEMMA ReleaseHands ==
  ASSUME RingInv, Release
  PROVE  /\ out = SubSeq(Contents, 1, cn)
         /\ Contents' = SubSeq(Contents, cn + 1, Len(Contents))
         /\ cn = 0 => Contents' = Contents
<1>t. Facts
  BY FactsHold
<1>1. /\ head' = head /\ tail' = Plus(tail, cn) /\ buf' = buf
  BY DEF Release
<1>2. Len(out) = cn
  BY <1>t DEF Release, AllCopied, Facts
<1> DEFINE k == Held(head, tail)
<1>3. \A i \in 1 .. cn : out[i] = buf[Slot(Plus(tail, i - 1))]
  BY <1>2 DEF RingInv, PopInv
<1>n. k \in Nat /\ cn \in Nat /\ cn <= k
  BY <1>t DEF Facts, RingInv, PopInv
<1>c. /\ Contents \in Seq(Byte) /\ Len(Contents) = k
      /\ \A i \in 1 .. k : Contents[i] = buf[Slot(Plus(tail, i - 1))]
  BY ContentsAre
<1>4. Held(head, tail)' = k - cn
  <2>1. Held(head, Plus(tail, cn)) = k - cn
    BY <1>n, <1>t, HeldShrinks DEF Facts
  <2> QED
    BY <2>1, <1>1 DEF Held, Minus
<1>5. Contents' = [i \in 1 .. k - cn |-> buf[Slot(Plus(tail, cn + (i - 1)))]]
  <2>1. ASSUME NEW i \in 1 .. k - cn
        PROVE  Plus(Plus(tail, cn), i - 1) = Plus(tail, cn + (i - 1))
    <3>1. i - 1 \in Nat
      BY <1>n
    <3> QED
      BY <3>1, <1>n, <1>t, PlusPlus DEF Facts
  <2>2. Contents' = [i \in 1 .. k - cn |-> buf[Slot(Plus(Plus(tail, cn), i - 1))]]
    BY <1>1, <1>4 DEF Contents, Slot, Plus
  <2> HIDE DEF k
  <2> QED
    BY <2>1, <2>2
<1>6. out = SubSeq(Contents, 1, cn)
  <2> DEFINE s == SubSeq(Contents, 1, cn)
  <2>1. s \in Seq(Byte) /\ Len(s) = cn /\ \A i \in 1 .. cn : s[i] = Contents[i]
    <3>1. cn \in 0 .. Len(Contents)
      BY <1>n, <1>c
    <3> QED
      BY <3>1, <1>c, SplitAt
  <2>2. \A i \in 1 .. cn : s[i] = out[i]
    BY <2>1, <1>3, <1>c, <1>n
  <2>3. out \in Seq(Byte)
    BY <1>t DEF Facts
  <2> HIDE DEF s
  <2>4. out = s
    BY <2>1, <2>2, <2>3, <1>2, SeqEqual
  <2> QED
    BY <2>4 DEF s
<1>7. Contents' = SubSeq(Contents, cn + 1, Len(Contents))
  <2> DEFINE s == SubSeq(Contents, cn + 1, k)
  <2>1. s \in Seq(Byte) /\ Len(s) = k - cn /\ \A i \in 1 .. k - cn : s[i] = Contents[cn + i]
    <3>1. cn \in 0 .. Len(Contents)
      BY <1>n, <1>c
    <3> QED
      BY <3>1, <1>c, SplitAt
  <2>2. ASSUME NEW i \in 1 .. k - cn
        PROVE  s[i] = buf[Slot(Plus(tail, cn + (i - 1)))]
    <3> HIDE DEF s, k
    <3>1. cn + i \in 1 .. k /\ (cn + i) - 1 = cn + (i - 1)
      BY <1>n
    <3>2. Contents[cn + i] = buf[Slot(Plus(tail, (cn + i) - 1))]
      BY <3>1, <1>c
    <3> QED
      BY <3>1, <3>2, <2>1
  <2> HIDE DEF s, k
  <2>3. s = [i \in 1 .. k - cn |-> s[i]]
    BY <2>1, SeqAsFunction
  <2>4. Contents' = s
    BY <2>2, <2>3, <1>5
  <2> QED
    BY <2>4, <1>c DEF s
<1>8. cn = 0 => Contents' = Contents
  <2> SUFFICES ASSUME cn = 0 PROVE Contents' = Contents
    OBVIOUS
  <2>1. ASSUME NEW i \in 1 .. k
        PROVE  buf[Slot(Plus(tail, cn + (i - 1)))] = buf[Slot(Plus(tail, i - 1))]
    <3>1. cn + (i - 1) = i - 1
      BY <1>n
    <3> QED
      BY <3>1
  <2>2. k - cn = k
    BY <1>n
  <2>3. Contents = [i \in 1 .. k |-> buf[Slot(Plus(tail, i - 1))]]
    BY DEF Contents
  <2> HIDE DEF k
  <2> QED
    BY <2>1, <2>2, <2>3, <1>5
<1> QED
  BY <1>6, <1>7, <1>8

\* What stays of the queue when the contents and the push do.
LEMMA QueueStays ==
  ASSUME Contents' = Contents, cn' = cn, got' = got, Publishing' <=> Publishing,
         Publishing => offered' = offered /\ pn' = pn
  PROVE  UNCHANGED Promised!qvars
<1>1. CASE Publishing
  BY <1>1 DEF Promised!qvars
<1>2. CASE ~Publishing
  BY <1>2 DEF Promised!qvars
<1> QED
  BY <1>1, <1>2

LEMMA QueueInit == Init => Promised!Init
<1> SUFFICES ASSUME Init PROVE Promised!Init
  OBVIOUS
<1>1. RingInv
  BY RingInit
<1>2. Held(head, tail) = 0
  <2>1. 0 \in Index
    BY Sizes DEF Index
  <2>2. Held(0, 0) = 0 - 0
    BY <2>1, HeldIs
  <2> QED
    BY <2>2 DEF Init
<1>3. Contents = <<>>
  BY <1>1, <1>2, ContentsAre, EmptySeq
<1> QED
  BY <1>3 DEF Init, Promised!Init, Publishing

LEMMA QueueStep ==
  ASSUME RingInv, Next
  PROVE  [Promised!Next]_(Promised!qvars)
<1> USE DEF producer, consumer
<1>t. Facts
  BY FactsHold
<1>c. Contents \in Seq(Byte) /\ Len(Contents) = Held(head, tail)
  BY ContentsAre
<1>1. CASE BeginPush
  <2>1. /\ offered = <<>> /\ owed = {} /\ owed' = {} /\ cn' = cn /\ got' = got
        /\ buf' = buf /\ head' = head /\ tail' = tail
    BY <1>1 DEF BeginPush
  <2>2. PICK data \in Pushes : offered' = data /\ pn' = Smaller(Len(data), Room(head, tail))
    BY <1>1 DEF BeginPush
  <2>3. ~Publishing /\ Publishing'
    BY <2>1, <2>2, PushIsSeq DEF Publishing
  <2>4. Contents' = Contents
    BY <2>1 DEF Contents, Held, Minus, Slot, Plus
  <2>5. data \in Promised!Pushes
    BY <2>2 DEF Pushes, Promised!Pushes
  <2>6. pn' = Promised!Smaller(Len(data), N - Len(Contents))
    BY <2>2, <1>c DEF Smaller, Room, Promised!Smaller
  <2>7. Promised!Offer
    BY <2>1, <2>2, <2>3, <2>4, <2>5, <2>6 DEF Promised!Offer
  <2> QED
    BY <2>7 DEF Promised!Next
<1>2. CASE CopyIn
  <2>1. Contents' = Contents
    BY <1>2, CopyInHides
  <2>2. cn' = cn /\ got' = got /\ offered' = offered /\ pn' = pn /\ owed' = owed
    BY <1>2 DEF CopyIn
  <2>3. Publishing' = Publishing
    BY <2>2 DEF Publishing
  <2> QED
    BY <2>1, <2>2, <2>3, QueueStays
<1>3. CASE Publish
  <2>1. Contents' = Contents \o SubSeq(offered, 1, pn)
    BY <1>3, PublishPuts
  <2>2. cn' = cn /\ got' = got /\ offered # <<>> /\ owed = {} /\ owed' # {}
    BY <1>3 DEF Publish
  <2>3. Publishing /\ ~Publishing'
    BY <2>2 DEF Publishing
  <2>4. Promised!Put
    BY <2>1, <2>2, <2>3 DEF Promised!Put
  <2> QED
    BY <2>4 DEF Promised!Next
<1>4. CASE CountDropped
  <2>1. /\ buf' = buf /\ head' = head /\ tail' = tail /\ cn' = cn /\ got' = got
        /\ owed # {} /\ owed' # {}
    BY <1>4 DEF CountDropped, RingInv, PushInv
  <2>2. Contents' = Contents
    BY <2>1 DEF Contents, Held, Minus, Slot, Plus
  <2>3. ~Publishing /\ ~Publishing'
    BY <2>1 DEF Publishing
  <2> QED
    BY <2>1, <2>2, <2>3, QueueStays
<1>5. CASE CountPushed
  <2>1. /\ buf' = buf /\ head' = head /\ tail' = tail /\ cn' = cn /\ got' = got
        /\ owed # {} /\ offered' = <<>>
    BY <1>5 DEF CountPushed
  <2>2. Contents' = Contents
    BY <2>1 DEF Contents, Held, Minus, Slot, Plus
  <2>3. ~Publishing /\ ~Publishing'
    BY <2>1 DEF Publishing
  <2> QED
    BY <2>1, <2>2, <2>3, QueueStays
<1>6. CASE BeginPop
  <2>1. /\ buf' = buf /\ head' = head /\ tail' = tail /\ got' = got /\ offered' = offered
        /\ pn' = pn /\ owed' = owed /\ max = 0
        /\ max' \in 1 .. MaxLen /\ cn' = Smaller(max', Held(head, tail))
    BY <1>6 DEF BeginPop
  <2>2. cn = 0
    BY <2>1 DEF RingInv, PopInv
  <2>3. Contents' = Contents
    BY <2>1 DEF Contents, Held, Minus, Slot, Plus
  <2>4. Publishing' = Publishing
    BY <2>1 DEF Publishing
  <2>5. \E m \in 1 .. MaxLen : cn' = Promised!Smaller(m, Len(Contents))
    BY <2>1, <1>c DEF Smaller, Promised!Smaller
  <2>6. Promised!Ask
    BY <2>1, <2>2, <2>3, <2>4, <2>5 DEF Promised!Ask
  <2> QED
    BY <2>6 DEF Promised!Next
<1>7. CASE CopyOut
  <2>1. /\ buf' = buf /\ head' = head /\ tail' = tail /\ cn' = cn /\ got' = got
        /\ offered' = offered /\ pn' = pn /\ owed' = owed
    BY <1>7 DEF CopyOut
  <2>2. Contents' = Contents
    BY <2>1 DEF Contents, Held, Minus, Slot, Plus
  <2>3. Publishing' = Publishing
    BY <2>1 DEF Publishing
  <2> QED
    BY <2>1, <2>2, <2>3, QueueStays
<1>8. CASE Release
  <2>1. /\ offered' = offered /\ pn' = pn /\ owed' = owed /\ cn' = 0
        /\ got' = IF cn > 0 THEN out ELSE got
    BY <1>8 DEF Release
  <2>2. Publishing' = Publishing
    BY <2>1 DEF Publishing
  <2>3. CASE cn = 0
    <3>1. Contents' = Contents
      BY <1>8, <2>3, ReleaseHands
    <3>2. got' = got
      BY <2>1, <2>3
    <3> QED
      BY <2>1, <2>2, <2>3, <3>1, <3>2, QueueStays
  <2>4. CASE cn > 0
    <3>1. /\ got' = SubSeq(Contents, 1, cn)
          /\ Contents' = SubSeq(Contents, cn + 1, Len(Contents))
      BY <1>8, <2>1, <2>4, ReleaseHands
    <3>2. Promised!Hand
      BY <2>1, <2>2, <2>4, <3>1 DEF Promised!Hand
    <3> QED
      BY <3>2 DEF Promised!Next
  <2> QED
    BY <2>3, <2>4, <1>t DEF Facts
<1> QED
  BY <1>1, <1>2, <1>3, <1>4, <1>5, <1>6, <1>7, <1>8 DEF Next, Producer, Consumer

LEMMA QueueStutter ==
  ASSUME UNCHANGED vars
  PROVE  UNCHANGED Promised!qvars
<1>1. Contents' = Contents
  BY DEF vars, Contents, Held, Minus, Slot, Plus
<1>2. Publishing' = Publishing
  BY DEF vars, producer, Publishing
<1> QED
  BY <1>1, <1>2, QueueStays DEF vars, producer, consumer

\* The ring is the bounded queue of ByteQueue for every size, every length of a push
\* or a pop and every interleaving of the two sides, the wraps of its indices included.
THEOREM QueueCorrect == Spec => IsAQueue
<1>1. RingInv /\ [Next]_vars => [Promised!Next]_(Promised!qvars)
  BY QueueStep, QueueStutter
<1> QED
  BY <1>1, QueueInit, InvCorrect, PTL DEF Spec, IsAQueue, Promised!Spec
-----------------------------------------------------------------------------
(* The parser behind the ring.                                             *)

\* The byte before position i of s, and the positions that complete a frame.
Before(b, s, i) == IF i = 1 THEN b ELSE s[i - 1]

Ends(b, s) == {i \in 1 .. Len(s) : <<Before(b, s, i), s[i]>> = Frame}

LEMMA CompletedIs ==
  ASSUME NEW b \in Byte, NEW s \in Seq(Byte)
  PROVE  /\ IsFiniteSet(Ends(b, s)) /\ Cardinality(Ends(b, s)) \in Nat
         /\ Completed(b, s) = Cardinality(Ends(b, s))
<1> DEFINE all == <<b>> \o s
<1>1. Len(s) \in Nat
  BY LenProperties
<1>2. <<b>> \in Seq(Byte) /\ Len(<<b>>) = 1 /\ <<b>>[1] = b
  OBVIOUS
<1>3. \A i \in 1 .. 1 + Len(s) : all[i] = IF i <= 1 THEN b ELSE s[i - 1]
  BY <1>1, <1>2, ConcatProperties
<1>4. ASSUME NEW i \in 1 .. Len(s)
      PROVE  all[i] = Before(b, s, i) /\ all[i + 1] = s[i]
  <2>1. i \in 1 .. 1 + Len(s) /\ i + 1 \in 1 .. 1 + Len(s) /\ (i + 1) - 1 = i
    BY <1>1
  <2> QED
    BY <1>1, <2>1, <1>3 DEF Before
<1>5. {i \in 1 .. Len(s) : <<all[i], all[i + 1]>> = Frame} = Ends(b, s)
  BY <1>4 DEF Ends
<1>6. IsFiniteSet(1 .. Len(s))
  BY <1>1, FS_Interval
<1>7. IsFiniteSet(Ends(b, s))
  BY <1>6, FS_Subset DEF Ends
<1>8. Cardinality(Ends(b, s)) \in Nat
  BY <1>7, FS_CardinalityType
<1> QED
  BY <1>5, <1>7, <1>8 DEF Completed

LEMMA LastOfConcat ==
  ASSUME NEW b \in Byte, NEW s \in Seq(Byte), NEW t \in Seq(Byte)
  PROVE  LastOf(b, s \o t) = LastOf(LastOf(b, s), t) /\ LastOf(b, s) \in Byte
<1>1. Len(s) \in Nat /\ Len(t) \in Nat
  BY LenProperties
<1>2. /\ s \o t \in Seq(Byte) /\ Len(s \o t) = Len(s) + Len(t)
      /\ \A i \in 1 .. Len(s) + Len(t) : (s \o t)[i] = IF i <= Len(s) THEN s[i] ELSE t[i - Len(s)]
  BY ConcatProperties
<1>3. LastOf(b, s) \in Byte
  <2>1. CASE s = <<>>
    BY <2>1 DEF LastOf
  <2>2. CASE s # <<>>
    <3>1. Len(s) \in 1 .. Len(s)
      BY <1>1, <2>2, EmptySeq
    <3> QED
      BY <2>2, <3>1, ElementOfSeq DEF LastOf
  <2> QED
    BY <2>1, <2>2
<1>4. CASE t = <<>>
  BY <1>3, <1>4, ConcatEmptySeq DEF LastOf
<1>5. CASE t # <<>>
  <2>1. Len(t) > 0
    BY <1>1, <1>5, EmptySeq
  <2>2. s \o t # <<>>
    BY <1>1, <1>2, <2>1, EmptySeq
  <2>3. (s \o t)[Len(s) + Len(t)] = t[Len(t)]
    <3>1. Len(s) + Len(t) \in 1 .. Len(s) + Len(t) /\ ~(Len(s) + Len(t) <= Len(s))
          /\ (Len(s) + Len(t)) - Len(s) = Len(t)
      BY <1>1, <2>1
    <3> QED
      BY <3>1, <1>2
  <2> QED
    BY <1>2, <1>3, <1>5, <2>2, <2>3 DEF LastOf
<1> QED
  BY <1>3, <1>4, <1>5

\* However the bytes are cut in two, the parser completes the same frames.
LEMMA CompletedConcat ==
  ASSUME NEW b \in Byte, NEW s \in Seq(Byte), NEW t \in Seq(Byte)
  PROVE  Completed(b, s \o t) = Completed(b, s) + Completed(LastOf(b, s), t)
<1> DEFINE n == Len(s)
           m == Len(t)
           c == LastOf(b, s)
           q == s \o t
           S == Ends(b, s)
           T == Ends(c, t)
           U == {n + j : j \in T}
<1>1. n \in Nat /\ m \in Nat /\ c \in Byte
  BY LenProperties, LastOfConcat
<1>2. /\ q \in Seq(Byte) /\ Len(q) = n + m
      /\ \A i \in 1 .. n + m : q[i] = IF i <= n THEN s[i] ELSE t[i - n]
  BY ConcatProperties
<1>3. T \subseteq 1 .. m /\ S \subseteq 1 .. n
  BY DEF Ends
<1>4. ASSUME NEW i \in 1 .. n
      PROVE  q[i] = s[i] /\ Before(b, q, i) = Before(b, s, i)
  <2> HIDE DEF q, n
  <2>1. i \in 1 .. n + m /\ (i = 1 \/ (i - 1 \in 1 .. n /\ i - 1 \in 1 .. n + m))
    BY <1>1
  <2> QED
    BY <1>1, <1>2, <2>1 DEF Before
<1>5. ASSUME NEW j \in 1 .. m
      PROVE  q[n + j] = t[j] /\ Before(b, q, n + j) = Before(c, t, j)
  <2>1. q[n + j] = t[j]
    <3> HIDE DEF q, n
    <3>1. n + j \in 1 .. n + m /\ ~(n + j <= n) /\ (n + j) - n = j
      BY <1>1
    <3> QED
      BY <3>1, <1>2
  <2>2. ASSUME j = 1 PROVE Before(b, q, n + j) = Before(c, t, j)
    <3>1. CASE n = 0
      <4>1. s = <<>>
        BY <3>1, EmptySeq
      <4> QED
        <5>1. c = b
          BY <4>1 DEF LastOf
        <5> HIDE DEF q, n, c
        <5>2. n + j = 1
          BY <2>2, <3>1
        <5> QED
          BY <5>1, <5>2, <2>2 DEF Before
    <3>2. CASE n # 0
      <4>1. s # <<>>
        BY <3>2, EmptySeq
      <4>2. c = s[n]
        BY <4>1 DEF LastOf
      <4> HIDE DEF q, n, c
      <4>3. n \in 1 .. n + m /\ n <= n /\ n + j # 1 /\ (n + j) - 1 = n
        BY <1>1, <2>2, <3>2
      <4>4. q[n] = s[n]
        BY <4>3, <1>2
      <4> QED
        BY <4>2, <4>3, <4>4, <2>2 DEF Before
    <3> QED
      BY <3>1, <3>2
  <2>3. ASSUME j # 1 PROVE Before(b, q, n + j) = Before(c, t, j)
    <3> HIDE DEF q, n, c, m
    <3>1. /\ (n + j) - 1 \in 1 .. n + m /\ ~((n + j) - 1 <= n)
          /\ ((n + j) - 1) - n = j - 1 /\ n + j # 1
      BY <1>1, <2>3
    <3>2. q[(n + j) - 1] = t[j - 1]
      BY <3>1, <1>2
    <3> QED
      BY <3>1, <3>2, <2>3 DEF Before
  <2> QED
    BY <2>1, <2>2, <2>3
<1>6. Ends(b, q) = S \cup U
  <2>1. ASSUME NEW i \in 1 .. n
        PROVE  i \in Ends(b, q) <=> i \in S
    <3>1. i \in 1 .. n + m
      BY <1>1
    <3> QED
      BY <3>1, <1>2, <1>4 DEF Ends
  <2>2. ASSUME NEW j \in 1 .. m
        PROVE  n + j \in Ends(b, q) <=> j \in T
    <3>1. n + j \in 1 .. n + m
      BY <1>1
    <3> QED
      BY <3>1, <1>2, <1>5 DEF Ends
  <2>3. ASSUME NEW i \in Ends(b, q)
        PROVE  i \in S \cup U
    <3>1. i \in 1 .. n + m
      BY <1>2 DEF Ends
    <3>2. CASE i \in 1 .. n
      BY <3>2, <2>1
    <3>3. CASE i \notin 1 .. n
      <4>1. i - n \in 1 .. m /\ n + (i - n) = i
        BY <3>1, <3>3, <1>1
      <4>2. i - n \in T
        BY <4>1, <2>2
      <4> QED
        BY <4>1, <4>2
    <3> QED
      BY <3>2, <3>3
  <2>4. S \subseteq Ends(b, q)
    BY <2>1, <1>3
  <2>5. U \subseteq Ends(b, q)
    BY <2>2, <1>3
  <2> QED
    BY <2>3, <2>4, <2>5
<1>7. IsFiniteSet(S) /\ IsFiniteSet(T) /\ Cardinality(S) \in Nat /\ Cardinality(T) \in Nat
  BY <1>1, CompletedIs
<1>8. IsFiniteSet(U) /\ Cardinality(U) = Cardinality(T)
  <2> DEFINE f == [j \in T |-> n + j]
  <2>1. f \in [T -> U]
    OBVIOUS
  <2>2. \A x, y \in T : f[x] = f[y] => x = y
    <3> HIDE DEF T, n, m
    <3>1. \A x, y \in 1 .. m : n + x = n + y => x = y
      BY <1>1
    <3> QED
      BY <3>1, <1>3
  <2>3. \A u \in U : \E x \in T : f[x] = u
    OBVIOUS
  <2>4. f \in Bijection(T, U)
    BY <2>1, <2>2, <2>3 DEF Bijection, Injection, IsInjective, Surjection
  <2>5. ExistsBijection(T, U)
    BY <2>4 DEF ExistsBijection
  <2> QED
    BY <2>5, <1>7, FS_Bijection
<1>9. S \cap U = {}
  BY <1>1, <1>3
<1>10. Cardinality(S \cup U) = Cardinality(S) + Cardinality(T)
  <2>1. Cardinality(S \cup U) = Cardinality(S) + Cardinality(U) - Cardinality(S \cap U)
    BY <1>7, <1>8, FS_Union
  <2>2. Cardinality(S \cap U) = 0
    BY <1>9, FS_EmptySet
  <2> QED
    BY <2>1, <2>2, <1>7, <1>8
<1>11. /\ Completed(b, q) = Cardinality(Ends(b, q)) /\ Completed(b, s) = Cardinality(S)
       /\ Completed(c, t) = Cardinality(T)
  BY <1>1, <1>2, CompletedIs
<1> QED
  BY <1>6, <1>10, <1>11

\* The bytes the client wrote last and the frames still due are what the parser's
\* window and the ring hold.
StreamInv ==
  /\ window \in Byte
  /\ intact => /\ due = Completed(window, Contents)
               /\ written = LastOf(window, Contents)

LEMMA StreamInitHolds == StreamInit => StreamInv
<1> SUFFICES ASSUME StreamInit PROVE StreamInv
  OBVIOUS
<1>1. RingInv /\ window = Zero /\ written = Zero /\ due = 0
  BY RingInit DEF StreamInit
<1>2. Held(head, tail) = 0
  <2>1. 0 \in Index
    BY Sizes DEF Index
  <2>2. Held(0, 0) = 0 - 0
    BY <2>1, HeldIs
  <2> QED
    BY <2>2 DEF StreamInit, Init
<1>3. Contents = <<>>
  BY <1>1, <1>2, ContentsAre, EmptySeq
<1>4. Zero \in Byte
  BY FrameAssumption
<1>5. Completed(Zero, <<>>) = 0
  <2>1. <<>> \in Seq(Byte) /\ Len(<<>>) = 0
    OBVIOUS
  <2>2. Ends(Zero, <<>>) = {}
    BY <2>1 DEF Ends
  <2> QED
    BY <2>1, <2>2, <1>4, CompletedIs, FS_EmptySet
<1> QED
  BY <1>1, <1>3, <1>4, <1>5 DEF StreamInv, LastOf

\* A step of the stream is a step of the ring.
LEMMA StreamStepIsRing == StreamNext => Next
BY DEF StreamNext, Written, Read, Next, Producer, Consumer

LEMMA StreamStep ==
  ASSUME RingInv, StreamInv, StreamNext
  PROVE  StreamInv'
<1> USE DEF producer, consumer, stream
<1>t. Facts
  BY FactsHold
<1>c. Contents \in Seq(Byte) /\ Len(Contents) = Held(head, tail)
  BY ContentsAre
<1>w. window \in Byte
  BY DEF StreamInv
<1>1. CASE Written
  <2>1. Publish /\ window' = window
    BY <1>1 DEF Written
  <2>2. CASE ~(intact /\ pn = Len(offered))
    BY <1>1, <2>1, <2>2, <1>w DEF Written, StreamInv
  <2>3. CASE intact /\ pn = Len(offered)
    <3>1. /\ due' = due + Completed(written, offered)
          /\ written' = LastOf(written, offered) /\ intact' = intact
      BY <1>1, <2>3 DEF Written
    <3>2. SubSeq(offered, 1, pn) = offered
      BY <2>3, <1>t, SubSeqFull DEF Facts
    <3>3. Contents' = Contents \o offered
      BY <2>1, <3>2, PublishPuts
    <3>4. due = Completed(window, Contents) /\ written = LastOf(window, Contents)
      BY <2>3 DEF StreamInv
    <3>5. offered \in Seq(Byte)
      BY <1>t DEF Facts
    <3>6. /\ Completed(window, Contents \o offered)
               = Completed(window, Contents) + Completed(LastOf(window, Contents), offered)
          /\ LastOf(window, Contents \o offered) = LastOf(LastOf(window, Contents), offered)
      BY <3>5, <1>c, <1>w, CompletedConcat, LastOfConcat
    <3>7. due' = Completed(window, Contents)' /\ written' = LastOf(window, Contents)'
      BY <3>1, <3>3, <3>4, <3>6, <2>1 DEF Completed, LastOf
    <3> QED
      BY <3>7, <2>1, <1>w DEF StreamInv
  <2> QED
    BY <2>2, <2>3
<1>2. CASE Read
  <2>1. /\ Release /\ window' = LastOf(window, out) /\ written' = written /\ intact' = intact
        /\ due' = IF intact THEN due - Completed(window, out) ELSE 0
    BY <1>2 DEF Read, Feed
  <2>o. out \in Seq(Byte)
    BY <1>t DEF Facts
  <2>2. window' \in Byte
    BY <2>1, <2>o, <1>w, <1>c, LastOfConcat
  <2> DEFINE rest == SubSeq(Contents, cn + 1, Len(Contents))
  <2>3. Contents' = rest /\ out = SubSeq(Contents, 1, cn)
    BY <2>1, ReleaseHands
  <2>4. rest \in Seq(Byte) /\ Contents = out \o rest
    <3>1. cn \in 0 .. Len(Contents)
      BY <1>t, <1>c DEF Facts, RingInv, PopInv
    <3>2. Contents = SubSeq(Contents, 1, cn) \o rest
      BY <3>1, <1>c, SplitAt
    <3>3. rest \in Seq(Byte)
      BY <3>1, <1>c, SplitAt
    <3> QED
      BY <3>2, <3>3, <2>3
  <2>5. CASE intact
    <3>1. due = Completed(window, Contents) /\ written = LastOf(window, Contents)
      BY <2>5 DEF StreamInv
    <3> HIDE DEF rest
    <3>2. /\ Completed(window, Contents)
               = Completed(window, out) + Completed(LastOf(window, out), rest)
          /\ LastOf(window, Contents) = LastOf(LastOf(window, out), rest)
      BY <2>4, <2>o, <1>w, CompletedConcat, LastOfConcat
    <3>3. Completed(window, out) \in Nat /\ Completed(LastOf(window, out), rest) \in Nat
      BY <2>1, <2>2, <2>4, <2>o, <1>w, CompletedIs
    <3>4. due' = Completed(LastOf(window, out), rest)
      BY <2>1, <2>5, <3>1, <3>2, <3>3
    <3>5. due' = Completed(window, Contents)' /\ written' = LastOf(window, Contents)'
      BY <2>1, <2>3, <3>1, <3>2, <3>4 DEF Completed, LastOf
    <3> QED
      BY <3>5, <2>2 DEF StreamInv
  <2>6. CASE ~intact
    BY <2>1, <2>2, <2>6 DEF StreamInv
  <2> QED
    BY <2>5, <2>6
<1>3. CASE (BeginPush \/ CopyIn \/ CountDropped \/ CountPushed \/ BeginPop \/ CopyOut)
           /\ UNCHANGED stream
  <2>1. Contents' = Contents
    <3>1. CASE CopyIn
      BY <3>1, CopyInHides
    <3>2. CASE BeginPush \/ CountDropped \/ CountPushed \/ BeginPop \/ CopyOut
      <4>1. buf' = buf /\ head' = head /\ tail' = tail
        BY <3>2 DEF BeginPush, CountDropped, CountPushed, BeginPop, CopyOut
      <4> QED
        BY <4>1 DEF Contents, Held, Minus, Slot, Plus
    <3> QED
      BY <1>3, <3>1, <3>2
  <2>2. /\ window' = window /\ intact' = intact /\ written' = written /\ due' = due
    BY <1>3
  <2> QED
    BY <2>1, <2>2 DEF StreamInv, Completed, LastOf
<1> QED
  BY <1>1, <1>2, <1>3 DEF StreamNext

\* What is proved of the ring is true of the ring the parser stands behind.
THEOREM StreamIsRing == StreamSpec => Spec
<1>1. StreamInit => Init
  BY DEF StreamInit
<1>2. [StreamNext]_<<vars, stream>> => [Next]_vars
  BY StreamStepIsRing
<1> QED
  BY <1>1, <1>2, PTL DEF StreamSpec, Spec

\* As long as the ring had room, each frame the client wrote is acted on exactly
\* once, for every size of the ring and however the writes and reads cut it up.
THEOREM CommandsCorrect == StreamSpec => []CommandsExact
<1>1. StreamInit => StreamInv
  BY StreamInitHolds
<1>2. RingInv /\ StreamInv /\ [StreamNext]_<<vars, stream>> => StreamInv'
  <2> SUFFICES ASSUME RingInv, StreamInv, [StreamNext]_<<vars, stream>>
               PROVE  StreamInv'
    OBVIOUS
  <2>1. CASE StreamNext
    BY <2>1, StreamStep
  <2>2. CASE UNCHANGED <<vars, stream>>
    <3>1. Contents' = Contents
      BY <2>2 DEF vars, Contents, Held, Minus, Slot, Plus
    <3> QED
      BY <2>2, <3>1 DEF stream, StreamInv, Completed, LastOf
  <2> QED
    BY <2>1, <2>2
<1>3. StreamInv => CommandsExact
  BY DEF StreamInv, CommandsExact
<1> QED
  BY <1>1, <1>2, <1>3, StreamIsRing, InvCorrect, PTL DEF StreamSpec

\* The queue and the counters behind the parser.
THEOREM StreamCorrect == StreamSpec => IsAQueue /\ []CountsAddUp
BY StreamIsRing, QueueCorrect, CountsCorrect, PTL
=============================================================================
