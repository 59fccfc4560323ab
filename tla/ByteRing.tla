------------------------------- MODULE ByteRing -------------------------------
(***************************************************************************)
(* core/ByteRing.h: a BLE callback pushes (the producer) while the loop    *)
(* pops (the consumer), possibly on another core, with no lock.  A byte    *)
(* is copied at a time and each index is published by one store, so every  *)
(* interleaving of the two is here; the acquire and release orders of the  *)
(* code make the copies visible no later than the index.                   *)
(***************************************************************************)
EXTENDS Naturals, Sequences

CONSTANTS
  Byte,    \* the bytes a client may write
  N,       \* the ring's size
  W,       \* the range of the indices and counters: 2^32 in the code
  MaxLen   \* bound: the longest push, and the longest pop

ASSUME RingAssumption ==
  /\ N \in Nat \ {0} /\ W \in Nat /\ MaxLen \in Nat
  /\ W % N = 0 /\ W > N      \* N a power of two, and indices that tell full from empty

VARIABLES
  buf, head, tail, pushed, dropped,   \* the members of ByteRing
  offered,   \* producer: data[0 .. len - 1], <<>> when no push is under way
  pn,        \* producer: n, how many of them fit
  pi,        \* producer: how many are copied
  owed,      \* producer: the counters still to be added to
  max,       \* consumer: the most bytes this pop may take, 0 when none is under way
  cn,        \* consumer: n
  out,       \* consumer: the bytes copied so far
  got,       \* what the last pop returned
  total      \* history: how many bytes were offered, modulo W

producer == <<offered, pn, pi, owed>>
consumer == <<max, cn, out>>
vars == <<buf, head, tail, pushed, dropped, producer, consumer, got, total>>

Index == 0 .. W - 1

TypeOK ==
  /\ buf \in [0 .. N - 1 -> Byte]
  /\ head \in Index /\ tail \in Index /\ pushed \in Index /\ dropped \in Index
  /\ Len(offered) <= MaxLen /\ pn \in 0 .. N /\ pi \in 0 .. pn
  /\ owed \subseteq {"dropped", "pushed"}
  /\ max \in 0 .. MaxLen /\ cn \in 0 .. N /\ Len(out) <= cn /\ Len(got) <= N
  /\ total \in Index

Smaller(a, b) == IF a <= b THEN a ELSE b

\* uint32 arithmetic.
Plus(a, b) == (a + b) % W
Minus(a, b) == (W + a - b) % W

\* How many bytes lie between the two indices.
Held(h, t) == Minus(h, t)

\* The producer's room.
Room(h, t) == N - Held(h, t)

\* (index) & (N - 1)
Slot(i) == i % N

Init ==
  /\ \E zero \in Byte : buf = [i \in 0 .. N - 1 |-> zero]
  /\ head = 0 /\ tail = 0 /\ pushed = 0 /\ dropped = 0
  /\ offered = <<>> /\ pn = 0 /\ pi = 0 /\ owed = {}
  /\ max = 0 /\ cn = 0 /\ out = <<>> /\ got = <<>> /\ total = 0
-----------------------------------------------------------------------------
(* The producer.                                                           *)

Pushes == UNION {[1 .. n -> Byte] : n \in 1 .. MaxLen}

\* push(data, len): its own head, and tail with acquire.
BeginPush ==
  /\ offered = <<>> /\ owed = {}
  /\ \E data \in Pushes :
       /\ offered' = data
       /\ pn' = Smaller(Len(data), Room(head, tail))
       /\ total' = Plus(total, Len(data))
  /\ pi' = 0
  /\ UNCHANGED <<buf, head, tail, pushed, dropped, owed, consumer, got>>

CopyIn ==
  /\ offered # <<>> /\ pi < pn
  /\ buf' = [buf EXCEPT ![Slot(Plus(head, pi))] = offered[pi + 1]]
  /\ pi' = pi + 1
  /\ UNCHANGED <<head, tail, pushed, dropped, offered, pn, owed, consumer, got, total>>

AllCopiedButOne(i, n) == i >= n - 1

\* The copy loop's end.
AllCopied(i, n) == i >= n

\* head_ with release: the bytes are the consumer's now.
Publish ==
  /\ offered # <<>> /\ owed = {} /\ AllCopied(pi, pn)
  /\ head' = Plus(head, pn)
  /\ owed' = IF pn < Len(offered) THEN {"dropped", "pushed"} ELSE {"pushed"}
  /\ UNCHANGED <<buf, tail, pushed, dropped, offered, pn, pi, consumer, got, total>>

CountDropped ==
  /\ "dropped" \in owed
  /\ dropped' = Plus(dropped, Len(offered) - pn)
  /\ owed' = owed \ {"dropped"}
  /\ UNCHANGED <<buf, head, tail, pushed, offered, pn, pi, consumer, got, total>>

CountPushedOffered ==
  /\ owed = {"pushed"}
  /\ pushed' = Plus(pushed, Len(offered))
  /\ offered' = <<>> /\ pn' = 0 /\ pi' = 0 /\ owed' = {}
  /\ UNCHANGED <<buf, head, tail, dropped, consumer, got, total>>

CountPushed ==
  /\ owed = {"pushed"}
  /\ pushed' = Plus(pushed, pn)
  /\ offered' = <<>> /\ pn' = 0 /\ pi' = 0 /\ owed' = {}
  /\ UNCHANGED <<buf, head, tail, dropped, consumer, got, total>>
-----------------------------------------------------------------------------
(* The consumer.                                                           *)

\* pop(out, max): its own tail, and head with acquire.
BeginPop ==
  /\ max = 0
  /\ max' \in 1 .. MaxLen
  /\ cn' = Smaller(max', Held(head, tail))
  /\ out' = <<>>
  /\ UNCHANGED <<buf, head, tail, pushed, dropped, producer, got, total>>

CopyOut ==
  /\ max > 0 /\ Len(out) < cn
  /\ out' = Append(out, buf[Slot(Plus(tail, Len(out)))])
  /\ UNCHANGED <<buf, head, tail, pushed, dropped, producer, max, cn, got, total>>

\* tail_ with release: the slots are the producer's again.
Release ==
  /\ max > 0 /\ AllCopied(Len(out), cn)
  /\ tail' = Plus(tail, cn)
  /\ got' = (IF cn > 0 THEN out ELSE got)
  /\ max' = 0 /\ cn' = 0 /\ out' = <<>>
  /\ UNCHANGED <<buf, head, pushed, dropped, producer, total>>
-----------------------------------------------------------------------------
Producer == BeginPush \/ CopyIn \/ Publish \/ CountDropped \/ CountPushed

Consumer == BeginPop \/ CopyOut \/ Release

Next == Producer \/ Consumer

Spec == Init /\ [][Next]_vars
-----------------------------------------------------------------------------
(* Properties.                                                             *)

\* The bytes between the indices, oldest first.
Contents == [i \in 1 .. Held(head, tail) |-> buf[Slot(Plus(tail, i - 1))]]

\* A push that has published is over, but for its counters.
Publishing == offered # <<>> /\ owed = {}

Promised == INSTANCE ByteQueue WITH
  Size <- N,
  queue <- Contents,
  offered <- IF Publishing THEN offered ELSE <<>>,
  taking <- IF Publishing THEN pn ELSE 0,
  wanted <- cn

\* Whatever the two contexts interleave, and however often the indices wrap, the
\* ring is the bounded queue of ByteQueue: no torn, lost, repeated or reordered
\* byte, and nothing overwritten before it is read.
IsAQueue == Promised!Spec

\* Between two pushes the statistics the D report prints are exact, modulo their
\* width: every byte offered is counted once, as pushed or as dropped, and what
\* was pushed and not popped is what the ring holds.
CountsAddUp ==
  offered = <<>> =>
    /\ Plus(pushed, dropped) = total
    /\ pushed = head
=============================================================================
