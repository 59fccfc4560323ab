------------------------------ MODULE ByteQueue ------------------------------
(***************************************************************************)
(* What core/ByteRing.h promises the callback that pushes and the loop     *)
(* that pops: a bounded queue of bytes that takes the longest prefix of    *)
(* what it is offered that had room when the push began, and hands bytes   *)
(* over in order, once each, never one that is still being written.        *)
(***************************************************************************)
EXTENDS Sequences, Naturals

CONSTANTS
  Byte,    \* the bytes a client may write
  Size,    \* N, the ring's size
  MaxLen   \* bound: the longest push, and the longest pop

VARIABLES
  queue,    \* the bytes pushed and not popped
  offered,  \* the bytes of the push under way, if any
  taking,   \* how many of them had room when it began
  wanted,   \* how many bytes the pop under way will take
  got       \* the bytes the last pop returned

qvars == <<queue, offered, taking, wanted, got>>

Smaller(a, b) == IF a <= b THEN a ELSE b

Pushes == UNION {[1 .. n -> Byte] : n \in 1 .. MaxLen}

Init == queue = <<>> /\ offered = <<>> /\ taking = 0 /\ wanted = 0 /\ got = <<>>

Offer ==
  /\ offered = <<>>
  /\ offered' \in Pushes
  /\ taking' = Smaller(Len(offered'), Size - Len(queue))
  /\ UNCHANGED <<queue, wanted, got>>

Put ==
  /\ offered # <<>>
  /\ queue' = queue \o SubSeq(offered, 1, taking)
  /\ offered' = <<>> /\ taking' = 0
  /\ UNCHANGED <<wanted, got>>

Ask ==
  /\ wanted = 0
  /\ \E max \in 1 .. MaxLen : wanted' = Smaller(max, Len(queue))
  /\ UNCHANGED <<queue, offered, taking, got>>

Hand ==
  /\ wanted > 0
  /\ got' = SubSeq(queue, 1, wanted)
  /\ queue' = SubSeq(queue, wanted + 1, Len(queue))
  /\ wanted' = 0
  /\ UNCHANGED <<offered, taking>>

Next == Offer \/ Put \/ Ask \/ Hand

Spec == Init /\ [][Next]_qvars
=============================================================================
