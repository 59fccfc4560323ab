------------------------------ MODULE MCByteRing ------------------------------
(* Two bytes tell any mix-up apart: the ring treats every byte alike. *)
EXTENDS CommandStream

MCFrame == <<1, 0>>
=============================================================================
