------------------------------- MODULE MCMotion -------------------------------
(* Two stops; a window of a block's qualification and two blocks. *)
EXTENDS Motion
=============================================================================
