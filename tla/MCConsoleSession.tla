-------------------------- MODULE MCConsoleSession --------------------------
(* One digit holds every count, so two overflow the entry. *)
EXTENDS ConsoleSession
=============================================================================
