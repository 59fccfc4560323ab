----------------------------- MODULE MCScheduler -----------------------------
(* Two jobs that can overload the loop, the slower one first, over a counter  *)
(* that wraps just above the longest sleep.                                   *)
EXTENDS ClockedScheduler

MCPeriod == <<2, 1>>
=============================================================================
