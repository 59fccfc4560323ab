--------------------------- MODULE MCBatteryMonitor ---------------------------
(* Runs of two samples, every second or third pass, on a clock that wraps. *)
EXTENDS BatteryMonitor
=============================================================================
