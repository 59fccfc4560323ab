------------------------------ MODULE MCGnssBench ------------------------------
(* Two settings, one right by default and one the tools disturb, and one rate *)
(* beside the driver's own and the factory's.                                 *)
EXTENDS GnssBench

CONSTANTS dyn, meas, pvt

MCOrder == <<dyn, meas, pvt>>
MCDefault == [k \in Key |-> IF k = meas THEN "right" ELSE "wrong"]
=============================================================================
