------------------------------ MODULE MCDevice ------------------------------
(* Device on small instances: see the cfg files. *)
EXTENDS Device
=============================================================================
