---------------------------- MODULE MCBleSession ----------------------------
(* Both transports, with clients that come back before the loop has looked. *)
EXTENDS BleSession
=============================================================================
