------------------------------- MODULE GnssBench -------------------------------
(***************************************************************************)
(* One receiver over its life on a board: the firmware boots, runs and is  *)
(* reset at any step, the tools are flashed in its place and run, cut and  *)
(* run again, the receiver itself restarts at any moment, with or without  *)
(* its backed-up RAM, and the wire loses requests and replies.             *)
(***************************************************************************)
EXTENDS GnssConfig, OtpTool

vars == <<receiver, driver, tool>>

TypeOK == ReceiverTypeOK /\ DriverTypeOK /\ ToolTypeOK

Init == ReceiverInit /\ DriverInit /\ ToolInit

\* One program at a time is on the board.
Next ==
  \/ tpc = "off" /\ Firmware /\ UNCHANGED tool
  \/ pc = "off" /\ Tools /\ UNCHANGED driver
  \/ Restart /\ UNCHANGED <<driver, tool>>

Spec == Init /\ [][Next]_vars
-----------------------------------------------------------------------------
(* Properties.                                                             *)

\* configured() is the truth about what the receiver runs on, whatever was left
\* in its layers, lost on the wire or cut short by a reset, now or at an earlier
\* boot: it says yes only of a receiver holding every wanted setting, and no
\* only of one that does not, or that let all attempts at one read go unanswered.
BootVerdict ==
  pc = "ready" /\ ~restarted =>
    IF configured
    THEN \A k \in Setting : ram[k] = "right"
    ELSE \/ \E k \in Setting : ram[k] = "wrong"
         \/ LostSinceStart >= ReadAttempts

\* A boot gives the receiver up for missing only if an exchange was lost or the
\* receiver restarted during that boot: whatever rate a reset between the switch
\* and its save, a lost save or a factory reset left it at, the sweep finds it.
MissingMeansLost == pc = "missing" => restarted \/ LostSinceStart > 0

\* After a boot that did not warn about the output key, a receiver that restarts
\* in mid-session streams again by itself, unless a stale 0 is in its BBR.
OutputResumes ==
  pc = "ready" /\ Pvt \notin warned /\ ~restarted /\ bbr[Pvt] # "wrong" =>
    Built(bbr, flash)[Pvt] = "right"

\* The burn tool's verdict: SUCCESS is only ever reported of a receiver holding
\* both frames, and FAILED of one that holds both only if an exchange was lost.
BurnVerdict ==
  /\ verdict = "success" => otp = Frames
  /\ verdict = "failed" /\ otp = Frames /\ tpc = "halt" => LostSinceStart > 0

Lands(f) == tpc = (IF f = 1 THEN "frame1" ELSE "frame2") /\ tpc' # "off" /\ lost' = lost

\* However often the tool is run, wherever a run is cut and however RAM lags
\* behind, a receiver that holds both frames is never written again, unless an
\* exchange was lost.
SpentOnce == [][\A f \in Frames : Lands(f) /\ otp = Frames => lost > 0]_vars
=============================================================================
