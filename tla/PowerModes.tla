----------------------------- MODULE PowerModes -----------------------------
(***************************************************************************)
(* What the owner of a device is promised: the run states of               *)
(* docs/architecture.md as they can be seen from outside, and the ways     *)
(* from one to another.  Running is entered from a boot and from nowhere   *)
(* else; charging is entered from a wait that did not follow charging,     *)
(* and only with USB; a wait is entered only because the switch was off.   *)
(***************************************************************************)
VARIABLES
  mode,       \* "off", "boot", "running", "fault", "wait" or "charge"
  onLeadsTo,  \* in a wait: "charge", or "run" if it followed charging
  usb,        \* USB is "In" or "Out"
  switchWas   \* "OnceOff": the switch has been off since this boot

Modes == {"off", "boot", "running", "fault", "wait", "charge"}

TypeOK == mode \in Modes /\ onLeadsTo \in {"charge", "run"}

Init == mode \in {"off", "boot"} /\ onLeadsTo = "charge"

\* Power-on, a wake, a restart, a watchdog: from anywhere, into a boot.
Boot == mode' = "boot" /\ onLeadsTo' = "charge"

\* Power lost or System OFF.
Off == mode' = "off" /\ onLeadsTo' = "charge"

BringUp ==
  /\ mode = "boot" /\ mode' \in {"running", "fault"}
  /\ UNCHANGED onLeadsTo

NoData ==
  /\ mode = "running" /\ mode' = "fault"
  /\ UNCHANGED onLeadsTo

\* The boot finds the switch off.
BootIntoWait ==
  /\ mode = "boot" /\ switchWas = "OnceOff" /\ mode' = "wait"
  /\ onLeadsTo' = "charge"

SwitchOff ==
  /\ mode \in {"running", "fault", "charge"} /\ usb = "In" /\ switchWas = "OnceOff"
  /\ mode' = "wait"
  /\ onLeadsTo' = IF mode = "charge" THEN "run" ELSE "charge"

SwitchOn ==
  /\ mode = "wait" /\ onLeadsTo = "charge" /\ usb = "In"
  /\ mode' = "charge"
  /\ UNCHANGED onLeadsTo

Next == Boot \/ Off \/ BringUp \/ NoData \/ BootIntoWait \/ SwitchOff \/ SwitchOn

Spec == Init /\ [][Next]_<<mode, onLeadsTo>>
=============================================================================
