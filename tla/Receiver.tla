------------------------------- MODULE Receiver -------------------------------
(***************************************************************************)
(* The u-blox receiver on the other end of the UART, as far as the driver  *)
(* (peripherals/gnss/Gnss.cpp) and the tools rely on it.  It runs on its   *)
(* RAM layer, built at startup from defaults, then flash, then BBR.  Of a  *)
(* value only whether it is the one the firmware wants counts.  Any        *)
(* exchange may be lost on the wire: the request, or only its reply.       *)
(***************************************************************************)
EXTENDS Integers, FiniteSets

CONSTANTS
  Setting,      \* the keys configure() holds right in RAM
  Pvt,          \* the NAV-PVT output key, right when the output is on
  Default,      \* what each key is built from when nothing is stored
  Rate,         \* the UART rates both the driver's and the tools' sweeps try
  Target,       \* config::kGnssBaud
  FactoryRate,  \* the rate of a receiver that has none stored
  MaxLost       \* bound: how many exchanges the wire loses

Key == Setting \cup {Pvt}

ASSUME ReceiverAssumption ==
  /\ Pvt \notin Setting /\ IsFiniteSet(Setting)
  /\ Default \in [Key -> {"right", "wrong"}]
  /\ Target \in Rate /\ FactoryRate \in Rate
  /\ MaxLost \in Nat

VARIABLES
  ram, bbr, flash,  \* the layers
  rate,             \* the rate it runs at
  savedRate,        \* the rate it starts at
  otp,              \* the one-time programmable frames it holds
  clock,            \* the CPU clock in its RAM layer
  lost,             \* how many exchanges were lost
  lostBefore,       \* history: lost, when the board's program last started
  restarted         \* history: it restarted since the board's program did

layers == <<ram, bbr, flash>>
port == <<rate, savedRate>>
burned == <<otp, clock>>
receiver == <<layers, port, burned, lost, lostBefore, restarted>>

Value == {"right", "wrong"}
Stored == Value \cup {"none"}
Frames == {1, 2}

ReceiverTypeOK ==
  /\ ram \in [Key -> Value] /\ bbr \in [Key -> Stored] /\ flash \in [Key -> Stored]
  /\ rate \in Rate /\ savedRate \in Rate
  /\ otp \subseteq Frames /\ clock \in {"stock", "high"}
  /\ lost \in 0 .. MaxLost /\ lostBefore \in 0 .. lost
  /\ restarted \in BOOLEAN

\* "defaults, then flash, then BBR".
Built(b, f) ==
  [k \in Key |-> IF b[k] # "none" THEN b[k] ELSE IF f[k] # "none" THEN f[k] ELSE Default[k]]

\* A burn shows in RAM from some later start on; nothing burned never does.
Clocks == IF otp = {} THEN {"stock"} ELSE {"stock", "high"}

ReceiverInit ==
  /\ bbr \in [Key -> Stored] /\ flash \in [Key -> Stored]
  /\ ram = Built(bbr, flash)
  /\ savedRate \in Rate /\ rate = savedRate
  /\ otp = {} /\ clock = "stock"
  /\ lost = 0 /\ lostBefore = 0 /\ restarted = FALSE

\* An exchange at the rate r gets through, or n in a row are lost; at another
\* rate than the receiver's, nothing gets through anyway.
Heard(r) == rate = r /\ UNCHANGED lost

Lose(n) == lost + n <= MaxLost /\ lost' = lost + n

Unheard(r, n) == IF rate = r THEN Lose(n) ELSE UNCHANGED lost

\* It starts, its backed-up RAM kept or not.
StartUp(b) ==
  /\ bbr' = b /\ ram' = Built(b, flash)
  /\ rate' = savedRate
  /\ clock' \in Clocks
  /\ restarted' = TRUE
  /\ UNCHANGED <<flash, savedRate, otp>>

Nothing == [k \in Key |-> "none"]

\* A glitch or the rail: at any moment.
Restart == (StartUp(bbr) \/ StartUp(Nothing)) /\ UNCHANGED <<lost, lostBefore>>

\* A factory reset: every stored value goes, and it starts from its defaults.
Wipe ==
  /\ bbr' = Nothing /\ flash' = Nothing /\ ram' = Built(Nothing, Nothing)
  /\ rate' = FactoryRate /\ savedRate' = FactoryRate
  /\ clock' \in Clocks
  /\ restarted' = TRUE
  /\ UNCHANGED otp

\* A write of RAM alone.
WriteRam(ks, v) ==
  /\ ram' = [k \in Key |-> IF k \in ks THEN v ELSE ram[k]]
  /\ UNCHANGED <<bbr, flash>>

\* A write of the wanted value to all layers: the flash may not take it.
WriteAll(k) ==
  /\ ram' = [ram EXCEPT ![k] = "right"] /\ bbr' = [bbr EXCEPT ![k] = "right"]
  /\ flash' \in {flash, [flash EXCEPT ![k] = "right"]}

\* The board's program starts.
ProgramStarts == lostBefore' = lost /\ restarted' = FALSE

LostSinceStart == lost - lostBefore
=============================================================================
