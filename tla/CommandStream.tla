---------------------------- MODULE CommandStream ----------------------------
(***************************************************************************)
(* core/DeviceCommand.h behind the receive ring: App::bleJob feeds what    *)
(* each pop returned to the parser, which looks for a command frame in the *)
(* last bytes it saw.  A frame is two bytes here, so the parser's window   *)
(* is the one byte before the one that completes it.                       *)
(***************************************************************************)
EXTENDS ByteRing, FiniteSets

CONSTANTS
  Zero,   \* last_'s initial bytes
  Frame   \* the bytes of a command frame

ASSUME FrameAssumption == Zero \in Byte /\ Frame \in [1 .. 2 -> Byte] /\ Frame[1] # Zero

VARIABLES
  window,   \* last_, of which only this byte is still of use
  intact,   \* history: nothing was dropped so far
  written,  \* history: the client's last byte
  due       \* history: frames the client wrote that were not acted on

stream == <<window, intact, written, due>>

\* How often feed() returns true over the bytes s, coming after the byte before.
Completed(before, s) ==
  LET all == <<before>> \o s
  IN  Cardinality({i \in 1 .. Len(s) : <<all[i], all[i + 1]>> = Frame})

LastOf(before, s) == IF s = <<>> THEN before ELSE s[Len(s)]

StreamInit == Init /\ window = Zero /\ intact = TRUE /\ written = Zero /\ due = 0

\* The client's write is complete in the ring, or not.
Written ==
  /\ Publish
  /\ IF intact /\ pn = Len(offered)
     THEN /\ due' = due + Completed(written, offered)
          /\ written' = LastOf(written, offered) /\ UNCHANGED intact
     ELSE intact' = FALSE /\ due' = 0 /\ written' = Zero
  /\ UNCHANGED window

FeedEachRead(s) == window' = Zero

\* The parser's window after the bytes of one read.
Feed(s) == window' = LastOf(window, s)

\* bleJob(): every byte of the pop goes to the parser, which acts on each frame
\* it completes (onCommand).
Read ==
  /\ Release
  /\ Feed(out)
  /\ due' = IF intact THEN due - Completed(window, out) ELSE 0
  /\ UNCHANGED <<intact, written>>

StreamNext ==
  \/ Written \/ Read
  \/ (BeginPush \/ CopyIn \/ CountDropped \/ CountPushed \/ BeginPop \/ CopyOut)
     /\ UNCHANGED stream

StreamSpec == StreamInit /\ [][StreamNext]_<<vars, stream>>
-----------------------------------------------------------------------------
\* As long as the ring had room, each frame the client wrote is acted on exactly
\* once, however its writes and the loop's reads cut it up: what is still due is
\* what the parser's window and the ring hold.
CommandsExact == intact => due = Completed(window, Contents)
=============================================================================
