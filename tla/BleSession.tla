------------------------------ MODULE BleSession ------------------------------
(***************************************************************************)
(* A BLE transport (BleNrf.cpp or BleEsp32.cpp, over BleLink.h) between    *)
(* the stack and the loop.  The stack's link changes at any time; its      *)
(* callbacks run later, in order, in the stack's own task; and between any *)
(* two looks the loop takes at the link, at the MTU and at the             *)
(* notification, anything may have moved.                                  *)
(*                                                                         *)
(* Connections are numbered: a client that comes back is a new one.  An    *)
(* MTU either carries a whole frame, once exchanged, or does not.  What a  *)
(* client writes goes to ByteRing; the send counters are left out.         *)
(***************************************************************************)
EXTENDS Naturals, Sequences

CONSTANTS
  Transports,   \* "nrf", "esp32": the transports to start from
  MaxConns,     \* bound: connections in a behaviour
  RefusalLog,   \* kRefusalLogUs, in ticks
  MaxGap        \* the longest time between two update() calls, in ticks

ASSUME SessionAssumption ==
  /\ Transports \subseteq {"nrf", "esp32"} /\ Transports # {}
  /\ MaxConns \in Nat \ {0}
  /\ RefusalLog \in Nat \ {0} /\ MaxGap \in Nat \ {0}
  /\ MaxGap <= RefusalLog      \* a pass of the loop is far shorter than a second

VARIABLES
  transport,
  conns, client, exchanged,              \* the link: connections so far, the one that is up,
                                         \* those that have the larger MTU
  advertising, restartOnDisconnect,      \* the stack's advertising
  events, told,                          \* callbacks still to run; the connection last published
  linkUp, peerMtu,                       \* the transport's atomics
  started, pc,                           \* the loop
  wasUp, refusing, refusedFor, refusalLogged,   \* BleLink
  seen,                                  \* history: the connection connected() found
  knownAtEnd, dropping,                  \* history: published before end(); told to leave
  upFor, sinceUpdate,                    \* history: since the last connect in the air; since
                                         \* the last update()
  loggedAt                               \* history: upFor when a refusal of it was last logged

air   == <<conns, client, exchanged, advertising>>
cells == <<linkUp, peerMtu, told>>
link  == <<wasUp, refusing, refusedFor, refusalLogged, loggedAt>>
vars  == <<transport, air, restartOnDisconnect, events, cells, started, pc, link, seen,
           knownAtEnd, dropping, upFor, sinceUpdate>>

Conns == 1 .. MaxConns
InLoop == {"idle", "mtu", "notify"}
Pcs == {"down", "ended", "flag", "drop", "stop"} \cup InLoop

TypeOK ==
  /\ transport \in Transports
  /\ conns \in 0 .. MaxConns /\ client \in {0, conns}
  /\ exchanged \subseteq Conns
  /\ {advertising, restartOnDisconnect, linkUp, started, wasUp, refusing, refusalLogged,
      dropping} \subseteq BOOLEAN
  /\ events \in Seq({"connect", "publish", "mtu", "disconnect"})
  /\ told \in 0 .. MaxConns /\ seen \in 0 .. MaxConns /\ knownAtEnd \in 0 .. MaxConns
  /\ peerMtu \in {"small", "large"}
  /\ pc \in Pcs
  /\ refusedFor \in 0 .. RefusalLog /\ upFor \in 0 .. RefusalLog /\ loggedAt \in 0 .. RefusalLog
  /\ sinceUpdate \in 0 .. MaxGap

Init ==
  /\ transport \in Transports
  /\ conns = 0 /\ client = 0 /\ exchanged = {}
  /\ advertising = FALSE /\ restartOnDisconnect \in BOOLEAN
  /\ events = <<>> /\ told = 0 /\ linkUp = FALSE /\ peerMtu = "small"
  /\ started = FALSE /\ pc = "down"
  /\ wasUp = FALSE /\ refusing = FALSE /\ refusedFor = 0 /\ refusalLogged = FALSE
  /\ seen = 0 /\ knownAtEnd = 0 /\ dropping = FALSE
  /\ upFor = 0 /\ sinceUpdate = 0 /\ loggedAt = RefusalLog
-----------------------------------------------------------------------------
(* The stack and its clients.                                              *)

Connect ==
  /\ advertising /\ conns < MaxConns
  /\ conns' = conns + 1 /\ client' = conns + 1
  /\ advertising' = FALSE
  /\ events' = events \o <<"connect", "publish">>
  /\ upFor' = 0
  /\ UNCHANGED <<transport, exchanged, restartOnDisconnect, cells, started, pc, link,
                 seen, knownAtEnd, dropping, sinceUpdate>>

Exchange ==
  /\ client # 0 /\ client \notin exchanged
  /\ exchanged' = exchanged \cup {client}
  /\ events' = (IF transport = "esp32" THEN Append(events, "mtu") ELSE events)
  /\ UNCHANGED <<transport, conns, client, advertising, restartOnDisconnect, cells,
                 started, pc, link, seen, knownAtEnd, dropping, upFor, sinceUpdate>>

\* Of its own accord, or because end() said so.  Bluefruit advertises again
\* before its callbacks run, Bluedroid's wrapper with its own (Disconnected).
Disconnect ==
  /\ client # 0
  /\ client' = 0 /\ dropping' = FALSE
  /\ events' = Append(events, "disconnect")
  /\ advertising' = (transport = "nrf" /\ restartOnDisconnect)
  /\ UNCHANGED <<transport, conns, exchanged, restartOnDisconnect, cells, started, pc,
                 link, seen, knownAtEnd, upFor, sinceUpdate>>
-----------------------------------------------------------------------------
(* The callbacks.  onConnect is two stores, and the loop runs in between.  *)

Publish == linkUp' = TRUE /\ told' = told + 1

OnConnectLinkFirst(store) ==
  \/ /\ store = "connect" /\ Publish /\ UNCHANGED peerMtu
  \/ /\ store = "publish" /\ peerMtu' = "small"
     /\ UNCHANGED <<linkUp, told>>

\* ESP32: the MTU's default first, then the link; nRF: only the link tells.
OnConnect(store) ==
  \/ /\ store = "connect" /\ peerMtu' = "small"
     /\ UNCHANGED <<linkUp, told>>
  \/ /\ store = "publish" /\ Publish /\ UNCHANGED peerMtu

OnMtuChanged(event) ==
  /\ event = "mtu"
  /\ peerMtu' = "large"
  /\ UNCHANGED <<linkUp, told>>

OnDisconnect(event) ==
  /\ event = "disconnect"
  /\ linkUp' = FALSE
  /\ UNCHANGED <<peerMtu, told>>

Callback ==
  /\ events # <<>>
  /\ events' = Tail(events)
  /\ OnConnect(Head(events)) \/ OnMtuChanged(Head(events)) \/ OnDisconnect(Head(events))
  /\ advertising' = (IF Head(events) = "disconnect" /\ transport = "esp32"
                     THEN restartOnDisconnect ELSE advertising)
  /\ UNCHANGED <<transport, conns, client, exchanged, restartOnDisconnect, started, pc,
                 link, seen, knownAtEnd, dropping, upFor, sinceUpdate>>
-----------------------------------------------------------------------------
(* The loop.                                                               *)

RestartAsItWas == restartOnDisconnect

\* begin() turns the stack's own re-advertising on, whatever its default.
RestartFromBegin == TRUE

\* begin(): a stack or an advertising that does not start leads to a Fault, and
\* so to end(), which does nothing for a transport not started.
Begin ==
  /\ pc = "down"
  /\ \/ /\ started' = TRUE /\ restartOnDisconnect' = RestartFromBegin
        /\ advertising' \in BOOLEAN
        /\ pc' = (IF advertising' THEN "idle" ELSE "flag")
     \/ pc' = "ended" /\ UNCHANGED <<started, restartOnDisconnect, advertising>>
  /\ UNCHANGED <<transport, conns, client, exchanged, events, cells, link, seen,
                 knownAtEnd, dropping, upFor, sinceUpdate>>

\* send(): connected().
Send ==
  /\ pc = "idle"
  /\ linkUp /\ pc' = "mtu" /\ seen' = told
  /\ UNCHANGED <<transport, air, restartOnDisconnect, events, cells, started, link, knownAtEnd,
                 dropping, upFor, sinceUpdate>>

\* The MTU send() asks for: the stack's own on the nRF, the callback's copy on
\* the ESP32.
MtuFits ==
  IF transport = "nrf" THEN client \in exchanged ELSE peerMtu = "large"

\* admit(): a frame that does not fit is refused, and logged if that lasts.
Admit ==
  /\ pc = "mtu"
  /\ \/ /\ transport = "nrf" /\ client = 0      \* no such connection any more
        /\ pc' = "idle" /\ UNCHANGED link
     \/ /\ transport = "esp32" \/ client # 0
        /\ MtuFits
        /\ pc' = "notify" /\ refusing' = FALSE
        /\ UNCHANGED <<wasUp, refusedFor, refusalLogged, loggedAt>>
     \/ /\ transport = "esp32" \/ client # 0
        /\ ~MtuFits
        /\ pc' = "idle" /\ refusing' = TRUE
        /\ refusedFor' = (IF refusing THEN refusedFor ELSE 0)
        /\ refusalLogged' = (refusalLogged \/ (refusing /\ refusedFor >= RefusalLog))
        /\ loggedAt' = (IF refusalLogged' /\ ~refusalLogged /\ client = seen THEN upFor
                        ELSE loggedAt)
        /\ UNCHANGED wasUp
  /\ UNCHANGED <<transport, air, restartOnDisconnect, events, cells, started, seen, knownAtEnd,
                 dropping, upFor, sinceUpdate>>

\* notify(): taken or not, for whoever is connected now.
Notify ==
  /\ pc = "notify" /\ pc' = "idle"
  /\ UNCHANGED <<transport, air, restartOnDisconnect, events, cells, started, link, seen,
                 knownAtEnd, dropping, upFor, sinceUpdate>>

\* update(): edges() re-arms the refusal log on each connect it sees.
Update ==
  /\ pc = "idle"
  /\ wasUp' = linkUp /\ sinceUpdate' = 0
  /\ LET up == linkUp /\ ~wasUp
     IN  /\ refusing' = (refusing /\ ~up)
         /\ refusalLogged' = (refusalLogged /\ ~up)
  /\ UNCHANGED <<transport, air, restartOnDisconnect, events, cells, started, pc, refusedFor,
                 loggedAt, seen, knownAtEnd, dropping, upFor>>

Older(age) == IF age < RefusalLog THEN age + 1 ELSE age

\* Time passes, but update() comes round.
Tick ==
  /\ pc = "idle" /\ sinceUpdate < MaxGap
  /\ sinceUpdate' = sinceUpdate + 1
  /\ upFor' = Older(upFor) /\ refusedFor' = Older(refusedFor)
  /\ UNCHANGED <<transport, air, restartOnDisconnect, events, cells, started, pc, wasUp, refusing,
                 refusalLogged, loggedAt, seen, knownAtEnd, dropping>>

\* App::stopPeripherals.
End ==
  /\ pc = "idle" /\ pc' = "flag"
  /\ UNCHANGED <<transport, air, restartOnDisconnect, events, cells, started, link, seen,
                 knownAtEnd, dropping, upFor, sinceUpdate>>

RestartStillOn == restartOnDisconnect

\* end() turns re-advertising off, first of all.
RestartFromEnd == FALSE

EndFlag ==
  /\ pc = "flag"
  /\ started' = FALSE /\ restartOnDisconnect' = RestartFromEnd
  /\ knownAtEnd' = told
  /\ pc' = (IF transport = "nrf" THEN "drop" ELSE "stop")
  /\ UNCHANGED <<transport, air, events, cells, link, seen, dropping, upFor, sinceUpdate>>

ConnectedForSend == linkUp /\ started

\* Who is connected as far as end() can see: the nRF asks the stack, the ESP32
\* a count its callbacks keep.
Connected == client # 0 /\ (transport = "nrf" \/ linkUp)

\* The stack is told to drop the client, and will.
EndDrop ==
  /\ pc = "drop"
  /\ dropping' = Connected
  /\ pc' = (IF transport = "nrf" THEN "stop" ELSE "ended")
  /\ UNCHANGED <<transport, air, restartOnDisconnect, events, cells, started, link, seen,
                 knownAtEnd, upFor, sinceUpdate>>

EndStop ==
  /\ pc = "stop"
  /\ advertising' = FALSE
  /\ pc' = (IF transport = "nrf" THEN "ended" ELSE "drop")
  /\ UNCHANGED <<transport, conns, client, exchanged, restartOnDisconnect, events,
                 cells, started, link, seen, knownAtEnd, dropping, upFor, sinceUpdate>>
-----------------------------------------------------------------------------
Stack == Connect \/ Exchange \/ Disconnect \/ Callback

Loop == Begin \/ Send \/ Admit \/ Notify \/ Update \/ Tick \/ End \/ EndFlag \/ EndDrop \/ EndStop

Next == Stack \/ Loop

Spec == Init /\ [][Next]_vars
-----------------------------------------------------------------------------
(* Properties.                                                             *)

\* A send() pairs a link with that link's own MTU: if the connection it found
\* up is still the one in the air when it hands the frame over, the frame fits,
\* whatever callbacks ran in between (ServerCallbacks::onConnect's store order).
SamePeerFits == pc = "notify" /\ client = seen => client \in exchanged

\* A transport that has ended never advertises again, though the client it drops
\* leaves only later, by an event the stack handles on its own.
SilentOnceEnded == pc = "ended" => ~advertising

\* end() tells every client to leave that was published before it began; one
\* that connects while it runs may stay, but is then alone.
ReportedLeave == pc = "ended" /\ client # 0 /\ ~dropping => client > knownAtEnd

\* A running transport with nobody connected can be found: a client that comes
\* and goes between two passes of the loop cannot strand it.
NeverStranded == pc \in InLoop /\ client = 0 /\ events = <<>> => advertising

\* What BleLink::admit's comment says: only a refusal that has lasted is logged.
\* So when the client that is logged as refused is the one in the air, it has been
\* there that long at least, however late its callbacks ran.
LogEarned == loggedAt >= RefusalLog
=============================================================================
