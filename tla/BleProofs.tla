------------------------------- MODULE BleProofs -------------------------------
(***************************************************************************)
(* What BleSession promises, proved for any number of connections, any     *)
(* refusal time and any gap between two update() calls, on both            *)
(* transports.                                                             *)
(*                                                                         *)
(* The callbacks still to run are the reason an invariant is needed: what  *)
(* the transport's atomics say is about some earlier connection, and only  *)
(* the queue tells which.  A numbering of the queue gives each pending     *)
(* callback the connection it belongs to.                                  *)
(***************************************************************************)
EXTENDS BleSession, TLAPS

\* f[i] is the connection last published when callback i is about to run.
Numbers(f) ==
  /\ \A i \in 1 .. Len(events) + 1 : f[i] \in told .. conns
  /\ \A i, j \in 1 .. Len(events) + 1 : i <= j => f[i] <= f[j]
  /\ f[1] = told /\ f[Len(events) + 1] = conns
  /\ \A i \in 1 .. Len(events) :
       f[i + 1] = IF events[i] = "publish" THEN f[i] + 1 ELSE f[i]

\* The two stores of onConnect stay together, an MTU was exchanged by the
\* connection it is told of, and a connection that has left is not the client.
Pending(f) ==
  \A i \in 1 .. Len(events) :
    /\ events[i] = "connect" => i < Len(events) /\ events[i + 1] = "publish"
    /\ events[i] = "publish" /\ i > 1 => events[i - 1] = "connect"
    /\ events[i] = "mtu" => f[i] \in exchanged
    /\ events[i] = "disconnect" /\ f[i] = conns => client = 0

QueueInv == \E f : Numbers(f) /\ Pending(f)

\* What the atomics say is true of the connection last published.
CellsInv ==
  /\ linkUp => told >= 1
  /\ client # 0 /\ told = conns => linkUp
  /\ transport = "esp32" /\ peerMtu = "large" =>
       told \in exchanged /\ (events # <<>> => events[1] # "publish")

SendInv ==
  /\ pc \in {"mtu", "notify"} => seen >= 1 /\ seen <= told
  /\ pc = "notify" /\ seen = conns => conns \in exchanged

\* Who may advertise again, and when.
AirInv ==
  /\ pc = "down" => ~advertising /\ conns = 0 /\ events = <<>>
  /\ pc \in InLoop => restartOnDisconnect
  /\ pc \in {"drop", "stop"} => ~restartOnDisconnect
  /\ transport = "esp32" /\ pc = "drop" => ~advertising
  /\ pc = "ended" => /\ ~advertising
                     /\ ~restartOnDisconnect \/ (client = 0 /\ events = <<>>)
  /\ pc \in InLoop /\ client = 0 /\ ~advertising =>
       transport = "esp32" /\ \E i \in 1 .. Len(events) : events[i] = "disconnect"

\* The stack has been told to drop who was published before end().
Dropped == pc = "ended" \/ (transport = "nrf" /\ pc = "stop")

EndInv ==
  /\ knownAtEnd <= told
  /\ Dropped /\ client # 0 /\ ~dropping => client > knownAtEnd

IInv == TypeOK /\ QueueInv /\ CellsInv /\ SendInv /\ AirInv /\ EndInv
-----------------------------------------------------------------------------
\* Appending to the queue keeps what is in it, and its length is a number.
LEMMA Lengths ==
  ASSUME TypeOK
  PROVE  Len(events) \in Nat /\ told \in Nat /\ conns \in Nat
BY SessionAssumption DEF TypeOK

\* Connecting, exchanging an MTU and leaving each append callbacks of the
\* connection that is up, or of the new one.
LEMMA ConnectQueue == ASSUME TypeOK, QueueInv, Connect PROVE QueueInv'
<1>1. PICK f : Numbers(f) /\ Pending(f)
  BY DEF QueueInv
<1>2. PICK n \in Nat : n = Len(events)
  BY Lengths
<1>3. told \in Nat /\ conns \in Nat
  BY Lengths
<1>4. told' = told /\ conns' = conns + 1 /\ client' = conns + 1 /\ exchanged' = exchanged
  BY DEF Connect, cells
<1>5. /\ Len(events') = n + 2
      /\ \A i \in 1 .. n : events'[i] = events[i]
      /\ events'[n + 1] = "connect" /\ events'[n + 2] = "publish"
  BY <1>2 DEF Connect, TypeOK
<1>6. /\ \A i \in 1 .. n + 1 : f[i] \in told .. conns
      /\ \A i, j \in 1 .. n + 1 : i <= j => f[i] <= f[j]
      /\ f[1] = told /\ f[n + 1] = conns
      /\ \A i \in 1 .. n : f[i + 1] = IF events[i] = "publish" THEN f[i] + 1 ELSE f[i]
  BY <1>1, <1>2 DEF Numbers
<1>7. PICK g : g = [i \in 1 .. n + 3 |->
                      IF i <= n + 1 THEN f[i] ELSE IF i = n + 2 THEN conns ELSE conns + 1]
  OBVIOUS
<1>8. /\ \A i \in 1 .. n + 1 : g[i] = f[i]
      /\ g[n + 2] = conns /\ g[n + 3] = conns + 1
  BY <1>2, <1>7
<1>9. told <= conns
  BY <1>2, <1>3, <1>6
<1>10. Numbers(g)'
  <2>1. \A i \in 1 .. n + 3 : g[i] \in told .. conns + 1
    <3>1. \A i \in 1 .. n + 3 : i \in 1 .. n + 1 \/ i = n + 2 \/ i = n + 3
      BY <1>2
    <3> QED
      BY <1>3, <1>6, <1>8, <1>9, <3>1
  <2>2. \A i \in 1 .. n + 2 : g[i + 1] = IF events'[i] = "publish" THEN g[i] + 1 ELSE g[i]
    <3>1. \A i \in 1 .. n + 2 : i \in 1 .. n \/ i = n + 1 \/ i = n + 2
      BY <1>2
    <3>2. \A i \in 1 .. n : g[i + 1] = f[i + 1] /\ g[i] = f[i] /\ events'[i] = events[i]
      BY <1>2, <1>5, <1>8
    <3>3. g[n + 1] = conns
      BY <1>2, <1>6, <1>8
    <3> QED
      BY <1>2, <1>5, <1>6, <1>8, <3>1, <3>2, <3>3
  <2>3. g[1] = told
    BY <1>2, <1>6, <1>8
  <2>4. \A i, j \in 1 .. n + 3 : i <= j => g[i] <= g[j]
    <3>1. \A i \in 1 .. n + 3 : i \in 1 .. n + 1 \/ i = n + 2 \/ i = n + 3
      BY <1>2
    <3> QED
      BY <1>2, <1>3, <1>6, <1>8, <3>1
  <2> QED
    BY <1>2, <1>4, <1>5, <1>8, <2>1, <2>2, <2>3, <2>4 DEF Numbers
<1>11. Pending(g)'
  <2> SUFFICES ASSUME NEW i \in 1 .. n + 2
               PROVE  /\ events'[i] = "connect" => i < n + 2 /\ events'[i + 1] = "publish"
                      /\ events'[i] = "publish" /\ i > 1 => events'[i - 1] = "connect"
                      /\ events'[i] = "mtu" => g[i] \in exchanged'
                      /\ events'[i] = "disconnect" /\ g[i] = conns' => client' = 0
    BY <1>5 DEF Pending
  <2>1. CASE i \in 1 .. n
    <3>1. /\ events[i] = "connect" => i < n /\ events[i + 1] = "publish"
          /\ events[i] = "publish" /\ i > 1 => events[i - 1] = "connect"
          /\ events[i] = "mtu" => f[i] \in exchanged
      BY <1>1, <1>2, <2>1 DEF Pending
    <3>2. events'[i] = events[i] /\ g[i] = f[i] /\ f[i] <= conns
      BY <1>2, <1>3, <1>5, <1>6, <1>8, <2>1
    <3>3. i < n => events'[i + 1] = events[i + 1]
      BY <1>2, <1>5, <2>1
    <3>4. i > 1 => events'[i - 1] = events[i - 1]
      BY <1>2, <1>5, <2>1
    <3>5. i < n + 2 /\ g[i] # conns'
      BY <1>2, <1>3, <1>4, <1>6, <2>1, <3>2
    <3> QED
      BY <1>4, <3>1, <3>2, <3>3, <3>4, <3>5
  <2>2. CASE i \in {n + 1, n + 2}
    BY <1>2, <1>5, <2>2
  <2> QED
    BY <1>2, <2>1, <2>2
<1> QED
  BY <1>10, <1>11 DEF QueueInv

\* One callback more, of the connection that is up, to be run after all others.
LEMMA AppendQueue ==
  ASSUME TypeOK, QueueInv, NEW e \in {"mtu", "disconnect"}, events' = Append(events, e),
         UNCHANGED <<told, conns>>, exchanged \subseteq exchanged', client' \in {0, client},
         e = "mtu" => conns \in exchanged', e = "disconnect" => client' = 0
  PROVE  QueueInv'
<1>1. PICK f : Numbers(f) /\ Pending(f)
  BY DEF QueueInv
<1>2. PICK n \in Nat : n = Len(events)
  BY Lengths
<1>3. /\ Len(events') = n + 1
      /\ \A i \in 1 .. n : events'[i] = events[i]
      /\ events'[n + 1] = e
  BY <1>2 DEF TypeOK
<1>4. /\ \A i \in 1 .. n + 1 : f[i] \in told .. conns
      /\ \A i, j \in 1 .. n + 1 : i <= j => f[i] <= f[j]
      /\ f[1] = told /\ f[n + 1] = conns
      /\ \A i \in 1 .. n : f[i + 1] = IF events[i] = "publish" THEN f[i] + 1 ELSE f[i]
  BY <1>1, <1>2 DEF Numbers
<1>5. PICK g : g = [i \in 1 .. n + 2 |-> IF i <= n + 1 THEN f[i] ELSE conns]
  OBVIOUS
<1>6. /\ \A i \in 1 .. n + 1 : g[i] = f[i]
      /\ g[n + 2] = conns
  BY <1>2, <1>5
<1>7. Numbers(g)'
  <2>1. \A i \in 1 .. n + 2 : g[i] \in told .. conns
    <3>1. \A i \in 1 .. n + 2 : i \in 1 .. n + 1 \/ i = n + 2
      BY <1>2
    <3>2. g[n + 2] = f[n + 1] /\ f[n + 1] \in told .. conns
      BY <1>2, <1>4, <1>6
    <3> QED
      BY <1>4, <1>6, <3>1, <3>2
  <2>2. \A i \in 1 .. n + 1 : g[i + 1] = IF events'[i] = "publish" THEN g[i] + 1 ELSE g[i]
    <3>1. \A i \in 1 .. n + 1 : i \in 1 .. n \/ i = n + 1
      BY <1>2
    <3>2. \A i \in 1 .. n : g[i + 1] = f[i + 1] /\ g[i] = f[i] /\ events'[i] = events[i]
      BY <1>2, <1>3, <1>6
    <3>3. g[n + 1] = conns
      BY <1>2, <1>4, <1>6
    <3> QED
      BY <1>2, <1>3, <1>4, <1>6, <3>1, <3>2, <3>3
  <2>3. g[1] = told
    BY <1>2, <1>4, <1>6
  <2>4. \A i, j \in 1 .. n + 2 : i <= j => g[i] <= g[j]
    <3>1. \A i \in 1 .. n + 2 : i \in 1 .. n + 1 \/ i = n + 2
      BY <1>2
    <3>2. told \in Nat /\ conns \in Nat
      BY Lengths
    <3> QED
      BY <1>2, <1>4, <1>6, <3>1, <3>2
  <2> QED
    BY <1>2, <1>3, <1>6, <2>1, <2>2, <2>3, <2>4 DEF Numbers
<1>8. Pending(g)'
  <2> SUFFICES ASSUME NEW i \in 1 .. n + 1
               PROVE  /\ events'[i] = "connect" => i < n + 1 /\ events'[i + 1] = "publish"
                      /\ events'[i] = "publish" /\ i > 1 => events'[i - 1] = "connect"
                      /\ events'[i] = "mtu" => g[i] \in exchanged'
                      /\ events'[i] = "disconnect" /\ g[i] = conns' => client' = 0
    BY <1>3 DEF Pending
  <2>1. CASE i \in 1 .. n
    <3>1. /\ events[i] = "connect" => i < n /\ events[i + 1] = "publish"
          /\ events[i] = "publish" /\ i > 1 => events[i - 1] = "connect"
          /\ events[i] = "mtu" => f[i] \in exchanged
          /\ events[i] = "disconnect" /\ f[i] = conns => client = 0
      BY <1>1, <1>2, <2>1 DEF Pending
    <3>2. events'[i] = events[i] /\ g[i] = f[i] /\ i < n + 1
      BY <1>2, <1>3, <1>6, <2>1
    <3>3. i < n => events'[i + 1] = events[i + 1]
      BY <1>2, <1>3, <2>1
    <3>4. i > 1 => events'[i - 1] = events[i - 1]
      BY <1>2, <1>3, <2>1
    <3> QED
      BY <3>1, <3>2, <3>3, <3>4
  <2>2. CASE i = n + 1
    <3>1. g[i] = conns
      BY <1>2, <1>4, <1>6, <2>2
    <3> QED
      BY <1>3, <2>2, <3>1
  <2> QED
    BY <1>2, <2>1, <2>2
<1> QED
  BY <1>7, <1>8 DEF QueueInv

\* What running the first callback leaves of the queue.
LEMMA CallbackQueue ==
  ASSUME TypeOK, QueueInv, Callback
  PROVE  /\ QueueInv'
         /\ events[1] = "publish" => told < conns
         /\ events[1] = "mtu" => told \in exchanged
         /\ events[1] = "disconnect" /\ told = conns => client = 0
         /\ events[1] # "connect" /\ events' # <<>> => events'[1] # "publish"
<1>1. PICK f : Numbers(f) /\ Pending(f)
  BY DEF QueueInv
<1>2. PICK n \in Nat : n = Len(events)
  BY Lengths
<1>3. /\ n > 0 /\ Len(events') = n - 1
      /\ \A i \in 1 .. n - 1 : events'[i] = events[i + 1]
      /\ UNCHANGED <<conns, client, exchanged>>
  BY <1>2 DEF Callback, TypeOK
<1>4. told' = IF events[1] = "publish" THEN told + 1 ELSE told
  BY DEF Callback, OnConnect, OnMtuChanged, OnDisconnect, Publish, TypeOK
<1>5. /\ \A i \in 1 .. n + 1 : f[i] \in told .. conns
      /\ \A i, j \in 1 .. n + 1 : i <= j => f[i] <= f[j]
      /\ f[1] = told /\ f[n + 1] = conns
      /\ \A i \in 1 .. n : f[i + 1] = IF events[i] = "publish" THEN f[i] + 1 ELSE f[i]
  BY <1>1, <1>2 DEF Numbers
<1>6. told \in Nat /\ conns \in Nat
  BY Lengths
<1>7. f[2] = told' /\ f[2] <= conns
  BY <1>2, <1>3, <1>4, <1>5, <1>6
<1>8. /\ events[1] = "connect" => 1 < n /\ events[2] = "publish"
      /\ events[1] = "mtu" => told \in exchanged
      /\ events[1] = "disconnect" /\ told = conns => client = 0
      /\ n > 1 /\ events[2] = "publish" => events[1] = "connect"
  BY <1>1, <1>2, <1>3, <1>5 DEF Pending
<1>9. PICK g : g = [i \in 1 .. n |-> f[i + 1]]
  OBVIOUS
<1>10. \A i \in 1 .. n : /\ g[i] = f[i + 1] /\ i + 1 \in 1 .. n + 1
                         /\ i + 1 <= n => i + 1 \in 1 .. n
  BY <1>2, <1>9
<1>11. Numbers(g)'
  <2>1. \A i \in 1 .. n : g[i] \in told' .. conns
    <3>1. \A i \in 1 .. n : f[2] <= f[i + 1]
      BY <1>2, <1>3, <1>5, <1>10
    <3> QED
      BY <1>4, <1>5, <1>6, <1>7, <1>10, <3>1
  <2>2. \A i, j \in 1 .. n : i <= j => g[i] <= g[j]
    BY <1>2, <1>5, <1>10
  <2>3. \A i \in 1 .. n - 1 :
          g[i + 1] = IF events'[i] = "publish" THEN g[i] + 1 ELSE g[i]
    <3> SUFFICES ASSUME NEW i \in 1 .. n - 1
                 PROVE  g[i + 1] = IF events'[i] = "publish" THEN g[i] + 1 ELSE g[i]
      OBVIOUS
    <3>1. i \in 1 .. n /\ i + 1 \in 1 .. n
      BY <1>2
    <3>2. g[i] = f[i + 1] /\ g[i + 1] = f[i + 2]
      BY <1>2, <1>10, <3>1
    <3>3. f[i + 2] = IF events[i + 1] = "publish" THEN f[i + 1] + 1 ELSE f[i + 1]
      BY <1>2, <1>5, <3>1
    <3> QED
      BY <1>3, <3>2, <3>3
  <2>4. g[1] = told' /\ g[n] = conns
    BY <1>2, <1>3, <1>5, <1>7, <1>10
  <2> QED
    BY <1>2, <1>3, <2>1, <2>2, <2>3, <2>4 DEF Numbers
<1>12. Pending(g)'
  <2> SUFFICES ASSUME NEW i \in 1 .. n - 1
               PROVE  /\ events'[i] = "connect" => i < n - 1 /\ events'[i + 1] = "publish"
                      /\ events'[i] = "publish" /\ i > 1 => events'[i - 1] = "connect"
                      /\ events'[i] = "mtu" => g[i] \in exchanged
                      /\ events'[i] = "disconnect" /\ g[i] = conns => client = 0
    BY <1>2, <1>3 DEF Pending
  <2>1. i + 1 \in 1 .. n
    BY <1>2
  <2>2. /\ events[i + 1] = "connect" => i + 1 < n /\ events[i + 2] = "publish"
        /\ events[i + 1] = "publish" /\ i + 1 > 1 => events[i] = "connect"
        /\ events[i + 1] = "mtu" => f[i + 1] \in exchanged
        /\ events[i + 1] = "disconnect" /\ f[i + 1] = conns => client = 0
    BY <1>1, <1>2, <2>1 DEF Pending
  <2>3. events'[i] = events[i + 1] /\ g[i] = f[i + 1]
    BY <1>2, <1>3, <1>10
  <2>4. i < n - 1 => events'[i + 1] = events[i + 2]
    BY <1>2, <1>3
  <2>5. i > 1 => events'[i - 1] = events[i]
    BY <1>2, <1>3
  <2> QED
    BY <1>2, <2>2, <2>3, <2>4, <2>5
<1>13. events[1] = "publish" => told < conns
  BY <1>4, <1>6, <1>7
<1>14. events[1] # "connect" /\ events' # <<>> => events'[1] # "publish"
  <2>1. events' # <<>> => n > 1 /\ events'[1] = events[2]
    BY <1>2, <1>3 DEF Callback, TypeOK
  <2> QED
    BY <1>8, <2>1
<1> QED
  BY <1>8, <1>11, <1>12, <1>13, <1>14 DEF QueueInv
-----------------------------------------------------------------------------
LEMMA QueueStep == TypeOK /\ QueueInv /\ [Next]_vars => QueueInv'
<1> SUFFICES ASSUME TypeOK, QueueInv, [Next]_vars PROVE QueueInv'
  OBVIOUS
<1>1. CASE Connect
  BY <1>1, ConnectQueue
<1>2. CASE Exchange
  <2>1. client = conns
    BY <1>2 DEF Exchange, TypeOK
  <2>2. CASE transport = "esp32"
    BY <1>2, <2>1, <2>2, AppendQueue DEF Exchange, cells
  <2>3. CASE transport # "esp32"
    <3>1. /\ UNCHANGED <<events, told, conns, client>>
          /\ exchanged \subseteq exchanged'
      BY <1>2, <2>3 DEF Exchange, cells
    <3> QED
      BY <3>1 DEF QueueInv, Numbers, Pending
  <2> QED
    BY <2>2, <2>3
<1>3. CASE Disconnect
  BY <1>3, AppendQueue DEF Disconnect, cells
<1>4. CASE Callback
  BY <1>4, CallbackQueue
<1>5. CASE Loop \/ UNCHANGED vars
  <2>1. UNCHANGED <<events, told, conns, client, exchanged>>
    BY <1>5 DEF Loop, Begin, Send, Admit, Notify, Update, Tick, End, EndFlag, EndDrop, EndStop,
                vars, air, cells
  <2> QED
    BY <2>1 DEF QueueInv, Numbers, Pending
<1> QED
  BY <1>1, <1>2, <1>3, <1>4, <1>5 DEF Next, Stack

\* Connections are published in order, and never more than there were.
LEMMA ToldBound == ASSUME TypeOK, QueueInv PROVE told <= conns
<1>1. PICK f : Numbers(f)
  BY DEF QueueInv
<1> QED
  BY <1>1, Lengths DEF Numbers

LEMMA TypeStep == TypeOK /\ QueueInv /\ [Next]_vars => TypeOK'
<1> SUFFICES ASSUME TypeOK, QueueInv, [Next]_vars PROVE TypeOK'
  OBVIOUS
<1>1. CASE Connect
  <2>1. conns' \in 0 .. MaxConns /\ client' = conns'
    BY <1>1, SessionAssumption DEF TypeOK, Connect
  <2>2. events' \in Seq({"connect", "publish", "mtu", "disconnect"})
    BY <1>1 DEF TypeOK, Connect
  <2>3. advertising' \in BOOLEAN
    BY <1>1 DEF Connect
  <2>4. upFor' \in 0 .. RefusalLog
    BY <1>1, SessionAssumption DEF Connect
  <2> QED
    BY <1>1, <2>1, <2>2, <2>3, <2>4 DEF TypeOK, Connect, cells, link
<1>2. CASE Exchange
  <2>1. exchanged' \subseteq Conns
    BY <1>2, SessionAssumption DEF TypeOK, Exchange, Conns
  <2>2. events' \in Seq({"connect", "publish", "mtu", "disconnect"})
    BY <1>2 DEF TypeOK, Exchange
  <2> QED
    BY <1>2, <2>1, <2>2 DEF TypeOK, Exchange, cells, link
<1>3. CASE Disconnect
  <2>1. advertising' \in BOOLEAN
    BY <1>3 DEF Disconnect
  <2>2. events' \in Seq({"connect", "publish", "mtu", "disconnect"})
    BY <1>3 DEF TypeOK, Disconnect
  <2> QED
    BY <1>3, <2>1, <2>2 DEF TypeOK, Disconnect, cells, link
<1>4. CASE Callback
  <2>1. events # <<>> /\ Head(events) = events[1]
    BY <1>4 DEF Callback
  <2>2. \/ /\ events[1] = "publish" /\ linkUp' = TRUE /\ told' = told + 1
           /\ peerMtu' = peerMtu
        \/ /\ told' = told /\ linkUp' \in {linkUp, FALSE}
           /\ peerMtu' \in {peerMtu, "small", "large"}
    BY <1>4, <2>1 DEF Callback, OnConnect, OnMtuChanged, OnDisconnect, Publish
  <2>3. events[1] = "publish" => told < conns
    BY <1>4, CallbackQueue
  <2>4. told' \in 0 .. MaxConns
    <3>1. told \in 0 .. MaxConns /\ conns \in 0 .. MaxConns /\ MaxConns \in Nat
      BY SessionAssumption DEF TypeOK
    <3>2. told' = told \/ (told' = told + 1 /\ told < conns)
      BY <2>2, <2>3
    <3> QED
      BY <3>1, <3>2
  <2>5. linkUp' \in BOOLEAN /\ peerMtu' \in {"small", "large"}
    BY <2>2 DEF TypeOK
  <2>6. advertising' \in BOOLEAN
    BY <1>4 DEF TypeOK, Callback
  <2>7. events' \in Seq({"connect", "publish", "mtu", "disconnect"})
    BY <1>4 DEF TypeOK, Callback
  <2> QED
    BY <1>4, <2>4, <2>5, <2>6, <2>7 DEF TypeOK, Callback, link
<1> USE SessionAssumption DEF TypeOK, Conns, air, cells, link
<1>5. CASE Begin
  BY <1>5 DEF Begin, Pcs, InLoop, RestartFromBegin
<1>6. CASE Send
  BY <1>6 DEF Send, Pcs, InLoop
<1>7. CASE Admit
  <2>1. refusing' \in BOOLEAN /\ refusalLogged' \in BOOLEAN /\ UNCHANGED wasUp
    BY <1>7, Zenon DEF Admit
  <2>2. refusedFor' \in 0 .. RefusalLog /\ loggedAt' \in 0 .. RefusalLog
    BY <1>7 DEF Admit
  <2>3. pc' \in Pcs
    BY <1>7 DEF Admit, Pcs, InLoop
  <2> QED
    BY <1>7, <2>1, <2>2, <2>3 DEF Admit
<1>8. CASE Notify
  BY <1>8 DEF Notify, Pcs, InLoop
<1>9. CASE Update
  BY <1>9 DEF Update
<1>10. CASE Tick
  BY <1>10 DEF Tick, Older
<1>11. CASE End \/ EndFlag
  BY <1>11 DEF End, EndFlag, Pcs, InLoop, RestartFromEnd
<1>12. CASE EndDrop \/ EndStop
  BY <1>12 DEF EndDrop, EndStop, Pcs, InLoop, Connected
<1>13. CASE UNCHANGED vars
  BY <1>13 DEF vars
<1> QED
  BY <1>1, <1>2, <1>3, <1>4, <1>5, <1>6, <1>7, <1>8, <1>9, <1>10, <1>11, <1>12, <1>13
     DEF Next, Stack, Loop

\* The loop's steps leave the atomics and the queue alone.
LEMMA LoopQuiet ==
  ASSUME Loop \/ UNCHANGED vars
  PROVE  UNCHANGED <<transport, conns, client, exchanged, events, cells>>
BY DEF Loop, Begin, Send, Admit, Notify, Update, Tick, End, EndFlag, EndDrop, EndStop, vars, air

LEMMA CellsStep == TypeOK /\ QueueInv /\ CellsInv /\ [Next]_vars => CellsInv'
<1> SUFFICES ASSUME TypeOK, QueueInv, CellsInv, [Next]_vars PROVE CellsInv'
  OBVIOUS
<1>0. told \in Nat /\ conns \in Nat /\ told <= conns /\ Len(events) \in Nat
  BY Lengths, ToldBound
<1>1. CASE Connect
  <2>1. events # <<>> => events'[1] = events[1]
    BY <1>1 DEF Connect, TypeOK
  <2>2. events = <<>> => events'[1] = "connect"
    BY <1>1 DEF Connect
  <2> QED
    BY <1>0, <1>1, <2>1, <2>2 DEF CellsInv, Connect, cells
<1>2. CASE Exchange
  <2>1. events' # events => /\ events # <<>> => events'[1] = events[1]
                            /\ events = <<>> => events'[1] = "mtu"
    BY <1>2 DEF Exchange, TypeOK
  <2> QED
    BY <1>2, <2>1 DEF CellsInv, Exchange, cells
<1>3. CASE Disconnect
  <2>1. /\ events # <<>> => events'[1] = events[1]
        /\ events = <<>> => events'[1] = "disconnect"
    BY <1>3 DEF Disconnect, TypeOK
  <2> QED
    BY <1>3, <2>1 DEF CellsInv, Disconnect, cells
<1>4. CASE Callback
  <2>1. /\ events[1] = "publish" => told < conns
        /\ events[1] = "mtu" => told \in exchanged
        /\ events[1] = "disconnect" /\ told = conns => client = 0
        /\ events[1] # "connect" /\ events' # <<>> => events'[1] # "publish"
    BY <1>4, CallbackQueue
  <2>2. UNCHANGED <<transport, conns, client, exchanged>>
    BY <1>4 DEF Callback
  <2>3. CASE events[1] = "connect"
    BY <1>0, <1>4, <2>2, <2>3
       DEF CellsInv, Callback, OnConnect, OnMtuChanged, OnDisconnect, Publish
  <2>4. CASE events[1] = "publish"
    BY <1>0, <1>4, <2>2, <2>4
       DEF CellsInv, Callback, OnConnect, OnMtuChanged, OnDisconnect, Publish
  <2>5. CASE events[1] = "mtu"
    BY <1>0, <1>4, <2>1, <2>2, <2>5
       DEF CellsInv, Callback, OnConnect, OnMtuChanged, OnDisconnect, Publish
  <2>6. CASE events[1] = "disconnect"
    BY <1>0, <1>4, <2>1, <2>2, <2>6
       DEF CellsInv, Callback, OnConnect, OnMtuChanged, OnDisconnect, Publish
  <2> QED
    BY <1>4, <2>3, <2>4, <2>5, <2>6 DEF Callback, OnConnect, OnMtuChanged, OnDisconnect
<1>5. CASE Loop \/ UNCHANGED vars
  BY <1>5, LoopQuiet DEF CellsInv, cells
<1> QED
  BY <1>1, <1>2, <1>3, <1>4, <1>5 DEF Next, Stack

\* A frame is handed over to the connection whose MTU was asked, or to one that
\* came later.
LEMMA SendStep ==
  TypeOK /\ QueueInv /\ CellsInv /\ SendInv /\ [Next]_vars => SendInv'
<1> SUFFICES ASSUME TypeOK, QueueInv, CellsInv, SendInv, [Next]_vars PROVE SendInv'
  OBVIOUS
<1>0. told \in Nat /\ conns \in Nat /\ told <= conns /\ seen \in Nat
  BY Lengths, ToldBound DEF TypeOK
<1>1. CASE Connect \/ Exchange \/ Disconnect
  BY <1>0, <1>1 DEF SendInv, Connect, Exchange, Disconnect, cells
<1>2. CASE Callback
  <2>1. told' \in {told, told + 1} /\ UNCHANGED <<pc, seen, conns, exchanged>>
    BY <1>2 DEF Callback, OnConnect, OnMtuChanged, OnDisconnect, Publish
  <2> QED
    BY <1>0, <2>1 DEF SendInv
<1>3. CASE Send
  BY <1>0, <1>3 DEF SendInv, CellsInv, Send, air, cells
<1>4. CASE Admit
  <2>1. CASE pc' # "notify"
    BY <1>4, <2>1 DEF SendInv, Admit
  <2>2. CASE pc' = "notify"
    <3>1. MtuFits /\ (transport = "esp32" \/ client # 0)
      BY <1>4, <2>2 DEF Admit
    <3>2. UNCHANGED <<seen, told, conns, exchanged>> /\ seen >= 1 /\ seen <= told
      BY <1>4 DEF Admit, SendInv, air, cells
    <3>3. CASE transport = "nrf"
      BY <3>1, <3>2, <3>3 DEF MtuFits, SendInv, TypeOK
    <3>4. CASE transport = "esp32"
      BY <1>0, <3>1, <3>2, <3>4 DEF MtuFits, SendInv, CellsInv
    <3> QED
      BY <3>3, <3>4, SessionAssumption DEF TypeOK
  <2> QED
    BY <2>1, <2>2
<1>5. CASE \/ Begin \/ Notify \/ Update \/ Tick \/ End \/ EndFlag \/ EndDrop \/ EndStop
           \/ UNCHANGED vars
  BY <1>5 DEF SendInv, Begin, Notify, Update, Tick, End, EndFlag, EndDrop, EndStop, vars, air, cells
<1> QED
  BY <1>1, <1>2, <1>3, <1>4, <1>5 DEF Next, Stack, Loop

\* The client's callback is in the queue until it is run.
LEMMA DisconnectQueued ==
  ASSUME TypeOK, Disconnect
  PROVE  \E i \in 1 .. Len(events') : events'[i] = "disconnect"
<1>1. Len(events) \in Nat
  BY Lengths
<1>2. Len(events') = Len(events) + 1 /\ events'[Len(events) + 1] = "disconnect"
  BY DEF TypeOK, Disconnect
<1> QED
  BY <1>1, <1>2

\* Whoever turns advertising on, or off, knows whether the loop still runs.
LEMMA AirStep == TypeOK /\ AirInv /\ [Next]_vars => AirInv'
<1> SUFFICES ASSUME TypeOK, AirInv, [Next]_vars PROVE AirInv'
  OBVIOUS
<1>0. conns \in Nat /\ Len(events) \in Nat
  BY Lengths
<1>1. CASE Connect
  <2>1. client' # 0 /\ pc' = pc /\ restartOnDisconnect' = restartOnDisconnect
    BY <1>0, <1>1 DEF Connect
  <2>2. pc # "down" /\ pc # "ended" /\ ~(transport = "esp32" /\ pc = "drop")
    BY <1>1 DEF Connect, AirInv
  <2> QED
    BY <1>1, <2>1, <2>2 DEF AirInv, Connect
<1>2. CASE Exchange
  <2>1. client # 0 /\ UNCHANGED <<client, conns, advertising, pc, restartOnDisconnect, transport>>
    BY <1>2 DEF Exchange
  <2>2. pc # "down"
    BY <2>1 DEF AirInv, TypeOK
  <2> QED
    BY <2>1, <2>2 DEF AirInv
<1>3. CASE Disconnect
  <2>1. client # 0 /\ client' = 0 /\ UNCHANGED <<conns, pc, restartOnDisconnect, transport>>
    BY <1>3 DEF Disconnect
  <2>2. pc # "down"
    BY <2>1 DEF AirInv, TypeOK
  <2>3. advertising' = (transport = "nrf" /\ restartOnDisconnect)
    BY <1>3 DEF Disconnect
  <2>4. \E i \in 1 .. Len(events') : events'[i] = "disconnect"
    BY <1>3, DisconnectQueued
  <2>5. transport \in {"nrf", "esp32"}
    BY SessionAssumption DEF TypeOK
  <2> QED
    BY <2>1, <2>2, <2>3, <2>4, <2>5 DEF AirInv
<1>4. CASE Callback
  <2>1. /\ UNCHANGED <<conns, client, pc, restartOnDisconnect, transport>>
        /\ events # <<>> /\ events[1] = Head(events)
    BY <1>4 DEF Callback
  <2>2. pc # "down"
    BY <2>1 DEF AirInv
  <2>3. CASE events[1] = "disconnect" /\ transport = "esp32"
    <3>1. advertising' = restartOnDisconnect
      BY <1>4, <2>1, <2>3 DEF Callback
    <3> QED
      BY <2>1, <2>2, <2>3, <3>1 DEF AirInv
  <2>4. CASE ~(events[1] = "disconnect" /\ transport = "esp32")
    <3>1. advertising' = advertising
      BY <1>4, <2>1, <2>4 DEF Callback
    <3>2. ASSUME NEW i \in 1 .. Len(events), events[i] = "disconnect", transport = "esp32"
          PROVE  \E j \in 1 .. Len(events') : events'[j] = "disconnect"
      <4>1. Len(events') = Len(events) - 1 /\ \A j \in 1 .. Len(events) - 1 : events'[j] = events[j + 1]
        BY <1>0, <1>4 DEF Callback, TypeOK
      <4>2. i - 1 \in 1 .. Len(events')
        BY <1>0, <2>4, <3>2, <4>1
      <4>3. i - 1 \in 1 .. Len(events) - 1 /\ (i - 1) + 1 = i
        BY <1>0, <4>1, <4>2
      <4>4. events'[i - 1] = "disconnect"
        BY <3>2, <4>1, <4>3
      <4> QED
        BY <4>2, <4>4
    <3>3. pc = "ended" => ~restartOnDisconnect
      BY <2>1 DEF AirInv
    <3> QED
      BY <2>1, <2>2, <3>1, <3>2, <3>3 DEF AirInv
  <2> QED
    BY <2>3, <2>4
<1>5. CASE Begin
  BY <1>5 DEF AirInv, Begin, InLoop, RestartFromBegin, cells, TypeOK
<1>6. CASE Send \/ Admit \/ Notify \/ Update \/ Tick \/ End
  <2>1. UNCHANGED <<transport, air, events, restartOnDisconnect>>
    BY <1>6 DEF Send, Admit, Notify, Update, Tick, End
  <2>2. pc \in InLoop /\ (pc' \in InLoop \/ pc' = "flag")
    BY <1>6 DEF Send, Admit, Notify, Update, Tick, End, InLoop
  <2> QED
    BY <2>1, <2>2 DEF AirInv, InLoop, air
<1>7. CASE EndFlag
  BY <1>7 DEF AirInv, EndFlag, RestartFromEnd, InLoop, air, cells, link
<1>8. CASE EndDrop
  <2>1. transport \in {"nrf", "esp32"}
    BY SessionAssumption DEF TypeOK
  <2> QED
    BY <1>8, <2>1 DEF AirInv, EndDrop, InLoop, air
<1>9. CASE EndStop
  BY <1>9 DEF AirInv, EndStop, InLoop
<1>10. CASE UNCHANGED vars
  BY <1>10 DEF AirInv, vars, air
<1> QED
  BY <1>1, <1>2, <1>3, <1>4, <1>5, <1>6, <1>7, <1>8, <1>9, <1>10 DEF Next, Stack, Loop

\* Who was published before end() began has been told to leave when it is over.
LEMMA EndStep ==
  TypeOK /\ QueueInv /\ CellsInv /\ AirInv /\ EndInv /\ [Next]_vars => EndInv'
<1> SUFFICES ASSUME TypeOK, QueueInv, CellsInv, AirInv, EndInv, [Next]_vars PROVE EndInv'
  OBVIOUS
<1>0. /\ told \in Nat /\ conns \in Nat /\ told <= conns /\ knownAtEnd \in Nat
      /\ client \in {0, conns} /\ transport \in {"nrf", "esp32"}
  BY Lengths, ToldBound, SessionAssumption DEF TypeOK
<1>1. CASE Connect
  BY <1>0, <1>1 DEF EndInv, Dropped, Connect, cells
<1>2. CASE Exchange
  BY <1>2 DEF EndInv, Dropped, Exchange, cells
<1>3. CASE Disconnect
  BY <1>3 DEF EndInv, Dropped, Disconnect, cells
<1>4. CASE Callback
  <2>1. told' \in {told, told + 1}
    BY <1>4 DEF Callback, OnConnect, OnMtuChanged, OnDisconnect, Publish
  <2>2. UNCHANGED <<transport, client, pc, dropping, knownAtEnd>>
    BY <1>4 DEF Callback
  <2> QED
    BY <1>0, <2>1, <2>2 DEF EndInv, Dropped
<1>5. CASE Begin
  BY <1>0, <1>5 DEF EndInv, AirInv, Dropped, Begin, cells
<1>6. CASE Send \/ Admit \/ Notify \/ Update \/ Tick \/ End
  BY <1>6 DEF EndInv, Dropped, Send, Admit, Notify, Update, Tick, End, air, cells
<1>7. CASE EndFlag
  BY <1>0, <1>7 DEF EndInv, Dropped, EndFlag, cells
<1>8. CASE EndDrop
  <2>1. UNCHANGED <<transport, conns, client, told, knownAtEnd>> /\ dropping' = Connected
    BY <1>8 DEF EndDrop, air, cells
  <2>2. client # 0 /\ ~Connected => client > knownAtEnd
    BY <1>0 DEF Connected, CellsInv, EndInv
  <2> QED
    BY <2>1, <2>2 DEF EndInv
<1>9. CASE EndStop
  BY <1>0, <1>9 DEF EndInv, Dropped, EndStop, cells
<1>10. CASE UNCHANGED vars
  BY <1>10 DEF EndInv, Dropped, vars, air, cells
<1> QED
  BY <1>1, <1>2, <1>3, <1>4, <1>5, <1>6, <1>7, <1>8, <1>9, <1>10 DEF Next, Stack, Loop
-----------------------------------------------------------------------------
LEMMA Initial == Init => IInv
<1> SUFFICES ASSUME Init PROVE IInv
  OBVIOUS
<1>1. TypeOK
  <2>1. {advertising, restartOnDisconnect, linkUp, started, wasUp, refusing, refusalLogged,
         dropping} \subseteq BOOLEAN
    BY DEF Init
  <2>2. events \in Seq({"connect", "publish", "mtu", "disconnect"})
    BY DEF Init
  <2> QED
    BY <2>1, <2>2, SessionAssumption DEF Init, TypeOK, Pcs
<1>2. QueueInv
  <2>1. PICK f : f = [i \in {1} |-> 0]
    OBVIOUS
  <2>2. Numbers(f) /\ Pending(f)
    BY <2>1 DEF Init, Numbers, Pending
  <2> QED
    BY <2>2 DEF QueueInv
<1> QED
  BY <1>1, <1>2 DEF Init, IInv, CellsInv, SendInv, AirInv, EndInv, Dropped, InLoop

\* The invariant of a transport: its types, what the pending callbacks are about,
\* what the atomics say, whose MTU was asked, who may advertise and who must leave.
THEOREM SessionCorrect == Spec => []IInv
<1>1. IInv /\ [Next]_vars => IInv'
  BY TypeStep, QueueStep, CellsStep, SendStep, AirStep, EndStep DEF IInv
<1> QED
  BY <1>1, Initial, PTL DEF Spec

\* The types, which hold because connections are published in order and at most once.
THEOREM TypeCorrect == Spec => []TypeOK
<1>1. IInv => TypeOK
  BY DEF IInv
<1> QED
  BY <1>1, SessionCorrect, PTL

\* send() never hands a frame to a peer whose MTU it took from another link: the
\* store order of onConnect suffices, whatever the callbacks do meanwhile.
THEOREM FramesFit == Spec => []SamePeerFits
<1>1. IInv => SamePeerFits
  <2> SUFFICES ASSUME IInv, pc = "notify", client = seen PROVE client \in exchanged
    BY DEF SamePeerFits
  <2>1. client \in {0, conns} /\ seen >= 1
    BY DEF IInv, TypeOK, SendInv
  <2>2. seen = conns
    BY <2>1
  <2> QED
    BY <2>1, <2>2 DEF IInv, SendInv
<1> QED
  BY <1>1, SessionCorrect, PTL

\* A transport that has ended stays silent.
THEOREM Silence == Spec => []SilentOnceEnded
<1>1. IInv => SilentOnceEnded
  BY DEF IInv, AirInv, SilentOnceEnded
<1> QED
  BY <1>1, SessionCorrect, PTL

\* Every client published before end() began is told to leave.
THEOREM AllToldToLeave == Spec => []ReportedLeave
<1>1. IInv => ReportedLeave
  BY DEF IInv, EndInv, Dropped, ReportedLeave
<1> QED
  BY <1>1, SessionCorrect, PTL

\* A running transport with nobody connected can be found.
THEOREM Found == Spec => []NeverStranded
<1>1. IInv => NeverStranded
  <2> SUFFICES ASSUME IInv, pc \in InLoop, client = 0, events = <<>> PROVE advertising
    BY DEF NeverStranded
  <2>1. ~ \E i \in 1 .. Len(events) : events[i] = "disconnect"
    OBVIOUS
  <2> QED
    BY <2>1 DEF IInv, AirInv
<1> QED
  BY <1>1, SessionCorrect, PTL
=============================================================================
