---------------------------- MODULE ClientProofs ----------------------------
(***************************************************************************)
(* Theorems about a client, and about the React provider and the hooks     *)
(* around it: for any number of sockets, rooms, messages, requests and     *)
(* cuts of the connection, however often components come and go.           *)
(***************************************************************************)
EXTENDS Provider, SequenceTheorems, TLAPS

\* What the constants are assumed to be.
LEMMA Constants ==
    /\ MaxSends \in Nat /\ MaxConnects \in Nat /\ MaxFailures \in Nat
    /\ NoRoom \notin Room /\ NoSocket \notin Socket
  BY MaxSendsAssumption, MaxConnectsAssumption, MaxFailuresAssumption,
     NoRoomAssumption, NoSocketAssumption

\* The next socket is one that is closed.
LEMMA UnusedSocket ==
    ASSUME NEW url, ConnectTo(url)
    PROVE  connection' \in Socket /\ phase[connection'] = "closed"
  BY DEF ConnectTo, Unused

\* A message is sent on the socket in use, or queued.
LEMMA SendTypes ==
    ASSUME ClientTypeOK, NEW message \in Message, SendMessage(message)
    PROVE  outgoing' \in [Socket -> Seq(Message)] /\ queue' \in Seq(Message)
<1>1. /\ outgoing \in [Socket -> Seq(Message)]
      /\ queue \in Seq(Message)
      /\ connection \in Socket \cup {NoSocket}
  BY DEF ClientTypeOK
<1>2. CASE CanSend
  <2>1. connection \in Socket
    BY <1>1, <1>2 DEF CanSend
  <2>2. Append(outgoing[connection], message) \in Seq(Message)
    BY <1>1, <2>1
  <2>3. /\ outgoing' = [outgoing EXCEPT ![connection] = Append(outgoing[connection], message)]
        /\ queue' = queue
    BY <1>2 DEF SendMessage
  <2> QED BY <1>1, <2>1, <2>2, <2>3
<1>3. CASE ~CanSend
  <2>1. outgoing' = outgoing /\ queue' = Append(queue, message)
    BY <1>3 DEF SendMessage
  <2> QED BY <1>1, <2>1
<1> QED BY <1>2, <1>3

(***************************************************************************)
(* Types.                                                                  *)
(***************************************************************************)

\* A new connection is the only socket in use: connect closes the one before.
LEMMA ConnectToTypes ==
    ASSUME ClientTypeOK, NEW url \in Room, ConnectTo(url)
    PROVE  /\ phase' \in [Socket -> {"closed", "connecting", "open", "closing"}]
           /\ room' \in [Socket -> Room \cup {NoRoom}]
           /\ silent' \in [Socket -> BOOLEAN]
           /\ outgoing' \in [Socket -> Seq(Message)]
           /\ gets' \in [Socket -> SUBSET Key]
           /\ connection' \in Socket \cup {NoSocket}
           /\ \A socket \in Socket : Alive(socket)' => socket = connection'
<1>1. connection' \in Socket
  BY UnusedSocket
<1>2. /\ phase \in [Socket -> {"closed", "connecting", "open", "closing"}]
      /\ room \in [Socket -> Room \cup {NoRoom}]
  BY DEF ClientTypeOK
<1>3. UNCHANGED <<silent, outgoing, gets>>
  BY DEF ConnectTo
<1>4. room' = [room EXCEPT ![connection'] = url]
  BY DEF ConnectTo
<1>5. phase' = [socket \in Socket |->
                    CASE socket = connection'                      -> "connecting"
                      [] socket = connection /\ Alive(connection)  -> "closing"
                      [] OTHER                                     -> phase[socket]]
  BY DEF ConnectTo
<1>6. phase' \in [Socket -> {"closed", "connecting", "open", "closing"}]
  BY <1>2, <1>5
<1>7. ASSUME NEW socket \in Socket, Alive(socket)', socket # connection'
      PROVE  FALSE
  <2>1. phase'[socket] \in {"connecting", "open"}
    BY <1>7 DEF Alive
  <2>2. CASE socket = connection /\ Alive(connection)
    BY <1>5, <1>7, <2>1, <2>2
  <2>3. CASE ~(socket = connection /\ Alive(connection))
    <3>1. phase'[socket] = phase[socket]
      BY <1>5, <1>7, <2>3
    <3>2. Alive(socket)
      BY <2>1, <3>1 DEF Alive
    <3> QED BY <2>3, <3>2 DEF ClientTypeOK
  <2> QED BY <2>2, <2>3
<1>8. room' \in [Socket -> Room \cup {NoRoom}]
  BY <1>1, <1>2, <1>4
<1> QED BY <1>1, <1>3, <1>6, <1>7, <1>8 DEF ClientTypeOK

\* Every step of a client keeps its state well typed.
LEMMA ClientTypeStep ==
    ASSUME ClientTypeOK, [ClientNext]_clientVars
    PROVE  ClientTypeOK'
<1> USE Constants
<1>1. CASE UNCHANGED clientVars
  BY <1>1 DEF ClientTypeOK, Alive, clientVars, socketVars, dbVars, worldVars
<1>2. ASSUME NEW url \in Room, Connect(url)
      PROVE  ClientTypeOK'
  <2>1. ConnectTo(url)
    BY <1>2 DEF Connect
  <2>2. connects' \in 0 .. MaxConnects
    BY <1>2 DEF Connect, ClientTypeOK
  <2>3. wanted' \in Room \cup {NoRoom}
    BY <1>2 DEF Connect
  <2>4. UNCHANGED <<connected, queue, timer, strays, subscriptions, received, sends, failures>>
    BY <1>2 DEF Connect
  <2> QED BY <2>1, <2>2, <2>3, <2>4, ConnectToTypes DEF ClientTypeOK
<1>3. CASE Disconnect
  <2>1. phase' = [phase EXCEPT ![connection] = IF Alive(connection) THEN "closing" ELSE @]
    BY <1>3 DEF Disconnect
  <2>2. phase' \in [Socket -> {"closed", "connecting", "open", "closing"}]
    BY <2>1 DEF ClientTypeOK
  <2>3. ASSUME NEW socket \in Socket, Alive(socket)'
        PROVE  socket = connection
    BY <2>1, <2>3 DEF Alive, ClientTypeOK
  <2>4. silent' \in [Socket -> BOOLEAN]
    <3>1. silent' = [silent EXCEPT ![connection] = (phase'[connection] = "closing")]
      BY <1>3 DEF Disconnect
    <3>2. (phase'[connection] = "closing") \in BOOLEAN
      OBVIOUS
    <3> QED BY <3>1, <3>2 DEF ClientTypeOK
  <2>5. UNCHANGED <<room, outgoing, gets, connection, connected, queue, timer, strays,
                    received, sends, connects, failures>> /\ subscriptions' = {} /\ wanted' = NoRoom
    BY <1>3 DEF Disconnect
  <2> QED BY <2>2, <2>3, <2>4, <2>5 DEF ClientTypeOK
<1>4. CASE Send
  <2>1. PushMessage(sends + 1) \in Message /\ sends' \in 0 .. MaxSends
    BY <1>4 DEF Send, PushMessage, Message, ClientTypeOK
  <2>2. SendMessage(PushMessage(sends + 1))
    BY <1>4 DEF Send
  <2>3. UNCHANGED <<phase, room, silent, gets, connection, connected, timer, strays,
                    subscriptions, wanted, received, connects, failures>>
    BY <1>4 DEF Send
  <2> QED BY <2>1, <2>2, <2>3, SendTypes DEF ClientTypeOK, Alive
<1>5. ASSUME NEW key \in Key, Subscribe(key)
      PROVE  ClientTypeOK'
  <2>1. GetMessage(key) \in Message
    BY DEF GetMessage, Message
  <2>2. SendMessage(GetMessage(key)) /\ subscriptions' = subscriptions \cup {key}
    BY <1>5 DEF Subscribe
  <2>3. UNCHANGED <<phase, room, silent, gets, connection, connected, timer, strays,
                    wanted, received, sends, connects, failures>>
    BY <1>5 DEF Subscribe, worldVars
  <2> QED BY <2>1, <2>2, <2>3, SendTypes DEF ClientTypeOK, Alive
<1>6. CASE Reconnect
  <2>1. UNCHANGED <<connected, queue, subscriptions, wanted, received, sends, connects, failures>>
    BY <1>6 DEF Reconnect, worldVars
  <2>2. PICK url \in Room : ConnectTo(url)
    BY <1>6 DEF Reconnect, ClientTypeOK
  <2>3. timer' \in Room \cup {NoRoom}
    BY <1>6 DEF Reconnect, ClientTypeOK
  <2>4. strays' \in [Room -> Nat]
    <3>1. strays \in [Room -> Nat]
      BY DEF ClientTypeOK
    <3>2. CASE UNCHANGED strays
      BY <3>1, <3>2
    <3>3. ASSUME NEW other \in Room, strays[other] > 0,
                 strays' = [strays EXCEPT ![other] = strays[other] - 1]
          PROVE  strays' \in [Room -> Nat]
      <4>1. strays[other] - 1 \in Nat
        BY <3>1, <3>3
      <4> QED BY <3>1, <3>3, <4>1
    <3> QED BY <1>6, <3>2, <3>3 DEF Reconnect
  <2> QED BY <2>1, <2>2, <2>3, <2>4, ConnectToTypes DEF ClientTypeOK
<1>7. ASSUME NEW socket \in Socket, OnOpen(socket)
      PROVE  ClientTypeOK'
  <2>1. /\ phase[socket] = "connecting"
        /\ phase' = [phase EXCEPT ![socket] = "open"]
        /\ outgoing' = [outgoing EXCEPT ![socket] = queue]
        /\ queue' = <<>> /\ connected' = TRUE /\ timer' = NoRoom
        /\ UNCHANGED <<room, silent, gets, connection, strays, subscriptions,
                       wanted, received, sends, connects, failures>>
    BY <1>7 DEF OnOpen, worldVars
  <2>2. \A s \in Socket : Alive(s)' => s = connection
    BY <2>1 DEF Alive, ClientTypeOK
  <2> QED BY <2>1, <2>2 DEF ClientTypeOK
<1>8. ASSUME NEW socket \in Socket, OnClose(socket)
      PROVE  ClientTypeOK'
  <2>1. /\ phase' = [phase EXCEPT ![socket] = "closed"]
        /\ room' = [room EXCEPT ![socket] = NoRoom]
        /\ silent' = [silent EXCEPT ![socket] = FALSE]
        /\ outgoing' = [outgoing EXCEPT ![socket] = <<>>]
        /\ gets' = [gets EXCEPT ![socket] = {}]
    BY <1>8 DEF OnClose, Forget
  <2>2. UNCHANGED <<connection, queue, subscriptions, wanted, received, sends, connects>>
    BY <1>8 DEF OnClose
  <2>3. failures' \in 0 .. MaxFailures
    BY <1>8 DEF OnClose, Closes, ClientTypeOK
  <2>4. connected' \in BOOLEAN /\ timer' \in Room \cup {NoRoom} /\ strays' \in [Room -> Nat]
    <3>1. CASE silent[socket]
      BY <1>8, <3>1 DEF OnClose, ClientTypeOK
    <3>2. CASE ~silent[socket]
      <4>1. connected' = FALSE /\ SetTimer(room[socket])
        BY <1>8, <3>2 DEF OnClose
      <4>2. timer \in Room \cup {NoRoom} /\ strays \in [Room -> Nat] /\ room[socket] \in Room \cup {NoRoom}
        BY DEF ClientTypeOK
      <4>3. strays' \in [Room -> Nat]
        <5>1. CASE timer = NoRoom
          BY <4>1, <4>2, <5>1 DEF SetTimer
        <5>2. CASE timer \in Room
          <6>1. strays[timer] + 1 \in Nat
            BY <4>2, <5>2
          <6>2. strays' = [strays EXCEPT ![timer] = strays[timer] + 1]
            BY <4>1, <5>2 DEF SetTimer
          <6> QED BY <4>2, <6>1, <6>2
        <5> QED BY <4>2, <5>1, <5>2
      <4> QED BY <4>1, <4>2, <4>3 DEF SetTimer
    <3> QED BY <3>1, <3>2
  <2>5. \A s \in Socket : Alive(s)' => s = connection
    BY <2>1 DEF Alive, ClientTypeOK
  <2> QED BY <2>1, <2>2, <2>3, <2>4, <2>5 DEF ClientTypeOK
<1>9. ASSUME NEW socket \in Socket, Arrive(socket)
      PROVE  ClientTypeOK'
  <2> DEFINE message == Head(outgoing[socket])
  <2>1. outgoing[socket] \in Seq(Message) /\ outgoing[socket] # <<>>
    BY <1>9 DEF Arrive, ClientTypeOK
  <2>2. message \in Message /\ Tail(outgoing[socket]) \in Seq(Message)
    BY <2>1
  <2>3. outgoing' = [outgoing EXCEPT ![socket] = Tail(outgoing[socket])]
    BY <1>9 DEF Arrive
  <2>4. outgoing' \in [Socket -> Seq(Message)]
    BY <2>2, <2>3 DEF ClientTypeOK
  <2>5. gets' \in [Socket -> SUBSET Key] /\ received' \in Seq(1 .. MaxSends)
    <3>1. CASE message.type = "push"
      <4>1. message.number \in 1 .. MaxSends
        BY <2>2, <3>1 DEF Message
      <4>2. received' = Append(received, message.number) /\ gets' = gets
        BY <1>9, <3>1 DEF Arrive
      <4> QED BY <4>1, <4>2 DEF ClientTypeOK
    <3>2. CASE message.type # "push"
      <4>1. message.key \in Key
        BY <2>2, <3>2 DEF Message
      <4>2. gets' = [gets EXCEPT ![socket] = @ \cup {message.key}] /\ received' = received
        BY <1>9, <3>2 DEF Arrive
      <4> QED BY <4>1, <4>2 DEF ClientTypeOK
    <3> QED BY <3>1, <3>2
  <2>6. UNCHANGED <<phase, room, silent, connection, connected, queue, timer, strays,
                    subscriptions, wanted, sends, connects, failures>>
    BY <1>9 DEF Arrive, dbVars
  <2> QED BY <2>4, <2>5, <2>6 DEF ClientTypeOK, Alive
<1> QED BY <1>1, <1>2, <1>3, <1>4, <1>5, <1>6, <1>7, <1>8, <1>9 DEF ClientNext

\* A client that has just been constructed is well typed.
LEMMA ClientInitTypeOK ==
    ASSUME ClientInit
    PROVE  ClientTypeOK
<1>1. \A socket \in Socket : ~Alive(socket)
  BY DEF ClientInit, Alive
<1>2. <<>> \in Seq(Message) /\ <<>> \in Seq(1 .. MaxSends)
  OBVIOUS
<1>3. outgoing \in [Socket -> Seq(Message)] /\ queue \in Seq(Message) /\ received \in Seq(1 .. MaxSends)
  BY <1>2 DEF ClientInit
<1>4. sends \in 0 .. MaxSends /\ connects \in 0 .. MaxConnects /\ failures \in 0 .. MaxFailures
  BY Constants DEF ClientInit
<1>5. /\ phase \in [Socket -> {"closed", "connecting", "open", "closing"}]
      /\ room \in [Socket -> Room \cup {NoRoom}]
      /\ silent \in [Socket -> BOOLEAN]
      /\ gets \in [Socket -> SUBSET Key]
  BY DEF ClientInit
<1>6. /\ connection \in Socket \cup {NoSocket} /\ connected \in BOOLEAN
      /\ timer \in Room \cup {NoRoom} /\ strays \in [Room -> Nat]
      /\ subscriptions \subseteq Key /\ wanted \in Room \cup {NoRoom}
  BY DEF ClientInit
<1> QED BY <1>1, <1>3, <1>4, <1>5, <1>6 DEF ClientTypeOK

\* The state of a client is always well typed, and the socket in use is the only
\* one that is open or opening (connect closes the one before it).
THEOREM ClientTypeCorrect == ClientSpec => []ClientTypeOK
<1>1. ClientInit => ClientTypeOK
  BY ClientInitTypeOK
<1>2. ClientTypeOK /\ [ClientNext]_clientVars => ClientTypeOK'
  BY ClientTypeStep
<1> QED BY <1>1, <1>2, PTL DEF ClientSpec

(***************************************************************************)
(* Reconnecting.                                                           *)
(***************************************************************************)

AllClosed == \A socket \in Socket : phase[socket] = "closed"

\* Nothing has happened before the application's first call of connect.
Untouched == AllClosed /\ timer = NoRoom /\ wanted = NoRoom

\* There is one socket, and a timer runs only while there is none.
SingleChain ==
    /\ \A url \in Room : strays[url] = 0
    /\ \A socket \in Socket : socket # connection => phase[socket] = "closed"
    /\ timer # NoRoom => AllClosed

\* The inductive invariant: after one call of connect, at most one thing is under
\* way, a socket or a timer, and each leads to the other.
ReconnectInv ==
    /\ ClientTypeOK
    /\ connects = 0 => Untouched
    /\ connects # 0 => connection \in Socket
    /\ connects <= 1 => SingleChain

\* A new socket in place of a closed one is the only one.
LEMMA OneSocket ==
    ASSUME AllClosed, NEW url, ConnectTo(url)
    PROVE  \A socket \in Socket : socket # connection' => phase'[socket] = "closed"
  BY DEF AllClosed, ConnectTo, Alive

\* Every step keeps the invariant.
LEMMA ReconnectStep ==
    ASSUME ReconnectInv, ClientTypeOK', [ClientNext]_clientVars
    PROVE  ReconnectInv'
<1>1. connects \in Nat /\ connects' \in Nat
  BY Constants DEF ReconnectInv, ClientTypeOK
<1>2. CASE UNCHANGED clientVars
  BY <1>2 DEF ReconnectInv, Untouched, SingleChain, AllClosed, clientVars, socketVars, dbVars, worldVars
<1>3. ASSUME NEW url \in Room, Connect(url)
      PROVE  ReconnectInv'
  <2>1. connects' = connects + 1 /\ timer' = timer /\ strays' = strays /\ ConnectTo(url)
    BY <1>3 DEF Connect
  <2>2. ~(connects' = 0)
    BY <1>1, <2>1
  <2>3. ASSUME connects' <= 1
        PROVE  SingleChain'
    <3>1. connects = 0
      BY <1>1, <2>1, <2>3
    <3>2. AllClosed /\ timer = NoRoom /\ \A u \in Room : strays[u] = 0
      BY <3>1 DEF ReconnectInv, Untouched, SingleChain
    <3> QED BY <2>1, <3>2, OneSocket DEF SingleChain
  <2>4. connection' \in Socket
    BY <2>1, UnusedSocket
  <2> QED BY <2>2, <2>3, <2>4 DEF ReconnectInv
<1>4. CASE Disconnect
  <2>1. /\ phase' = [phase EXCEPT ![connection] = IF Alive(connection) THEN "closing" ELSE @]
        /\ wanted # NoRoom
        /\ UNCHANGED <<connection, timer, strays, connects>>
    BY <1>4 DEF Disconnect
  <2>2. connects # 0
    BY <2>1 DEF ReconnectInv, Untouched
  <2>3. ASSUME connects <= 1
        PROVE  SingleChain'
    <3>1. SingleChain
      BY <2>3 DEF ReconnectInv
    <3>2. AllClosed => AllClosed'
      BY <2>1 DEF AllClosed, Alive
    <3>3. \A socket \in Socket : socket # connection => phase'[socket] = phase[socket]
      BY <2>1 DEF ReconnectInv, ClientTypeOK
    <3> QED BY <2>1, <3>1, <3>2, <3>3 DEF SingleChain
  <2> QED BY <2>1, <2>2, <2>3 DEF ReconnectInv
<1>5. ASSUME NEW message, SendMessage(message), UNCHANGED <<phase, connection, timer, strays, wanted, connects>>
      PROVE  ReconnectInv'
  BY <1>5 DEF ReconnectInv, Untouched, SingleChain, AllClosed
<1>6. CASE Reconnect
  <2>1. UNCHANGED <<wanted, connects>>
    BY <1>6 DEF Reconnect, worldVars
  <2>2. ASSUME connects <= 1
        PROVE  connects # 0 /\ SingleChain'
    <3>1. SingleChain
      BY <2>2 DEF ReconnectInv
    <3>2. ~\E url \in Room : strays[url] > 0
      BY <3>1 DEF SingleChain
    <3>3. timer # NoRoom /\ ConnectTo(timer) /\ timer' = NoRoom /\ UNCHANGED strays
      BY <1>6, <3>2 DEF Reconnect
    <3>4. AllClosed
      BY <3>1, <3>3 DEF SingleChain
    <3>5. connects # 0
      BY <3>3 DEF ReconnectInv, Untouched
    <3> QED BY <3>1, <3>3, <3>4, <3>5, OneSocket DEF SingleChain
  <2>3. connection' \in Socket
    BY <1>6, UnusedSocket DEF Reconnect
  <2> QED BY <1>1, <2>1, <2>2, <2>3 DEF ReconnectInv
<1>7. ASSUME NEW socket \in Socket, OnOpen(socket)
      PROVE  ReconnectInv'
  <2>1. /\ phase[socket] = "connecting"
        /\ phase' = [phase EXCEPT ![socket] = "open"]
        /\ timer' = NoRoom
        /\ UNCHANGED <<connection, strays, wanted, connects>>
    BY <1>7 DEF OnOpen, worldVars
  <2>2. connects # 0
    BY <2>1 DEF ReconnectInv, Untouched, AllClosed
  <2>3. ASSUME connects <= 1
        PROVE  SingleChain'
    BY <2>1, <2>3 DEF ReconnectInv, ClientTypeOK, SingleChain
  <2> QED BY <2>1, <2>2, <2>3 DEF ReconnectInv
<1>8. ASSUME NEW socket \in Socket, OnClose(socket)
      PROVE  ReconnectInv'
  <2>1. /\ phase[socket] # "closed"
        /\ phase' = [phase EXCEPT ![socket] = "closed"]
        /\ UNCHANGED <<connection, wanted, connects>>
    BY <1>8 DEF OnClose, Closes, Forget
  <2>2. connects # 0
    BY <2>1 DEF ReconnectInv, Untouched, AllClosed
  <2>3. ASSUME connects <= 1
        PROVE  SingleChain'
    <3>1. SingleChain
      BY <2>3 DEF ReconnectInv
    <3>2. timer = NoRoom /\ socket = connection
      BY <2>1, <3>1 DEF SingleChain, AllClosed
    <3>3. \A s \in Socket : phase'[s] = "closed"
      BY <2>1, <3>1, <3>2 DEF ReconnectInv, ClientTypeOK, SingleChain
    <3>4. strays' = strays
      BY <1>8, <3>2 DEF OnClose, SetTimer
    <3> QED BY <3>1, <3>3, <3>4 DEF SingleChain, AllClosed
  <2> QED BY <2>1, <2>2, <2>3 DEF ReconnectInv
<1>9. ASSUME NEW socket \in Socket, Arrive(socket)
      PROVE  ReconnectInv'
  BY <1>9 DEF Arrive, dbVars, ReconnectInv, Untouched, SingleChain, AllClosed
<1>10. CASE Send
  BY <1>5, <1>10 DEF Send
<1>11. ASSUME NEW key \in Key, Subscribe(key)
       PROVE  ReconnectInv'
  BY <1>5, <1>11 DEF Subscribe, worldVars
<1> QED BY <1>2, <1>3, <1>4, <1>6, <1>7, <1>8, <1>9, <1>10, <1>11 DEF ClientNext

\* As long as the application calls connect once, no reconnect closes a connection
\* that is open or opening, however often the network cuts it (index.ts: only onclose
\* starts a timer, and one close follows on one connect).
THEOREM ReconnectsWhenDown == ClientSpec => ReconnectsOnlyWhenDown
<1>1. ClientInit => ReconnectInv
  <2>1. ClientInit => Untouched /\ SingleChain
    BY DEF ClientInit, Untouched, SingleChain, AllClosed
  <2>2. ClientInit => ClientTypeOK
    BY ClientInitTypeOK
  <2>3. ClientInit => connects = 0
    BY DEF ClientInit
  <2> QED BY <2>1, <2>2, <2>3 DEF ReconnectInv
<1>2. ReconnectInv /\ ClientTypeOK' /\ [ClientNext]_clientVars => ReconnectInv'
  BY ReconnectStep
<1>3. ReconnectInv /\ [ClientNext]_clientVars =>
        [connects = 1 /\ connects' = 1 /\ connection' # connection => ~Alive(connection)]_clientVars
  <2> SUFFICES ASSUME ReconnectInv, ClientNext, connects = 1, connects' = 1, connection' # connection
               PROVE  ~Alive(connection)
    OBVIOUS
  <2>1. Reconnect
    <3>1. \A url \in Room : ~Connect(url)
      BY DEF Connect
    <3>2. \A key \in Key : ~Subscribe(key)
      BY DEF Subscribe
    <3>3. \A socket \in Socket : ~OnOpen(socket) /\ ~OnClose(socket) /\ ~Arrive(socket)
      BY DEF OnOpen, OnClose, Arrive, dbVars
    <3> QED BY <3>1, <3>2, <3>3 DEF ClientNext, Disconnect, Send
  <2>2. SingleChain
    BY DEF ReconnectInv
  <2>3. AllClosed
    BY <2>1, <2>2 DEF Reconnect, SingleChain
  <2>4. connection \in Socket
    BY DEF ReconnectInv
  <2> QED BY <2>3, <2>4 DEF AllClosed, Alive
<1> QED BY <1>1, <1>2, <1>3, ClientTypeCorrect, PTL DEF ClientSpec, ReconnectsOnlyWhenDown

-----------------------------------------------------------------------------
(***************************************************************************)
(* Coming back.                                                            *)
(***************************************************************************)

\* What will bring the client back, or that it is there.
ComingBack ==
    \/ timer # NoRoom \/ \E url \in Room : strays[url] > 0
    \/ \E socket \in Socket : phase[socket] = "closing" /\ ~silent[socket]
    \/ connection \in Socket /\ phase[connection] = "connecting"
    \/ connection \in Socket /\ phase[connection] = "open" /\ connected /\ queue = <<>>

\* The inductive invariant: a socket that is there has a room to go back to, and only
\* one that is closing has lost its handlers.
ComebackInv ==
    /\ \A socket \in Socket : phase[socket] # "closed" => room[socket] \in Room
    /\ \A socket \in Socket : silent[socket] => phase[socket] = "closing"
    /\ wanted # NoRoom => ComingBack

\* What connect does to the sockets: the new one was closed, and the one in use closes.
LEMMA ConnectToPhases ==
    ASSUME ClientTypeOK, NEW url, ConnectTo(url)
    PROVE  /\ connection' \in Socket /\ phase[connection'] = "closed"
           /\ phase'[connection'] = "connecting"
           /\ \A socket \in Socket \ {connection'} :
                 phase'[socket] = phase[socket] \/ (Alive(socket) /\ phase'[socket] = "closing")
<1>1. connection' \in Socket /\ phase[connection'] = "closed"
  BY UnusedSocket
<1>2. phase' = [socket \in Socket |->
                    CASE socket = connection'                      -> "connecting"
                      [] socket = connection /\ Alive(connection)  -> "closing"
                      [] OTHER                                     -> phase[socket]]
  BY DEF ConnectTo
<1>3. phase'[connection'] = "connecting"
  BY <1>1, <1>2 DEF Alive
<1>4. ASSUME NEW socket \in Socket \ {connection'}
      PROVE  phase'[socket] = phase[socket] \/ (Alive(socket) /\ phase'[socket] = "closing")
  <2>1. CASE socket = connection /\ Alive(connection)
    BY <1>2, <2>1
  <2>2. CASE ~(socket = connection /\ Alive(connection))
    BY <1>2, <2>2
  <2> QED BY <2>1, <2>2
<1> QED BY <1>1, <1>3, <1>4

LEMMA ConnectToComesBack ==
    ASSUME ClientTypeOK, ComebackInv, NEW url \in Room, ConnectTo(url)
    PROVE  /\ \A socket \in Socket : phase'[socket] # "closed" => room'[socket] \in Room
           /\ \A socket \in Socket : silent'[socket] => phase'[socket] = "closing"
           /\ ComingBack'
<1>1. /\ connection' \in Socket /\ phase[connection'] = "closed"
      /\ phase'[connection'] = "connecting"
      /\ \A socket \in Socket \ {connection'} :
            phase'[socket] = phase[socket] \/ (Alive(socket) /\ phase'[socket] = "closing")
  BY ConnectToPhases
<1>2. ComingBack'
  BY <1>1 DEF ComingBack
<1>3. ASSUME NEW socket \in Socket
      PROVE  /\ phase'[socket] # "closed" => room'[socket] \in Room
             /\ silent'[socket] => phase'[socket] = "closing"
  <2>1. CASE socket = connection'
    BY <1>1, <2>1 DEF ComebackInv, ConnectTo, ClientTypeOK
  <2>2. CASE socket # connection'
    <3>1. \/ phase'[socket] = phase[socket]
          \/ Alive(socket) /\ phase'[socket] = "closing"
      BY <1>1, <2>2
    <3>2. room'[socket] = room[socket] /\ silent' = silent
      BY <2>2 DEF ConnectTo, ClientTypeOK
    <3> QED BY <3>1, <3>2 DEF ComebackInv, Alive
  <2> QED BY <2>1, <2>2
<1> QED BY <1>2, <1>3

\* Every step keeps the invariant.
LEMMA ComebackStep ==
    ASSUME ClientTypeOK, ComebackInv, [ClientNext]_clientVars
    PROVE  ComebackInv'
<1>1. CASE UNCHANGED clientVars
  BY <1>1 DEF ComebackInv, ComingBack, clientVars, socketVars, dbVars, worldVars
<1>2. ASSUME NEW url \in Room, Connect(url)
      PROVE  ComebackInv'
  BY <1>2, ConnectToComesBack DEF Connect, ComebackInv
<1>3. CASE Disconnect
  <2>1. /\ wanted' = NoRoom /\ room' = room
        /\ phase' = [phase EXCEPT ![connection] = IF Alive(connection) THEN "closing" ELSE @]
        /\ silent' = [silent EXCEPT ![connection] = phase'[connection] = "closing"]
    BY <1>3 DEF Disconnect
  <2>2. ASSUME NEW socket \in Socket
        PROVE  /\ phase'[socket] # "closed" => room'[socket] \in Room
               /\ silent'[socket] => phase'[socket] = "closing"
    <3>1. CASE socket = connection
      <4>1. phase'[socket] # "closed" => phase[socket] # "closed"
        BY <2>1, <3>1 DEF ClientTypeOK, Alive
      <4>2. silent'[socket] = (phase'[socket] = "closing")
        BY <2>1, <3>1 DEF ClientTypeOK
      <4> QED BY <2>1, <4>1, <4>2 DEF ComebackInv
    <3>2. CASE socket # connection
      <4>1. phase'[socket] = phase[socket] /\ silent'[socket] = silent[socket]
        BY <2>1, <3>2 DEF ClientTypeOK
      <4> QED BY <2>1, <4>1 DEF ComebackInv
    <3> QED BY <3>1, <3>2
  <2> QED BY <2>1, <2>2 DEF ComebackInv
<1>4. ASSUME NEW message, SendMessage(message),
             UNCHANGED <<phase, room, silent, connection, connected, timer, strays, wanted>>
      PROVE  ComebackInv'
  <2>1. CanSend => queue' = queue
    BY <1>4 DEF SendMessage
  <2>2. ComingBack => ComingBack'
    <3>1. connection \in Socket /\ phase[connection] = "open" /\ connected => CanSend
      BY Constants DEF CanSend
    <3> QED BY <1>4, <2>1, <3>1 DEF ComingBack
  <2> QED BY <1>4, <2>2 DEF ComebackInv
<1>5. CASE Reconnect
  <2>1. \E url \in Room : ConnectTo(url)
    BY <1>5 DEF Reconnect, ClientTypeOK
  <2>2. UNCHANGED worldVars
    BY <1>5 DEF Reconnect
  <2> QED BY <2>1, <2>2, ConnectToComesBack DEF ComebackInv, worldVars
<1>6. ASSUME NEW socket \in Socket, OnOpen(socket)
      PROVE  ComebackInv'
  <2>1. /\ phase[socket] = "connecting" /\ phase' = [phase EXCEPT ![socket] = "open"]
        /\ connected' = TRUE /\ queue' = <<>> /\ room' = room /\ silent' = silent
        /\ connection' = connection
    BY <1>6 DEF OnOpen
  <2>2. socket = connection
    BY <2>1 DEF ClientTypeOK, Alive
  <2>3. ComingBack'
    BY <2>1, <2>2 DEF ComingBack, ClientTypeOK
  <2>4. ASSUME NEW other \in Socket
        PROVE  /\ phase'[other] # "closed" => room'[other] \in Room
               /\ silent'[other] => phase'[other] = "closing"
    BY <2>1 DEF ComebackInv, ClientTypeOK
  <2> QED BY <2>3, <2>4 DEF ComebackInv
<1>7. ASSUME NEW socket \in Socket, OnClose(socket)
      PROVE  ComebackInv'
  <2>1. /\ phase[socket] # "closed" /\ phase' = [phase EXCEPT ![socket] = "closed"]
        /\ room' = [room EXCEPT ![socket] = NoRoom] /\ silent' = [silent EXCEPT ![socket] = FALSE]
        /\ UNCHANGED <<connection, queue, wanted>>
        /\ IF silent[socket] THEN UNCHANGED <<connected, timer, strays>> ELSE timer' = room[socket]
    BY <1>7 DEF OnClose, Closes, Forget, SetTimer
  <2>2. ASSUME NEW other \in Socket
        PROVE  /\ phase'[other] # "closed" => room'[other] \in Room
               /\ silent'[other] => phase'[other] = "closing"
    BY <2>1 DEF ComebackInv, ClientTypeOK
  <2>3. CASE ~silent[socket]
    <3>1. timer' \in Room
      BY <2>1, <2>3 DEF ComebackInv
    <3> QED BY <2>2, <3>1, Constants DEF ComebackInv, ComingBack
  <2>4. CASE silent[socket]
    <3>1. phase[socket] = "closing"
      BY <2>4 DEF ComebackInv
    <3>2. \A other \in Socket \ {socket} : phase'[other] = phase[other] /\ silent'[other] = silent[other]
      BY <2>1 DEF ClientTypeOK
    <3>3. ComingBack => ComingBack'
      BY <2>1, <2>4, <3>1, <3>2 DEF ComingBack
    <3> QED BY <2>1, <2>2, <3>3 DEF ComebackInv
  <2> QED BY <2>3, <2>4
<1>8. ASSUME NEW socket \in Socket, Arrive(socket)
      PROVE  ComebackInv'
  BY <1>8 DEF Arrive, dbVars, ComebackInv, ComingBack
<1>9. CASE Send
  BY <1>4, <1>9 DEF Send
<1>10. ASSUME NEW key \in Key, Subscribe(key)
       PROVE  ComebackInv'
  BY <1>4, <1>10 DEF Subscribe, worldVars
<1> QED BY <1>1, <1>2, <1>3, <1>5, <1>6, <1>7, <1>8, <1>9, <1>10 DEF ClientNext

\* A client comes to rest only connected and with an empty queue, or because the
\* application has disconnected it (index.ts: onclose starts the next attempt, whichever
\* socket closes; onopen sets the status and empties the queue).
THEOREM ComesToRestConnected == ClientSpec => []RestsConnected
<1>1. ClientInit => ComebackInv
  BY DEF ClientInit, ComebackInv
<1>2. ClientTypeOK /\ ComebackInv /\ [ClientNext]_clientVars => ComebackInv'
  BY ComebackStep
<1>3. ComebackInv => RestsConnected
  BY DEF ComebackInv, ComingBack, RestsConnected, AtRest
<1> QED BY <1>1, <1>2, <1>3, ClientTypeCorrect, PTL DEF ClientSpec

-----------------------------------------------------------------------------
(***************************************************************************)
(* Sending once.                                                           *)
(***************************************************************************)

\* The numbers among a sequence of messages, and whether they are in order.
LEMMA NoNumbers == NumbersIn(<<>>) = {} /\ InOrder(<<>>)
BY DEF NumbersIn, InOrder, Pushes

LEMMA NumberTypes ==
    ASSUME NEW messages \in Seq(Message)
    PROVE  NumbersIn(messages) \subseteq 1 .. MaxSends
<1>1. \A i \in DOMAIN messages : messages[i] \in Message
  BY ElementOfSeq, LenProperties
<1> QED BY <1>1 DEF NumbersIn, Pushes, Message

LEMMA AppendNumbers ==
    ASSUME NEW messages \in Seq(Message), NEW message \in Message, InOrder(messages),
           message.type = "push" => \A n \in NumbersIn(messages) : n < message.number
    PROVE  /\ NumbersIn(Append(messages, message)) =
                NumbersIn(messages) \cup {n \in {message.number} : message.type = "push"}
           /\ InOrder(Append(messages, message))
<1> DEFINE longer == Append(messages, message)
           last   == Len(messages) + 1
<1>1. /\ longer \in Seq(Message) /\ Len(messages) \in Nat
      /\ DOMAIN messages = 1 .. Len(messages) /\ DOMAIN longer = 1 .. last
      /\ longer[last] = message
      /\ \A i \in 1 .. Len(messages) : longer[i] = messages[i]
  BY AppendProperties, LenProperties
<1> HIDE DEF longer, last
<1>2. Pushes(longer) = Pushes(messages) \cup {i \in {last} : message.type = "push"}
  BY <1>1 DEF Pushes, last
<1>3. \A i \in Pushes(messages) : i \in 1 .. Len(messages) /\ i < last /\ messages[i].number \in NumbersIn(messages)
  BY <1>1 DEF Pushes, NumbersIn, last
<1>4. NumbersIn(longer) = NumbersIn(messages) \cup {n \in {message.number} : message.type = "push"}
  BY <1>1, <1>2, <1>3 DEF NumbersIn
<1>5. ASSUME NEW i \in Pushes(longer), NEW j \in Pushes(longer), i < j
      PROVE  longer[i].number < longer[j].number
  <2>1. i \in Pushes(messages)
    BY <1>1, <1>2, <1>3, <1>5 DEF last
  <2>2. CASE j \in Pushes(messages)
    BY <1>1, <1>3, <1>5, <2>1, <2>2 DEF InOrder
  <2>3. CASE j = last /\ message.type = "push"
    BY <1>1, <1>3, <2>1, <2>3
  <2> QED BY <1>2, <2>2, <2>3
<1> QED BY <1>4, <1>5 DEF InOrder, longer

LEMMA TailNumbers ==
    ASSUME NEW messages \in Seq(Message), messages # <<>>, InOrder(messages)
    PROVE  /\ NumbersIn(messages) =
                NumbersIn(Tail(messages))
                    \cup {n \in {Head(messages).number} : Head(messages).type = "push"}
           /\ InOrder(Tail(messages))
           /\ Head(messages).type = "push" =>
                \A n \in NumbersIn(Tail(messages)) : Head(messages).number < n
<1> DEFINE rest == Tail(messages)
<1>1. /\ rest \in Seq(Message) /\ Len(messages) \in Nat \ {0}
      /\ DOMAIN messages = 1 .. Len(messages) /\ DOMAIN rest = 1 .. Len(messages) - 1
      /\ Head(messages) = messages[1]
      /\ \A i \in 1 .. Len(messages) - 1 : rest[i] = messages[i + 1]
  BY HeadTailProperties, EmptySeq, LenProperties
<1> HIDE DEF rest
<1>2. \A i \in Pushes(rest) : i \in 1 .. Len(messages) - 1 /\ i + 1 \in Pushes(messages)
  BY <1>1 DEF Pushes
<1>3. \A i \in Pushes(messages) : i \in 1 .. Len(messages) /\ (i = 1 \/ i - 1 \in Pushes(rest))
  BY <1>1 DEF Pushes
<1>4. 1 \in Pushes(messages) <=> Head(messages).type = "push"
  BY <1>1 DEF Pushes
<1>5. NumbersIn(rest) \subseteq NumbersIn(messages)
  BY <1>1, <1>2 DEF NumbersIn
<1>6. NumbersIn(messages) \subseteq
        NumbersIn(rest) \cup {n \in {Head(messages).number} : Head(messages).type = "push"}
  <2>1. ASSUME NEW i \in Pushes(messages)
        PROVE  messages[i].number \in
                  NumbersIn(rest) \cup {n \in {Head(messages).number} : Head(messages).type = "push"}
    <3>1. CASE i = 1
      BY <1>1, <1>4, <2>1, <3>1
    <3>2. CASE i # 1
      <4>1. i - 1 \in Pushes(rest) /\ i - 1 \in 1 .. Len(messages) - 1 /\ (i - 1) + 1 = i
        BY <1>1, <1>2, <1>3, <3>2
      <4>2. rest[i - 1] = messages[i]
        BY <1>1, <4>1
      <4> QED BY <4>1, <4>2 DEF NumbersIn
    <3> QED BY <3>1, <3>2
  <2> QED BY <2>1 DEF NumbersIn
<1>7. Head(messages).type = "push" => Head(messages).number \in NumbersIn(messages)
  BY <1>1, <1>4 DEF NumbersIn
<1>8. InOrder(rest)
  <2> SUFFICES ASSUME NEW i \in Pushes(rest), NEW j \in Pushes(rest), i < j
               PROVE  rest[i].number < rest[j].number
    BY DEF InOrder
  <2>1. i + 1 < j + 1 /\ rest[i] = messages[i + 1] /\ rest[j] = messages[j + 1]
    BY <1>1, <1>2
  <2> QED BY <1>2, <2>1 DEF InOrder
<1>9. ASSUME Head(messages).type = "push", NEW j \in Pushes(rest)
      PROVE  Head(messages).number < rest[j].number
  <2>1. 1 < j + 1 /\ rest[j] = messages[j + 1] /\ j + 1 \in Pushes(messages)
    BY <1>1, <1>2
  <2> QED BY <1>1, <1>4, <1>9, <2>1 DEF InOrder
<1> QED BY <1>5, <1>6, <1>7, <1>8, <1>9 DEF NumbersIn, rest

LEMMA JoinedOrder ==
    ASSUME NEW first \in Seq(Message), NEW second \in Seq(Message),
           InOrder(first), InOrder(second),
           \A m \in NumbersIn(first), n \in NumbersIn(second) : m < n
    PROVE  /\ InOrder(first \o second)
           /\ NumbersIn(first \o second) = NumbersIn(first) \cup NumbersIn(second)
<1> DEFINE both == first \o second
           k    == Len(first)
<1>1. /\ k \in Nat /\ Len(second) \in Nat
      /\ DOMAIN first = 1 .. k /\ DOMAIN second = 1 .. Len(second)
      /\ DOMAIN both = 1 .. k + Len(second)
      /\ \A i \in 1 .. k : both[i] = first[i]
      /\ \A i \in 1 .. Len(second) : both[k + i] = second[i]
  BY LenProperties, ConcatProperties
<1> HIDE DEF both, k
<1>2. ASSUME NEW i \in Pushes(both)
      PROVE  \/ i \in Pushes(first) /\ i <= k /\ both[i] = first[i]
             \/ i - k \in Pushes(second) /\ i > k /\ both[i] = second[i - k]
  <2>1. i \in 1 .. k + Len(second) /\ both[i].type = "push"
    BY <1>1, <1>2 DEF Pushes
  <2>2. CASE i <= k
    BY <1>1, <2>1, <2>2 DEF Pushes
  <2>3. CASE i > k
    <3>1. i - k \in 1 .. Len(second) /\ k + (i - k) = i
      BY <1>1, <2>1, <2>3
    <3>2. both[i] = second[i - k]
      BY <1>1, <3>1
    <3> QED BY <1>1, <2>1, <2>3, <3>1, <3>2 DEF Pushes
  <2> QED BY <1>1, <2>1, <2>2, <2>3
<1>3. /\ \A i \in Pushes(first) : i \in Pushes(both) /\ both[i] = first[i]
      /\ \A i \in Pushes(second) : k + i \in Pushes(both) /\ both[k + i] = second[i]
  BY <1>1 DEF Pushes
<1>4. NumbersIn(both) = NumbersIn(first) \cup NumbersIn(second)
  BY <1>2, <1>3 DEF NumbersIn
<1>5. ASSUME NEW i \in Pushes(both), NEW j \in Pushes(both), i < j
      PROVE  both[i].number < both[j].number
  <2>1. i \in Nat /\ j \in Nat
    BY <1>1 DEF Pushes
  <2>2. CASE j \in Pushes(first) /\ j <= k /\ both[j] = first[j]
    <3>1. i \in Pushes(first) /\ both[i] = first[i]
      BY <1>1, <1>2, <1>5, <2>1, <2>2
    <3> QED BY <1>5, <2>2, <3>1 DEF InOrder
  <2>3. CASE j - k \in Pushes(second) /\ j > k /\ both[j] = second[j - k]
    <3>1. CASE i \in Pushes(first) /\ both[i] = first[i]
      BY <2>3, <3>1 DEF NumbersIn
    <3>2. CASE i - k \in Pushes(second) /\ both[i] = second[i - k]
      <4>1. i - k < j - k
        BY <1>1, <1>5, <2>1
      <4> QED BY <2>3, <3>2, <4>1 DEF InOrder
    <3> QED BY <1>2, <3>1, <3>2
  <2> QED BY <1>2, <2>2, <2>3
<1> QED BY <1>4, <1>5 DEF InOrder, both

\* A number that has not arrived goes behind those that have.
LEMMA AppendOnce ==
    ASSUME NEW seq \in Seq(1 .. MaxSends), IsInjective(seq),
           NEW n \in 1 .. MaxSends, n \notin Range(seq)
    PROVE  IsInjective(Append(seq, n)) /\ Range(Append(seq, n)) = Range(seq) \cup {n}
<1> DEFINE longer == Append(seq, n)
<1>1. /\ Len(seq) \in Nat /\ DOMAIN seq = 1 .. Len(seq) /\ DOMAIN longer = 1 .. Len(seq) + 1
      /\ longer[Len(seq) + 1] = n
      /\ \A i \in 1 .. Len(seq) : longer[i] = seq[i] /\ seq[i] \in Range(seq)
  BY AppendProperties, LenProperties DEF Range
<1> HIDE DEF longer
<1>2. Range(longer) = Range(seq) \cup {n}
  <2>1. ASSUME NEW i \in DOMAIN longer
        PROVE  longer[i] \in Range(seq) \cup {n}
    <3>1. i = Len(seq) + 1 \/ i \in 1 .. Len(seq)
      BY <1>1, <2>1
    <3> QED BY <1>1, <3>1
  <2>2. ASSUME NEW i \in DOMAIN seq
        PROVE  i \in DOMAIN longer /\ longer[i] = seq[i]
    BY <1>1, <2>2
  <2>3. Len(seq) + 1 \in DOMAIN longer
    BY <1>1
  <2>4. Range(longer) \subseteq Range(seq) \cup {n}
    BY <2>1 DEF Range
  <2>5. Range(seq) \subseteq Range(longer)
    BY <2>2 DEF Range
  <2>6. n \in Range(longer)
    BY <1>1, <2>3 DEF Range
  <2> QED BY <2>4, <2>5, <2>6
<1>3. ASSUME NEW i \in DOMAIN longer, NEW j \in DOMAIN longer, longer[i] = longer[j]
      PROVE  i = j
  BY <1>1, <1>3 DEF IsInjective
<1> QED BY <1>2, <1>3 DEF IsInjective, longer

\* Where the pushed messages are: on a socket, in the queue, in the room; and those on
\* the socket in use.
SentOn(socket) == NumbersIn(outgoing[socket])
Queued == NumbersIn(queue)
Got == Range(received)
InUse == IF connection = NoSocket THEN {} ELSE SentOn(connection)

\* Nothing was sent on a socket that is not open yet, and nothing is queued behind one
\* that is known to be.
SocketsOK ==
    /\ \A socket \in Socket : phase[socket] \in {"closed", "connecting"} => outgoing[socket] = <<>>
    /\ CanSend => queue = <<>>

OrderOK ==
    /\ IsInjective(received)
    /\ InOrder(queue)
    /\ \A socket \in Socket : InOrder(outgoing[socket])

\* Each message is in one place, and only a cut loses any.
NumbersOK ==
    /\ Got \subseteq 1 .. sends
    /\ Queued \subseteq 1 .. sends /\ Queued \cap Got = {}
    /\ \A socket \in Socket :
          SentOn(socket) \subseteq 1 .. sends /\ SentOn(socket) \cap (Queued \cup Got) = {}

SocketsApart ==
    \A socket, other \in Socket : socket # other => SentOn(socket) \cap SentOn(other) = {}

NoneLost ==
    failures = 0 =>
        \A n \in 1 .. sends : n \in Queued \cup Got \/ \E socket \in Socket : n \in SentOn(socket)

PlacesOK == NumbersOK /\ SocketsApart /\ NoneLost

\* What is queued was sent after what is on the socket in use, and that after all else.
AgesOK ==
    /\ \A m \in InUse, n \in Queued : m < n
    /\ \A n \in InUse \cup Queued, m \in 1 .. sends \ (InUse \cup Queued) : m < n

OnceInv == SocketsOK /\ OrderOK /\ PlacesOK /\ AgesOK

LEMMA OnceTypes ==
    ASSUME ClientTypeOK, OnceInv
    PROVE  /\ sends \in Nat /\ failures \in Nat
           /\ Queued \subseteq 1 .. sends /\ Got \subseteq 1 .. sends
           /\ InUse \subseteq 1 .. sends
           /\ \A socket \in Socket : SentOn(socket) \subseteq 1 .. sends
<1>1. /\ Queued \subseteq 1 .. sends /\ Got \subseteq 1 .. sends
      /\ \A socket \in Socket : SentOn(socket) \subseteq 1 .. sends
  BY DEF OnceInv, PlacesOK, NumbersOK
<1>2. sends \in Nat /\ failures \in Nat /\ connection \in Socket \cup {NoSocket}
  BY DEF ClientTypeOK
<1>3. InUse \subseteq 1 .. sends
  BY <1>1, <1>2 DEF InUse
<1> QED BY <1>1, <1>2, <1>3

LEMMA OnceImplies ==
    ASSUME ClientTypeOK, OnceInv
    PROVE  EachSentOnce
<1>1. InOrder(Waiting) /\ NumbersIn(Waiting) = InUse \cup Queued
  <2>1. CASE connection = NoSocket
    BY <2>1 DEF Waiting, InUse, Queued, OnceInv, OrderOK
  <2>2. CASE connection # NoSocket
    <3>1. outgoing[connection] \in Seq(Message) /\ queue \in Seq(Message) /\ connection \in Socket
      BY <2>2 DEF ClientTypeOK
    <3>2. InOrder(outgoing[connection]) /\ InOrder(queue)
      BY <3>1 DEF OnceInv, OrderOK
    <3>3. \A m \in NumbersIn(outgoing[connection]), n \in NumbersIn(queue) : m < n
      BY <2>2 DEF OnceInv, AgesOK, InUse, SentOn, Queued
    <3> QED BY <2>2, <3>1, <3>2, <3>3, JoinedOrder DEF Waiting, InUse, SentOn, Queued
  <2> QED BY <2>1, <2>2
<1>2. ASSUME NEW n \in 1 .. sends
      PROVE  /\ \A place, other \in Places(n) : place = other
             /\ failures = 0 => Places(n) # {}
  <2>1. Places(n) = {socket \in Socket : n \in SentOn(socket)}
                       \cup {place \in {"queue"} : n \in Queued}
                       \cup {place \in {"room"} : n \in Got}
    BY DEF Places, SentOn, Queued, Got
  <2>2. PlacesOK
    BY DEF OnceInv
  <2>3. ASSUME NEW place \in Places(n), NEW other \in Places(n)
        PROVE  place = other
    BY <2>1, <2>2 DEF PlacesOK, NumbersOK, SocketsApart, NoneLost
  <2>4. failures = 0 => Places(n) # {}
    BY <2>1, <2>2 DEF PlacesOK, NumbersOK, SocketsApart, NoneLost
  <2> QED BY <2>3, <2>4
<1>3. IsInjective(received)
  BY DEF OnceInv, OrderOK
<1>4. \A n \in NumbersIn(Waiting), m \in 1 .. sends \ NumbersIn(Waiting) : m < n
  BY <1>1 DEF OnceInv, AgesOK
<1> QED BY <1>1, <1>2, <1>3, <1>4 DEF EachSentOnce

\* A connection that is new has nothing sent on it, and what was on the socket before is
\* older than what is queued.
LEMMA ConnectToOnce ==
    ASSUME ClientTypeOK, OnceInv, NEW url \in Room, ConnectTo(url),
           UNCHANGED <<connected, queue, received, sends, failures>>
    PROVE  OnceInv'
<1>1. /\ connection' \in Socket /\ phase[connection'] = "closed"
      /\ phase'[connection'] = "connecting"
      /\ \A socket \in Socket \ {connection'} :
            phase'[socket] = phase[socket] \/ (Alive(socket) /\ phase'[socket] = "closing")
  BY ConnectToPhases
<1>2. outgoing' = outgoing
  BY DEF ConnectTo
<1>3. SocketsOK'
  <2>1. connection' # NoSocket /\ ~CanSend'
    BY <1>1, Constants DEF CanSend
  <2>2. ASSUME NEW socket \in Socket, phase'[socket] \in {"closed", "connecting"}
        PROVE  outgoing'[socket] = <<>>
    BY <1>1, <1>2, <2>2 DEF OnceInv, SocketsOK
  <2> QED BY <2>1, <2>2 DEF SocketsOK
<1>4. OrderOK'
  BY <1>2 DEF OnceInv, OrderOK
<1>5. /\ \A socket \in Socket : SentOn(socket)' = SentOn(socket)
      /\ Queued' = Queued /\ Got' = Got
  BY <1>2 DEF SentOn, Queued, Got
<1>6. PlacesOK'
  <2>1. NumbersOK'
    BY <1>5 DEF OnceInv, PlacesOK, NumbersOK
  <2>2. SocketsApart'
    BY <1>5 DEF OnceInv, PlacesOK, SocketsApart
  <2>3. NoneLost'
    BY <1>5 DEF OnceInv, PlacesOK, NoneLost
  <2> QED BY <2>1, <2>2, <2>3 DEF PlacesOK
<1>7. outgoing[connection'] = <<>> /\ connection' # NoSocket
  BY <1>1, Constants DEF OnceInv, SocketsOK
<1>8. InUse' = {}
  BY <1>2, <1>7, NoNumbers DEF InUse, SentOn
<1>9. InUse \subseteq Nat /\ Queued \subseteq Nat
  BY DEF InUse, SentOn, Queued, OnceInv, PlacesOK, NumbersOK, ClientTypeOK
<1>10. AgesOK'
  BY <1>5, <1>8, <1>9 DEF OnceInv, AgesOK
<1> QED BY <1>3, <1>4, <1>6, <1>10 DEF OnceInv

\* A message is sent behind what is on the socket in use, with nothing queued; or it is
\* queued.
LEMMA SendMessageOnce ==
    ASSUME ClientTypeOK, ClientTypeOK', OnceInv, NEW message \in Message, SendMessage(message),
           message.type = "push" => message.number = sends + 1,
           sends' = IF message.type = "push" THEN sends + 1 ELSE sends,
           UNCHANGED <<phase, connection, connected, received, failures>>
    PROVE  OnceInv'
<1> DEFINE new == {n \in {message.number} : message.type = "push"}
<1>1. /\ sends \in Nat /\ sends' \in Nat
      /\ 1 .. sends' = (1 .. sends) \cup new
      /\ \A n \in new, m \in 1 .. sends : m < n
      /\ new \cap (1 .. sends) = {}
  <2>1. sends \in Nat /\ sends' \in Nat
    BY DEF ClientTypeOK
  <2>2. CASE message.type = "push"
    BY <2>1, <2>2
  <2>3. CASE message.type # "push"
    BY <2>1, <2>3
  <2> QED BY <2>1, <2>2, <2>3
<1>2. Got' = Got /\ IsInjective(received)'
  BY DEF Got, OnceInv, OrderOK
<1>3. CASE CanSend
  <2>1. /\ connection \in Socket /\ connection # NoSocket /\ phase[connection] = "open"
        /\ outgoing[connection] \in Seq(Message)
        /\ outgoing' = [outgoing EXCEPT ![connection] = Append(outgoing[connection], message)]
        /\ queue = <<>> /\ queue' = queue
    BY <1>3 DEF CanSend, SendMessage, ClientTypeOK, OnceInv, SocketsOK
  <2>2. \A socket \in Socket \ {connection} : outgoing'[socket] = outgoing[socket]
    BY <2>1 DEF ClientTypeOK
  <2>3. outgoing'[connection] = Append(outgoing[connection], message)
    BY <2>1 DEF ClientTypeOK
  <2>4. message.type = "push" => \A n \in NumbersIn(outgoing[connection]) : n < message.number
    BY <1>1, OnceTypes, <2>1 DEF SentOn
  <2>5. InOrder(outgoing[connection])
    BY <2>1 DEF OnceInv, OrderOK
  <2>6. /\ NumbersIn(outgoing'[connection]) = NumbersIn(outgoing[connection]) \cup new
        /\ InOrder(outgoing'[connection])
    BY <2>1, <2>3, <2>4, <2>5, AppendNumbers
  <2>7. /\ SentOn(connection)' = SentOn(connection) \cup new
        /\ \A socket \in Socket \ {connection} : SentOn(socket)' = SentOn(socket)
        /\ Queued = {} /\ Queued' = {}
        /\ InUse = SentOn(connection) /\ InUse' = SentOn(connection)'
    BY <2>1, <2>2, <2>6, NoNumbers DEF SentOn, Queued, InUse
  <2>8. SocketsOK'
    BY <2>1, <2>2 DEF OnceInv, SocketsOK
  <2>9. OrderOK'
    BY <1>2, <2>1, <2>2, <2>6 DEF OnceInv, OrderOK
  <2>10. PlacesOK'
    <3>1. NumbersOK'
      BY <1>1, OnceTypes, <1>2, <2>1, <2>7 DEF OnceInv, PlacesOK, NumbersOK
    <3>2. SocketsApart'
      BY <1>1, OnceTypes, <1>2, <2>1, <2>7 DEF OnceInv, PlacesOK, SocketsApart
    <3>3. NoneLost'
      BY <1>1, OnceTypes, <1>2, <2>1, <2>7 DEF OnceInv, PlacesOK, NoneLost
    <3> QED BY <3>1, <3>2, <3>3 DEF PlacesOK
  <2>11. AgesOK'
    BY <1>1, OnceTypes, <2>1, <2>7 DEF OnceInv, AgesOK
  <2> QED BY <2>8, <2>9, <2>10, <2>11 DEF OnceInv
<1>4. CASE ~CanSend
  <2>1. outgoing' = outgoing /\ queue' = Append(queue, message) /\ queue \in Seq(Message)
    BY <1>4 DEF SendMessage, ClientTypeOK
  <2>2. message.type = "push" => \A n \in NumbersIn(queue) : n < message.number
    BY <1>1, OnceTypes DEF Queued
  <2>3. NumbersIn(queue') = NumbersIn(queue) \cup new /\ InOrder(queue')
    BY <2>1, <2>2, AppendNumbers DEF OnceInv, OrderOK
  <2>4. /\ \A socket \in Socket : SentOn(socket)' = SentOn(socket)
        /\ Queued' = Queued \cup new
        /\ InUse' = InUse
    BY <2>1, <2>3 DEF SentOn, Queued, InUse
  <2>5. SocketsOK'
    BY <1>4, <2>1 DEF OnceInv, SocketsOK, CanSend
  <2>6. OrderOK'
    BY <1>2, <2>1, <2>3 DEF OnceInv, OrderOK
  <2>7. PlacesOK'
    <3>1. NumbersOK'
      BY <1>1, OnceTypes, <1>2, <2>4 DEF OnceInv, PlacesOK, NumbersOK
    <3>2. SocketsApart'
      BY <1>1, OnceTypes, <1>2, <2>4 DEF OnceInv, PlacesOK, SocketsApart
    <3>3. NoneLost'
      BY <1>1, OnceTypes, <1>2, <2>4 DEF OnceInv, PlacesOK, NoneLost
    <3> QED BY <3>1, <3>2, <3>3 DEF PlacesOK
  <2>8. AgesOK'
    BY <1>1, OnceTypes, <2>4 DEF OnceInv, AgesOK
  <2> QED BY <2>5, <2>6, <2>7, <2>8 DEF OnceInv
<1> QED BY <1>3, <1>4

\* What was queued is sent, all of it and first.
LEMMA OnOpenOnce ==
    ASSUME ClientTypeOK, OnceInv, NEW socket \in Socket, OnOpen(socket)
    PROVE  OnceInv'
<1>1. /\ phase[socket] = "connecting" /\ phase' = [phase EXCEPT ![socket] = "open"]
      /\ outgoing' = [outgoing EXCEPT ![socket] = queue]
      /\ queue' = <<>>
      /\ UNCHANGED <<connection, received, sends, failures>>
  BY DEF OnOpen, worldVars
<1>2. socket = connection /\ connection # NoSocket /\ outgoing[socket] = <<>>
  BY <1>1, Constants DEF ClientTypeOK, Alive, OnceInv, SocketsOK
<1>3. /\ outgoing'[socket] = queue
      /\ \A other \in Socket \ {socket} : outgoing'[other] = outgoing[other]
  BY <1>1 DEF ClientTypeOK
<1>4. /\ SentOn(socket) = {} /\ SentOn(socket)' = Queued
      /\ \A other \in Socket \ {socket} : SentOn(other)' = SentOn(other)
      /\ Queued' = {} /\ Got' = Got
      /\ InUse = {} /\ InUse' = Queued
  BY <1>1, <1>2, <1>3, NoNumbers DEF SentOn, Queued, Got, InUse
<1>5. SocketsOK'
  <2>1. ASSUME NEW other \in Socket, phase'[other] \in {"closed", "connecting"}
        PROVE  outgoing'[other] = <<>>
    BY <1>1, <1>3, <2>1 DEF ClientTypeOK, OnceInv, SocketsOK
  <2> QED BY <1>1, <2>1 DEF SocketsOK
<1>6. OrderOK'
  BY <1>1, <1>3, NoNumbers DEF OnceInv, OrderOK
<1>7. PlacesOK'
  <2>1. NumbersOK'
    <3>1. ASSUME NEW other \in Socket
          PROVE  SentOn(other)' \subseteq 1 .. sends /\ SentOn(other)' \cap Got = {}
      <4>1. CASE other = socket
        BY <1>4, <4>1 DEF OnceInv, PlacesOK, NumbersOK
      <4>2. CASE other # socket
        BY <1>4, <4>2 DEF OnceInv, PlacesOK, NumbersOK
      <4> QED BY <4>1, <4>2
    <3> QED BY <1>1, <1>4, <3>1, OnceTypes DEF NumbersOK
  <2>2. SocketsApart'
    <3>1. \A other \in Socket \ {socket} : SentOn(other)' \cap SentOn(socket)' = {}
      BY <1>4 DEF OnceInv, PlacesOK, NumbersOK
    <3>2. \A one, other \in Socket \ {socket} :
             one # other => SentOn(one)' \cap SentOn(other)' = {}
      BY <1>4 DEF OnceInv, PlacesOK, SocketsApart
    <3> QED BY <3>1, <3>2 DEF SocketsApart
  <2>3. NoneLost'
    BY <1>1, <1>4 DEF OnceInv, PlacesOK, NoneLost
  <2> QED BY <2>1, <2>2, <2>3 DEF PlacesOK
<1>8. AgesOK'
  BY <1>1, <1>4 DEF OnceInv, AgesOK
<1> QED BY <1>5, <1>6, <1>7, <1>8 DEF OnceInv

\* A close that the client has asked for loses nothing; a cut loses what was on the socket.
LEMMA OnCloseOnce ==
    ASSUME ClientTypeOK, OnceInv, NEW socket \in Socket, OnClose(socket)
    PROVE  OnceInv'
<1>1. /\ phase' = [phase EXCEPT ![socket] = "closed"]
      /\ outgoing' = [outgoing EXCEPT ![socket] = <<>>]
      /\ outgoing[socket] = <<>> \/ failures' # 0
      /\ failures' # 0 \/ failures' = failures
      /\ UNCHANGED <<connection, queue, received, sends>>
      /\ connected' => connected
  BY DEF OnClose, Closes, Forget, ClientTypeOK
<1>2. /\ outgoing'[socket] = <<>>
      /\ \A other \in Socket \ {socket} : outgoing'[other] = outgoing[other]
  BY <1>1 DEF ClientTypeOK
<1>3. /\ SentOn(socket)' = {}
      /\ \A other \in Socket \ {socket} : SentOn(other)' = SentOn(other)
      /\ Queued' = Queued /\ Got' = Got
      /\ failures' = 0 => SentOn(socket) = {} /\ failures = 0
      /\ InUse' = IF connection = socket THEN {} ELSE InUse
  BY <1>1, <1>2, Constants, NoNumbers DEF SentOn, Queued, Got, InUse, ClientTypeOK
<1>4. SocketsOK'
  <2>1. ASSUME NEW other \in Socket, phase'[other] \in {"closed", "connecting"}
        PROVE  outgoing'[other] = <<>>
    BY <1>1, <1>2, <2>1 DEF ClientTypeOK, OnceInv, SocketsOK
  <2>2. CanSend' => CanSend
    BY <1>1 DEF CanSend, ClientTypeOK
  <2> QED BY <1>1, <2>1, <2>2 DEF OnceInv, SocketsOK
<1>5. OrderOK'
  BY <1>1, <1>2, NoNumbers DEF OnceInv, OrderOK
<1>6. PlacesOK'
  <2>1. NumbersOK'
    BY <1>1, <1>3 DEF OnceInv, PlacesOK, NumbersOK
  <2>2. SocketsApart'
    BY <1>1, <1>3 DEF OnceInv, PlacesOK, SocketsApart
  <2>3. NoneLost'
    BY <1>1, <1>3 DEF OnceInv, PlacesOK, NoneLost
  <2> QED BY <2>1, <2>2, <2>3 DEF PlacesOK
<1>7. InUse \cup Queued \subseteq Nat /\ sends \in Nat
  BY OnceTypes
<1>8. AgesOK'
  BY <1>1, <1>3, <1>7 DEF OnceInv, AgesOK
<1> QED BY <1>4, <1>5, <1>6, <1>8 DEF OnceInv

\* The oldest message of a socket goes to the room, behind all that have arrived.
LEMMA ArriveOnce ==
    ASSUME ClientTypeOK, OnceInv, NEW socket \in Socket, Arrive(socket)
    PROVE  OnceInv'
<1> DEFINE message == Head(outgoing[socket])
           new     == {n \in {message.number} : message.type = "push"}
<1>1. /\ outgoing[socket] \in Seq(Message) /\ outgoing[socket] # <<>>
      /\ outgoing' = [outgoing EXCEPT ![socket] = Tail(outgoing[socket])]
      /\ UNCHANGED <<phase, connection, connected, queue, sends, failures>>
      /\ received' = IF message.type = "push" THEN Append(received, message.number) ELSE received
  BY DEF Arrive, ClientTypeOK, dbVars
<1>2. /\ outgoing'[socket] = Tail(outgoing[socket])
      /\ \A other \in Socket \ {socket} : outgoing'[other] = outgoing[other]
  BY <1>1 DEF ClientTypeOK
<1>3. /\ NumbersIn(outgoing[socket]) = NumbersIn(Tail(outgoing[socket])) \cup new
      /\ InOrder(Tail(outgoing[socket]))
      /\ \A m \in new, n \in NumbersIn(Tail(outgoing[socket])) : m < n
  BY <1>1, TailNumbers DEF OnceInv, OrderOK
<1>4. Got' = Got \cup new /\ IsInjective(received')
  <2>1. new \cap Got = {} /\ new \subseteq 1 .. MaxSends
    BY <1>1, <1>3, NumberTypes DEF SentOn, OnceInv, PlacesOK, NumbersOK, SocketsApart, NoneLost
  <2>2. received \in Seq(1 .. MaxSends) /\ IsInjective(received)
    BY DEF ClientTypeOK, OnceInv, OrderOK
  <2>3. CASE message.type = "push"
    <3>1. message.number \in 1 .. MaxSends /\ message.number \notin Range(received)
      BY <2>1, <2>3 DEF Got
    <3>2. received' = Append(received, message.number)
      BY <1>1, <2>3
    <3> QED BY <2>2, <2>3, <3>1, <3>2, AppendOnce DEF Got
  <2>4. CASE message.type # "push"
    BY <1>1, <2>2, <2>4 DEF Got
  <2> QED BY <2>3, <2>4
<1> HIDE DEF message, new
<1>5. /\ SentOn(socket) = SentOn(socket)' \cup new
      /\ \A m \in new, n \in SentOn(socket)' : m < n
      /\ \A other \in Socket \ {socket} : SentOn(other)' = SentOn(other)
      /\ Queued' = Queued
      /\ InUse = IF connection = NoSocket THEN {} ELSE SentOn(connection)
      /\ InUse' = IF connection = NoSocket THEN {} ELSE SentOn(connection)'
  BY <1>1, <1>2, <1>3 DEF SentOn, Queued, InUse
<1>6. new \subseteq Nat /\ sends \in Nat /\ Queued \subseteq Nat
      /\ \A other \in Socket : SentOn(other) \subseteq Nat
  BY <1>5 DEF OnceInv, PlacesOK, NumbersOK, ClientTypeOK
<1>7. SocketsOK'
  BY <1>1, <1>2, HeadTailProperties DEF OnceInv, SocketsOK, CanSend, Arrive
<1>8. OrderOK'
  BY <1>1, <1>2, <1>3, <1>4 DEF OnceInv, OrderOK
<1>9. PlacesOK'
  <2>1. \A m \in new : m \notin SentOn(socket)'
    BY <1>5, <1>6
  <2>2. /\ \A other \in Socket : SentOn(other)' \subseteq SentOn(other)
        /\ \A other \in Socket : new \cap SentOn(other)' = {}
        /\ new \subseteq 1 .. sends /\ new \cap Queued = {}
    BY <1>5, <2>1 DEF OnceInv, PlacesOK, NumbersOK, SocketsApart, NoneLost
  <2>3. ASSUME failures = 0, NEW n \in 1 .. sends
        PROVE  n \in Queued \cup Got' \/ \E other \in Socket : n \in SentOn(other)'
    BY <1>4, <1>5, <2>3 DEF OnceInv, PlacesOK, NumbersOK, SocketsApart, NoneLost
  <2>4. ASSUME NEW one \in Socket, NEW other \in Socket \ {one}
        PROVE  SentOn(one)' \cap SentOn(other)' = {}
    BY <2>2 DEF OnceInv, PlacesOK, NumbersOK, SocketsApart, NoneLost
  <2>5. \A other \in Socket : /\ SentOn(other)' \subseteq 1 .. sends
                              /\ SentOn(other)' \cap (Queued \cup Got') = {}
    BY <1>4, <2>2 DEF OnceInv, PlacesOK, NumbersOK, SocketsApart, NoneLost
  <2>6. Got' \subseteq 1 .. sends /\ Queued \cap Got' = {}
    BY <1>4, <2>2 DEF OnceInv, PlacesOK, NumbersOK, SocketsApart, NoneLost
  <2>7. NumbersOK'
    <3>1. sends' = sends /\ Queued' = Queued /\ Queued \subseteq 1 .. sends
      BY <1>1, <1>5, OnceTypes
    <3> QED BY <2>5, <2>6, <3>1 DEF NumbersOK
  <2>8. SocketsApart'
    BY <2>4 DEF SocketsApart
  <2>9. NoneLost'
    BY <1>1, <1>5, <2>3 DEF NoneLost
  <2> QED BY <2>7, <2>8, <2>9 DEF PlacesOK
<1>10. AgesOK'
  <2>1. CASE connection = socket
    BY <1>1, <1>5, <1>6, <2>1, Constants DEF OnceInv, AgesOK
  <2>2. CASE connection # socket
    <3>1. connection = NoSocket \/ connection \in Socket \ {socket}
      BY <2>2 DEF ClientTypeOK
    <3>2. InUse' = InUse
      BY <1>1, <1>5, <3>1 DEF InUse
    <3> QED BY <1>1, <1>5, <3>2 DEF OnceInv, AgesOK
  <2> QED BY <2>1, <2>2
<1> QED BY <1>7, <1>8, <1>9, <1>10 DEF OnceInv

\* Every step keeps the invariant.
LEMMA OnceStep ==
    ASSUME ClientTypeOK, ClientTypeOK', OnceInv, [ClientNext]_clientVars
    PROVE  OnceInv'
<1>1. ASSUME UNCHANGED <<phase, connection, connected, outgoing, queue, received, sends, failures>>
      PROVE  OnceInv'
  BY <1>1 DEF OnceInv, SocketsOK, CanSend, OrderOK, PlacesOK, NumbersOK, SocketsApart, NoneLost,
             AgesOK, SentOn, Queued, Got, InUse
<1>2. CASE UNCHANGED clientVars
  BY <1>1, <1>2 DEF clientVars, socketVars, dbVars, worldVars
<1>3. ASSUME NEW url \in Room, Connect(url)
      PROVE  OnceInv'
  BY <1>3, ConnectToOnce DEF Connect
<1>4. CASE Reconnect
  <2>1. PICK url \in Room : ConnectTo(url)
    BY <1>4 DEF Reconnect, ClientTypeOK
  <2> QED BY <1>4, <2>1, ConnectToOnce DEF Reconnect, worldVars
<1>5. CASE Disconnect
  <2>1. /\ phase' = [phase EXCEPT ![connection] = IF Alive(connection) THEN "closing" ELSE @]
        /\ UNCHANGED <<outgoing, connection, connected, queue, received, sends, failures>>
    BY <1>5 DEF Disconnect
  <2>2. SocketsOK'
    <3>1. \A socket \in Socket : phase'[socket] = phase[socket] \/ phase'[socket] = "closing"
      BY <2>1 DEF ClientTypeOK
    <3>2. CanSend' => CanSend
      BY <2>1, Constants DEF CanSend, ClientTypeOK, Alive
    <3> QED BY <2>1, <3>1, <3>2 DEF OnceInv, SocketsOK
  <2> QED BY <2>1, <2>2 DEF OnceInv, OrderOK, PlacesOK, NumbersOK, SocketsApart, NoneLost,
             AgesOK, SentOn, Queued, Got, InUse
<1>6. CASE Send
  <2>1. /\ PushMessage(sends + 1) \in Message
        /\ PushMessage(sends + 1).type = "push" /\ PushMessage(sends + 1).number = sends + 1
    BY <1>6 DEF Send, PushMessage, Message, ClientTypeOK
  <2> QED BY <1>6, <2>1, SendMessageOnce DEF Send
<1>7. ASSUME NEW key \in Key, Subscribe(key)
      PROVE  OnceInv'
  <2>1. GetMessage(key) \in Message /\ GetMessage(key).type # "push"
    BY DEF GetMessage, Message
  <2> QED BY <1>7, <2>1, SendMessageOnce DEF Subscribe, worldVars
<1> QED BY <1>2, <1>3, <1>4, <1>5, <1>6, <1>7, OnOpenOnce, OnCloseOnce, ArriveOnce DEF ClientNext

LEMMA OnceStart ==
    ASSUME ClientInit
    PROVE  OnceInv
<1>1. /\ \A socket \in Socket : SentOn(socket) = {}
      /\ Queued = {} /\ Got = {} /\ InUse = {} /\ sends = 0
  BY NoNumbers, Constants DEF ClientInit, SentOn, Queued, Got, InUse, Range
<1>2. SocketsOK
  BY DEF ClientInit, SocketsOK
<1>3. OrderOK
  BY NoNumbers DEF ClientInit, OrderOK, IsInjective
<1>4. PlacesOK /\ AgesOK
  BY <1>1 DEF PlacesOK, NumbersOK, SocketsApart, NoneLost, AgesOK
<1> QED BY <1>2, <1>3, <1>4 DEF OnceInv

\* However often its connection is cut and its application connects, disconnects and
\* connects again, a client sends every message once, keeps the order of what waits, and
\* loses none but by a cut.
THEOREM SendsEachOnce == ClientSpec => []EachSentOnce
<1>1. ClientInit => OnceInv
  BY OnceStart
<1>2. ClientTypeOK /\ ClientTypeOK' /\ OnceInv /\ [ClientNext]_clientVars => OnceInv'
  BY OnceStep
<1>3. ClientTypeOK /\ OnceInv => EachSentOnce
  BY OnceImplies
<1> QED BY <1>1, <1>2, <1>3, ClientTypeCorrect, PTL DEF ClientSpec

-----------------------------------------------------------------------------
(***************************************************************************)
(* The provider.  Its steps are those of a client, but for the cleanup of  *)
(* its effect, which disconnects whether or not there is a connection.     *)
(***************************************************************************)

RequestTypeOK(request) ==
    request.given \in Room \cup {NoRoom} /\ request.room \in Room \cup {NoRoom}

ProviderTypeOK ==
    /\ prop \in Room \cup {NoRoom} /\ param \in Room \cup {NoRoom}
    /\ rooms \subseteq Room
    /\ \A request \in requests : RequestTypeOK(request)
    /\ effects \in Nat
    /\ hooked \subseteq Key
    /\ listening \in {"no", "early", "late"}
    /\ shown \in [connected : BOOLEAN, qr : Room \cup {NoRoom}, latency : BOOLEAN]
    /\ waiting \in BOOLEAN

\* Where an answer leads: to a new room, or to the one that was asked for.
Leads(request, url) ==
    /\ url \in Room
    /\ request.room # NoRoom => url = request.room
    /\ request \in requests /\ requests' = requests \ {request}
    /\ param' = IF request.given = NoRoom THEN url ELSE param
    /\ Connect(url)
    /\ rooms' = rooms \cup {url}
    /\ UNCHANGED <<hookVars, mounted, prop, effects, late>>

LEMMA ResolveLeads ==
    ASSUME ProviderTypeOK, NEW request \in requests, Resolve(request)
    PROVE  \E url \in Room : Leads(request, url)
<1>1. PICK url \in (IF request.room = NoRoom THEN NewRoom ELSE GetRoom(request.room)) :
         /\ requests' = requests \ {request}
         /\ rooms' = rooms \cup {url}
         /\ IF request.given = NoRoom THEN SetRoomId(url) ELSE UNCHANGED param
         /\ Connect(url)
         /\ UNCHANGED <<hookVars, mounted, prop, effects, late>>
  BY DEF Resolve
<1>2. url \in Room /\ (request.room # NoRoom => url = request.room)
  BY <1>1 DEF ProviderTypeOK, NewRoom, GetRoom
<1>3. param' = IF request.given = NoRoom THEN url ELSE param
  BY <1>1 DEF SetRoomId
<1> QED BY <1>1, <1>2, <1>3 DEF Leads

\* What a step of the provider is to its client.
LEMMA ProviderClientStep ==
    ASSUME ProviderTypeOK, [ProviderNext]_providerVars
    PROVE  [ClientNext]_clientVars \/ (mounted /\ Cleanup)
<1>1. CASE UNCHANGED clientVars
  BY <1>1
<1>2. CASE Unmount \/ Change
  BY <1>2 DEF Unmount, Change
<1>3. ASSUME NEW request \in requests, Resolve(request)
      PROVE  ClientNext
  BY <1>3, ResolveLeads DEF Leads, ClientNext
<1>4. ASSUME NEW key \in Key, UseKey(key)
      PROVE  ClientNext
  BY <1>4 DEF UseKey, ClientNext
<1>5. ASSUME NEW socket \in Socket, Open(socket) \/ Close(socket) \/ Arrive(socket)
      PROVE  ClientNext
  BY <1>5 DEF Open, Close, ClientNext
<1>6. CASE Reconnect
  BY <1>6 DEF ClientNext
<1>7. CASE Mount \/ UseConnectionStatus \/ UseLatency
  BY <1>1, <1>7 DEF Mount, UseConnectionStatus, UseLatency
<1>8. ASSUME NEW socket \in Socket, AnswerPing(socket) \/ OnPong(socket)
      PROVE  UNCHANGED clientVars
  BY <1>8 DEF AnswerPing, OnPong
<1>9. ASSUME NEW request \in requests, Reject(request)
      PROVE  UNCHANGED clientVars
  BY <1>9 DEF Reject
<1>10. CASE UNCHANGED providerVars
  BY <1>1, <1>10 DEF providerVars
<1> QED BY <1>2, <1>3, <1>4, <1>5, <1>6, <1>7, <1>8, <1>9, <1>10 DEF ProviderNext, GoOn

\* A cleanup leaves the socket in use closing and without its handlers, if it is there.
LEMMA CleanupPhases ==
    ASSUME ClientTypeOK, Cleanup
    PROVE  \A socket \in Socket :
              /\ phase'[socket] = IF socket = connection /\ Alive(socket) THEN "closing"
                                                                          ELSE phase[socket]
              /\ silent'[socket] = (silent[socket] \/ (socket = connection /\ phase[socket] # "closed"))
  BY DEF Cleanup

LEMMA CleanupTypes ==
    ASSUME ClientTypeOK, Cleanup
    PROVE  ClientTypeOK'
<1>1. phase' \in [Socket -> {"closed", "connecting", "open", "closing"}]
  BY DEF Cleanup, ClientTypeOK
<1>2. silent' \in [Socket -> BOOLEAN]
  BY DEF Cleanup, ClientTypeOK
<1>3. \A socket \in Socket : Alive(socket)' => socket = connection'
  BY CleanupPhases DEF Cleanup, Alive, ClientTypeOK
<1>4. /\ wanted' = NoRoom /\ subscriptions' = {}
      /\ UNCHANGED <<room, outgoing, gets, connection, connected, queue, timer, strays,
                     received, sends, connects, failures>>
  BY DEF Cleanup
<1> QED BY <1>1, <1>2, <1>3, <1>4 DEF ClientTypeOK

LEMMA CleanupComesBack ==
    ASSUME ClientTypeOK, ComebackInv, Cleanup
    PROVE  ComebackInv'
<1>1. wanted' = NoRoom /\ room' = room
  BY DEF Cleanup
<1>2. ASSUME NEW socket \in Socket
      PROVE  /\ phase'[socket] # "closed" => room'[socket] \in Room
             /\ silent'[socket] => phase'[socket] = "closing"
  BY <1>1, CleanupPhases DEF ComebackInv, Alive, ClientTypeOK
<1> QED BY <1>1, <1>2 DEF ComebackInv

LEMMA CleanupOnce ==
    ASSUME ClientTypeOK, OnceInv, Cleanup
    PROVE  OnceInv'
<1>1. UNCHANGED <<outgoing, connection, connected, queue, received, sends, failures>>
  BY DEF Cleanup
<1>2. SocketsOK'
  <2>1. \A socket \in Socket : phase'[socket] = phase[socket] \/ phase'[socket] = "closing"
    BY CleanupPhases
  <2>2. CanSend' => CanSend
    BY <1>1, CleanupPhases, Constants DEF CanSend, ClientTypeOK
  <2> QED BY <1>1, <2>1, <2>2 DEF OnceInv, SocketsOK
<1> QED BY <1>1, <1>2 DEF OnceInv, OrderOK, PlacesOK, NumbersOK, SocketsApart, NoneLost,
           AgesOK, SentOn, Queued, Got, InUse

\* What holds of a client holds of the one that the provider keeps.
ClientInv == ClientTypeOK /\ ComebackInv /\ OnceInv

LEMMA ClientInvStep ==
    ASSUME ProviderTypeOK, ClientInv, [ProviderNext]_providerVars
    PROVE  ClientInv'
<1>1. CASE [ClientNext]_clientVars
  BY <1>1, ClientTypeStep, ComebackStep, OnceStep DEF ClientInv
<1>2. CASE Cleanup
  BY <1>2, CleanupTypes, CleanupComesBack, CleanupOnce DEF ClientInv
<1> QED BY <1>1, <1>2, ProviderClientStep

\* Every step keeps the types.
LEMMA ProviderTypeStep ==
    ASSUME ProviderTypeOK, ClientTypeOK, [ProviderNext]_providerVars
    PROVE  ProviderTypeOK'
<1>1. CASE UNCHANGED <<pageVars, hookVars>>
  BY <1>1 DEF ProviderTypeOK, pageVars, hookVars, RequestTypeOK
<1>2. CASE Mount
  <2>1. RequestTypeOK(RequestFor(prop))
    BY DEF RequestTypeOK, RequestFor, GetRoomId, ProviderTypeOK
  <2> QED BY <1>2, <2>1 DEF Mount, hookVars, ProviderTypeOK, RequestTypeOK
<1>3. CASE Unmount
  BY <1>3 DEF Unmount, ProviderTypeOK, RequestTypeOK, NothingShown
<1>4. CASE Change
  <2>1. prop' \in Room \cup {NoRoom}
    BY <1>4, PropAssumption DEF Change
  <2>2. RequestTypeOK(RequestFor(prop'))
    BY <2>1 DEF RequestTypeOK, RequestFor, GetRoomId, ProviderTypeOK
  <2>3. /\ requests' = requests \cup {RequestFor(prop')} /\ effects' = effects + 1
        /\ UNCHANGED <<param, rooms, hooked, listening, shown, waiting>>
    BY <1>4 DEF Change, hookVars
  <2> QED BY <2>1, <2>2, <2>3 DEF ProviderTypeOK, RequestTypeOK
<1>5. ASSUME NEW request \in requests, Resolve(request)
      PROVE  ProviderTypeOK'
  <2>1. PICK url \in Room : Leads(request, url)
    BY <1>5, ResolveLeads
  <2> QED BY <2>1 DEF Leads, hookVars, ProviderTypeOK, RequestTypeOK
<1>6. ASSUME NEW request \in requests, Reject(request)
      PROVE  ProviderTypeOK'
  BY <1>6 DEF Reject, hookVars, ProviderTypeOK, RequestTypeOK
<1>7. ASSUME NEW key \in Key, UseKey(key)
      PROVE  ProviderTypeOK'
  BY <1>7 DEF UseKey, pageVars, ProviderTypeOK, RequestTypeOK
<1>8. CASE UseConnectionStatus
  BY <1>8 DEF UseConnectionStatus, pageVars, ProviderTypeOK, RequestTypeOK
<1>9. CASE UseLatency
  BY <1>9 DEF UseLatency, pageVars, ProviderTypeOK, RequestTypeOK
<1>10. ASSUME NEW socket \in Socket, AnswerPing(socket)
       PROVE  ProviderTypeOK'
  BY <1>10 DEF AnswerPing, pageVars, ProviderTypeOK, RequestTypeOK
<1>11. ASSUME NEW socket \in Socket, OnPong(socket)
       PROVE  ProviderTypeOK'
  BY <1>11 DEF OnPong, ReceivedResponse, pageVars, ProviderTypeOK, RequestTypeOK
<1>12. ASSUME NEW socket \in Socket, Open(socket) \/ Close(socket)
       PROVE  ProviderTypeOK'
  <2>1. shown' = shown \/ SetStatus(TRUE) \/ SetStatus(FALSE)
    BY <1>12 DEF Open, Close
  <2>2. shown' \in [connected : BOOLEAN, qr : Room \cup {NoRoom}, latency : BOOLEAN]
    BY <2>1 DEF SetStatus, RoomQRCode, GetRoomId, ProviderTypeOK
  <2> QED BY <1>12, <2>2 DEF Open, Close, pageVars, ProviderTypeOK, RequestTypeOK
<1> QED BY <1>1, <1>2, <1>3, <1>4, <1>5, <1>6, <1>7, <1>8, <1>9, <1>10, <1>11, <1>12
        DEF ProviderNext, GoOn, providerVars

(***************************************************************************)
(* Leaving the room.                                                       *)
(***************************************************************************)

\* Nothing can bring the client back: it has no request, no timer, and no socket that
\* would set one when it closes.
NothingUnderWay ==
    /\ requests = {} /\ timer = NoRoom
    /\ \A url \in Room : strays[url] = 0
    /\ \A socket \in Socket :
          phase[socket] # "closed" => phase[socket] = "closing" /\ silent[socket]

LeaveInv == (~mounted /\ ~late) => NothingUnderWay

LEMMA LeaveStep ==
    ASSUME ClientTypeOK, ComebackInv, LeaveInv, [ProviderNext]_providerVars
    PROVE  LeaveInv'
<1>1. CASE Mount \/ Change
  BY <1>1 DEF Mount, Change, LeaveInv
<1>2. CASE Unmount
  <2> SUFFICES ASSUME ~late'
               PROVE  NothingUnderWay'
    BY DEF LeaveInv
  <2>1. Cleanup /\ ~UnderWay /\ requests' = requests
    BY <1>2 DEF Unmount, Cleanup
  <2>2. requests' = {} /\ timer' = NoRoom
    BY <2>1 DEF UnderWay, Cleanup
  <2>3. \A url \in Room : strays'[url] = 0
    BY <2>1 DEF UnderWay, Cleanup, ClientTypeOK
  <2>4. ASSUME NEW socket \in Socket, phase'[socket] # "closed"
        PROVE  phase'[socket] = "closing" /\ silent'[socket]
    <3>1. CASE socket = connection
      BY <2>1, <2>4, <3>1, CleanupPhases DEF Alive, ClientTypeOK
    <3>2. CASE socket # connection
      <4>1. phase'[socket] = phase[socket] /\ silent'[socket] = silent[socket]
        BY <2>1, <3>2, CleanupPhases DEF ClientTypeOK
      <4>2. silent[socket]
        BY <2>1, <2>4, <3>2, <4>1 DEF UnderWay
      <4> QED BY <4>1, <4>2 DEF ComebackInv
    <3> QED BY <3>1, <3>2
  <2> QED BY <2>2, <2>3, <2>4 DEF NothingUnderWay
<1>3. ASSUME UNCHANGED <<mounted, late, requests, timer, strays, phase, silent>>
      PROVE  LeaveInv'
  BY <1>3 DEF LeaveInv, NothingUnderWay
<1>4. ASSUME UNCHANGED <<mounted, late>>, NothingUnderWay => NothingUnderWay'
      PROVE  LeaveInv'
  BY <1>4 DEF LeaveInv
<1>5. CASE UNCHANGED providerVars
  BY <1>3, <1>5 DEF providerVars, clientVars, socketVars, dbVars, pageVars
<1>6. CASE UseConnectionStatus \/ UseLatency
  BY <1>3, <1>6 DEF UseConnectionStatus, UseLatency, clientVars, socketVars, dbVars, pageVars
<1>7. ASSUME NEW socket \in Socket, AnswerPing(socket) \/ OnPong(socket)
      PROVE  LeaveInv'
  BY <1>3, <1>7 DEF AnswerPing, OnPong, clientVars, socketVars, dbVars, pageVars
<1>8. ASSUME NEW key \in Key, UseKey(key)
      PROVE  LeaveInv'
  BY <1>3, <1>8 DEF UseKey, Subscribe, pageVars
<1>9. ASSUME NEW request \in requests, Resolve(request) \/ Reject(request)
      PROVE  LeaveInv'
  BY <1>4, <1>9 DEF Resolve, Reject, NothingUnderWay
<1>10. CASE Reconnect /\ UNCHANGED <<pageVars, hookVars>>
  BY <1>4, <1>10 DEF Reconnect, NothingUnderWay, pageVars
<1>11. ASSUME NEW socket \in Socket, Open(socket)
       PROVE  LeaveInv'
  BY <1>4, <1>11 DEF Open, OnOpen, NothingUnderWay, pageVars
<1>12. ASSUME NEW socket \in Socket, Arrive(socket), UNCHANGED <<pageVars, hookVars>>
       PROVE  LeaveInv'
  BY <1>3, <1>12 DEF Arrive, dbVars, pageVars
<1>13. ASSUME NEW socket \in Socket, Close(socket)
       PROVE  LeaveInv'
  <2>1. OnClose(socket) /\ UNCHANGED <<mounted, late, requests>>
    BY <1>13 DEF Close, pageVars
  <2>2. ASSUME NothingUnderWay
        PROVE  NothingUnderWay'
    <3>1. silent[socket]
      BY <2>1, <2>2 DEF OnClose, Closes, NothingUnderWay
    <3>2. /\ UNCHANGED <<timer, strays>>
          /\ phase' = [phase EXCEPT ![socket] = "closed"]
          /\ silent' = [silent EXCEPT ![socket] = FALSE]
      BY <2>1, <3>1 DEF OnClose, Forget
    <3> QED BY <2>1, <2>2, <3>2 DEF NothingUnderWay, ClientTypeOK
  <2> QED BY <1>4, <2>1, <2>2
<1> QED BY <1>1, <1>2, <1>5, <1>6, <1>7, <1>8, <1>9, <1>10, <1>11, <1>12, <1>13
        DEF ProviderNext, GoOn

\* A page that is opened, with a link to a room or without one.
LEMMA ProviderStart ==
    ASSUME ProviderInit
    PROVE  ProviderTypeOK /\ ClientInv /\ LeaveInv
<1>1. ClientInv
  BY ClientInitTypeOK, OnceStart DEF ProviderInit, ClientInit, ClientInv, ComebackInv
<1>2. ProviderTypeOK
  BY PropAssumption DEF ProviderInit, ProviderTypeOK, NothingShown
<1>3. LeaveInv
  BY DEF ProviderInit, ClientInit, LeaveInv, NothingUnderWay
<1> QED BY <1>1, <1>2, <1>3

\* The provider's state is well typed, and its client's is one that a client can be in,
\* whatever the order of effects, answers, cuts and calls of hooks.
LEMMA ProviderInvariant == ProviderSpec => [](ProviderTypeOK /\ ClientInv)
<1>1. ProviderInit => ProviderTypeOK /\ ClientInv
  BY ProviderStart
<1>2. ProviderTypeOK /\ ClientInv /\ [ProviderNext]_providerVars => (ProviderTypeOK /\ ClientInv)'
  BY ProviderTypeStep, ClientInvStep DEF ClientInv
<1> QED BY <1>1, <1>2, PTL DEF ProviderSpec

\* Once the provider is unmounted its client is out of the room for good, unless a request
\* or a reconnect was under way at a cleanup (driftdb-react/src/index.tsx, the effect of
\* DriftDBProvider; disconnect in driftdb/src/index.ts stops neither).
THEOREM UnmountLeaves == ProviderSpec => []LeavesRoom
<1>1. ProviderInit => LeaveInv
  BY ProviderStart
<1>2. (ProviderTypeOK /\ ClientInv) /\ LeaveInv /\ [ProviderNext]_providerVars => LeaveInv'
  BY LeaveStep DEF ClientInv
<1>3. LeaveInv => LeavesRoom
  BY DEF LeaveInv, LeavesRoom, NothingUnderWay, Alive
<1> QED BY <1>1, <1>2, <1>3, ProviderInvariant, PTL DEF ProviderSpec

(***************************************************************************)
(* The room that a page is in, and what it shows of it.                    *)
(***************************************************************************)

\* The room that is given or in the URL.
Destination == IF prop # NoRoom THEN prop ELSE param

\* The client has not been asked to connect.
Fresh ==
    /\ AllClosed /\ connection = NoSocket /\ timer = NoRoom
    /\ \A url \in Room : strays[url] = 0
    /\ wanted = NoRoom /\ ~connected

\* Whatever the client has under way leads it to a room.
Headed(url) ==
    /\ wanted \in {NoRoom, url} /\ timer \in {NoRoom, url}
    /\ \A other \in Room : strays[other] > 0 => other = url
    /\ \A socket \in Socket : phase[socket] # "closed" => room[socket] = url

AsksFor(url) == \A request \in requests : request.room = url /\ request.given = prop

\* The inductive invariant: as long as the effect has run once there is one request at
\* most, made before anything else, and all else leads to the room of its answer, which
\* is then the one given or in the URL.
OnceMounted ==
    /\ \A request, other \in requests : request = other
    /\ requests # {} => Fresh
    /\ AsksFor(Destination)
    /\ Headed(Destination)

PageInv ==
    /\ effects = 0 => ~mounted /\ Fresh /\ requests = {}
    /\ Undisturbed => OnceMounted

\* Connecting to the room that all leads to.
LEMMA ConnectToHeads ==
    ASSUME ClientTypeOK, NEW url \in Room, ConnectTo(url),
           \A socket \in Socket : phase[socket] # "closed" => room[socket] = url
    PROVE  \A socket \in Socket : phase'[socket] # "closed" => room'[socket] = url
<1>1. connection' \in Socket /\ room' = [room EXCEPT ![connection'] = url]
  BY UnusedSocket DEF ConnectTo
<1>2. \A socket \in Socket \ {connection'} :
         phase'[socket] # "closed" => phase[socket] # "closed"
  BY ConnectToPhases DEF Alive
<1> QED BY <1>1, <1>2 DEF ClientTypeOK

LEMMA ReconnectHeads ==
    ASSUME ClientTypeOK, NEW url \in Room, Headed(url), Reconnect
    PROVE  Headed(url)'
<1>1. UNCHANGED wanted
  BY DEF Reconnect, worldVars
<1>2. ConnectTo(url) /\ timer' \in {NoRoom, timer}
      /\ \A other \in Room : strays'[other] > 0 => strays[other] > 0
  <2>1. CASE timer # NoRoom /\ ConnectTo(timer) /\ timer' = NoRoom /\ UNCHANGED strays
    BY <2>1 DEF Headed
  <2>2. ASSUME NEW stray \in Room, strays[stray] > 0, ConnectTo(stray),
               strays' = [strays EXCEPT ![stray] = @ - 1], UNCHANGED timer
        PROVE  ConnectTo(url) /\ timer' \in {NoRoom, timer}
               /\ \A other \in Room : strays'[other] > 0 => strays[other] > 0
    <3>1. stray = url
      BY <2>2 DEF Headed
    <3>2. \A other \in Room : strays'[other] > 0 => strays[other] > 0
      BY <2>2 DEF ClientTypeOK
    <3> QED BY <2>2, <3>1, <3>2
  <2> QED BY <2>1, <2>2 DEF Reconnect
<1>3. \A socket \in Socket : phase'[socket] # "closed" => room'[socket] = url
  BY <1>2, ConnectToHeads DEF Headed
<1> QED BY <1>1, <1>2, <1>3 DEF Headed

LEMMA CloseHeads ==
    ASSUME ClientTypeOK, ComebackInv, NEW url, Headed(url), NEW socket \in Socket, OnClose(socket)
    PROVE  Headed(url)'
<1>1. phase[socket] # "closed" /\ room[socket] = url /\ room[socket] \in Room
  BY DEF OnClose, Closes, Headed, ComebackInv
<1>2. /\ phase' = [phase EXCEPT ![socket] = "closed"]
      /\ room' = [room EXCEPT ![socket] = NoRoom]
      /\ UNCHANGED wanted
  BY DEF OnClose, Forget
<1>3. \A other \in Socket : phase'[other] # "closed" => room'[other] = url
  BY <1>2 DEF Headed, ClientTypeOK
<1>4. CASE silent[socket]
  BY <1>2, <1>3, <1>4 DEF OnClose, Headed
<1>5. CASE ~silent[socket]
  <2>1. timer' = url /\ strays' = IF timer = NoRoom THEN strays ELSE [strays EXCEPT ![timer] = @ + 1]
    BY <1>1, <1>5 DEF OnClose, SetTimer
  <2>2. \A other \in Room : strays'[other] > 0 => other = url
    BY <2>1 DEF Headed, ClientTypeOK
  <2> QED BY <1>2, <1>3, <2>1, <2>2 DEF Headed
<1> QED BY <1>4, <1>5

\* Nothing happens to a client that has not been asked to connect.
LEMMA FreshStays ==
    ASSUME Fresh
    PROVE  /\ ~Reconnect
           /\ \A socket \in Socket : ~Open(socket) /\ ~Close(socket) /\ ~Arrive(socket)
<1>1. ~Reconnect
  BY DEF Fresh, Reconnect
<1>2. ASSUME NEW socket \in Socket
      PROVE  ~Open(socket) /\ ~Close(socket) /\ ~Arrive(socket)
  <2>1. phase[socket] = "closed"
    BY DEF Fresh, AllClosed
  <2> QED BY <2>1 DEF Open, OnOpen, Close, OnClose, Closes, Arrive
<1> QED BY <1>1, <1>2

\* What is the same for the page.
PageSame == UNCHANGED <<mounted, prop, param, requests, effects>>
LineSame == UNCHANGED <<phase, room, connection, connected, timer, strays, wanted>>

LEMMA PageStays ==
    ASSUME PageInv, PageSame, LineSame
    PROVE  PageInv'
  BY DEF PageInv, PageSame, LineSame, Undisturbed, OnceMounted, Destination, Fresh, AllClosed,
         Headed, AsksFor

LEMMA PageStep ==
    ASSUME ProviderTypeOK, ClientTypeOK, ComebackInv, PageInv, [ProviderNext]_providerVars
    PROVE  PageInv'
<1>1. CASE Mount
  <2>1. /\ ~mounted /\ effects' = effects + 1 /\ requests' = requests \cup {RequestFor(prop)}
        /\ UNCHANGED <<prop, param>> /\ LineSame
    BY <1>1 DEF Mount, LineSame, clientVars, socketVars, dbVars, worldVars
  <2>2. ASSUME effects' = 1
        PROVE  OnceMounted'
    <3>1. Fresh /\ requests = {}
      BY <2>1, <2>2 DEF PageInv, ProviderTypeOK
    <3>2. Fresh'
      BY <2>1, <3>1 DEF Fresh, AllClosed, LineSame
    <3>3. Headed(Destination)'
      BY <3>2 DEF Fresh, AllClosed, Headed
    <3>4. requests' = {RequestFor(prop)}
      BY <2>1, <3>1
    <3>5. RequestFor(prop).room = Destination' /\ RequestFor(prop).given = prop'
      BY <2>1 DEF RequestFor, Destination, GetRoomId
    <3> QED BY <3>2, <3>3, <3>4, <3>5 DEF OnceMounted, AsksFor
  <2>3. effects' # 0
    BY <2>1 DEF ProviderTypeOK
  <2> QED BY <2>2, <2>3 DEF PageInv, Undisturbed
<1>2. CASE Unmount
  BY <1>2 DEF Unmount, PageInv, Undisturbed
<1>3. CASE Change
  <2>1. mounted /\ effects' = effects + 1
    BY <1>3 DEF Change
  <2>2. effects' # 0 /\ effects' # 1
    BY <2>1 DEF PageInv, ProviderTypeOK
  <2> QED BY <2>2 DEF PageInv, Undisturbed
<1>4. ASSUME NEW request \in requests, Resolve(request)
      PROVE  PageInv'
  <2>1. PICK url \in Room : Leads(request, url)
    BY <1>4, ResolveLeads
  <2>2. UNCHANGED <<mounted, prop, effects>> /\ requests' = requests \ {request} /\ Connect(url)
        /\ param' = IF request.given = NoRoom THEN url ELSE param
    BY <2>1 DEF Leads
  <2>3. effects # 0
    BY <2>2 DEF PageInv
  <2>4. ASSUME Undisturbed
        PROVE  OnceMounted'
    <3>1. Fresh /\ OnceMounted /\ request.room = Destination /\ request.given = prop
      BY <2>4 DEF PageInv, OnceMounted, AsksFor
    <3>2. requests' = {}
      BY <2>2, <3>1 DEF OnceMounted
    <3>3. Destination' = url
      BY <2>1, <2>2, <3>1, Constants DEF Destination, Leads
    <3>4. /\ ConnectTo(url) /\ wanted' = url /\ UNCHANGED <<timer, strays>>
      BY <2>2 DEF Connect
    <3>5. \A socket \in Socket : phase'[socket] # "closed" => room'[socket] = url
      BY <3>1, <3>4, ConnectToHeads DEF Fresh, AllClosed
    <3>6. Headed(url)'
      BY <3>1, <3>4, <3>5 DEF Headed, Fresh
    <3>7. Headed(Destination)'
      BY <3>3, <3>6 DEF Headed
    <3> QED BY <3>2, <3>7 DEF OnceMounted, AsksFor
  <2> QED BY <2>2, <2>3, <2>4 DEF PageInv, Undisturbed
<1>5. ASSUME NEW request \in requests, Reject(request)
      PROVE  PageInv'
  <2>1. requests' \subseteq requests /\ UNCHANGED <<mounted, prop, param, effects>> /\ LineSame
    BY <1>5 DEF Reject, LineSame, clientVars, socketVars, dbVars, worldVars
  <2>2. Fresh' = Fresh /\ Destination' = Destination /\ Headed(Destination)' = Headed(Destination)
    BY <2>1 DEF Fresh, AllClosed, Destination, Headed, LineSame
  <2>3. OnceMounted => OnceMounted'
    BY <2>1, <2>2 DEF OnceMounted, AsksFor
  <2> QED BY <2>1, <2>2, <2>3 DEF PageInv, Undisturbed
<1>6. ASSUME PageSame, ~Fresh, Undisturbed => Headed(Destination)'
      PROVE  PageInv'
  BY <1>6 DEF PageInv, PageSame, Undisturbed, OnceMounted, Destination, AsksFor
<1>7. CASE Reconnect /\ UNCHANGED <<pageVars, hookVars>>
  <2>1. PageSame /\ ~Fresh
    BY <1>7, FreshStays DEF PageSame, pageVars
  <2>2. ASSUME Undisturbed
        PROVE  Headed(Destination)'
    <3>1. Headed(Destination) /\ Destination' = Destination
      BY <2>1, <2>2 DEF PageInv, OnceMounted, PageSame, Destination
    <3>2. Destination \in Room
      BY <1>7, <3>1 DEF Reconnect, Headed, ClientTypeOK
    <3>3. \A url \in Room : Headed(url) => Headed(url)'
      BY <1>7, ReconnectHeads
    <3> QED BY <3>1, <3>2, <3>3 DEF Headed
  <2> QED BY <1>6, <2>1, <2>2
<1>8. ASSUME NEW socket \in Socket, Close(socket)
      PROVE  PageInv'
  <2>1. PageSame /\ ~Fresh /\ OnClose(socket)
    BY <1>8, FreshStays DEF PageSame, pageVars, Close
  <2>2. ASSUME Undisturbed
        PROVE  Headed(Destination)'
    <3>1. Headed(Destination) /\ Destination' = Destination
      BY <2>1, <2>2 DEF PageInv, OnceMounted, PageSame, Destination
    <3>2. \A url : Headed(url) => Headed(url)'
      BY <2>1, CloseHeads
    <3> QED BY <3>1, <3>2 DEF Headed
  <2> QED BY <1>6, <2>1, <2>2
<1>9. ASSUME NEW socket \in Socket, Open(socket)
      PROVE  PageInv'
  <2>1. PageSame /\ ~Fresh /\ OnOpen(socket)
    BY <1>9, FreshStays DEF PageSame, pageVars, Open
  <2>2. /\ phase[socket] = "connecting" /\ phase' = [phase EXCEPT ![socket] = "open"]
        /\ timer' = NoRoom /\ UNCHANGED <<room, strays, wanted>>
    BY <2>1 DEF OnOpen, worldVars
  <2>3. ASSUME Undisturbed
        PROVE  Headed(Destination)'
    <3>1. Headed(Destination) /\ Destination' = Destination
      BY <2>1, <2>3 DEF PageInv, OnceMounted, PageSame, Destination
    <3> QED BY <2>2, <3>1 DEF Headed, ClientTypeOK
  <2> QED BY <1>6, <2>1, <2>3
<1>10. ASSUME PageSame /\ LineSame
       PROVE  PageInv'
  BY <1>10, PageStays
<1>11. ASSUME NEW socket \in Socket, Arrive(socket), UNCHANGED <<pageVars, hookVars>>
       PROVE  PageInv'
  BY <1>10, <1>11 DEF Arrive, dbVars, pageVars, PageSame, LineSame
<1>12. ASSUME NEW key \in Key, UseKey(key)
       PROVE  PageInv'
  BY <1>10, <1>12 DEF UseKey, Subscribe, pageVars, worldVars, PageSame, LineSame
<1>13. ASSUME UNCHANGED clientVars, UNCHANGED pageVars
       PROVE  PageInv'
  BY <1>10, <1>13 DEF clientVars, socketVars, dbVars, worldVars, pageVars, PageSame, LineSame
<1>14. CASE UseConnectionStatus \/ UseLatency \/ UNCHANGED providerVars
  BY <1>13, <1>14 DEF UseConnectionStatus, UseLatency, providerVars
<1>15. ASSUME NEW socket \in Socket, AnswerPing(socket) \/ OnPong(socket)
       PROVE  PageInv'
  BY <1>13, <1>15 DEF AnswerPing, OnPong
<1> QED BY <1>1, <1>2, <1>3, <1>4, <1>5, <1>7, <1>8, <1>9, <1>11, <1>12, <1>14, <1>15
        DEF ProviderNext, GoOn

\* What a hook shows of the status: it follows it from the time it listens, and knows the
\* room in the URL once there is a connection.
ShownInv ==
    /\ ~mounted => listening = "no"
    /\ listening = "no" => ~shown.connected
    /\ listening = "early" => shown.connected = connected
    /\ (listening = "early" /\ connected /\ Undisturbed /\ prop = NoRoom) => shown.qr = param

LEMMA ShownStep ==
    ASSUME ProviderTypeOK, ClientTypeOK, ComebackInv, PageInv, ShownInv, [ProviderNext]_providerVars
    PROVE  ShownInv'
<1>1. CASE Mount
  <2>1. ~mounted /\ UNCHANGED <<listening, shown>>
    BY <1>1 DEF Mount, hookVars
  <2> QED BY <2>1 DEF ShownInv
<1>2. CASE Unmount
  BY <1>2 DEF Unmount, ShownInv, NothingShown
<1>3. CASE Change
  <2>1. mounted /\ mounted' /\ effects' = effects + 1 /\ UNCHANGED <<listening, shown, connected>>
    BY <1>3 DEF Change, Cleanup, hookVars
  <2>2. effects' # 1
    BY <2>1 DEF PageInv, ProviderTypeOK
  <2> QED BY <2>1, <2>2 DEF ShownInv, Undisturbed
<1>4. ASSUME NEW request \in requests, Resolve(request)
      PROVE  ShownInv'
  <2>1. UNCHANGED <<mounted, prop, effects, listening, shown, connected>>
    BY <1>4 DEF Resolve, Connect, hookVars
  <2>2. Undisturbed => ~connected
    BY <1>4 DEF PageInv, OnceMounted, Fresh
  <2> QED BY <2>1, <2>2 DEF ShownInv, Undisturbed
<1>5. ASSUME UNCHANGED <<mounted, prop, param, effects, listening, connected>>,
             shown'.connected = shown.connected, shown'.qr = shown.qr
      PROVE  ShownInv'
  BY <1>5 DEF ShownInv, Undisturbed
<1>6. ASSUME NEW request \in requests, Reject(request)
      PROVE  ShownInv'
  BY <1>5, <1>6 DEF Reject, clientVars, dbVars, hookVars
<1>7. ASSUME NEW key \in Key, UseKey(key)
      PROVE  ShownInv'
  BY <1>5, <1>7 DEF UseKey, Subscribe, pageVars
<1>8. CASE UseConnectionStatus
  <2>1. /\ mounted /\ listening = "no" /\ listening' = IF connected THEN "late" ELSE "early"
        /\ UNCHANGED <<mounted, connected, shown>>
    BY <1>8 DEF UseConnectionStatus, UseDatabase, clientVars, dbVars, pageVars
  <2>2. connected \in BOOLEAN /\ shown.connected \in BOOLEAN
    BY DEF ClientTypeOK, ProviderTypeOK
  <2> QED BY <2>1, <2>2 DEF ShownInv
<1>9. CASE UseLatency
  <2>1. shown'.connected = shown.connected /\ shown'.qr = shown.qr
    BY <1>9 DEF UseLatency, ProviderTypeOK
  <2> QED BY <1>5, <1>9, <2>1 DEF UseLatency, clientVars, dbVars, pageVars
<1>10. ASSUME NEW socket \in Socket, AnswerPing(socket)
       PROVE  ShownInv'
  BY <1>5, <1>10 DEF AnswerPing, clientVars, dbVars, pageVars
<1>11. ASSUME NEW socket \in Socket, OnPong(socket)
       PROVE  ShownInv'
  <2>1. shown'.connected = shown.connected /\ shown'.qr = shown.qr
    BY <1>11 DEF OnPong, ReceivedResponse, ProviderTypeOK
  <2> QED BY <1>5, <1>11, <2>1 DEF OnPong, clientVars, dbVars, pageVars
<1>12. CASE Reconnect /\ UNCHANGED <<pageVars, hookVars>>
  BY <1>5, <1>12 DEF Reconnect, pageVars, hookVars
<1>13. ASSUME NEW socket \in Socket, Arrive(socket), UNCHANGED <<pageVars, hookVars>>
       PROVE  ShownInv'
  BY <1>5, <1>13 DEF Arrive, dbVars, pageVars, hookVars
<1>14. ASSUME NEW status \in BOOLEAN, SetStatus(status), connected' = status,
              UNCHANGED <<mounted, prop, param, effects, listening>>
       PROVE  /\ ~mounted' => listening' = "no"
              /\ listening' = "no" => ~shown'.connected
              /\ listening' = "early" => shown'.connected = connected'
              /\ listening' = "early" => shown'.qr = RoomQRCode
  BY <1>14 DEF ShownInv, SetStatus, ProviderTypeOK
<1>15. ASSUME NEW socket \in Socket, Open(socket)
       PROVE  ShownInv'
  <2>1. /\ SetStatus(TRUE) /\ connected' = TRUE /\ phase[socket] # "closed"
        /\ UNCHANGED <<mounted, prop, param, effects, listening>>
    BY <1>15 DEF Open, OnOpen, pageVars
  <2>2. ASSUME Undisturbed, prop = NoRoom
        PROVE  RoomQRCode = param
    <3>1. room[socket] = param
      BY <2>1, <2>2 DEF PageInv, OnceMounted, Headed, Destination
    <3>2. param # NoRoom
      BY <2>1, <3>1, Constants DEF ComebackInv
    <3> QED BY <3>2 DEF RoomQRCode, GetRoomId
  <2> QED BY <1>14, <2>1, <2>2 DEF ShownInv, Undisturbed
<1>16. ASSUME NEW socket \in Socket, Close(socket)
       PROVE  ShownInv'
  <2>1. UNCHANGED <<mounted, prop, param, effects, listening>>
    BY <1>16 DEF Close, pageVars
  <2>2. CASE silent[socket]
    BY <1>5, <1>16, <2>1, <2>2 DEF Close, OnClose
  <2>3. CASE ~silent[socket]
    <3>1. SetStatus(FALSE) /\ connected' = FALSE
      BY <1>16, <2>3 DEF Close, OnClose
    <3> QED BY <1>14, <2>1, <3>1 DEF ShownInv
  <2> QED BY <2>2, <2>3
<1>17. CASE UNCHANGED providerVars
  BY <1>5, <1>17 DEF providerVars, clientVars, dbVars, pageVars, hookVars
<1> QED BY <1>1, <1>2, <1>3, <1>4, <1>6, <1>7, <1>8, <1>9, <1>10, <1>11, <1>12, <1>13, <1>15,
           <1>16, <1>17 DEF ProviderNext, GoOn

LEMMA PageStart ==
    ASSUME ProviderInit
    PROVE  PageInv /\ ShownInv
  BY DEF ProviderInit, ClientInit, PageInv, ShownInv, Fresh, AllClosed, Undisturbed, NothingShown

\* What is true of a page as long as its effect has run once.
LEMMA PageInvariant == ProviderSpec => [](PageInv /\ ShownInv)
<1>1. ProviderInit => PageInv /\ ShownInv
  BY PageStart
<1>2. (ProviderTypeOK /\ ClientInv) /\ (PageInv /\ ShownInv) /\ [ProviderNext]_providerVars
         => (PageInv /\ ShownInv)'
  BY PageStep, ShownStep DEF ClientInv
<1> QED BY <1>1, <1>2, ProviderInvariant, PTL DEF ProviderSpec

\* A page whose client has come to rest, however often it reconnected, is in the room that
\* was given or that its URL names, and shows that it is connected, and the QR code of that
\* room (driftdb-react/src/index.tsx: DriftDBProvider, useConnectionStatus, RoomQRCode).
THEOREM PageShowsItsRoom == ProviderSpec => []ShowsRoomItIsIn
<1>1. ASSUME ProviderTypeOK, ClientInv, PageInv, ShownInv
      PROVE  ShowsRoomItIsIn
  <2> SUFFICES ASSUME Undisturbed, AtRest, wanted # NoRoom
               PROVE  /\ room[connection] = Destination
                      /\ listening = "early" => /\ StatusIndicator.connected
                                                /\ prop = NoRoom => shown.qr = room[connection]
    BY DEF ShowsRoomItIsIn, Destination
  <2>1. connected /\ connection \in Socket /\ phase[connection] = "open"
    BY <1>1 DEF ClientInv, ComebackInv, ComingBack, AtRest
  <2>2. room[connection] = Destination
    BY <1>1, <2>1 DEF PageInv, OnceMounted, Headed
  <2>3. StatusIndicator.connected = shown.connected
    BY DEF StatusIndicator
  <2> QED BY <1>1, <2>1, <2>2, <2>3 DEF ShownInv, Destination
<1> QED BY <1>1, ProviderInvariant, PageInvariant, PTL

(***************************************************************************)
(* The subscriptions of hooks.                                             *)
(***************************************************************************)

IsIn(message, messages) == \E i \in DOMAIN messages : messages[i] = message

\* The get of a subscription is queued, or on the socket in use, or has reached the room.
OnItsWay(key) ==
    \/ IsIn(GetMessage(key), queue)
    \/ /\ connection \in Socket
       /\ IsIn(GetMessage(key), outgoing[connection]) \/ key \in gets[connection]

\* There is one connection at most, and nothing has closed it.
FirstConnection ==
    /\ timer = NoRoom /\ \A url \in Room : strays[url] = 0
    /\ \A socket \in Socket : socket # connection => phase[socket] = "closed"
    /\ connection \in Socket => Alive(connection)

HookInv ==
    /\ ~mounted => hooked = {}
    /\ effects = 0 => subscriptions = {}
    /\ Undisturbed => hooked \subseteq subscriptions
    /\ (Undisturbed /\ failures = 0) =>
           FirstConnection /\ \A key \in subscriptions : OnItsWay(key)

\* A message is among those it is put behind, and among the others but the first unless it
\* is that.
LEMMA IsInAppended ==
    ASSUME NEW messages \in Seq(Message), NEW message \in Message
    PROVE  /\ IsIn(message, Append(messages, message))
           /\ \A other : IsIn(other, messages) => IsIn(other, Append(messages, message))
<1>1. /\ \A i \in DOMAIN messages : i \in DOMAIN Append(messages, message)
                                    /\ Append(messages, message)[i] = messages[i]
      /\ Len(messages) + 1 \in DOMAIN Append(messages, message)
      /\ Append(messages, message)[Len(messages) + 1] = message
  OBVIOUS
<1> QED BY <1>1 DEF IsIn

LEMMA IsInTail ==
    ASSUME NEW messages \in Seq(Message), messages # <<>>, NEW message, IsIn(message, messages)
    PROVE  message = Head(messages) \/ IsIn(message, Tail(messages))
<1>1. PICK i \in DOMAIN messages : messages[i] = message
  BY DEF IsIn
<1>2. CASE i = 1
  BY <1>1, <1>2
<1>3. CASE i # 1
  <2>1. i - 1 \in DOMAIN Tail(messages) /\ Tail(messages)[i - 1] = message
    BY <1>1, <1>3
  <2> QED BY <2>1 DEF IsIn
<1> QED BY <1>2, <1>3

\* What is sent is on its way, and so is what was.
LEMMA SendsOnItsWay ==
    ASSUME ClientTypeOK, NEW message \in Message, SendMessage(message), UNCHANGED <<connection, gets>>
    PROVE  /\ \A key : message = GetMessage(key) => OnItsWay(key)'
           /\ \A key : OnItsWay(key) => OnItsWay(key)'
<1>1. queue \in Seq(Message) /\ outgoing \in [Socket -> Seq(Message)]
      /\ connection \in Socket \cup {NoSocket}
  BY DEF ClientTypeOK
<1>2. CASE CanSend
  <2>1. connection \in Socket /\ queue' = queue
        /\ outgoing'[connection] = Append(outgoing[connection], message)
    BY <1>1, <1>2, Constants DEF CanSend, SendMessage
  <2>2. outgoing[connection] \in Seq(Message)
    BY <1>1, <2>1
  <2> QED BY <2>1, <2>2, IsInAppended DEF OnItsWay
<1>3. CASE ~CanSend
  <2>1. queue' = Append(queue, message) /\ outgoing' = outgoing
    BY <1>3 DEF SendMessage
  <2> QED BY <1>1, <2>1, IsInAppended DEF OnItsWay
<1> QED BY <1>2, <1>3

\* The queue goes to the socket that opens, on which nothing was sent before.
LEMMA OpenOnItsWay ==
    ASSUME ClientTypeOK, OnceInv, NEW socket \in Socket, OnOpen(socket), NEW key, OnItsWay(key)
    PROVE  OnItsWay(key)'
<1>1. phase[socket] = "connecting" /\ outgoing' = [outgoing EXCEPT ![socket] = queue]
      /\ UNCHANGED <<connection, gets>>
  BY DEF OnOpen
<1>2. socket = connection /\ outgoing[connection] = <<>>
  BY <1>1 DEF Alive, ClientTypeOK, OnceInv, SocketsOK
<1>3. ~IsIn(GetMessage(key), <<>>)
  BY DEF IsIn
<1>4. outgoing'[connection] = queue
  BY <1>1, <1>2 DEF ClientTypeOK
<1> QED BY <1>1, <1>2, <1>3, <1>4 DEF OnItsWay

\* What arrives was the first on its socket.
LEMMA ArriveOnItsWay ==
    ASSUME ClientTypeOK, NEW socket \in Socket, Arrive(socket), NEW key, OnItsWay(key)
    PROVE  OnItsWay(key)'
<1> DEFINE message == Head(outgoing[socket])
<1>1. outgoing[socket] \in Seq(Message) /\ outgoing[socket] # <<>>
  BY DEF Arrive, ClientTypeOK
<1>2. /\ outgoing' = [outgoing EXCEPT ![socket] = Tail(outgoing[socket])]
      /\ message.type # "push" => gets' = [gets EXCEPT ![socket] = @ \cup {message.key}]
      /\ message.type = "push" => gets' = gets
      /\ UNCHANGED <<queue, connection>>
  BY DEF Arrive, dbVars
<1>3. \A s \in Socket : gets[s] \subseteq gets'[s]
  BY <1>2 DEF ClientTypeOK
<1>4. CASE IsIn(GetMessage(key), queue)
  BY <1>2, <1>4 DEF OnItsWay
<1>5. CASE connection \in Socket /\ key \in gets[connection]
  BY <1>2, <1>3, <1>5 DEF OnItsWay
<1>6. CASE connection \in Socket /\ IsIn(GetMessage(key), outgoing[connection])
  <2>1. CASE socket = connection
    <3>1. GetMessage(key) = message \/ IsIn(GetMessage(key), Tail(outgoing[socket]))
      BY <1>1, <1>6, <2>1, IsInTail
    <3>2. CASE GetMessage(key) = message
      <4>1. message.type # "push" /\ message.key = key
        BY <3>2 DEF GetMessage
      <4>2. key \in gets'[connection]
        BY <1>2, <1>6, <2>1, <4>1 DEF ClientTypeOK
      <4> QED BY <1>2, <1>6, <4>2 DEF OnItsWay
    <3>3. CASE IsIn(GetMessage(key), Tail(outgoing[socket]))
      <4>1. outgoing'[connection] = Tail(outgoing[socket])
        BY <1>2, <1>6, <2>1 DEF ClientTypeOK
      <4> QED BY <1>2, <1>6, <3>3, <4>1 DEF OnItsWay
    <3> QED BY <3>1, <3>2, <3>3
  <2>2. CASE socket # connection
    <3>1. outgoing'[connection] = outgoing[connection]
      BY <1>2, <1>6, <2>2 DEF ClientTypeOK
    <3> QED BY <1>2, <1>6, <3>1 DEF OnItsWay
  <2> QED BY <2>1, <2>2
<1> QED BY <1>4, <1>5, <1>6 DEF OnItsWay

LEMMA HookStays ==
    ASSUME HookInv,
           UNCHANGED <<mounted, effects, hooked, subscriptions, failures, phase, outgoing, gets,
                       connection, queue, timer, strays>>
    PROVE  HookInv'
  BY DEF HookInv, Undisturbed, FirstConnection, Alive, OnItsWay

LEMMA HookStep ==
    ASSUME ProviderTypeOK, ClientTypeOK, OnceInv, PageInv, HookInv, [ProviderNext]_providerVars
    PROVE  HookInv'
<1>1. CASE Mount
  <2>1. /\ ~mounted /\ mounted' = TRUE /\ effects' = effects + 1
        /\ UNCHANGED <<hooked, subscriptions, connection, timer, strays, phase>>
    BY <1>1 DEF Mount, hookVars, clientVars, socketVars, dbVars
  <2>2. hooked' = {} /\ effects' # 0
    BY <2>1 DEF HookInv, ProviderTypeOK
  <2>3. ASSUME effects' = 1
        PROVE  FirstConnection' /\ subscriptions' = {}
    <3>1. Fresh /\ subscriptions = {}
      BY <2>1, <2>3 DEF PageInv, HookInv, ProviderTypeOK
    <3> QED BY <2>1, <3>1, Constants DEF Fresh, AllClosed, FirstConnection
  <2> QED BY <2>1, <2>2, <2>3 DEF HookInv, Undisturbed
<1>2. CASE Unmount
  <2>1. ~mounted' /\ hooked' = {} /\ subscriptions' = {}
    BY <1>2 DEF Unmount, Cleanup
  <2> QED BY <2>1 DEF HookInv, Undisturbed
<1>3. CASE Change
  <2>1. mounted /\ mounted' /\ effects' = effects + 1
    BY <1>3 DEF Change
  <2>2. effects' # 0 /\ effects' # 1
    BY <2>1 DEF PageInv, ProviderTypeOK
  <2> QED BY <2>1, <2>2 DEF HookInv, Undisturbed
<1>4. ASSUME NEW request \in requests, Resolve(request)
      PROVE  HookInv'
  <2>1. PICK url \in Room : Leads(request, url)
    BY <1>4, ResolveLeads
  <2>2. /\ ConnectTo(url)
        /\ UNCHANGED <<mounted, effects, hooked, subscriptions, failures, queue, timer, strays>>
    BY <2>1 DEF Leads, Connect, hookVars
  <2>3. ASSUME Undisturbed, failures = 0
        PROVE  FirstConnection' /\ \A key \in subscriptions : OnItsWay(key)'
    <3>1. Fresh
      BY <1>4, <2>3 DEF PageInv, OnceMounted
    <3>2. /\ connection' \in Socket /\ phase'[connection'] = "connecting"
          /\ \A socket \in Socket : socket # connection' => phase'[socket] = "closed"
      BY <2>2, <3>1, OneSocket, ConnectToPhases DEF Fresh
    <3>3. FirstConnection'
      BY <2>2, <3>1, <3>2 DEF FirstConnection, Fresh, Alive
    <3>4. \A key \in subscriptions : IsIn(GetMessage(key), queue)
      BY <2>3, <3>1, Constants DEF HookInv, OnItsWay, Fresh
    <3> QED BY <2>2, <3>3, <3>4 DEF OnItsWay
  <2> QED BY <2>2, <2>3 DEF HookInv, Undisturbed
<1>5. ASSUME NEW request \in requests, Reject(request)
      PROVE  HookInv'
  BY <1>5, HookStays DEF Reject, clientVars, socketVars, dbVars, worldVars, hookVars
<1>6. ASSUME NEW key \in Key, UseKey(key)
      PROVE  HookInv'
  <2>1. /\ mounted /\ hooked' = hooked \cup {key} /\ subscriptions' = subscriptions \cup {key}
        /\ SendMessage(GetMessage(key))
        /\ UNCHANGED <<mounted, effects, failures, phase, gets, connection, timer, strays>>
    BY <1>6 DEF UseKey, UseDatabase, Subscribe, pageVars, worldVars
  <2>2. GetMessage(key) \in Message
    BY DEF GetMessage, Message
  <2>3. effects # 0
    BY <2>1 DEF PageInv
  <2>4. /\ OnItsWay(key)'
        /\ \A other : OnItsWay(other) => OnItsWay(other)'
    BY <2>1, <2>2, SendsOnItsWay
  <2>5. FirstConnection => FirstConnection'
    BY <2>1 DEF FirstConnection, Alive
  <2> QED BY <2>1, <2>3, <2>4, <2>5 DEF HookInv, Undisturbed
<1>7. CASE UseConnectionStatus
  BY <1>7, HookStays DEF UseConnectionStatus, clientVars, socketVars, dbVars, worldVars, pageVars
<1>8. CASE UseLatency
  BY <1>8, HookStays DEF UseLatency, clientVars, socketVars, dbVars, worldVars, pageVars
<1>9. ASSUME NEW socket \in Socket, AnswerPing(socket) \/ OnPong(socket)
      PROVE  HookInv'
  BY <1>9, HookStays DEF AnswerPing, OnPong, clientVars, socketVars, dbVars, worldVars, pageVars
<1>10. ASSUME UNCHANGED <<mounted, effects, hooked, subscriptions>>,
              failures' = 0 => failures = 0,
              Undisturbed /\ failures' = 0 /\ FirstConnection =>
                 FirstConnection' /\ \A key : OnItsWay(key) => OnItsWay(key)'
       PROVE  HookInv'
  BY <1>10 DEF HookInv, Undisturbed
<1>11. CASE Reconnect /\ UNCHANGED <<pageVars, hookVars>>
  <2>1. ~FirstConnection
    BY <1>11 DEF Reconnect, FirstConnection
  <2>2. UNCHANGED <<mounted, effects, hooked, subscriptions, failures>>
    BY <1>11 DEF Reconnect, worldVars, pageVars, hookVars
  <2> QED BY <1>10, <2>1, <2>2
<1>12. ASSUME NEW socket \in Socket, Open(socket)
       PROVE  HookInv'
  <2>1. /\ OnOpen(socket) /\ phase[socket] = "connecting"
        /\ phase' = [phase EXCEPT ![socket] = "open"] /\ timer' = NoRoom
        /\ UNCHANGED <<mounted, effects, hooked, subscriptions, failures, connection, strays>>
    BY <1>12 DEF Open, OnOpen, pageVars, worldVars
  <2>2. FirstConnection => FirstConnection'
    BY <2>1 DEF FirstConnection, Alive, ClientTypeOK
  <2>3. \A key : OnItsWay(key) => OnItsWay(key)'
    BY <2>1, OpenOnItsWay
  <2> QED BY <1>10, <2>1, <2>2, <2>3
<1>13. ASSUME NEW socket \in Socket, Arrive(socket), UNCHANGED <<pageVars, hookVars>>
       PROVE  HookInv'
  <2>1. UNCHANGED <<mounted, effects, hooked, subscriptions, failures, connection, phase,
                    timer, strays>>
    BY <1>13 DEF Arrive, dbVars, pageVars, hookVars
  <2>2. FirstConnection => FirstConnection'
    BY <2>1 DEF FirstConnection, Alive
  <2>3. \A key : OnItsWay(key) => OnItsWay(key)'
    BY <1>13, ArriveOnItsWay
  <2> QED BY <1>10, <2>1, <2>2, <2>3
<1>14. ASSUME NEW socket \in Socket, Close(socket)
       PROVE  HookInv'
  <2>1. /\ Closes(socket)
        /\ UNCHANGED <<mounted, effects, hooked, subscriptions>>
    BY <1>14 DEF Close, OnClose, pageVars
  <2>2. failures' = 0 => failures = 0 /\ phase[socket] = "closing"
    BY <2>1 DEF Closes, ClientTypeOK
  <2>3. FirstConnection => phase[socket] # "closing"
    BY DEF FirstConnection, Alive
  <2> QED BY <1>10, <2>1, <2>2, <2>3
<1>15. CASE UNCHANGED providerVars
  BY <1>15, HookStays DEF providerVars, clientVars, socketVars, dbVars, worldVars, pageVars, hookVars
<1> QED BY <1>1, <1>2, <1>3, <1>4, <1>5, <1>6, <1>7, <1>8, <1>9, <1>11, <1>12, <1>13, <1>14, <1>15
        DEF ProviderNext, GoOn

LEMMA HookStart ==
    ASSUME ProviderInit
    PROVE  HookInv
  BY DEF ProviderInit, ClientInit, HookInv, Undisturbed

\* As long as the first connection lasts, every hook is subscribed in the room in the end,
\* also one that subscribed before there was a room to connect to (driftdb-react/src/
\* index.tsx: useSharedState, useReducer and usePresence subscribe when they are mounted;
\* driftdb/src/index.ts: send queues, and onopen sends what is queued).
THEOREM HooksAreHeard == ProviderSpec => []HooksReachRoom
<1>1. ProviderInit => HookInv
  BY HookStart
<1>2. (ProviderTypeOK /\ ClientInv) /\ (PageInv /\ ShownInv) /\ HookInv /\ [ProviderNext]_providerVars
         => HookInv'
  BY HookStep DEF ClientInv
<1>3. ASSUME ClientInv, HookInv
      PROVE  HooksReachRoom
  <2> SUFFICES ASSUME Undisturbed, AtRest, failures = 0, wanted # NoRoom, outgoing[connection] = <<>>
               PROVE  hooked \subseteq subscriptions \cap gets[connection]
    BY DEF HooksReachRoom
  <2>1. connection \in Socket /\ queue = <<>>
    BY <1>3 DEF ClientInv, ComebackInv, ComingBack, AtRest
  <2>2. \A key \in subscriptions : key \in gets[connection]
    BY <1>3, <2>1 DEF HookInv, OnItsWay, IsIn
  <2> QED BY <1>3, <2>2 DEF HookInv
<1> QED BY <1>1, <1>2, <1>3, ProviderInvariant, PageInvariant, PTL DEF ProviderSpec
=============================================================================
