------------------------------- MODULE Client -------------------------------
(***************************************************************************)
(* A client's DbConnection (js-pkg/packages/driftdb/src/index.ts): the     *)
(* queue for what is sent offline, the reconnect timer, the sockets it has *)
(* opened and the handlers it has left on them, and the network between.   *)
(*                                                                         *)
(* JavaScript runs one callback at a time, to its end: each action is a    *)
(* call of the application, an event of a socket or a timer.  No time is   *)
(* kept: a timer may fire before or after any event that is under way.     *)
(***************************************************************************)
EXTENDS Naturals, SequencesExt, FiniteSets

CONSTANTS
    Key,            \* streams
    Room,           \* the rooms that the application connects to, as URLs
    NoRoom,         \* in place of a room: none
    Socket,         \* WebSocket objects that exist at once
    NoSocket,       \* connection is null
    MaxSends,       \* bound on the messages the application pushes
    MaxConnects,    \* bound on the application's calls of connect
    MaxFailures     \* bound on the sockets the network cuts

ASSUME MaxSendsAssumption == MaxSends \in Nat
ASSUME MaxConnectsAssumption == MaxConnects \in Nat
ASSUME MaxFailuresAssumption == MaxFailures \in Nat
ASSUME NoRoomAssumption == NoRoom \notin Room
ASSUME NoSocketAssumption == NoSocket \notin Socket

VARIABLES
    phase,          \* per socket: closed (or unused), connecting, open, closing
    room,           \* per socket, the room it was opened to
    silent,         \* per socket, whether its handlers were taken off
    outgoing,       \* per socket, what was sent and has not arrived
    gets,           \* per socket, the keys that its room has had a get for
    connection,     \* the socket in use
    connected,      \* status.connected
    queue,          \* what waits for a connection
    timer,          \* the room that the timer of reconnectLoopHandle goes to
    strays,         \* per room, the timers whose handle was overwritten
    subscriptions,  \* keys with a listener
    wanted,         \* the room that the application last connected to, if it
                    \* has not disconnected since
    received,       \* the pushed messages that have arrived, in their order
    sends,          \* how many messages were pushed
    connects,       \* how often the application has called connect
    failures        \* how many sockets the network has cut

socketVars == <<phase, room, silent, outgoing, gets>>
dbVars == <<connection, connected, queue, timer, strays, subscriptions>>
worldVars == <<wanted, received, sends, connects, failures>>
clientVars == <<socketVars, dbVars, worldVars>>

PushMessage(n) == [type |-> "push", number |-> n]
GetMessage(key) == [type |-> "get", key |-> key]
Message == [type : {"push"}, number : 1 .. MaxSends] \cup [type : {"get"}, key : Key]

Alive(socket) == phase[socket] \in {"connecting", "open"}

\* Which of them is the next WebSocket object does not matter.
Unused == {socket \in Socket : phase[socket] = "closed"}

-----------------------------------------------------------------------------
(***************************************************************************)
(* The methods of DbConnection.                                            *)
(***************************************************************************)

\* Slip: the socket in use is left alone.
ConnectTo_LeavesOld(url) ==
    /\ Unused # {}
    /\ connection' = CHOOSE socket \in Unused : TRUE
    /\ phase' = [phase EXCEPT ![connection'] = "connecting"]
    /\ room' = [room EXCEPT ![connection'] = url]
    /\ UNCHANGED <<silent, outgoing, gets>>

\* connect: closes the socket in use, without taking its handlers off, and
\* opens another one.
ConnectTo(url) ==
    /\ Unused # {}
    /\ connection' = CHOOSE socket \in Unused : TRUE
    /\ phase' = [socket \in Socket |->
                    CASE socket = connection'                      -> "connecting"
                      [] socket = connection /\ Alive(connection)  -> "closing"
                      [] OTHER                                     -> phase[socket]]
    /\ room' = [room EXCEPT ![connection'] = url]
    /\ UNCHANGED <<silent, outgoing, gets>>

\* What send asks before it sends.
CanSend == connected /\ connection # NoSocket /\ phase[connection] = "open"

SendMessage(message) ==
    IF CanSend
    THEN /\ outgoing' = [outgoing EXCEPT ![connection] = Append(@, message)]
         /\ UNCHANGED queue
    ELSE /\ queue' = Append(queue, message)
         /\ UNCHANGED outgoing

-----------------------------------------------------------------------------
(***************************************************************************)
(* Calls of the application.                                               *)
(***************************************************************************)

Connect(url) ==
    /\ connects < MaxConnects
    /\ connects' = connects + 1
    /\ wanted' = url
    /\ ConnectTo(url)
    /\ UNCHANGED <<connected, queue, timer, strays, subscriptions, received, sends, failures>>

\* disconnect leaves the status, the queue and the timer as they are.
Disconnect ==
    /\ wanted # NoRoom
    /\ wanted' = NoRoom
    /\ phase' = [phase EXCEPT ![connection] = IF Alive(connection) THEN "closing" ELSE @]
    /\ silent' = [silent EXCEPT ![connection] = phase'[connection] = "closing"]
    /\ subscriptions' = {}
    /\ UNCHANGED <<room, outgoing, gets, connection, connected, queue, timer, strays,
                   received, sends, connects, failures>>

Send ==
    /\ sends < MaxSends
    /\ sends' = sends + 1
    /\ SendMessage(PushMessage(sends + 1))
    /\ UNCHANGED <<phase, room, silent, gets, connection, connected, timer, strays,
                   subscriptions, wanted, received, connects, failures>>

Subscribe(key) ==
    /\ key \notin subscriptions
    /\ subscriptions' = subscriptions \cup {key}
    /\ SendMessage(GetMessage(key))
    /\ UNCHANGED <<phase, room, silent, gets, connection, connected, timer, strays, worldVars>>

-----------------------------------------------------------------------------
(***************************************************************************)
(* Events.                                                                 *)
(***************************************************************************)

\* Slip: the queue is sent before the status is set, so that send queues again what
\* is then dropped.
OnOpen_StatusLast(socket) ==
    /\ phase[socket] = "connecting"
    /\ phase' = [phase EXCEPT ![socket] = "open"]
    /\ timer' = NoRoom
    /\ connected' = TRUE
    /\ outgoing' = [outgoing EXCEPT ![socket] = IF connected THEN queue ELSE <<>>]
    /\ queue' = <<>>
    /\ UNCHANGED <<room, silent, gets, connection, strays, subscriptions, worldVars>>

\* onopen: stops the timer whose handle is at hand and sends what was queued.
\* A socket that was closed before it is open does not open.
OnOpen(socket) ==
    /\ phase[socket] = "connecting"
    /\ phase' = [phase EXCEPT ![socket] = "open"]
    /\ timer' = NoRoom
    /\ connected' = TRUE
    /\ outgoing' = [outgoing EXCEPT ![socket] = queue]
    /\ queue' = <<>>
    /\ UNCHANGED <<room, silent, gets, connection, strays, subscriptions, worldVars>>

\* A socket that the client closes first delivers what it was given; one that the
\* network cuts loses it.
Closes(socket) ==
    \/ phase[socket] = "closing" /\ outgoing[socket] = <<>> /\ UNCHANGED failures
    \/ /\ phase[socket] # "closed"
       /\ failures < MaxFailures
       /\ failures' = failures + 1

\* Sets the timer; one that is still running can no longer be stopped.
SetTimer(url) ==
    /\ timer' = url
    /\ strays' = IF timer = NoRoom THEN strays ELSE [strays EXCEPT ![timer] = @ + 1]

\* Nothing more comes of a socket that has closed.
Forget(socket) ==
    /\ phase' = [phase EXCEPT ![socket] = "closed"]
    /\ room' = [room EXCEPT ![socket] = NoRoom]
    /\ silent' = [silent EXCEPT ![socket] = FALSE]
    /\ outgoing' = [outgoing EXCEPT ![socket] = <<>>]
    /\ gets' = [gets EXCEPT ![socket] = {}]

\* Slip: a timer is set by onerror, too.
OnClose_ErrorToo(socket) ==
    /\ Closes(socket)
    /\ Forget(socket)
    /\ IF silent[socket] THEN UNCHANGED <<connected, timer, strays>>
       ELSE /\ connected' = FALSE
            /\ timer' = room[socket]
            /\ strays' = [strays EXCEPT ![room[socket]] = @ + 1]
    /\ UNCHANGED <<connection, queue, subscriptions, wanted, received, sends, connects>>

\* Slip: an attempt that never opened is not followed by another.
OnClose_GivesUp(socket) ==
    /\ Closes(socket)
    /\ Forget(socket)
    /\ IF silent[socket] THEN UNCHANGED <<connected, timer, strays>>
       ELSE /\ connected' = FALSE
            /\ IF connected THEN SetTimer(room[socket]) ELSE UNCHANGED <<timer, strays>>
    /\ UNCHANGED <<connection, queue, subscriptions, wanted, received, sends, connects>>

\* onerror and onclose, of whichever socket still has its handlers.
OnClose(socket) ==
    /\ Closes(socket)
    /\ Forget(socket)
    /\ IF silent[socket] THEN UNCHANGED <<connected, timer, strays>>
       ELSE connected' = FALSE /\ SetTimer(room[socket])
    /\ UNCHANGED <<connection, queue, subscriptions, wanted, received, sends, connects>>

\* A timer fires.
Reconnect ==
    /\ \/ /\ timer # NoRoom
          /\ ConnectTo(timer)
          /\ timer' = NoRoom
          /\ UNCHANGED strays
       \/ \E url \in Room :
            /\ strays[url] > 0
            /\ ConnectTo(url)
            /\ strays' = [strays EXCEPT ![url] = @ - 1]
            /\ UNCHANGED timer
    /\ UNCHANGED <<connected, queue, subscriptions, worldVars>>

\* The oldest message on a socket arrives at the room.
Arrive(socket) ==
    /\ phase[socket] \in {"open", "closing"}
    /\ outgoing[socket] # <<>>
    /\ outgoing' = [outgoing EXCEPT ![socket] = Tail(@)]
    /\ LET message == Head(outgoing[socket])
       IN  IF message.type = "push"
           THEN received' = Append(received, message.number) /\ UNCHANGED gets
           ELSE gets' = [gets EXCEPT ![socket] = @ \cup {message.key}] /\ UNCHANGED received
    /\ UNCHANGED <<phase, room, silent, dbVars, wanted, sends, connects, failures>>

ClientInit ==
    /\ phase = [socket \in Socket |-> "closed"]
    /\ room = [socket \in Socket |-> NoRoom]
    /\ silent = [socket \in Socket |-> FALSE]
    /\ outgoing = [socket \in Socket |-> <<>>]
    /\ gets = [socket \in Socket |-> {}]
    /\ connection = NoSocket
    /\ connected = FALSE
    /\ queue = <<>>
    /\ timer = NoRoom
    /\ strays = [url \in Room |-> 0]
    /\ subscriptions = {}
    /\ wanted = NoRoom
    /\ received = <<>>
    /\ sends = 0
    /\ connects = 0
    /\ failures = 0

ClientNext ==
    \/ \E url \in Room : Connect(url)
    \/ Disconnect \/ Send \/ Reconnect
    \/ \E key \in Key : Subscribe(key)
    \/ \E socket \in Socket : OnOpen(socket) \/ OnClose(socket) \/ Arrive(socket)

\* The network goes on with what is under way: it opens a socket unless it cuts
\* it, delivers, and ends a close; the browser fires timers.  It need not cut
\* anything, and the application need not do anything.
ClientSpec ==
    /\ ClientInit
    /\ [][ClientNext]_clientVars
    /\ WF_clientVars(Reconnect)
    /\ \A socket \in Socket :
          /\ WF_clientVars(OnOpen(socket))
          /\ WF_clientVars(Arrive(socket))
          /\ WF_clientVars(phase[socket] = "closing" /\ OnClose(socket))

-----------------------------------------------------------------------------
(***************************************************************************)
(* Properties.                                                             *)
(***************************************************************************)

\* A room is only talked to over the socket in use: every other one is closed or
\* closing, so a client is never in a room twice.
ClientTypeOK ==
    /\ phase \in [Socket -> {"closed", "connecting", "open", "closing"}]
    /\ room \in [Socket -> Room \cup {NoRoom}]
    /\ silent \in [Socket -> BOOLEAN]
    /\ outgoing \in [Socket -> Seq(Message)]
    /\ gets \in [Socket -> SUBSET Key]
    /\ connection \in Socket \cup {NoSocket}
    /\ \A socket \in Socket : Alive(socket) => socket = connection
    /\ connected \in BOOLEAN
    /\ queue \in Seq(Message)
    /\ timer \in Room \cup {NoRoom}
    /\ strays \in [Room -> Nat]
    /\ subscriptions \subseteq Key
    /\ wanted \in Room \cup {NoRoom}
    /\ received \in Seq(1 .. MaxSends)
    /\ sends \in 0 .. MaxSends /\ connects \in 0 .. MaxConnects /\ failures \in 0 .. MaxFailures

\* The pushed messages among them.
Pushes(messages) == {i \in DOMAIN messages : messages[i].type = "push"}
NumbersIn(messages) == {messages[i].number : i \in Pushes(messages)}

InOrder(messages) ==
    \A i, j \in Pushes(messages) : i < j => messages[i].number < messages[j].number

\* What waits to be sent, on the socket in use and behind it in the queue.
Waiting == IF connection = NoSocket THEN queue ELSE outgoing[connection] \o queue

\* Where a pushed message may be.
Places(n) ==
    {socket \in Socket : n \in NumbersIn(outgoing[socket])}
        \cup {place \in {"queue"} : n \in NumbersIn(queue)}
        \cup {place \in {"room"} : n \in Range(received)}

\* However often the client reconnected meanwhile, no message is sent twice, none is
\* lost unless a connection is cut, and none that waits, on the socket in use or in
\* the queue, was overtaken by one that was sent to the database later.
EachSentOnce ==
    /\ IsInjective(received)
    /\ InOrder(Waiting)
    /\ \A n \in 1 .. sends : /\ \A place, other \in Places(n) : place = other
                            /\ failures = 0 => Places(n) # {}
    /\ \A n \in NumbersIn(Waiting), m \in 1 .. sends \ NumbersIn(Waiting) : m < n

\* No event and no timer is under way.
AtRest ==
    /\ timer = NoRoom
    /\ \A url \in Room : strays[url] = 0
    /\ \A socket \in Socket : phase[socket] \in {"closed", "open"}

\* A client comes to rest only with an open connection that it knows of and an
\* empty queue, or because the application has disconnected: whatever events the
\* sockets it has left behind still have for it, in whatever order.
RestsConnected ==
    AtRest /\ wanted # NoRoom =>
        /\ connected
        /\ phase[connection] = "open"
        /\ queue = <<>>

\* As long as the application calls connect once, a reconnect never closes a
\* connection that is open or about to open.
ReconnectsOnlyWhenDown ==
    [][connects = 1 /\ connects' = 1 /\ connection' # connection
          => ~Alive(connection)]_clientVars

\* What was queued is sent, unless the application disconnects, if the network cuts
\* the connection only so many times and the application calls connect once.
QueueIsSent ==
    \A n \in 1 .. MaxSends :
        n \in NumbersIn(queue) ~>
            n \notin NumbersIn(queue) \/ wanted = NoRoom \/ connects > 1

-----------------------------------------------------------------------------
(***************************************************************************)
(* What the documents say and the code does not do.                        *)
(***************************************************************************)

\* A client that has disconnected is in no room once nothing is under way (index.ts, of
\* disconnect: "Close the connection to the DriftDB room").  The timer of a reconnect goes
\* on running and opens a new connection.
StaysDisconnected ==
    (AtRest /\ wanted = NoRoom) => \A socket \in Socket : ~Alive(socket)
=============================================================================
