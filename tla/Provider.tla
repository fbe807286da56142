------------------------------ MODULE Provider ------------------------------
(***************************************************************************)
(* The component DriftDBProvider and the hooks that follow its connection  *)
(* (js-pkg/packages/driftdb-react/src/index.tsx) around the DbConnection   *)
(* that it keeps (module Client): the request for a room (api.ts), whose   *)
(* answer may be late, the room's name in the page's URL, the subscriptions*)
(* and status listeners of hooks, and the latency tests of useLatency.     *)
(*                                                                         *)
(* A name of a room stands for its socket_url, too.                        *)
(***************************************************************************)
EXTENDS Client

CONSTANTS
    Prop,           \* what props.room may be: NoRoom if it is not given
    FirstParam,     \* what the URL may name when the page is opened
    MaxEffects      \* bound on the runs of the provider's effect

ASSUME PropAssumption == Prop \cup FirstParam \subseteq Room \cup {NoRoom}
ASSUME MaxEffectsAssumption == MaxEffects \in Nat /\ MaxEffects <= MaxConnects

VARIABLES
    mounted,        \* whether the component is mounted
    prop,           \* props.room
    param,          \* the room that the URL names
    rooms,          \* the rooms that the server has
    requests,       \* the requests of the API whose promises are pending
    effects,        \* how often the effect has run
    hooked,         \* the keys with a hook that has subscribed
    listening,      \* the hooks on the status: no, early, or late if they were
                    \* mounted when there was a connection already
    shown,          \* what they show: the status, the room of the QR code, and
                    \* whether there is a latency
    waiting,        \* whether useLatency waits for a result
    test,           \* whether a latency test is active
    ping,           \* per socket, its ping: none, sent, answered
    late            \* whether a cleanup has found something under way

hookVars == <<hooked, listening, shown, waiting, test, ping>>
pageVars == <<mounted, prop, param, rooms, requests, effects, late>>
providerVars == <<clientVars, pageVars, hookVars>>

NothingShown == [connected |-> FALSE, qr |-> NoRoom, latency |-> FALSE]

\* The room in the page's URL.
GetRoomId == param
SetRoomId(id) == param' = id

\* What the effect asks for: a new room, or the one that is given or in the URL.
RequestFor(given) ==
    [number |-> effects + 1, given |-> given, room |-> IF given # NoRoom THEN given ELSE GetRoomId]

\* The answers of the API.
NewRoom == Room \ rooms
GetRoom(id) == {id} \cap rooms

-----------------------------------------------------------------------------
(***************************************************************************)
(* The provider.                                                           *)
(***************************************************************************)

\* The effect is run.
Mount ==
    /\ ~mounted
    /\ effects < MaxEffects
    /\ mounted' = TRUE
    /\ effects' = effects + 1
    /\ requests' = requests \cup {RequestFor(prop)}
    /\ UNCHANGED <<clientVars, hookVars, prop, param, rooms, late>>

\* What disconnect does not stop.
UnderWay ==
    \/ requests # {} \/ timer # NoRoom
    \/ \E url \in Room : strays[url] > 0
    \/ \E socket \in Socket \ {connection} : phase[socket] # "closed" /\ ~silent[socket]

\* Slip: the socket is closed with its handlers on.
Cleanup_KeepsHandlers ==
    /\ wanted' = NoRoom
    /\ phase' = [socket \in Socket |->
                    IF socket = connection /\ Alive(socket) THEN "closing" ELSE phase[socket]]
    /\ subscriptions' = {}
    /\ late' = (late \/ UnderWay)
    /\ UNCHANGED <<silent, room, outgoing, gets, connection, connected, queue, timer, strays,
                   received, sends, connects, failures>>

\* The effect's cleanup: disconnect, whether or not there is a connection.
Cleanup ==
    /\ wanted' = NoRoom
    /\ phase' = [socket \in Socket |->
                    IF socket = connection /\ Alive(socket) THEN "closing" ELSE phase[socket]]
    /\ silent' = [socket \in Socket |->
                     silent[socket] \/ (socket = connection /\ phase[socket] # "closed")]
    /\ subscriptions' = {}
    /\ late' = (late \/ UnderWay)
    /\ UNCHANGED <<room, outgoing, gets, connection, connected, queue, timer, strays,
                   received, sends, connects, failures>>

\* The component is unmounted, after the hooks under it.
Unmount ==
    /\ mounted
    /\ Cleanup
    /\ mounted' = FALSE
    /\ hooked' = {}
    /\ listening' = "no"
    /\ shown' = NothingShown
    /\ waiting' = FALSE
    /\ UNCHANGED <<prop, param, rooms, requests, effects, test, ping>>

\* It is given another room: the effect is cleaned up and run again, and no hook's is.
Change ==
    /\ mounted
    /\ effects < MaxEffects
    /\ prop' \in Prop \ {prop}
    /\ Cleanup
    /\ effects' = effects + 1
    /\ requests' = requests \cup {RequestFor(prop')}
    /\ UNCHANGED <<mounted, param, rooms, hookVars>>

\* A promise is resolved: the room goes into the URL unless it was given to a provider
\* that is there now, and the connection is made, also if the provider is there no more.
Resolve(request) ==
    \E url \in (IF request.room = NoRoom THEN NewRoom ELSE GetRoom(request.room)) :
        /\ requests' = requests \ {request}
        /\ rooms' = rooms \cup {url}
        /\ IF request.given = NoRoom THEN SetRoomId(url) ELSE UNCHANGED param
        /\ Connect(url)
        /\ UNCHANGED <<hookVars, mounted, prop, effects, late>>

\* A promise is rejected, which nobody handles: the network fails, or the answer is an
\* error because the room is not there.
Reject(request) ==
    /\ requests' = requests \ {request}
    /\ UNCHANGED <<clientVars, hookVars, mounted, prop, param, rooms, effects, late>>

-----------------------------------------------------------------------------
(***************************************************************************)
(* The hooks.                                                              *)
(***************************************************************************)

\* useDatabase: hooks are used under a provider.
UseDatabase == mounted

\* A hook subscribes to its key when it is mounted.
UseKey(key) ==
    /\ UseDatabase
    /\ key \notin hooked
    /\ hooked' = hooked \cup {key}
    /\ Subscribe(key)
    /\ UNCHANGED <<pageVars, listening, shown, waiting, test, ping>>

\* useConnectionStatus, and RoomQRCode beside it: neither looks at the status there is.
UseConnectionStatus ==
    /\ UseDatabase
    /\ listening = "no"
    /\ listening' = IF connected THEN "late" ELSE "early"
    /\ UNCHANGED <<clientVars, pageVars, hooked, shown, waiting, test, ping>>

\* RoomQRCode, when its listener is told anything: the URL, if there is a room in it.
RoomQRCode == IF GetRoomId # NoRoom THEN GetRoomId ELSE shown.qr

\* setStatus tells the listeners.
SetStatus(status) ==
    shown' = IF listening = "no" THEN shown
             ELSE [shown EXCEPT !.connected = status, !.qr = RoomQRCode]

\* StatusIndicator shows a latency only beside a connection.
StatusIndicator ==
    [connected |-> shown.connected, latency |-> shown.connected /\ shown.latency]

\* testLatency: there is one test at a time, for all who ask meanwhile.
TestLatency ==
    /\ test' = TRUE
    /\ ping' = IF test THEN ping ELSE [ping EXCEPT ![connection] = "sent"]

\* useLatency, when it is mounted and at every interval: without a connection there is
\* no result.
UseLatency ==
    /\ UseDatabase
    /\ \/ /\ CanSend
          /\ TestLatency
          /\ waiting' = TRUE
          /\ UNCHANGED shown
       \/ /\ ~CanSend
          /\ shown' = [shown EXCEPT !.latency = FALSE]
          /\ UNCHANGED <<waiting, test, ping>>
    /\ UNCHANGED <<clientVars, pageVars, hooked, listening>>

\* The room answers a ping.
AnswerPing(socket) ==
    /\ phase[socket] = "open"
    /\ ping[socket] = "sent"
    /\ ping' = [ping EXCEPT ![socket] = "answered"]
    /\ UNCHANGED <<clientVars, pageVars, hooked, listening, shown, waiting, test>>

\* receivedResponse, and result for who waits: that is still there if it waits.
ReceivedResponse ==
    /\ waiting' = FALSE
    /\ shown' = [shown EXCEPT !.latency = @ \/ waiting]

\* Slip: the test is told, and kept.
OnPong_KeepsTest(socket) ==
    /\ phase[socket] = "open"
    /\ ping[socket] = "answered"
    /\ ping' = [ping EXCEPT ![socket] = "none"]
    /\ IF test THEN ReceivedResponse ELSE UNCHANGED <<shown, waiting>>
    /\ UNCHANGED <<clientVars, pageVars, hooked, listening, test>>

\* onmessage, of a pong.
OnPong(socket) ==
    /\ phase[socket] = "open"
    /\ ping[socket] = "answered"
    /\ ping' = [ping EXCEPT ![socket] = "none"]
    /\ IF test THEN ReceivedResponse ELSE UNCHANGED <<shown, waiting>>
    /\ test' = FALSE
    /\ UNCHANGED <<clientVars, pageVars, hooked, listening>>

-----------------------------------------------------------------------------
(***************************************************************************)
(* The sockets and timers of the connection, with what hooks see of them.  *)
(***************************************************************************)

\* Slip: hooks that know their room are not told of a connection again.
Open_Once(socket) ==
    /\ OnOpen(socket)
    /\ IF shown.qr # NoRoom THEN UNCHANGED shown ELSE SetStatus(TRUE)
    /\ UNCHANGED <<pageVars, hooked, listening, waiting, test, ping>>

Open(socket) ==
    /\ OnOpen(socket)
    /\ SetStatus(TRUE)
    /\ UNCHANGED <<pageVars, hooked, listening, waiting, test, ping>>

Close(socket) ==
    /\ OnClose(socket)
    /\ IF silent[socket] THEN UNCHANGED shown ELSE SetStatus(FALSE)
    /\ ping' = [ping EXCEPT ![socket] = "none"]
    /\ UNCHANGED <<pageVars, hooked, listening, waiting, test>>

ProviderInit ==
    /\ ClientInit
    /\ mounted = FALSE
    /\ prop \in Prop
    /\ param \in FirstParam
    /\ rooms \in SUBSET ((FirstParam \cup Prop) \ {NoRoom})
    /\ requests = {}
    /\ effects = 0
    /\ hooked = {}
    /\ listening = "no"
    /\ shown = NothingShown
    /\ waiting = FALSE
    /\ test = FALSE
    /\ ping = [socket \in Socket |-> "none"]
    /\ late = FALSE

\* What is under way goes on.
GoOn ==
    \/ Reconnect /\ UNCHANGED <<pageVars, hookVars>>
    \/ \E socket \in Socket :
          \/ Open(socket) \/ AnswerPing(socket) \/ OnPong(socket)
          \/ phase[socket] = "closing" /\ Close(socket)
          \/ Arrive(socket) /\ UNCHANGED <<pageVars, hookVars>>

ProviderNext ==
    \/ GoOn \/ Mount \/ Unmount \/ Change \/ UseConnectionStatus \/ UseLatency
    \/ \E request \in requests : Resolve(request) \/ Reject(request)
    \/ \E key \in Key : UseKey(key)
    \/ \E socket \in Socket : Close(socket)

ProviderSpec == ProviderInit /\ [][ProviderNext]_providerVars /\ WF_providerVars(GoOn)

-----------------------------------------------------------------------------
(***************************************************************************)
(* Properties.                                                             *)
(***************************************************************************)

\* Nothing has disturbed the provider: its effect has run once.
Undisturbed == mounted /\ effects = 1

\* A hook that subscribes before there is a room, or while the connection is made, is
\* subscribed in the room in the end, as long as the first connection lasts.
HooksReachRoom ==
    (Undisturbed /\ AtRest /\ failures = 0 /\ wanted # NoRoom /\ outgoing[connection] = <<>>) =>
        hooked \subseteq subscriptions \cap gets[connection]

\* What the page shows is where it is: a client that came to rest, however often it
\* reconnected, shows that it is connected, and the URL and the QR code, if the room
\* was not given, lead others to the room that it is in.
ShowsRoomItIsIn ==
    (Undisturbed /\ AtRest /\ wanted # NoRoom) =>
        /\ room[connection] = IF prop # NoRoom THEN prop ELSE param
        /\ listening = "early" => /\ StatusIndicator.connected
                                  /\ prop = NoRoom => shown.qr = room[connection]

\* Once the provider is unmounted its client is out of the room for good, unless a
\* request or a reconnect was under way at the time of a cleanup.
LeavesRoom == (~mounted /\ ~late) => \A socket \in Socket : ~Alive(socket)

\* The pong that a test waits for has gone with the socket of its ping.
PongIsLost == test /\ \A socket \in Socket : ping[socket] = "none"

\* A latency test comes to its end and nobody waits for it any more, unless the socket
\* that its ping was sent on closes first, however often the client reconnects or goes to
\* another room: then no test ends and no latency is measured again, because the one that
\* waits keeps every later one from sending a ping.
LatencyIsMeasured ==
    /\ (test \/ waiting) ~> (~(test \/ waiting) \/ PongIsLost)
    /\ [][~PongIsLost /\ PongIsLost' =>
             \E socket \in Socket : ping[socket] # "none" /\ phase'[socket] = "closed"]_providerVars

-----------------------------------------------------------------------------
(***************************************************************************)
(* What the documents say and the code does not do.                        *)
(***************************************************************************)

\* A page whose requests were all answered with a room is in the one that it was given
\* last once nothing is under way ("The room ID to connect to", index.tsx, of props.room),
\* and each of its hooks has asked for its key there (js.md: a subscription's callback is
\* called "for every message in the stream", and the connection "will automatically
\* reconnect").  But the answer for an earlier room may be the last to come; the socket
\* that connect closes keeps its handlers, and its close starts a timer that goes back to
\* the room that was left; and no get is sent again on the socket of a reconnect or in
\* another room.
PageIsInItsRoom ==
    (mounted /\ connects = effects /\ AtRest /\ prop # NoRoom /\ outgoing[connection] = <<>>) =>
        room[connection] = prop /\ hooked \subseteq gets[connection]
=============================================================================
