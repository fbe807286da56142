---------------------------- MODULE SocketServer ----------------------------
(***************************************************************************)
(* The stand-alone server (driftdb-server/src/server.rs) around one room:  *)
(* a task per socket, which moves what the socket receives to the room and *)
(* what the room leaves in the socket's channel to the client; messages    *)
(* that are posted by HTTP; and the map that the room is in, which a       *)
(* restart empties.                                                        *)
(*                                                                         *)
(* A task runs from one await to the next, on any of several threads: each *)
(* action is what it does when one of the two branches of select! is       *)
(* ready.  The room's mutex makes each call of send_message one step.      *)
(***************************************************************************)
EXTENDS Room

CONSTANTS
    PushActions,    \* the actions that clients push with
    MaxFrames       \* bound on the frames that clients send and post

ASSUME PushActionsAssumption == PushActions \subseteq Action
ASSUME MaxFramesAssumption == MaxFrames \in Nat

VARIABLES
    room_map,   \* whether the room is uncreated, there, or lost
    task,       \* per connection, what its task does: none (not yet), loop,
                \* answer (a ping, for ever), spin, posted (not yet handled), post,
                \* ended
    incoming,   \* per connection, the frames that the task has yet to receive
    broken,     \* the connections whose client has gone without a word
    wire,       \* per connection, the messages sent to its client
    frames      \* the number of frames sent and posted

serverVars == <<roomVars, room_map, task, incoming, broken, wire, frames>>

\* What the messages of clients decode to.
Request ==
    [type : {"push"}, key : Key, value : Value, action : PushActions]
        \cup [type : {"get"}, key : Key, seq : {0}]
        \cup {[type |-> "ping"]}

\* Frames of a web socket: a request, what cannot be decoded, control frames; close is
\* also the end of a socket whose client's system has shut it.
Frame == Request \cup [type : {"garbage", "ws_ping", "ws_pong", "close"}]

\* send_message
SendMessage(conn, request) ==
    \/ /\ request.type = "push"
       /\ Push(conn, request.key, request.value, request.action)
    \/ request.type = "get" /\ Get(conn, request.key, request.seq)
    \/ request.type = "ping" /\ Ping(conn)

\* The task ends, and its connection and its socket with it.
End(conn) ==
    /\ Drop(conn)
    /\ task' = [task EXCEPT ![conn] = "ended"]
    /\ incoming' = [incoming EXCEPT ![conn] = <<>>]
    /\ wire' = [wire EXCEPT ![conn] = <<>>]

-----------------------------------------------------------------------------
(***************************************************************************)
(* The HTTP routes.                                                        *)
(***************************************************************************)

\* new_room.  A room's name is never used again.
NewRoom ==
    /\ room_map = "uncreated"
    /\ room_map' = "there"
    /\ UNCHANGED <<roomVars, task, incoming, broken, wire, frames>>

\* connection.  If the room is not there the handler panics, and there is no socket.
Upgrade(conn) ==
    /\ room_map = "there"
    /\ task[conn] = "none"
    /\ Connect(conn) \/ ConnectDebug(conn)
    /\ task' = [task EXCEPT ![conn] = "loop"]
    /\ UNCHANGED <<room_map, incoming, broken, wire, frames>>

\* HttpConnection.send: a message is posted, whether or not the room is there.
Post(conn, request) ==
    /\ room_map # "uncreated"
    /\ task[conn] = "none"
    /\ frames < MaxFrames
    /\ frames' = frames + 1
    /\ task' = [task EXCEPT ![conn] = "posted"]
    /\ incoming' = [incoming EXCEPT ![conn] = <<request>>]
    /\ UNCHANGED <<roomVars, room_map, broken, wire>>

\* post_message: the message is sent on a connection of its own that hears nothing.
ServePost(conn) ==
    /\ \/ /\ task[conn] = "posted"
          /\ room_map = "there"
          /\ Connect(conn)
          /\ task' = [task EXCEPT ![conn] = "post"]
          /\ UNCHANGED <<incoming, wire>>
       \/ /\ task[conn] = "posted"
          /\ room_map = "lost"
          /\ task' = [task EXCEPT ![conn] = "ended"]
          /\ incoming' = [incoming EXCEPT ![conn] = <<>>]
          /\ UNCHANGED <<roomVars, wire>>
       \/ /\ task[conn] = "post"
          /\ incoming[conn] # <<>>
          /\ SendMessage(conn, Head(incoming[conn]))
          /\ incoming' = [incoming EXCEPT ![conn] = <<>>]
          /\ UNCHANGED <<task, wire>>
       \/ task[conn] = "post" /\ incoming[conn] = <<>> /\ End(conn)
    /\ UNCHANGED <<room_map, broken, frames>>

\* The server stops and starts: rooms, streams and connections are gone.
Restart ==
    /\ room_map = "there"
    /\ room_map' = "lost"
    /\ subjects' = [key \in Key |-> <<>>]
    /\ sequence_number' = 0
    /\ status' = [conn \in Conn |-> IF Live(conn) THEN "dropped" ELSE status[conn]]
    /\ task' = [conn \in Conn |-> IF task[conn] = "none" THEN "none" ELSE "ended"]
    /\ inbox' = [conn \in Conn |-> <<>>]
    /\ subscriptions' = [key \in Key |-> [conn \in Conn |-> 0]]
    /\ debug_connections' = {}
    /\ incoming' = [conn \in Conn |-> <<>>]
    /\ wire' = [conn \in Conn |-> <<>>]
    /\ UNCHANGED <<broken, frames>>

-----------------------------------------------------------------------------
(***************************************************************************)
(* The socket's task, handle_socket.                                       *)
(***************************************************************************)

\* Slip: a get is answered at once, not through the channel.
Receive_AnswersAtOnce(conn) ==
    /\ task[conn] = "loop"
    /\ incoming[conn] # <<>>
    /\ LET frame == Head(incoming[conn])
       IN  \/ /\ frame.type = "push"
              /\ SendMessage(conn, frame)
              /\ UNCHANGED wire
           \/ /\ frame.type = "get"
              /\ subscriptions' = [subscriptions EXCEPT ![frame.key][conn] = @ + 1]
              /\ wire' = [wire EXCEPT ![conn] = Append(@, InitMessage(frame.key, Read(frame.key, 0)))]
              /\ UNCHANGED <<storeVars, status, debug_connections, inbox>>
    /\ incoming' = [incoming EXCEPT ![conn] = Tail(@)]
    /\ UNCHANGED <<room_map, task, broken, frames>>

\* The branch of the socket.  A frame that cannot be decoded ends the task, after an
\* error that overtakes what waits in the channel; recv takes a control frame out of
\* the socket once and then looks at it for ever.
Receive(conn) ==
    /\ task[conn] = "loop"
    /\ incoming[conn] # <<>>
    /\ LET frame == Head(incoming[conn])
       IN  \/ /\ frame.type \in {"push", "get", "ping"}
              /\ SendMessage(conn, frame)
              /\ incoming' = [incoming EXCEPT ![conn] = Tail(@)]
              /\ UNCHANGED <<task, wire>>
           \/ frame.type \in {"garbage", "close"} /\ End(conn)
           \/ /\ frame.type \in {"ws_ping", "ws_pong"}
              /\ task' = [task EXCEPT ![conn] = IF frame.type = "ws_ping" THEN "answer" ELSE "spin"]
              /\ incoming' = [incoming EXCEPT ![conn] = Tail(@)]
              /\ UNCHANGED <<roomVars, wire>>
    /\ UNCHANGED <<room_map, broken, frames>>

\* The branch of the channel.  While a ping is answered it may get its turn when the
\* socket is not ready for the next answer, and the ping is then forgotten.
Forward(conn) ==
    /\ task[conn] \in {"loop", "answer"}
    /\ conn \notin broken
    /\ inbox[conn] # <<>>
    /\ inbox' = [inbox EXCEPT ![conn] = Tail(@)]
    /\ wire' = [wire EXCEPT ![conn] = Append(@, Head(inbox[conn]))]
    /\ task' = [task EXCEPT ![conn] = "loop"]
    /\ UNCHANGED <<storeVars, status, subscriptions, debug_connections,
                   room_map, incoming, broken, frames>>

\* Slip: a failure to send is only logged.
Fail_OnReceiveOnly(conn) ==
    /\ task[conn] \in {"loop", "answer"}
    /\ conn \in broken
    /\ inbox[conn] = <<>>
    /\ End(conn)
    /\ UNCHANGED <<room_map, broken, frames>>

\* The task notices that the client is gone: sending fails and it panics, or what it has
\* sent before makes recv fail, whatever frames it has not received.
Fail(conn) ==
    /\ task[conn] \in {"loop", "answer"}
    /\ conn \in broken
    /\ End(conn)
    /\ UNCHANGED <<room_map, broken, frames>>

-----------------------------------------------------------------------------
(***************************************************************************)
(* Clients.                                                                *)
(***************************************************************************)

\* After a close a client sends nothing.
Closing(conn) == incoming[conn] # <<>> /\ Last(incoming[conn]).type = "close"

Send(conn, frame) ==
    /\ task[conn] \in {"loop", "answer", "spin"}
    /\ conn \notin broken
    /\ ~Closing(conn)
    /\ frame.type # "close" => frames < MaxFrames /\ frames' = frames + 1
    /\ frame.type = "close" => UNCHANGED frames
    /\ incoming' = [incoming EXCEPT ![conn] = Append(@, frame)]
    /\ UNCHANGED <<roomVars, room_map, task, broken, wire>>

Vanish(conn) ==
    /\ task[conn] \in {"loop", "answer", "spin"}
    /\ conn \notin broken
    /\ broken' = broken \cup {conn}
    /\ UNCHANGED <<roomVars, room_map, task, incoming, wire, frames>>

ServerInit ==
    /\ RoomInit
    /\ room_map = "uncreated"
    /\ task = [conn \in Conn |-> "none"]
    /\ incoming = [conn \in Conn |-> <<>>]
    /\ broken = {}
    /\ wire = [conn \in Conn |-> <<>>]
    /\ frames = 0

ServerNext ==
    \/ NewRoom \/ Restart
    \/ \E conn \in Conn :
          \/ Upgrade(conn) \/ ServePost(conn) \/ Vanish(conn)
          \/ Receive(conn) \/ Forward(conn) \/ Fail(conn)
          \/ \E request \in Request : Post(conn, request)
          \/ \E frame \in Frame : Send(conn, frame)

\* A client that is gone without a word shows in what it does not take: as long as there
\* is nothing to send, neither branch of select! need ever be ready, and there is no
\* timeout and no ping to wake the task.
SomethingToSend(conn) == inbox[conn] # <<>> \/ task[conn] = "answer"

\* A task that is ready goes on, with whichever of its branches.
Step(conn) ==
    \/ Receive(conn) \/ ServePost(conn)
    \/ SomethingToSend(conn) /\ Fail(conn)
    \/ task[conn] = "loop" /\ Forward(conn)

ServerSpec ==
    /\ ServerInit /\ [][ServerNext]_serverVars
    /\ \A conn \in Conn : WF_serverVars(Step(conn))

-----------------------------------------------------------------------------
(***************************************************************************)
(* Properties.                                                             *)
(***************************************************************************)

ServerTypeOK ==
    /\ RoomTypeOK
    /\ room_map \in {"uncreated", "there", "lost"}
    /\ task \in [Conn -> {"none", "loop", "answer", "spin", "posted", "post", "ended"}]
    /\ \A conn \in Conn : Live(conn) <=> task[conn] \notin {"none", "posted", "ended"}
    /\ broken \subseteq Conn
    /\ frames \in 0 .. MaxFrames

\* What a client is told, and what waits in its channel behind that, goes forward: a
\* push carries no lower number than a push before it and a higher one than all entries
\* that it was shown before, however many messages a full channel has dropped and whoever
\* else pushes and posts meanwhile.  A debug connection that also subscribes is shown a
\* stream just before it is told of the push that changed it.
TellsForward ==
    \A conn \in Conn :
        LET told == wire[conn] \o inbox[conn]
        IN  \A i, j \in DOMAIN told : (i < j /\ told[j].type = "push") =>
                /\ told[i].type = "push" => told[i].seq <= told[j].seq
                /\ told[i].type = "init" => \A n \in DOMAIN told[i].data :
                      \/ told[i].data[n].seq < told[j].seq
                      \/ conn \in debug_connections /\ told[i].data[n].seq = told[j].seq

\* A client that closes its socket is dropped from the room in the end, whatever waits in
\* its socket and its channel, and so is one that has gone without a word as soon as the
\* room has something for it: unless it has sent a control frame of its own, at which the
\* task may stay for ever.
ClosedIsDropped ==
    \A conn \in Conn :
        (task[conn] = "loop" /\ (Closing(conn) \/ (conn \in broken /\ inbox[conn] # <<>>)))
            ~> (status[conn] = "dropped" \/ task[conn] \in {"answer", "spin"})
-----------------------------------------------------------------------------
(***************************************************************************)
(* What the documents say and the code does not do.                        *)
(***************************************************************************)

\* The reply to a get is sent to a client that is there (api.md: "The server will respond
\* to a `get` message with an `init` message").  A pong that the client sends on its own,
\* as the protocol of web sockets allows, keeps the task looking at it before it has looked
\* into the channel; at a ping the task goes on if an answer takes its time.
RepliesAreSent ==
    \A conn \in Conn :
        LET Replied == \E message \in Range(inbox[conn]) : message.type = "init"
        IN  Replied ~> (~Replied \/ conn \in broken \/ task[conn] = "answer")
=============================================================================
