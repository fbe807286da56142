----------------------------- MODULE RoomTrace -----------------------------
(***************************************************************************)
(* What the clients of a room may rely on, stated over the room's history: *)
(* the pushes in the order in which the mutex let them happen, and for     *)
(* each connection when it subscribed and what it asked to be replayed.    *)
(* Inboxes are not consumed here, so each is all its connection was told.  *)
(***************************************************************************)
EXTENDS Room

CONSTANT MaxRequests    \* bound on the messages clients send

VARIABLES
    requests,   \* how many messages clients have sent
    history,    \* every push so far: a key, an action and the entry made of the value
    joined,     \* per connection and key, Len(history) when it first subscribed
    replay      \* per connection and key, its last replay: the place of the
                \* answer in its inbox and the number it asked to start after

traceVars == <<roomVars, requests, history, joined, replay>>

NoReplay == [at |-> 0, from |-> 0]

Unsubscribed == -1

Counted ==
    /\ requests < MaxRequests
    /\ requests' = requests + 1

TraceConnect(conn) ==
    /\ Connect(conn) \/ ConnectDebug(conn) \/ Drop(conn)
    /\ UNCHANGED <<requests, history, joined, replay>>

TracePing(conn) ==
    /\ Counted
    /\ Ping(conn)
    /\ UNCHANGED <<history, joined, replay>>

TracePush(conn, key, value, action) ==
    /\ Counted
    /\ Push(conn, key, value, action)
    /\ history' = Append(history, [key    |-> key,
                                   action |-> action,
                                   entry  |-> [value |-> value, seq |-> Stamp(action)]])
    /\ UNCHANGED <<joined, replay>>

TraceGet(conn, key, seq) ==
    /\ Counted
    /\ Get(conn, key, seq)
    /\ joined' = IF joined[conn][key] # Unsubscribed THEN joined
                 ELSE [joined EXCEPT ![conn][key] = Len(history)]
    /\ replay' = IF seq = NoSeq THEN replay
                 ELSE [replay EXCEPT ![conn][key] = [at |-> Len(inbox'[conn]), from |-> seq]]
    /\ UNCHANGED history

TraceInit ==
    /\ RoomInit
    /\ requests = 0
    /\ history = <<>>
    /\ joined = [conn \in Conn |-> [key \in Key |-> Unsubscribed]]
    /\ replay = [conn \in Conn |-> [key \in Key |-> NoReplay]]

TraceNext ==
    \/ \E conn \in Conn : TraceConnect(conn) \/ TracePing(conn)
    \/ \E conn \in Conn, key \in Key :
          \/ \E value \in Value, action \in ClientAction(sequence_number) :
                TracePush(conn, key, value, action)
          \/ \E seq \in {NoSeq} \cup 0 .. sequence_number : TraceGet(conn, key, seq)

TraceSpec == TraceInit /\ [][TraceNext]_traceVars

-----------------------------------------------------------------------------
(***************************************************************************)
(* Readings of the trace.                                                  *)
(***************************************************************************)

\* A connection whose channel has always had room: what does not fit is dropped.
KeepsUp(conn) == Live(conn) /\ Len(inbox[conn]) < Capacity

Clients == {conn \in Conn : KeepsUp(conn) /\ conn \notin debug_connections}

BroadcastsTo(key, start) ==
    {h \in DOMAIN history :
        h > start /\ history[h].key = key /\ Broadcasts(history[h].action)}

\* The numbers that the stream of the key was compacted at.
CompactedAt(key) ==
    {history[h].entry.seq :
        h \in {h \in DOMAIN history : history[h].key = key /\ ~Broadcasts(history[h].action)}}

\* The documents' rule for what a later push takes out of a stream: a replace all of
\* its key, a compact what is numbered up to its number.
Supersedes(later, h) ==
    /\ later > h
    /\ history[later].key = history[h].key
    /\ \/ history[later].action.type = "replace"
       \/ /\ history[later].action.type = "compact"
          /\ history[h].entry.seq <= history[later].entry.seq

\* The pushes whose entries ought to be in the stream of the key.
RetainedPushes(key) ==
    {h \in DOMAIN history :
        /\ history[h].key = key
        /\ Mutates(history[h].action)
        /\ \A later \in DOMAIN history : ~Supersedes(later, h)}

\* Where in its inbox, behind a place, a connection is told of the key's broadcasts.
PushesTo(conn, key, at) ==
    {i \in DOMAIN inbox[conn] : i > at /\ inbox[conn][i].type = "push" /\ inbox[conn][i].key = key}

Told(conn, key, at) == {EntryOf(inbox[conn][i]) : i \in PushesTo(conn, key, at)}

\* The same number is never told twice.
ToldOnceInOrder(conn, key, at) ==
    \A i, j \in PushesTo(conn, key, at) : i < j => inbox[conn][i].seq < inbox[conn][j].seq

\* Where a connection is sent the whole stream.
StreamsSent(conn, key) ==
    {i \in DOMAIN inbox[conn] : inbox[conn][i].type = "init" /\ inbox[conn][i].key = key}

-----------------------------------------------------------------------------
(***************************************************************************)
(* Properties.                                                             *)
(***************************************************************************)

\* An entry leaves a stream when, and only when, its own stream is replaced, or compacted
\* at its number or a later one, since it was pushed: no operation on one key loses or
\* adds data of another, no append loses what was there, and a compaction that races
\* with appends keeps every one that it has not seen.
StreamsHoldUnsuperseded ==
    \A key \in Key :
        Range(subjects[key]) = {history[h].entry : h \in RetainedPushes(key)}

\* From its one subscription to a key on, a connection is told of each of the
\* key's broadcasts, kept or only relayed, exactly once, in order and of nothing
\* else.
SubscribersFollowHistory ==
    \A conn \in Clients, key \in Key :
        subscriptions[key][conn] = 1 =>
            /\ Told(conn, key, 0) = {history[h].entry : h \in BroadcastsTo(key, joined[conn][key])}
            /\ ToldOnceInOrder(conn, key, 0)

\* A replay joins the live broadcasts without a gap and without a repetition:
\* get subscribes before it reads, under one lock, and nothing may come between
\* or be told twice, whatever is replaced or compacted meanwhile.  What the
\* stream holds and the client is not told are the results of compactions.
ReplayJoinsLive ==
    \A conn \in Clients, key \in Key :
        replay[conn][key] # NoReplay =>
            LET at       == replay[conn][key].at
                replayed == inbox[conn][at].data
            IN  /\ Increasing(replayed)
                /\ \A entry \in Range(replayed), i \in PushesTo(conn, key, at) :
                      entry.seq < inbox[conn][i].seq
                /\ subscriptions[key][conn] = 1 => ToldOnceInOrder(conn, key, at)
                /\ \A entry \in Range(subjects[key]) :
                      entry.seq > replay[conn][key].from /\ entry.seq \notin CompactedAt(key)
                          => entry \in Range(replayed) \cup Told(conn, key, at)

\* A debug connection that sends no get can mirror the whole room: the last
\* stream it was sent under a key is the stream, whenever it connected and
\* whichever actions followed.
DebugMirrorsStreams ==
    \A conn \in debug_connections, key \in Key :
        (KeepsUp(conn) /\ \A k \in Key : subscriptions[k][conn] = 0) =>
            \/ StreamsSent(conn, key) = {} /\ subjects[key] = <<>>
            \/ \E last \in StreamsSent(conn, key) :
                  /\ \A i \in StreamsSent(conn, key) : i <= last
                  /\ subjects[key] = inbox[conn][last].data

-----------------------------------------------------------------------------
(***************************************************************************)
(* What the documents say and the code does not do.                        *)
(***************************************************************************)

\* The step broadcasts a push.
Broadcast == Len(history') > Len(history) /\ Broadcasts(Last(history').action)

\* The step tells the connection of that push.
HearsIt(conn) ==
    \E i \in DOMAIN inbox'[conn] :
        /\ i > Len(inbox[conn])
        /\ inbox'[conn][i].type = "push"
        /\ EntryOf(inbox'[conn][i]) = Last(history').entry

\* A connection hears every broadcast in the room from the moment it is made (api.md: "it
\* is automatically subscribed to all broadcast messages in that room").  The code tells
\* the listeners of the key, which are those that have sent a get.
ConnectedHearEverything ==
    [][Broadcast => \A conn \in Conn :
          Live(conn) /\ Len(inbox[conn]) < Capacity => HearsIt(conn)]_traceVars
=============================================================================
