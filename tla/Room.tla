-------------------------------- MODULE Room --------------------------------
(***************************************************************************)
(* A room: the database (driftdb/src/db.rs) that the connections of one    *)
(* room share, and what each of them makes it do (driftdb/src/             *)
(* connection.rs).  send_message and connect_debug hold the database's     *)
(* mutex from beginning to end and deliver through the callbacks before    *)
(* they release it, so each is one step, and concurrent callers interleave *)
(* between steps.  A connection's inbox is the channel in which its        *)
(* callback leaves messages for the task of its socket                     *)
(* (driftdb-server/src/server.rs), which takes them out one by one.        *)
(***************************************************************************)
EXTENDS Store

CONSTANTS
    Conn,       \* the connections that may be made to the room
    NoSeq,      \* the absent sequence number of a get that asks for no replay
    Capacity    \* how many messages a connection's channel holds

ASSUME KeyAssumption == IsFiniteSet(Key)
ASSUME NoSeqAssumption == NoSeq \notin Nat
ASSUME CapacityAssumption == Capacity \in Nat

VARIABLES
    status,             \* of each connection: "new", "open", then "dropped"
    subscriptions,      \* how often each connection is in each key's listeners
    debug_connections,  \* the connections told of every stream
    inbox               \* the messages delivered to each connection

connVars == <<status, subscriptions, debug_connections, inbox>>
roomVars == <<storeVars, connVars>>

-----------------------------------------------------------------------------
(***************************************************************************)
(* Messages to clients.                                                    *)
(***************************************************************************)

PushMessage(key, entry) ==
    [type |-> "push", key |-> key, value |-> entry.value, seq |-> entry.seq]
\* The sequence value that a push message carries.
EntryOf(message) == [value |-> message.value, seq |-> message.seq]

InitMessage(key, data) == [type |-> "init", key |-> key, data |-> data]
StreamSizeMessage(key, size) == [type |-> "stream_size", key |-> key, size |-> size]
PongMessage == [type |-> "pong"]

Message ==
    [type : {"push"}, key : Key, value : Value, seq : Nat]
        \cup [type : {"init"}, key : Key, data : Seq(SequenceValue)]
        \cup [type : {"stream_size"}, key : Key, size : Nat]
        \cup {PongMessage}

\* The callback tries to send each message; what does not fit is dropped.
Offer(queue, messages) ==
    LET all == queue \o messages
    IN  IF Len(all) <= Capacity THEN all ELSE SubSeq(all, 1, Capacity)

\* Slip: a broadcast goes to every connection.
Copies_ToAll(n, message) == [i \in 1 .. (IF n = 0 THEN 1 ELSE n) |-> message]

Copies(n, message) == [i \in 1 .. n |-> message]

\* A Weak reference to a connection can be upgraded until its owner drops it.
Live(conn) == status[conn] = "open"

\* The messages that a push hands to one connection: the debug message, one
\* copy of the broadcast per subscription, then the answer to the sender.
PushDeliveries(conn, sender, key, value, action, stream) ==
    LET message == PushMessage(key, [value |-> value, seq |-> Stamp(action)])
        debug   == IF conn \notin debug_connections THEN <<>>
                   ELSE IF Mutates(action) THEN <<InitMessage(key, RetainAfter(stream, 0))>>
                   ELSE <<message>>
        copies  == IF Broadcasts(action) THEN Copies(subscriptions[key][conn], message) ELSE <<>>
        answer  == IF conn = sender /\ Len(stream) > 1
                   THEN <<StreamSizeMessage(key, Len(stream))>> ELSE <<>>
    IN  IF Live(conn) THEN debug \o copies \o answer ELSE <<>>

-----------------------------------------------------------------------------
(***************************************************************************)
(* Operations.                                                             *)
(***************************************************************************)

Connect(conn) ==
    /\ status[conn] = "new"
    /\ status' = [status EXCEPT ![conn] = "open"]
    /\ UNCHANGED <<storeVars, subscriptions, debug_connections, inbox>>

\* A debug connection first gets every stream there is, in no particular order.
ConnectDebug(conn) ==
    /\ status[conn] = "new"
    /\ status' = [status EXCEPT ![conn] = "open"]
    /\ \E order \in SetToSeqs({key \in Key : subjects[key] # <<>>}) :
          inbox' = [inbox EXCEPT ![conn] =
                       Offer(<<>>, [i \in DOMAIN order |->
                                       InitMessage(order[i], subjects[order[i]])])]
    /\ debug_connections' = debug_connections \cup {conn}
    /\ UNCHANGED <<storeVars, subscriptions>>

\* The owner drops the last Arc and goes away with what it has not read.  The
\* lists keep their Weak references until a broadcast fails to upgrade them.
Drop(conn) ==
    /\ status[conn] = "open"
    /\ status' = [status EXCEPT ![conn] = "dropped"]
    /\ inbox' = [inbox EXCEPT ![conn] = <<>>]
    /\ UNCHANGED <<storeVars, subscriptions, debug_connections>>

Push(sender, key, value, action) ==
    /\ Live(sender)
    /\ ApplyAction(key, value, action)
    /\ inbox' = [conn \in Conn |->
                    Offer(inbox[conn],
                          PushDeliveries(conn, sender, key, value, action, subjects'[key]))]
    /\ debug_connections' = {conn \in debug_connections : Live(conn)}
    /\ subscriptions' = IF Broadcasts(action)
                        THEN [subscriptions EXCEPT ![key] =
                                 [conn \in Conn |-> IF Live(conn) THEN @[conn] ELSE 0]]
                        ELSE subscriptions
    /\ UNCHANGED status

Get(conn, key, seq) ==
    /\ Live(conn)
    /\ subscriptions' = [subscriptions EXCEPT ![key][conn] = @ + 1]
    /\ inbox' = IF seq = NoSeq THEN inbox
                ELSE [inbox EXCEPT ![conn] = Offer(@, <<InitMessage(key, Read(key, seq))>>)]
    /\ UNCHANGED <<storeVars, status, debug_connections>>

Ping(conn) ==
    /\ Live(conn)
    /\ inbox' = [inbox EXCEPT ![conn] = Offer(@, <<PongMessage>>)]
    /\ UNCHANGED <<storeVars, status, subscriptions, debug_connections>>

RoomInit ==
    /\ StoreInit
    /\ status = [conn \in Conn |-> "new"]
    /\ subscriptions = [key \in Key |-> [conn \in Conn |-> 0]]
    /\ debug_connections = {}
    /\ inbox = [conn \in Conn |-> <<>>]

RoomNext ==
    \/ \E conn \in Conn : Connect(conn) \/ ConnectDebug(conn) \/ Drop(conn) \/ Ping(conn)
    \/ \E conn \in Conn, key \in Key :
          \/ \E value \in Value, action \in ClientAction(sequence_number) :
                Push(conn, key, value, action)
          \/ \E seq \in {NoSeq} \cup 0 .. sequence_number : Get(conn, key, seq)

RoomSpec == RoomInit /\ [][RoomNext]_roomVars

RoomTypeOK ==
    /\ StoreTypeOK
    /\ status \in [Conn -> {"new", "open", "dropped"}]
    /\ subscriptions \in [Key -> [Conn -> Nat]]
    /\ debug_connections \subseteq Conn
    /\ inbox \in [Conn -> Seq(Message)]
    /\ \A conn \in Conn : Len(inbox[conn]) <= Capacity

\* Broadcasts reach every connection in the order of their sequence numbers,
\* whatever the keys, the number of subscriptions and the other senders, so that
\* two connections never disagree on the order of two messages, also when they
\* are slow and miss some (data-model.md: "in the same order").
PushesInOrder ==
    \A conn \in Conn : \A i, j \in DOMAIN inbox[conn] :
        (i < j /\ inbox[conn][i].type = "push" /\ inbox[conn][j].type = "push") =>
            inbox[conn][i].seq <= inbox[conn][j].seq
=============================================================================
