------------------------------ MODULE Reducer ------------------------------
(***************************************************************************)
(* Clients that share one stream through a Compactor                       *)
(* (js-pkg/packages/driftdb/src/compactor.ts, and reducer.ts on top of it, *)
(* which is optimistic): each folds the stream into a state, appends       *)
(* actions to it, and now and then replaces its beginning by a snapshot.   *)
(* They are composed with the room that serves them.  A client may have    *)
(* several Compactors of the stream on its one connection, of components   *)
(* that mount one after the other (useSharedReducer in driftdb-react).     *)
(* Both directions of a connection are FIFO queues: what a client has sent *)
(* and the server has not handled, and the inbox.                          *)
(*                                                                         *)
(* A state is the sequence of actions applied to the initial state: two    *)
(* states are equal under every reducer function exactly if these are.     *)
(***************************************************************************)
EXTENDS Room

CONSTANTS
    ReducerKey,     \* the stream
    Optimistic,     \* whether dispatch applies an action before its broadcast
    SizeThreshold,  \* the stream size above which a client compacts
    MaxDispatch,    \* bound on the actions dispatched
    MaxMounts       \* per client, bound on its Compactors

ASSUME ReducerKeyAssumption == ReducerKey \in Key
ASSUME OptimisticAssumption == Optimistic \in BOOLEAN
ASSUME SizeThresholdAssumption == SizeThreshold \in Nat \ {0}
ASSUME MaxDispatchAssumption == MaxDispatch \in 0 .. MaxSeq
ASSUME MaxMountsAssumption == MaxMounts \in [Conn -> Nat]

VARIABLES
    up,         \* per client, the messages the server has yet to handle
    compactors, \* per client, what its Compactors remember, in the order they subscribed
    dispatched, \* the number of actions dispatched; the last one's identity
    history     \* the actions in the order the room broadcast them, numbered

reducerVars == <<roomVars, up, compactors, dispatched, history>>

States == Seq(1 .. MaxDispatch)

\* The randId of a client's n-th Compactor.
RandId(client, n) == <<client, n>>
RandIds == UNION {{RandId(client, n) : n \in 1 .. MaxMounts[client]} : client \in Conn}

\* The values clients push: Value stands for these.
ReducerValue ==
    [type : {"apply"}, action : 1 .. MaxDispatch, i : RandIds]
        \cup [type : {"reset"}, state : States]

\* The reducer function, which tells every history from every other.
Reduce(state, action) == Append(state, action)

InitialCompactor == [state |-> <<>>, lastConfirmedState |-> <<>>, lastConfirmedSeq |-> 0]

-----------------------------------------------------------------------------
(***************************************************************************)
(* The Compactor.                                                          *)
(***************************************************************************)

\* Slip: the number of a snapshot is not remembered.
OnSequenceValue_ForgetsNumber(randId, compactor, entry) ==
    IF entry.seq <= compactor.lastConfirmedSeq THEN compactor
    ELSE IF entry.value.type = "reset"
    THEN [compactor EXCEPT !.lastConfirmedState = entry.value.state]
    ELSE [compactor EXCEPT !.lastConfirmedState = Append(@, entry.value.action),
                           !.lastConfirmedSeq = entry.seq]

\* A snapshot replaces both states.  An action extends the confirmed state, and
\* the shown one is reset to it, unless the action is this Compactor's own and was
\* applied when it was dispatched.
OnSequenceValue(randId, compactor, entry) ==
    IF entry.seq <= compactor.lastConfirmedSeq THEN compactor
    ELSE IF entry.value.type = "reset"
    THEN [state              |-> entry.value.state,
          lastConfirmedState |-> entry.value.state,
          lastConfirmedSeq   |-> entry.seq]
    ELSE LET confirmed == Reduce(compactor.lastConfirmedState, entry.value.action)
             own       == entry.value.i = randId /\ Optimistic
         IN  [state              |-> IF own THEN compactor.state ELSE confirmed,
              lastConfirmedState |-> confirmed,
              lastConfirmedSeq   |-> entry.seq]

\* Slip: only the newest entry of a replay counts, as for a key-value pair.
OnSequenceValues_OnlyLast(randId, compactor, data) ==
    IF data = <<>> THEN compactor ELSE OnSequenceValue(randId, compactor, Last(data))

\* The entries of a replay, one by one.
OnSequenceValues(randId, compactor, data) ==
    LET told[i \in 0 .. Len(data)] ==
            IF i = 0 THEN compactor ELSE OnSequenceValue(randId, told[i - 1], data[i])
    IN  told[Len(data)]

AppendRequest(randId, action) ==
    [type |-> "push", action |-> [type |-> "append"],
     value |-> [type |-> "apply", action |-> action, i |-> randId]]

\* Slip: the action is sent in the place of the message.
CompactRequestOf_ActionOnly(state, seq) == [type |-> "compact", seq |-> seq]

CompactRequestOf(state, seq) ==
    [type |-> "push", action |-> [type |-> "compact", seq |-> seq],
     value |-> [type |-> "reset", state |-> state]]

\* Slips: the snapshot is of the state shown, with what is not confirmed; it is
\* numbered one too high, or one too low.
CompactRequest_Shown(compactor) ==
    CompactRequestOf(compactor.state, compactor.lastConfirmedSeq)
CompactRequest_Ahead(compactor) ==
    CompactRequestOf(compactor.lastConfirmedState, compactor.lastConfirmedSeq + 1)
CompactRequest_Behind(compactor) ==
    CompactRequestOf(compactor.lastConfirmedState, compactor.lastConfirmedSeq - 1)

CompactRequest(compactor) ==
    CompactRequestOf(compactor.lastConfirmedState, compactor.lastConfirmedSeq)

GetRequest == [type |-> "get", seq |-> 0]

\* What a client sends on being told the size of its stream.
OnSize(compactor, size) ==
    IF size > SizeThreshold /\ compactor.lastConfirmedSeq # 0
    THEN <<CompactRequest(compactor)>>
    ELSE <<>>

\* What its Compactors send on it, one after the other.
OnSizes(told, size) ==
    LET sent[n \in 0 .. Len(told)] ==
            IF n = 0 THEN <<>> ELSE sent[n - 1] \o OnSize(told[n], size)
    IN  sent[Len(told)]

-----------------------------------------------------------------------------
(***************************************************************************)
(* Steps.                                                                  *)
(***************************************************************************)

\* A component subscribes a Compactor, asking for a replay, in a client that joins or
\* that had one before: which goes on whether its component is still there or not, as
\* destroy takes no listener away (module SharedState).
Subscribe(client) ==
    /\ \/ Connect(client)
       \/ Live(client) /\ UNCHANGED roomVars
    /\ Len(compactors[client]) < MaxMounts[client]
    /\ compactors' = [compactors EXCEPT ![client] = Append(@, InitialCompactor)]
    /\ up' = [up EXCEPT ![client] = Append(@, GetRequest)]
    /\ UNCHANGED <<dispatched, history>>

Dispatch(client, n) ==
    /\ n \in DOMAIN compactors[client]
    /\ dispatched < MaxDispatch
    /\ dispatched' = dispatched + 1
    /\ up' = [up EXCEPT ![client] = Append(@, AppendRequest(RandId(client, n), dispatched'))]
    /\ compactors' = IF Optimistic
                     THEN [compactors EXCEPT ![client][n].state = Reduce(@, dispatched')]
                     ELSE compactors
    /\ UNCHANGED <<roomVars, history>>

\* A client goes away with its Compactors: what it has sent and the server has
\* not handled is lost, and so is what it has not received.
Leave(client) ==
    /\ Drop(client)
    /\ up' = [up EXCEPT ![client] = <<>>]
    /\ compactors' = [compactors EXCEPT ![client] = <<>>]
    /\ UNCHANGED <<dispatched, history>>

\* The server handles the next message of a client.
Serve(client) ==
    /\ up[client] # <<>>
    /\ LET request == Head(up[client])
       IN  \/ /\ request.type = "get"
              /\ Get(client, ReducerKey, request.seq)
              /\ UNCHANGED history
           \/ /\ request.type = "push"
              /\ Push(client, ReducerKey, request.value, request.action)
              /\ history' = IF request.action.type = "compact" THEN history
                            ELSE Append(history, [seq    |-> Stamp(request.action),
                                                  action |-> request.value.action])
    /\ up' = [up EXCEPT ![client] = Tail(@)]
    /\ UNCHANGED <<compactors, dispatched>>

\* A client handles the next message of the server: all its Compactors are told.
Receive(client) ==
    /\ Live(client)
    /\ inbox[client] # <<>>
    /\ inbox' = [inbox EXCEPT ![client] = Tail(@)]
    /\ LET message == Head(inbox[client])
           Told(entries) ==
               compactors' = [compactors EXCEPT ![client] = [n \in DOMAIN @ |->
                                 OnSequenceValues(RandId(client, n), @[n], entries)]]
       IN  \/ message.type = "push" /\ Told(<<EntryOf(message)>>) /\ UNCHANGED up
           \/ message.type = "init" /\ Told(message.data) /\ UNCHANGED up
           \/ /\ message.type = "stream_size"
              /\ up' = [up EXCEPT ![client] = @ \o OnSizes(compactors[client], message.size)]
              /\ UNCHANGED compactors
    /\ UNCHANGED <<storeVars, status, subscriptions, debug_connections, dispatched, history>>

ReducerInit ==
    /\ RoomInit
    /\ up = [client \in Conn |-> <<>>]
    /\ compactors = [client \in Conn |-> <<>>]
    /\ dispatched = 0
    /\ history = <<>>

ReducerNext ==
    \E client \in Conn :
        \/ Subscribe(client) \/ Leave(client) \/ \E n \in 1 .. MaxMounts[client] : Dispatch(client, n)
        \/ Serve(client) \/ Receive(client)

\* The server's socket task and the client's event loop keep taking messages.
ReducerSpec ==
    /\ ReducerInit /\ [][ReducerNext]_reducerVars
    /\ \A client \in Conn : WF_reducerVars(Serve(client)) /\ WF_reducerVars(Receive(client))

-----------------------------------------------------------------------------
(***************************************************************************)
(* Properties.                                                             *)
(***************************************************************************)

Compactor == [state : States, lastConfirmedState : States, lastConfirmedSeq : Nat]

Request ==
    {GetRequest} \cup [type : {"push"}, action : Action, value : ReducerValue]

ReducerTypeOK ==
    /\ RoomTypeOK
    /\ up \in [Conn -> Seq(Request)]
    /\ compactors \in [Conn -> Seq(Compactor)]
    /\ dispatched \in 0 .. MaxDispatch
    /\ history \in Seq([seq : Nat, action : 1 .. MaxDispatch])

\* The actions the room has broadcast under the numbers up to n.
HistoryUpTo(n) == [i \in {i \in DOMAIN history : history[i].seq <= n} |-> history[i].action]

\* What a Compactor has confirmed is the room's history up to its last confirmed
\* number, each action once and in order, whatever snapshots of whichever client
\* it was rebuilt from: no compaction loses, repeats or reorders an action.
ConfirmedIsHistory ==
    \A client \in Conn : \A compactor \in Range(compactors[client]) :
        compactor.lastConfirmedState = HistoryUpTo(compactor.lastConfirmedSeq)

\* A client that joins now and replays the stream gets everything that was ever
\* dispatched and broadcast, also when snapshots taken at different points were
\* pushed concurrently and a late one went in front of a newer one.
ReplayIsHistory ==
    \A randId \in RandIds :
        OnSequenceValues(randId, InitialCompactor, subjects[ReducerKey]).lastConfirmedState
            = HistoryUpTo(sequence_number)

\* Clients compact only at numbers the room has handed out, and not at 0.
CompactionsAtSeenNumbers ==
    \A client \in Conn : \A request \in Range(up[client]) :
        (request.type = "push" /\ request.action.type = "compact") =>
            request.action.seq \in 1 .. sequence_number

AtRest == \A client \in Conn : Live(client) => up[client] = <<>> /\ inbox[client] = <<>>

\* When every message has been handled, every Compactor has confirmed everything.
AllConfirmedAtRest ==
    AtRest => \A client \in Conn : \A compactor \in Range(compactors[client]) :
        compactor.lastConfirmedState = HistoryUpTo(sequence_number)

\* The clients stop compacting once they stop dispatching: the size that answers
\* one compaction does not provoke the next for ever.
ComesToRest == []<>AtRest

\* react.md, of useSharedReducer: it "guarantees that the same change will be
\* applied in the same order across all clients", and rewinds an optimistic
\* change to reapply it in the correct order.
StatesAgreeAtRest ==
    AtRest => \A client \in Conn : \A compactor \in Range(compactors[client]) :
        compactor.state = HistoryUpTo(sequence_number)
=============================================================================
