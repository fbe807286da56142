---------------------------- MODULE SharedState ----------------------------
(***************************************************************************)
(* Clients that share a value through a StateListener each                 *)
(* (js-pkg/packages/driftdb/src/state.ts), as the hook useSharedState      *)
(* (driftdb-react/src/index.tsx) uses it, composed with the room: a client *)
(* shows what it sets at once, sends at most so often, and overwrites the  *)
(* one entry of the stream.  The component of the hook may go and come     *)
(* back on the same connection, with a listener of its own.  Both          *)
(* directions of a connection are FIFO.                                    *)
(*                                                                         *)
(* A value is the number of the call that set it.  That is all there is to *)
(* say of a function given to the setter, too: it is applied to `state ??  *)
(* initialValue`, and nothing ever assigns `state`.                        *)
(***************************************************************************)
EXTENDS Room

CONSTANTS
    SharedKey,      \* the stream
    MaxSets,        \* bound on the calls of setState
    MaxMounts       \* per client, bound on the components it mounts, one after the other

ASSUME SharedKeyAssumption == SharedKey \in Key
ASSUME MaxSetsAssumption == MaxSets \in 0 .. MaxSeq
ASSUME MaxMountsAssumption == MaxMounts \in [Conn -> Nat]

VARIABLES
    up,         \* per client, the messages the server has yet to handle
    listeners,  \* per client, its StateListeners, in the order they subscribed
    mounted,    \* the clients whose last listener has its component
    sets        \* the number of calls of setState

sharedVars == <<roomVars, up, listeners, mounted, sets>>

\* The randId of a client's n-th listener.
RandId(client, n) == <<client, n>>

\* Value stands for these: a value and the randId of who set it.
WrappedValue ==
    [v : 1 .. MaxSets, i : UNION {{RandId(client, n) : n \in 1 .. MaxMounts[client]} : client \in Conn}]

ASSUME ValueAssumption == Value = WrappedValue

\* `shown`: what its callback showed last.  `sent`: the value it last gave to the
\* connection.  `recent`: less than debounceMillis have passed since lastUpdateSent.
\* `debounceTimeout`: whether its timer runs.  0 is the initial value, and no last one.
NewListener(recent) ==
    [shown |-> 0, lastValue |-> 0, sent |-> 0, debounceTimeout |-> FALSE, recent |-> recent]

ReplaceRequest(client, n, value) ==
    [type |-> "push", action |-> [type |-> "replace"],
     value |-> [v |-> value, i |-> RandId(client, n)]]
GetRequest == [type |-> "get", seq |-> 0]

\* Slip: of two values the one that was set later is kept.
Handler_KeepsLater(randId, shown, wrapped) ==
    IF wrapped.i = randId \/ wrapped.v < shown THEN shown ELSE wrapped.v

\* The handler that subscribe gives to the connection.
Handler(randId, shown, wrapped) == IF wrapped.i = randId THEN shown ELSE wrapped.v

\* sendUpdate of the listener as it is then: it stops the timer.
SendUpdate(client, n, listener) ==
    /\ listeners' = [listeners EXCEPT ![client][n] =
          [listener EXCEPT !.debounceTimeout = FALSE, !.sent = listener.lastValue]]
    /\ up' = [up EXCEPT ![client] = Append(@, ReplaceRequest(client, n, listener.lastValue))]

-----------------------------------------------------------------------------
(***************************************************************************)
(* Steps.                                                                  *)
(***************************************************************************)

\* SubscriptionManager.subscribe: the listener is told after those that were there.
AddListener(client, listener) == listeners' = [listeners EXCEPT ![client] = Append(@, listener)]

\* SubscriptionManager.unsubscribe looks under the quoted key, where no listener was
\* ever put.
RemoveListener == UNCHANGED listeners

\* subscribe: of the listener, and so of the connection, which asks for a replay.
Subscribe(client, listener) ==
    /\ AddListener(client, listener)
    /\ up' = [up EXCEPT ![client] = Append(@, GetRequest)]

\* Slip: the timer is stopped.
Destroy_StopsTimer(client) ==
    /\ listeners' = [listeners EXCEPT ![client][Len(listeners[client])].debounceTimeout = FALSE]
    /\ UNCHANGED up

\* destroy, and unsubscribe of the connection, which does not stop the timer.
Destroy(client) == RemoveListener /\ UNCHANGED up

\* The effect of the hook, in a client that joins or that has mounted one before:
\* lastUpdateSent is 0, the time at which the page was opened.
Mount(client) ==
    /\ \/ Connect(client)
       \/ Live(client) /\ client \notin mounted /\ UNCHANGED roomVars
    /\ Len(listeners[client]) < MaxMounts[client]
    /\ mounted' = mounted \cup {client}
    /\ \E recent \in BOOLEAN :
          /\ recent => \A n \in DOMAIN listeners[client] : listeners[client][n].recent
          /\ Subscribe(client, NewListener(recent))
    /\ UNCHANGED sets

\* Its cleanup.
Unmount(client) ==
    /\ client \in mounted
    /\ mounted' = mounted \ {client}
    /\ Destroy(client)
    /\ UNCHANGED <<roomVars, sets>>

\* Slip: a call that comes too early is dropped.
SetStateOptimistic_Throttles(client, n, value) ==
    LET set == [listeners[client][n] EXCEPT !.shown = value, !.lastValue = value, !.recent = TRUE]
    IN  IF listeners[client][n].recent
        THEN listeners' = [listeners EXCEPT ![client][n] = set] /\ UNCHANGED up
        ELSE SendUpdate(client, n, set)

\* setStateOptimistic: a call that comes too early starts the timer, if it does not run.
SetStateOptimistic(client, n, value) ==
    LET set == [listeners[client][n] EXCEPT !.shown = value, !.lastValue = value, !.recent = TRUE]
    IN  IF listeners[client][n].recent
        THEN /\ listeners' = [listeners EXCEPT ![client][n] = [set EXCEPT !.debounceTimeout = TRUE]]
             /\ UNCHANGED up
        ELSE SendUpdate(client, n, set)

\* The setter that the hook returns.
SetState(client) ==
    /\ client \in mounted
    /\ sets < MaxSets
    /\ sets' = sets + 1
    /\ SetStateOptimistic(client, Len(listeners[client]), sets')
    /\ UNCHANGED <<roomVars, mounted>>

\* debounceMillis after lastUpdateSent.
Pass(client, n) ==
    /\ listeners[client][n].recent
    /\ listeners' = [listeners EXCEPT ![client][n].recent = FALSE]
    /\ UNCHANGED <<roomVars, up, mounted, sets>>

\* The timer fires debounceMillis after it was set, and so as long after
\* lastUpdateSent, which the firing leaves as it is.
Fire(client, n) ==
    /\ listeners[client][n].debounceTimeout
    /\ ~listeners[client][n].recent
    /\ SendUpdate(client, n, listeners[client][n])
    /\ UNCHANGED <<roomVars, mounted, sets>>

\* A client goes away: what the server has not handled is lost.
Leave(client) ==
    /\ Drop(client)
    /\ up' = [up EXCEPT ![client] = <<>>]
    /\ listeners' = [listeners EXCEPT ![client] = <<>>]
    /\ mounted' = mounted \ {client}
    /\ UNCHANGED sets

\* The server handles the next message of a client.
Serve(client) ==
    /\ up[client] # <<>>
    /\ LET request == Head(up[client])
       IN  \/ request.type = "get" /\ Get(client, SharedKey, request.seq)
           \/ request.type = "push" /\ Push(client, SharedKey, request.value, request.action)
    /\ up' = [up EXCEPT ![client] = Tail(@)]
    /\ UNCHANGED <<listeners, mounted, sets>>

\* What a client's n-th listener shows once it is told of entries, one by one.
Told(client, n, entries) ==
    FoldLeft(LAMBDA s, entry : Handler(RandId(client, n), s, entry.value),
             listeners[client][n].shown, entries)

\* SubscriptionManager.dispatch: every listener is told, also once it is unmounted.
Dispatch(client, entries) ==
    listeners' = [listeners EXCEPT ![client] = [n \in DOMAIN listeners[client] |->
        [listeners[client][n] EXCEPT !.shown = Told(client, n, entries)]]]

\* A client handles the next message of the server.
Receive(client) ==
    /\ Live(client)
    /\ inbox[client] # <<>>
    /\ inbox' = [inbox EXCEPT ![client] = Tail(@)]
    /\ LET message == Head(inbox[client])
       IN  Dispatch(client, IF message.type = "init" THEN message.data ELSE <<EntryOf(message)>>)
    /\ UNCHANGED <<storeVars, status, subscriptions, debug_connections, up, mounted, sets>>

SharedInit ==
    /\ RoomInit
    /\ up = [client \in Conn |-> <<>>]
    /\ listeners = [client \in Conn |-> <<>>]
    /\ mounted = {}
    /\ sets = 0

\* What goes on by itself: time, timers, the server's socket task and the client's
\* event loop.
Progress(client) ==
    \/ \E n \in DOMAIN listeners[client] : Pass(client, n) \/ Fire(client, n)
    \/ Serve(client) \/ Receive(client)

SharedNext ==
    \E client \in Conn :
        \/ Mount(client) \/ Unmount(client) \/ Leave(client) \/ SetState(client)
        \/ Progress(client)

\* Every call leads to a few messages at most: it is enough that a client goes on as
\* long as anything can.
SharedSpec ==
    /\ SharedInit /\ [][SharedNext]_sharedVars
    /\ \A client \in Conn : WF_sharedVars(Progress(client))

-----------------------------------------------------------------------------
(***************************************************************************)
(* Properties.                                                             *)
(***************************************************************************)

\* However calls, timers and the passing of time interleave, a value that was set and
\* not sent has a timer that will send it, also after the hook is unmounted.
UnsentIsDue ==
    \A client \in Conn : \A n \in DOMAIN listeners[client] :
        LET listener == listeners[client][n]
        IN  listener.sent # listener.lastValue => listener.debounceTimeout

AtRest ==
    \A client \in Conn :
        /\ up[client] = <<>> /\ inbox[client] = <<>>
        /\ \A n \in DOMAIN listeners[client] : ~listeners[client][n].debounceTimeout

\* When everything has been sent and told, every component shows what the stream holds,
\* but for the one whose value that is: it ignores the echo, and goes on showing what it
\* was told between its set and the echo.  No other keeps a value of its own, whichever
\* timer of a component before it was the last to fire, and however often it is told.
OthersShowStream ==
    AtRest => \A client \in mounted : \A i \in DOMAIN subjects[SharedKey] :
        LET holds == subjects[SharedKey][i].value
            n     == Len(listeners[client])
        IN  holds.i # RandId(client, n) => listeners[client][n].shown = holds.v

Unsent(client) ==
    {n \in DOMAIN listeners[client] : listeners[client][n].sent # listeners[client][n].lastValue}

\* What a component last set its client sends in the end, unless it leaves: calls that
\* come too early are put off, not dropped, also when the component goes first.
LastSetIsSent ==
    \A client \in Conn : Unsent(client) # {} ~> Unsent(client) = {}
-----------------------------------------------------------------------------
(***************************************************************************)
(* What the documents say and the code does not do.                        *)
(***************************************************************************)

\* When everything has been sent and told, every component shows the same, what the stream
\* holds (react.md: the hook "synchronizes state across all clients connected to the same
\* room").  A client takes no notice of the echo of its own value, and so goes on showing
\* an older value of another that it was told between its set and the echo.
AllShowStream ==
    AtRest => \A client \in mounted : \A i \in DOMAIN subjects[SharedKey] :
        listeners[client][Len(listeners[client])].shown = subjects[SharedKey][i].value.v
=============================================================================
