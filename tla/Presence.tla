------------------------------ MODULE Presence ------------------------------
(***************************************************************************)
(* PresenceListeners (js-pkg/packages/driftdb/src/presence.ts) that tell   *)
(* each other a state through relayed messages: a change is told soon but  *)
(* not too often, everything is told again now and then, and a peer that   *)
(* has not been heard for long is forgotten.                               *)
(*                                                                         *)
(* Time is a clock that all clients read.  A timer fires when it is due or *)
(* at most Slack later; a message takes at most MaxDelay.                  *)
(***************************************************************************)
EXTENDS Naturals, SequencesExt

CONSTANTS
    Client,         \* the clients, one listener each
    State,          \* what they tell
    Unsent,         \* in place of a state: none was sent
    MinInterval,    \* minPresenceInterval
    MaxInterval,    \* maxPresenceInterval
    MaxDelay,       \* the time that a message takes at most
    Slack,          \* how late a timer may fire
    Early,          \* whether updateState may be called before subscribe
    MaxUpdates,     \* bound on the changes of state
    MaxTime         \* bound on the clock

ASSUME UnsentAssumption == Unsent \notin State
ASSUME IntervalAssumption == MinInterval \in Nat \ {0} /\ MaxInterval \in Nat \ {0}
ASSUME OrderAssumption == MinInterval <= MaxInterval
ASSUME DelayAssumption == MaxDelay \in Nat /\ Slack \in Nat
ASSUME EarlyAssumption == Early \in BOOLEAN

VARIABLES
    now,            \* Date.now()
    phase,          \* per client: constructed, subscribed, destroyed
    state,          \* per client, its own state
    sent,           \* per client, the state it last sent
    lastUpdate,     \* per client, when it last sent; at first 0, long ago
    nextUpdate,     \* per client, when it means to send next
    updateHandle,   \* per client, when the timer of its updateHandle is due
    strays,         \* per client, when the timers are due whose handle was overwritten
    interval,       \* per client, when its interval fires next
    presence,       \* per client, the peers it knows, and when it last heard each
    network,        \* per client, the messages on their way to it
    updates         \* the number of changes of state

ownVars == <<phase, state, sent, lastUpdate, nextUpdate, updateHandle, strays, updates>>
presenceVars == <<now, ownVars, interval, presence, network>>

NoTimer == 0

\* Every listener is constructed at once, long after the epoch.
StartTime == MinInterval + 1

\* A hook subscribes after it is rendered, and webrtc.ts changes the state before it
\* subscribes: without either a listener subscribes first.
MayUpdate(client) == phase[client] \in {"subscribed"} \cup (IF Early THEN {"constructed"} ELSE {})

Later(a, b) == IF a < b THEN b ELSE a

\* The handle is overwritten: a timer that it stood for goes on.
Orphaned(client) ==
    strays[client] \cup ({updateHandle[client]} \ {NoTimer})

-----------------------------------------------------------------------------
(***************************************************************************)
(* The listener.                                                           *)
(***************************************************************************)

Subscribe(client) ==
    /\ phase[client] = "constructed"
    /\ phase' = [phase EXCEPT ![client] = "subscribed"]
    /\ strays' = [strays EXCEPT ![client] = Orphaned(client)]
    /\ updateHandle' = [updateHandle EXCEPT ![client] = now]
    /\ interval' = [interval EXCEPT ![client] = now + MaxInterval]
    /\ UNCHANGED <<now, state, sent, lastUpdate, nextUpdate, presence, network, updates>>

\* Only one timer can be stopped, and messages that arrive are handled still: the
\* connection does not find the subscription that it is told to remove.
Destroy(client) ==
    /\ phase[client] = "subscribed"
    /\ phase' = [phase EXCEPT ![client] = "destroyed"]
    /\ updateHandle' = [updateHandle EXCEPT ![client] = NoTimer]
    /\ interval' = [interval EXCEPT ![client] = NoTimer]
    /\ UNCHANGED <<now, state, sent, lastUpdate, nextUpdate, strays, presence, network, updates>>

\* update: everyone who has subscribed is told, the sender included.
Update(client) ==
    /\ sent' = [sent EXCEPT ![client] = state[client]]
    /\ network' = [peer \in Client |->
                      IF phase[peer] = "constructed" THEN network[peer]
                      ELSE Append(network[peer],
                                  [client |-> client, value |-> state[client], at |-> now])]
    /\ nextUpdate' = [nextUpdate EXCEPT ![client] = now + MaxInterval]
    /\ lastUpdate' = [lastUpdate EXCEPT ![client] = now]
    /\ updateHandle' = [updateHandle EXCEPT ![client] = now + MaxInterval]

\* A timer fires: that of the handle, which update sets again, or a stray one.
Fire(client) ==
    /\ \/ /\ updateHandle[client] # NoTimer
          /\ updateHandle[client] <= now
          /\ UNCHANGED strays
       \/ \E due \in strays[client] :
            /\ due <= now
            /\ strays' = [strays EXCEPT ![client] = (@ \ {due}) \cup ({updateHandle[client]} \ {NoTimer})]
    /\ Update(client)
    /\ UNCHANGED <<now, phase, state, interval, presence, updates>>

\* Slips: the timer that runs is kept; a change is told at once.
UpdateState_KeepsTimer(client, value) ==
    /\ MayUpdate(client)
    /\ value # state[client]
    /\ updates < MaxUpdates
    /\ updates' = updates + 1
    /\ state' = [state EXCEPT ![client] = value]
    /\ nextUpdate' = [nextUpdate EXCEPT ![client] = lastUpdate[client] + MinInterval]
    /\ updateHandle' = [updateHandle EXCEPT ![client] = IF @ = NoTimer THEN now ELSE @]
    /\ UNCHANGED <<now, phase, sent, lastUpdate, strays, interval, presence, network>>
UpdateState_AtOnce(client, value) ==
    /\ MayUpdate(client)
    /\ value # state[client]
    /\ updates < MaxUpdates
    /\ updates' = updates + 1
    /\ state' = [state EXCEPT ![client] = value]
    /\ nextUpdate' = [nextUpdate EXCEPT ![client] = now]
    /\ updateHandle' = [updateHandle EXCEPT ![client] = now]
    /\ UNCHANGED <<now, phase, sent, lastUpdate, strays, interval, presence, network>>

\* updateState: MinInterval after the last update, or sooner if one is due sooner.
UpdateState(client, value) ==
    /\ MayUpdate(client)
    /\ value # state[client]
    /\ updates < MaxUpdates
    /\ updates' = updates + 1
    /\ state' = [state EXCEPT ![client] = value]
    /\ LET next == lastUpdate[client] + MinInterval
       IN  IF next < nextUpdate[client]
           THEN /\ nextUpdate' = [nextUpdate EXCEPT ![client] = next]
                /\ updateHandle' = [updateHandle EXCEPT ![client] = Later(next, now)]
           ELSE UNCHANGED <<nextUpdate, updateHandle>>
    /\ UNCHANGED <<now, phase, sent, lastUpdate, strays, interval, presence, network>>

\* What is known once a message has arrived.
Known(peers, message) ==
    [peer \in DOMAIN peers \cup {message.client} |->
        IF peer = message.client THEN [value |-> message.value, lastSeen |-> now] ELSE peers[peer]]

\* Slip: a state that is not new does not count as heard.
OnMessage_OnlyNews(client) ==
    /\ network[client] # <<>>
    /\ network' = [network EXCEPT ![client] = Tail(@)]
    /\ LET message == Head(network[client])
           known   == message.client \in DOMAIN presence[client]
       IN  IF message.client = client \/ (known /\ presence[client][message.client].value = message.value)
           THEN UNCHANGED presence
           ELSE presence' = [presence EXCEPT ![client] = Known(@, message)]
    /\ UNCHANGED <<now, ownVars, interval>>

\* onMessage
OnMessage(client) ==
    /\ network[client] # <<>>
    /\ network' = [network EXCEPT ![client] = Tail(@)]
    /\ LET message == Head(network[client])
       IN  IF message.client = client THEN UNCHANGED presence
           ELSE presence' = [presence EXCEPT ![client] = Known(@, message)]
    /\ UNCHANGED <<now, ownVars, interval>>

\* Slip: the peers are looked at once.
Expire_Once(client) ==
    /\ interval[client] # NoTimer
    /\ interval[client] <= now
    /\ interval' = [interval EXCEPT ![client] = NoTimer]
    /\ presence' = [presence EXCEPT ![client] =
          Restrict(@, {peer \in DOMAIN @ : now - @[peer].lastSeen <= MaxInterval * 2})]
    /\ UNCHANGED <<now, ownVars, network>>

\* The interval: the callback is not told of what is deleted here.
Expire(client) ==
    /\ interval[client] # NoTimer
    /\ interval[client] <= now
    /\ interval' = [interval EXCEPT ![client] = @ + MaxInterval]
    /\ presence' = [presence EXCEPT ![client] =
          Restrict(@, {peer \in DOMAIN @ : now - @[peer].lastSeen <= MaxInterval * 2})]
    /\ UNCHANGED <<now, ownVars, network>>

\* The clock waits for a timer that is Slack late and a message that is MaxDelay old.
Tick ==
    /\ now < MaxTime
    /\ now' = now + 1
    /\ \A client \in Client :
          /\ \A due \in Orphaned(client) \cup ({interval[client]} \ {NoTimer}) : now < due + Slack
          /\ \A i \in DOMAIN network[client] : now < network[client][i].at + MaxDelay
    /\ UNCHANGED <<ownVars, interval, presence, network>>

PresenceInit ==
    /\ now = StartTime
    /\ phase = [client \in Client |-> "constructed"]
    /\ state \in [Client -> State]
    /\ sent = [client \in Client |-> Unsent]
    /\ lastUpdate = [client \in Client |-> 0]
    /\ nextUpdate = [client \in Client |-> StartTime]
    /\ updateHandle = [client \in Client |-> NoTimer]
    /\ strays = [client \in Client |-> {}]
    /\ interval = [client \in Client |-> NoTimer]
    /\ presence = [client \in Client |-> <<>>]
    /\ network = [client \in Client |-> <<>>]
    /\ updates = 0

PresenceNext ==
    \/ Tick
    \/ \E client \in Client :
          \/ Subscribe(client) \/ Destroy(client) \/ Fire(client)
          \/ OnMessage(client) \/ Expire(client)
          \/ \E value \in State : UpdateState(client, value)

PresenceSpec == PresenceInit /\ [][PresenceNext]_presenceVars

-----------------------------------------------------------------------------
(***************************************************************************)
(* Properties.                                                             *)
(***************************************************************************)

Message == [client : Client, value : State, at : Nat]
Seen == [value : State, lastSeen : Nat]

PresenceTypeOK ==
    /\ now \in Nat
    /\ phase \in [Client -> {"constructed", "subscribed", "destroyed"}]
    /\ state \in [Client -> State]
    /\ sent \in [Client -> State \cup {Unsent}]
    /\ lastUpdate \in [Client -> Nat]
    /\ nextUpdate \in [Client -> Nat]
    /\ updateHandle \in [Client -> Nat]
    /\ strays \in [Client -> SUBSET Nat]
    /\ interval \in [Client -> Nat]
    /\ DOMAIN presence = Client
    /\ \A client \in Client :
          /\ DOMAIN presence[client] \subseteq Client
          /\ presence[client] \in [DOMAIN presence[client] -> Seen]
    /\ network \in [Client -> Seq(Message)]
    /\ updates \in Nat

\* A subscribed listener whose state peers have not been told has a timer that tells
\* them MinInterval after its last update, or now if that is past: whatever timers were
\* set, overwritten or fired between the change and the subscription.
UnsentIsDue ==
    \A client \in Client :
        (phase[client] = "subscribed" /\ sent[client] # state[client]) =>
            /\ updateHandle[client] # NoTimer
            /\ updateHandle[client] <= Later(lastUpdate[client] + MinInterval, now)

\* Unless a stray timer runs beside it, the timer that a listener has set never lets it
\* update again before MinInterval has passed, however often its state changes.
UpdatesApart ==
    \A client \in Client :
        (updateHandle[client] # NoTimer /\ strays[client] = {}) =>
            updateHandle[client] >= lastUpdate[client] + MinInterval

\* A peer that goes on being subscribed is not forgotten, though it changes nothing, as
\* long as what delays its messages and the timers stays within MaxInterval.
LivePeersKept ==
    [][\A client, peer \in Client :
          (/\ MaxDelay + 2 * Slack <= MaxInterval
           /\ phase[peer] = "subscribed"
           /\ peer \in DOMAIN presence[client]) => peer \in DOMAIN presence'[client]]_presenceVars

\* A peer that is not heard any more is forgotten within three intervals.
SilentPeersGo ==
    \A client \in Client : \A peer \in DOMAIN presence[client] :
        phase[client] = "subscribed" =>
            now <= presence[client][peer].lastSeen + 3 * MaxInterval + Slack
-----------------------------------------------------------------------------
(***************************************************************************)
(* What the documents say and the code does not do.                        *)
(***************************************************************************)

\* A subscribed listener that has updated since its interval last fired updates again only
\* MinInterval later, or at once (presence.ts, of minPresenceInterval: "Minimum interval
\* between presence updates").  A timer that updateState had set before subscribe, which
\* overwrites its handle, goes on as a second chain of updates that knows nothing of the
\* first.
UpdatesKeepApart ==
    [][\A client \in Client :
          (/\ phase[client] = "subscribed"
           /\ interval[client] <= lastUpdate[client] + MaxInterval
           /\ lastUpdate'[client] # lastUpdate[client]) =>
                lastUpdate'[client] >= lastUpdate[client] + MinInterval]_presenceVars
=============================================================================
