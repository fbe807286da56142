--------------------------- MODULE PresenceProofs ---------------------------
(***************************************************************************)
(* What holds of any number of listeners, for any intervals, delays and    *)
(* lateness of timers, and however often states change.                    *)
(***************************************************************************)
EXTENDS Presence, SequenceTheorems, TLAPS

(***************************************************************************)
(* The invariant.                                                          *)
(***************************************************************************)

\* The timers of a listener that run.
Timers(client) == Orphaned(client) \cup ({interval[client]} \ {NoTimer})

\* None of them is later than Slack, one that is subscribed has both, and none runs
\* only before it has told anything.
TimersOK(client) ==
    /\ lastUpdate[client] <= now
    /\ NoTimer \notin strays[client]
    /\ \A due \in Timers(client) : now <= due + Slack
    /\ phase[client] = "constructed" /\ Orphaned(client) = {} => lastUpdate[client] = 0
    /\ phase[client] = "subscribed" =>
          /\ updateHandle[client] # NoTimer
          /\ updateHandle[client] <= Later(nextUpdate[client], now)
          /\ interval[client] # NoTimer
          /\ interval[client] <= now + MaxInterval

\* After an update, until it is destroyed, a listener has a timer for the next one:
\* MaxInterval later, or as soon as a change of state allows, which may find that timer
\* late.
UpdateIsDue(client) ==
    (phase[client] # "destroyed" /\ lastUpdate[client] # 0) =>
        \E due \in Orphaned(client) :
            /\ due <= lastUpdate[client] + MaxInterval + Slack
            /\ nextUpdate[client] <= lastUpdate[client] + MinInterval
                  \/ due <= lastUpdate[client] + MaxInterval

\* Among the messages there is one of the peer that was sent no later than that.
Comes(messages, peer, time) ==
    \E i \in DOMAIN messages : messages[i].client = peer /\ messages[i].at <= time

\* Messages are not late, and none comes before its listener has subscribed.
MessagesOK(client) ==
    /\ phase[client] = "constructed" => network[client] = <<>> /\ DOMAIN presence[client] = {}
    /\ client \notin DOMAIN presence[client]
    /\ \A i \in DOMAIN network[client] :
          /\ now <= network[client][i].at + MaxDelay
          /\ lastUpdate[network[client][i].client] # 0

\* What is known of a peer is its last update, or a message that tells the next one is
\* on its way; and the interval will look at it in time.
KnownOK(client, peer) ==
    LET lastSeen == presence[client][peer].lastSeen
    IN  /\ lastUpdate[peer] # 0
        /\ phase[client] = "subscribed" => interval[client] <= lastSeen + 3 * MaxInterval
        /\ phase[peer] = "destroyed" \/ lastSeen >= lastUpdate[peer]
              \/ Comes(network[client], peer, lastSeen + MaxInterval + 2 * Slack)

(***************************************************************************)
(* Types.                                                                  *)
(***************************************************************************)

\* However a timer fires, its listener updates, and its timers are those it had but for
\* the one that update sets.
LEMMA FireFacts ==
    ASSUME PresenceTypeOK, NEW client \in Client, Fire(client)
    PROVE  /\ Update(client)
           /\ UNCHANGED <<now, phase, state, interval, presence, updates>>
           /\ strays' \in [Client -> SUBSET Nat]
           /\ strays'[client] \subseteq Orphaned(client)
           /\ \A other \in Client \ {client} : strays'[other] = strays[other]
<1>1. CASE UNCHANGED strays
  BY <1>1 DEF Fire, PresenceTypeOK, Orphaned
<1>2. ASSUME NEW due \in strays[client],
             strays' = [strays EXCEPT ![client] = (@ \ {due}) \cup ({updateHandle[client]} \ {NoTimer})]
      PROVE  /\ strays' \in [Client -> SUBSET Nat]
             /\ strays'[client] \subseteq Orphaned(client)
             /\ \A other \in Client \ {client} : strays'[other] = strays[other]
  BY <1>2 DEF PresenceTypeOK, Orphaned
<1> QED BY <1>1, <1>2 DEF Fire

LEMMA MessageType ==
    ASSUME PresenceTypeOK, NEW client \in Client
    PROVE  /\ Len(network[client]) \in Nat
           /\ DOMAIN network[client] = 1 .. Len(network[client])
           /\ \A i \in DOMAIN network[client] : network[client][i] \in Message
BY LenProperties, ElementOfSeq DEF PresenceTypeOK

\* What a message leaves: those behind it, and at most its sender in what is known.
LEMMA OnMessageFacts ==
    ASSUME PresenceTypeOK, NEW client \in Client, OnMessage(client)
    PROVE  LET first == network[client][1]
           IN  /\ first \in Message
               /\ 1 \in DOMAIN network[client]
               /\ network' \in [Client -> Seq(Message)]
               /\ \A other \in Client \ {client} : network'[other] = network[other]
               /\ DOMAIN network'[client] = 1 .. Len(network[client]) - 1
               /\ \A i \in DOMAIN network'[client] : network'[client][i] = network[client][i + 1]
               /\ DOMAIN presence' = Client
               /\ \A other \in Client \ {client} : presence'[other] = presence[other]
               /\ DOMAIN presence'[client] \subseteq DOMAIN presence[client] \cup {first.client}
               /\ client \notin DOMAIN presence[client] => client \notin DOMAIN presence'[client]
               /\ presence'[client] \in [DOMAIN presence'[client] -> Seen]
               /\ \A peer \in DOMAIN presence'[client] :
                     \/ presence'[client][peer].lastSeen = now /\ peer = first.client
                     \/ /\ peer \in DOMAIN presence[client]
                        /\ presence'[client][peer] = presence[client][peer]
                        /\ peer # first.client \/ peer = client
               /\ DOMAIN presence[client] \subseteq DOMAIN presence'[client]
<1> DEFINE messages == network[client]
           first == messages[1]
           seen == [value |-> first.value, lastSeen |-> now]
<1>1. messages # <<>> /\ messages \in Seq(Message) /\ DOMAIN network = Client
  BY DEF OnMessage, PresenceTypeOK
<1>2. /\ first \in Message /\ 1 \in DOMAIN messages
      /\ Head(messages) = first
      /\ Tail(messages) \in Seq(Message)
      /\ DOMAIN Tail(messages) = 1 .. Len(messages) - 1
      /\ \A i \in 1 .. Len(messages) - 1 : Tail(messages)[i] = messages[i + 1]
  BY <1>1, HeadTailProperties, MessageType, EmptySeq, LenProperties
<1>3. network' = [network EXCEPT ![client] = Tail(messages)]
  BY DEF OnMessage
<1>4. /\ network' \in [Client -> Seq(Message)] /\ network'[client] = Tail(messages)
      /\ \A other \in Client \ {client} : network'[other] = network[other]
  BY <1>1, <1>2, <1>3 DEF PresenceTypeOK
<1>5. seen \in Seen /\ seen.lastSeen = now /\ first.client \in Client
  BY <1>2 DEF Message, Seen, PresenceTypeOK
<1>6. CASE first.client = client
  <2>1. presence' = presence
    BY <1>2, <1>6 DEF OnMessage
  <2> QED BY <1>2, <1>4, <1>6, <2>1 DEF PresenceTypeOK
<1>7. CASE first.client # client
  <2> DEFINE known == Known(presence[client], first)
  <2>1. presence' = [presence EXCEPT ![client] = known]
    BY <1>2, <1>7 DEF OnMessage
  <2>2. /\ DOMAIN known = DOMAIN presence[client] \cup {first.client}
        /\ known[first.client] = seen
        /\ \A peer \in DOMAIN presence[client] \ {first.client} : known[peer] = presence[client][peer]
        /\ known = [peer \in DOMAIN presence[client] \cup {first.client} |-> known[peer]]
    BY DEF Known
  <2> HIDE DEF known, seen
  <2>3. /\ DOMAIN presence' = Client /\ presence'[client] = known
        /\ \A other \in Client \ {client} : presence'[other] = presence[other]
    BY <2>1 DEF PresenceTypeOK
  <2>4. \A peer \in DOMAIN presence[client] : presence[client][peer] \in Seen
    BY DEF PresenceTypeOK
  <2>5. known \in [DOMAIN known -> Seen]
    BY <1>5, <2>2, <2>4
  <2> QED BY <1>2, <1>4, <1>5, <1>7, <2>2, <2>3, <2>5
<1> QED BY <1>6, <1>7

\* The interval forgets some of the peers.
LEMMA ExpireFacts ==
    ASSUME PresenceTypeOK, NEW client \in Client, Expire(client)
    PROVE  /\ DOMAIN presence' = Client
           /\ \A other \in Client \ {client} : presence'[other] = presence[other]
           /\ DOMAIN presence'[client] =
                 {peer \in DOMAIN presence[client] : now - presence[client][peer].lastSeen <= MaxInterval * 2}
           /\ \A peer \in DOMAIN presence'[client] : presence'[client][peer] = presence[client][peer]
           /\ presence'[client] \in [DOMAIN presence'[client] -> Seen]
<1> DEFINE kept == {peer \in DOMAIN presence[client] : now - presence[client][peer].lastSeen <= MaxInterval * 2}
<1>1. presence' = [presence EXCEPT ![client] = Restrict(presence[client], kept)]
  BY DEF Expire
<1>2. Restrict(presence[client], kept) = [peer \in kept |-> presence[client][peer]]
  BY DEF Restrict
<1>3. kept \subseteq DOMAIN presence[client]
  OBVIOUS
<1> HIDE DEF kept
<1>4. /\ DOMAIN presence' = Client /\ presence'[client] = [peer \in kept |-> presence[client][peer]]
      /\ \A other \in Client \ {client} : presence'[other] = presence[other]
  BY <1>1, <1>2 DEF PresenceTypeOK
<1>5. \A peer \in DOMAIN presence[client] : presence[client][peer] \in Seen
  BY DEF PresenceTypeOK
<1>6. presence'[client] \in [kept -> Seen]
  BY <1>3, <1>4, <1>5
<1> QED BY <1>3, <1>4, <1>6 DEF kept

\* An update joins what is on its way to those who have subscribed.
LEMMA UpdateFacts ==
    ASSUME PresenceTypeOK, NEW client \in Client, Update(client)
    PROVE  LET message == [client |-> client, value |-> state[client], at |-> now]
           IN  /\ message \in Message
               /\ network' \in [Client -> Seq(Message)]
               /\ \A peer \in Client :
                     \/ phase[peer] = "constructed" /\ network'[peer] = network[peer]
                     \/ /\ phase[peer] # "constructed"
                        /\ DOMAIN network'[peer] = 1 .. Len(network[peer]) + 1
                        /\ \A i \in 1 .. Len(network[peer]) : network'[peer][i] = network[peer][i]
                        /\ network'[peer][Len(network[peer]) + 1] = message
<1> DEFINE message == [client |-> client, value |-> state[client], at |-> now]
<1>1. message \in Message
  BY DEF Message, PresenceTypeOK
<1>2. network' = [peer \in Client |-> IF phase[peer] = "constructed" THEN network[peer]
                                      ELSE Append(network[peer], message)]
  BY DEF Update
<1> HIDE DEF message
<1>3. \A peer \in Client : network[peer] \in Seq(Message)
  BY DEF PresenceTypeOK
<1>4. \A peer \in Client :
         LET s == Append(network[peer], message)
         IN  /\ s \in Seq(Message)
             /\ DOMAIN s = 1 .. Len(network[peer]) + 1
             /\ \A i \in 1 .. Len(network[peer]) : s[i] = network[peer][i]
             /\ s[Len(network[peer]) + 1] = message
  BY <1>1, <1>3, AppendProperties, LenProperties
<1> QED BY <1>1, <1>2, <1>3, <1>4 DEF message

LEMMA PresenceTypeStep ==
    ASSUME PresenceTypeOK, [PresenceNext]_presenceVars
    PROVE  PresenceTypeOK'
<1> USE IntervalAssumption
<1>1. CASE UNCHANGED presenceVars
  BY <1>1 DEF presenceVars, ownVars, PresenceTypeOK
<1>2. CASE Tick
  BY <1>2 DEF Tick, ownVars, PresenceTypeOK
<1>3. ASSUME NEW client \in Client, Subscribe(client)
      PROVE  PresenceTypeOK'
  <2>1. strays' \in [Client -> SUBSET Nat]
    BY <1>3 DEF Subscribe, Orphaned, PresenceTypeOK
  <2> QED BY <1>3, <2>1 DEF Subscribe, PresenceTypeOK
<1>4. ASSUME NEW client \in Client, Destroy(client)
      PROVE  PresenceTypeOK'
  BY <1>4 DEF Destroy, PresenceTypeOK, NoTimer
<1>5. ASSUME NEW client \in Client, Fire(client)
      PROVE  PresenceTypeOK'
  <2>1. /\ Update(client) /\ strays' \in [Client -> SUBSET Nat]
        /\ UNCHANGED <<now, phase, state, interval, presence, updates>>
    BY <1>5, FireFacts
  <2>2. network' \in [Client -> Seq(Message)]
    BY <2>1, UpdateFacts
  <2>3. /\ sent' \in [Client -> State \cup {Unsent}] /\ lastUpdate' \in [Client -> Nat]
        /\ nextUpdate' \in [Client -> Nat] /\ updateHandle' \in [Client -> Nat]
    BY <2>1 DEF Update, PresenceTypeOK
  <2> QED BY <2>1, <2>2, <2>3 DEF PresenceTypeOK
<1>6. ASSUME NEW client \in Client, OnMessage(client)
      PROVE  PresenceTypeOK'
  <2> DEFINE first == network[client][1]
  <2>1. /\ first \in Message
        /\ DOMAIN presence' = Client /\ network' \in [Client -> Seq(Message)]
        /\ \A other \in Client \ {client} : presence'[other] = presence[other]
        /\ DOMAIN presence'[client] \subseteq DOMAIN presence[client] \cup {first.client}
        /\ presence'[client] \in [DOMAIN presence'[client] -> Seen]
    BY <1>6, OnMessageFacts
  <2>2. first.client \in Client
    BY <2>1 DEF Message
  <2> HIDE DEF first
  <2>3. UNCHANGED <<now, ownVars, interval>>
    BY <1>6 DEF OnMessage
  <2>4. \A other \in Client :
           /\ DOMAIN presence'[other] \subseteq Client
           /\ presence'[other] \in [DOMAIN presence'[other] -> Seen]
    <3> SUFFICES ASSUME NEW other \in Client
                 PROVE  /\ DOMAIN presence'[other] \subseteq Client
                        /\ presence'[other] \in [DOMAIN presence'[other] -> Seen]
      OBVIOUS
    <3>1. CASE other = client
      BY <2>1, <2>2, <3>1 DEF PresenceTypeOK
    <3>2. CASE other # client
      BY <2>1, <3>2 DEF PresenceTypeOK
    <3> QED BY <3>1, <3>2
  <2> QED BY <2>1, <2>3, <2>4 DEF ownVars, PresenceTypeOK
<1>7. ASSUME NEW client \in Client, Expire(client)
      PROVE  PresenceTypeOK'
  <2>1. /\ DOMAIN presence' = Client
        /\ \A other \in Client :
              /\ DOMAIN presence'[other] \subseteq Client
              /\ presence'[other] \in [DOMAIN presence'[other] -> Seen]
    BY <1>7, ExpireFacts DEF PresenceTypeOK
  <2>2. UNCHANGED <<now, ownVars, network>> /\ interval' \in [Client -> Nat]
    BY <1>7 DEF Expire, PresenceTypeOK
  <2> QED BY <2>1, <2>2 DEF ownVars, PresenceTypeOK
<1>8. ASSUME NEW client \in Client, NEW value \in State, UpdateState(client, value)
      PROVE  PresenceTypeOK'
  <2>1. now \in Nat /\ MinInterval \in Nat /\ lastUpdate[client] \in Nat
    BY IntervalAssumption DEF PresenceTypeOK
  <2> DEFINE next == lastUpdate[client] + MinInterval
  <2>2. next \in Nat /\ Later(next, now) \in Nat
    BY <2>1 DEF Later
  <2> HIDE DEF next
  <2>3. /\ state' = [state EXCEPT ![client] = value]
        /\ \/ /\ nextUpdate' = [nextUpdate EXCEPT ![client] = next]
              /\ updateHandle' = [updateHandle EXCEPT ![client] = Later(next, now)]
           \/ UNCHANGED <<nextUpdate, updateHandle>>
        /\ updates' = updates + 1
    BY <1>8 DEF UpdateState, next
  <2>4. UNCHANGED <<now, phase, sent, lastUpdate, strays, interval, presence, network>>
    BY <1>8 DEF UpdateState
  <2>5. nextUpdate' \in [Client -> Nat] /\ updateHandle' \in [Client -> Nat]
    BY <2>2, <2>3 DEF PresenceTypeOK
  <2>6. state' \in [Client -> State] /\ updates' \in Nat
    BY <2>3 DEF PresenceTypeOK
  <2> QED BY <2>4, <2>5, <2>6 DEF PresenceTypeOK
<1> QED BY <1>1, <1>2, <1>3, <1>4, <1>5, <1>6, <1>7, <1>8 DEF PresenceNext

-----------------------------------------------------------------------------
(***************************************************************************)
(* Timers.                                                                 *)
(***************************************************************************)

\* What one listener's timers and updates are about: nothing of another's.
OwnUnchanged(client) ==
    /\ phase'[client] = phase[client] /\ state'[client] = state[client]
    /\ sent'[client] = sent[client] /\ lastUpdate'[client] = lastUpdate[client]
    /\ nextUpdate'[client] = nextUpdate[client] /\ strays'[client] = strays[client]
    /\ updateHandle'[client] = updateHandle[client]

OwnInv(client) ==
    /\ TimersOK(client)
    /\ UpdateIsDue(client)
    /\ (phase[client] = "subscribed" /\ sent[client] # state[client]) =>
          /\ updateHandle[client] # NoTimer
          /\ updateHandle[client] <= Later(lastUpdate[client] + MinInterval, now)
    /\ (updateHandle[client] # NoTimer /\ strays[client] = {}) =>
          updateHandle[client] >= lastUpdate[client] + MinInterval

\* The types of one listener's variables.
OwnType(client) ==
    /\ now \in Nat
    /\ phase[client] \in {"constructed", "subscribed", "destroyed"}
    /\ lastUpdate[client] \in Nat /\ nextUpdate[client] \in Nat
    /\ updateHandle[client] \in Nat /\ strays[client] \in SUBSET Nat
    /\ interval[client] \in Nat

LEMMA OwnTyped ==
    ASSUME PresenceTypeOK, NEW client \in Client
    PROVE  OwnType(client)
BY DEF PresenceTypeOK, OwnType

LEMMA OwnKept ==
    ASSUME NEW client, OwnInv(client), OwnUnchanged(client), now' = now,
           interval'[client] = interval[client]
    PROVE  OwnInv(client)'
BY DEF OwnInv, OwnUnchanged, TimersOK, UpdateIsDue, Timers, Orphaned

LEMMA TickKeepsOwn ==
    ASSUME PresenceTypeOK, NEW client \in Client, OwnInv(client), Tick
    PROVE  OwnInv(client)'
<1>1. OwnType(client)
  BY OwnTyped
<1>2. /\ now' = now + 1 /\ OwnUnchanged(client) /\ interval'[client] = interval[client]
      /\ \A due \in Timers(client) : now < due + Slack
  BY DEF Tick, ownVars, Timers, OwnUnchanged
<1>3. Timers(client)' = Timers(client) /\ Orphaned(client)' = Orphaned(client)
  BY <1>2 DEF Timers, Orphaned, OwnUnchanged
<1>4. \A due \in Timers(client) : due \in Nat
  BY <1>1 DEF Timers, Orphaned, OwnType
<1>5. \A due \in Timers(client)' : now' <= due + Slack
  BY <1>1, <1>2, <1>3, <1>4, DelayAssumption DEF OwnType
<1>6. TimersOK(client)'
  BY <1>1, <1>2, <1>3, <1>5, IntervalAssumption DEF OwnInv, TimersOK, OwnUnchanged, OwnType, Later
<1>7. UpdateIsDue(client)'
  BY <1>2, <1>3 DEF OwnInv, UpdateIsDue, OwnUnchanged
<1> QED BY <1>1, <1>2, <1>6, <1>7, IntervalAssumption DEF OwnInv, OwnUnchanged, OwnType, Later

LEMMA SubscribeKeepsOwn ==
    ASSUME PresenceTypeOK, now >= StartTime, NEW client \in Client, OwnInv(client), Subscribe(client)
    PROVE  OwnInv(client)'
<1> USE IntervalAssumption, DelayAssumption
<1>1. OwnType(client) /\ now >= MinInterval + 1
  BY OwnTyped DEF StartTime
<1>2. /\ phase[client] = "constructed" /\ phase'[client] = "subscribed"
      /\ now' = now /\ state' = state /\ sent' = sent /\ lastUpdate' = lastUpdate /\ nextUpdate' = nextUpdate
      /\ strays'[client] = Orphaned(client) /\ updateHandle'[client] = now
      /\ interval'[client] = now + MaxInterval
  BY DEF Subscribe, PresenceTypeOK
<1>3. Orphaned(client)' = Orphaned(client) \cup {now}
  BY <1>1, <1>2 DEF Orphaned, NoTimer, OwnType
<1>4. \A due \in Timers(client)' : due \in Timers(client) \/ due = now \/ due = now + MaxInterval
  BY <1>2, <1>3 DEF Timers
<1>5. \A due \in Timers(client)' : now' <= due + Slack
  BY <1>1, <1>2, <1>4 DEF OwnInv, TimersOK, OwnType
<1>6. NoTimer \notin strays'[client]
  BY <1>2 DEF OwnInv, TimersOK, Orphaned
<1>7. TimersOK(client)'
  BY <1>1, <1>2, <1>5, <1>6 DEF OwnInv, TimersOK, OwnType, Later, NoTimer
<1>8. UpdateIsDue(client)'
  BY <1>2, <1>3 DEF OwnInv, UpdateIsDue
<1>9. strays'[client] = {} => lastUpdate[client] = 0
  BY <1>2 DEF OwnInv, TimersOK
<1> QED BY <1>1, <1>2, <1>7, <1>8, <1>9 DEF OwnInv, OwnType, Later, NoTimer

LEMMA DestroyKeepsOwn ==
    ASSUME PresenceTypeOK, NEW client \in Client, OwnInv(client), Destroy(client)
    PROVE  OwnInv(client)'
<1>1. /\ phase'[client] = "destroyed" /\ updateHandle'[client] = NoTimer /\ interval'[client] = NoTimer
      /\ now' = now /\ lastUpdate' = lastUpdate /\ strays' = strays
  BY DEF Destroy, PresenceTypeOK
<1>2. Timers(client)' \subseteq Timers(client)
  BY <1>1 DEF Timers, Orphaned
<1> QED BY <1>1, <1>2 DEF OwnInv, TimersOK, UpdateIsDue

\* A listener that has just updated is in order whatever it was before.
LEMMA FireKeepsOwn ==
    ASSUME PresenceTypeOK, now >= StartTime, NEW client \in Client, OwnInv(client), Fire(client)
    PROVE  OwnInv(client)'
<1> USE IntervalAssumption, DelayAssumption, OrderAssumption
<1>1. OwnType(client) /\ now >= MinInterval + 1
  BY OwnTyped DEF StartTime
<1>2. /\ now' = now /\ phase' = phase /\ state' = state /\ interval' = interval
      /\ strays'[client] \subseteq Orphaned(client)
      /\ sent'[client] = state[client] /\ nextUpdate'[client] = now + MaxInterval
      /\ lastUpdate'[client] = now /\ updateHandle'[client] = now + MaxInterval
  <2>1. Update(client)
    BY FireFacts
  <2>2. /\ sent'[client] = state[client] /\ nextUpdate'[client] = now + MaxInterval
        /\ lastUpdate'[client] = now /\ updateHandle'[client] = now + MaxInterval
    BY <2>1 DEF Update, PresenceTypeOK
  <2> QED BY <2>2, FireFacts
<1>3. now + MaxInterval # NoTimer /\ now + MaxInterval \in Nat
  BY <1>1 DEF NoTimer, OwnType
<1>4. now + MaxInterval \in Orphaned(client)'
  BY <1>2, <1>3 DEF Orphaned
<1>5. \A due \in Timers(client)' : due \in Timers(client) \/ due = now + MaxInterval
  BY <1>2 DEF Timers, Orphaned
<1>6. \A due \in Timers(client)' : now' <= due + Slack
  BY <1>1, <1>2, <1>5 DEF OwnInv, TimersOK, OwnType
<1>7. NoTimer \notin strays'[client]
  BY <1>2 DEF OwnInv, TimersOK, Orphaned
<1>8. Orphaned(client)' # {}
  BY <1>4
<1>9. TimersOK(client)'
  BY <1>1, <1>2, <1>3, <1>6, <1>7, <1>8 DEF OwnInv, TimersOK, OwnType, Later
<1>10. UpdateIsDue(client)'
  <2>1. now + MaxInterval <= lastUpdate'[client] + MaxInterval + Slack
        /\ now + MaxInterval <= lastUpdate'[client] + MaxInterval
    BY <1>1, <1>2 DEF OwnType
  <2> QED BY <1>4, <2>1 DEF UpdateIsDue
<1> QED BY <1>1, <1>2, <1>9, <1>10 DEF OwnInv, OwnType

\* The timer is put forward, at most to now: which is no later than the one before
\* it could have been.
LEMMA UpdateStateKeepsOwn ==
    ASSUME PresenceTypeOK, now >= StartTime, NEW client \in Client, NEW value \in State,
           OwnInv(client), UpdateState(client, value)
    PROVE  OwnInv(client)'
<1> USE IntervalAssumption, DelayAssumption, OrderAssumption
<1> DEFINE next == lastUpdate[client] + MinInterval
<1>1. OwnType(client) /\ now >= MinInterval + 1
  BY OwnTyped DEF StartTime
<1>2. /\ now' = now /\ phase' = phase /\ interval' = interval /\ sent' = sent
      /\ lastUpdate' = lastUpdate /\ strays' = strays
  BY DEF UpdateState
<1>3. CASE ~(next < nextUpdate[client])
  <2>1. nextUpdate' = nextUpdate /\ updateHandle' = updateHandle
    BY <1>3 DEF UpdateState
  <2>2. Timers(client)' = Timers(client) /\ Orphaned(client)' = Orphaned(client)
    BY <1>2, <2>1 DEF Timers, Orphaned
  <2>3. TimersOK(client)' /\ UpdateIsDue(client)'
    BY <1>2, <2>1, <2>2 DEF OwnInv, TimersOK, UpdateIsDue
  <2>4. phase[client] = "subscribed" =>
           /\ updateHandle[client] # NoTimer
           /\ updateHandle[client] <= Later(next, now)
    BY <1>1, <1>3 DEF OwnInv, TimersOK, OwnType, Later
  <2> QED BY <1>2, <2>1, <2>3, <2>4 DEF OwnInv
<1>4. CASE next < nextUpdate[client]
  <2>1. nextUpdate'[client] = next /\ updateHandle'[client] = Later(next, now)
    BY <1>4 DEF UpdateState, PresenceTypeOK
  <2>2. Later(next, now) \in Nat /\ Later(next, now) >= now /\ Later(next, now) >= next
        /\ Later(next, now) # NoTimer
    BY <1>1 DEF Later, OwnType, NoTimer
  <2>3. /\ Orphaned(client)' = strays[client] \cup {Later(next, now)}
        /\ \A due \in Timers(client)' : due \in Timers(client) \/ due = Later(next, now)
    BY <1>2, <2>1, <2>2 DEF Orphaned, Timers
  <2>4. \A due \in Timers(client)' : now' <= due + Slack
    BY <1>1, <1>2, <2>2, <2>3 DEF OwnInv, TimersOK, OwnType
  <2>5. TimersOK(client)'
    BY <1>1, <1>2, <2>1, <2>2, <2>3, <2>4 DEF OwnInv, TimersOK, OwnType, Later
  <2>6. UpdateIsDue(client)'
    <3> SUFFICES ASSUME phase[client] # "destroyed", lastUpdate[client] # 0
                 PROVE  Later(next, now) <= lastUpdate[client] + MaxInterval + Slack
      BY <1>1, <1>2, <2>1, <2>3 DEF UpdateIsDue, OwnType
    <3>1. PICK due \in Orphaned(client) : due <= lastUpdate[client] + MaxInterval
      BY <1>1, <1>4 DEF OwnInv, UpdateIsDue, OwnType
    <3>2. due \in Nat /\ now <= due + Slack
      BY <1>1, <3>1 DEF OwnInv, TimersOK, Timers, Orphaned, OwnType
    <3> QED BY <1>1, <3>1, <3>2 DEF OwnType, Later
  <2> QED BY <1>1, <1>2, <2>1, <2>2, <2>5, <2>6 DEF OwnInv, OwnType
<1> QED BY <1>3, <1>4

LEMMA ExpireKeepsOwn ==
    ASSUME PresenceTypeOK, NEW client \in Client, OwnInv(client), Expire(client)
    PROVE  OwnInv(client)'
<1> USE IntervalAssumption, DelayAssumption
<1>1. OwnType(client)
  BY OwnTyped
<1>2. /\ now' = now /\ OwnUnchanged(client) /\ interval'[client] = interval[client] + MaxInterval
      /\ interval[client] <= now /\ interval[client] # NoTimer
  BY DEF Expire, ownVars, OwnUnchanged, PresenceTypeOK
<1>3. Orphaned(client)' = Orphaned(client)
  BY <1>2 DEF Orphaned, OwnUnchanged
<1>4. \A due \in Timers(client)' : due \in Timers(client) \/ due = interval[client] + MaxInterval
  BY <1>2, <1>3 DEF Timers
<1>5. now <= interval[client] + Slack
  BY <1>2 DEF OwnInv, TimersOK, Timers
<1>6. \A due \in Timers(client)' : now' <= due + Slack
  BY <1>1, <1>2, <1>4, <1>5 DEF OwnInv, TimersOK, OwnType
<1>7. TimersOK(client)'
  BY <1>1, <1>2, <1>3, <1>6 DEF OwnInv, TimersOK, OwnUnchanged, OwnType, Later, NoTimer
<1>8. UpdateIsDue(client)'
  BY <1>2, <1>3 DEF OwnInv, UpdateIsDue, OwnUnchanged
<1> QED BY <1>2, <1>7, <1>8 DEF OwnInv, OwnUnchanged

\* A listener's timers are its own: no step of another disturbs them.
LEMMA OwnStep ==
    ASSUME PresenceTypeOK, now >= StartTime, \A client \in Client : OwnInv(client),
           [PresenceNext]_presenceVars
    PROVE  \A client \in Client : OwnInv(client)'
<1> SUFFICES ASSUME NEW client \in Client
             PROVE  OwnInv(client)'
  OBVIOUS
<1>1. OwnType(client) /\ OwnInv(client)
  BY OwnTyped
<1>2. CASE UNCHANGED presenceVars
  BY <1>1, <1>2, OwnKept DEF presenceVars, ownVars, OwnUnchanged
<1>3. CASE Tick
  BY <1>1, <1>3, TickKeepsOwn
<1>4. ASSUME NEW actor \in Client, Subscribe(actor)
      PROVE  OwnInv(client)'
  <2>1. actor # client => OwnUnchanged(client) /\ now' = now /\ interval'[client] = interval[client]
    BY <1>4 DEF Subscribe, OwnUnchanged, PresenceTypeOK
  <2> QED BY <1>1, <1>4, <2>1, OwnKept, SubscribeKeepsOwn
<1>5. ASSUME NEW actor \in Client, Destroy(actor)
      PROVE  OwnInv(client)'
  <2>1. actor # client => OwnUnchanged(client) /\ now' = now /\ interval'[client] = interval[client]
    BY <1>5 DEF Destroy, OwnUnchanged, PresenceTypeOK
  <2> QED BY <1>1, <1>5, <2>1, OwnKept, DestroyKeepsOwn
<1>6. ASSUME NEW actor \in Client, Fire(actor)
      PROVE  OwnInv(client)'
  <2>1. /\ Update(actor) /\ UNCHANGED <<now, phase, state, interval>>
        /\ actor # client => strays'[client] = strays[client]
    BY <1>6, FireFacts
  <2>2. actor # client => OwnUnchanged(client) /\ now' = now /\ interval'[client] = interval[client]
    BY <2>1 DEF Update, OwnUnchanged, PresenceTypeOK
  <2> QED BY <1>1, <1>6, <2>2, OwnKept, FireKeepsOwn
<1>7. ASSUME NEW actor \in Client, OnMessage(actor)
      PROVE  OwnInv(client)'
  <2>1. OwnUnchanged(client) /\ now' = now /\ interval'[client] = interval[client]
    BY <1>7 DEF OnMessage, ownVars, OwnUnchanged
  <2> QED BY <1>1, <2>1, OwnKept
<1>8. ASSUME NEW actor \in Client, Expire(actor)
      PROVE  OwnInv(client)'
  <2>1. actor # client => OwnUnchanged(client) /\ now' = now /\ interval'[client] = interval[client]
    BY <1>8 DEF Expire, ownVars, OwnUnchanged, PresenceTypeOK
  <2> QED BY <1>1, <1>8, <2>1, OwnKept, ExpireKeepsOwn
<1>9. ASSUME NEW actor \in Client, NEW value \in State, UpdateState(actor, value)
      PROVE  OwnInv(client)'
  <2>1. actor # client => OwnUnchanged(client) /\ now' = now /\ interval'[client] = interval[client]
    BY <1>9 DEF UpdateState, OwnUnchanged, PresenceTypeOK
  <2> QED BY <1>1, <1>9, <2>1, OwnKept, UpdateStateKeepsOwn
<1> QED BY <1>2, <1>3, <1>4, <1>5, <1>6, <1>7, <1>8, <1>9 DEF PresenceNext

-----------------------------------------------------------------------------
(***************************************************************************)
(* Messages, and what is known of peers.                                   *)
(***************************************************************************)

PresenceInv ==
    /\ PresenceTypeOK
    /\ now >= StartTime
    /\ \A client \in Client : OwnInv(client) /\ MessagesOK(client)
    /\ \A client \in Client : \A peer \in DOMAIN presence[client] : KnownOK(client, peer)

\* A listener that has begun to tell its state has done so lately.
LEMMA UpdatedLately ==
    ASSUME PresenceTypeOK, NEW peer \in Client, OwnInv(peer),
           phase[peer] # "destroyed", lastUpdate[peer] # 0
    PROVE  now <= lastUpdate[peer] + MaxInterval + 2 * Slack
<1>1. OwnType(peer)
  BY OwnTyped
<1>2. PICK due \in Orphaned(peer) : due <= lastUpdate[peer] + MaxInterval + Slack
  BY DEF OwnInv, UpdateIsDue
<1>3. due \in Nat /\ now <= due + Slack
  BY <1>1, <1>2 DEF OwnInv, TimersOK, Timers, Orphaned, OwnType
<1> QED BY <1>1, <1>2, <1>3, IntervalAssumption, DelayAssumption DEF OwnType

\* So what is known of a peer that goes on is not older than two intervals, if what
\* delays its next message stays within one.
LEMMA KnownIsRecent ==
    ASSUME PresenceInv, NEW client \in Client, NEW peer \in DOMAIN presence[client],
           phase[peer] # "destroyed", MaxDelay + 2 * Slack <= MaxInterval
    PROVE  now - presence[client][peer].lastSeen <= MaxInterval * 2
<1> USE IntervalAssumption, DelayAssumption
<1> DEFINE lastSeen == presence[client][peer].lastSeen
<1>1. peer \in Client /\ lastSeen \in Nat
  BY DEF PresenceInv, PresenceTypeOK, Seen
<1>2. KnownOK(client, peer) /\ MessagesOK(client) /\ OwnType(peer) /\ OwnInv(peer)
  BY <1>1, OwnTyped DEF PresenceInv
<1>3. now <= lastUpdate[peer] + MaxInterval + 2 * Slack
  BY <1>1, <1>2, UpdatedLately DEF PresenceInv, KnownOK
<1>4. CASE lastSeen >= lastUpdate[peer]
  BY <1>1, <1>2, <1>3, <1>4 DEF OwnType
<1>5. CASE Comes(network[client], peer, lastSeen + MaxInterval + 2 * Slack)
  <2>1. PICK i \in DOMAIN network[client] :
           network[client][i].at <= lastSeen + MaxInterval + 2 * Slack
    BY <1>5 DEF Comes
  <2>2. network[client][i] \in Message /\ now <= network[client][i].at + MaxDelay
    BY <1>2, <2>1, MessageType DEF PresenceInv, MessagesOK
  <2> QED BY <1>1, <1>2, <2>1, <2>2 DEF Message, OwnType
<1> QED BY <1>2, <1>4, <1>5 DEF KnownOK

\* A step that leaves alone what is known by a client and on its way to it.
LEMMA KnownKept ==
    ASSUME NEW client \in Client, MessagesOK(client),
           \A peer \in DOMAIN presence[client] : KnownOK(client, peer),
           presence'[client] = presence[client], network'[client] = network[client],
           interval'[client] = interval[client], now' = now, lastUpdate' = lastUpdate,
           phase'[client] = phase[client]
              \/ phase[client] = "constructed" \/ phase'[client] = "destroyed",
           \A peer \in Client : phase[peer] = "destroyed" => phase'[peer] = "destroyed",
           DOMAIN presence[client] \subseteq Client,
           phase'[client] = "constructed" => phase[client] = "constructed"
    PROVE  MessagesOK(client)' /\ \A peer \in DOMAIN presence'[client] : KnownOK(client, peer)'
<1>1. MessagesOK(client)'
  BY DEF MessagesOK
<1>2. ASSUME NEW peer \in DOMAIN presence'[client]
      PROVE  KnownOK(client, peer)'
  <2>1. /\ peer \in Client /\ peer \in DOMAIN presence[client] /\ KnownOK(client, peer)
        /\ phase[client] # "constructed"
    BY <1>2 DEF MessagesOK
  <2>2. Comes(network[client], peer, presence[client][peer].lastSeen + MaxInterval + 2 * Slack)'
          = Comes(network[client], peer, presence[client][peer].lastSeen + MaxInterval + 2 * Slack)
    BY DEF Comes
  <2>3. phase'[client] = "subscribed" => phase[client] = "subscribed"
    BY <2>1
  <2> QED BY <2>1, <2>2, <2>3 DEF KnownOK
<1> QED BY <1>1, <1>2

LEMMA FireKeepsKnown ==
    ASSUME PresenceInv, NEW actor \in Client, Fire(actor), NEW client \in Client
    PROVE  MessagesOK(client)' /\ \A peer \in DOMAIN presence'[client] : KnownOK(client, peer)'
<1> USE IntervalAssumption, DelayAssumption
<1> DEFINE message == [client |-> actor, value |-> state[actor], at |-> now]
           n == Len(network[client])
<1>1. /\ Update(actor)
      /\ now' = now /\ phase' = phase /\ interval' = interval /\ presence' = presence
  BY FireFacts DEF PresenceInv
<1>2. /\ PresenceTypeOK /\ now \in Nat /\ now # 0 /\ n \in Nat
      /\ DOMAIN network[client] = 1 .. n
      /\ \A i \in 1 .. n : network[client][i] \in Message
      /\ MessagesOK(client) /\ DOMAIN presence[client] \subseteq Client
      /\ \A peer \in DOMAIN presence[client] : KnownOK(client, peer)
  <2>1. PresenceTypeOK /\ now >= MinInterval + 1
    BY DEF PresenceInv, StartTime
  <2>2. now \in Nat /\ now # 0 /\ DOMAIN presence[client] \subseteq Client
    BY <2>1 DEF PresenceTypeOK
  <2>3. MessagesOK(client) /\ \A peer \in DOMAIN presence[client] : KnownOK(client, peer)
    BY DEF PresenceInv
  <2> QED BY <2>1, <2>2, <2>3, MessageType
<1>3. /\ lastUpdate'[actor] = now
      /\ \A peer \in Client \ {actor} : lastUpdate'[peer] = lastUpdate[peer]
  BY <1>1, <1>2 DEF Update, PresenceTypeOK
<1>4. \/ phase[client] = "constructed" /\ network'[client] = network[client]
      \/ /\ phase[client] # "constructed"
         /\ DOMAIN network'[client] = 1 .. n + 1
         /\ \A i \in 1 .. n : network'[client][i] = network[client][i]
         /\ network'[client][n + 1] = message
  BY <1>1, <1>2, UpdateFacts
<1>5. \A peer \in Client : lastUpdate[peer] # 0 => lastUpdate'[peer] # 0
  BY <1>2, <1>3
<1>6. MessagesOK(client)'
  <2>1. CASE phase[client] = "constructed"
    BY <1>1, <1>2, <1>4, <2>1, EmptySeq DEF MessagesOK
  <2>2. CASE phase[client] # "constructed"
    <3>1. ASSUME NEW i \in 1 .. n
          PROVE  /\ now <= network'[client][i].at + MaxDelay
                 /\ lastUpdate'[network'[client][i].client] # 0
      BY <1>2, <1>4, <1>5, <2>2 DEF MessagesOK, Message
    <3>2. /\ now <= network'[client][n + 1].at + MaxDelay
          /\ lastUpdate'[network'[client][n + 1].client] # 0
      BY <1>2, <1>3, <1>4, <2>2
    <3>3. \A i \in 1 .. n + 1 : i \in 1 .. n \/ i = n + 1
      BY <1>2
    <3> HIDE DEF n
    <3>4. \A i \in DOMAIN network'[client] :
             /\ now <= network'[client][i].at + MaxDelay
             /\ lastUpdate'[network'[client][i].client] # 0
      BY <1>4, <2>2, <3>1, <3>2, <3>3
    <3> QED BY <1>1, <1>2, <2>2, <3>4 DEF MessagesOK
  <2> QED BY <2>1, <2>2
<1>7. ASSUME NEW peer \in DOMAIN presence[client]
      PROVE  KnownOK(client, peer)'
  <2> DEFINE time == presence[client][peer].lastSeen + MaxInterval + 2 * Slack
  <2>1. peer \in Client /\ KnownOK(client, peer) /\ presence[client][peer].lastSeen \in Nat
    BY <1>2, <1>7 DEF PresenceTypeOK, Seen
  <2>2. /\ phase[client] # "constructed" /\ DOMAIN network'[client] = 1 .. n + 1
        /\ \A i \in 1 .. n : network'[client][i] = network[client][i]
        /\ network'[client][n + 1] = message
    BY <1>2, <1>4, <1>7 DEF MessagesOK
  <2>3. Comes(network[client], peer, time) => Comes(network'[client], peer, time)
    <3> SUFFICES ASSUME NEW i \in DOMAIN network[client], network[client][i].client = peer,
                        network[client][i].at <= time
                 PROVE  Comes(network'[client], peer, time)
      BY DEF Comes
    <3>1. i \in DOMAIN network'[client] /\ network'[client][i] = network[client][i]
      BY <1>2, <2>2
    <3> QED BY <3>1 DEF Comes
  <2>4. (/\ actor = peer /\ phase[peer] # "destroyed"
         /\ presence[client][peer].lastSeen >= lastUpdate[peer]) => Comes(network'[client], peer, time)
    <3> SUFFICES ASSUME actor = peer, phase[peer] # "destroyed",
                        presence[client][peer].lastSeen >= lastUpdate[peer]
                 PROVE  Comes(network'[client], peer, time)
      OBVIOUS
    <3>1. now <= lastUpdate[peer] + MaxInterval + 2 * Slack
      BY <1>2, <2>1, UpdatedLately DEF KnownOK, PresenceInv
    <3>2. lastUpdate[peer] \in Nat
      BY <1>2, <2>1 DEF PresenceTypeOK
    <3>3. now <= time
      BY <1>2, <2>1, <3>1, <3>2
    <3>4. n + 1 \in DOMAIN network'[client]
      BY <1>2, <2>2
    <3> QED BY <2>2, <3>3, <3>4 DEF Comes
  <2>5. \/ phase[peer] = "destroyed" \/ presence[client][peer].lastSeen >= lastUpdate'[peer]
        \/ Comes(network'[client], peer, time)
    BY <1>3, <2>1, <2>3, <2>4 DEF KnownOK
  <2>6. Comes(network[client], peer, time)' = Comes(network'[client], peer, time)
    BY <1>1 DEF Comes
  <2> HIDE DEF time
  <2>7. Comes(network[client], peer, time)' =>
          Comes(network[client], peer, presence[client][peer].lastSeen + MaxInterval + 2 * Slack)'
    BY DEF time
  <2> QED BY <1>1, <1>5, <2>1, <2>5, <2>6, <2>7 DEF KnownOK
<1> QED BY <1>1, <1>6, <1>7

LEMMA OnMessageKeepsKnown ==
    ASSUME PresenceInv, NEW client \in Client, OnMessage(client)
    PROVE  MessagesOK(client)' /\ \A peer \in DOMAIN presence'[client] : KnownOK(client, peer)'
<1> USE IntervalAssumption, DelayAssumption
<1> DEFINE first == network[client][1]
           n == Len(network[client])
<1>1. /\ PresenceTypeOK /\ now \in Nat /\ n \in Nat /\ DOMAIN network[client] = 1 .. n
      /\ MessagesOK(client) /\ OwnType(client) /\ OwnInv(client)
      /\ \A peer \in DOMAIN presence[client] : KnownOK(client, peer)
  <2>1. PresenceTypeOK
    BY DEF PresenceInv
  <2> QED BY <2>1, MessageType, OwnTyped DEF PresenceInv, PresenceTypeOK
<1>2. UNCHANGED <<now, ownVars, interval>>
  BY DEF OnMessage
<1>3. /\ first \in Message /\ 1 \in DOMAIN network[client]
      /\ DOMAIN network'[client] = 1 .. n - 1
      /\ \A i \in DOMAIN network'[client] : network'[client][i] = network[client][i + 1]
      /\ DOMAIN presence'[client] \subseteq DOMAIN presence[client] \cup {first.client}
      /\ client \notin DOMAIN presence[client] => client \notin DOMAIN presence'[client]
      /\ \A peer \in DOMAIN presence'[client] :
            \/ presence'[client][peer].lastSeen = now /\ peer = first.client
            \/ /\ peer \in DOMAIN presence[client]
               /\ presence'[client][peer] = presence[client][peer]
               /\ peer # first.client \/ peer = client
  BY <1>1, OnMessageFacts
<1>4. phase[client] # "constructed"
  BY <1>1, <1>3, EmptySeq DEF MessagesOK
<1>5. MessagesOK(client)'
  <2>1. \A i \in DOMAIN network'[client] : i + 1 \in DOMAIN network[client]
    BY <1>1, <1>3
  <2> QED BY <1>1, <1>2, <1>3, <1>4, <2>1 DEF MessagesOK, ownVars
<1>6. ASSUME NEW peer \in DOMAIN presence'[client]
      PROVE  KnownOK(client, peer)'
  <2>1. CASE presence'[client][peer].lastSeen = now /\ peer = first.client
    <3>1. lastUpdate[peer] # 0 /\ lastUpdate[peer] <= now /\ lastUpdate[peer] \in Nat /\ peer \in Client
      BY <1>1, <1>3, <2>1 DEF MessagesOK, PresenceInv, OwnInv, TimersOK, PresenceTypeOK, Message
    <3>2. phase[client] = "subscribed" => interval[client] <= now + 3 * MaxInterval
      BY <1>1 DEF OwnInv, TimersOK, OwnType
    <3> QED BY <1>1, <1>2, <2>1, <3>1, <3>2 DEF KnownOK, ownVars
  <2>2. CASE /\ peer \in DOMAIN presence[client]
             /\ presence'[client][peer] = presence[client][peer]
             /\ peer # first.client \/ peer = client
    <3> DEFINE time == presence[client][peer].lastSeen + MaxInterval + 2 * Slack
    <3>1. KnownOK(client, peer) /\ peer # first.client
      BY <1>1, <2>2 DEF MessagesOK
    <3>2. Comes(network[client], peer, time) => Comes(network'[client], peer, time)
      <4> SUFFICES ASSUME NEW i \in DOMAIN network[client], network[client][i].client = peer,
                          network[client][i].at <= time
                   PROVE  Comes(network'[client], peer, time)
        BY DEF Comes
      <4>1. i # 1
        BY <3>1
      <4>2. i - 1 \in DOMAIN network'[client] /\ network'[client][i - 1] = network[client][i]
        <5>1. i - 1 \in DOMAIN network'[client] /\ (i - 1) + 1 = i
          BY <1>1, <1>3, <4>1
        <5> QED BY <1>3, <5>1
      <4> QED BY <4>2 DEF Comes
    <3> HIDE DEF time
    <3>3. Comes(network'[client], peer, time) =>
            Comes(network[client], peer, presence[client][peer].lastSeen + MaxInterval + 2 * Slack)'
      BY <2>2 DEF time, Comes
    <3>4. KnownOK(client, peer) => \/ phase[peer] = "destroyed"
                                   \/ presence[client][peer].lastSeen >= lastUpdate[peer]
                                   \/ Comes(network[client], peer, time)
      BY DEF KnownOK, time
    <3> QED BY <1>2, <2>2, <3>1, <3>2, <3>3, <3>4 DEF KnownOK, ownVars
  <2> QED BY <1>3, <1>6, <2>1, <2>2
<1> QED BY <1>5, <1>6

LEMMA ExpireKeepsKnown ==
    ASSUME PresenceInv, NEW client \in Client, Expire(client)
    PROVE  MessagesOK(client)' /\ \A peer \in DOMAIN presence'[client] : KnownOK(client, peer)'
<1> USE IntervalAssumption, DelayAssumption
<1>1. /\ PresenceTypeOK /\ MessagesOK(client) /\ OwnType(client)
      /\ \A peer \in DOMAIN presence[client] : KnownOK(client, peer)
  BY OwnTyped DEF PresenceInv
<1>2. /\ UNCHANGED <<now, ownVars, network>>
      /\ interval'[client] = interval[client] + MaxInterval /\ interval[client] <= now
  BY <1>1 DEF Expire, PresenceTypeOK
<1>3. /\ DOMAIN presence'[client] =
            {peer \in DOMAIN presence[client] : now - presence[client][peer].lastSeen <= MaxInterval * 2}
      /\ \A peer \in DOMAIN presence'[client] : presence'[client][peer] = presence[client][peer]
  BY <1>1, ExpireFacts
<1>4. MessagesOK(client)'
  BY <1>1, <1>2, <1>3 DEF MessagesOK, ownVars
<1>5. ASSUME NEW peer \in DOMAIN presence'[client]
      PROVE  KnownOK(client, peer)'
  <2> DEFINE lastSeen == presence[client][peer].lastSeen
  <2>1. /\ KnownOK(client, peer) /\ lastSeen \in Nat /\ presence'[client][peer] = presence[client][peer]
        /\ now - lastSeen <= MaxInterval * 2
    BY <1>1, <1>3 DEF PresenceTypeOK, Seen
  <2>2. interval'[client] <= lastSeen + 3 * MaxInterval
    BY <1>1, <1>2, <2>1 DEF OwnType
  <2>3. Comes(network[client], peer, lastSeen + MaxInterval + 2 * Slack) =>
          Comes(network[client], peer, presence[client][peer].lastSeen + MaxInterval + 2 * Slack)'
    BY <1>2, <2>1 DEF Comes
  <2> QED BY <1>2, <2>1, <2>2, <2>3 DEF KnownOK, ownVars
<1> QED BY <1>4, <1>5

\* A client's messages and what it knows are disturbed by its own steps, the updates of
\* others, and the clock.
LEMMA KnownStep ==
    ASSUME PresenceInv, [PresenceNext]_presenceVars, NEW client \in Client
    PROVE  MessagesOK(client)' /\ \A peer \in DOMAIN presence'[client] : KnownOK(client, peer)'
<1>1. /\ PresenceTypeOK /\ MessagesOK(client) /\ DOMAIN presence[client] \subseteq Client
      /\ \A peer \in DOMAIN presence[client] : KnownOK(client, peer)
  BY DEF PresenceInv, PresenceTypeOK
<1>2. CASE UNCHANGED presenceVars
  BY <1>1, <1>2, KnownKept DEF presenceVars, ownVars
<1>3. CASE Tick
  <2>1. /\ UNCHANGED <<ownVars, interval, presence, network>> /\ now' = now + 1
        /\ \A i \in DOMAIN network[client] : now < network[client][i].at + MaxDelay
    BY <1>3 DEF Tick
  <2>2. \A i \in DOMAIN network[client] : network[client][i] \in Message
    BY <1>1, MessageType
  <2>3. \A i \in DOMAIN network[client] : now' <= network[client][i].at + MaxDelay
    BY <1>1, <2>1, <2>2, DelayAssumption DEF Message, PresenceTypeOK
  <2>4. MessagesOK(client)'
    BY <1>1, <2>1, <2>3 DEF MessagesOK, ownVars
  <2>5. ASSUME NEW peer \in DOMAIN presence[client]
        PROVE  KnownOK(client, peer)'
    <3>1. Comes(network[client], peer, presence[client][peer].lastSeen + MaxInterval + 2 * Slack) =>
            Comes(network[client], peer, presence[client][peer].lastSeen + MaxInterval + 2 * Slack)'
      BY <2>1 DEF Comes
    <3> QED BY <1>1, <2>1, <3>1 DEF KnownOK, ownVars
  <2> QED BY <2>1, <2>4, <2>5
<1>4. ASSUME NEW actor \in Client, Subscribe(actor)
      PROVE  MessagesOK(client)' /\ \A peer \in DOMAIN presence'[client] : KnownOK(client, peer)'
  <2>1. CASE actor = client
    <3>1. /\ phase[client] = "constructed" /\ phase'[client] = "subscribed"
          /\ presence' = presence /\ network' = network
      BY <1>1, <1>4, <2>1 DEF Subscribe, PresenceTypeOK
    <3>2. DOMAIN presence[client] = {} /\ network[client] = <<>>
      BY <1>1, <3>1 DEF MessagesOK
    <3> QED BY <3>1, <3>2, EmptySeq DEF MessagesOK
  <2>2. CASE actor # client
    <3>1. /\ presence' = presence /\ network' = network /\ interval'[client] = interval[client]
          /\ now' = now /\ lastUpdate' = lastUpdate /\ phase'[client] = phase[client]
          /\ \A peer \in Client : phase[peer] = "destroyed" => phase'[peer] = "destroyed"
      BY <1>1, <1>4, <2>2 DEF Subscribe, PresenceTypeOK
    <3> QED BY <1>1, <3>1, KnownKept
  <2> QED BY <2>1, <2>2
<1>5. ASSUME NEW actor \in Client, Destroy(actor)
      PROVE  MessagesOK(client)' /\ \A peer \in DOMAIN presence'[client] : KnownOK(client, peer)'
  <2>1. /\ presence' = presence /\ network' = network /\ now' = now /\ lastUpdate' = lastUpdate
        /\ \A peer \in Client : phase[peer] = "destroyed" => phase'[peer] = "destroyed"
    BY <1>1, <1>5 DEF Destroy, PresenceTypeOK
  <2>2. CASE actor = client
    <3>1. phase'[client] = "destroyed" /\ phase[client] # "constructed"
      BY <1>1, <1>5, <2>2 DEF Destroy, PresenceTypeOK
    <3>2. MessagesOK(client)'
      BY <1>1, <2>1, <3>1 DEF MessagesOK
    <3>3. ASSUME NEW peer \in DOMAIN presence[client]
          PROVE  KnownOK(client, peer)'
      <4>1. Comes(network[client], peer, presence[client][peer].lastSeen + MaxInterval + 2 * Slack) =>
              Comes(network[client], peer, presence[client][peer].lastSeen + MaxInterval + 2 * Slack)'
        BY <2>1 DEF Comes
      <4>2. peer \in Client
        BY <1>1, <3>3
      <4> QED BY <1>1, <2>1, <3>1, <4>1, <4>2 DEF KnownOK
    <3> QED BY <2>1, <3>2, <3>3
  <2>3. CASE actor # client
    <3>1. phase'[client] = phase[client] /\ interval'[client] = interval[client]
      BY <1>1, <1>5, <2>3 DEF Destroy, PresenceTypeOK
    <3> QED BY <1>1, <2>1, <3>1, KnownKept
  <2> QED BY <2>2, <2>3
<1>6. ASSUME NEW actor \in Client, Fire(actor)
      PROVE  MessagesOK(client)' /\ \A peer \in DOMAIN presence'[client] : KnownOK(client, peer)'
  BY <1>6, FireKeepsKnown
<1>7. ASSUME NEW actor \in Client, OnMessage(actor)
      PROVE  MessagesOK(client)' /\ \A peer \in DOMAIN presence'[client] : KnownOK(client, peer)'
  <2>1. UNCHANGED <<now, ownVars, interval>>
    BY <1>7 DEF OnMessage
  <2>2. actor # client => presence'[client] = presence[client] /\ network'[client] = network[client]
    BY <1>1, <1>7, OnMessageFacts
  <2> QED BY <1>1, <1>7, <2>1, <2>2, KnownKept, OnMessageKeepsKnown DEF ownVars
<1>8. ASSUME NEW actor \in Client, Expire(actor)
      PROVE  MessagesOK(client)' /\ \A peer \in DOMAIN presence'[client] : KnownOK(client, peer)'
  <2>1. /\ actor # client => presence'[client] = presence[client] /\ interval'[client] = interval[client]
        /\ UNCHANGED <<now, ownVars, network>>
    BY <1>1, <1>8, ExpireFacts DEF Expire, PresenceTypeOK
  <2> QED BY <1>1, <1>8, <2>1, KnownKept, ExpireKeepsKnown DEF ownVars
<1>9. ASSUME NEW actor \in Client, NEW value \in State, UpdateState(actor, value)
      PROVE  MessagesOK(client)' /\ \A peer \in DOMAIN presence'[client] : KnownOK(client, peer)'
  <2>1. UNCHANGED <<now, phase, lastUpdate, interval, presence, network>>
    BY <1>9 DEF UpdateState
  <2> QED BY <1>1, <2>1, KnownKept
<1> QED BY <1>2, <1>3, <1>4, <1>5, <1>6, <1>7, <1>8, <1>9 DEF PresenceNext

-----------------------------------------------------------------------------
(***************************************************************************)
(* The theorems.                                                           *)
(***************************************************************************)

LEMMA PresenceInvInit == PresenceInit => PresenceInv
<1> SUFFICES ASSUME PresenceInit
             PROVE  PresenceInv
  OBVIOUS
<1> USE IntervalAssumption, DelayAssumption
<1>1. StartTime \in Nat /\ StartTime = MinInterval + 1
  BY DEF StartTime
<1>2. \A client \in Client :
         /\ presence[client] = <<>> /\ DOMAIN presence[client] = {} /\ network[client] = <<>>
         /\ presence[client] \in [DOMAIN presence[client] -> Seen]
  <2>1. DOMAIN << >> = {} /\ << >> \in [{} -> Seen]
    OBVIOUS
  <2> QED BY <2>1 DEF PresenceInit
<1>3. PresenceTypeOK
  <2>1. network \in [Client -> Seq(Message)] /\ DOMAIN presence = Client
    BY EmptySeq DEF PresenceInit
  <2> QED BY <1>1, <1>2, <2>1 DEF PresenceInit, PresenceTypeOK, NoTimer
<1>4. ASSUME NEW client \in Client
      PROVE  OwnInv(client) /\ MessagesOK(client)
  <2>1. Timers(client) = {} /\ Orphaned(client) = {}
    BY DEF PresenceInit, Timers, Orphaned
  <2>2. TimersOK(client) /\ UpdateIsDue(client)
    BY <1>1, <2>1 DEF PresenceInit, TimersOK, UpdateIsDue
  <2>3. OwnInv(client)
    BY <2>2 DEF PresenceInit, OwnInv
  <2>4. MessagesOK(client)
    BY <1>2 DEF MessagesOK
  <2> QED BY <2>3, <2>4
<1>5. now >= StartTime
  BY <1>1 DEF PresenceInit
<1> QED BY <1>2, <1>3, <1>4, <1>5 DEF PresenceInv

LEMMA PresenceInvStep ==
    ASSUME PresenceInv, [PresenceNext]_presenceVars
    PROVE  PresenceInv'
<1>1. PresenceTypeOK'
  BY PresenceTypeStep DEF PresenceInv
<1>2. \A client \in Client : OwnInv(client)'
  BY OwnStep DEF PresenceInv
<1>3. \A client \in Client :
         MessagesOK(client)' /\ \A peer \in DOMAIN presence'[client] : KnownOK(client, peer)'
  BY KnownStep
<1>4. now' >= StartTime
  <2>1. now' = now \/ now' = now + 1
    BY DEF PresenceNext, presenceVars, Tick, Subscribe, Destroy, Fire, OnMessage, Expire, UpdateState
  <2> QED BY <2>1, IntervalAssumption DEF PresenceInv, PresenceTypeOK, StartTime
<1> QED BY <1>1, <1>2, <1>3, <1>4 DEF PresenceInv

LEMMA PresenceInvariant == PresenceSpec => []PresenceInv
<1>1. PresenceInv /\ [PresenceNext]_presenceVars => PresenceInv'
  BY PresenceInvStep
<1> QED BY <1>1, PresenceInvInit, PTL DEF PresenceSpec

\* Listeners, what they know and what they send are well typed (presence.ts).
THEOREM PresenceTypeCorrect == PresenceSpec => []PresenceTypeOK
<1>1. PresenceInv => PresenceTypeOK
  BY DEF PresenceInv
<1> QED BY <1>1, PresenceInvariant, PTL

\* A change of state never waits longer than minPresenceInterval makes it, whichever
\* timers were overwritten (presence.ts: updateState, subscribe).
THEOREM UnsentStaysDue == PresenceSpec => []UnsentIsDue
<1>1. PresenceInv => UnsentIsDue
  BY DEF PresenceInv, OwnInv, UnsentIsDue
<1> QED BY <1>1, PresenceInvariant, PTL

\* The timer of a listener respects minPresenceInterval (presence.ts: updateState).
THEOREM UpdatesStayApart == PresenceSpec => []UpdatesApart
<1>1. PresenceInv => UpdatesApart
  BY DEF PresenceInv, OwnInv, UpdatesApart
<1> QED BY <1>1, PresenceInvariant, PTL

\* A peer that is silent is forgotten within three intervals (presence.ts: the interval
\* that subscribe sets).
THEOREM SilentPeersAreForgotten == PresenceSpec => []SilentPeersGo
<1>1. PresenceInv => SilentPeersGo
  <2> SUFFICES ASSUME PresenceInv, NEW client \in Client, NEW peer \in DOMAIN presence[client],
                      phase[client] = "subscribed"
               PROVE  now <= presence[client][peer].lastSeen + 3 * MaxInterval + Slack
    BY DEF SilentPeersGo
  <2>1. KnownOK(client, peer) /\ OwnInv(client) /\ OwnType(client)
    BY OwnTyped DEF PresenceInv
  <2>2. interval[client] \in Timers(client)
    BY <2>1 DEF OwnInv, TimersOK, Timers
  <2>3. now <= interval[client] + Slack
    BY <2>1, <2>2 DEF OwnInv, TimersOK
  <2>4. presence[client][peer].lastSeen \in Nat
    BY DEF PresenceInv, PresenceTypeOK, Seen
  <2> QED BY <2>1, <2>3, <2>4, IntervalAssumption, DelayAssumption DEF KnownOK, OwnType
<1> QED BY <1>1, PresenceInvariant, PTL

\* A peer that goes on is not forgotten, as long as what delays its messages and the
\* timers stays within maxPresenceInterval (presence.ts: the interval, update).
THEOREM LivePeersStayKnown == PresenceSpec => LivePeersKept
<1> DEFINE Kept == \A client, peer \in Client :
                      (/\ MaxDelay + 2 * Slack <= MaxInterval
                       /\ phase[peer] = "subscribed"
                       /\ peer \in DOMAIN presence[client]) => peer \in DOMAIN presence'[client]
<1>1. PresenceInv /\ [PresenceNext]_presenceVars => [Kept]_presenceVars
  <2> SUFFICES ASSUME PresenceInv, PresenceNext, NEW client \in Client, NEW peer \in Client,
                      MaxDelay + 2 * Slack <= MaxInterval, phase[peer] = "subscribed",
                      peer \in DOMAIN presence[client]
               PROVE  peer \in DOMAIN presence'[client]
    OBVIOUS
  <2>1. PresenceTypeOK
    BY DEF PresenceInv
  <2>2. CASE UNCHANGED presence
    BY <2>2
  <2>3. ASSUME NEW actor \in Client, OnMessage(actor)
        PROVE  peer \in DOMAIN presence'[client]
    <3>1. /\ DOMAIN presence[actor] \subseteq DOMAIN presence'[actor]
          /\ actor # client => presence'[client] = presence[client]
      BY <2>1, <2>3, OnMessageFacts
    <3> QED BY <3>1
  <2>4. ASSUME NEW actor \in Client, Expire(actor)
        PROVE  peer \in DOMAIN presence'[client]
    <3>1. /\ DOMAIN presence'[actor] =
                {p \in DOMAIN presence[actor] : now - presence[actor][p].lastSeen <= MaxInterval * 2}
          /\ actor # client => presence'[client] = presence[client]
      BY <2>1, <2>4, ExpireFacts
    <3>2. now - presence[client][peer].lastSeen <= MaxInterval * 2
      BY KnownIsRecent
    <3> QED BY <3>1, <3>2
  <2>5. ASSUME NEW actor \in Client,
               Subscribe(actor) \/ Destroy(actor) \/ Fire(actor)
                  \/ \E value \in State : UpdateState(actor, value)
        PROVE  UNCHANGED presence
    BY <2>5 DEF Subscribe, Destroy, Fire, UpdateState
  <2>6. Tick => UNCHANGED presence
    BY DEF Tick
  <2> QED BY <2>2, <2>3, <2>4, <2>5, <2>6 DEF PresenceNext
<1>2. PresenceInv /\ [PresenceNext]_presenceVars => PresenceInv'
  BY PresenceInvStep
<1> QED BY <1>1, PresenceInvariant, PTL DEF PresenceSpec, LivePeersKept
=============================================================================
