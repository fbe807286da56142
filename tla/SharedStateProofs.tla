------------------------- MODULE SharedStateProofs -------------------------
(***************************************************************************)
(* Theorems about a shared value, for any number of clients, components    *)
(* and calls: what was set and not sent has a timer that will send it, and *)
(* a component that has been told everything shows what the stream holds.  *)
(***************************************************************************)
EXTENDS SharedState, RoomProofs

(***************************************************************************)
(* Types.                                                                  *)
(***************************************************************************)

Request == {GetRequest} \cup [type : {"push"}, action : {[type |-> "replace"]}, value : Value]

\* A StateListener: one whose timer runs has something to send, and one that has
\* something to send has a timer that runs.
Listener ==
    [shown : 0 .. MaxSets, lastValue : 0 .. MaxSets, sent : 0 .. MaxSets,
     debounceTimeout : BOOLEAN, recent : BOOLEAN]
DueListener ==
    {l \in Listener : /\ l.debounceTimeout => l.lastValue # 0
                      /\ l.sent # l.lastValue => l.debounceTimeout}

SharedTypeOK ==
    /\ RoomTypeOK
    /\ up \in [Conn -> Seq(Request)]
    /\ listeners \in [Conn -> Seq(DueListener)]
    /\ \A client \in Conn : Len(listeners[client]) <= MaxMounts[client]
    /\ \A client \in mounted : client \in Conn /\ listeners[client] # <<>>
    /\ sets \in 0 .. MaxSets

\* What the constants are assumed to be.
LEMMA SharedConstants ==
    /\ MaxSets \in Nat /\ MaxSeq \in Nat /\ SharedKey \in Key
    /\ MaxMounts \in [Conn -> Nat]
  BY MaxSeqAssumption, MaxSetsAssumption, SharedKeyAssumption, MaxMountsAssumption

\* A value that is wrapped can be told by its number, and its author by its id.
LEMMA Wrapped ==
    /\ \A value \in Value : value.v \in 1 .. MaxSets
    /\ \A client \in Conn, n \in Nat, v \in 1 .. MaxSets :
          1 <= n /\ n <= MaxMounts[client] => [v |-> v, i |-> RandId(client, n)] \in Value
<1>1. \A value \in Value : value.v \in 1 .. MaxSets
  BY ValueAssumption DEF WrappedValue
<1>2. ASSUME NEW client \in Conn, NEW n \in Nat, 1 <= n, n <= MaxMounts[client], NEW v \in 1 .. MaxSets
      PROVE  [v |-> v, i |-> RandId(client, n)] \in Value
  <2>1. n \in 1 .. MaxMounts[client]
    BY <1>2, SharedConstants
  <2>2. RandId(client, n) \in {RandId(client, m) : m \in 1 .. MaxMounts[client]}
    BY <2>1
  <2>3. RandId(client, n) \in UNION {{RandId(c, m) : m \in 1 .. MaxMounts[c]} : c \in Conn}
    BY <2>2
  <2> QED BY <2>3, ValueAssumption DEF WrappedValue
<1> QED BY <1>1, <1>2

LEMMA ReplaceRequestType ==
    ASSUME NEW client \in Conn, NEW n \in Nat, 1 <= n, n <= MaxMounts[client], NEW v \in 1 .. MaxSets
    PROVE  ReplaceRequest(client, n, v) \in Request
  BY Wrapped DEF ReplaceRequest, Request

\* One listener is changed.
LEMMA UpdateTypes ==
    ASSUME listeners \in [Conn -> Seq(DueListener)], NEW client \in Conn,
           NEW n \in DOMAIN listeners[client], NEW l \in DueListener,
           listeners' = [listeners EXCEPT ![client][n] = l]
    PROVE  /\ listeners' \in [Conn -> Seq(DueListener)]
           /\ \A c \in Conn : Len(listeners'[c]) = Len(listeners[c])
           /\ listeners'[client][n] = l
           /\ \A c \in Conn : \A m \in DOMAIN listeners[c] :
                 (c # client \/ m # n) => listeners'[c][m] = listeners[c][m]
<1> DEFINE s == [listeners[client] EXCEPT ![n] = l]
<1>1. s \in Seq(DueListener) /\ Len(s) = Len(listeners[client]) /\ s[n] = l
      /\ \A m \in DOMAIN listeners[client] : m # n => s[m] = listeners[client][m]
  <2>1. listeners[client] \in Seq(DueListener)
    OBVIOUS
  <2> QED BY <2>1
<1>2. listeners' = [listeners EXCEPT ![client] = s]
  OBVIOUS
<1> HIDE DEF s
<1> QED BY <1>1, <1>2

\* sendUpdate leaves nothing unsent.
LEMMA SendUpdateTypes ==
    ASSUME SharedTypeOK, NEW client \in Conn, NEW n \in DOMAIN listeners[client],
           NEW l \in Listener, l.lastValue # 0, SendUpdate(client, n, l)
    PROVE  /\ listeners' \in [Conn -> Seq(DueListener)]
           /\ \A c \in Conn : Len(listeners'[c]) = Len(listeners[c])
           /\ \A c \in Conn : \A m \in DOMAIN listeners[c] :
                 (c # client \/ m # n) => listeners'[c][m] = listeners[c][m]
           /\ ReplaceRequest(client, n, l.lastValue) \in Request
           /\ up' = [up EXCEPT ![client] = Append(@, ReplaceRequest(client, n, l.lastValue))]
           /\ up' \in [Conn -> Seq(Request)]
<1> DEFINE new == [l EXCEPT !.debounceTimeout = FALSE, !.sent = l.lastValue]
<1>1. new \in DueListener
  BY DEF Listener, DueListener
<1>2. listeners \in [Conn -> Seq(DueListener)] /\ up \in [Conn -> Seq(Request)]
      /\ Len(listeners[client]) <= MaxMounts[client]
  BY DEF SharedTypeOK
<1>3. listeners' = [listeners EXCEPT ![client][n] = new]
      /\ up' = [up EXCEPT ![client] = Append(@, ReplaceRequest(client, n, l.lastValue))]
  BY DEF SendUpdate
<1>4. n \in Nat /\ 1 <= n /\ n <= MaxMounts[client]
  BY <1>2, SharedConstants
<1>5. l.lastValue \in 1 .. MaxSets
  BY SharedConstants DEF Listener
<1>6. ReplaceRequest(client, n, l.lastValue) \in Request
  BY <1>4, <1>5, ReplaceRequestType
<1> HIDE DEF new
<1> QED BY <1>1, <1>2, <1>3, <1>6, UpdateTypes

\* setStateOptimistic before it decides whether to send.
LEMMA SetListener ==
    ASSUME NEW l \in Listener, NEW value \in 1 .. MaxSets
    PROVE  LET set == [l EXCEPT !.shown = value, !.lastValue = value, !.recent = TRUE]
           IN  set \in Listener /\ set.lastValue = value
<1>1. value \in 0 .. MaxSets
  BY SharedConstants
<1>2. [l EXCEPT !.shown = value] \in Listener
  BY <1>1 DEF Listener
<1>3. [[l EXCEPT !.shown = value] EXCEPT !.lastValue = value] \in Listener
  BY <1>1, <1>2 DEF Listener
<1> QED BY <1>3 DEF Listener

\* setStateOptimistic sends, or sees to it that a timer runs.
LEMMA SetStateTypes ==
    ASSUME SharedTypeOK, NEW client \in Conn, NEW n \in DOMAIN listeners[client],
           NEW value \in 1 .. MaxSets, SetStateOptimistic(client, n, value)
    PROVE  /\ listeners' \in [Conn -> Seq(DueListener)]
           /\ \A c \in Conn : Len(listeners'[c]) = Len(listeners[c])
           /\ \A c \in Conn : \A m \in DOMAIN listeners[c] :
                 (c # client \/ m # n) => listeners'[c][m] = listeners[c][m]
           /\ up' \in [Conn -> Seq(Request)]
           /\ \/ up' = up /\ listeners'[client][n].debounceTimeout
              \/ /\ up' = [up EXCEPT ![client] = Append(@, ReplaceRequest(client, n, value))]
                 /\ ReplaceRequest(client, n, value) \in Request
<1> DEFINE set == [listeners[client][n] EXCEPT !.shown = value, !.lastValue = value, !.recent = TRUE]
           timed == [set EXCEPT !.debounceTimeout = TRUE]
<1>1. listeners \in [Conn -> Seq(DueListener)] /\ up \in [Conn -> Seq(Request)]
  BY DEF SharedTypeOK
<1>2. listeners[client][n] \in Listener
  <2>1. listeners[client] \in Seq(DueListener)
    BY <1>1
  <2> QED BY <2>1 DEF DueListener
<1>3. set \in Listener /\ set.lastValue = value /\ value # 0
  <2>1. value # 0
    BY SharedConstants
  <2>2. LET s == [listeners[client][n] EXCEPT !.shown = value, !.lastValue = value, !.recent = TRUE]
        IN  s \in Listener /\ s.lastValue = value
    BY <1>2, SetListener
  <2> QED BY <2>1, <2>2
<1>4. timed \in DueListener /\ timed.debounceTimeout
  BY <1>2, <1>3 DEF Listener, DueListener
<1>5. CASE listeners[client][n].recent
  <2>1. listeners' = [listeners EXCEPT ![client][n] = timed] /\ up' = up
    BY <1>5 DEF SetStateOptimistic
  <2> HIDE DEF timed
  <2> QED BY <1>1, <1>4, <2>1, UpdateTypes
<1>6. CASE ~listeners[client][n].recent
  <2>1. SendUpdate(client, n, set)
    BY <1>6 DEF SetStateOptimistic
  <2> HIDE DEF set
  <2> QED BY <1>3, <2>1, SendUpdateTypes
<1> QED BY <1>5, <1>6

(***************************************************************************)
(* What a listener is told.  The stream has one entry at most, and so has  *)
(* what a message tells of it.                                             *)
(***************************************************************************)

News(message) == IF message.type = "init" THEN message.data ELSE <<EntryOf(message)>>

ShortNews(message) ==
    /\ message.type \in {"init", "push"}
    /\ News(message) = <<>> \/ \E entry \in SequenceValue : News(message) = <<entry>>

\* It tells a listener something that the listener has not set itself.
Says(message, id) == News(message) # <<>> /\ News(message)[1].value.i # id
What(message) == News(message)[1].value.v

LEMMA ToldNothing ==
    ASSUME NEW client, NEW n
    PROVE  Told(client, n, <<>>) = listeners[client][n].shown
<1> DEFINE id == RandId(client, n)
           shows == listeners[client][n].shown
           F(it) == [s \in SUBSET {} |->
                        IF s = {} THEN shows
                        ELSE LET x == Max(s) IN Handler(id, it[s \ {x}], <<>>[x].value)]
           g == [s \in SUBSET {} |-> shows]
<1>1. Told(client, n, <<>>) = (CHOOSE it : it = F(it))[{}]
  BY DEF Told, FoldLeft, MapThenFoldSet
<1>2. g = F(g)
  OBVIOUS
<1>3. PICK it : it = F(it) /\ (CHOOSE jt : jt = F(jt)) = it
  <2> HIDE DEF F, g
  <2> QED BY <1>2
<1>4. F(it)[{}] = shows
  OBVIOUS
<1> QED BY <1>1, <1>3, <1>4

LEMMA ToldOne ==
    ASSUME NEW client, NEW n, NEW entry
    PROVE  Told(client, n, <<entry>>) =
               Handler(RandId(client, n), listeners[client][n].shown, entry.value)
<1> DEFINE id == RandId(client, n)
           shows == listeners[client][n].shown
           F(it) == [s \in SUBSET {1} |->
                        IF s = {} THEN shows
                        ELSE LET x == Max(s) IN Handler(id, it[s \ {x}], <<entry>>[x].value)]
           g == [s \in SUBSET {1} |-> IF s = {} THEN shows ELSE Handler(id, shows, entry.value)]
<1>1. DOMAIN <<entry>> = {1} /\ <<entry>>[1] = entry
  OBVIOUS
<1>2. Told(client, n, <<entry>>) = (CHOOSE it : it = F(it))[{1}]
  BY <1>1 DEF Told, FoldLeft, MapThenFoldSet
<1>3. Max({1}) = 1
  BY DEF Max
<1>4. g = F(g)
  <2>1. \A s \in SUBSET {1} : s = {} \/ s = {1}
    OBVIOUS
  <2>2. ASSUME NEW s \in SUBSET {1}
        PROVE  g[s] = F(g)[s]
    <3>1. CASE s = {}
      BY <3>1
    <3>2. CASE s = {1}
      <4>1. g[s \ {1}] = shows /\ g[s] = Handler(id, shows, entry.value)
        BY <3>2
      <4>2. F(g)[s] = Handler(id, g[s \ {1}], <<entry>>[1].value)
        BY <1>3, <3>2
      <4> QED BY <1>1, <4>1, <4>2
    <3> QED BY <2>1, <3>1, <3>2
  <2> QED BY <2>2
<1>5. PICK it : it = F(it) /\ (CHOOSE jt : jt = F(jt)) = it
  <2> HIDE DEF F, g
  <2> QED BY <1>4
<1>6. it[{}] = shows
  BY <1>5
<1>7. it[{1}] = Handler(id, it[{1} \ {1}], <<entry>>[1].value)
  BY <1>3, <1>5
<1>8. {1} \ {1} = {}
  OBVIOUS
<1> QED BY <1>1, <1>2, <1>5, <1>6, <1>7, <1>8

\* So a listener shows what a message says, or what it showed.
LEMMA ToldNews ==
    ASSUME NEW client, NEW n, NEW message, ShortNews(message)
    PROVE  Told(client, n, News(message)) =
               IF Says(message, RandId(client, n)) THEN What(message)
               ELSE listeners[client][n].shown
<1>1. CASE News(message) = <<>>
  BY <1>1, ToldNothing DEF Says
<1>2. ASSUME NEW entry, News(message) = <<entry>>
      PROVE  Told(client, n, News(message)) =
                 IF Says(message, RandId(client, n)) THEN What(message)
                 ELSE listeners[client][n].shown
  <2>1. News(message) # <<>> /\ News(message)[1] = entry
    BY <1>2
  <2> QED BY <1>2, <2>1, ToldOne DEF Says, What, Handler
<1> QED BY <1>1, <1>2 DEF ShortNews

LEMMA WhatType ==
    ASSUME NEW message, NEW id, ShortNews(message), Says(message, id)
    PROVE  What(message) \in 0 .. MaxSets
<1>1. PICK entry \in SequenceValue : News(message) = <<entry>>
  BY DEF ShortNews, Says
<1>2. What(message) = entry.value.v /\ entry.value \in Value
  BY <1>1 DEF What, SequenceValue
<1> QED BY <1>2, Wrapped, SharedConstants

\* What a listener shows once it is told of the messages that wait: what the last of them
\* says that says anything to it, or what it shows already.
WillShow(id, messages, shows, v) ==
    \/ shows = v /\ \A j \in DOMAIN messages : ~Says(messages[j], id)
    \/ \E i \in DOMAIN messages :
          /\ Says(messages[i], id) /\ What(messages[i]) = v
          /\ \A j \in DOMAIN messages : i < j => ~Says(messages[j], id)

\* It will show what the messages say that come last.
LEMMA LastIsShown ==
    ASSUME NEW messages \in Seq(Message), NEW more \in Seq(Message), more # <<>>, NEW id, NEW shows, NEW v,
           \A i \in DOMAIN more : Says(more[i], id) /\ What(more[i]) = v
    PROVE  WillShow(id, messages \o more, shows, v)
<1> DEFINE all == messages \o more
           last == Len(messages) + Len(more)
<1>1. all \in Seq(Message) /\ Len(all) = last /\ all[last] = more[Len(more)] /\ Len(more) > 0
  OBVIOUS
<1>2. Len(more) \in DOMAIN more
  BY <1>1
<1>3. last \in DOMAIN all /\ \A j \in DOMAIN all : ~(last < j)
  BY <1>1
<1>4. Says(all[last], id) /\ What(all[last]) = v
  BY <1>1, <1>2
<1> HIDE DEF all, last
<1>5. WillShow(id, all, shows, v)
  BY <1>3, <1>4 DEF WillShow
<1> QED BY <1>5 DEF all

\* What it will show stays the same when it is told of the first message.
LEMMA TailIsShown ==
    ASSUME NEW messages \in Seq(Message), messages # <<>>, NEW id, NEW shows, NEW v,
           WillShow(id, messages, shows, v)
    PROVE  WillShow(id, Tail(messages),
                    IF Says(Head(messages), id) THEN What(Head(messages)) ELSE shows, v)
<1> DEFINE rest == Tail(messages)
<1>1. /\ \A i \in DOMAIN rest : i + 1 \in DOMAIN messages /\ rest[i] = messages[i + 1]
      /\ \A i \in DOMAIN messages : i = 1 \/ (i - 1 \in DOMAIN rest /\ rest[i - 1] = messages[i])
      /\ 1 \in DOMAIN messages /\ messages[1] = Head(messages)
      /\ \A i \in DOMAIN rest : i \in Nat /\ 1 < i + 1
  OBVIOUS
<1> HIDE DEF rest
<1>2. CASE shows = v /\ \A j \in DOMAIN messages : ~Says(messages[j], id)
  <2>1. ~Says(Head(messages), id) /\ \A j \in DOMAIN rest : ~Says(rest[j], id)
    BY <1>1, <1>2
  <2> QED BY <1>2, <2>1 DEF WillShow, rest
<1>3. ASSUME NEW i \in DOMAIN messages, Says(messages[i], id), What(messages[i]) = v,
             \A j \in DOMAIN messages : i < j => ~Says(messages[j], id)
      PROVE  WillShow(id, rest, IF Says(Head(messages), id) THEN What(Head(messages)) ELSE shows, v)
  <2>1. CASE i = 1
    <3>1. \A j \in DOMAIN rest : ~Says(rest[j], id)
      BY <1>1, <1>3, <2>1
    <3> QED BY <1>1, <1>3, <2>1, <3>1 DEF WillShow
  <2>2. CASE i # 1
    <3>1. i - 1 \in DOMAIN rest /\ rest[i - 1] = messages[i] /\ i \in Nat
      BY <1>1, <2>2
    <3>2. \A j \in DOMAIN rest : i - 1 < j => ~Says(rest[j], id)
      <4>1. ASSUME NEW j \in DOMAIN rest, i - 1 < j
            PROVE  ~Says(rest[j], id)
        <5>1. j + 1 \in DOMAIN messages /\ rest[j] = messages[j + 1] /\ i < j + 1
          BY <1>1, <3>1, <4>1
        <5> QED BY <1>3, <5>1
      <4> QED BY <4>1
    <3> QED BY <1>3, <3>1, <3>2 DEF WillShow
  <2> QED BY <2>1, <2>2
<1> QED BY <1>2, <1>3 DEF WillShow, rest

-----------------------------------------------------------------------------
(***************************************************************************)
(* The steps.                                                              *)
(***************************************************************************)

StreamShort ==
    \/ subjects[SharedKey] = <<>>
    \/ \E value \in Value, n \in Nat \ {0} : subjects[SharedKey] = <<[value |-> value, seq |-> n]>>

\* The stream has one entry at most, and so has what is told of it.
NewsInv ==
    /\ StreamShort
    /\ debug_connections = {}
    /\ \A client \in Conn : \A i \in DOMAIN inbox[client] : ShortNews(inbox[client][i])

SharedInv == SharedTypeOK /\ NewsInv

\* What serving a get does: the client is sent the stream as it is.
GetServed(client) ==
    /\ Live(client)
    /\ subscriptions' = [subscriptions EXCEPT ![SharedKey][client] = @ + 1]
    /\ inbox' = [inbox EXCEPT ![client] = Offer(@, <<InitMessage(SharedKey, subjects[SharedKey])>>)]
    /\ UNCHANGED <<storeVars, status, debug_connections>>

\* What serving a push does: the stream holds its value, and who has subscribed is told.
Entry(value) == [value |-> value, seq |-> sequence_number + 1]
Broadcast(conn, value) ==
    IF Live(conn) THEN Copies(subscriptions[SharedKey][conn], PushMessage(SharedKey, Entry(value)))
    ELSE <<>>
PushServed(client, value) ==
    /\ Live(client)
    /\ subjects' = [subjects EXCEPT ![SharedKey] = <<Entry(value)>>]
    /\ sequence_number' = sequence_number + 1
    /\ inbox' = [conn \in Conn |-> Offer(inbox[conn], Broadcast(conn, value))]
    /\ debug_connections' = {conn \in debug_connections : Live(conn)}
    /\ subscriptions' = [subscriptions EXCEPT ![SharedKey] =
                            [conn \in Conn |-> IF Live(conn) THEN @[conn] ELSE 0]]
    /\ UNCHANGED status

LEMMA GetIsServed ==
    ASSUME SharedInv, NEW client \in Conn, Get(client, SharedKey, 0)
    PROVE  GetServed(client)
<1>1. Read(SharedKey, 0) = subjects[SharedKey]
  <2>1. subjects[SharedKey] \in Seq(SequenceValue)
    BY SharedConstants DEF SharedInv, SharedTypeOK, RoomTypeOK, StoreTypeOK
  <2>2. \E n : Sorted(subjects[SharedKey], n)
    <3>1. CASE subjects[SharedKey] = <<>>
      BY <3>1 DEF Sorted, Increasing, Range
    <3>2. ASSUME NEW value \in Value, NEW n \in Nat \ {0},
                 subjects[SharedKey] = <<[value |-> value, seq |-> n]>>
          PROVE  Sorted(subjects[SharedKey], n)
      BY <3>2 DEF Sorted, Increasing, Range
    <3> QED BY <3>1, <3>2 DEF SharedInv, NewsInv, StreamShort
  <2> QED BY <2>1, <2>2, RetainAll DEF Read
<1>2. 0 # NoSeq
  BY NoSeqAssumption
<1> QED BY <1>1, <1>2 DEF Get, GetServed

LEMMA PushIsServed ==
    ASSUME SharedInv, NEW client \in Conn, NEW value \in Value,
           Push(client, SharedKey, value, [type |-> "replace"])
    PROVE  PushServed(client, value)
<1> DEFINE action == [type |-> "replace"]
<1>1. /\ Stamp(action) = sequence_number + 1 /\ Broadcasts(action) /\ Mutates(action)
      /\ SequenceAfter(action, sequence_number) = sequence_number + 1
      /\ \A log, entry : StreamAfter(log, entry, action) = <<entry>>
  BY DEF Stamp, StampOf, Broadcasts, Mutates, SequenceAfter, StreamAfter
<1>2. /\ Live(client) /\ ApplyAction(SharedKey, value, action) /\ UNCHANGED status
      /\ inbox' = [conn \in Conn |->
                      Offer(inbox[conn],
                            PushDeliveries(conn, client, SharedKey, value, action, subjects'[SharedKey]))]
      /\ debug_connections' = {conn \in debug_connections : Live(conn)}
      /\ subscriptions' = IF Broadcasts(action)
                          THEN [subscriptions EXCEPT ![SharedKey] =
                                  [conn \in Conn |-> IF Live(conn) THEN @[conn] ELSE 0]]
                          ELSE subscriptions
  BY DEF Push
<1> HIDE DEF action
<1>3. /\ subjects' = [subjects EXCEPT ![SharedKey] = <<Entry(value)>>]
      /\ sequence_number' = sequence_number + 1
  BY <1>1, <1>2 DEF ApplyAction, Entry
<1>4. subjects'[SharedKey] = <<Entry(value)>>
  BY <1>3, SharedConstants DEF SharedInv, SharedTypeOK, RoomTypeOK, StoreTypeOK
<1>5. ASSUME NEW conn \in Conn
      PROVE  PushDeliveries(conn, client, SharedKey, value, action, <<Entry(value)>>)
                 = Broadcast(conn, value)
  <2>1. conn \notin debug_connections /\ ~(Len(<<Entry(value)>>) > 1)
    BY DEF SharedInv, NewsInv
  <2>2. PushMessage(SharedKey, [value |-> value, seq |-> Stamp(action)])
            = PushMessage(SharedKey, Entry(value))
    BY <1>1 DEF Entry
  <2> DEFINE copies == Copies(subscriptions[SharedKey][conn], PushMessage(SharedKey, Entry(value)))
  <2>3. <<>> \o copies \o <<>> = copies
    <3>1. copies = [i \in 1 .. subscriptions[SharedKey][conn] |-> PushMessage(SharedKey, Entry(value))]
      BY DEF Copies
    <3>2. subscriptions[SharedKey][conn] \in Nat
      BY SharedConstants DEF SharedInv, SharedTypeOK, RoomTypeOK
    <3> HIDE DEF copies
    <3>3. copies \in Seq({PushMessage(SharedKey, Entry(value))})
      BY <3>1, <3>2
    <3> QED BY <3>3
  <2> HIDE DEF copies
  <2> QED BY <1>1, <2>1, <2>2, <2>3 DEF PushDeliveries, Broadcast, copies
<1> QED BY <1>1, <1>2, <1>3, <1>4, <1>5 DEF PushServed

\* What Serve does is one of the two.
LEMMA ServeFacts ==
    ASSUME SharedInv, NEW client \in Conn, Serve(client)
    PROVE  /\ up[client] \in Seq(Request) /\ up[client] # <<>>
           /\ up' = [up EXCEPT ![client] = Tail(@)]
           /\ UNCHANGED <<listeners, mounted, sets>>
           /\ \/ Head(up[client]) = GetRequest /\ GetServed(client)
                 /\ Get(client, SharedKey, 0)
              \/ \E value \in Value :
                    /\ Head(up[client]) = [type |-> "push", action |-> [type |-> "replace"], value |-> value]
                    /\ PushServed(client, value)
                    /\ Push(client, SharedKey, value, [type |-> "replace"])
<1>1. up[client] \in Seq(Request) /\ up[client] # <<>>
  BY DEF Serve, SharedInv, SharedTypeOK
<1>2. Head(up[client]) \in Request
  BY <1>1
<1>3. CASE Head(up[client]).type = "get"
  <2>1. Head(up[client]) = GetRequest
    BY <1>2, <1>3 DEF Request
  <2>2. Get(client, SharedKey, 0)
    BY <1>3, <2>1 DEF Serve, GetRequest
  <2> QED BY <1>1, <2>1, <2>2, GetIsServed DEF Serve
<1>4. CASE Head(up[client]).type # "get"
  <2>1. PICK value \in Value :
          Head(up[client]) = [type |-> "push", action |-> [type |-> "replace"], value |-> value]
    BY <1>2, <1>4 DEF Request, GetRequest
  <2>2. Push(client, SharedKey, value, [type |-> "replace"])
    BY <1>4, <2>1 DEF Serve
  <2> QED BY <1>1, <2>1, <2>2, PushIsServed DEF Serve
<1> QED BY <1>3, <1>4

\* But for the messages that clients take out, all that happens to the room is what may
\* happen to any.
LEMMA RoomSteps ==
    ASSUME SharedInv, [SharedNext]_sharedVars, \A client \in Conn : ~Receive(client)
    PROVE  [RoomNext]_roomVars
<1>1. CASE UNCHANGED sharedVars
  BY <1>1 DEF sharedVars
<1>2. ASSUME NEW client \in Conn, Mount(client) \/ Unmount(client)
      PROVE  [RoomNext]_roomVars
  BY <1>2 DEF Mount, Unmount, RoomNext
<1>3. ASSUME NEW client \in Conn, Leave(client)
      PROVE  [RoomNext]_roomVars
  BY <1>3 DEF Leave, RoomNext
<1>4. ASSUME NEW client \in Conn, SetState(client)
      PROVE  [RoomNext]_roomVars
  BY <1>4 DEF SetState
<1>5. ASSUME NEW client \in Conn, NEW n \in DOMAIN listeners[client], Pass(client, n) \/ Fire(client, n)
      PROVE  [RoomNext]_roomVars
  BY <1>5 DEF Pass, Fire
<1>6. ASSUME NEW client \in Conn, Serve(client)
      PROVE  [RoomNext]_roomVars
  <2>1. CASE Get(client, SharedKey, 0)
    <3>1. 0 \in {NoSeq} \cup 0 .. sequence_number
      BY DEF SharedInv, SharedTypeOK, RoomTypeOK, StoreTypeOK
    <3> QED BY <2>1, <3>1, SharedConstants DEF RoomNext
  <2>2. ASSUME NEW value \in Value, Push(client, SharedKey, value, [type |-> "replace"])
        PROVE  RoomNext
    <3>1. [type |-> "replace"] \in ClientAction(sequence_number)
      BY DEF ClientAction
    <3> QED BY <2>2, <3>1, SharedConstants DEF RoomNext
  <2> QED BY <1>6, <2>1, <2>2, ServeFacts
<1> QED BY <1>1, <1>2, <1>3, <1>4, <1>5, <1>6 DEF SharedNext, Progress

\* What Receive does to one client: every listener shows what the message says to it.
Shows(client, n, message) ==
    IF Says(message, RandId(client, n)) THEN What(message) ELSE listeners[client][n].shown

LEMMA ReceiveFacts ==
    ASSUME SharedInv, NEW client \in Conn, Receive(client)
    PROVE  /\ inbox[client] \in Seq(Message) /\ inbox[client] # <<>>
           /\ ShortNews(Head(inbox[client]))
           /\ inbox' = [inbox EXCEPT ![client] = Tail(@)]
           /\ listeners' = [listeners EXCEPT ![client] = [n \in DOMAIN listeners[client] |->
                 [listeners[client][n] EXCEPT !.shown = Shows(client, n, Head(inbox[client]))]]]
           /\ UNCHANGED <<storeVars, status, subscriptions, debug_connections, up, mounted, sets>>
<1> DEFINE message == Head(inbox[client])
<1>1. inbox[client] \in Seq(Message) /\ inbox[client] # <<>>
  BY DEF Receive, SharedInv, SharedTypeOK, RoomTypeOK
<1>2. ShortNews(message)
  <2>1. 1 \in DOMAIN inbox[client] /\ inbox[client][1] = message
    BY <1>1
  <2> QED BY <2>1 DEF SharedInv, NewsInv
<1>3. Dispatch(client, News(message))
  BY DEF Receive, News
<1>4. \A n : Told(client, n, News(message)) = Shows(client, n, message)
  BY <1>2, ToldNews DEF Shows
<1> HIDE DEF message
<1>5. listeners' = [listeners EXCEPT ![client] = [n \in DOMAIN listeners[client] |->
          [listeners[client][n] EXCEPT !.shown = Shows(client, n, message)]]]
  BY <1>3, <1>4 DEF Dispatch
<1> QED BY <1>1, <1>2, <1>5 DEF Receive, message

LEMMA ShowsType ==
    ASSUME SharedInv, NEW client \in Conn, NEW n \in DOMAIN listeners[client], NEW message,
           ShortNews(message)
    PROVE  /\ [listeners[client][n] EXCEPT !.shown = Shows(client, n, message)] \in DueListener
           /\ [listeners[client][n] EXCEPT !.shown = Shows(client, n, message)].debounceTimeout
                 = listeners[client][n].debounceTimeout
<1>1. listeners[client] \in Seq(DueListener)
  BY DEF SharedInv, SharedTypeOK
<1>2. listeners[client][n] \in DueListener
  BY <1>1
<1>3. Shows(client, n, message) \in 0 .. MaxSets
  BY <1>2, WhatType DEF Shows, DueListener, Listener
<1> QED BY <1>2, <1>3 DEF DueListener, Listener

\* A client's listener, its last one, and what receiving does to them.
LEMMA AListener ==
    ASSUME SharedInv, NEW client \in Conn, NEW n \in DOMAIN listeners[client]
    PROVE  listeners[client][n] \in DueListener
<1>1. listeners[client] \in Seq(DueListener)
  BY DEF SharedInv, SharedTypeOK
<1> QED BY <1>1

LEMMA CurrentListener ==
    ASSUME SharedInv, NEW client \in Conn, client \in mounted \/ listeners[client] # <<>>
    PROVE  Len(listeners[client]) \in DOMAIN listeners[client]
<1>1. listeners[client] \in Seq(DueListener) /\ listeners[client] # <<>>
  BY DEF SharedInv, SharedTypeOK
<1> QED BY <1>1

LEMMA ReceiveTypes ==
    ASSUME SharedInv, NEW client \in Conn, Receive(client)
    PROVE  /\ listeners' \in [Conn -> Seq(DueListener)]
           /\ \A c \in Conn : Len(listeners'[c]) = Len(listeners[c])
           /\ \A c \in Conn : c # client => listeners'[c] = listeners[c]
           /\ \A n \in DOMAIN listeners[client] :
                 /\ listeners'[client][n].shown = Shows(client, n, Head(inbox[client]))
                 /\ listeners'[client][n].debounceTimeout = listeners[client][n].debounceTimeout
<1> DEFINE message == Head(inbox[client])
           new(n) == [listeners[client][n] EXCEPT !.shown = Shows(client, n, message)]
           all == [n \in DOMAIN listeners[client] |-> new(n)]
<1>1. ShortNews(message) /\ listeners' = [listeners EXCEPT ![client] = all]
  BY ReceiveFacts
<1>2. listeners \in [Conn -> Seq(DueListener)] /\ listeners[client] \in Seq(DueListener)
  BY DEF SharedInv, SharedTypeOK
<1>3. ASSUME NEW n \in DOMAIN listeners[client]
      PROVE  /\ new(n) \in DueListener
             /\ new(n).shown = Shows(client, n, message)
             /\ new(n).debounceTimeout = listeners[client][n].debounceTimeout
  <2>1. "shown" \in DOMAIN listeners[client][n]
    BY AListener DEF DueListener, Listener
  <2> QED BY <1>1, <2>1, ShowsType
<1> HIDE DEF message, new
<1>4. all \in Seq(DueListener) /\ Len(all) = Len(listeners[client])
      /\ \A n \in DOMAIN listeners[client] : all[n] = new(n)
  BY <1>2, <1>3
<1> HIDE DEF all
<1>5. listeners'[client] = all /\ \A c \in Conn : c # client => listeners'[c] = listeners[c]
  BY <1>1, <1>2
<1>6. listeners' \in [Conn -> Seq(DueListener)]
  BY <1>1, <1>2, <1>4
<1> QED BY <1>3, <1>4, <1>5, <1>6 DEF message

\* The messages of a channel, when more are offered.
LEMMA OfferedNews ==
    ASSUME NEW messages \in Seq(Message), NEW more \in Seq(Message),
           \A i \in DOMAIN messages : ShortNews(messages[i]),
           \A i \in DOMAIN more : ShortNews(more[i])
    PROVE  \A i \in DOMAIN Offer(messages, more) : ShortNews(Offer(messages, more)[i])
<1> DEFINE all == messages \o more
<1>1. \A i \in DOMAIN all : ShortNews(all[i])
  <2>1. ASSUME NEW i \in DOMAIN all
        PROVE  \/ i \in DOMAIN messages /\ all[i] = messages[i]
               \/ i - Len(messages) \in DOMAIN more /\ all[i] = more[i - Len(messages)]
    OBVIOUS
  <2> HIDE DEF all
  <2> QED BY <2>1
<1> HIDE DEF all
<1>2. \A i \in DOMAIN Offer(messages, more) : i \in DOMAIN all /\ Offer(messages, more)[i] = all[i]
  BY OfferFacts DEF all
<1> QED BY <1>1, <1>2

\* The messages that serving sends.
LEMMA StreamMessage ==
    ASSUME SharedInv
    PROVE  LET message == InitMessage(SharedKey, subjects[SharedKey])
           IN  /\ <<message>> \in Seq(Message)
               /\ ShortNews(message) /\ News(message) = subjects[SharedKey]
<1> DEFINE message == InitMessage(SharedKey, subjects[SharedKey])
<1>1. subjects[SharedKey] \in Seq(SequenceValue)
  BY SharedConstants DEF SharedInv, SharedTypeOK, RoomTypeOK, StoreTypeOK
<1>2. message \in Message /\ message.type = "init" /\ News(message) = subjects[SharedKey]
  BY <1>1, SharedConstants DEF InitMessage, Message, News
<1>3. subjects[SharedKey] = <<>> \/ \E entry \in SequenceValue : subjects[SharedKey] = <<entry>>
  BY DEF SharedInv, NewsInv, StreamShort, SequenceValue
<1> HIDE DEF message
<1> QED BY <1>2, <1>3 DEF ShortNews, message

LEMMA BroadcastMessages ==
    ASSUME SharedInv, NEW conn \in Conn, NEW value \in Value
    PROVE  /\ Entry(value) \in SequenceValue
           /\ Broadcast(conn, value) \in Seq(Message)
           /\ \A i \in DOMAIN Broadcast(conn, value) :
                 /\ ShortNews(Broadcast(conn, value)[i])
                 /\ News(Broadcast(conn, value)[i]) = <<Entry(value)>>
           /\ Live(conn) /\ subscriptions[SharedKey][conn] > 0 => Broadcast(conn, value) # <<>>
<1> DEFINE message == PushMessage(SharedKey, Entry(value))
           n == subscriptions[SharedKey][conn]
<1>1. sequence_number \in Nat /\ n \in Nat
  BY SharedConstants DEF SharedInv, SharedTypeOK, RoomTypeOK, StoreTypeOK
<1>2. Entry(value) \in SequenceValue
  BY <1>1 DEF Entry, SequenceValue
<1>3. message \in Message /\ message.type = "push" /\ News(message) = <<Entry(value)>>
  BY <1>2, SharedConstants DEF PushMessage, Message, News, EntryOf, Entry, SequenceValue
<1>4. ShortNews(message)
  BY <1>2, <1>3 DEF ShortNews
<1> HIDE DEF message, n
<1>5. CASE Live(conn)
  <2>1. Broadcast(conn, value) = [i \in 1 .. n |-> message]
    BY <1>5 DEF Broadcast, Copies, message, n
  <2>2. Broadcast(conn, value) \in Seq(Message) /\ Len(Broadcast(conn, value)) = n
        /\ \A i \in DOMAIN Broadcast(conn, value) : Broadcast(conn, value)[i] = message
    BY <1>1, <1>3, <2>1
  <2> QED BY <1>1, <1>2, <1>3, <1>4, <2>2 DEF n
<1>6. CASE ~Live(conn)
  BY <1>2, <1>6 DEF Broadcast
<1> QED BY <1>5, <1>6

\* The stream and the channels stay short.
LEMMA NewsStep ==
    ASSUME SharedInv, [SharedNext]_sharedVars
    PROVE  NewsInv'
<1>1. ASSUME UNCHANGED <<subjects, debug_connections>>,
             \A conn \in Conn : inbox'[conn] = inbox[conn] \/ inbox'[conn] = <<>>
      PROVE  NewsInv'
  <2>1. StreamShort' /\ debug_connections' = {}
    BY <1>1 DEF SharedInv, NewsInv, StreamShort
  <2>2. ASSUME NEW conn \in Conn, NEW i \in DOMAIN inbox'[conn]
        PROVE  ShortNews(inbox'[conn][i])
    <3>1. inbox'[conn] = inbox[conn]
      BY <1>1, <2>2
    <3> QED BY <3>1, <2>2 DEF SharedInv, NewsInv
  <2> QED BY <2>1, <2>2 DEF NewsInv
<1>2. CASE UNCHANGED sharedVars
  BY <1>1, <1>2 DEF sharedVars, roomVars, storeVars, connVars
<1>3. ASSUME NEW client \in Conn, Mount(client)
      PROVE  NewsInv'
  BY <1>1, <1>3 DEF Mount, Connect, roomVars, storeVars, connVars
<1>4. ASSUME NEW client \in Conn, Unmount(client) \/ SetState(client)
      PROVE  NewsInv'
  BY <1>1, <1>4 DEF Unmount, SetState, roomVars, storeVars, connVars
<1>5. ASSUME NEW client \in Conn, Leave(client)
      PROVE  NewsInv'
  <2>1. inbox' = [inbox EXCEPT ![client] = <<>>] /\ inbox \in [Conn -> Seq(Message)]
        /\ UNCHANGED <<subjects, debug_connections>>
    BY <1>5 DEF Leave, Drop, storeVars, SharedInv, SharedTypeOK, RoomTypeOK
  <2> QED BY <1>1, <2>1
<1>6. ASSUME NEW client \in Conn, NEW n \in DOMAIN listeners[client], Pass(client, n) \/ Fire(client, n)
      PROVE  NewsInv'
  BY <1>1, <1>6 DEF Pass, Fire, roomVars, storeVars, connVars
<1>7. ASSUME NEW client \in Conn, Serve(client)
      PROVE  NewsInv'
  <2>0. inbox \in [Conn -> Seq(Message)] /\ subjects \in [Key -> Seq(SequenceValue)]
        /\ sequence_number \in Nat
    BY DEF SharedInv, SharedTypeOK, RoomTypeOK, StoreTypeOK
  <2>1. CASE GetServed(client)
    <3>1. <<InitMessage(SharedKey, subjects[SharedKey])>> \in Seq(Message)
          /\ ShortNews(InitMessage(SharedKey, subjects[SharedKey]))
      BY StreamMessage
    <3>2. UNCHANGED <<subjects, debug_connections>>
          /\ inbox' = [inbox EXCEPT ![client] =
                          Offer(inbox[client], <<InitMessage(SharedKey, subjects[SharedKey])>>)]
      BY <2>1 DEF GetServed, storeVars
    <3> DEFINE more == <<InitMessage(SharedKey, subjects[SharedKey])>>
    <3>3. \A i \in DOMAIN more : ShortNews(more[i])
      BY <3>1
    <3> HIDE DEF more
    <3>4. more \in Seq(Message) /\ inbox' = [inbox EXCEPT ![client] = Offer(inbox[client], more)]
      BY <3>1, <3>2 DEF more
    <3>5. \A i \in DOMAIN inbox[client] : ShortNews(inbox[client][i])
      BY DEF SharedInv, NewsInv
    <3>6. \A i \in DOMAIN inbox'[client] : ShortNews(inbox'[client][i])
      BY <2>0, <3>3, <3>4, <3>5, OfferedNews
    <3>7. \A conn \in Conn : conn # client => inbox'[conn] = inbox[conn]
      BY <2>0, <3>4
    <3> QED BY <3>2, <3>6, <3>7 DEF SharedInv, NewsInv, StreamShort
  <2>2. ASSUME NEW value \in Value, PushServed(client, value)
        PROVE  NewsInv'
    <3>1. subjects'[SharedKey] = <<Entry(value)>>
      BY <2>0, <2>2, SharedConstants DEF PushServed
    <3>2. sequence_number + 1 \in Nat \ {0}
      BY <2>0
    <3>3. StreamShort'
      BY <3>1, <3>2 DEF StreamShort, Entry
    <3>4. debug_connections' = {}
      BY <2>2 DEF PushServed, SharedInv, NewsInv
    <3>5. ASSUME NEW conn \in Conn
          PROVE  \A i \in DOMAIN inbox'[conn] : ShortNews(inbox'[conn][i])
      <4>1. inbox'[conn] = Offer(inbox[conn], Broadcast(conn, value))
        BY <2>2 DEF PushServed
      <4>2. \A i \in DOMAIN inbox[conn] : ShortNews(inbox[conn][i])
        BY DEF SharedInv, NewsInv
      <4> QED BY <2>0, <4>1, <4>2, BroadcastMessages, OfferedNews
    <3> QED BY <3>3, <3>4, <3>5 DEF NewsInv
  <2> QED BY <1>7, <2>1, <2>2, ServeFacts
<1>8. ASSUME NEW client \in Conn, Receive(client)
      PROVE  NewsInv'
  <2>1. inbox[client] \in Seq(Message) /\ inbox[client] # <<>>
        /\ inbox' = [inbox EXCEPT ![client] = Tail(@)] /\ UNCHANGED <<subjects, debug_connections>>
    BY <1>8, ReceiveFacts DEF storeVars
  <2>2. \A i \in DOMAIN Tail(inbox[client]) :
           i + 1 \in DOMAIN inbox[client] /\ Tail(inbox[client])[i] = inbox[client][i + 1]
    BY <2>1
  <2>3. inbox \in [Conn -> Seq(Message)]
    BY DEF SharedInv, SharedTypeOK, RoomTypeOK
  <2>4. inbox'[client] = Tail(inbox[client])
        /\ \A conn \in Conn : conn # client => inbox'[conn] = inbox[conn]
    BY <2>1, <2>3
  <2>5. \A i \in DOMAIN inbox'[client] : ShortNews(inbox'[client][i])
    BY <2>2, <2>4 DEF SharedInv, NewsInv
  <2> QED BY <2>1, <2>4, <2>5 DEF SharedInv, NewsInv, StreamShort
<1> QED BY <1>2, <1>3, <1>4, <1>5, <1>6, <1>7, <1>8 DEF SharedNext, Progress

-----------------------------------------------------------------------------
(***************************************************************************)
(* The types are kept.                                                     *)
(***************************************************************************)

ClientTypeOK ==
    /\ up \in [Conn -> Seq(Request)]
    /\ listeners \in [Conn -> Seq(DueListener)]
    /\ \A client \in Conn : Len(listeners[client]) <= MaxMounts[client]
    /\ \A client \in mounted : client \in Conn /\ listeners[client] # <<>>
    /\ sets \in 0 .. MaxSets

LEMMA RoomKeepsTypes ==
    ASSUME SharedInv, [SharedNext]_sharedVars
    PROVE  RoomTypeOK'
<1>1. CASE \A client \in Conn : ~Receive(client)
  <2>1. [RoomNext]_roomVars
    BY <1>1, RoomSteps
  <2>2. [StoreNext]_storeVars
    BY <2>1, RoomStepsStore
  <2>3. StoreTypeOK'
    BY <2>2, StoreTypeStep DEF SharedInv, SharedTypeOK, RoomTypeOK
  <2> QED BY <2>1, <2>3, RoomTypeStep DEF SharedInv, SharedTypeOK
<1>2. ASSUME NEW client \in Conn, Receive(client)
      PROVE  RoomTypeOK'
  <2>1. /\ inbox[client] \in Seq(Message) /\ inbox[client] # <<>>
        /\ inbox' = [inbox EXCEPT ![client] = Tail(@)]
        /\ UNCHANGED <<storeVars, status, subscriptions, debug_connections>>
    BY <1>2, ReceiveFacts
  <2>2. Tail(inbox[client]) \in Seq(Message) /\ Len(Tail(inbox[client])) <= Len(inbox[client])
    BY <2>1
  <2>3. Len(Tail(inbox[client])) <= Capacity
    <3>1. Len(inbox[client]) \in Nat /\ Len(Tail(inbox[client])) \in Nat
      BY <2>1, <2>2
    <3> QED BY <2>2, <3>1, CapacityAssumption DEF SharedInv, SharedTypeOK, RoomTypeOK
  <2>4. RoomTypeOK
    BY DEF SharedInv, SharedTypeOK
  <2>5. inbox' \in [Conn -> Seq(Message)] /\ \A conn \in Conn : Len(inbox'[conn]) <= Capacity
    BY <2>1, <2>2, <2>3, <2>4 DEF RoomTypeOK
  <2> QED BY <2>1, <2>4, <2>5 DEF RoomTypeOK, StoreTypeOK, storeVars
<1> QED BY <1>1, <1>2

LEMMA ClientKeepsTypes ==
    ASSUME SharedInv, [SharedNext]_sharedVars
    PROVE  ClientTypeOK'
<1>0. ClientTypeOK /\ MaxSets \in Nat
  BY SharedConstants DEF SharedInv, SharedTypeOK, ClientTypeOK
<1>1. CASE UNCHANGED sharedVars
  BY <1>0, <1>1 DEF sharedVars, ClientTypeOK
<1>2. ASSUME NEW client \in Conn, Mount(client)
      PROVE  ClientTypeOK'
  <2>1. PICK recent \in BOOLEAN : Subscribe(client, NewListener(recent))
    BY <1>2 DEF Mount
  <2>2. NewListener(recent) \in DueListener
    BY <1>0 DEF NewListener, DueListener, Listener
  <2>3. GetRequest \in Request
    BY DEF Request
  <2>4. /\ listeners' = [listeners EXCEPT ![client] = Append(listeners[client], NewListener(recent))]
        /\ up' = [up EXCEPT ![client] = Append(up[client], GetRequest)]
    BY <2>1 DEF Subscribe, AddListener
  <2> DEFINE new == NewListener(recent)
  <2> HIDE DEF new
  <2>5. /\ Append(listeners[client], new) \in Seq(DueListener)
        /\ Len(Append(listeners[client], new)) = Len(listeners[client]) + 1
        /\ Append(listeners[client], new) # <<>> /\ Len(listeners[client]) \in Nat
    <3>1. listeners[client] \in Seq(DueListener)
      BY <1>0 DEF ClientTypeOK
    <3> QED BY <2>2, <3>1 DEF new
  <2>6. Append(up[client], GetRequest) \in Seq(Request)
    <3>1. up[client] \in Seq(Request)
      BY <1>0 DEF ClientTypeOK
    <3> QED BY <2>3, <3>1
  <2>7. Len(listeners[client]) < MaxMounts[client] /\ mounted' = mounted \cup {client} /\ sets' = sets
        /\ MaxMounts[client] \in Nat
    BY <1>2, SharedConstants DEF Mount
  <2>8. listeners' \in [Conn -> Seq(DueListener)] /\ up' \in [Conn -> Seq(Request)]
    BY <1>0, <2>4, <2>5, <2>6 DEF ClientTypeOK, new
  <2>9. listeners'[client] = Append(listeners[client], new)
        /\ \A c \in Conn : c # client => listeners'[c] = listeners[c]
    BY <1>0, <2>4 DEF ClientTypeOK, new
  <2>10. Len(listeners'[client]) <= MaxMounts[client]
    BY <2>5, <2>7, <2>9
  <2>11. \A c \in Conn : Len(listeners'[c]) <= MaxMounts[c]
    BY <1>0, <2>9, <2>10 DEF ClientTypeOK
  <2>12. \A c \in mounted' : c \in Conn /\ listeners'[c] # <<>>
    BY <1>0, <2>5, <2>7, <2>9 DEF ClientTypeOK
  <2> QED BY <1>0, <2>7, <2>8, <2>11, <2>12 DEF ClientTypeOK
<1>3. ASSUME NEW client \in Conn, Unmount(client)
      PROVE  ClientTypeOK'
  BY <1>0, <1>3 DEF Unmount, Destroy, RemoveListener, ClientTypeOK
<1>4. ASSUME NEW client \in Conn, Leave(client)
      PROVE  ClientTypeOK'
  <2>1. /\ up' = [up EXCEPT ![client] = <<>>]
        /\ listeners' = [listeners EXCEPT ![client] = <<>>]
        /\ mounted' = mounted \ {client} /\ sets' = sets
    BY <1>4 DEF Leave
  <2>2. Len(<<>>) <= MaxMounts[client]
    BY SharedConstants
  <2>3. up' \in [Conn -> Seq(Request)] /\ listeners' \in [Conn -> Seq(DueListener)]
    BY <1>0, <2>1 DEF ClientTypeOK
  <2>4. listeners'[client] = <<>> /\ \A c \in Conn : c # client => listeners'[c] = listeners[c]
    BY <1>0, <2>1 DEF ClientTypeOK
  <2> QED BY <1>0, <2>1, <2>2, <2>3, <2>4 DEF ClientTypeOK
<1>5. ASSUME listeners' \in [Conn -> Seq(DueListener)], up' \in [Conn -> Seq(Request)],
             \A c \in Conn : Len(listeners'[c]) = Len(listeners[c]),
             mounted' = mounted, sets' \in 0 .. MaxSets
      PROVE  ClientTypeOK'
  <2>1. \A c \in mounted : c \in Conn /\ listeners'[c] # <<>>
    <3>1. ASSUME NEW c \in mounted
          PROVE  c \in Conn /\ listeners'[c] # <<>>
      <4>1. c \in Conn /\ listeners[c] # <<>>
        BY <1>0 DEF ClientTypeOK
      <4>2. listeners[c] \in Seq(DueListener)
        BY <1>0, <4>1 DEF ClientTypeOK
      <4>3. Len(listeners[c]) # 0
        BY <4>1, <4>2
      <4> QED BY <1>5, <4>1, <4>3
    <3> QED BY <3>1
  <2> QED BY <1>0, <1>5, <2>1 DEF ClientTypeOK
<1>6. ASSUME NEW client \in Conn, SetState(client)
      PROVE  ClientTypeOK'
  <2>1. Len(listeners[client]) \in DOMAIN listeners[client]
    BY <1>6, CurrentListener DEF SetState
  <2>2. sets' \in 1 .. MaxSets /\ SetStateOptimistic(client, Len(listeners[client]), sets')
        /\ mounted' = mounted
    BY <1>0, <1>6 DEF SetState, ClientTypeOK
  <2>3. /\ listeners' \in [Conn -> Seq(DueListener)]
        /\ \A c \in Conn : Len(listeners'[c]) = Len(listeners[c])
        /\ up' \in [Conn -> Seq(Request)]
    BY <2>1, <2>2, SetStateTypes DEF SharedInv
  <2>4. sets' \in 0 .. MaxSets
    BY <1>0, <2>2
  <2> QED BY <1>5, <2>2, <2>3, <2>4
<1>7. ASSUME NEW client \in Conn, NEW n \in DOMAIN listeners[client], Pass(client, n)
      PROVE  ClientTypeOK'
  <2>1. /\ listeners' = [listeners EXCEPT ![client][n] = [listeners[client][n] EXCEPT !.recent = FALSE]]
        /\ UNCHANGED <<up, mounted, sets>>
    BY <1>7 DEF Pass
  <2> DEFINE l == [listeners[client][n] EXCEPT !.recent = FALSE]
  <2>2. l \in DueListener
    BY <1>7, AListener DEF DueListener, Listener
  <2> HIDE DEF l
  <2>3. /\ listeners' \in [Conn -> Seq(DueListener)]
        /\ \A c \in Conn : Len(listeners'[c]) = Len(listeners[c])
    BY <1>0, <2>1, <2>2, UpdateTypes DEF ClientTypeOK, l
  <2> QED BY <1>0, <1>5, <2>1, <2>3 DEF ClientTypeOK
<1>8. ASSUME NEW client \in Conn, NEW n \in DOMAIN listeners[client], Fire(client, n)
      PROVE  ClientTypeOK'
  <2>1. SendUpdate(client, n, listeners[client][n]) /\ UNCHANGED <<mounted, sets>>
    BY <1>8 DEF Fire
  <2>2. listeners[client][n] \in Listener /\ listeners[client][n].lastValue # 0
    BY <1>8, AListener DEF Fire, DueListener
  <2>3. /\ listeners' \in [Conn -> Seq(DueListener)]
        /\ \A c \in Conn : Len(listeners'[c]) = Len(listeners[c])
        /\ up' \in [Conn -> Seq(Request)]
    BY <2>1, <2>2, SendUpdateTypes DEF SharedInv
  <2> QED BY <1>0, <1>5, <2>1, <2>3 DEF ClientTypeOK
<1>9. ASSUME NEW client \in Conn, Serve(client)
      PROVE  ClientTypeOK'
  <2>1. /\ up[client] \in Seq(Request) /\ up[client] # <<>>
        /\ up' = [up EXCEPT ![client] = Tail(@)]
        /\ UNCHANGED <<listeners, mounted, sets>>
    BY <1>9, ServeFacts
  <2>2. Tail(up[client]) \in Seq(Request)
    BY <2>1
  <2>3. up' \in [Conn -> Seq(Request)]
    BY <1>0, <2>1, <2>2 DEF ClientTypeOK
  <2> QED BY <1>0, <1>5, <2>1, <2>3 DEF ClientTypeOK
<1>10. ASSUME NEW client \in Conn, Receive(client)
      PROVE  ClientTypeOK'
  <2>1. listeners' \in [Conn -> Seq(DueListener)]
        /\ \A c \in Conn : Len(listeners'[c]) = Len(listeners[c])
    BY <1>10, ReceiveTypes
  <2> QED BY <1>0, <1>5, <1>10, <2>1, ReceiveFacts DEF ClientTypeOK
<1> QED BY <1>1, <1>2, <1>3, <1>4, <1>6, <1>7, <1>8, <1>9, <1>10 DEF SharedNext, Progress

LEMMA SharedInvariant == SharedSpec => []SharedInv
<1>1. SharedInit => SharedInv
  <2> SUFFICES ASSUME SharedInit
               PROVE  SharedInv
    OBVIOUS
  <2>1. RoomTypeOK
    BY RoomTypeInit DEF SharedInit
  <2>2. ClientTypeOK
    BY SharedConstants DEF SharedInit, ClientTypeOK
  <2>3. NewsInv
    BY SharedConstants DEF SharedInit, RoomInit, StoreInit, NewsInv, StreamShort
  <2> QED BY <2>1, <2>2, <2>3 DEF SharedInv, SharedTypeOK, ClientTypeOK
<1>2. SharedInv /\ [SharedNext]_sharedVars => SharedInv'
  BY RoomKeepsTypes, ClientKeepsTypes, NewsStep DEF SharedInv, SharedTypeOK, ClientTypeOK
<1> QED BY <1>1, <1>2, PTL DEF SharedSpec

\* However many clients and components there are, a value that setStateOptimistic took
\* and has not sent has a timer that will send it: neither an early call, nor an answer
\* of the room, nor the end of the component makes it be forgotten.
THEOREM NothingUnsentForgotten == SharedSpec => []UnsentIsDue
<1>1. SharedInv => UnsentIsDue
  BY AListener DEF UnsentIsDue, DueListener
<1> QED BY <1>1, SharedInvariant, PTL

-----------------------------------------------------------------------------
(***************************************************************************)
(* What the components show.  The invariant follows the value of the       *)
(* stream on its way to the last listener of a client: it will be told of  *)
(* it, or will ask for it, or will overwrite it.                           *)
(***************************************************************************)

\* No channel is full: what does not fit is dropped, and a client that is not told of the
\* last value cannot show it.
ChannelsHold == \A client \in Conn : Len(inbox[client]) < Capacity

Current(client) == Len(listeners[client])
CurrentId(client) == RandId(client, Current(client))
CurrentShown(client) == listeners[client][Current(client)].shown

\* The client has asked for a replay that is yet to be served.
GetDue(client) == \E i \in DOMAIN up[client] : up[client][i] = GetRequest

\* The last listener has sent a value that is yet to be served, or will send one.
SetDue(client) ==
    \/ \E i \in DOMAIN up[client] :
          up[client][i].type = "push" /\ up[client][i].value.i = CurrentId(client)
    \/ listeners[client][Current(client)].debounceTimeout

Attached(client) ==
    /\ Live(client)
    /\ GetDue(client) \/ subscriptions[SharedKey][client] > 0

Heard(client) ==
    subjects[SharedKey] # <<>> =>
        LET holds == subjects[SharedKey][1].value
        IN  \/ holds.i = CurrentId(client)
            \/ GetDue(client) \/ SetDue(client)
            \/ WillShow(CurrentId(client), inbox[client], CurrentShown(client), holds.v)

HeardInv == \A client \in Conn : listeners[client] # <<>> => Attached(client) /\ Heard(client)

\* Of the requests of a client, all but the first stay when it is served.
LEMMA RequestsLeft ==
    ASSUME NEW requests \in Seq(Request), requests # <<>>,
           NEW i \in DOMAIN requests, requests[i] # Head(requests)
    PROVE  \E j \in DOMAIN Tail(requests) : Tail(requests)[j] = requests[i]
<1>1. i # 1 /\ requests[1] = Head(requests)
  OBVIOUS
<1>2. i - 1 \in DOMAIN Tail(requests) /\ Tail(requests)[i - 1] = requests[i]
  BY <1>1
<1> QED BY <1>2

\* Whatever a client asks for next, what is due stays due.
LEMMA RequestsStay ==
    ASSUME NEW requests \in Seq(Request), NEW request \in Request
    PROVE  /\ \A i \in DOMAIN requests :
                 i \in DOMAIN Append(requests, request) /\ Append(requests, request)[i] = requests[i]
           /\ \E i \in DOMAIN Append(requests, request) : Append(requests, request)[i] = request
<1>1. /\ Append(requests, request)[Len(requests) + 1] = request
      /\ Len(requests) + 1 \in DOMAIN Append(requests, request)
      /\ \A i \in DOMAIN requests :
            i \in DOMAIN Append(requests, request) /\ Append(requests, request)[i] = requests[i]
  OBVIOUS
<1> QED BY <1>1

\* The ids of two clients, and of two listeners of one, differ.
LEMMA IdsDiffer ==
    ASSUME NEW client, NEW other, NEW n, NEW m, RandId(client, n) = RandId(other, m)
    PROVE  client = other /\ n = m
BY DEF RandId

\* Nothing that concerns a client changes.
LEMMA NothingHeard ==
    ASSUME NEW client \in Conn, listeners[client] # <<>> => Attached(client) /\ Heard(client),
           listeners'[client] = listeners[client], up'[client] = up[client],
           inbox'[client] = inbox[client], status'[client] = status[client],
           subscriptions'[SharedKey][client] = subscriptions[SharedKey][client],
           subjects'[SharedKey] = subjects[SharedKey]
    PROVE  listeners'[client] # <<>> => Attached(client)' /\ Heard(client)'
<1>1. /\ Current(client)' = Current(client) /\ CurrentId(client)' = CurrentId(client)
      /\ CurrentShown(client)' = CurrentShown(client)
      /\ GetDue(client)' = GetDue(client) /\ Live(client)' = Live(client)
  BY DEF Current, CurrentId, CurrentShown, GetDue, Live
<1>2. SetDue(client)' = SetDue(client)
  BY <1>1 DEF SetDue
<1>3. Attached(client)' = Attached(client)
  BY <1>1 DEF Attached
<1>4. Heard(client)' = Heard(client)
  BY <1>1, <1>2 DEF Heard
<1> QED BY <1>3, <1>4

\* A listener that is mounted asks for a replay.
LEMMA MountHeard ==
    ASSUME SharedInv, HeardInv, NEW client \in Conn, Mount(client)
    PROVE  HeardInv'
<1>1. PICK recent \in BOOLEAN : Subscribe(client, NewListener(recent))
  BY DEF Mount
<1>2. /\ listeners' = [listeners EXCEPT ![client] = Append(listeners[client], NewListener(recent))]
      /\ up' = [up EXCEPT ![client] = Append(up[client], GetRequest)]
  BY <1>1 DEF Subscribe, AddListener
<1>3. up \in [Conn -> Seq(Request)] /\ listeners \in [Conn -> Seq(DueListener)]
      /\ status \in [Conn -> {"new", "open", "dropped"}]
  BY DEF SharedInv, SharedTypeOK, RoomTypeOK
<1>4. /\ Live(client)' /\ UNCHANGED <<subjects, subscriptions, inbox>>
      /\ \A other \in Conn : other # client => status'[other] = status[other]
  BY <1>3 DEF Mount, Connect, Live, roomVars, storeVars, connVars
<1>5. GetDue(client)'
  <2>1. up'[client] = Append(up[client], GetRequest) /\ up[client] \in Seq(Request)
    BY <1>2, <1>3
  <2>2. GetRequest \in Request
    BY DEF Request
  <2> QED BY <2>1, <2>2, RequestsStay DEF GetDue
<1>6. ASSUME NEW other \in Conn, other # client
      PROVE  listeners'[other] # <<>> => Attached(other)' /\ Heard(other)'
  <2>1. listeners'[other] = listeners[other] /\ up'[other] = up[other]
    BY <1>2, <1>3, <1>6
  <2> QED BY <1>4, <1>6, <2>1, NothingHeard DEF HeardInv
<1>7. Attached(client)' /\ Heard(client)'
  BY <1>4, <1>5 DEF Attached, Heard
<1> QED BY <1>6, <1>7 DEF HeardInv

\* A client goes away with its listeners.
LEMMA LeaveHeard ==
    ASSUME SharedInv, HeardInv, NEW client \in Conn, Leave(client)
    PROVE  HeardInv'
<1>1. up \in [Conn -> Seq(Request)] /\ listeners \in [Conn -> Seq(DueListener)]
      /\ status \in [Conn -> {"new", "open", "dropped"}] /\ inbox \in [Conn -> Seq(Message)]
  BY DEF SharedInv, SharedTypeOK, RoomTypeOK
<1>2. /\ up' = [up EXCEPT ![client] = <<>>]
      /\ listeners' = [listeners EXCEPT ![client] = <<>>]
      /\ status' = [status EXCEPT ![client] = "dropped"]
      /\ inbox' = [inbox EXCEPT ![client] = <<>>]
      /\ UNCHANGED <<subjects, subscriptions>>
  BY DEF Leave, Drop, storeVars
<1>3. listeners'[client] = <<>>
  BY <1>1, <1>2
<1>4. ASSUME NEW other \in Conn, other # client
      PROVE  listeners'[other] # <<>> => Attached(other)' /\ Heard(other)'
  <2>1. /\ listeners'[other] = listeners[other] /\ up'[other] = up[other]
        /\ status'[other] = status[other] /\ inbox'[other] = inbox[other]
    BY <1>1, <1>2, <1>4
  <2> QED BY <1>2, <1>4, <2>1, NothingHeard DEF HeardInv
<1> QED BY <1>3, <1>4 DEF HeardInv

\* A listener of a client sends, or sets its timer, or lets time pass.
LEMMA ListenerHeard ==
    ASSUME SharedInv, HeardInv, UNCHANGED roomVars,
           NEW client \in Conn, NEW n \in DOMAIN listeners[client],
           listeners' \in [Conn -> Seq(DueListener)],
           \A c \in Conn : Len(listeners'[c]) = Len(listeners[c]),
           \A c \in Conn : \A m \in DOMAIN listeners[c] :
              (c # client \/ m # n) => listeners'[c][m] = listeners[c][m],
           \/ up' = up /\ listeners'[client][n].debounceTimeout
           \/ up' = up /\ listeners'[client][n].shown = listeners[client][n].shown
                 /\ listeners'[client][n].debounceTimeout = listeners[client][n].debounceTimeout
           \/ \E v : /\ ReplaceRequest(client, n, v) \in Request
                     /\ up' = [up EXCEPT ![client] = Append(@, ReplaceRequest(client, n, v))]
    PROVE  HeardInv'
<1> DEFINE Kept == up' = up /\ listeners'[client][n].shown = listeners[client][n].shown
                      /\ listeners'[client][n].debounceTimeout = listeners[client][n].debounceTimeout
<1>1. up \in [Conn -> Seq(Request)] /\ listeners \in [Conn -> Seq(DueListener)]
  BY DEF SharedInv, SharedTypeOK
<1>2. UNCHANGED <<subjects, status, subscriptions, inbox>>
  BY DEF roomVars, storeVars, connVars
<1>3. ASSUME NEW c \in Conn, listeners'[c] # <<>>
      PROVE  Attached(c)' /\ Heard(c)'
  <2>1. listeners[c] \in Seq(DueListener) /\ listeners'[c] \in Seq(DueListener)
        /\ Len(listeners'[c]) = Len(listeners[c])
    BY <1>1
  <2>2. listeners[c] # <<>> /\ Current(c) \in DOMAIN listeners[c] /\ Current(c)' = Current(c)
    BY <1>3, <2>1 DEF Current
  <2>3. CurrentId(c)' = CurrentId(c) /\ Attached(c) /\ Heard(c)
    BY <2>2 DEF CurrentId, HeardInv
  <2>4. up[c] \in Seq(Request)
    BY <1>1
  <2>5. \A i \in DOMAIN up[c] : i \in DOMAIN up'[c] /\ up'[c][i] = up[c][i]
    <3>1. CASE up'[c] = up[c]
      BY <3>1
    <3>2. ASSUME NEW request \in Request, up'[c] = Append(up[c], request)
          PROVE  \A i \in DOMAIN up[c] : i \in DOMAIN up'[c] /\ up'[c][i] = up[c][i]
      <4>1. \A i \in DOMAIN up[c] :
               i \in DOMAIN Append(up[c], request) /\ Append(up[c], request)[i] = up[c][i]
        BY <2>4, RequestsStay
      <4> QED BY <3>2, <4>1
    <3>3. up'[c] = up[c] \/ \E request \in Request : up'[c] = Append(up[c], request)
      BY <1>1
    <3> QED BY <3>1, <3>2, <3>3
  <2>6. GetDue(c) => GetDue(c)'
    BY <2>5 DEF GetDue
  <2>7. Attached(c)'
    BY <1>2, <2>3, <2>6 DEF Attached, Live
  <2>8. CASE (c # client \/ n # Current(c)) \/ Kept
    <3>1. /\ CurrentShown(c)' = CurrentShown(c)
          /\ listeners'[c][Current(c)].debounceTimeout = listeners[c][Current(c)].debounceTimeout
      <4>1. CASE c # client \/ n # Current(c)
        <5>1. listeners'[c][Current(c)] = listeners[c][Current(c)]
          BY <2>2, <4>1
        <5> QED BY <2>2, <5>1 DEF CurrentShown
      <4>2. CASE c = client /\ n = Current(c) /\ Kept
        BY <2>2, <4>2 DEF CurrentShown
      <4> QED BY <2>8, <4>1, <4>2
    <3>2. SetDue(c) => SetDue(c)'
      BY <2>2, <2>3, <2>5, <3>1 DEF SetDue
    <3> QED BY <1>2, <2>3, <2>6, <2>7, <3>1, <3>2 DEF Heard
  <2>9. CASE c = client /\ n = Current(c) /\ ~Kept
    <3>1. SetDue(c)'
      <4>1. CASE listeners'[client][n].debounceTimeout
        BY <2>2, <2>9, <4>1 DEF SetDue
      <4>2. ASSUME NEW v, ReplaceRequest(client, n, v) \in Request,
                   up' = [up EXCEPT ![client] = Append(@, ReplaceRequest(client, n, v))]
            PROVE  SetDue(c)'
        <5>1. up'[c] = Append(up[c], ReplaceRequest(client, n, v))
          BY <1>1, <2>9, <4>2
        <5>0. \E i \in DOMAIN Append(up[c], ReplaceRequest(client, n, v)) :
                 Append(up[c], ReplaceRequest(client, n, v))[i] = ReplaceRequest(client, n, v)
          BY <2>4, <4>2, RequestsStay
        <5>2. PICK i \in DOMAIN up'[c] : up'[c][i] = ReplaceRequest(client, n, v)
          BY <5>0, <5>1
        <5>3. up'[c][i].type = "push" /\ up'[c][i].value.i = CurrentId(c)'
          BY <2>2, <2>9, <5>2 DEF ReplaceRequest, CurrentId
        <5> QED BY <5>3 DEF SetDue
      <4> QED BY <2>9, <4>1, <4>2
    <3> QED BY <2>7, <3>1 DEF Heard
  <2> QED BY <2>8, <2>9
<1> QED BY <1>3 DEF HeardInv

\* The replay tells the last listener what the stream holds.
LEMMA GetHeard ==
    ASSUME SharedInv, HeardInv, NEW client \in Conn, Serve(client), GetServed(client),
           Len(inbox'[client]) < Capacity
    PROVE  HeardInv'
<1> DEFINE message == InitMessage(SharedKey, subjects[SharedKey])
<1>1. /\ up \in [Conn -> Seq(Request)] /\ inbox \in [Conn -> Seq(Message)]
      /\ subscriptions \in [Key -> [Conn -> Nat]] /\ SharedKey \in Key
  BY SharedConstants DEF SharedInv, SharedTypeOK, RoomTypeOK
<1>2. /\ up' = [up EXCEPT ![client] = Tail(@)] /\ UNCHANGED listeners
      /\ Live(client) /\ UNCHANGED <<subjects, status>>
      /\ subscriptions' = [subscriptions EXCEPT ![SharedKey][client] = @ + 1]
      /\ inbox' = [inbox EXCEPT ![client] = Offer(inbox[client], <<message>>)]
  BY ServeFacts DEF GetServed, storeVars
<1>3. ASSUME NEW other \in Conn, other # client
      PROVE  listeners'[other] # <<>> => Attached(other)' /\ Heard(other)'
  <2>1. /\ listeners'[other] = listeners[other] /\ up'[other] = up[other]
        /\ status'[other] = status[other] /\ inbox'[other] = inbox[other]
        /\ subscriptions'[SharedKey][other] = subscriptions[SharedKey][other]
    BY <1>1, <1>2, <1>3
  <2> QED BY <1>2, <1>3, <2>1, NothingHeard DEF HeardInv
<1>4. Attached(client)'
  <2>1. subscriptions'[SharedKey][client] = subscriptions[SharedKey][client] + 1
        /\ subscriptions[SharedKey][client] \in Nat
    BY <1>1, <1>2
  <2>2. subscriptions'[SharedKey][client] > 0
    BY <2>1
  <2> QED BY <1>2, <2>2 DEF Attached, Live
<1>5. Heard(client)'
  <2> SUFFICES ASSUME subjects[SharedKey] # <<>>, subjects[SharedKey][1].value.i # CurrentId(client)'
               PROVE  WillShow(CurrentId(client)', inbox'[client], CurrentShown(client)',
                               subjects[SharedKey][1].value.v)
    BY <1>2 DEF Heard
  <2>1. <<message>> \in Seq(Message) /\ News(message) = subjects[SharedKey]
    BY StreamMessage
  <2> HIDE DEF message
  <2>2. inbox'[client] = Offer(inbox[client], <<message>>) /\ inbox[client] \in Seq(Message)
    BY <1>1, <1>2
  <2>3. inbox'[client] = inbox[client] \o <<message>>
    BY <2>1, <2>2, OfferAll
  <2>4. Says(message, CurrentId(client)') /\ What(message) = subjects[SharedKey][1].value.v
    BY <2>1 DEF Says, What
  <2> DEFINE more == <<message>>
  <2>5. more \in Seq(Message) /\ more # <<>> /\ \A i \in DOMAIN more : more[i] = message
    BY <2>1
  <2> HIDE DEF more
  <2>6. \A i \in DOMAIN more :
           Says(more[i], CurrentId(client)') /\ What(more[i]) = subjects[SharedKey][1].value.v
    BY <2>4, <2>5
  <2>7. WillShow(CurrentId(client)', inbox[client] \o more, CurrentShown(client)',
                 subjects[SharedKey][1].value.v)
    BY <2>2, <2>5, <2>6, LastIsShown
  <2> QED BY <2>3, <2>7 DEF more
<1> QED BY <1>3, <1>4, <1>5 DEF HeardInv

\* Everyone who has subscribed is told of a push, or has set the value that it brings.
LEMMA PushHeard ==
    ASSUME SharedInv, HeardInv, NEW client \in Conn, NEW value \in Value, Serve(client),
           Head(up[client]) # GetRequest, PushServed(client, value),
           \A conn \in Conn : Len(inbox'[conn]) < Capacity
    PROVE  HeardInv'
<1>1. /\ up \in [Conn -> Seq(Request)] /\ inbox \in [Conn -> Seq(Message)]
      /\ subscriptions \in [Key -> [Conn -> Nat]] /\ SharedKey \in Key
      /\ subjects \in [Key -> Seq(SequenceValue)]
  BY SharedConstants DEF SharedInv, SharedTypeOK, RoomTypeOK, StoreTypeOK
<1>2. /\ up' = [up EXCEPT ![client] = Tail(@)] /\ UNCHANGED <<listeners, status>>
      /\ up[client] # <<>>
      /\ subjects' = [subjects EXCEPT ![SharedKey] = <<Entry(value)>>]
      /\ inbox' = [conn \in Conn |-> Offer(inbox[conn], Broadcast(conn, value))]
      /\ subscriptions' = [subscriptions EXCEPT ![SharedKey] =
                              [conn \in Conn |-> IF Live(conn) THEN @[conn] ELSE 0]]
  BY ServeFacts DEF PushServed
<1>3. subjects'[SharedKey] = <<Entry(value)>>
  BY <1>1, <1>2
<1>4. subjects'[SharedKey][1].value = value
  BY <1>3 DEF Entry
<1>5. ASSUME NEW c \in Conn, listeners'[c] # <<>>
      PROVE  Attached(c)' /\ Heard(c)'
  <2>1. Attached(c) /\ CurrentId(c)' = CurrentId(c) /\ CurrentShown(c)' = CurrentShown(c)
    BY <1>2, <1>5 DEF HeardInv, CurrentId, CurrentShown, Current
  <2>2. GetDue(c) => GetDue(c)'
    <3>1. CASE c = client
      <4>1. up'[c] = Tail(up[c]) /\ up[c] \in Seq(Request) /\ up[c] # <<>>
            /\ Head(up[c]) # GetRequest
        BY <1>1, <1>2, <3>1
      <4> QED BY <4>1, RequestsLeft DEF GetDue
    <3>2. CASE c # client
      <4>1. up'[c] = up[c]
        BY <1>1, <1>2, <3>2
      <4> QED BY <4>1 DEF GetDue
    <3> QED BY <3>1, <3>2
  <2>3. Live(c) /\ Live(c)' /\ subscriptions'[SharedKey][c] = subscriptions[SharedKey][c]
    BY <1>1, <1>2, <2>1 DEF Attached, Live
  <2>4. Attached(c)'
    BY <2>1, <2>2, <2>3 DEF Attached
  <2>5. ASSUME value.i # CurrentId(c), ~GetDue(c)
        PROVE  WillShow(CurrentId(c), inbox'[c], CurrentShown(c), value.v)
    <3> DEFINE more == Broadcast(c, value)
    <3>1. more \in Seq(Message) /\ more # <<>>
          /\ \A i \in DOMAIN more : News(more[i]) = <<Entry(value)>>
      BY <2>1, <2>5, BroadcastMessages DEF Attached
    <3>2. inbox[c] \in Seq(Message) /\ inbox'[c] = Offer(inbox[c], more)
      BY <1>1, <1>2
    <3>3. inbox'[c] = inbox[c] \o more
      BY <3>1, <3>2, OfferAll
    <3> HIDE DEF more
    <3>4. \A i \in DOMAIN more : Says(more[i], CurrentId(c)) /\ What(more[i]) = value.v
      BY <2>5, <3>1 DEF Says, What, Entry
    <3> QED BY <3>1, <3>2, <3>3, <3>4, LastIsShown
  <2>6. Heard(c)'
    BY <1>4, <2>1, <2>2, <2>5 DEF Heard
  <2> QED BY <2>4, <2>6
<1> QED BY <1>5 DEF HeardInv

\* Being told of a message makes no difference to what will be shown in the end.
LEMMA ReceiveHeard ==
    ASSUME SharedInv, HeardInv, NEW client \in Conn, Receive(client)
    PROVE  HeardInv'
<1>1. /\ inbox[client] \in Seq(Message) /\ inbox[client] # <<>>
      /\ inbox' = [inbox EXCEPT ![client] = Tail(@)]
      /\ UNCHANGED <<subjects, status, subscriptions, up>>
  BY ReceiveFacts DEF storeVars
<1>2. /\ listeners' \in [Conn -> Seq(DueListener)]
      /\ \A c \in Conn : Len(listeners'[c]) = Len(listeners[c])
      /\ \A c \in Conn : c # client => listeners'[c] = listeners[c]
      /\ \A n \in DOMAIN listeners[client] :
            /\ listeners'[client][n].shown = Shows(client, n, Head(inbox[client]))
            /\ listeners'[client][n].debounceTimeout = listeners[client][n].debounceTimeout
  BY ReceiveTypes
<1>3. inbox \in [Conn -> Seq(Message)] /\ listeners \in [Conn -> Seq(DueListener)]
  BY DEF SharedInv, SharedTypeOK, RoomTypeOK
<1>4. ASSUME NEW other \in Conn, other # client
      PROVE  listeners'[other] # <<>> => Attached(other)' /\ Heard(other)'
  <2>1. listeners'[other] = listeners[other] /\ inbox'[other] = inbox[other]
    BY <1>1, <1>2, <1>3, <1>4
  <2> QED BY <1>1, <1>4, <2>1, NothingHeard DEF HeardInv
<1>5. ASSUME listeners'[client] # <<>>
      PROVE  Attached(client)' /\ Heard(client)'
  <2>1. listeners[client] # <<>>
    BY <1>2, <1>3, <1>5
  <2>2. Current(client) \in DOMAIN listeners[client] /\ Current(client)' = Current(client)
    BY <1>2, <2>1, CurrentListener DEF Current
  <2>3. /\ CurrentId(client)' = CurrentId(client) /\ GetDue(client)' = GetDue(client)
        /\ listeners'[client][Current(client)].debounceTimeout
              = listeners[client][Current(client)].debounceTimeout
    BY <1>1, <1>2, <2>2 DEF CurrentId, GetDue
  <2>4. SetDue(client)' = SetDue(client)
    BY <1>1, <2>2, <2>3 DEF SetDue
  <2>5. Attached(client)'
    BY <1>1, <2>1, <2>3 DEF HeardInv, Attached, Live
  <2>6. CurrentShown(client)' = IF Says(Head(inbox[client]), CurrentId(client))
                                THEN What(Head(inbox[client])) ELSE CurrentShown(client)
    BY <1>2, <2>2 DEF CurrentShown, Shows, CurrentId
  <2>7. inbox'[client] = Tail(inbox[client])
    BY <1>1, <1>3
  <2>8. ASSUME NEW v, WillShow(CurrentId(client), inbox[client], CurrentShown(client), v)
        PROVE  WillShow(CurrentId(client), inbox'[client], CurrentShown(client)', v)
    BY <1>1, <2>6, <2>7, <2>8, TailIsShown
  <2>9. Heard(client)
    BY <2>1 DEF HeardInv
  <2>10. Heard(client)'
    BY <1>1, <2>3, <2>4, <2>8, <2>9 DEF Heard
  <2> QED BY <2>5, <2>10
<1> QED BY <1>4, <1>5 DEF HeardInv

LEMMA HeardStep ==
    ASSUME SharedInv, HeardInv, [SharedNext]_sharedVars, ChannelsHold'
    PROVE  HeardInv'
<1>1. CASE UNCHANGED sharedVars
  BY <1>1, NothingHeard DEF sharedVars, roomVars, storeVars, connVars, HeardInv
<1>2. ASSUME NEW client \in Conn, Unmount(client)
      PROVE  HeardInv'
  BY <1>2, NothingHeard
     DEF Unmount, Destroy, RemoveListener, roomVars, storeVars, connVars, HeardInv
<1>3. ASSUME NEW client \in Conn, SetState(client)
      PROVE  HeardInv'
  <2>1. Len(listeners[client]) \in DOMAIN listeners[client]
    BY <1>3, CurrentListener DEF SetState
  <2>2. sets' \in 1 .. MaxSets /\ SetStateOptimistic(client, Len(listeners[client]), sets')
        /\ UNCHANGED roomVars
    BY <1>3, SharedConstants DEF SetState, SharedInv, SharedTypeOK
  <2> DEFINE n == Len(listeners[client])
  <2>3. /\ listeners' \in [Conn -> Seq(DueListener)]
        /\ \A c \in Conn : Len(listeners'[c]) = Len(listeners[c])
        /\ \A c \in Conn : \A m \in DOMAIN listeners[c] :
              (c # client \/ m # n) => listeners'[c][m] = listeners[c][m]
        /\ \/ up' = up /\ listeners'[client][n].debounceTimeout
           \/ /\ up' = [up EXCEPT ![client] = Append(@, ReplaceRequest(client, n, sets'))]
              /\ ReplaceRequest(client, n, sets') \in Request
    BY <2>1, <2>2, SetStateTypes DEF SharedInv
  <2> HIDE DEF n
  <2> QED BY <2>1, <2>2, <2>3, ListenerHeard DEF n
<1>4. ASSUME NEW client \in Conn, NEW n \in DOMAIN listeners[client], Pass(client, n)
      PROVE  HeardInv'
  <2>1. /\ listeners' = [listeners EXCEPT ![client][n] = [listeners[client][n] EXCEPT !.recent = FALSE]]
        /\ UNCHANGED <<roomVars, up, mounted, sets>>
    BY <1>4 DEF Pass
  <2> DEFINE l == [listeners[client][n] EXCEPT !.recent = FALSE]
  <2>2. l \in DueListener /\ l.shown = listeners[client][n].shown
        /\ l.debounceTimeout = listeners[client][n].debounceTimeout
    BY <1>4, AListener DEF DueListener, Listener
  <2> HIDE DEF l
  <2>3. /\ listeners' \in [Conn -> Seq(DueListener)]
        /\ \A c \in Conn : Len(listeners'[c]) = Len(listeners[c])
        /\ listeners'[client][n] = l
        /\ \A c \in Conn : \A m \in DOMAIN listeners[c] :
              (c # client \/ m # n) => listeners'[c][m] = listeners[c][m]
    BY <2>1, <2>2, UpdateTypes DEF SharedInv, SharedTypeOK, l
  <2>4. /\ up' = up /\ listeners'[client][n].shown = listeners[client][n].shown
        /\ listeners'[client][n].debounceTimeout = listeners[client][n].debounceTimeout
    BY <2>1, <2>2, <2>3
  <2>5. /\ listeners' \in [Conn -> Seq(DueListener)]
        /\ \A c \in Conn : Len(listeners'[c]) = Len(listeners[c])
        /\ \A c \in Conn : \A m \in DOMAIN listeners[c] :
              (c # client \/ m # n) => listeners'[c][m] = listeners[c][m]
        /\ UNCHANGED roomVars
    BY <2>1, <2>3
  <2> QED BY <2>4, <2>5, ListenerHeard
<1>5. ASSUME NEW client \in Conn, NEW n \in DOMAIN listeners[client], Fire(client, n)
      PROVE  HeardInv'
  <2>1. SendUpdate(client, n, listeners[client][n]) /\ UNCHANGED roomVars
    BY <1>5 DEF Fire
  <2>2. listeners[client][n] \in Listener /\ listeners[client][n].lastValue # 0
    BY <1>5, AListener DEF Fire, DueListener
  <2>3. /\ listeners' \in [Conn -> Seq(DueListener)]
        /\ \A c \in Conn : Len(listeners'[c]) = Len(listeners[c])
        /\ \A c \in Conn : \A m \in DOMAIN listeners[c] :
              (c # client \/ m # n) => listeners'[c][m] = listeners[c][m]
        /\ ReplaceRequest(client, n, listeners[client][n].lastValue) \in Request
        /\ up' = [up EXCEPT ![client] =
                     Append(@, ReplaceRequest(client, n, listeners[client][n].lastValue))]
    BY <2>1, <2>2, SendUpdateTypes DEF SharedInv
  <2> QED BY <2>1, <2>3, ListenerHeard
<1>6. ASSUME NEW client \in Conn, Serve(client)
      PROVE  HeardInv'
  <2>1. \A conn \in Conn : Len(inbox'[conn]) < Capacity
    BY DEF ChannelsHold
  <2>2. CASE GetServed(client)
    BY <1>6, <2>1, <2>2, GetHeard
  <2>3. ASSUME NEW value \in Value, PushServed(client, value),
               Head(up[client]) =
                   [type |-> "push", action |-> [type |-> "replace"], value |-> value]
        PROVE  HeardInv'
    <3>1. Head(up[client]) # GetRequest
      BY <2>3 DEF GetRequest
    <3> QED BY <1>6, <2>1, <2>3, <3>1, PushHeard
  <2> QED BY <1>6, <2>2, <2>3, ServeFacts
<1> QED BY <1>1, <1>2, <1>3, <1>4, <1>5, <1>6, MountHeard, LeaveHeard, ReceiveHeard
        DEF SharedNext, Progress

LEMMA HeardAtRest ==
    ASSUME SharedInv, HeardInv
    PROVE  OthersShowStream
<1> SUFFICES ASSUME AtRest, NEW client \in mounted, NEW i \in DOMAIN subjects[SharedKey],
                    subjects[SharedKey][i].value.i # RandId(client, Len(listeners[client]))
             PROVE  listeners[client][Len(listeners[client])].shown = subjects[SharedKey][i].value.v
  BY DEF OthersShowStream
<1>1. client \in Conn /\ listeners[client] # <<>>
  BY DEF SharedInv, SharedTypeOK
<1>2. i = 1 /\ subjects[SharedKey] # <<>>
  <2>1. subjects[SharedKey] # <<>>
    OBVIOUS
  <2>2. PICK entry : subjects[SharedKey] = <<entry>>
    BY <2>1 DEF SharedInv, NewsInv, StreamShort
  <2> QED BY <2>1, <2>2
<1>3. up[client] = <<>> /\ inbox[client] = <<>>
      /\ ~listeners[client][Current(client)].debounceTimeout
  BY <1>1, CurrentListener DEF AtRest, Current
<1>4. ~GetDue(client) /\ ~SetDue(client)
  BY <1>3 DEF GetDue, SetDue
<1>5. WillShow(CurrentId(client), <<>>, CurrentShown(client), subjects[SharedKey][1].value.v)
  BY <1>1, <1>2, <1>3, <1>4 DEF HeardInv, Heard, CurrentId, Current
<1>6. CurrentShown(client) = subjects[SharedKey][1].value.v
  BY <1>5 DEF WillShow
<1> QED BY <1>2, <1>6 DEF CurrentShown, Current

\* However many clients share the value, whenever their components come and go, and
\* however sets, timers, echoes and replays interleave: once everything has been sent and
\* told, every component shows what the stream holds, but for the one that set it last
\* (state.ts: the handler skips its own echo; index.ts: subscribe asks for a replay).
THEOREM OthersAreShown == SharedSpec /\ []ChannelsHold => []OthersShowStream
<1>1. SharedInit => HeardInv
  BY DEF SharedInit, HeardInv
<1>2. SharedInv /\ HeardInv /\ [SharedNext]_sharedVars /\ ChannelsHold' => HeardInv'
  BY HeardStep
<1>3. SharedInv /\ HeardInv => OthersShowStream
  BY HeardAtRest
<1> QED BY <1>1, <1>2, <1>3, SharedInvariant, PTL DEF SharedSpec
=============================================================================
