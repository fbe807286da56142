---------------------------- MODULE ReducerProofs ----------------------------
(***************************************************************************)
(* What holds of a reducer with any number of clients, whatever the        *)
(* threshold at which they compact.                                        *)
(***************************************************************************)
EXTENDS Reducer, RoomProofs

(***************************************************************************)
(* The Compactor.                                                          *)
(***************************************************************************)

\* An entry of the stream, of a value that clients push.
LEMMA EntryType ==
    ASSUME NEW entry \in SequenceValue, Value = ReducerValue
    PROVE  /\ entry.seq \in Nat
           /\ entry.value.type \in {"apply", "reset"}
           /\ entry.value.type = "apply" => entry.value.action \in 1 .. MaxDispatch
           /\ entry.value.type = "reset" => entry.value.state \in States
<1>1. entry.seq \in Nat /\ entry.value \in ReducerValue
  BY DEF SequenceValue
<1> QED BY <1>1 DEF ReducerValue

LEMMA OnSequenceValueType ==
    ASSUME NEW randId, NEW compactor \in Compactor, NEW entry \in SequenceValue, Value = ReducerValue
    PROVE  OnSequenceValue(randId, compactor, entry) \in Compactor
<1>1. /\ compactor.state \in States /\ compactor.lastConfirmedState \in States
      /\ compactor.lastConfirmedSeq \in Nat
  BY DEF Compactor
<1>2. CASE entry.seq <= compactor.lastConfirmedSeq
  BY <1>2 DEF OnSequenceValue
<1>3. CASE ~ (entry.seq <= compactor.lastConfirmedSeq) /\ entry.value.type = "reset"
  BY <1>3, EntryType DEF OnSequenceValue, Compactor
<1>4. CASE ~ (entry.seq <= compactor.lastConfirmedSeq) /\ entry.value.type # "reset"
  <2>1. entry.value.action \in 1 .. MaxDispatch /\ entry.seq \in Nat
    BY <1>4, EntryType
  <2>2. Reduce(compactor.lastConfirmedState, entry.value.action) \in States
    BY <1>1, <2>1, AppendProperties DEF Reduce, States
  <2> QED BY <1>1, <1>4, <2>1, <2>2 DEF OnSequenceValue, Compactor
<1> QED BY <1>2, <1>3, <1>4

\* A replay takes a Compactor from entry to entry.
Told(randId, compactor, data, told) ==
    /\ told \in [0 .. Len(data) -> Compactor]
    /\ told[0] = compactor
    /\ \A i \in 1 .. Len(data) : told[i] = OnSequenceValue(randId, told[i - 1], data[i])

LEMMA OnSequenceValuesFacts ==
    ASSUME NEW randId, NEW compactor \in Compactor, NEW data \in Seq(SequenceValue),
           Value = ReducerValue
    PROVE  \E told : /\ Told(randId, compactor, data, told)
                     /\ OnSequenceValues(randId, compactor, data) = told[Len(data)]
<1> DEFINE step == [i \in 1 .. Len(data) |->
                       [c \in Compactor |-> OnSequenceValue(randId, c, data[i])]]
           Solves(f) == f = [i \in 0 .. Len(data) |->
               IF i = 0 THEN compactor ELSE OnSequenceValue(randId, f[i - 1], data[i])]
<1>1. Len(data) \in Nat /\ \A i \in 1 .. Len(data) : data[i] \in SequenceValue
  BY LenProperties, ElementOfSeq
<1>2. step \in [1 .. Len(data) -> [Compactor -> Compactor]]
  BY <1>1, OnSequenceValueType
<1>3. \A i \in 1 .. Len(data), c \in Compactor : step[i][c] = OnSequenceValue(randId, c, data[i])
  OBVIOUS
<1> HIDE DEF step
<1>4. PICK f \in [0 .. Len(data) -> Compactor] : Recurs(f, Len(data), compactor, step)
  BY <1>1, <1>2, IntervalRecursion
<1>5. \A i \in 0 .. Len(data) :
          f[i] = IF i = 0 THEN compactor ELSE OnSequenceValue(randId, f[i - 1], data[i])
  <2> TAKE i \in 0 .. Len(data)
  <2>1. CASE i = 0
    BY <1>4, <2>1 DEF Recurs
  <2>2. CASE i # 0
    <3>1. i \in 1 .. Len(data) /\ f[i - 1] \in Compactor
      BY <1>1, <2>2
    <3>2. f[i] = step[i][f[i - 1]]
      BY <1>4, <3>1 DEF Recurs
    <3> QED BY <1>3, <2>2, <3>1, <3>2
  <2> QED BY <2>1, <2>2
<1>6. Solves(f)
  BY <1>5
<1>7. PICK told : Solves(told) /\ OnSequenceValues(randId, compactor, data) = told[Len(data)]
  BY <1>6 DEF OnSequenceValues
<1>8. \A i \in 1 .. Len(data) : told[i] = OnSequenceValue(randId, told[i - 1], data[i])
  BY <1>1, <1>7
<1>9. told[0] = compactor /\ told = [i \in 0 .. Len(data) |-> told[i]]
  BY <1>1, <1>7
<1>10. \A i \in 0 .. Len(data) : told[i] \in Compactor
  <2> DEFINE G == [i \in 0 .. Len(data) |-> Compactor]
  <2>1. told[0] \in G[0]
    BY <1>1, <1>9
  <2>2. \A i \in 1 .. Len(data) : told[i - 1] \in G[i - 1] => told[i] \in G[i]
    <3> TAKE i \in 1 .. Len(data)
    <3>1. i - 1 \in 0 .. Len(data) /\ i \in 0 .. Len(data)
      BY <1>1
    <3> QED BY <1>1, <1>8, <3>1, OnSequenceValueType
  <2> HIDE DEF G
  <2>3. \A i \in 0 .. Len(data) : told[i] \in G[i]
    BY <1>1, <2>1, <2>2, IntervalInduction
  <2> QED BY <2>3 DEF G
<1> HIDE DEF Solves
<1> QED BY <1>7, <1>8, <1>9, <1>10 DEF Told

LEMMA OnSequenceValuesType ==
    ASSUME NEW randId, NEW compactor \in Compactor, NEW data \in Seq(SequenceValue),
           Value = ReducerValue
    PROVE  OnSequenceValues(randId, compactor, data) \in Compactor
<1>1. PICK told : /\ Told(randId, compactor, data, told)
                  /\ OnSequenceValues(randId, compactor, data) = told[Len(data)]
  BY OnSequenceValuesFacts
<1>2. Len(data) \in 0 .. Len(data)
  BY LenProperties
<1> QED BY <1>1, <1>2 DEF Told

\* The snapshots that Compactors may push.
Snapshots(told) ==
    {CompactRequest(told[n]) : n \in {n \in DOMAIN told : told[n].lastConfirmedSeq # 0}}

LEMMA OnSizesFacts ==
    ASSUME NEW told \in Seq(Compactor), NEW size
    PROVE  OnSizes(told, size) \in Seq(Snapshots(told))
<1> DEFINE S == Seq(Snapshots(told))
           step == [n \in 1 .. Len(told) |-> [s \in S |-> s \o OnSize(told[n], size)]]
           Solves(f) == f = [n \in 0 .. Len(told) |->
                                IF n = 0 THEN <<>> ELSE f[n - 1] \o OnSize(told[n], size)]
<1>1. Len(told) \in Nat /\ DOMAIN told = 1 .. Len(told)
  BY LenProperties
<1>2. \A n \in 1 .. Len(told) : OnSize(told[n], size) \in S
  <2> TAKE n \in 1 .. Len(told)
  <2>1. told[n].lastConfirmedSeq # 0 => CompactRequest(told[n]) \in Snapshots(told)
    BY <1>1 DEF Snapshots
  <2>2. told[n].lastConfirmedSeq # 0 => <<CompactRequest(told[n])>> \in S
    BY <2>1
  <2> QED BY <2>2 DEF OnSize
<1>3. \A n \in 1 .. Len(told), s \in S : s \o OnSize(told[n], size) \in S
  BY <1>2, ConcatProperties
<1>4. <<>> \in S
  OBVIOUS
<1> HIDE DEF S
<1>5. step \in [1 .. Len(told) -> [S -> S]]
  BY <1>3
<1>6. \A n \in 1 .. Len(told), s \in S : step[n][s] = s \o OnSize(told[n], size)
  OBVIOUS
<1> HIDE DEF step
<1>7. PICK f \in [0 .. Len(told) -> S] : Recurs(f, Len(told), <<>>, step)
  BY <1>1, <1>4, <1>5, IntervalRecursion
<1>8. \A n \in 0 .. Len(told) :
          f[n] = IF n = 0 THEN <<>> ELSE f[n - 1] \o OnSize(told[n], size)
  <2> TAKE n \in 0 .. Len(told)
  <2>1. CASE n = 0
    BY <1>7, <2>1 DEF Recurs
  <2>2. CASE n # 0
    <3>1. n \in 1 .. Len(told) /\ f[n - 1] \in S
      BY <1>1, <2>2
    <3>2. f[n] = step[n][f[n - 1]]
      BY <1>7, <3>1 DEF Recurs
    <3> QED BY <1>6, <2>2, <3>1, <3>2
  <2> QED BY <2>1, <2>2
<1>9. Solves(f)
  BY <1>8
<1>10. PICK sent : Solves(sent) /\ OnSizes(told, size) = sent[Len(told)]
  BY <1>9 DEF OnSizes
<1>11. \A n \in 0 .. Len(told) : sent[n] \in S
  <2> DEFINE G == [n \in 0 .. Len(told) |-> S]
  <2>1. sent[0] \in G[0]
    BY <1>1, <1>4, <1>10
  <2>2. \A n \in 1 .. Len(told) : sent[n - 1] \in G[n - 1] => sent[n] \in G[n]
    <3> TAKE n \in 1 .. Len(told)
    <3>1. n - 1 \in 0 .. Len(told) /\ n \in 0 .. Len(told) /\ n # 0
      BY <1>1
    <3>2. sent[n] = sent[n - 1] \o OnSize(told[n], size)
      BY <1>10, <3>1
    <3> QED BY <1>3, <3>1, <3>2
  <2> HIDE DEF G
  <2>3. \A n \in 0 .. Len(told) : sent[n] \in G[n]
    BY <1>1, <2>1, <2>2, IntervalInduction
  <2> QED BY <2>3 DEF G
<1> QED BY <1>1, <1>10, <1>11 DEF S

-----------------------------------------------------------------------------
(***************************************************************************)
(* The invariant.  What is under way carries only numbers that the room    *)
(* has handed out: entries on their way to a client, hence what            *)
(* a Compactor has confirmed, hence the number of a snapshot.  The room    *)
(* and its streams are those of Room only because of that.                 *)
(***************************************************************************)

Sent(n) ==
    {GetRequest}
        \cup [type : {"push"}, action : [type : {"append"}],
              value : [type : {"apply"}, action : 1 .. MaxDispatch, i : RandIds]]
        \cup [type : {"push"}, action : [type : {"compact"}, seq : 1 .. n],
              value : [type : {"reset"}, state : States]]

Delivered(n) ==
    {message \in Message :
        /\ message.type = "push" => message.seq <= n
        /\ message.type = "init" => \A entry \in Range(message.data) : entry.seq <= n}

Confirmed(n) == {compactor \in Compactor : compactor.lastConfirmedSeq <= n}

ReducerInv ==
    /\ RoomTypeOK
    /\ StreamsSorted
    /\ debug_connections = {}
    /\ up \in [Conn -> Seq(Sent(sequence_number))]
    /\ inbox \in [Conn -> Seq(Delivered(sequence_number))]
    /\ compactors \in [Conn -> Seq(Confirmed(sequence_number))]
    /\ dispatched \in 0 .. MaxDispatch
    /\ history \in Seq([seq : Nat, action : 1 .. MaxDispatch])

LEMMA SeqMonotone ==
    ASSUME NEW S, NEW T, S \subseteq T
    PROVE  Seq(S) \subseteq Seq(T)
<1> SUFFICES ASSUME NEW s \in Seq(S)
             PROVE  s \in Seq(T)
  OBVIOUS
<1>1. \A i \in 1 .. Len(s) : s[i] \in T
  BY ElementOfSeq
<1>2. Len(s) \in Nat /\ s = [i \in 1 .. Len(s) |-> s[i]]
  BY LenProperties, SeqDef
<1> QED BY <1>1, <1>2, IsASeq

\* The more numbers, the more.
LEMMA Monotone ==
    ASSUME NEW n \in Nat, NEW m \in Nat, n <= m
    PROVE  /\ Seq(Sent(n)) \subseteq Seq(Sent(m))
           /\ Seq(Delivered(n)) \subseteq Seq(Delivered(m))
           /\ Seq(Confirmed(n)) \subseteq Seq(Confirmed(m))
<1>1. Sent(n) \subseteq Sent(m)
  <2>1. 1 .. n \subseteq 1 .. m
    OBVIOUS
  <2> QED BY <2>1 DEF Sent
<1>2. Delivered(n) \subseteq Delivered(m)
  <2> SUFFICES ASSUME NEW message \in Delivered(n)
               PROVE  message \in Delivered(m)
    OBVIOUS
  <2>1. message \in Message
    BY DEF Delivered
  <2>2. ASSUME message.type = "push"
        PROVE  message.seq <= m
    <3>1. message.seq \in Nat /\ message.seq <= n
      BY <2>1, <2>2 DEF Delivered, Message, PongMessage
    <3> QED BY <3>1
  <2>3. ASSUME message.type = "init", NEW entry \in Range(message.data)
        PROVE  entry.seq <= m
    <3>1. message.data \in Seq(SequenceValue)
      BY <2>1, <2>3 DEF Message, PongMessage
    <3>2. entry \in SequenceValue
      BY <2>3, <3>1, ElementOfSeq, LenProperties DEF Range
    <3>3. entry.seq \in Nat /\ entry.seq <= n
      BY <2>3, <3>2 DEF Delivered, SequenceValue
    <3> QED BY <3>3
  <2> QED BY <2>1, <2>2, <2>3 DEF Delivered
<1>3. Confirmed(n) \subseteq Confirmed(m)
  BY DEF Confirmed, Compactor
<1> QED BY <1>1, <1>2, <1>3, SeqMonotone

\* The parts of the invariant that a step leaves alone hold after it.
LEMMA SentKept ==
    ASSUME ReducerInv, StoreTypeOK', sequence_number <= sequence_number'
    PROVE  /\ up \in [Conn -> Seq(Sent(sequence_number'))]
           /\ inbox \in [Conn -> Seq(Delivered(sequence_number'))]
           /\ compactors \in [Conn -> Seq(Confirmed(sequence_number'))]
<1>1. sequence_number \in Nat /\ sequence_number' \in Nat
  BY DEF ReducerInv, RoomTypeOK, StoreTypeOK
<1> QED BY <1>1, Monotone DEF ReducerInv

LEMMA ReducerInvInit == ReducerInit => ReducerInv
<1> SUFFICES ASSUME ReducerInit
             PROVE  ReducerInv
  OBVIOUS
<1>1. RoomTypeOK
  BY RoomTypeInit DEF ReducerInit
<1>2. StreamsSorted
  <2>1. Range(<<>>) = {} /\ Increasing(<<>>)
    BY DEF Range, Increasing
  <2> QED BY <2>1 DEF ReducerInit, RoomInit, StoreInit, StreamsSorted, Sorted
<1>3. dispatched \in 0 .. MaxDispatch
  BY MaxDispatchAssumption DEF ReducerInit
<1>4. history \in Seq([seq : Nat, action : 1 .. MaxDispatch])
  BY DEF ReducerInit
<1> QED BY <1>1, <1>2, <1>3, <1>4 DEF ReducerInit, RoomInit, ReducerInv

-----------------------------------------------------------------------------
(***************************************************************************)
(* The room's part in a step.                                              *)
(***************************************************************************)

LEMMA SentFacts ==
    ASSUME NEW n \in Nat, NEW request \in Sent(n), Value = ReducerValue, ~RawCompaction
    PROVE  /\ request.type \in {"get", "push"}
           /\ request.type = "get" => request = GetRequest
           /\ request.type = "push" =>
                 /\ request.value \in Value
                 /\ request.action \in ClientAction(n)
                 /\ request.action.type # "compact" =>
                       /\ request.action = [type |-> "append"]
                       /\ request.value.action \in 1 .. MaxDispatch
<1>1. CASE request = GetRequest
  BY <1>1 DEF GetRequest
<1>2. CASE request \in [type : {"push"}, action : [type : {"append"}],
                        value : [type : {"apply"}, action : 1 .. MaxDispatch, i : RandIds]]
  BY <1>2 DEF ClientAction, ReducerValue
<1>3. CASE request \in [type : {"push"}, action : [type : {"compact"}, seq : 1 .. n],
                        value : [type : {"reset"}, state : States]]
  BY <1>3 DEF ClientAction, ReducerValue
<1> QED BY <1>1, <1>2, <1>3 DEF Sent

LEMMA HeadOfUp ==
    ASSUME ReducerInv, NEW client \in Conn, up[client] # <<>>
    PROVE  /\ Head(up[client]) \in Sent(sequence_number)
           /\ Tail(up[client]) \in Seq(Sent(sequence_number))
<1>1. up[client] \in Seq(Sent(sequence_number))
  BY DEF ReducerInv
<1> QED BY <1>1, HeadTailProperties

\* What the server does with a request, the room does.
LEMMA ServeIsRoomStep ==
    ASSUME ReducerInv, NEW client \in Conn, Serve(client), Value = ReducerValue, ~RawCompaction
    PROVE  RoomNext /\ [StoreNext]_storeVars
<1> DEFINE request == Head(up[client])
<1>1. request \in Sent(sequence_number) /\ sequence_number \in Nat
  BY HeadOfUp DEF Serve, ReducerInv, RoomTypeOK, StoreTypeOK
<1> HIDE DEF request
<1>2. CASE request.type = "get"
  <2>1. Get(client, ReducerKey, 0)
    BY <1>1, <1>2, SentFacts DEF Serve, GetRequest, request
  <2>2. 0 \in {NoSeq} \cup 0 .. sequence_number
    BY <1>1
  <2> QED BY <2>1, <2>2, ReducerKeyAssumption DEF RoomNext, Get
<1>3. CASE request.type = "push"
  <2>1. Push(client, ReducerKey, request.value, request.action)
    BY <1>3 DEF Serve, request
  <2>2. request.value \in Value /\ request.action \in ClientAction(sequence_number)
    BY <1>1, <1>3, SentFacts
  <2> QED BY <2>1, <2>2, ReducerKeyAssumption DEF RoomNext, Push, StoreNext
<1> QED BY <1>1, <1>2, <1>3, SentFacts

\* What a push hands to one connection, none being a debug connection: copies of the
\* broadcast if it has subscribed, and the size if it is the sender.
LEMMA ReducerDeliveries ==
    ASSUME RoomTypeOK, debug_connections = {}, NEW conn \in Conn, NEW sender \in Conn, NEW key \in Key,
           NEW value \in Value, NEW action \in ClientAction(sequence_number),
           NEW stream \in Seq(SequenceValue)
    PROVE  LET message == PushMessage(key, [value |-> value, seq |-> Stamp(action)])
               size    == StreamSizeMessage(key, Len(stream))
               hears   == Broadcasts(action) /\ Live(conn) /\ subscriptions[key][conn] > 0
               new     == PushDeliveries(conn, sender, key, value, action, stream)
           IN  /\ new \in Seq(Message)
               /\ \A i \in 1 .. Len(new) :
                     (new[i] = size /\ conn = sender) \/ (new[i] = message /\ hears)
               /\ hears => Len(new) > 0 /\ new[1] = message
<1> DEFINE message == PushMessage(key, [value |-> value, seq |-> Stamp(action)])
           size    == StreamSizeMessage(key, Len(stream))
           hears   == Broadcasts(action) /\ Live(conn) /\ subscriptions[key][conn] > 0
           copies  == IF Broadcasts(action) THEN Copies(subscriptions[key][conn], message) ELSE <<>>
           answer  == IF conn = sender /\ Len(stream) > 1 THEN <<size>> ELSE <<>>
           new     == PushDeliveries(conn, sender, key, value, action, stream)
<1>1. new \in Seq(Message)
  BY PushDeliveriesFacts
<1>2. message \in Message /\ size \in Message
  <2>1. message \in Message
    BY ClientActionType DEF PushMessage, Message, Stamp, RoomTypeOK, StoreTypeOK
  <2>2. size \in Message
    BY LenProperties DEF StreamSizeMessage, Message
  <2> QED BY <2>1, <2>2
<1> HIDE DEF message, size
<1>3. /\ copies \in Seq(Message)
      /\ Len(copies) = IF Broadcasts(action) THEN subscriptions[key][conn] ELSE 0
      /\ \A i \in 1 .. Len(copies) : copies[i] = message
  <2>1. subscriptions[key][conn] \in Nat
    BY DEF RoomTypeOK
  <2> DEFINE c == Copies(subscriptions[key][conn], message)
  <2>2. c \in Seq(Message) /\ Len(c) = subscriptions[key][conn] /\ \A i \in 1 .. Len(c) : c[i] = message
    BY <1>2, <2>1, IsASeq DEF Copies
  <2> HIDE DEF c
  <2>3. copies = IF Broadcasts(action) THEN c ELSE <<>>
    BY DEF c
  <2> QED BY <2>2, <2>3
<1>4. answer \in Seq(Message) /\ \A i \in 1 .. Len(answer) : answer[i] = size /\ conn = sender
  BY <1>2
<1>5. new = IF Live(conn) THEN copies \o answer ELSE <<>>
  <2>1. new = IF Live(conn) THEN <<>> \o copies \o answer ELSE <<>>
    BY DEF PushDeliveries, message, size
  <2>2. <<>> \o copies = copies
    BY <1>3, ConcatEmptySeq
  <2> QED BY <2>1, <2>2
<1> HIDE DEF copies, answer, new
<1>6. /\ Len(copies \o answer) = Len(copies) + Len(answer)
      /\ Len(copies) \in Nat /\ Len(answer) \in Nat
      /\ \A i \in 1 .. Len(copies) + Len(answer) :
            (copies \o answer)[i] = IF i <= Len(copies) THEN copies[i] ELSE answer[i - Len(copies)]
  BY <1>3, <1>4, ConcatProperties, LenProperties
<1>7. subscriptions[key][conn] \in Nat
  BY DEF RoomTypeOK
<1>8. ASSUME NEW i \in 1 .. Len(new)
      PROVE  (new[i] = size /\ conn = sender) \/ (new[i] = message /\ hears)
  <2>1. Live(conn) /\ new = copies \o answer
    BY <1>5
  <2>2. CASE i <= Len(copies)
    BY <1>3, <1>6, <1>7, <2>1, <2>2
  <2>3. CASE ~ (i <= Len(copies))
    <3>1. i - Len(copies) \in 1 .. Len(answer) /\ new[i] = answer[i - Len(copies)]
      BY <1>6, <2>1, <2>3
    <3> QED BY <1>4, <3>1
  <2> QED BY <2>2, <2>3
<1>9. ASSUME hears
      PROVE  Len(new) > 0 /\ new[1] = message
  <2>1. new = copies \o answer /\ Len(copies) > 0
    BY <1>3, <1>5, <1>9
  <2> QED BY <1>3, <1>6, <2>1
<1> QED BY <1>1, <1>8, <1>9 DEF new, message, size

LEMMA OfferKeeps ==
    ASSUME NEW S, NEW queue \in Seq(S), NEW messages \in Seq(S)
    PROVE  Offer(queue, messages) \in Seq(S)
<1> DEFINE all == queue \o messages
<1>1. all \in Seq(S) /\ Len(all) \in Nat
  BY ConcatProperties, LenProperties
<1> HIDE DEF all
<1>2. CASE Len(all) <= Capacity
  BY <1>1, <1>2 DEF Offer, all
<1>3. CASE ~(Len(all) <= Capacity)
  <2>1. Offer(queue, messages) = SubSeq(all, 1, Capacity)
    BY <1>3 DEF Offer, all
  <2>2. Capacity \in Nat /\ Capacity < Len(all)
    BY <1>1, <1>3, CapacityAssumption
  <2>3. SubSeq(all, 1, Capacity) \in Seq(S)
    BY <1>1, <2>2, SubSeqProperties
  <2> QED BY <2>1, <2>3
<1> QED BY <1>2, <1>3

\* A step of the room keeps what is the room's.
LEMMA RoomKept ==
    ASSUME ReducerInv, [RoomNext]_roomVars, [StoreNext]_storeVars, ~RawCompaction
    PROVE  StoreTypeOK' /\ RoomTypeOK' /\ StreamsSorted' /\ sequence_number <= sequence_number'
<1>1. StoreTypeOK /\ StreamsSorted
  BY DEF ReducerInv, RoomTypeOK
<1>2. StoreTypeOK' /\ StreamsSorted'
  BY <1>1, StoreTypeStep, SortedStep
<1>3. RoomTypeOK'
  BY <1>2, RoomTypeStep DEF ReducerInv
<1>4. sequence_number <= sequence_number'
  <2>1. CASE UNCHANGED storeVars
    BY <1>1, <2>1 DEF storeVars, StoreTypeOK
  <2>2. CASE StoreNext
    BY <1>1, <2>2 DEF StoreNext, ApplyAction, SequenceAfter, StoreTypeOK
  <2> QED BY <2>1, <2>2
<1> QED BY <1>2, <1>3, <1>4

-----------------------------------------------------------------------------
(***************************************************************************)
(* The steps.                                                              *)
(***************************************************************************)

LEMMA SubscribeKeeps ==
    ASSUME ReducerInv, NEW client \in Conn, Subscribe(client), ~RawCompaction
    PROVE  ReducerInv'
<1>1. [RoomNext]_roomVars /\ UNCHANGED storeVars
  BY DEF Subscribe, Connect, RoomNext, roomVars
<1>2. StoreTypeOK' /\ RoomTypeOK' /\ StreamsSorted' /\ sequence_number <= sequence_number'
  BY <1>1, RoomKept
<1>3. UNCHANGED <<sequence_number, debug_connections, inbox>>
  BY DEF Subscribe, Connect, roomVars, storeVars, connVars
<1>4. sequence_number \in Nat
  BY DEF ReducerInv, RoomTypeOK, StoreTypeOK
<1>5. InitialCompactor \in Confirmed(sequence_number)
  <2>1. <<>> \in States
    BY DEF States
  <2> QED BY <1>4, <2>1 DEF InitialCompactor, Compactor, Confirmed
<1>6. compactors' \in [Conn -> Seq(Confirmed(sequence_number))]
  <2> DEFINE C == Confirmed(sequence_number)
  <2>1. compactors \in [Conn -> Seq(C)] /\ InitialCompactor \in C
    BY <1>5 DEF ReducerInv
  <2> HIDE DEF C
  <2>2. Append(compactors[client], InitialCompactor) \in Seq(C)
    BY <2>1, AppendProperties
  <2>3. compactors' \in [Conn -> Seq(C)]
    BY <2>1, <2>2 DEF Subscribe
  <2> QED BY <2>3 DEF C
<1>7. up' \in [Conn -> Seq(Sent(sequence_number))]
  <2> DEFINE U == Sent(sequence_number)
  <2>1. up \in [Conn -> Seq(U)] /\ GetRequest \in U
    BY DEF ReducerInv, Sent
  <2> HIDE DEF U
  <2>2. Append(up[client], GetRequest) \in Seq(U)
    BY <2>1, AppendProperties
  <2>3. up' \in [Conn -> Seq(U)]
    BY <2>1, <2>2 DEF Subscribe
  <2> QED BY <2>3 DEF U
<1>8. UNCHANGED <<dispatched, history>>
  BY DEF Subscribe
<1> QED BY <1>2, <1>3, <1>6, <1>7, <1>8 DEF ReducerInv

LEMMA LeaveKeeps ==
    ASSUME ReducerInv, NEW client \in Conn, Leave(client), ~RawCompaction
    PROVE  ReducerInv'
<1>1. [RoomNext]_roomVars /\ UNCHANGED storeVars
  BY DEF Leave, Drop, RoomNext
<1>2. StoreTypeOK' /\ RoomTypeOK' /\ StreamsSorted' /\ sequence_number <= sequence_number'
  BY <1>1, RoomKept
<1>3. /\ inbox' \in [Conn -> Seq(Delivered(sequence_number))]
      /\ up' \in [Conn -> Seq(Sent(sequence_number))]
      /\ compactors' \in [Conn -> Seq(Confirmed(sequence_number))]
  BY EmptySeq DEF Leave, Drop, ReducerInv
<1>4. UNCHANGED <<sequence_number, debug_connections, dispatched, history>>
  BY DEF Leave, Drop, storeVars
<1> QED BY <1>2, <1>3, <1>4 DEF ReducerInv

LEMMA DispatchKeeps ==
    ASSUME ReducerInv, NEW client \in Conn, NEW n \in 1 .. MaxMounts[client], Dispatch(client, n),
           Value = ReducerValue, ~RawCompaction
    PROVE  ReducerInv'
<1>1. UNCHANGED roomVars /\ UNCHANGED storeVars
  BY DEF Dispatch, roomVars
<1>2. StoreTypeOK' /\ RoomTypeOK' /\ StreamsSorted'
  BY <1>1, RoomKept
<1>3. UNCHANGED <<sequence_number, debug_connections, inbox, history>>
  BY DEF Dispatch, roomVars, storeVars, connVars
<1>4. dispatched' \in 1 .. MaxDispatch
  BY MaxDispatchAssumption DEF Dispatch, ReducerInv
<1>5. up' \in [Conn -> Seq(Sent(sequence_number))]
  <2> DEFINE U == Sent(sequence_number)
             request == AppendRequest(RandId(client, n), dispatched')
  <2>1. up \in [Conn -> Seq(U)]
    BY DEF ReducerInv
  <2>2. RandId(client, n) \in RandIds
    BY DEF RandIds
  <2>3. request \in U
    BY <1>4, <2>2 DEF AppendRequest, Sent
  <2> HIDE DEF U, request
  <2>4. Append(up[client], request) \in Seq(U)
    BY <2>1, <2>3, AppendProperties
  <2>5. up' = [up EXCEPT ![client] = Append(@, request)]
    BY DEF Dispatch, request
  <2>6. up' \in [Conn -> Seq(U)]
    BY <2>1, <2>4, <2>5
  <2> QED BY <2>6 DEF U
<1>6. compactors' \in [Conn -> Seq(Confirmed(sequence_number))]
  <2> DEFINE C == Confirmed(sequence_number)
             told == compactors[client]
             after == [told[n] EXCEPT !.state = Reduce(@, dispatched')]
  <2>1. compactors \in [Conn -> Seq(C)]
    BY DEF ReducerInv
  <2>2. n \in 1 .. Len(told) /\ told \in Seq(C)
    BY <2>1, LenProperties DEF Dispatch
  <2>3. told[n] \in C
    BY <2>2, ElementOfSeq
  <2>4. after \in C
    <3>1. told[n] \in Compactor /\ told[n].lastConfirmedSeq <= sequence_number
      BY <2>3 DEF Confirmed
    <3>2. Reduce(told[n].state, dispatched') \in States
      <4>1. told[n].state \in Seq(1 .. MaxDispatch)
        BY <3>1 DEF Compactor, States
      <4> QED BY <1>4, <4>1, AppendProperties DEF Reduce, States
    <3> QED BY <3>1, <3>2 DEF Confirmed, Compactor
  <2> HIDE DEF C, after
  <2>5. [told EXCEPT ![n] = after] \in Seq(C)
    BY <2>2, <2>4, ExceptSeq
  <2>6. compactors' = compactors \/ compactors' = [compactors EXCEPT ![client] = [told EXCEPT ![n] = after]]
    BY <2>1 DEF Dispatch, after
  <2>7. compactors' \in [Conn -> Seq(C)]
    BY <2>1, <2>5, <2>6
  <2> QED BY <2>7 DEF C
<1>7. dispatched' \in 0 .. MaxDispatch
  BY <1>4
<1> QED BY <1>2, <1>3, <1>5, <1>6, <1>7 DEF ReducerInv

\* What the server answers carries numbers it has handed out.
LEMMA GetDelivers ==
    ASSUME ReducerInv, NEW key \in Key
    PROVE  InitMessage(key, Read(key, 0)) \in Delivered(sequence_number)
<1>1. /\ subjects[key] \in Seq(SequenceValue) /\ Sorted(subjects[key], sequence_number)
      /\ sequence_number \in Nat
  BY DEF ReducerInv, RoomTypeOK, StoreTypeOK, StreamsSorted
<1>2. Read(key, 0) \in Seq(SequenceValue)
  BY <1>1, RetainAfterFacts DEF Read
<1>3. \A entry \in Range(Read(key, 0)) : entry.seq <= sequence_number
  <2>1. Range(Read(key, 0)) = {entry \in Range(subjects[key]) : entry.seq > 0}
    BY <1>1, RetainAfterFacts DEF Read
  <2>2. \A entry \in Range(subjects[key]) : entry.seq \in 1 .. sequence_number
    BY <1>1 DEF Sorted
  <2> HIDE DEF Read
  <2> QED BY <1>1, <2>1, <2>2
<1> HIDE DEF Read
<1> QED BY <1>2, <1>3 DEF InitMessage, Message, Delivered

LEMMA PushDelivers ==
    ASSUME ReducerInv, NEW conn \in Conn, NEW sender \in Conn, NEW key \in Key,
           NEW value \in Value, NEW action \in ClientAction(sequence_number),
           NEW stream \in Seq(SequenceValue)
    PROVE  PushDeliveries(conn, sender, key, value, action, stream)
               \in Seq(Delivered(SequenceAfter(action, sequence_number)))
<1> DEFINE message == PushMessage(key, [value |-> value, seq |-> Stamp(action)])
           size    == StreamSizeMessage(key, Len(stream))
           hears   == Broadcasts(action) /\ Live(conn) /\ subscriptions[key][conn] > 0
           new     == PushDeliveries(conn, sender, key, value, action, stream)
           D       == Delivered(SequenceAfter(action, sequence_number))
<1>1. new \in Seq(Message) /\ \A i \in 1 .. Len(new) : new[i] = size \/ (new[i] = message /\ hears)
  BY ReducerDeliveries DEF ReducerInv
<1>2. ASSUME hears, message \in Message
      PROVE  message \in D
  <2>1. Stamp(action) = SequenceAfter(action, sequence_number)
    BY <1>2 DEF Broadcasts, Stamp, StampOf, SequenceAfter
  <2>2. Stamp(action) \in Nat
    BY ClientActionType DEF Stamp, ReducerInv, RoomTypeOK, StoreTypeOK
  <2> QED BY <1>2, <2>1, <2>2 DEF PushMessage, Delivered
<1>3. size \in Message => size \in D
  BY DEF StreamSizeMessage, Delivered
<1> HIDE DEF message, size, hears, new, D
<1>4. \A i \in 1 .. Len(new) : new[i] \in Message
  BY <1>1, ElementOfSeq
<1>5. \A i \in 1 .. Len(new) : new[i] \in D
  BY <1>1, <1>2, <1>3, <1>4
<1>6. Len(new) \in Nat /\ new = [i \in 1 .. Len(new) |-> new[i]]
  BY <1>1, LenProperties, SeqDef
<1>7. new \in Seq(D)
  BY <1>5, <1>6, IsASeq
<1> QED BY <1>7 DEF new, D

LEMMA ServeKeeps ==
    ASSUME ReducerInv, NEW client \in Conn, Serve(client), Value = ReducerValue, ~RawCompaction
    PROVE  ReducerInv'
<1> DEFINE request == Head(up[client])
           D == Delivered(sequence_number')
<1>1. StoreTypeOK' /\ RoomTypeOK' /\ StreamsSorted' /\ sequence_number <= sequence_number'
  BY ServeIsRoomStep, RoomKept
<1>2. /\ up \in [Conn -> Seq(Sent(sequence_number'))]
      /\ inbox \in [Conn -> Seq(D)]
      /\ compactors \in [Conn -> Seq(Confirmed(sequence_number'))]
  BY <1>1, SentKept
<1>3. request \in Sent(sequence_number) /\ sequence_number \in Nat
  BY HeadOfUp DEF Serve, ReducerInv, RoomTypeOK, StoreTypeOK
<1>4. up' \in [Conn -> Seq(Sent(sequence_number'))]
  <2> DEFINE U == Sent(sequence_number')
  <2>1. up \in [Conn -> Seq(U)] /\ up[client] # <<>>
    BY <1>2 DEF Serve
  <2> HIDE DEF U
  <2>2. Tail(up[client]) \in Seq(U)
    BY <2>1, HeadTailProperties
  <2>3. up' \in [Conn -> Seq(U)]
    BY <2>1, <2>2 DEF Serve
  <2> QED BY <2>3 DEF U
<1>5. compactors' = compactors /\ dispatched' = dispatched
  BY DEF Serve
<1> HIDE DEF request
<1>6. CASE request.type = "get"
  <2>1. Get(client, ReducerKey, 0) /\ history' = history
    BY <1>3, <1>6, SentFacts DEF Serve, GetRequest, request
  <2>2. /\ UNCHANGED <<sequence_number, debug_connections>>
        /\ inbox' = [inbox EXCEPT ![client] = Offer(@, <<InitMessage(ReducerKey, Read(ReducerKey, 0))>>)]
    BY <2>1, NoSeqAssumption DEF Get, storeVars
  <2>3. InitMessage(ReducerKey, Read(ReducerKey, 0)) \in D
    BY <2>2, GetDelivers, ReducerKeyAssumption
  <2> HIDE DEF D
  <2>4. Offer(inbox[client], <<InitMessage(ReducerKey, Read(ReducerKey, 0))>>) \in Seq(D)
    <3>1. <<InitMessage(ReducerKey, Read(ReducerKey, 0))>> \in Seq(D) /\ inbox[client] \in Seq(D)
      BY <1>2, <2>3
    <3> QED BY <3>1, OfferKeeps
  <2>5. inbox' \in [Conn -> Seq(D)]
    BY <1>2, <2>2, <2>4
  <2> QED BY <1>1, <1>2, <1>4, <1>5, <2>1, <2>2, <2>5 DEF ReducerInv, D
<1>7. CASE request.type = "push"
  <2>1. /\ Push(client, ReducerKey, request.value, request.action)
        /\ history' = IF request.action.type = "compact" THEN history
                      ELSE Append(history, [seq    |-> Stamp(request.action),
                                            action |-> request.value.action])
    BY <1>7 DEF Serve, request
  <2>2. /\ request.value \in Value /\ request.action \in ClientAction(sequence_number)
        /\ request.action.type # "compact" => request.value.action \in 1 .. MaxDispatch
    BY <1>3, <1>7, SentFacts
  <2>3. sequence_number' = SequenceAfter(request.action, sequence_number)
    BY <2>1 DEF Push, ApplyAction
  <2>4. subjects'[ReducerKey] \in Seq(SequenceValue)
    BY <1>1, ReducerKeyAssumption DEF StoreTypeOK
  <2>5. ASSUME NEW conn \in Conn
        PROVE  inbox'[conn] \in Seq(D)
    <3> DEFINE new == PushDeliveries(conn, client, ReducerKey, request.value, request.action,
                                     subjects'[ReducerKey])
    <3>1. new \in Seq(D)
      BY <2>2, <2>3, <2>4, PushDelivers, ReducerKeyAssumption
    <3>2. inbox'[conn] = Offer(inbox[conn], new)
      BY <2>1 DEF Push
    <3> HIDE DEF D, new
    <3> QED BY <1>2, <3>1, <3>2, OfferKeeps
  <2>6. inbox' \in [Conn -> Seq(D)]
    <3> HIDE DEF D
    <3> QED BY <2>1, <2>5 DEF Push
  <2>7. debug_connections' = {}
    BY <2>1 DEF Push, ReducerInv
  <2>8. history' \in Seq([seq : Nat, action : 1 .. MaxDispatch])
    <3> DEFINE H == [seq : Nat, action : 1 .. MaxDispatch]
               broadcast == [seq |-> Stamp(request.action), action |-> request.value.action]
    <3>1. history \in Seq(H)
      BY DEF ReducerInv
    <3>2. request.action.type # "compact" => broadcast \in H
      BY <1>3, <2>2, ClientActionType DEF Stamp
    <3> HIDE DEF H
    <3>3. request.action.type # "compact" => Append(history, broadcast) \in Seq(H)
      BY <3>1, <3>2, AppendProperties
    <3>4. history' \in Seq(H)
      BY <2>1, <3>1, <3>3
    <3> QED BY <3>4 DEF H
  <2> QED BY <1>1, <1>2, <1>4, <1>5, <2>6, <2>7, <2>8 DEF ReducerInv
<1> QED BY <1>3, <1>6, <1>7, SentFacts

\* A Compactor confirms no number but those it is told of.
LEMMA OnSequenceValuesConfirmed ==
    ASSUME NEW randId, NEW n \in Nat, NEW compactor \in Confirmed(n), NEW data \in Seq(SequenceValue),
           \A entry \in Range(data) : entry.seq <= n, Value = ReducerValue
    PROVE  OnSequenceValues(randId, compactor, data) \in Confirmed(n)
<1>1. compactor \in Compactor /\ compactor.lastConfirmedSeq <= n
  BY DEF Confirmed
<1>2. PICK told : /\ Told(randId, compactor, data, told)
                  /\ OnSequenceValues(randId, compactor, data) = told[Len(data)]
  BY <1>1, OnSequenceValuesFacts
<1>3. Len(data) \in Nat /\ \A i \in 1 .. Len(data) : data[i] \in SequenceValue /\ data[i].seq <= n
  BY LenProperties, ElementOfSeq DEF Range
<1> DEFINE G == [i \in 0 .. Len(data) |-> Confirmed(n)]
<1>4. told[0] \in G[0]
  BY <1>2, <1>3 DEF Told
<1>5. \A i \in 1 .. Len(data) : told[i - 1] \in G[i - 1] => told[i] \in G[i]
  <2> SUFFICES ASSUME NEW i \in 1 .. Len(data), told[i - 1] \in Confirmed(n)
               PROVE  told[i] \in Confirmed(n)
    BY <1>3
  <2>1. told[i - 1] \in Compactor /\ told[i - 1].lastConfirmedSeq <= n
    BY DEF Confirmed
  <2>2. told[i] = OnSequenceValue(randId, told[i - 1], data[i]) /\ told[i] \in Compactor
    BY <1>2, <1>3, <2>1, OnSequenceValueType DEF Told
  <2>3. OnSequenceValue(randId, told[i - 1], data[i]).lastConfirmedSeq
            \in {told[i - 1].lastConfirmedSeq, data[i].seq}
    BY DEF OnSequenceValue
  <2> QED BY <1>3, <2>1, <2>2, <2>3 DEF Confirmed
<1> HIDE DEF G
<1>6. \A i \in 0 .. Len(data) : told[i] \in G[i]
  BY <1>3, <1>4, <1>5, IntervalInduction
<1> QED BY <1>2, <1>3, <1>6 DEF G

LEMMA ReceiveKeeps ==
    ASSUME ReducerInv, NEW client \in Conn, Receive(client), Value = ReducerValue
    PROVE  ReducerInv'
<1> DEFINE message == Head(inbox[client])
           N == sequence_number
           Tell(entries) ==
               compactors' = [compactors EXCEPT ![client] = [n \in DOMAIN @ |->
                                 OnSequenceValues(RandId(client, n), @[n], entries)]]
<1>1. /\ N \in Nat
      /\ inbox[client] \in Seq(Delivered(N)) /\ inbox[client] # <<>>
      /\ compactors[client] \in Seq(Confirmed(N))
      /\ up[client] \in Seq(Sent(N))
  BY DEF Receive, ReducerInv, RoomTypeOK, StoreTypeOK
<1>2. message \in Delivered(N) /\ Tail(inbox[client]) \in Seq(Delivered(N))
  BY <1>1, HeadTailProperties
<1>3. inbox' \in [Conn -> Seq(Delivered(N))]
  BY <1>2 DEF Receive, ReducerInv
<1>4. UNCHANGED <<storeVars, status, subscriptions, debug_connections, dispatched, history>>
  BY DEF Receive
<1>5. RoomTypeOK'
  <2>1. inbox[client] \in Seq(Message)
    BY DEF ReducerInv, RoomTypeOK
  <2>2. Tail(inbox[client]) \in Seq(Message) /\ Len(Tail(inbox[client])) = Len(inbox[client]) - 1
    BY <1>1, <2>1, HeadTailProperties
  <2>3. Len(inbox[client]) <= Capacity /\ Len(inbox[client]) \in Nat
    BY <2>1, LenProperties DEF ReducerInv, RoomTypeOK
  <2>4. Len(Tail(inbox[client])) <= Capacity
    BY <2>2, <2>3, CapacityAssumption
  <2>5. inbox' = [inbox EXCEPT ![client] = Tail(@)]
    BY DEF Receive
  <2> QED BY <1>4, <2>2, <2>4, <2>5 DEF ReducerInv, RoomTypeOK, StoreTypeOK, storeVars
<1>6. StreamsSorted' /\ sequence_number' = N
  BY <1>4 DEF ReducerInv, storeVars, StreamsSorted
<1>7. ASSUME NEW entries \in Seq(SequenceValue), \A entry \in Range(entries) : entry.seq <= N,
             Tell(entries)
      PROVE  compactors' \in [Conn -> Seq(Confirmed(N))]
  <2> DEFINE C == Confirmed(N)
             told == compactors[client]
             after == [n \in 1 .. Len(told) |-> OnSequenceValues(RandId(client, n), told[n], entries)]
  <2>1. Len(told) \in Nat /\ DOMAIN told = 1 .. Len(told) /\ \A n \in 1 .. Len(told) : told[n] \in C
    BY <1>1, LenProperties, ElementOfSeq
  <2>2. \A n \in 1 .. Len(told) : OnSequenceValues(RandId(client, n), told[n], entries) \in C
    BY <1>1, <1>7, <2>1, OnSequenceValuesConfirmed
  <2>3. compactors \in [Conn -> Seq(C)]
    BY DEF ReducerInv
  <2> HIDE DEF C
  <2>4. after \in Seq(C)
    BY <2>1, <2>2, IsASeq
  <2>5. compactors' = [compactors EXCEPT ![client] = after]
    BY <1>7, <2>1
  <2> HIDE DEF after
  <2>6. compactors' \in [Conn -> Seq(C)]
    BY <2>3, <2>4, <2>5
  <2> QED BY <2>6 DEF C
<1> HIDE DEF Tell, message
<1>8. CASE message.type = "push"
  <2>1. Tell(<<EntryOf(message)>>) /\ up' = up
    BY <1>8 DEF Receive, Tell, message
  <2>2. message \in [type : {"push"}, key : Key, value : Value, seq : Nat] /\ message.seq <= N
    BY <1>2, <1>8 DEF Delivered, Message, PongMessage
  <2>3. EntryOf(message) \in SequenceValue /\ EntryOf(message).seq <= N
    BY <2>2 DEF EntryOf, SequenceValue
  <2> DEFINE entry == EntryOf(message)
  <2> HIDE DEF entry
  <2>4. <<entry>> \in Seq(SequenceValue) /\ Range(<<entry>>) = {entry}
    BY <2>3 DEF Range, entry
  <2>5. compactors' \in [Conn -> Seq(Confirmed(N))]
    BY <1>7, <2>1, <2>3, <2>4 DEF entry
  <2> QED BY <1>3, <1>4, <1>5, <1>6, <2>1, <2>5 DEF ReducerInv
<1>9. CASE message.type = "init"
  <2>1. Tell(message.data) /\ up' = up
    BY <1>9 DEF Receive, Tell, message
  <2>2. message.data \in Seq(SequenceValue) /\ \A entry \in Range(message.data) : entry.seq <= N
    BY <1>2, <1>9 DEF Delivered, Message, PongMessage
  <2>3. compactors' \in [Conn -> Seq(Confirmed(N))]
    BY <1>7, <2>1, <2>2
  <2> QED BY <1>3, <1>4, <1>5, <1>6, <2>1, <2>3 DEF ReducerInv
<1>10. CASE message.type = "stream_size"
  <2> DEFINE told == compactors[client]
             sent == OnSizes(told, message.size)
             U == Sent(N)
  <2>1. /\ up' = [up EXCEPT ![client] = @ \o sent]
        /\ compactors' = compactors
    BY <1>10 DEF Receive, message
  <2>2. told \in Seq(Compactor)
    BY <1>1, SeqMonotone DEF Confirmed
  <2>3. Snapshots(told) \subseteq U
    <3> SUFFICES ASSUME NEW n \in DOMAIN told, told[n].lastConfirmedSeq # 0
                 PROVE  CompactRequest(told[n]) \in U
      BY DEF Snapshots
    <3>1. told[n] \in Confirmed(N)
      BY <1>1, LenProperties, ElementOfSeq
    <3>2. told[n].lastConfirmedSeq \in 1 .. N /\ told[n].lastConfirmedState \in States
      BY <1>1, <3>1 DEF Confirmed, Compactor
    <3> QED BY <3>2 DEF CompactRequest, CompactRequestOf, Sent
  <2>4. sent \in Seq(U)
    BY <2>2, <2>3, OnSizesFacts, SeqMonotone
  <2>5. up \in [Conn -> Seq(U)]
    BY DEF ReducerInv
  <2> HIDE DEF U, sent
  <2>6. up[client] \o sent \in Seq(U)
    BY <2>4, <2>5, ConcatProperties
  <2>7. up' \in [Conn -> Seq(U)]
    BY <2>1, <2>5, <2>6
  <2> QED BY <1>3, <1>4, <1>5, <1>6, <2>1, <2>7 DEF ReducerInv, U
<1> QED BY <1>8, <1>9, <1>10 DEF Receive, message

LEMMA ReducerInvStep ==
    ASSUME ReducerInv, [ReducerNext]_reducerVars, Value = ReducerValue, ~RawCompaction
    PROVE  ReducerInv'
<1>1. CASE UNCHANGED reducerVars
  BY <1>1 DEF reducerVars, roomVars, connVars, storeVars, ReducerInv, RoomTypeOK, StoreTypeOK, StreamsSorted
<1>2. CASE ReducerNext
  BY <1>2, SubscribeKeeps, LeaveKeeps, DispatchKeeps, ServeKeeps, ReceiveKeeps DEF ReducerNext
<1> QED BY <1>1, <1>2

LEMMA ReducerInvariant ==
    ASSUME Value = ReducerValue, ~RawCompaction
    PROVE  ReducerSpec => []ReducerInv
<1>1. ReducerInv /\ [ReducerNext]_reducerVars => ReducerInv'
  BY ReducerInvStep
<1> QED BY <1>1, ReducerInvInit, PTL DEF ReducerSpec

-----------------------------------------------------------------------------
(***************************************************************************)
(* Theorems.                                                               *)
(***************************************************************************)

\* However many clients reduce one stream, whatever they have mounted and whenever
\* they compact, what they do to the room's stream is what Store allows of any client
\* (compactor.ts and the room through connection.rs): each push is one apply, and each
\* compaction one at a number the room has handed out.  So Store's theorems hold of
\* the stream that a reducer lives on.
THEOREM ReducerImplementsStore ==
    ASSUME Value = ReducerValue, ~RawCompaction
    PROVE  ReducerSpec => StoreSpec
<1>1. ReducerInit => StoreInit
  BY DEF ReducerInit, RoomInit
<1>2. ReducerInv /\ [ReducerNext]_reducerVars => [StoreNext]_storeVars
  <2> SUFFICES ASSUME ReducerInv, [ReducerNext]_reducerVars
               PROVE  [StoreNext]_storeVars
    OBVIOUS
  <2>1. CASE UNCHANGED reducerVars
    BY <2>1 DEF reducerVars, roomVars
  <2>2. ASSUME NEW client \in Conn,
               Subscribe(client) \/ Leave(client) \/ (\E n \in 1 .. MaxMounts[client] : Dispatch(client, n))
                   \/ Receive(client)
        PROVE  UNCHANGED storeVars
    BY <2>2 DEF Subscribe, Connect, Leave, Drop, Dispatch, Receive, roomVars
  <2>3. ASSUME NEW client \in Conn, Serve(client)
        PROVE  [StoreNext]_storeVars
    BY <2>3, ServeIsRoomStep
  <2> QED BY <2>1, <2>2, <2>3 DEF ReducerNext
<1> QED BY <1>1, <1>2, ReducerInvariant, PTL DEF ReducerSpec, StoreSpec

\* Every variable keeps its type: what clients push are actions and snapshots of
\* states, and what they are told, they can reduce.
THEOREM ReducerTypeCorrect ==
    ASSUME Value = ReducerValue, ~RawCompaction
    PROVE  ReducerSpec => []ReducerTypeOK
<1>1. ReducerInv => ReducerTypeOK
  <2> SUFFICES ASSUME ReducerInv
               PROVE  ReducerTypeOK
    OBVIOUS
  <2>1. sequence_number \in Nat
    BY DEF ReducerInv, RoomTypeOK, StoreTypeOK
  <2>2. Sent(sequence_number) \subseteq Request
    <3>1. 1 .. sequence_number \subseteq Nat
      BY <2>1
    <3> QED BY <3>1 DEF Sent, Request, Action, ReducerValue
  <2>3. Confirmed(sequence_number) \subseteq Compactor
    BY DEF Confirmed
  <2>4. Seq(Sent(sequence_number)) \subseteq Seq(Request) /\ Seq(Confirmed(sequence_number)) \subseteq Seq(Compactor)
    BY <2>2, <2>3, SeqMonotone
  <2> QED BY <2>4 DEF ReducerInv, ReducerTypeOK
<1> QED BY <1>1, ReducerInvariant, PTL

\* No client compacts at 0 or ahead of the room, whatever it was told, in whatever
\* order, and however much of it was lost on the way (compactor.ts: the number of a
\* snapshot is the last one confirmed): the room's streams stay sorted only because
\* of that.
THEOREM CompactionsAtNumbersSeen ==
    ASSUME Value = ReducerValue, ~RawCompaction
    PROVE  ReducerSpec => []CompactionsAtSeenNumbers
<1>1. ReducerInv => CompactionsAtSeenNumbers
  <2> SUFFICES ASSUME ReducerInv, NEW client \in Conn, NEW request \in Range(up[client]),
                      request.type = "push", request.action.type = "compact"
               PROVE  request.action.seq \in 1 .. sequence_number
    BY DEF CompactionsAtSeenNumbers
  <2>1. up[client] \in Seq(Sent(sequence_number))
    BY DEF ReducerInv
  <2>2. request \in Sent(sequence_number)
    BY <2>1, LenProperties, ElementOfSeq DEF Range
  <2> QED BY <2>2 DEF Sent, GetRequest
<1> QED BY <1>1, ReducerInvariant, PTL

-----------------------------------------------------------------------------
(***************************************************************************)
(* That compaction is faithful: with any number of clients, each of them   *)
(* with one Compactor, what a client has confirmed and what one that joins *)
(* now replays is the room's history, action by action, as long as no      *)
(* connection's channel is full.  Both provisos are needed: what           *)
(* ReducerStates.cfg allows breaks the first, a full channel the second.   *)
(***************************************************************************)

(***************************************************************************)
(* The truth of what is under way, as against the history h of the room.   *)
(***************************************************************************)

Histories == Seq([seq : Nat, action : 1 .. MaxDispatch])

\* The state after the first n actions.
Actions(h, n) == [i \in 1 .. n |-> h[i].action]

Truthful(h, entry) ==
    /\ entry.seq \in 1 .. Len(h)
    /\ entry.value.type = "reset" => entry.value.state = Actions(h, entry.seq)
    /\ entry.value.type = "apply" => entry.value.action = h[entry.seq].action

\* Entries from which the state after n actions can be rebuilt: none is lacking before
\* an action, nor at the end.
Complete(h, entries, n) ==
    /\ \A entry \in entries : Truthful(h, entry) /\ entry.seq <= n
    /\ \A entry \in entries : entry.value.type = "apply" /\ entry.seq # 1 =>
          \E before \in entries : before.seq = entry.seq - 1
    /\ n # 0 => \E entry \in entries : entry.seq = n

\* What a Compactor has confirmed.
Knows(h, compactor) ==
    /\ compactor \in Compactor
    /\ compactor.lastConfirmedSeq <= Len(h)
    /\ compactor.lastConfirmedState = Actions(h, compactor.lastConfirmedSeq)

LEMMA ActionsType ==
    ASSUME NEW h \in Histories, NEW n \in 0 .. Len(h)
    PROVE  Actions(h, n) \in States /\ Len(Actions(h, n)) = n
<1>1. Len(h) \in Nat /\ \A i \in 1 .. Len(h) : h[i] \in [seq : Nat, action : 1 .. MaxDispatch]
  BY LenProperties, ElementOfSeq DEF Histories
<1>2. \A i \in 1 .. n : h[i].action \in 1 .. MaxDispatch
  BY <1>1
<1>3. n \in Nat
  BY <1>1
<1> QED BY <1>2, <1>3, IsASeq DEF Actions, States

LEMMA ActionsNext ==
    ASSUME NEW h \in Histories, NEW n \in 0 .. Len(h), n + 1 <= Len(h)
    PROVE  Actions(h, n + 1) = Append(Actions(h, n), h[n + 1].action)
<1> DEFINE s == Actions(h, n)
           t == Append(s, h[n + 1].action)
           u == Actions(h, n + 1)
<1>1. n \in Nat /\ n + 1 \in 1 .. Len(h) /\ n + 1 \in 0 .. Len(h) /\ Len(h) \in Nat
  BY LenProperties DEF Histories
<1>2. s \in States /\ Len(s) = n /\ u \in States /\ Len(u) = n + 1
  BY <1>1, ActionsType
<1>3. h[n + 1].action \in 1 .. MaxDispatch
  <2>1. h[n + 1] \in [seq : Nat, action : 1 .. MaxDispatch]
    BY <1>1, ElementOfSeq DEF Histories
  <2> QED BY <2>1
<1>4. \A i \in 1 .. n : s[i] = h[i].action
  BY DEF Actions
<1>5. \A i \in 1 .. n + 1 : u[i] = h[i].action
  BY DEF Actions
<1> HIDE DEF s, u
<1>6. /\ t \in Seq(1 .. MaxDispatch) /\ Len(t) = n + 1
      /\ \A i \in 1 .. n : t[i] = s[i]
      /\ t[n + 1] = h[n + 1].action
  BY <1>2, <1>3, AppendProperties DEF States
<1>7. \A i \in 1 .. n + 1 : t[i] = u[i]
  BY <1>1, <1>4, <1>5, <1>6
<1>8. t = u
  BY <1>2, <1>6, <1>7, SeqEqual DEF States
<1> QED BY <1>8 DEF s, u

\* A longer history says the same of the past.
LEMMA HistoryGrows ==
    ASSUME NEW h \in Histories, NEW x \in [seq : Nat, action : 1 .. MaxDispatch]
    PROVE  LET g == Append(h, x)
           IN  /\ g \in Histories /\ Len(g) = Len(h) + 1 /\ g[Len(h) + 1] = x
               /\ \A i \in 1 .. Len(h) : g[i] = h[i]
               /\ \A n \in 0 .. Len(h) : Actions(g, n) = Actions(h, n)
<1> DEFINE g == Append(h, x)
<1>1. /\ g \in Histories /\ Len(g) = Len(h) + 1 /\ g[Len(h) + 1] = x
      /\ \A i \in 1 .. Len(h) : g[i] = h[i]
      /\ Len(h) \in Nat
  BY AppendProperties, LenProperties DEF Histories
<1> HIDE DEF g
<1>2. ASSUME NEW n \in 0 .. Len(h)
      PROVE  Actions(g, n) = Actions(h, n)
  <2>1. \A i \in 1 .. n : g[i] = h[i]
    BY <1>1
  <2> QED BY <2>1 DEF Actions
<1> QED BY <1>1, <1>2 DEF g

\* An entry that is none too new extends what a Compactor knows.
LEMMA KnowsNext ==
    ASSUME NEW h \in Histories, NEW randId, NEW compactor, Knows(h, compactor),
           NEW entry \in SequenceValue, Truthful(h, entry), Value = ReducerValue,
           entry.value.type = "apply" => entry.seq <= compactor.lastConfirmedSeq + 1
    PROVE  LET next == OnSequenceValue(randId, compactor, entry)
           IN  /\ Knows(h, next)
               /\ next.lastConfirmedSeq = IF entry.seq <= compactor.lastConfirmedSeq
                                          THEN compactor.lastConfirmedSeq ELSE entry.seq
<1> DEFINE next == OnSequenceValue(randId, compactor, entry)
           n == compactor.lastConfirmedSeq
<1>1. /\ next \in Compactor /\ n \in Nat /\ n <= Len(h) /\ Len(h) \in Nat
      /\ compactor.lastConfirmedState = Actions(h, n)
      /\ entry.seq \in 1 .. Len(h) /\ entry.value.type \in {"apply", "reset"}
  BY OnSequenceValueType, EntryType, LenProperties DEF Knows, Compactor, Truthful, Histories
<1>2. CASE entry.seq <= n
  <2>1. next = compactor
    BY <1>2 DEF OnSequenceValue
  <2> QED BY <1>2, <2>1
<1>3. CASE ~ (entry.seq <= n) /\ entry.value.type = "reset"
  <2>1. next.lastConfirmedSeq = entry.seq /\ next.lastConfirmedState = entry.value.state
    BY <1>3 DEF OnSequenceValue
  <2>2. entry.value.state = Actions(h, entry.seq)
    BY <1>3 DEF Truthful
  <2> HIDE DEF next
  <2>3. Knows(h, next)
    BY <1>1, <2>1, <2>2 DEF Knows
  <2> QED BY <1>3, <2>1, <2>3 DEF next
<1>4. CASE ~ (entry.seq <= n) /\ entry.value.type = "apply"
  <2>1. entry.seq = n + 1
    BY <1>1, <1>4
  <2>2. next.lastConfirmedSeq = n + 1 /\ next.lastConfirmedState = Append(Actions(h, n), entry.value.action)
    BY <1>1, <1>4, <2>1 DEF OnSequenceValue, Reduce
  <2>3. entry.value.action = h[n + 1].action
    BY <1>4, <2>1 DEF Truthful
  <2>4. Actions(h, n + 1) = Append(Actions(h, n), h[n + 1].action)
    BY <1>1, <2>1, ActionsNext
  <2> HIDE DEF next
  <2>5. Knows(h, next)
    BY <1>1, <2>1, <2>2, <2>3, <2>4 DEF Knows
  <2> QED BY <1>4, <2>1, <2>2, <2>5 DEF next
<1> QED BY <1>1, <1>2, <1>3, <1>4

\* A replay of complete entries in increasing order takes a Compactor that knows less
\* to the end of them.
LEMMA Replay ==
    ASSUME NEW h \in Histories, NEW randId, NEW compactor, Knows(h, compactor),
           NEW data \in Seq(SequenceValue), Increasing(data), NEW n \in Nat,
           Complete(h, Range(data), n), compactor.lastConfirmedSeq <= n, Value = ReducerValue
    PROVE  LET after == OnSequenceValues(randId, compactor, data)
           IN  Knows(h, after) /\ after.lastConfirmedSeq = n
<1> DEFINE after == OnSequenceValues(randId, compactor, data)
<1>1. /\ Len(data) \in Nat /\ DOMAIN data = 1 .. Len(data)
      /\ \A i \in 1 .. Len(data) : data[i] \in SequenceValue /\ data[i] \in Range(data) /\ data[i].seq \in Nat
  <2>1. \A i \in 1 .. Len(data) : data[i] \in SequenceValue
    BY ElementOfSeq
  <2> QED BY <2>1, LenProperties DEF Range, SequenceValue
<1>2. compactor \in Compactor /\ compactor.lastConfirmedSeq \in Nat
  BY DEF Knows, Compactor
<1>3. PICK told : Told(randId, compactor, data, told) /\ after = told[Len(data)]
  BY <1>2, OnSequenceValuesFacts
<1> HIDE DEF after
\* What it knows after i entries: those and no more than the last.
<1> DEFINE Good(i) == {c \in Compactor :
               /\ Knows(h, c) /\ c.lastConfirmedSeq <= n
               /\ \A j \in 1 .. i : data[j].seq <= c.lastConfirmedSeq}
           G == [i \in 0 .. Len(data) |-> Good(i)]
<1>4. told[0] \in G[0]
  BY <1>1, <1>2, <1>3 DEF Told
<1>5. ASSUME NEW i \in 1 .. Len(data), told[i - 1] \in Good(i - 1)
      PROVE  told[i] \in Good(i)
  <2> DEFINE c == told[i - 1]
             entry == data[i]
  <2>1. /\ told[i] = OnSequenceValue(randId, c, entry)
        /\ Knows(h, c) /\ c \in Compactor /\ c.lastConfirmedSeq \in Nat /\ c.lastConfirmedSeq <= n
        /\ \A j \in 1 .. i - 1 : data[j].seq <= c.lastConfirmedSeq
    BY <1>3, <1>5 DEF Told, Compactor
  <2>2. entry \in SequenceValue /\ entry \in Range(data) /\ entry.seq \in Nat
    BY <1>1
  <2>3. Truthful(h, entry) /\ entry.seq <= n
    BY <2>2 DEF Complete
  <2>4. ASSUME entry.value.type = "apply"
        PROVE  entry.seq <= c.lastConfirmedSeq + 1
    <3>1. CASE entry.seq = 1
      BY <2>1, <3>1
    <3>2. CASE entry.seq # 1
      <4>1. PICK before \in Range(data) : before.seq = entry.seq - 1
        BY <2>2, <2>4, <3>2 DEF Complete
      <4>2. PICK j \in 1 .. Len(data) : data[j] = before
        BY <1>1, <4>1 DEF Range
      <4>3. data[j].seq < data[i].seq
        BY <2>2, <4>1, <4>2
      <4>4. ~ (i <= j)
        <5>1. i = j => FALSE
          BY <2>2, <4>3
        <5>2. i < j => data[i].seq < data[j].seq
          BY <1>1 DEF Increasing
        <5> QED BY <1>1, <4>3, <5>1, <5>2
      <4>5. j \in 1 .. i - 1
        BY <1>1, <4>4
      <4>6. data[j].seq <= c.lastConfirmedSeq
        BY <2>1, <4>5
      <4> QED BY <2>1, <2>2, <4>1, <4>2, <4>6
    <3> QED BY <3>1, <3>2
  <2> HIDE DEF c, entry
  <2>5. /\ Knows(h, told[i])
        /\ told[i].lastConfirmedSeq = IF entry.seq <= c.lastConfirmedSeq THEN c.lastConfirmedSeq ELSE entry.seq
    BY <2>1, <2>2, <2>3, <2>4, KnowsNext
  <2>6. told[i] \in Compactor
    BY <2>5 DEF Knows
  <2>7. told[i].lastConfirmedSeq <= n /\ entry.seq <= told[i].lastConfirmedSeq
        /\ c.lastConfirmedSeq <= told[i].lastConfirmedSeq
    BY <2>1, <2>2, <2>3, <2>5
  <2>8. ASSUME NEW j \in 1 .. i
        PROVE  data[j].seq <= told[i].lastConfirmedSeq
    <3>1. CASE j = i
      BY <2>7, <3>1 DEF entry
    <3>2. CASE j # i
      <4>1. j \in 1 .. i - 1 /\ j \in 1 .. Len(data)
        BY <1>1, <3>2
      <4>2. data[j].seq <= c.lastConfirmedSeq /\ data[j].seq \in Nat /\ told[i].lastConfirmedSeq \in Nat
        BY <1>1, <2>1, <2>6, <4>1 DEF Compactor
      <4> QED BY <2>1, <2>7, <4>2
    <3> QED BY <3>1, <3>2
  <2> QED BY <2>5, <2>6, <2>7, <2>8
<1>6. \A i \in 1 .. Len(data) : told[i - 1] \in G[i - 1] => told[i] \in G[i]
  <2> SUFFICES ASSUME NEW i \in 1 .. Len(data)
               PROVE  told[i - 1] \in G[i - 1] => told[i] \in G[i]
    OBVIOUS
  <2>1. i - 1 \in 0 .. Len(data) /\ i \in 0 .. Len(data)
    BY <1>1
  <2>2. G[i - 1] = Good(i - 1) /\ G[i] = Good(i)
    BY <2>1
  <2> HIDE DEF G, Good
  <2> QED BY <1>5, <2>2
<1>7. told[Len(data)] \in Good(Len(data))
  <2> HIDE DEF G, Good
  <2>1. \A i \in 0 .. Len(data) : told[i] \in G[i]
    BY <1>1, <1>4, <1>6, IntervalInduction
  <2> QED BY <1>1, <2>1 DEF G
<1>8. /\ Knows(h, after) /\ after \in Compactor /\ after.lastConfirmedSeq <= n
      /\ \A j \in 1 .. Len(data) : data[j].seq <= after.lastConfirmedSeq
  BY <1>3, <1>7
<1>9. after.lastConfirmedSeq \in Nat
  BY <1>8 DEF Compactor
<1>10. n # 0 => n <= after.lastConfirmedSeq
  <2> SUFFICES ASSUME n # 0
               PROVE  n <= after.lastConfirmedSeq
    OBVIOUS
  <2>1. PICK entry \in Range(data) : entry.seq = n
    BY DEF Complete
  <2>2. PICK j \in 1 .. Len(data) : data[j] = entry
    BY <1>1, <2>1 DEF Range
  <2> QED BY <1>8, <2>1, <2>2
<1>11. after.lastConfirmedSeq = n
  BY <1>8, <1>9, <1>10
<1> QED BY <1>8, <1>11 DEF after

-----------------------------------------------------------------------------
(***************************************************************************)
(* The stream.                                                             *)
(***************************************************************************)

\* What is true stays true as the history grows.
LEMMA TruthKept ==
    ASSUME NEW h \in Histories, NEW x \in [seq : Nat, action : 1 .. MaxDispatch]
    PROVE  LET g == Append(h, x)
           IN  /\ \A entry : Truthful(h, entry) => Truthful(g, entry)
               /\ \A entries, n : Complete(h, entries, n) => Complete(g, entries, n)
               /\ \A compactor : Knows(h, compactor) => Knows(g, compactor)
<1> DEFINE g == Append(h, x)
<1>1. /\ Len(g) = Len(h) + 1 /\ Len(h) \in Nat
      /\ \A i \in 1 .. Len(h) : g[i] = h[i]
      /\ \A n \in 0 .. Len(h) : Actions(g, n) = Actions(h, n)
  BY HistoryGrows, LenProperties DEF Histories
<1> HIDE DEF g
<1>2. ASSUME NEW entry, Truthful(h, entry)
      PROVE  Truthful(g, entry)
  <2>1. entry.seq \in 1 .. Len(h) /\ entry.seq \in 1 .. Len(g) /\ entry.seq \in 0 .. Len(h)
    BY <1>1, <1>2 DEF Truthful
  <2> QED BY <1>1, <1>2, <2>1 DEF Truthful
<1>3. ASSUME NEW entries, NEW n, Complete(h, entries, n)
      PROVE  Complete(g, entries, n)
  BY <1>2, <1>3 DEF Complete
<1>4. ASSUME NEW compactor, Knows(h, compactor)
      PROVE  Knows(g, compactor)
  <2>1. /\ compactor.lastConfirmedSeq \in Nat
        /\ compactor.lastConfirmedSeq \in 0 .. Len(h) /\ compactor.lastConfirmedSeq <= Len(g)
    BY <1>1, <1>4 DEF Knows, Compactor
  <2> QED BY <1>1, <1>4, <2>1 DEF Knows
<1> QED BY <1>2, <1>3, <1>4 DEF g

\* An action goes to the end of the stream as it goes to the end of the history.
LEMMA CompleteAppend ==
    ASSUME NEW h \in Histories, NEW x \in [seq : Nat, action : 1 .. MaxDispatch],
           NEW entries, Complete(h, entries, Len(h)),
           NEW entry, entry.seq = Len(h) + 1, entry.value.type = "apply", entry.value.action = x.action
    PROVE  Complete(Append(h, x), entries \cup {entry}, Len(h) + 1)
<1> DEFINE g == Append(h, x)
           n == Len(h)
<1>1. n \in Nat /\ Len(g) = n + 1 /\ g[n + 1] = x
  BY HistoryGrows, LenProperties DEF Histories
<1>2. Complete(g, entries, n)
  BY TruthKept
<1> HIDE DEF g
<1>3. Truthful(g, entry)
  BY <1>1 DEF Truthful
<1>4. \A e \in entries : Truthful(g, e) /\ e.seq <= n + 1
  <2> SUFFICES ASSUME NEW e \in entries
               PROVE  Truthful(g, e) /\ e.seq <= n + 1
    OBVIOUS
  <2>1. Truthful(g, e) /\ e.seq <= n /\ e.seq \in Nat
    BY <1>1, <1>2 DEF Complete, Truthful
  <2> QED BY <1>1, <2>1
<1> QED BY <1>1, <1>2, <1>3, <1>4 DEF Complete, g

\* A snapshot, however late, goes to the front in the place of what it stands for.
LEMMA CompleteCompact ==
    ASSUME NEW h \in Histories, NEW n \in Nat, NEW entries, Complete(h, entries, n),
           NEW entry, entry.seq \in 1 .. n, entry.value.type = "reset", Truthful(h, entry)
    PROVE  Complete(h, {entry} \cup {e \in entries : e.seq > entry.seq}, n)
<1> DEFINE after == {entry} \cup {e \in entries : e.seq > entry.seq}
<1>1. \A e \in entries : e.seq \in Nat /\ Truthful(h, e) /\ e.seq <= n
  BY LenProperties DEF Complete, Truthful, Histories
<1>2. \A e \in after : Truthful(h, e) /\ e.seq <= n
  BY <1>1
<1>3. ASSUME NEW e \in after, e.value.type = "apply", e.seq # 1
      PROVE  \E before \in after : before.seq = e.seq - 1
  <2>1. e \in entries /\ e.seq > entry.seq
    BY <1>3
  <2>2. PICK before \in entries : before.seq = e.seq - 1
    BY <1>3, <2>1 DEF Complete
  <2>3. before.seq > entry.seq \/ before.seq = entry.seq
    BY <1>1, <2>1, <2>2
  <2> QED BY <2>2, <2>3
<1>4. n # 0 => \E e \in after : e.seq = n
  <2> SUFFICES ASSUME n # 0
               PROVE  \E e \in after : e.seq = n
    OBVIOUS
  <2>1. PICK e \in entries : e.seq = n
    BY DEF Complete
  <2>2. e.seq > entry.seq \/ entry.seq = n
    BY <2>1
  <2> QED BY <2>1, <2>2
<1> QED BY <1>2, <1>3, <1>4 DEF Complete

-----------------------------------------------------------------------------
(***************************************************************************)
(* What waits for a client takes it from a number to another.              *)
(***************************************************************************)

Leads(h, from, message, to) ==
    /\ from <= to
    /\ message.type = "push" =>
          /\ Truthful(h, EntryOf(message))
          /\ \/ message.seq = from + 1 /\ to = from + 1
             \/ message.seq <= from /\ to = from
    /\ message.type = "init" =>
          Increasing(message.data) /\ Complete(h, Range(message.data), to)
    /\ message.type = "stream_size" => to = from

Path(h, at, from, messages, to) ==
    /\ at \in [0 .. Len(messages) -> Nat]
    /\ at[0] = from /\ at[Len(messages)] = to
    /\ \A i \in 1 .. Len(messages) : Leads(h, at[i - 1], messages[i], at[i])

Reaches(h, from, messages, to) == \E at : Path(h, at, from, messages, to)

LEMMA LeadsKept ==
    ASSUME NEW h \in Histories, NEW x \in [seq : Nat, action : 1 .. MaxDispatch],
           NEW from, NEW message, NEW to, Leads(h, from, message, to)
    PROVE  Leads(Append(h, x), from, message, to)
<1> DEFINE g == Append(h, x)
<1>1. /\ \A entry : Truthful(h, entry) => Truthful(g, entry)
      /\ \A entries, n : Complete(h, entries, n) => Complete(g, entries, n)
  BY TruthKept
<1> HIDE DEF g
<1> QED BY <1>1 DEF Leads, g

LEMMA ReachesKept ==
    ASSUME NEW h \in Histories, NEW x \in [seq : Nat, action : 1 .. MaxDispatch],
           NEW from, NEW messages, NEW to, Reaches(h, from, messages, to)
    PROVE  Reaches(Append(h, x), from, messages, to)
<1>1. PICK at : Path(h, at, from, messages, to)
  BY DEF Reaches
<1>2. Path(Append(h, x), at, from, messages, to)
  BY <1>1, LeadsKept DEF Path
<1> QED BY <1>2 DEF Reaches

\* Nothing leads nowhere.
LEMMA ReachesNothing ==
    ASSUME NEW h, NEW n \in Nat
    PROVE  Reaches(h, n, <<>>, n)
<1> DEFINE at == [i \in 0 .. 0 |-> n]
<1>1. Path(h, at, n, <<>>, n)
  BY DEF Path
<1> QED BY <1>1 DEF Reaches

\* The first message leads on, and from there the others.
LEMMA ReachesTail ==
    ASSUME NEW h, NEW from, NEW messages \in Seq(Message), NEW to, messages # <<>>,
           Reaches(h, from, messages, to)
    PROVE  \E mid \in Nat : Leads(h, from, Head(messages), mid) /\ Reaches(h, mid, Tail(messages), to)
<1> DEFINE n == Len(messages)
           rest == Tail(messages)
<1>1. n \in Nat /\ n > 0 /\ Head(messages) = messages[1]
      /\ rest \in Seq(Message) /\ Len(rest) = n - 1 /\ \A i \in 1 .. n - 1 : rest[i] = messages[i + 1]
  BY HeadTailProperties, LenProperties, EmptySeq
<1>2. PICK at : Path(h, at, from, messages, to)
  BY DEF Reaches
<1>3. /\ \A i \in 0 .. n : at[i] \in Nat
      /\ at[0] = from /\ at[n] = to
      /\ \A i \in 1 .. n : Leads(h, at[i - 1], messages[i], at[i])
  BY <1>2 DEF Path
<1> HIDE DEF n, rest
<1>4. Leads(h, from, Head(messages), at[1])
  <2>1. 1 \in 1 .. n /\ 1 - 1 = 0
    BY <1>1
  <2> QED BY <1>1, <1>3, <2>1
<1> DEFINE then == [i \in 0 .. n - 1 |-> at[i + 1]]
<1>5. Path(h, then, at[1], rest, to)
  <2>1. then \in [0 .. n - 1 -> Nat] /\ then[0] = at[1] /\ then[n - 1] = to
    BY <1>1, <1>3
  <2>2. ASSUME NEW i \in 1 .. n - 1
        PROVE  Leads(h, then[i - 1], rest[i], then[i])
    <3>1. i + 1 \in 1 .. n /\ then[i - 1] = at[i] /\ then[i] = at[i + 1] /\ (i + 1) - 1 = i
      BY <1>1
    <3>2. Leads(h, at[(i + 1) - 1], messages[i + 1], at[i + 1])
      BY <1>3, <3>1
    <3> QED BY <1>1, <3>1, <3>2
  <2> QED BY <1>1, <2>1, <2>2 DEF Path
<1>6. at[1] \in Nat
  BY <1>1, <1>3
<1> QED BY <1>4, <1>5, <1>6 DEF Reaches, rest

\* More messages lead on if the first of them does and the others stay there.
LEMMA ReachesMore ==
    ASSUME NEW h, NEW from, NEW messages \in Seq(Message), NEW mid, Reaches(h, from, messages, mid),
           NEW more \in Seq(Message), NEW to \in Nat,
           more = <<>> => mid = to,
           \A i \in 1 .. Len(more) : Leads(h, IF i = 1 THEN mid ELSE to, more[i], to)
    PROVE  Reaches(h, from, messages \o more, to)
<1> DEFINE n == Len(messages)
           m == Len(more)
           all == messages \o more
<1>1. /\ n \in Nat /\ m \in Nat /\ Len(all) = n + m
      /\ \A i \in 1 .. n + m : all[i] = IF i <= n THEN messages[i] ELSE more[i - n]
  BY ConcatProperties, LenProperties
<1>2. PICK at : Path(h, at, from, messages, mid)
  BY DEF Reaches
<1>3. /\ \A i \in 0 .. n : at[i] \in Nat
      /\ at[0] = from /\ at[n] = mid
      /\ \A i \in 1 .. n : Leads(h, at[i - 1], messages[i], at[i])
  BY <1>2 DEF Path
<1>4. m = 0 => mid = to
  BY EmptySeq
<1>5. \A i \in 1 .. m : Leads(h, IF i = 1 THEN mid ELSE to, more[i], to)
  OBVIOUS
<1> HIDE DEF n, m, all
<1> DEFINE then == [i \in 0 .. n + m |-> IF i <= n THEN at[i] ELSE to]
<1>6. /\ then \in [0 .. n + m -> Nat] /\ then[0] = from /\ then[n + m] = to
  BY <1>1, <1>3, <1>4
<1>7. ASSUME NEW i \in 1 .. n + m
      PROVE  Leads(h, then[i - 1], all[i], then[i])
  <2>1. CASE i <= n
    <3>1. i \in 1 .. n /\ then[i - 1] = at[i - 1] /\ then[i] = at[i] /\ all[i] = messages[i]
      BY <1>1, <2>1
    <3> QED BY <1>3, <3>1
  <2>2. CASE ~ (i <= n)
    <3>1. i - n \in 1 .. m /\ then[i] = to /\ all[i] = more[i - n]
      BY <1>1, <2>2
    <3>2. then[i - 1] = IF i - n = 1 THEN mid ELSE to
      BY <1>1, <1>3, <2>2
    <3> QED BY <1>5, <3>1, <3>2
  <2> QED BY <2>1, <2>2
<1> HIDE DEF then
<1>8. Path(h, then, from, all, to)
  BY <1>1, <1>6, <1>7 DEF Path
<1> QED BY <1>8 DEF Reaches, all

-----------------------------------------------------------------------------
(***************************************************************************)
(* The invariant.  A client either waits for the replay it has asked for,  *)
(* which is the first thing it has sent, and is told of nothing before; or *)
(* what waits in its inbox leads from what it has confirmed to the last    *)
(* number.                                                                 *)
(***************************************************************************)

\* The snapshots under way are of the history.
TruthfulRequests(h, requests) ==
    \A i \in 1 .. Len(requests) :
        (requests[i].type = "push" /\ requests[i].action.type = "compact") =>
            requests[i].value.state = Actions(h, requests[i].action.seq)

Waiting(client) ==
    /\ subscriptions[ReducerKey][client] = 0
    /\ inbox[client] = <<>>
    /\ compactors[client][1].lastConfirmedSeq = 0
    /\ up[client] # <<>> /\ Head(up[client]) = GetRequest

Joined(client) ==
    /\ subscriptions[ReducerKey][client] > 0
    /\ Reaches(history, compactors[client][1].lastConfirmedSeq, inbox[client], sequence_number)

Follows(client) ==
    /\ Live(client) =>
          /\ Len(compactors[client]) = 1
          /\ Knows(history, compactors[client][1])
          /\ Waiting(client) \/ Joined(client)
    /\ ~Live(client) => compactors[client] = <<>> /\ inbox[client] = <<>> /\ up[client] = <<>>
    /\ status[client] = "new" => subscriptions[ReducerKey][client] = 0

HistoryInv ==
    /\ Len(history) = sequence_number
    /\ \A i \in 1 .. Len(history) : history[i].seq = i
    /\ Complete(history, Range(subjects[ReducerKey]), sequence_number)
    /\ \A client \in Conn : TruthfulRequests(history, up[client])
    /\ \A client \in Conn : Follows(client)

OneEach == \A client \in Conn : MaxMounts[client] <= 1

\* No connection's channel is full.
ChannelsNotFull == \A client \in Conn : Len(inbox[client]) < Capacity

LEMMA HistoryInvInit == ReducerInit => HistoryInv
<1> SUFFICES ASSUME ReducerInit
             PROVE  HistoryInv
  OBVIOUS
<1>1. history = <<>> /\ sequence_number = 0 /\ subjects[ReducerKey] = <<>>
  BY ReducerKeyAssumption DEF ReducerInit, RoomInit, StoreInit
<1>2. Len(history) = 0 /\ Range(<<>>) = {}
  BY <1>1 DEF Range
<1>3. Complete(history, Range(subjects[ReducerKey]), sequence_number)
  BY <1>1, <1>2 DEF Complete
<1>4. ASSUME NEW client \in Conn
      PROVE  TruthfulRequests(history, up[client]) /\ Follows(client)
  BY ReducerKeyAssumption DEF ReducerInit, RoomInit, TruthfulRequests, Follows, Live
<1> QED BY <1>1, <1>2, <1>3, <1>4 DEF HistoryInv

\* A client that a step leaves alone goes on as before.
LEMMA FollowsKept ==
    ASSUME NEW client \in Conn, Follows(client),
           history' = history, sequence_number' = sequence_number,
           status'[client] = status[client], inbox'[client] = inbox[client], up'[client] = up[client],
           subscriptions'[ReducerKey][client] = subscriptions[ReducerKey][client],
           compactors'[client] = compactors[client]
    PROVE  Follows(client)'
BY DEF Follows, Live, Waiting, Joined

LEMMA HistoryFacts ==
    ASSUME ReducerInv, HistoryInv
    PROVE  /\ history \in Histories /\ sequence_number \in Nat /\ sequence_number = Len(history)
           /\ subjects[ReducerKey] \in Seq(SequenceValue) /\ Increasing(subjects[ReducerKey])
           /\ Range(subjects[ReducerKey]) \subseteq SequenceValue
<1>1. subjects[ReducerKey] \in Seq(SequenceValue) /\ Increasing(subjects[ReducerKey])
  BY ReducerKeyAssumption DEF ReducerInv, RoomTypeOK, StoreTypeOK, StreamsSorted, Sorted
<1>2. Range(subjects[ReducerKey]) \subseteq SequenceValue
  BY <1>1, LenProperties, ElementOfSeq DEF Range
<1> QED BY <1>1, <1>2 DEF ReducerInv, RoomTypeOK, StoreTypeOK, HistoryInv, Histories

\* A request that says nothing of the history does not make the others untrue.
LEMMA RequestsAppend ==
    ASSUME NEW h, NEW U, NEW requests \in Seq(U), NEW request \in U, TruthfulRequests(h, requests),
           ~(request.type = "push" /\ request.action.type = "compact")
    PROVE  TruthfulRequests(h, Append(requests, request))
<1> DEFINE all == Append(requests, request)
           n == Len(requests)
<1>1. /\ n \in Nat /\ Len(all) = n + 1 /\ all[n + 1] = request
      /\ \A i \in 1 .. n : all[i] = requests[i]
  BY AppendProperties, LenProperties
<1> HIDE DEF all
<1>2. \A i \in 1 .. n + 1 : i \in 1 .. n \/ i = n + 1
  BY <1>1
<1> QED BY <1>1, <1>2 DEF TruthfulRequests, all

LEMMA RequestsTail ==
    ASSUME NEW h, NEW U, NEW requests \in Seq(U), requests # <<>>, TruthfulRequests(h, requests)
    PROVE  TruthfulRequests(h, Tail(requests))
<1> DEFINE rest == Tail(requests)
           n == Len(requests)
<1>1. /\ n \in Nat /\ n > 0 /\ Len(rest) = n - 1
      /\ \A i \in 1 .. n - 1 : rest[i] = requests[i + 1]
  BY HeadTailProperties, LenProperties, EmptySeq
<1> HIDE DEF rest
<1>2. \A i \in 1 .. n - 1 : i + 1 \in 1 .. n
  BY <1>1
<1> QED BY <1>1, <1>2 DEF TruthfulRequests, rest

-----------------------------------------------------------------------------
(***************************************************************************)
(* The steps of a client.                                                  *)
(***************************************************************************)

LEMMA SubscribeFollows ==
    ASSUME ReducerInv, HistoryInv, OneEach, NEW client \in Conn, Subscribe(client)
    PROVE  HistoryInv'
<1> DEFINE U == Sent(sequence_number)
<1>1. /\ history' = history /\ UNCHANGED storeVars
      /\ compactors' = [compactors EXCEPT ![client] = Append(@, InitialCompactor)]
      /\ up' = [up EXCEPT ![client] = Append(@, GetRequest)]
      /\ subscriptions' = subscriptions /\ inbox' = inbox
      /\ \A c \in Conn : c # client => status'[c] = status[c]
  BY DEF Subscribe, Connect, roomVars, connVars, ReducerInv, RoomTypeOK
<1>2. up \in [Conn -> Seq(U)] /\ GetRequest \in U /\ compactors \in [Conn -> Seq(Confirmed(sequence_number))]
  BY DEF ReducerInv, Sent
\* A client that is there already has its one Compactor.
<1>3. status[client] = "new" /\ status'[client] = "open"
  <2>1. ~Live(client)
    <3> SUFFICES ASSUME Live(client)
                 PROVE  FALSE
      OBVIOUS
    <3>1. Len(compactors[client]) = 1
      BY DEF HistoryInv, Follows
    <3>2. Len(compactors[client]) < MaxMounts[client] /\ MaxMounts[client] <= 1 /\ MaxMounts[client] \in Nat
      BY MaxMountsAssumption DEF Subscribe, OneEach
    <3> QED BY <3>1, <3>2
  <2> QED BY <2>1 DEF Subscribe, Connect, ReducerInv, RoomTypeOK
<1>4. /\ compactors[client] = <<>> /\ inbox[client] = <<>> /\ up[client] = <<>>
      /\ subscriptions[ReducerKey][client] = 0
  BY <1>3 DEF HistoryInv, Follows, Live
<1>5. compactors'[client] = <<InitialCompactor>> /\ up'[client] = <<GetRequest>>
  BY <1>1, <1>2, <1>4
<1>6. Knows(history, InitialCompactor)
  <2>1. <<>> \in States /\ Actions(history, 0) = <<>>
    BY EmptySeq DEF States, Actions
  <2> QED BY <2>1, HistoryFacts DEF InitialCompactor, Knows, Compactor
<1>7. Follows(client)'
  BY <1>1, <1>3, <1>4, <1>5, <1>6 DEF Follows, Live, Waiting, InitialCompactor, GetRequest
<1>8. \A c \in Conn : Follows(c)'
  <2> SUFFICES ASSUME NEW c \in Conn, c # client
               PROVE  Follows(c)'
    BY <1>7
  <2>1. Follows(c)
    BY DEF HistoryInv
  <2>2. up'[c] = up[c] /\ compactors'[c] = compactors[c] /\ sequence_number' = sequence_number
    BY <1>1, <1>2 DEF storeVars
  <2> QED BY <1>1, <2>1, <2>2, FollowsKept
<1>9. \A c \in Conn : TruthfulRequests(history, up'[c])
  <2> SUFFICES ASSUME NEW c \in Conn
               PROVE  TruthfulRequests(history, up'[c])
    OBVIOUS
  <2>1. CASE c = client
    <3>1. TruthfulRequests(history, up[client]) /\ up[client] \in Seq(U)
      BY <1>2 DEF HistoryInv
    <3>2. up'[c] = Append(up[client], GetRequest)
      BY <1>1, <1>2, <2>1
    <3>3. GetRequest.type # "push"
      BY DEF GetRequest
    <3> HIDE DEF U
    <3> QED BY <1>2, <3>1, <3>2, <3>3, RequestsAppend
  <2>2. CASE c # client
    BY <1>1, <1>2, <2>2 DEF HistoryInv
  <2> QED BY <2>1, <2>2
<1> QED BY <1>1, <1>8, <1>9 DEF HistoryInv, storeVars

LEMMA LeaveFollows ==
    ASSUME ReducerInv, HistoryInv, NEW client \in Conn, Leave(client)
    PROVE  HistoryInv'
<1>1. /\ history' = history /\ UNCHANGED storeVars /\ subscriptions' = subscriptions
      /\ status'[client] = "dropped"
      /\ inbox'[client] = <<>> /\ up'[client] = <<>> /\ compactors'[client] = <<>>
      /\ \A c \in Conn : c # client =>
            /\ status'[c] = status[c] /\ inbox'[c] = inbox[c]
            /\ up'[c] = up[c] /\ compactors'[c] = compactors[c]
  BY DEF Leave, Drop, ReducerInv, RoomTypeOK
<1>2. sequence_number' = sequence_number /\ subjects' = subjects
  BY <1>1 DEF storeVars
<1>3. \A c \in Conn : Follows(c)'
  <2> SUFFICES ASSUME NEW c \in Conn
               PROVE  Follows(c)'
    OBVIOUS
  <2>1. CASE c = client
    BY <1>1, <2>1 DEF Follows, Live
  <2>2. CASE c # client
    <3>1. Follows(c)
      BY DEF HistoryInv
    <3> QED BY <1>1, <1>2, <2>2, <3>1, FollowsKept
  <2> QED BY <2>1, <2>2
<1>4. \A c \in Conn : TruthfulRequests(history, up'[c])
  <2>1. TruthfulRequests(history, <<>>)
    BY DEF TruthfulRequests
  <2> QED BY <1>1, <2>1 DEF HistoryInv
<1> QED BY <1>1, <1>2, <1>3, <1>4 DEF HistoryInv

\* A sequence of one.
LEMMA OnlyOne ==
    ASSUME NEW S, NEW s \in Seq(S)
    PROVE  /\ Len(s) = 1 <=> DOMAIN s = 1 .. 1
           /\ Len(s) = 1 => s[1] \in S /\ Range(s) = {s[1]}
<1>1. Len(s) \in Nat /\ DOMAIN s = 1 .. Len(s) /\ \A i \in 1 .. Len(s) : s[i] \in S
  BY LenProperties, ElementOfSeq
<1>2. ASSUME DOMAIN s = 1 .. 1
      PROVE  Len(s) = 1
  <2> DEFINE n == Len(s)
  <2>1. n \in Nat /\ 1 .. n = 1 .. 1
    BY <1>1, <1>2
  <2> HIDE DEF n
  <2>2. 1 \in 1 .. 1 /\ 2 \notin 1 .. 1
    OBVIOUS
  <2>3. 1 \in 1 .. n /\ 2 \notin 1 .. n
    BY <2>1, <2>2
  <2>4. n = 1
    BY <2>1, <2>3
  <2> QED BY <2>4 DEF n
<1>3. ASSUME Len(s) = 1
      PROVE  s[1] \in S /\ Range(s) = {s[1]} /\ DOMAIN s = 1 .. 1
  <2>1. 1 \in 1 .. Len(s) /\ DOMAIN s = {1}
    BY <1>1, <1>3
  <2> QED BY <1>1, <1>3, <2>1 DEF Range
<1> QED BY <1>2, <1>3

LEMMA DispatchFollows ==
    ASSUME ReducerInv, ReducerInv', HistoryInv, OneEach,
           NEW client \in Conn, NEW n \in 1 .. MaxMounts[client], Dispatch(client, n)
    PROVE  HistoryInv'
<1> DEFINE U == Sent(sequence_number)
           request == AppendRequest(RandId(client, n), dispatched')
<1>1. /\ UNCHANGED <<storeVars, status, subscriptions, inbox, history>>
      /\ up' = [up EXCEPT ![client] = Append(@, request)]
      /\ compactors' = compactors \/ compactors' = [compactors EXCEPT ![client][n].state = Reduce(@, dispatched')]
      /\ n \in DOMAIN compactors[client]
  BY DEF Dispatch, roomVars, connVars
<1>2. /\ up \in [Conn -> Seq(U)] /\ up' \in [Conn -> Seq(U)]
      /\ compactors \in [Conn -> Seq(Confirmed(sequence_number))]
      /\ compactors' \in [Conn -> Seq(Confirmed(sequence_number))]
  BY <1>1 DEF ReducerInv, storeVars
<1>3. n = 1
  BY MaxMountsAssumption DEF OneEach
<1>4. \A c \in Conn : c # client => up'[c] = up[c] /\ compactors'[c] = compactors[c]
  BY <1>1, <1>2
<1>5. Live(client) /\ Len(compactors[client]) = 1
  BY <1>1, EmptySeq DEF HistoryInv, Follows
<1> DEFINE c1 == compactors[client][1]
           d1 == compactors'[client][1]
<1>6. /\ Len(compactors'[client]) = 1 /\ d1 \in Compactor
      /\ d1.lastConfirmedSeq = c1.lastConfirmedSeq /\ d1.lastConfirmedState = c1.lastConfirmedState
  <2> DEFINE C == Confirmed(sequence_number)
  <2>1. compactors[client] \in Seq(C) /\ compactors'[client] \in Seq(C)
    BY <1>2
  <2>2. c1 \in C /\ DOMAIN compactors[client] = 1 .. 1
    BY <1>5, <2>1, OnlyOne
  <2>3. DOMAIN compactors'[client] = DOMAIN compactors[client]
    BY <1>1, <1>2
  <2>4. Len(compactors'[client]) = 1
    BY <2>1, <2>2, <2>3, OnlyOne
  <2>5. d1 \in C
    BY <2>1, <2>4, OnlyOne
  <2>6. d1.lastConfirmedSeq = c1.lastConfirmedSeq /\ d1.lastConfirmedState = c1.lastConfirmedState
    <3> DEFINE told == compactors[client]
               after == [told[1] EXCEPT !.state = Reduce(@, dispatched')]
    <3>1. after.lastConfirmedSeq = c1.lastConfirmedSeq /\ after.lastConfirmedState = c1.lastConfirmedState
      BY <2>2 DEF Confirmed, Compactor
    <3>2. compactors' = compactors \/ compactors' = [compactors EXCEPT ![client] = [told EXCEPT ![1] = after]]
      BY <1>1, <1>2, <1>3
    <3> HIDE DEF after
    <3>3. compactors'[client] = told \/ compactors'[client] = [told EXCEPT ![1] = after]
      BY <1>2, <3>2
    <3>4. d1 = c1 \/ d1 = after
      BY <2>2, <3>3
    <3> QED BY <3>1, <3>4
  <2> QED BY <2>4, <2>5, <2>6 DEF Confirmed
<1>7. up'[client] = Append(up[client], request) /\ up'[client] # <<>>
      /\ (up[client] # <<>> => Head(up'[client]) = Head(up[client]))
  <2>1. up'[client] = Append(up[client], request) /\ request \in U
    <3>1. dispatched' \in 1 .. MaxDispatch
      BY MaxDispatchAssumption DEF Dispatch, ReducerInv
    <3>2. RandId(client, n) \in RandIds
      BY DEF RandIds
    <3> QED BY <1>1, <1>2, <3>1, <3>2 DEF AppendRequest, Sent
  <2>2. up[client] \in Seq(U)
    BY <1>2
  <2> HIDE DEF U, request
  <2>3. /\ Len(up'[client]) = Len(up[client]) + 1 /\ Len(up[client]) \in Nat
        /\ \A i \in 1 .. Len(up[client]) : up'[client][i] = up[client][i]
        /\ up'[client] \in Seq(U)
    BY <2>1, <2>2, AppendProperties, LenProperties
  <2>4. up'[client] # <<>>
    BY <2>3, EmptySeq
  <2>5. ASSUME up[client] # <<>>
        PROVE  Head(up'[client]) = Head(up[client])
    <3>1. Len(up[client]) > 0
      BY <2>2, <2>3, <2>5, EmptySeq
    <3> QED BY <2>2, <2>3, <2>4, <2>5, <3>1, HeadTailProperties
  <2> QED BY <2>1, <2>4, <2>5
<1>8. Follows(client)'
  <2>1. Follows(client)
    BY DEF HistoryInv
  <2>2. Knows(history, c1) /\ (Waiting(client) \/ Joined(client))
    BY <1>5, <2>1 DEF Follows
  <2> HIDE DEF c1, d1
  <2>3. Knows(history, d1)
    BY <1>6, <2>2 DEF Knows
  <2>4. Waiting(client) => Waiting(client)'
    BY <1>1, <1>6, <1>7 DEF Waiting, c1, d1
  <2>5. Joined(client) => Joined(client)'
    BY <1>1, <1>6 DEF Joined, c1, d1, storeVars
  <2>6. Knows(history, compactors[client][1])'
    BY <1>1, <2>3 DEF d1
  <2> QED BY <1>1, <1>5, <1>6, <2>1, <2>2, <2>4, <2>5, <2>6 DEF Follows, Live
<1>9. \A c \in Conn : Follows(c)'
  <2> SUFFICES ASSUME NEW c \in Conn, c # client
               PROVE  Follows(c)'
    BY <1>8
  <2>1. Follows(c)
    BY DEF HistoryInv
  <2> QED BY <1>1, <1>4, <2>1, FollowsKept DEF storeVars
<1>10. \A c \in Conn : TruthfulRequests(history, up'[c])
  <2>1. TruthfulRequests(history, up'[client])
    <3>1. TruthfulRequests(history, up[client]) /\ up[client] \in Seq(U)
      BY <1>2 DEF HistoryInv
    <3>2. request.action.type # "compact"
      BY DEF AppendRequest
    <3>3. up'[client] \in Seq(U) /\ up'[client] = Append(up[client], request)
      BY <1>2, <1>7
    <3> HIDE DEF request, U
    <3>4. request \in U \cup {request} /\ up[client] \in Seq(U \cup {request})
      BY <3>1, SeqMonotone
    <3> QED BY <3>1, <3>2, <3>3, <3>4, RequestsAppend
  <2> QED BY <1>4, <2>1 DEF HistoryInv
<1> QED BY <1>1, <1>9, <1>10 DEF HistoryInv, storeVars

\* One entry is a replay of one.
LEMMA ReplayOfOne ==
    ASSUME NEW randId, NEW compactor \in Compactor, NEW entry \in SequenceValue, Value = ReducerValue
    PROVE  OnSequenceValues(randId, compactor, <<entry>>) = OnSequenceValue(randId, compactor, entry)
<1> DEFINE data == <<entry>>
<1>1. data \in Seq(SequenceValue) /\ Len(data) = 1 /\ data[1] = entry
  OBVIOUS
<1> HIDE DEF data
<1>2. PICK told : /\ Told(randId, compactor, data, told)
                  /\ OnSequenceValues(randId, compactor, data) = told[Len(data)]
  BY <1>1, OnSequenceValuesFacts
<1>3. told[0] = compactor /\ 1 \in 1 .. Len(data) /\ 1 - 1 = 0
  BY <1>1, <1>2 DEF Told
<1>4. told[1] = OnSequenceValue(randId, told[1 - 1], data[1])
  BY <1>2, <1>3 DEF Told
<1> QED BY <1>1, <1>2, <1>3, <1>4 DEF data

\* What a Compactor is told takes it along.
LEMMA TellFollows ==
    ASSUME NEW h \in Histories, NEW randId, NEW compactor, Knows(h, compactor), Value = ReducerValue,
           NEW message \in Message, NEW to \in Nat, Leads(h, compactor.lastConfirmedSeq, message, to),
           NEW entries,
           \/ message.type = "push" /\ entries = <<EntryOf(message)>>
           \/ message.type = "init" /\ entries = message.data
    PROVE  /\ Knows(h, OnSequenceValues(randId, compactor, entries))
           /\ OnSequenceValues(randId, compactor, entries).lastConfirmedSeq = to
<1>1. compactor \in Compactor /\ compactor.lastConfirmedSeq \in Nat
  BY DEF Knows, Compactor
<1>2. CASE message.type = "push"
  <2> DEFINE entry == EntryOf(message)
             after == OnSequenceValue(randId, compactor, entry)
  <2>1. entry \in SequenceValue /\ entry.seq = message.seq /\ message.seq \in Nat
    BY <1>2 DEF Message, PongMessage, EntryOf, SequenceValue
  <2>2. /\ Truthful(h, entry)
        /\ \/ entry.seq = compactor.lastConfirmedSeq + 1 /\ to = compactor.lastConfirmedSeq + 1
           \/ entry.seq <= compactor.lastConfirmedSeq /\ to = compactor.lastConfirmedSeq
    BY <1>2, <2>1 DEF Leads
  <2> HIDE DEF entry
  <2>3. entry.seq <= compactor.lastConfirmedSeq + 1
    BY <1>1, <2>1, <2>2
  <2>4. Knows(h, after) /\ after.lastConfirmedSeq = IF entry.seq <= compactor.lastConfirmedSeq
                                                   THEN compactor.lastConfirmedSeq ELSE entry.seq
    BY <2>1, <2>2, <2>3, KnowsNext
  <2> HIDE DEF after
  <2>5. after.lastConfirmedSeq = to
    BY <1>1, <2>1, <2>2, <2>4
  <2>6. OnSequenceValues(randId, compactor, <<entry>>) = after
    BY <1>1, <2>1, ReplayOfOne DEF after
  <2> QED BY <1>2, <2>4, <2>5, <2>6 DEF entry
<1>3. CASE message.type = "init"
  <2>1. message.data \in Seq(SequenceValue)
    BY <1>3 DEF Message, PongMessage
  <2>2. Increasing(message.data) /\ Complete(h, Range(message.data), to) /\ compactor.lastConfirmedSeq <= to
    BY <1>3 DEF Leads
  <2>3. LET after == OnSequenceValues(randId, compactor, message.data)
        IN  Knows(h, after) /\ after.lastConfirmedSeq = to
    BY <2>1, <2>2, Replay
  <2> QED BY <1>3, <2>3
<1> QED BY <1>2, <1>3

\* Snapshots of what is known are true.
LEMMA SnapshotsTrue ==
    ASSUME NEW h, NEW told \in Seq(Compactor), Len(told) = 1, Knows(h, told[1]), NEW size,
           NEW requests \in Seq(Sent(Len(h))), TruthfulRequests(h, requests)
    PROVE  TruthfulRequests(h, requests \o OnSizes(told, size))
<1> DEFINE S == Snapshots(told)
           T == UNION {Sent(Len(h)), S}
           sent == OnSizes(told, size)
           all == requests \o sent
<1>1. sent \in Seq(S)
  BY OnSizesFacts
<1>2. \A request \in S : request.value.state = Actions(h, request.action.seq)
  <2> SUFFICES ASSUME NEW n \in DOMAIN told
               PROVE  CompactRequest(told[n]).value.state = Actions(h, CompactRequest(told[n]).action.seq)
    BY DEF Snapshots
  <2>1. n = 1
    BY OnlyOne
  <2> QED BY <2>1 DEF CompactRequest, CompactRequestOf, Knows
<1> HIDE DEF S, sent
<1>3. requests \in Seq(T) /\ sent \in Seq(T)
  <2>1. Sent(Len(h)) \subseteq T /\ S \subseteq T
    OBVIOUS
  <2> HIDE DEF T
  <2> QED BY <1>1, <2>1, SeqMonotone
<1> HIDE DEF T
<1>4. /\ Len(all) = Len(requests) + Len(sent) /\ Len(requests) \in Nat /\ Len(sent) \in Nat
      /\ \A i \in 1 .. Len(requests) + Len(sent) :
            all[i] = IF i <= Len(requests) THEN requests[i] ELSE sent[i - Len(requests)]
  BY <1>3, ConcatProperties, LenProperties
<1>5. \A i \in 1 .. Len(sent) : sent[i] \in S
  BY <1>1, ElementOfSeq
<1> HIDE DEF all
<1>6. ASSUME NEW i \in 1 .. Len(all), all[i].type = "push", all[i].action.type = "compact"
      PROVE  all[i].value.state = Actions(h, all[i].action.seq)
  <2>1. CASE i <= Len(requests)
    <3>1. i \in 1 .. Len(requests) /\ all[i] = requests[i]
      BY <1>4, <2>1
    <3> QED BY <1>6, <3>1 DEF TruthfulRequests
  <2>2. CASE ~ (i <= Len(requests))
    <3>1. i - Len(requests) \in 1 .. Len(sent) /\ all[i] = sent[i - Len(requests)]
      BY <1>4, <2>2
    <3> QED BY <1>2, <1>5, <3>1
  <2> QED BY <2>1, <2>2
<1> QED BY <1>6 DEF TruthfulRequests, all, sent

LEMMA ReceiveFollows ==
    ASSUME ReducerInv, ReducerInv', HistoryInv, Value = ReducerValue, NEW client \in Conn, Receive(client)
    PROVE  HistoryInv'
<1> DEFINE message == Head(inbox[client])
           c1 == compactors[client][1]
           d1 == compactors'[client][1]
<1>1. /\ UNCHANGED <<storeVars, status, subscriptions, history>>
      /\ Live(client) /\ inbox[client] # <<>>
      /\ inbox' = [inbox EXCEPT ![client] = Tail(@)]
  BY DEF Receive
<1>2. history \in Histories /\ sequence_number \in Nat /\ sequence_number = Len(history)
  BY HistoryFacts
<1>3. /\ inbox \in [Conn -> Seq(Message)]
      /\ compactors \in [Conn -> Seq(Compactor)] /\ compactors' \in [Conn -> Seq(Compactor)]
      /\ up \in [Conn -> Seq(Sent(sequence_number))]
  <2>1. \A n : Confirmed(n) \subseteq Compactor
    BY DEF Confirmed
  <2> QED BY <2>1, SeqMonotone DEF ReducerInv, RoomTypeOK
<1>4. /\ Len(compactors[client]) = 1 /\ Knows(history, c1)
      /\ subscriptions[ReducerKey][client] > 0
      /\ Reaches(history, c1.lastConfirmedSeq, inbox[client], sequence_number)
  BY <1>1 DEF HistoryInv, Follows, Waiting, Joined
<1>5. PICK to \in Nat : /\ Leads(history, c1.lastConfirmedSeq, message, to)
                        /\ Reaches(history, to, Tail(inbox[client]), sequence_number)
  BY <1>1, <1>3, <1>4, ReachesTail
<1>6. message \in Message /\ c1 \in Compactor /\ DOMAIN compactors[client] = 1 .. 1
  BY <1>1, <1>3, <1>4, OnlyOne, HeadTailProperties
<1> HIDE DEF message, c1, d1
\* The Compactor goes where the message leads.
<1>7. Len(compactors'[client]) = 1 /\ Knows(history, d1) /\ d1.lastConfirmedSeq = to
  <2> DEFINE Tell(entries) ==
                 compactors' = [compactors EXCEPT ![client] = [n \in DOMAIN @ |->
                                   OnSequenceValues(RandId(client, n), @[n], entries)]]
  <2>1. ASSUME NEW entries, Tell(entries),
               \/ message.type = "push" /\ entries = <<EntryOf(message)>>
               \/ message.type = "init" /\ entries = message.data
        PROVE  Len(compactors'[client]) = 1 /\ Knows(history, d1) /\ d1.lastConfirmedSeq = to
    <3>1. compactors'[client] = [n \in 1 .. 1 |-> OnSequenceValues(RandId(client, n), compactors[client][n], entries)]
      BY <1>3, <1>6, <2>1
    <3>2. DOMAIN compactors'[client] = 1 .. 1 /\ d1 = OnSequenceValues(RandId(client, 1), c1, entries)
      BY <3>1 DEF c1, d1
    <3>3. Len(compactors'[client]) = 1
      BY <1>3, <3>2, OnlyOne
    <3> HIDE DEF Tell
    <3> QED BY <1>2, <1>4, <1>5, <1>6, <2>1, <3>2, <3>3, TellFollows
  <2>2. ASSUME message.type = "stream_size", compactors' = compactors
        PROVE  Len(compactors'[client]) = 1 /\ Knows(history, d1) /\ d1.lastConfirmedSeq = to
    <3>1. to = c1.lastConfirmedSeq
      BY <1>5, <2>2 DEF Leads
    <3> QED BY <1>4, <2>2, <3>1 DEF c1, d1
  <2>3. \/ message.type = "push" /\ Tell(<<EntryOf(message)>>)
        \/ message.type = "init" /\ Tell(message.data)
        \/ message.type = "stream_size" /\ compactors' = compactors
    BY DEF Receive, message
  <2> HIDE DEF Tell
  <2>4. CASE message.type = "push" /\ Tell(<<EntryOf(message)>>)
    BY <2>1, <2>4
  <2>5. CASE message.type = "init" /\ Tell(message.data)
    BY <2>1, <2>5
  <2> QED BY <2>2, <2>3, <2>4, <2>5
<1>8. \A c \in Conn : c # client => up'[c] = up[c] /\ compactors'[c] = compactors[c] /\ inbox'[c] = inbox[c]
  <2>1. up' = up \/ \E sent : up' = [up EXCEPT ![client] = @ \o sent]
    BY DEF Receive
  <2>2. compactors' = compactors \/ \E told : compactors' = [compactors EXCEPT ![client] = told]
    BY DEF Receive
  <2> QED BY <1>1, <1>3, <2>1, <2>2
<1>9. Follows(client)'
  <2>1. /\ inbox'[client] = Tail(inbox[client]) /\ sequence_number' = sequence_number /\ history' = history
        /\ subscriptions' = subscriptions /\ status' = status
    BY <1>1, <1>3 DEF storeVars
  <2>2. Joined(client)'
    BY <1>4, <1>5, <1>7, <2>1 DEF Joined, d1
  <2>3. Knows(history, compactors[client][1])'
    BY <1>7, <2>1 DEF d1
  <2>4. status[client] # "new"
    BY <1>1 DEF Live
  <2> QED BY <1>1, <1>7, <2>1, <2>2, <2>3, <2>4 DEF Follows, Live
<1>10. \A c \in Conn : Follows(c)'
  <2> SUFFICES ASSUME NEW c \in Conn, c # client
               PROVE  Follows(c)'
    BY <1>9
  <2>1. Follows(c)
    BY DEF HistoryInv
  <2> QED BY <1>1, <1>8, <2>1, FollowsKept DEF storeVars
<1>11. TruthfulRequests(history, up'[client])
  <2>1. TruthfulRequests(history, up[client]) /\ up[client] \in Seq(Sent(Len(history)))
    BY <1>2, <1>3 DEF HistoryInv
  <2>2. CASE up' = up
    BY <2>1, <2>2
  <2>3. CASE up' = [up EXCEPT ![client] = @ \o OnSizes(compactors[client], message.size)]
    <3>1. up'[client] = up[client] \o OnSizes(compactors[client], message.size)
      BY <1>3, <2>3
    <3>2. compactors[client] \in Seq(Compactor) /\ Knows(history, compactors[client][1])
      BY <1>3, <1>4 DEF c1
    <3> QED BY <1>4, <2>1, <3>1, <3>2, SnapshotsTrue
  <2> QED BY <2>2, <2>3 DEF Receive, message
<1>12. \A c \in Conn : TruthfulRequests(history, up'[c])
  BY <1>8, <1>11 DEF HistoryInv
<1> QED BY <1>1, <1>10, <1>12 DEF HistoryInv, storeVars

-----------------------------------------------------------------------------
(***************************************************************************)
(* The steps of the server.                                                *)
(***************************************************************************)

\* A get is answered with the stream, which leads to the last number from wherever.
LEMMA GetFollows ==
    ASSUME ReducerInv, HistoryInv, ChannelsNotFull', NEW client \in Conn,
           Get(client, ReducerKey, 0), up' = [up EXCEPT ![client] = Tail(@)],
           up[client] # <<>>, UNCHANGED <<compactors, history>>
    PROVE  HistoryInv'
<1> DEFINE answer == InitMessage(ReducerKey, Read(ReducerKey, 0))
           c1 == compactors[client][1]
<1>1. /\ Live(client) /\ UNCHANGED <<storeVars, status>>
      /\ subscriptions' = [subscriptions EXCEPT ![ReducerKey][client] = @ + 1]
      /\ inbox' = [inbox EXCEPT ![client] = Offer(@, <<answer>>)]
  BY NoSeqAssumption DEF Get
<1>2. /\ history \in Histories /\ sequence_number \in Nat /\ sequence_number = Len(history)
      /\ subjects[ReducerKey] \in Seq(SequenceValue) /\ Increasing(subjects[ReducerKey])
  BY HistoryFacts
<1>3. /\ inbox \in [Conn -> Seq(Message)] /\ subscriptions \in [Key -> [Conn -> Nat]]
      /\ up \in [Conn -> Seq(Sent(sequence_number))]
  BY DEF ReducerInv, RoomTypeOK
<1>4. subscriptions'[ReducerKey][client] > 0
      /\ \A c \in Conn : c # client => subscriptions'[ReducerKey][c] = subscriptions[ReducerKey][c]
  BY <1>1, <1>3, ReducerKeyAssumption
<1>5. answer \in Message /\ answer.type = "init"
      /\ Increasing(answer.data) /\ Complete(history, Range(answer.data), sequence_number)
  <2>1. Range(Read(ReducerKey, 0)) = {e \in Range(subjects[ReducerKey]) : e.seq > 0}
        /\ Read(ReducerKey, 0) \in Seq(SequenceValue) /\ Increasing(Read(ReducerKey, 0))
    BY <1>2, RetainAfterFacts DEF Read
  <2>2. \A e \in Range(subjects[ReducerKey]) : e.seq > 0
    BY LenProperties, <1>2 DEF HistoryInv, Complete, Truthful
  <2> DEFINE shown == Read(ReducerKey, 0)
  <2> HIDE DEF shown
  <2>3. Range(shown) = Range(subjects[ReducerKey])
    BY <2>1, <2>2 DEF shown
  <2>4. Complete(history, Range(shown), sequence_number)
    BY <2>3 DEF HistoryInv
  <2>5. answer = InitMessage(ReducerKey, shown)
    BY DEF shown
  <2>6. shown \in Seq(SequenceValue) /\ Increasing(shown)
    BY <2>1 DEF shown
  <2> HIDE DEF answer
  <2> QED BY <2>4, <2>5, <2>6, ReducerKeyAssumption DEF InitMessage, Message
<1> HIDE DEF answer
<1>6. inbox'[client] = inbox[client] \o <<answer>>
  <2>1. inbox'[client] = Offer(inbox[client], <<answer>>) /\ Len(inbox'[client]) < Capacity
    BY <1>1, <1>3 DEF ChannelsNotFull
  <2>2. inbox[client] \in Seq(Message) /\ <<answer>> \in Seq(Message)
    BY <1>3, <1>5
  <2> QED BY <2>1, <2>2, OfferAll
<1>7. Len(compactors[client]) = 1 /\ Knows(history, c1) /\ (Waiting(client) \/ Joined(client))
      /\ status[client] # "new"
  BY <1>1 DEF HistoryInv, Follows, Live
<1> HIDE DEF c1
<1>8. Reaches(history, c1.lastConfirmedSeq, inbox'[client], sequence_number)
  <2>1. PICK mid \in Nat : mid <= sequence_number /\ Reaches(history, c1.lastConfirmedSeq, inbox[client], mid)
    <3>1. CASE Waiting(client)
      BY <1>2, <3>1, ReachesNothing DEF Waiting, c1
    <3>2. CASE Joined(client)
      BY <1>2, <3>2 DEF Joined, c1
    <3> QED BY <1>7, <3>1, <3>2
  <2> DEFINE more == <<answer>>
  <2>2. more \in Seq(Message) /\ more # <<>> /\ Len(more) = 1 /\ more[1] = answer
    BY <1>5
  <2>3. Leads(history, mid, answer, sequence_number)
    BY <1>5, <2>1 DEF Leads
  <2>4. \A i \in 1 .. Len(more) : Leads(history, IF i = 1 THEN mid ELSE sequence_number, more[i], sequence_number)
    BY <2>2, <2>3
  <2> HIDE DEF more
  <2>5. Reaches(history, c1.lastConfirmedSeq, inbox[client] \o more, sequence_number)
    BY <1>2, <1>3, <2>1, <2>2, <2>4, ReachesMore
  <2> QED BY <1>6, <2>5 DEF more
<1>9. Follows(client)'
  <2>1. sequence_number' = sequence_number
    BY <1>1 DEF storeVars
  <2>2. Joined(client)'
    BY <1>4, <1>8, <2>1 DEF Joined, c1
  <2> QED BY <1>1, <1>7, <2>2 DEF Follows, Live, c1
<1>10. \A c \in Conn : Follows(c)'
  <2> SUFFICES ASSUME NEW c \in Conn, c # client
               PROVE  Follows(c)'
    BY <1>9
  <2>1. Follows(c)
    BY DEF HistoryInv
  <2>2. inbox'[c] = inbox[c] /\ up'[c] = up[c]
    BY <1>1, <1>3
  <2> QED BY <1>1, <1>4, <2>1, <2>2, FollowsKept DEF storeVars
<1>11. \A c \in Conn : TruthfulRequests(history, up'[c])
  <2> SUFFICES ASSUME NEW c \in Conn
               PROVE  TruthfulRequests(history, up'[c])
    OBVIOUS
  <2>1. TruthfulRequests(history, up[c]) /\ up[c] \in Seq(Sent(sequence_number))
    BY <1>3 DEF HistoryInv
  <2>2. up'[c] = IF c = client THEN Tail(up[c]) ELSE up[c]
    BY <1>3
  <2> QED BY <2>1, <2>2, RequestsTail
<1> QED BY <1>1, <1>10, <1>11 DEF HistoryInv, storeVars

\* The history that a push leaves says the same of what has been.
Extends(g, h) ==
    /\ \A from, messages, to : Reaches(h, from, messages, to) => Reaches(g, from, messages, to)
    /\ \A compactor : Knows(h, compactor) => Knows(g, compactor)

\* What a push delivers leads every client that has joined to the new last number, and
\* those that wait are told nothing.
LEMMA PushFollows ==
    ASSUME ReducerInv, RoomTypeOK', HistoryInv, ChannelsNotFull', NEW client \in Conn, NEW c \in Conn,
           NEW value \in Value, NEW action \in ClientAction(sequence_number),
           Push(client, ReducerKey, value, action), up' = [up EXCEPT ![client] = Tail(@)],
           Head(up[client]).type = "push", UNCHANGED compactors, Extends(history', history),
           Broadcasts(action) => Truthful(history', [value |-> value, seq |-> Stamp(action)])
    PROVE  Follows(c)'
<1> DEFINE message == PushMessage(ReducerKey, [value |-> value, seq |-> Stamp(action)])
           size    == StreamSizeMessage(ReducerKey, Len(subjects'[ReducerKey]))
           hears   == Broadcasts(action) /\ Live(c) /\ subscriptions[ReducerKey][c] > 0
           new     == PushDeliveries(c, client, ReducerKey, value, action, subjects'[ReducerKey])
           c1      == compactors[c][1]
<1>1. /\ inbox \in [Conn -> Seq(Message)] /\ subscriptions \in [Key -> [Conn -> Nat]]
      /\ sequence_number \in Nat /\ up \in [Conn -> Seq(Sent(sequence_number))]
      /\ subjects'[ReducerKey] \in Seq(SequenceValue)
  BY ReducerKeyAssumption DEF ReducerInv, RoomTypeOK, StoreTypeOK
<1>2. /\ new \in Seq(Message)
      /\ \A i \in 1 .. Len(new) : (new[i] = size /\ c = client) \/ (new[i] = message /\ hears)
      /\ hears => Len(new) > 0 /\ new[1] = message
  BY <1>1, ReducerDeliveries, ReducerKeyAssumption DEF ReducerInv
<1>3. ~Live(c) => new = <<>>
  BY DEF PushDeliveries
<1>4. message.type = "push" /\ message.seq = Stamp(action) /\ size.type = "stream_size"
      /\ EntryOf(message) = [value |-> value, seq |-> Stamp(action)]
  BY DEF PushMessage, StreamSizeMessage, EntryOf
<1>5. /\ sequence_number' \in Nat
      /\ sequence_number' = IF Broadcasts(action) THEN sequence_number + 1 ELSE sequence_number
      /\ Broadcasts(action) => Stamp(action) = sequence_number + 1
  <2>1. sequence_number' = SequenceAfter(action, sequence_number)
    BY DEF Push, ApplyAction
  <2> QED BY <1>1, <2>1 DEF SequenceAfter, Broadcasts, Stamp, StampOf
<1>6. inbox'[c] = inbox[c] \o new
  <2>1. inbox'[c] = Offer(inbox[c], new) /\ Len(inbox'[c]) < Capacity
    BY DEF Push, ChannelsNotFull
  <2> HIDE DEF new
  <2>2. inbox[c] \in Seq(Message)
    BY <1>1
  <2> QED BY <1>2, <2>1, <2>2, OfferAll
<1>7. /\ status' = status /\ Live(client)
      /\ subscriptions'[ReducerKey][c] = subscriptions[ReducerKey][c] \/ subscriptions'[ReducerKey][c] = 0
      /\ Live(c) => subscriptions'[ReducerKey][c] = subscriptions[ReducerKey][c]
  BY <1>1, ReducerKeyAssumption DEF Push
<1>8. up'[c] = IF c = client THEN Tail(up[c]) ELSE up[c]
  BY <1>1
<1>9. Follows(c)
  BY DEF HistoryInv
<1> HIDE DEF message, size, new, c1
<1>10. CASE ~Live(c)
  <2>1. compactors'[c] = <<>> /\ inbox[c] = <<>> /\ up[c] = <<>> /\ c # client
    BY <1>7, <1>9, <1>10 DEF Follows
  <2>2. inbox'[c] = <<>> /\ up'[c] = <<>>
    BY <1>3, <1>6, <1>8, <1>10, <2>1
  <2>3. ~Live(c)' /\ (status'[c] = "new" => subscriptions'[ReducerKey][c] = 0)
    BY <1>7, <1>9, <1>10 DEF Follows, Live
  <2> QED BY <2>1, <2>2, <2>3 DEF Follows
<1>11. CASE Live(c) /\ Waiting(c)
  <2>1. c # client
    BY <1>11 DEF Waiting, GetRequest
  <2>2. ~hears
    BY <1>11 DEF Waiting
  <2>3. new = <<>>
    <3>1. Len(new) \in Nat /\ \A i \in 1 .. Len(new) : FALSE
      BY <1>2, <2>1, <2>2, LenProperties
    <3>2. Len(new) = 0
      <4>1. 1 \notin 1 .. Len(new)
        BY <3>1
      <4> QED BY <3>1, <4>1
    <3> QED BY <1>2, <3>2, EmptySeq
  <2>4. inbox'[c] = <<>> /\ up'[c] = up[c]
    BY <1>6, <1>8, <1>11, <2>1, <2>3 DEF Waiting
  <2>5. Waiting(c)'
    BY <1>7, <1>11, <2>4 DEF Waiting
  <2>6. Len(compactors[c]) = 1 /\ Knows(history', compactors[c][1])
    BY <1>9, <1>11 DEF Follows, Extends
  <2>7. Live(c)' /\ status'[c] # "new"
    BY <1>7, <1>11 DEF Live
  <2> QED BY <2>5, <2>6, <2>7 DEF Follows
<1>12. CASE Live(c) /\ Joined(c)
  <2>1. Reaches(history', c1.lastConfirmedSeq, inbox[c], sequence_number)
    BY <1>12 DEF Joined, Extends, c1
  <2>2. ASSUME NEW i \in 1 .. Len(new)
        PROVE  Leads(history', IF i = 1 THEN sequence_number ELSE sequence_number', new[i], sequence_number')
    <3>1. CASE new[i] = message /\ hears
      BY <1>1, <1>4, <1>5, <3>1 DEF Leads
    <3>2. CASE new[i] = size /\ ~hears
      <4>1. ~Broadcasts(action)
        BY <1>12, <3>2 DEF Joined
      <4> QED BY <1>1, <1>4, <1>5, <3>2, <4>1 DEF Leads
    <3>3. CASE new[i] = size /\ hears
      <4>1. i # 1
        BY <1>2, <1>4, <3>3
      <4> QED BY <1>1, <1>4, <1>5, <3>3, <4>1 DEF Leads
    <3> QED BY <1>2, <3>1, <3>2, <3>3
  <2>3. ASSUME new = <<>>
        PROVE  sequence_number = sequence_number'
    <3>1. ~hears
      BY <1>2, <2>3, EmptySeq
    <3>2. ~Broadcasts(action)
      BY <1>12, <3>1 DEF Joined
    <3> QED BY <1>5, <3>2
  <2>4. inbox[c] \in Seq(Message)
    BY <1>1
  <2>5. Reaches(history', c1.lastConfirmedSeq, inbox[c] \o new, sequence_number')
    BY <1>2, <1>5, <2>1, <2>2, <2>3, <2>4, ReachesMore
  <2>6. Joined(c)'
    BY <1>6, <1>7, <1>12, <2>5 DEF Joined, c1
  <2>7. Len(compactors[c]) = 1 /\ Knows(history', compactors[c][1])
    BY <1>9, <1>12 DEF Follows, Extends
  <2>8. Live(c)' /\ status'[c] # "new"
    BY <1>7, <1>12 DEF Live
  <2> QED BY <2>6, <2>7, <2>8 DEF Follows
<1> QED BY <1>9, <1>10, <1>11, <1>12 DEF Follows

\* Snapshots under way stay true as the history grows.
LEMMA RequestsKept ==
    ASSUME NEW h \in Histories, NEW x \in [seq : Nat, action : 1 .. MaxDispatch],
           NEW requests \in Seq(Sent(Len(h))), TruthfulRequests(h, requests)
    PROVE  TruthfulRequests(Append(h, x), requests)
<1>1. Len(h) \in Nat /\ \A n \in 0 .. Len(h) : Actions(Append(h, x), n) = Actions(h, n)
  BY HistoryGrows, LenProperties DEF Histories
<1>2. \A i \in 1 .. Len(requests) : requests[i] \in Sent(Len(h))
  BY ElementOfSeq
<1>3. ASSUME NEW request \in Sent(Len(h)), request.type = "push", request.action.type = "compact"
      PROVE  request.action.seq \in 0 .. Len(h)
  BY <1>1, <1>3 DEF Sent, GetRequest
<1> QED BY <1>1, <1>2, <1>3 DEF TruthfulRequests

LEMMA StreamAfterPush ==
    ASSUME ReducerInv, NEW client \in Conn, NEW value \in Value, NEW action \in ClientAction(sequence_number),
           Push(client, ReducerKey, value, action)
    PROVE  LET entry == [value |-> value, seq |-> Stamp(action)]
           IN  /\ entry \in SequenceValue
               /\ Range(subjects'[ReducerKey]) = RangeAfter(subjects[ReducerKey], entry, action)
               /\ sequence_number' = SequenceAfter(action, sequence_number)
<1> DEFINE entry == [value |-> value, seq |-> Stamp(action)]
<1>1. /\ sequence_number \in Nat /\ subjects \in [Key -> Seq(SequenceValue)]
      /\ subjects[ReducerKey] \in Seq(SequenceValue)
  BY ReducerKeyAssumption DEF ReducerInv, RoomTypeOK, StoreTypeOK
<1>2. entry \in SequenceValue
  BY <1>1, ClientActionType DEF Stamp, SequenceValue
<1>3. /\ subjects' = [subjects EXCEPT ![ReducerKey] = StreamAfter(@, entry, action)]
      /\ sequence_number' = SequenceAfter(action, sequence_number)
  BY DEF Push, ApplyAction
<1> HIDE DEF entry
<1>4. subjects'[ReducerKey] = StreamAfter(subjects[ReducerKey], entry, action)
  BY <1>1, <1>3, ReducerKeyAssumption
<1> QED BY <1>1, <1>2, <1>3, <1>4, StreamAfterRange DEF entry

\* An append goes to the end of the stream and of the history.
LEMMA AppendFollows ==
    ASSUME ReducerInv, RoomTypeOK', HistoryInv, ChannelsNotFull', Value = ReducerValue,
           NEW client \in Conn, NEW value \in Value, value.type = "apply", value.action \in 1 .. MaxDispatch,
           Push(client, ReducerKey, value, [type |-> "append"]), up' = [up EXCEPT ![client] = Tail(@)],
           up[client] # <<>>, Head(up[client]).type = "push", UNCHANGED compactors,
           history' = Append(history, [seq |-> Stamp([type |-> "append"]), action |-> value.action])
    PROVE  HistoryInv'
<1> DEFINE action == [type |-> "append"]
           entry  == [value |-> value, seq |-> Stamp(action)]
           x      == [seq |-> Stamp(action), action |-> value.action]
<1>1. /\ history \in Histories /\ sequence_number \in Nat /\ sequence_number = Len(history)
      /\ up \in [Conn -> Seq(Sent(sequence_number))]
  BY HistoryFacts DEF ReducerInv
<1>2. Stamp(action) = Len(history) + 1 /\ Broadcasts(action) /\ action \in ClientAction(sequence_number)
  BY <1>1 DEF Stamp, StampOf, Broadcasts, ClientAction
<1>3. x \in [seq : Nat, action : 1 .. MaxDispatch] /\ history' = Append(history, x)
  BY <1>1, <1>2
<1>4. /\ Range(subjects'[ReducerKey]) = Range(subjects[ReducerKey]) \cup {entry}
      /\ sequence_number' = Len(history) + 1
  BY <1>1, <1>2, StreamAfterPush DEF RangeAfter, SequenceAfter
<1>5. x.seq = Len(history) + 1 /\ x.action = value.action
      /\ entry.seq = Len(history) + 1 /\ entry.value.type = "apply" /\ entry.value.action = x.action
  BY <1>2
<1>6. Complete(history, Range(subjects[ReducerKey]), Len(history))
  BY <1>1 DEF HistoryInv
<1>7. Push(client, ReducerKey, value, action)
  OBVIOUS
<1> HIDE DEF action, x
<1>8. Complete(history', Range(subjects'[ReducerKey]), sequence_number')
  <2> HIDE DEF entry
  <2> QED BY <1>1, <1>3, <1>4, <1>5, <1>6, CompleteAppend
<1>9. /\ Len(history') = sequence_number'
      /\ \A i \in 1 .. Len(history') : history'[i].seq = i
  <2>1. /\ Len(history') = Len(history) + 1 /\ history'[Len(history) + 1] = x
        /\ \A i \in 1 .. Len(history) : history'[i] = history[i]
    BY <1>1, <1>3, HistoryGrows
  <2>2. \A i \in 1 .. Len(history) + 1 : i \in 1 .. Len(history) \/ i = Len(history) + 1
    BY <1>1
  <2> QED BY <1>4, <1>5, <2>1, <2>2 DEF HistoryInv
<1>10. Extends(history', history)
  BY <1>1, <1>3, ReachesKept, TruthKept DEF Extends
<1>11. Truthful(history', entry)
  BY <1>4, <1>8 DEF Complete
<1>12. \A c \in Conn : Follows(c)'
  BY <1>2, <1>7, <1>10, <1>11, PushFollows
<1>13. ASSUME NEW c \in Conn
       PROVE  TruthfulRequests(history', up'[c])
  <2> DEFINE U == Sent(Len(history))
  <2>1. TruthfulRequests(history, up[c]) /\ up[c] \in Seq(U)
    BY <1>1 DEF HistoryInv
  <2>2. TruthfulRequests(history', up[c])
    BY <1>1, <1>3, <2>1, RequestsKept
  <2>3. up'[c] = IF c = client THEN Tail(up[c]) ELSE up[c]
    BY <1>1
  <2> HIDE DEF U
  <2> QED BY <2>1, <2>2, <2>3, RequestsTail
<1> QED BY <1>8, <1>9, <1>12, <1>13 DEF HistoryInv

\* A snapshot goes to the front, however late.
LEMMA CompactFollows ==
    ASSUME ReducerInv, RoomTypeOK', HistoryInv, ChannelsNotFull', Value = ReducerValue, ~RawCompaction,
           NEW client \in Conn, NEW value \in Value, NEW action \in ClientAction(sequence_number),
           value.type = "reset", action.type = "compact", value.state = Actions(history, action.seq),
           Push(client, ReducerKey, value, action), up' = [up EXCEPT ![client] = Tail(@)],
           up[client] # <<>>, Head(up[client]).type = "push", UNCHANGED <<compactors, history>>
    PROVE  HistoryInv'
<1> DEFINE entry == [value |-> value, seq |-> Stamp(action)]
           log   == Range(subjects[ReducerKey])
<1>1. /\ history \in Histories /\ sequence_number \in Nat /\ sequence_number = Len(history)
      /\ up \in [Conn -> Seq(Sent(sequence_number))]
  BY HistoryFacts DEF ReducerInv
<1>2. action.seq \in 1 .. sequence_number /\ Stamp(action) = action.seq /\ ~Broadcasts(action)
  BY <1>1, ClientActionType DEF Stamp, StampOf, Broadcasts
<1>3. /\ Range(subjects'[ReducerKey]) = {entry} \cup {e \in log : e.seq > entry.seq}
      /\ sequence_number' = sequence_number
  BY <1>1, <1>2, StreamAfterPush DEF RangeAfter, SequenceAfter
<1>4. Complete(history, log, sequence_number)
  BY DEF HistoryInv
<1>5. entry.seq \in 1 .. sequence_number /\ entry.value.type = "reset" /\ Truthful(history, entry)
  BY <1>1, <1>2 DEF Truthful
<1>6. Complete(history', Range(subjects'[ReducerKey]), sequence_number')
  <2> HIDE DEF entry, log
  <2> QED BY <1>1, <1>3, <1>4, <1>5, CompleteCompact
<1>7. Extends(history', history)
  BY DEF Extends
<1>8. \A c \in Conn : Follows(c)'
  BY <1>2, <1>7, PushFollows
<1>9. ASSUME NEW c \in Conn
      PROVE  TruthfulRequests(history', up'[c])
  <2> DEFINE U == Sent(Len(history))
  <2>1. TruthfulRequests(history', up[c]) /\ up[c] \in Seq(U)
    BY <1>1 DEF HistoryInv
  <2>2. up'[c] = IF c = client THEN Tail(up[c]) ELSE up[c]
    BY <1>1
  <2> HIDE DEF U
  <2> QED BY <2>1, <2>2, RequestsTail
<1> QED BY <1>3, <1>6, <1>8, <1>9 DEF HistoryInv

LEMMA ServeFollows ==
    ASSUME ReducerInv, RoomTypeOK', HistoryInv, ChannelsNotFull', Value = ReducerValue, ~RawCompaction,
           NEW client \in Conn, Serve(client)
    PROVE  HistoryInv'
<1> DEFINE request == Head(up[client])
           n       == sequence_number
<1>1. /\ request \in Sent(n) /\ n \in Nat /\ up[client] # <<>>
      /\ up' = [up EXCEPT ![client] = Tail(@)] /\ compactors' = compactors
  BY HeadOfUp DEF Serve, ReducerInv, RoomTypeOK, StoreTypeOK
<1>2. \/ request.type = "get" /\ Get(client, ReducerKey, request.seq) /\ history' = history
      \/ /\ request.type = "push"
         /\ Push(client, ReducerKey, request.value, request.action)
         /\ history' = IF request.action.type = "compact" THEN history
                       ELSE Append(history, [seq    |-> Stamp(request.action),
                                             action |-> request.value.action])
  BY DEF Serve
<1>3. TruthfulRequests(history, up[client]) /\ up[client] \in Seq(Sent(n))
  BY DEF HistoryInv, ReducerInv
<1>4. 1 \in 1 .. Len(up[client]) /\ request = up[client][1]
  BY <1>1, <1>3, HeadTailProperties, LenProperties, EmptySeq
<1>5. (request.type = "push" /\ request.action.type = "compact") =>
          request.value.state = Actions(history, request.action.seq)
  BY <1>3, <1>4 DEF TruthfulRequests
<1> HIDE DEF request
<1>6. CASE request = GetRequest
  <2>1. Get(client, ReducerKey, 0) /\ history' = history
    BY <1>2, <1>6 DEF GetRequest
  <2> QED BY <1>1, <2>1, GetFollows
<1>7. CASE request \in [type : {"push"}, action : [type : {"append"}],
                        value : [type : {"apply"}, action : 1 .. MaxDispatch, i : RandIds]]
  <2> DEFINE value == request.value
  <2>1. /\ value \in Value /\ value.type = "apply" /\ value.action \in 1 .. MaxDispatch
        /\ request.action = [type |-> "append"] /\ request.type = "push"
    BY <1>7 DEF ReducerValue
  <2>2. /\ Push(client, ReducerKey, value, [type |-> "append"])
        /\ history' = Append(history, [seq |-> Stamp([type |-> "append"]), action |-> value.action])
    BY <1>2, <2>1
  <2> HIDE DEF value
  <2> QED BY <1>1, <2>1, <2>2, AppendFollows DEF request
<1>8. CASE request \in [type : {"push"}, action : [type : {"compact"}, seq : 1 .. n],
                        value : [type : {"reset"}, state : States]]
  <2>1. /\ request.value \in Value /\ request.value.type = "reset" /\ request.type = "push"
        /\ request.action.type = "compact" /\ request.action \in ClientAction(n)
    BY <1>8 DEF ReducerValue, ClientAction
  <2>2. Push(client, ReducerKey, request.value, request.action) /\ history' = history
    BY <1>2, <2>1
  <2>3. request.value.state = Actions(history, request.action.seq)
    BY <1>5, <2>1
  <2> QED BY <1>1, <2>1, <2>2, <2>3, CompactFollows DEF request
<1> QED BY <1>1, <1>6, <1>7, <1>8 DEF Sent

LEMMA HistoryInvStep ==
    ASSUME ReducerInv, ReducerInv', HistoryInv, ChannelsNotFull', OneEach, Value = ReducerValue, ~RawCompaction,
           [ReducerNext]_reducerVars
    PROVE  HistoryInv'
<1>1. CASE UNCHANGED reducerVars
  BY <1>1 DEF reducerVars, roomVars, connVars, storeVars, HistoryInv, Follows, Waiting, Joined, Live
<1>2. RoomTypeOK'
  BY DEF ReducerInv
<1>3. CASE ReducerNext
  BY <1>2, <1>3, SubscribeFollows, LeaveFollows, DispatchFollows, ServeFollows, ReceiveFollows DEF ReducerNext
<1> QED BY <1>1, <1>3

LEMMA HistoryInvariant ==
    ASSUME Value = ReducerValue, ~RawCompaction, OneEach
    PROVE  ReducerSpec /\ []ChannelsNotFull => [](ReducerInv /\ HistoryInv)
<1>1. ReducerInv /\ ReducerInv' /\ HistoryInv /\ ChannelsNotFull' /\ [ReducerNext]_reducerVars => HistoryInv'
  BY HistoryInvStep
<1> QED BY <1>1, ReducerInvariant, HistoryInvInit, PTL DEF ReducerSpec

-----------------------------------------------------------------------------
(***************************************************************************)
(* Theorems.                                                               *)
(***************************************************************************)

LEMMA HistoryUpToIsActions ==
    ASSUME ReducerInv, HistoryInv, NEW n \in 0 .. sequence_number
    PROVE  HistoryUpTo(n) = Actions(history, n)
<1>1. /\ Len(history) = sequence_number /\ sequence_number \in Nat /\ DOMAIN history = 1 .. Len(history)
      /\ \A i \in 1 .. Len(history) : history[i].seq = i
  BY HistoryFacts, LenProperties DEF HistoryInv, Histories
<1>2. {i \in DOMAIN history : history[i].seq <= n} = 1 .. n
  BY <1>1
<1> QED BY <1>2 DEF HistoryUpTo, Actions

\* What a client has confirmed is the room's history up to its last confirmed number,
\* however many clients dispatch and compact, at whatever threshold, and whoever
\* comes and goes (compactor.ts: onSequenceValue and onSize).
THEOREM ConfirmedStaysHistory ==
    ASSUME Value = ReducerValue, ~RawCompaction, OneEach
    PROVE  ReducerSpec /\ []ChannelsNotFull => []ConfirmedIsHistory
<1>1. ReducerInv /\ HistoryInv => ConfirmedIsHistory
  <2> SUFFICES ASSUME ReducerInv, HistoryInv,
                      NEW client \in Conn, NEW compactor \in Range(compactors[client])
               PROVE  compactor.lastConfirmedState = HistoryUpTo(compactor.lastConfirmedSeq)
    BY DEF ConfirmedIsHistory
  <2>1. compactors[client] \in Seq(Confirmed(sequence_number)) /\ Follows(client)
    BY DEF ReducerInv, HistoryInv
  <2>2. Live(client)
    <3>1. Range(<<>>) = {}
      BY DEF Range
    <3> QED BY <2>1, <3>1 DEF Follows
  <2>3. Knows(history, compactor) /\ sequence_number = Len(history) /\ sequence_number \in Nat
    BY <2>1, <2>2, OnlyOne, HistoryFacts DEF Follows
  <2>4. compactor.lastConfirmedSeq \in 0 .. sequence_number
    BY <2>3 DEF Knows, Compactor
  <2> QED BY <2>3, <2>4, HistoryUpToIsActions DEF Knows
<1> QED BY <1>1, HistoryInvariant, PTL

\* A client that joins replays everything that was ever broadcast: no snapshot, of
\* whatever client and however late it is handled, loses, repeats or reorders an
\* action for those to come (store.rs: compact keeps what is numbered above it).
THEOREM ReplayStaysHistory ==
    ASSUME Value = ReducerValue, ~RawCompaction, OneEach
    PROVE  ReducerSpec /\ []ChannelsNotFull => []ReplayIsHistory
<1>1. ReducerInv /\ HistoryInv => ReplayIsHistory
  <2> SUFFICES ASSUME ReducerInv, HistoryInv, NEW randId \in RandIds
               PROVE  OnSequenceValues(randId, InitialCompactor, subjects[ReducerKey]).lastConfirmedState
                          = HistoryUpTo(sequence_number)
    BY DEF ReplayIsHistory
  <2> DEFINE after == OnSequenceValues(randId, InitialCompactor, subjects[ReducerKey])
  <2>1. Knows(history, InitialCompactor) /\ InitialCompactor.lastConfirmedSeq = 0
    <3>1. <<>> \in States /\ Actions(history, 0) = <<>>
      BY EmptySeq DEF States, Actions
    <3> QED BY <3>1, HistoryFacts DEF InitialCompactor, Knows, Compactor
  <2>2. Complete(history, Range(subjects[ReducerKey]), sequence_number)
    BY DEF HistoryInv
  <2>3. Knows(history, after) /\ after.lastConfirmedSeq = sequence_number
    BY <2>1, <2>2, HistoryFacts, Replay
  <2> HIDE DEF after
  <2>4. after.lastConfirmedState = HistoryUpTo(sequence_number)
    BY <2>3, HistoryFacts, HistoryUpToIsActions DEF Knows
  <2> QED BY <2>4 DEF after
<1> QED BY <1>1, HistoryInvariant, PTL

\* When every message has been handled, every client has confirmed everything: they
\* agree, whatever the order in which the server took their messages.
THEOREM AllStayConfirmedAtRest ==
    ASSUME Value = ReducerValue, ~RawCompaction, OneEach
    PROVE  ReducerSpec /\ []ChannelsNotFull => []AllConfirmedAtRest
<1>1. ReducerInv /\ HistoryInv => AllConfirmedAtRest
  <2> SUFFICES ASSUME ReducerInv, HistoryInv, AtRest,
                      NEW client \in Conn, NEW compactor \in Range(compactors[client])
               PROVE  compactor.lastConfirmedState = HistoryUpTo(sequence_number)
    BY DEF AllConfirmedAtRest
  <2>1. compactors[client] \in Seq(Confirmed(sequence_number)) /\ Follows(client)
    BY DEF ReducerInv, HistoryInv
  <2>2. Live(client)
    <3>1. Range(<<>>) = {}
      BY DEF Range
    <3> QED BY <2>1, <3>1 DEF Follows
  <2>3. up[client] = <<>> /\ inbox[client] = <<>>
    BY <2>2 DEF AtRest
  <2>4. Joined(client) /\ Len(compactors[client]) = 1 /\ Knows(history, compactors[client][1])
    BY <2>1, <2>2, <2>3 DEF Follows, Waiting
  <2>5. compactor = compactors[client][1]
    BY <2>1, <2>4, OnlyOne
  <2>6. Reaches(history, compactor.lastConfirmedSeq, <<>>, sequence_number)
    BY <2>3, <2>4, <2>5 DEF Joined
  <2>7. PICK at : Path(history, at, compactor.lastConfirmedSeq, <<>>, sequence_number)
    BY <2>6 DEF Reaches
  <2>8. compactor.lastConfirmedSeq = sequence_number
    BY <2>7 DEF Path
  <2> QED BY <2>4, <2>5, <2>8, HistoryFacts, HistoryUpToIsActions DEF Knows
<1> QED BY <1>1, HistoryInvariant, PTL
=============================================================================
