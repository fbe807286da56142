--------------------------- MODULE DeliveryProofs ---------------------------
(***************************************************************************)
(* Theorems about what the connections of a room are told, whatever it     *)
(* retains and whoever else comes, pushes and goes: over the history of    *)
(* the room, and across the sockets of the stand-alone server.             *)
(***************************************************************************)
EXTENDS RoomTrace, SocketServer, RoomProofs

(***************************************************************************)
(* The room under its history.                                             *)
(***************************************************************************)

\* The variables that only record change nothing of what the room does.
LEMMA TraceIsRoom == TraceSpec => RoomSpec
<1>1. TraceInit => RoomInit
  BY DEF TraceInit
<1>2. [TraceNext]_traceVars => [RoomNext]_roomVars
  <2> SUFFICES ASSUME [TraceNext]_traceVars
               PROVE  [RoomNext]_roomVars
    OBVIOUS
  <2>1. CASE UNCHANGED traceVars
    BY <2>1 DEF traceVars
  <2>2. ASSUME NEW conn \in Conn, TraceConnect(conn) \/ TracePing(conn)
        PROVE  RoomNext
    BY <2>2 DEF TraceConnect, TracePing, RoomNext
  <2>3. ASSUME NEW conn \in Conn, NEW key \in Key, NEW value \in Value,
               NEW action \in ClientAction(sequence_number), TracePush(conn, key, value, action)
        PROVE  RoomNext
    BY <2>3 DEF TracePush, RoomNext
  <2>4. ASSUME NEW conn \in Conn, NEW key \in Key, NEW seq \in {NoSeq} \cup 0 .. sequence_number,
               TraceGet(conn, key, seq)
        PROVE  RoomNext
    BY <2>4 DEF TraceGet, RoomNext
  <2> QED BY <2>1, <2>2, <2>3, <2>4 DEF TraceNext
<1> QED BY <1>1, <1>2, PTL DEF TraceSpec, RoomSpec

\* What is known of the room beneath.
RoomFacts == OrderInv /\ StreamsSorted

LEMMA RoomFactsHold ==
    ASSUME ~RawCompaction
    PROVE  TraceSpec => []RoomFacts
<1>1. OrderInv /\ StreamsSorted => RoomFacts
  BY DEF RoomFacts
<1> QED BY <1>1, TraceIsRoom, OrderInvariant, RoomStreamsSorted, PTL

HistoryEntry == [key : Key, action : Action, entry : SequenceValue]

TraceTypeOK ==
    /\ history \in Seq(HistoryEntry)
    /\ joined \in [Conn -> [Key -> {Unsubscribed} \cup Nat]]
    /\ replay \in [Conn -> [Key -> [at : Nat, from : Nat]]]

-----------------------------------------------------------------------------
(***************************************************************************)
(* Sequences of messages.                                                  *)
(***************************************************************************)

\* The readings of a trace, of any sequence of messages q.
Pushes(q, key, at) == {i \in DOMAIN q : i > at /\ q[i].type = "push" /\ q[i].key = key}
Tells(q, key, at) == {EntryOf(q[i]) : i \in Pushes(q, key, at)}
OnceInOrder(q, key) == \A i, j \in Pushes(q, key, 0) : i < j => q[i].seq < q[j].seq
Streams(q, key) == {i \in DOMAIN q : q[i].type = "init" /\ q[i].key = key}

\* Messages that follow others keep their order, behind them.
LEMMA BothFacts ==
    ASSUME NEW q \in Seq(Message), NEW new \in Seq(Message)
    PROVE  /\ q \o new \in Seq(Message)
           /\ Len(q) \in Nat /\ Len(new) \in Nat
           /\ DOMAIN q = 1 .. Len(q) /\ DOMAIN new = 1 .. Len(new)
           /\ DOMAIN (q \o new) = 1 .. Len(q) + Len(new)
           /\ \A i \in 1 .. Len(q) : (q \o new)[i] = q[i]
           /\ \A i \in 1 .. Len(new) : (q \o new)[Len(q) + i] = new[i]
<1> DEFINE both == q \o new
<1>1. /\ both \in Seq(Message)
      /\ Len(both) = Len(q) + Len(new)
      /\ Len(q) \in Nat /\ Len(new) \in Nat
      /\ \A i \in 1 .. Len(q) + Len(new) :
            both[i] = IF i <= Len(q) THEN q[i] ELSE new[i - Len(q)]
  BY ConcatProperties, LenProperties
<1>2. DOMAIN both = 1 .. Len(q) + Len(new) /\ DOMAIN q = 1 .. Len(q) /\ DOMAIN new = 1 .. Len(new)
  BY <1>1, LenProperties
<1> HIDE DEF both
<1>3. \A i \in 1 .. Len(q) : i \in 1 .. Len(q) + Len(new) /\ both[i] = q[i]
  BY <1>1
<1>4. \A i \in 1 .. Len(new) :
          /\ Len(q) + i \in 1 .. Len(q) + Len(new) /\ ~(Len(q) + i <= Len(q))
          /\ (Len(q) + i) - Len(q) = i
  BY <1>1
<1>5. \A i \in 1 .. Len(new) : both[Len(q) + i] = new[i]
  BY <1>1, <1>4
<1> QED BY <1>1, <1>2, <1>3, <1>5 DEF both

\* The places of messages of any kind, before and after.
LEMMA PlacesBehind ==
    ASSUME NEW q \in Seq(Message), NEW new \in Seq(Message), NEW i \in DOMAIN (q \o new)
    PROVE  \/ i \in DOMAIN q /\ (q \o new)[i] = q[i]
           \/ i - Len(q) \in DOMAIN new /\ i = Len(q) + (i - Len(q)) /\ (q \o new)[i] = new[i - Len(q)]
<1> DEFINE both == q \o new
<1>1. /\ Len(q) \in Nat /\ Len(new) \in Nat
      /\ DOMAIN q = 1 .. Len(q) /\ DOMAIN new = 1 .. Len(new)
      /\ DOMAIN both = 1 .. Len(q) + Len(new)
      /\ \A j \in 1 .. Len(q) : both[j] = q[j]
      /\ \A j \in 1 .. Len(new) : both[Len(q) + j] = new[j]
  BY BothFacts
<1> HIDE DEF both
<1>2. i \in 1 .. Len(q) \/ i - Len(q) \in 1 .. Len(new)
  BY <1>1 DEF both
<1>3. CASE i \in 1 .. Len(q)
  BY <1>1, <1>3 DEF both
<1>4. CASE i - Len(q) \in 1 .. Len(new)
  <2>1. i = Len(q) + (i - Len(q))
    BY <1>1 DEF both
  <2>2. both[Len(q) + (i - Len(q))] = new[i - Len(q)]
    BY <1>1, <1>4
  <2> QED BY <1>1, <1>4, <2>1, <2>2 DEF both
<1> QED BY <1>2, <1>3, <1>4

\* So a connection is told what it was told, and then what is new.
LEMMA PushesAppend ==
    ASSUME NEW q \in Seq(Message), NEW new \in Seq(Message), NEW key, NEW at \in 0 .. Len(q)
    PROVE  /\ Pushes(q \o new, key, at) = Pushes(q, key, at) \cup {Len(q) + i : i \in Pushes(new, key, 0)}
           /\ Tells(q \o new, key, at) = Tells(q, key, at) \cup Tells(new, key, 0)
<1> DEFINE both == q \o new
           fresh == {Len(q) + i : i \in Pushes(new, key, 0)}
<1>1. /\ Len(q) \in Nat /\ Len(new) \in Nat
      /\ DOMAIN q = 1 .. Len(q) /\ DOMAIN new = 1 .. Len(new)
      /\ DOMAIN both = 1 .. Len(q) + Len(new)
      /\ \A j \in 1 .. Len(q) : both[j] = q[j]
      /\ \A j \in 1 .. Len(new) : both[Len(q) + j] = new[j]
  BY BothFacts
<1>2. \A i \in DOMAIN both :
          \/ i \in DOMAIN q /\ both[i] = q[i]
          \/ i - Len(q) \in DOMAIN new /\ i = Len(q) + (i - Len(q)) /\ both[i] = new[i - Len(q)]
  BY PlacesBehind
<1> HIDE DEF both
<1>3. Pushes(both, key, at) \subseteq Pushes(q, key, at) \cup fresh
  <2> SUFFICES ASSUME NEW i \in Pushes(both, key, at), i \notin Pushes(q, key, at)
               PROVE  i \in fresh
    OBVIOUS
  <2>1. i \in DOMAIN both /\ i > at /\ both[i].type = "push" /\ both[i].key = key
    BY DEF Pushes
  <2>2. i - Len(q) \in DOMAIN new /\ i = Len(q) + (i - Len(q)) /\ both[i] = new[i - Len(q)]
    BY <1>2, <2>1 DEF Pushes
  <2>3. i - Len(q) \in Pushes(new, key, 0)
    BY <1>1, <2>1, <2>2 DEF Pushes
  <2> QED BY <2>2, <2>3
<1>4. Pushes(q, key, at) \subseteq Pushes(both, key, at)
  BY <1>1 DEF Pushes
<1>5. fresh \subseteq Pushes(both, key, at)
  <2> SUFFICES ASSUME NEW i \in Pushes(new, key, 0)
               PROVE  Len(q) + i \in Pushes(both, key, at)
    OBVIOUS
  <2>1. i \in 1 .. Len(new) /\ new[i].type = "push" /\ new[i].key = key
    BY <1>1 DEF Pushes
  <2>2. Len(q) + i \in DOMAIN both /\ Len(q) + i > at /\ both[Len(q) + i] = new[i]
    BY <1>1, <2>1
  <2> QED BY <2>1, <2>2 DEF Pushes
<1>6. Pushes(both, key, at) = Pushes(q, key, at) \cup fresh
  BY <1>3, <1>4, <1>5
<1>7. \A i \in Pushes(q, key, at) : both[i] = q[i]
  BY <1>1 DEF Pushes
<1>8. \A i \in Pushes(new, key, 0) : both[Len(q) + i] = new[i]
  BY <1>1 DEF Pushes
<1>9. Tells(both, key, at) = Tells(q, key, at) \cup Tells(new, key, 0)
  <2>1. Tells(both, key, at) = {EntryOf(both[i]) : i \in Pushes(q, key, at)} \cup {EntryOf(both[i]) : i \in fresh}
    BY <1>6 DEF Tells
  <2>2. {EntryOf(both[i]) : i \in Pushes(q, key, at)} = Tells(q, key, at)
    BY <1>7 DEF Tells
  <2>3. {EntryOf(both[i]) : i \in fresh} = {EntryOf(both[Len(q) + i]) : i \in Pushes(new, key, 0)}
    OBVIOUS
  <2>4. {EntryOf(both[Len(q) + i]) : i \in Pushes(new, key, 0)} = Tells(new, key, 0)
    BY <1>8 DEF Tells
  <2> QED BY <2>1, <2>2, <2>3, <2>4
<1> QED BY <1>6, <1>9 DEF both

\* One broadcast numbered above all others may be told next.
LEMMA OnceInOrderAppend ==
    ASSUME NEW q \in Seq(Message), NEW new \in Seq(Message), NEW key, NEW n \in Nat,
           UpTo(q, n), OnceInOrder(q, key),
           \A i, j \in Pushes(new, key, 0) : i = j,
           \A i \in Pushes(new, key, 0) : new[i].seq = n + 1
    PROVE  OnceInOrder(q \o new, key)
<1> DEFINE both == q \o new
<1>1. Len(q) \in Nat /\ DOMAIN q = 1 .. Len(q) /\ DOMAIN new = 1 .. Len(new) /\ Len(new) \in Nat
  BY BothFacts
<1>2. /\ Pushes(both, key, 0) = Pushes(q, key, 0) \cup {Len(q) + i : i \in Pushes(new, key, 0)}
      /\ \A j \in 1 .. Len(q) : both[j] = q[j]
      /\ \A j \in 1 .. Len(new) : both[Len(q) + j] = new[j]
  BY <1>1, PushesAppend, BothFacts
<1> HIDE DEF both
<1> SUFFICES ASSUME NEW i \in Pushes(both, key, 0), NEW j \in Pushes(both, key, 0), i < j
             PROVE  both[i].seq < both[j].seq
  BY DEF OnceInOrder, both
<1>3. ASSUME NEW k \in Pushes(q, key, 0)
      PROVE  k \in 1 .. Len(q) /\ both[k] = q[k] /\ both[k].seq \in Nat /\ both[k].seq <= n
  <2>1. k \in 1 .. Len(q) /\ q[k].type = "push"
    BY <1>1 DEF Pushes
  <2>2. q[k] \in Message
    BY <2>1, ElementOfSeq
  <2>3. q[k].seq \in Nat
    BY <2>1, <2>2 DEF Message, PongMessage
  <2> QED BY <1>1, <1>2, <2>1, <2>3 DEF UpTo
<1>4. ASSUME NEW k \in Pushes(new, key, 0)
      PROVE  k \in 1 .. Len(new) /\ both[Len(q) + k].seq = n + 1
  BY <1>1, <1>2 DEF Pushes
<1>5. CASE j \in Pushes(q, key, 0)
  <2>1. i \in Pushes(q, key, 0)
    BY <1>1, <1>2, <1>3, <1>4, <1>5
  <2> QED BY <1>3, <1>5, <2>1 DEF OnceInOrder
<1>6. ASSUME NEW k \in Pushes(new, key, 0), j = Len(q) + k
      PROVE  both[i].seq < both[j].seq
  <2>1. CASE i \in Pushes(q, key, 0)
    BY <1>3, <1>4, <1>6, <2>1
  <2>2. ASSUME NEW l \in Pushes(new, key, 0), i = Len(q) + l
        PROVE  FALSE
    <3>1. l = k
      OBVIOUS
    <3> QED BY <1>1, <1>4, <1>6, <2>2, <3>1
  <2> QED BY <1>2, <2>1, <2>2
<1> QED BY <1>2, <1>5, <1>6

\* What a debug connection has last been sent of a key.
Mirrors(q, key, stream) ==
    \/ Streams(q, key) = {} /\ stream = <<>>
    \/ \E last \in Streams(q, key) : (\A i \in Streams(q, key) : i <= last) /\ stream = q[last].data

LEMMA StreamsAppend ==
    ASSUME NEW q \in Seq(Message), NEW new \in Seq(Message), NEW key
    PROVE  Streams(q \o new, key) = Streams(q, key) \cup {Len(q) + i : i \in Streams(new, key)}
<1> DEFINE both == q \o new
           fresh == {Len(q) + i : i \in Streams(new, key)}
<1>1. /\ Len(q) \in Nat /\ Len(new) \in Nat
      /\ DOMAIN q = 1 .. Len(q) /\ DOMAIN new = 1 .. Len(new)
      /\ DOMAIN both = 1 .. Len(q) + Len(new)
      /\ \A j \in 1 .. Len(q) : both[j] = q[j]
      /\ \A j \in 1 .. Len(new) : both[Len(q) + j] = new[j]
  BY BothFacts
<1>2. \A i \in DOMAIN both :
          \/ i \in DOMAIN q /\ both[i] = q[i]
          \/ i - Len(q) \in DOMAIN new /\ i = Len(q) + (i - Len(q)) /\ both[i] = new[i - Len(q)]
  BY PlacesBehind
<1> HIDE DEF both
<1>3. Streams(both, key) \subseteq Streams(q, key) \cup fresh
  <2> SUFFICES ASSUME NEW i \in Streams(both, key), i \notin Streams(q, key)
               PROVE  i \in fresh
    OBVIOUS
  <2>1. i \in DOMAIN both /\ both[i].type = "init" /\ both[i].key = key
    BY DEF Streams
  <2>2. i - Len(q) \in DOMAIN new /\ i = Len(q) + (i - Len(q)) /\ both[i] = new[i - Len(q)]
    BY <1>2, <2>1 DEF Streams
  <2>3. i - Len(q) \in Streams(new, key)
    BY <1>1, <2>1, <2>2 DEF Streams
  <2> QED BY <2>2, <2>3
<1>4. Streams(q, key) \subseteq Streams(both, key)
  BY <1>1 DEF Streams
<1>5. fresh \subseteq Streams(both, key)
  <2> SUFFICES ASSUME NEW i \in Streams(new, key)
               PROVE  Len(q) + i \in Streams(both, key)
    OBVIOUS
  <2>1. i \in 1 .. Len(new) /\ new[i].type = "init" /\ new[i].key = key
    BY <1>1 DEF Streams
  <2>2. Len(q) + i \in DOMAIN both /\ both[Len(q) + i] = new[i]
    BY <1>1, <2>1
  <2> QED BY <2>1, <2>2 DEF Streams
<1> QED BY <1>3, <1>4, <1>5 DEF both

\* A mirror stays one while the key is not mentioned, and is one once it is sent the stream.
LEMMA MirrorsAppend ==
    ASSUME NEW q \in Seq(Message), NEW new \in Seq(Message), NEW key, NEW stream,
           \/ Streams(new, key) = {} /\ Mirrors(q, key, stream)
           \/ Streams(new, key) = {1} /\ new[1].data = stream
    PROVE  Mirrors(q \o new, key, stream)
<1> DEFINE both == q \o new
<1>1. /\ Len(q) \in Nat /\ DOMAIN q = 1 .. Len(q) /\ DOMAIN new = 1 .. Len(new)
      /\ \A j \in 1 .. Len(q) : both[j] = q[j]
      /\ \A j \in 1 .. Len(new) : both[Len(q) + j] = new[j]
  BY BothFacts
<1>2. Streams(both, key) = Streams(q, key) \cup {Len(q) + i : i \in Streams(new, key)}
  BY StreamsAppend
<1> HIDE DEF both
<1>3. \A i \in Streams(q, key) : i \in 1 .. Len(q) /\ both[i] = q[i]
  BY <1>1 DEF Streams
<1>4. CASE Streams(new, key) = {} /\ Mirrors(q, key, stream)
  <2>1. Streams(both, key) = Streams(q, key)
    BY <1>2, <1>4
  <2> QED BY <1>3, <1>4, <2>1 DEF Mirrors, both
<1>5. CASE Streams(new, key) = {1} /\ new[1].data = stream
  <2>1. Streams(both, key) = Streams(q, key) \cup {Len(q) + 1} /\ 1 \in 1 .. Len(new)
    BY <1>1, <1>2, <1>5 DEF Streams
  <2>2. both[Len(q) + 1].data = stream /\ \A i \in Streams(both, key) : i <= Len(q) + 1
    BY <1>1, <1>3, <1>5, <2>1
  <2> QED BY <2>1, <2>2 DEF Mirrors, both
<1> QED BY <1>4, <1>5

-----------------------------------------------------------------------------
(***************************************************************************)
(* What one push delivers.                                                 *)
(***************************************************************************)

\* To a client: a copy of the broadcast per subscription, then perhaps a size.
LEMMA ClientDeliveries ==
    ASSUME RoomTypeOK, NEW conn \in Conn, Live(conn), conn \notin debug_connections, NEW sender \in Conn,
           NEW key \in Key, NEW value \in Value, NEW action \in ClientAction(sequence_number),
           NEW stream \in Seq(SequenceValue), NEW k
    PROVE  LET new     == PushDeliveries(conn, sender, key, value, action, stream)
               message == PushMessage(key, [value |-> value, seq |-> Stamp(action)])
               n       == IF Broadcasts(action) THEN subscriptions[key][conn] ELSE 0
           IN  /\ new \in Seq(Message)
               /\ Pushes(new, k, 0) = IF k = key THEN 1 .. n ELSE {}
               /\ \A i \in 1 .. n : new[i] = message
               /\ Streams(new, k) = {}
<1> DEFINE new     == PushDeliveries(conn, sender, key, value, action, stream)
           message == PushMessage(key, [value |-> value, seq |-> Stamp(action)])
           n       == IF Broadcasts(action) THEN subscriptions[key][conn] ELSE 0
           copies  == Copies(n, message)
           answer  == IF conn = sender /\ Len(stream) > 1
                      THEN <<StreamSizeMessage(key, Len(stream))>> ELSE <<>>
<1>1. message \in Message /\ message.type = "push" /\ message.key = key
  BY ClientActionType DEF PushMessage, Message, Stamp, RoomTypeOK, StoreTypeOK
<1>2. n \in Nat
  BY DEF RoomTypeOK
<1>3. answer \in Seq(Message) /\ \A i \in DOMAIN answer : answer[i].type = "stream_size"
  <2>1. Len(stream) \in Nat
    BY LenProperties
  <2>2. StreamSizeMessage(key, Len(stream)) \in Message
    BY <2>1 DEF StreamSizeMessage, Message
  <2> QED BY <2>2 DEF StreamSizeMessage
<1> HIDE DEF message, answer, n
<1>4. copies \in Seq(Message) /\ Len(copies) = n /\ \A i \in 1 .. n : copies[i] = message
  BY <1>1, <1>2, IsASeq DEF Copies
<1>5. new = <<>> \o copies \o answer
  <2>1. Copies(0, message) = <<>>
    BY DEF Copies
  <2>2. copies = IF Broadcasts(action) THEN Copies(subscriptions[key][conn], message) ELSE <<>>
    BY <2>1 DEF n
  <2> QED BY <2>2 DEF PushDeliveries, message, answer
<1> HIDE DEF copies, new
<1>6. new = copies \o answer
  BY <1>4, <1>5, ConcatEmptySeq
<1>7. /\ new \in Seq(Message) /\ DOMAIN new = 1 .. n + Len(answer) /\ Len(answer) \in Nat
      /\ DOMAIN answer = 1 .. Len(answer)
      /\ \A i \in 1 .. n : new[i] = message
  BY <1>3, <1>4, <1>6, BothFacts
<1>8. \A i \in DOMAIN new : i \in 1 .. n \/ new[i].type = "stream_size"
  <2> SUFFICES ASSUME NEW i \in DOMAIN new, i \notin 1 .. n
               PROVE  new[i].type = "stream_size"
    OBVIOUS
  <2>1. DOMAIN copies = 1 .. n
    BY <1>4, LenProperties
  <2>2. i - n \in DOMAIN answer /\ new[i] = answer[i - n]
    BY <1>3, <1>4, <1>6, <2>1, PlacesBehind
  <2> QED BY <1>3, <2>2
<1>9. 1 .. n \subseteq DOMAIN new
  BY <1>2, <1>7
<1>10. Pushes(new, k, 0) = IF k = key THEN 1 .. n ELSE {}
  BY <1>1, <1>2, <1>7, <1>8, <1>9 DEF Pushes
<1>11. Streams(new, k) = {}
  BY <1>1, <1>7, <1>8 DEF Streams
<1> QED BY <1>7, <1>10, <1>11 DEF new, message, n

\* To a debug connection that has no subscription: the stream, if it changes.
LEMMA DebugDeliveries ==
    ASSUME RoomTypeOK, NEW conn \in Conn, Live(conn), conn \in debug_connections, NEW sender \in Conn,
           NEW key \in Key, NEW value \in Value, NEW action \in ClientAction(sequence_number),
           NEW stream \in Seq(SequenceValue), NEW k, subscriptions[key][conn] = 0
    PROVE  LET new == PushDeliveries(conn, sender, key, value, action, stream)
           IN  /\ new \in Seq(Message)
               /\ k = key /\ Mutates(action) => Streams(new, k) = {1}
               /\ k # key \/ ~Mutates(action) => Streams(new, k) = {}
               /\ Mutates(action) => new[1].data = RetainAfter(stream, 0)
<1> DEFINE new     == PushDeliveries(conn, sender, key, value, action, stream)
           message == PushMessage(key, [value |-> value, seq |-> Stamp(action)])
           whole   == InitMessage(key, RetainAfter(stream, 0))
           first   == IF Mutates(action) THEN whole ELSE message
           answer  == IF conn = sender /\ Len(stream) > 1
                      THEN <<StreamSizeMessage(key, Len(stream))>> ELSE <<>>
           debug   == <<first>>
<1>1. message \in Message /\ message.type = "push"
  BY ClientActionType DEF PushMessage, Message, Stamp, RoomTypeOK, StoreTypeOK
<1>2. whole \in Message /\ whole.type = "init" /\ whole.key = key /\ whole.data = RetainAfter(stream, 0)
  BY RetainAfterFacts DEF InitMessage, Message
<1>3. answer \in Seq(Message) /\ \A i \in DOMAIN answer : answer[i].type = "stream_size"
  <2>1. Len(stream) \in Nat
    BY LenProperties
  <2>2. StreamSizeMessage(key, Len(stream)) \in Message
    BY <2>1 DEF StreamSizeMessage, Message
  <2> QED BY <2>2 DEF StreamSizeMessage
<1>4. new = debug \o <<>> \o answer
  <2>1. Copies(0, message) = <<>>
    BY DEF Copies
  <2> QED BY <2>1 DEF PushDeliveries
<1> HIDE DEF message, whole, answer
<1>5. first \in Message
  BY <1>1, <1>2
<1> HIDE DEF first
<1>6. debug \in Seq(Message) /\ Len(debug) = 1 /\ debug[1] = first
  BY <1>5
<1> HIDE DEF debug, new
<1>7. new = debug \o answer
  BY <1>3, <1>4, <1>6, ConcatEmptySeq
<1>8. new \in Seq(Message) /\ 1 \in DOMAIN new /\ new[1] = first
  BY <1>3, <1>6, <1>7, BothFacts
<1>9. \A i \in DOMAIN new : i = 1 \/ new[i].type = "stream_size"
  <2>1. DOMAIN debug = 1 .. 1
    BY <1>6, LenProperties
  <2> QED BY <1>3, <1>6, <1>7, <2>1, PlacesBehind
<1>10. /\ k = key /\ Mutates(action) => Streams(new, k) = {1}
       /\ k # key \/ ~Mutates(action) => Streams(new, k) = {}
  BY <1>1, <1>2, <1>8, <1>9 DEF Streams, first
<1> QED BY <1>2, <1>8, <1>10 DEF first, new

-----------------------------------------------------------------------------
(***************************************************************************)
(* What one connection may rely on for one key, as predicates of what it   *)
(* was told, q, and of what the room and the history hold of the key.      *)
(***************************************************************************)

EntriesSince(hist, key, start) ==
    {hist[h].entry : h \in {h \in DOMAIN hist :
        h > start /\ hist[h].key = key /\ Broadcasts(hist[h].action)}}

CompactedIn(hist, key) ==
    {hist[h].entry.seq : h \in {h \in DOMAIN hist :
        hist[h].key = key /\ ~Broadcasts(hist[h].action)}}

\* When it has subscribed, and that it replays nothing before.
JoinsWhen(subs, join, again, now) ==
    /\ subs = 0 <=> join = Unsubscribed
    /\ subs = 0 => again = NoReplay
    /\ join <= now

\* What it has been told live: nothing before it subscribes, everything after.
Follows(q, key, subs, entries) ==
    /\ subs = 0 => Pushes(q, key, 0) = {}
    /\ subs = 1 => Tells(q, key, 0) = entries /\ OnceInOrder(q, key)

\* What its last replay told it, and that the live broadcasts carry on from there.
Replays(q, key, again, subs, stream, except, last) ==
    again # NoReplay =>
        /\ subs # 0
        /\ again.at \in DOMAIN q
        /\ q[again.at].type = "init"
        /\ Increasing(q[again.at].data)
        /\ \A e \in Range(q[again.at].data) : e.seq <= last
        /\ \A e \in Range(q[again.at].data), i \in Pushes(q, key, again.at) : e.seq < q[i].seq
        /\ \A e \in Range(stream) : e.seq > again.from /\ e.seq \notin except
               => e \in Range(q[again.at].data) \cup Tells(q, key, again.at)

\* One more push in the history.
LEMMA EntriesAppend ==
    ASSUME NEW hist \in Seq(HistoryEntry),
           NEW h \in HistoryEntry, NEW key, NEW start \in Int
    PROVE  /\ h.key # key \/ ~Broadcasts(h.action) =>
                 EntriesSince(Append(hist, h), key, start) = EntriesSince(hist, key, start)
           /\ h.key = key /\ Broadcasts(h.action) /\ start <= Len(hist) =>
                 EntriesSince(Append(hist, h), key, start) = EntriesSince(hist, key, start) \cup {h.entry}
           /\ h.key # key \/ Broadcasts(h.action) =>
                 CompactedIn(Append(hist, h), key) = CompactedIn(hist, key)
           /\ h.key = key /\ ~Broadcasts(h.action) =>
                 CompactedIn(Append(hist, h), key) = CompactedIn(hist, key) \cup {h.entry.seq}
           /\ Append(hist, h) \in Seq(HistoryEntry)
           /\ Len(Append(hist, h)) = Len(hist) + 1 /\ Len(hist) \in Nat
<1> DEFINE after == Append(hist, h)
<1>1. /\ after \in Seq(HistoryEntry)
      /\ Len(after) = Len(hist) + 1 /\ Len(hist) \in Nat
      /\ DOMAIN hist = 1 .. Len(hist) /\ DOMAIN after = 1 .. Len(hist) + 1
      /\ \A i \in 1 .. Len(hist) : after[i] = hist[i]
      /\ after[Len(hist) + 1] = h
  BY AppendProperties, LenProperties
<1> HIDE DEF after
<1> DEFINE Told_(i, q) == i > start /\ q[i].key = key /\ Broadcasts(q[i].action)
           Kept_(i, q) == q[i].key = key /\ ~Broadcasts(q[i].action)
           old == {i \in DOMAIN hist : Told_(i, hist)}
           all == {i \in DOMAIN after : Told_(i, after)}
           oldKept == {i \in DOMAIN hist : Kept_(i, hist)}
           allKept == {i \in DOMAIN after : Kept_(i, after)}
<1>2. ASSUME h.key # key \/ ~Broadcasts(h.action)
      PROVE  EntriesSince(after, key, start) = EntriesSince(hist, key, start)
  <2>1. all = old /\ \A i \in old : after[i] = hist[i]
    BY <1>1, <1>2
  <2> HIDE DEF old, all
  <2>2. {after[i].entry : i \in all} = {hist[i].entry : i \in old}
    BY <2>1
  <2> QED BY <2>2 DEF EntriesSince, old, all
<1>3. ASSUME h.key = key, Broadcasts(h.action), start <= Len(hist)
      PROVE  EntriesSince(after, key, start) = EntriesSince(hist, key, start) \cup {h.entry}
  <2>1. all = old \cup {Len(hist) + 1} /\ \A i \in old : after[i] = hist[i]
    BY <1>1, <1>3
  <2> HIDE DEF old, all
  <2>2. {after[i].entry : i \in all} = {hist[i].entry : i \in old} \cup {after[Len(hist) + 1].entry}
    BY <2>1
  <2> QED BY <1>1, <2>2 DEF EntriesSince, old, all
<1>4. ASSUME h.key # key \/ Broadcasts(h.action)
      PROVE  CompactedIn(after, key) = CompactedIn(hist, key)
  <2>1. allKept = oldKept /\ \A i \in oldKept : after[i] = hist[i]
    BY <1>1, <1>4
  <2> HIDE DEF oldKept, allKept
  <2>2. {after[i].entry.seq : i \in allKept} = {hist[i].entry.seq : i \in oldKept}
    BY <2>1
  <2> QED BY <2>2 DEF CompactedIn, oldKept, allKept
<1>5. ASSUME h.key = key, ~Broadcasts(h.action)
      PROVE  CompactedIn(after, key) = CompactedIn(hist, key) \cup {h.entry.seq}
  <2>1. allKept = oldKept \cup {Len(hist) + 1} /\ \A i \in oldKept : after[i] = hist[i]
    BY <1>1, <1>5
  <2> HIDE DEF oldKept, allKept
  <2>2. {after[i].entry.seq : i \in allKept}
            = {hist[i].entry.seq : i \in oldKept} \cup {after[Len(hist) + 1].entry.seq}
    BY <2>1
  <2> QED BY <1>1, <2>2 DEF CompactedIn, oldKept, allKept
<1> QED BY <1>1, <1>2, <1>3, <1>4, <1>5 DEF after

\* The push that a client makes, as the history records it.
LEMMA PushIsRecorded ==
    ASSUME RoomTypeOK, TraceTypeOK, NEW conn \in Conn, NEW key \in Key, NEW value \in Value,
           NEW action \in ClientAction(sequence_number), TracePush(conn, key, value, action)
    PROVE  \E h \in HistoryEntry :
              /\ history' = Append(history, h)
              /\ h.key = key /\ h.action = action
              /\ h.entry = [value |-> value, seq |-> Stamp(action)]
              /\ h.entry \in SequenceValue
<1> DEFINE h == [key |-> key, action |-> action, entry |-> [value |-> value, seq |-> Stamp(action)]]
<1>1. Stamp(action) \in Nat /\ action \in Action
  BY ClientActionType DEF RoomTypeOK, StoreTypeOK, Stamp
<1>2. h.entry \in SequenceValue /\ h \in HistoryEntry
  BY <1>1 DEF HistoryEntry, SequenceValue
<1>3. history' = Append(history, h)
  BY DEF TracePush
<1> QED BY <1>2, <1>3

\* What is new to a connection does not disturb what it could rely on, when it
\* is either nothing of the key or the next broadcast once per subscription.
LEMMA FollowsAppend ==
    ASSUME NEW q \in Seq(Message), NEW new \in Seq(Message), NEW key, NEW subs \in Nat,
           NEW entries, NEW more, NEW n \in Nat, UpTo(q, n), Follows(q, key, subs, entries),
           \/ Pushes(new, key, 0) = {} /\ more = entries
           \/ /\ Pushes(new, key, 0) = 1 .. subs
              /\ \A i \in 1 .. subs : new[i].seq = n + 1
              /\ subs = 1 => more = entries \cup {EntryOf(new[1])}
    PROVE  Follows(q \o new, key, subs, more)
<1>1. Len(q) \in Nat /\ 0 \in 0 .. Len(q)
  BY LenProperties
<1>2. /\ Pushes(q \o new, key, 0) = Pushes(q, key, 0) \cup {Len(q) + i : i \in Pushes(new, key, 0)}
      /\ Tells(q \o new, key, 0) = Tells(q, key, 0) \cup Tells(new, key, 0)
  BY <1>1, PushesAppend
<1>3. CASE subs = 0
  <2>1. Pushes(new, key, 0) = {} /\ Pushes(q, key, 0) = {}
    BY <1>3 DEF Follows
  <2> QED BY <1>2, <1>3, <2>1 DEF Follows
<1>4. CASE subs = 1
  <2>1. Tells(q, key, 0) = entries /\ OnceInOrder(q, key)
    BY <1>4 DEF Follows
  <2>2. /\ \A i, j \in Pushes(new, key, 0) : i = j
        /\ \A i \in Pushes(new, key, 0) : new[i].seq = n + 1
    BY <1>4
  <2>3. OnceInOrder(q \o new, key)
    BY <2>1, <2>2, OnceInOrderAppend
  <2>4. more = entries \cup Tells(new, key, 0)
    <3>1. CASE Pushes(new, key, 0) = {} /\ more = entries
      BY <3>1 DEF Tells
    <3>2. CASE Pushes(new, key, 0) = 1 .. subs /\ more = entries \cup {EntryOf(new[1])}
      <4>1. Pushes(new, key, 0) = {1}
        BY <1>4, <3>2
      <4> QED BY <3>2, <4>1 DEF Tells
    <3> QED BY <1>4, <3>1, <3>2
  <2> QED BY <1>2, <1>4, <2>1, <2>3, <2>4 DEF Follows
<1> QED BY <1>3, <1>4 DEF Follows

LEMMA ReplaysAppend ==
    ASSUME NEW q \in Seq(Message), NEW new \in Seq(Message), NEW key, NEW again \in [at : Nat, from : Nat],
           NEW subs, NEW after, NEW stream, NEW later, NEW except, NEW besides, NEW n \in Nat, NEW m \in Nat,
           Replays(q, key, again, subs, stream, except, n), n <= m, subs # 0 => after # 0,
           \A i \in Pushes(new, key, 0) : new[i].seq > n,
           \A e \in Range(later) : \/ e \in Range(stream)
                                   \/ e \in Tells(new, key, 0)
                                   \/ e.seq \in besides,
           except \subseteq besides
    PROVE  Replays(q \o new, key, again, after, later, besides, m)
<1> SUFFICES ASSUME again # NoReplay
             PROVE  Replays(q \o new, key, again, after, later, besides, m)
  BY DEF Replays
<1> DEFINE both == q \o new
           told == q[again.at].data
<1>1. /\ Len(q) \in Nat /\ DOMAIN q = 1 .. Len(q) /\ DOMAIN new = 1 .. Len(new) /\ Len(new) \in Nat
      /\ DOMAIN both = 1 .. Len(q) + Len(new)
      /\ \A j \in 1 .. Len(q) : both[j] = q[j]
      /\ \A j \in 1 .. Len(new) : both[Len(q) + j] = new[j]
  BY BothFacts
<1>2. /\ subs # 0 /\ again.at \in DOMAIN q /\ q[again.at].type = "init" /\ Increasing(told)
      /\ \A e \in Range(told) : e.seq <= n
      /\ \A e \in Range(told), i \in Pushes(q, key, again.at) : e.seq < q[i].seq
      /\ \A e \in Range(stream) : e.seq > again.from /\ e.seq \notin except
             => e \in Range(told) \cup Tells(q, key, again.at)
  BY DEF Replays
<1>3. /\ again.at \in 0 .. Len(q) /\ again.at \in DOMAIN both /\ both[again.at] = q[again.at]
  BY <1>1, <1>2
<1>4. /\ Pushes(both, key, again.at) = Pushes(q, key, again.at) \cup {Len(q) + i : i \in Pushes(new, key, 0)}
      /\ Tells(both, key, again.at) = Tells(q, key, again.at) \cup Tells(new, key, 0)
  BY <1>3, PushesAppend
<1>5. told \in Seq(SequenceValue) /\ \A e \in Range(told) : e.seq \in Nat
  <2>1. q[again.at] \in Message
    BY <1>1, <1>2, ElementOfSeq
  <2>2. told \in Seq(SequenceValue)
    BY <1>2, <2>1 DEF Message, PongMessage
  <2>3. \A e \in Range(told) : e \in SequenceValue
    <3> HIDE DEF told
    <3> QED BY <2>2, LenProperties, ElementOfSeq DEF Range
  <2> QED BY <2>2, <2>3 DEF SequenceValue
<1> HIDE DEF both, told
<1>6. \A i \in Pushes(new, key, 0) : new[i].seq \in Nat
  <2> SUFFICES ASSUME NEW i \in Pushes(new, key, 0)
               PROVE  new[i].seq \in Nat
    OBVIOUS
  <2>1. i \in 1 .. Len(new) /\ new[i].type = "push"
    BY <1>1 DEF Pushes
  <2>2. new[i] \in Message
    BY <2>1, ElementOfSeq
  <2> QED BY <2>1, <2>2 DEF Message, PongMessage
<1>7. ASSUME NEW e \in Range(told), NEW i \in Pushes(both, key, again.at)
      PROVE  e.seq < both[i].seq
  <2>1. CASE i \in Pushes(q, key, again.at)
    <3>1. both[i] = q[i]
      BY <1>1, <2>1 DEF Pushes
    <3> QED BY <1>2, <2>1, <3>1
  <2>2. ASSUME NEW j \in Pushes(new, key, 0), i = Len(q) + j
        PROVE  e.seq < both[i].seq
    <3>1. both[i] = new[j]
      BY <1>1, <2>2 DEF Pushes
    <3> QED BY <1>2, <1>5, <1>6, <3>1
  <2> QED BY <1>4, <2>1, <2>2
<1>8. \A e \in Range(told) : e.seq <= m
  BY <1>2, <1>5
<1>9. \A e \in Range(later) : e.seq > again.from /\ e.seq \notin besides
             => e \in Range(told) \cup Tells(both, key, again.at)
  BY <1>2, <1>4
<1>10. both[again.at].data = told /\ both[again.at].type = "init" /\ after # 0
  BY <1>2, <1>3 DEF told
<1> QED BY <1>2, <1>3, <1>7, <1>8, <1>9, <1>10 DEF Replays, both

\* A replay starts out with all that the stream holds.
LEMMA ReplaysNow ==
    ASSUME NEW q \in Seq(Message), NEW key \in Key, NEW stream \in Seq(SequenceValue), NEW n \in Nat,
           Sorted(stream, n), NEW seq \in Nat, NEW subs, subs # 0, NEW except,
           NEW answer, answer = InitMessage(key, RetainAfter(stream, seq))
    PROVE  /\ answer \in Message
           /\ Replays(Append(q, answer), key, [at |-> Len(q) + 1, from |-> seq], subs, stream, except, n)
<1>1. /\ RetainAfter(stream, seq) \in Seq(SequenceValue)
      /\ Range(RetainAfter(stream, seq)) = {e \in Range(stream) : e.seq > seq}
      /\ Increasing(RetainAfter(stream, seq))
  BY RetainAfterFacts DEF Sorted
<1>2. answer \in Message
  BY <1>1 DEF InitMessage, Message
<1> DEFINE both == Append(q, answer)
<1>3. Len(q) \in Nat /\ DOMAIN both = 1 .. Len(q) + 1 /\ both[Len(q) + 1] = answer
  BY <1>2, AppendProperties, LenProperties
<1> HIDE DEF both
<1>4. Pushes(both, key, Len(q) + 1) = {}
  BY <1>3 DEF Pushes
<1>5. \A e \in Range(RetainAfter(stream, seq)) : e.seq <= n
  BY <1>1 DEF Sorted
<1>6. answer.type = "init" /\ answer.data = RetainAfter(stream, seq)
  BY DEF InitMessage
<1>7. Len(q) + 1 \in DOMAIN both
  BY <1>3
<1> QED BY <1>1, <1>2, <1>3, <1>4, <1>5, <1>6, <1>7 DEF Replays, both

\* The streams a debug connection is shown first mirror the room: each stream
\* there is has its place among them, and only one.
LEMMA FirstStreamsMirror ==
    ASSUME RoomTypeOK, NEW order \in SetToSeqs({key \in Key : subjects[key] # <<>>}), NEW k \in Key
    PROVE  Mirrors([i \in DOMAIN order |-> InitMessage(order[i], subjects[order[i]])], k, subjects[k])
<1> DEFINE shown == {key \in Key : subjects[key] # <<>>}
           n == Cardinality(shown)
           first == [i \in DOMAIN order |-> InitMessage(order[i], subjects[order[i]])]
<1>1. IsFiniteSet(shown) /\ n \in Nat
  BY KeyAssumption, FS_Subset, FS_CardinalityType
<1> HIDE DEF shown
<1>2. order \in [1 .. n -> shown] /\ \A i, j \in 1 .. n : i # j => order[i] # order[j]
  BY DEF SetToSeqs, shown
<1> HIDE DEF n
<1>3. Cardinality(1 .. n) = n
  BY <1>1, FS_Interval
<1>4. order \in Injection(1 .. n, shown)
  BY <1>2 DEF Injection, IsInjective
<1>5. order \in Surjection(1 .. n, shown)
  BY <1>1, <1>3, <1>4, FS_Injection DEF n
<1>6. \A key \in shown : \E i \in 1 .. n : order[i] = key
  BY <1>5 DEF Surjection
<1>7. DOMAIN first = 1 .. n /\ \A i \in 1 .. n :
          first[i].type = "init" /\ first[i].key = order[i] /\ first[i].data = subjects[order[i]]
  BY <1>2 DEF InitMessage
<1> HIDE DEF first
<1>8. Streams(first, k) = {i \in 1 .. n : order[i] = k}
  BY <1>7 DEF Streams
<1>9. CASE k \in shown
  <2>1. PICK i \in 1 .. n : order[i] = k
    BY <1>6, <1>9
  <2>2. Streams(first, k) = {i}
    BY <1>2, <1>8, <2>1
  <2>3. i <= i /\ first[i].data = subjects[k]
    BY <1>1, <1>7, <2>1
  <2> QED BY <2>2, <2>3 DEF Mirrors, first
<1>10. CASE k \notin shown
  <2>1. Streams(first, k) = {}
    BY <1>2, <1>8, <1>10
  <2>2. subjects[k] = <<>>
    BY <1>10 DEF shown
  <2> QED BY <2>1, <2>2 DEF Mirrors, first
<1> QED BY <1>9, <1>10

-----------------------------------------------------------------------------
(***************************************************************************)
(* The inductive invariant.  The three readings say nothing of a           *)
(* connection whose channel has been full; that channel stays full until   *)
(* the connection is dropped, and a dropped one does not come back.        *)
(***************************************************************************)

NoGet(c) == \A k \in Key : subscriptions[k][c] = 0

\* Nothing has happened to a connection that has not been made.
Fresh(c) ==
    /\ c \notin debug_connections
    /\ inbox[c] = <<>>
    /\ NoGet(c)
    /\ \A k \in Key : joined[c][k] = Unsubscribed /\ replay[c][k] = NoReplay

Reliable(c, k) ==
    /\ JoinsWhen(subscriptions[k][c], joined[c][k], replay[c][k], Len(history))
    /\ Len(inbox[c]) < Capacity /\ c \notin debug_connections =>
          /\ Follows(inbox[c], k, subscriptions[k][c], EntriesSince(history, k, joined[c][k]))
          /\ Replays(inbox[c], k, replay[c][k], subscriptions[k][c], subjects[k],
                     CompactedIn(history, k), sequence_number)
    /\ Len(inbox[c]) < Capacity /\ c \in debug_connections /\ NoGet(c) =>
          Mirrors(inbox[c], k, subjects[k])

TraceInv ==
    /\ TraceTypeOK
    /\ \A c \in Conn : status[c] = "new" => Fresh(c)
    /\ \A c \in Conn, k \in Key : Live(c) => Reliable(c, k)

LEMMA TraceInvInit == TraceInit => TraceInv
<1> SUFFICES ASSUME TraceInit
             PROVE  TraceInv
  OBVIOUS
<1>1. NoReplay \in [at : Nat, from : Nat] /\ Unsubscribed \in {Unsubscribed} \cup Nat
  BY DEF NoReplay
<1>2. history = <<>> /\ <<>> \in Seq(HistoryEntry)
  BY DEF TraceInit
<1>3. TraceTypeOK
  BY <1>1, <1>2 DEF TraceInit, TraceTypeOK
<1>4. \A c \in Conn : Fresh(c) /\ ~Live(c)
  BY DEF TraceInit, RoomInit, Fresh, NoGet, Live
<1> QED BY <1>3, <1>4 DEF TraceInv

-----------------------------------------------------------------------------
(***************************************************************************)
(* One step, seen by an open connection c that was open before.            *)
(***************************************************************************)

\* What is known of c before the step, and of its channel behind it.
LEMMA OpenFacts ==
    ASSUME TraceInv, OrderInv, NEW c \in Conn, NEW k \in Key, Live(c),
           NEW new \in Seq(Message), inbox'[c] = Offer(inbox[c], new)
    PROVE  /\ inbox[c] \in Seq(Message) /\ UpTo(inbox[c], sequence_number)
           /\ sequence_number \in Nat /\ subjects[k] \in Seq(SequenceValue)
           /\ subscriptions[k][c] \in Nat
           /\ replay[c][k] \in [at : Nat, from : Nat]
           /\ joined[c][k] \in {Unsubscribed} \cup Nat
           /\ Len(history) \in Nat /\ Reliable(c, k)
           /\ Len(inbox'[c]) < Capacity =>
                 inbox'[c] = inbox[c] \o new /\ Len(inbox[c]) < Capacity
<1>1. inbox[c] \in Seq(Message) /\ UpTo(inbox[c], sequence_number)
  BY DEF OrderInv, RoomTypeOK
<1>2. Len(inbox'[c]) < Capacity => inbox'[c] = inbox[c] \o new
  BY <1>1, OfferAll
<1>3. Len(inbox[c]) \in Nat /\ Len(new) \in Nat /\ Len(inbox[c] \o new) = Len(inbox[c]) + Len(new)
  BY <1>1, LenProperties, ConcatProperties
<1>4. Len(inbox'[c]) < Capacity => Len(inbox[c]) < Capacity
  BY <1>2, <1>3, CapacityAssumption
<1>5. /\ sequence_number \in Nat /\ subjects[k] \in Seq(SequenceValue) /\ subscriptions[k][c] \in Nat
  BY DEF OrderInv, RoomTypeOK, StoreTypeOK
<1>6. /\ replay[c][k] \in [at : Nat, from : Nat] /\ joined[c][k] \in {Unsubscribed} \cup Nat
      /\ Len(history) \in Nat
  BY LenProperties DEF TraceInv, TraceTypeOK
<1> QED BY <1>1, <1>2, <1>4, <1>5, <1>6 DEF TraceInv

\* Nothing happens to the key, and c is told nothing of it.
LEMMA QuietStep ==
    ASSUME TraceInv, OrderInv, NEW c \in Conn, NEW k \in Key, Live(c),
           NEW new \in Seq(Message), inbox'[c] = Offer(inbox[c], new),
           c \notin debug_connections => Pushes(new, k, 0) = {},
           c \in debug_connections /\ NoGet(c) => Streams(new, k) = {},
           subjects'[k] = subjects[k], CompactedIn(history', k) = CompactedIn(history, k),
           sequence_number' \in Nat, sequence_number <= sequence_number',
           joined'[c][k] = joined[c][k], replay'[c][k] = replay[c][k],
           subscriptions'[k][c] = subscriptions[k][c], NoGet(c)' => NoGet(c),
           c \in debug_connections' <=> c \in debug_connections,
           Len(history') \in Nat, Len(history) <= Len(history'),
           EntriesSince(history', k, joined[c][k]) = EntriesSince(history, k, joined[c][k])
    PROVE  Reliable(c, k)'
<1> DEFINE q == inbox[c]
           entries == EntriesSince(history, k, joined[c][k])
<1>1. /\ q \in Seq(Message) /\ UpTo(q, sequence_number) /\ sequence_number \in Nat
      /\ subscriptions[k][c] \in Nat /\ replay[c][k] \in [at : Nat, from : Nat]
      /\ joined[c][k] \in {Unsubscribed} \cup Nat /\ Len(history) \in Nat /\ Reliable(c, k)
      /\ Len(inbox'[c]) < Capacity => inbox'[c] = q \o new /\ Len(q) < Capacity
  BY OpenFacts
<1>2. JoinsWhen(subscriptions[k][c], joined[c][k], replay[c][k], Len(history'))
  BY <1>1 DEF Reliable, JoinsWhen, Unsubscribed
<1>3. ASSUME Len(q) < Capacity, c \notin debug_connections
      PROVE  /\ Follows(q \o new, k, subscriptions[k][c], entries)
             /\ Replays(q \o new, k, replay[c][k], subscriptions[k][c], subjects[k],
                        CompactedIn(history, k), sequence_number')
  <2>1. /\ Follows(q, k, subscriptions[k][c], entries)
        /\ Replays(q, k, replay[c][k], subscriptions[k][c], subjects[k], CompactedIn(history, k), sequence_number)
    BY <1>1, <1>3 DEF Reliable
  <2>2. Pushes(new, k, 0) = {}
    BY <1>3
  <2> HIDE DEF q, entries
  <2>3. Follows(q \o new, k, subscriptions[k][c], entries)
    BY <1>1, <2>1, <2>2, FollowsAppend
  <2>4. Replays(q \o new, k, replay[c][k], subscriptions[k][c], subjects[k], CompactedIn(history, k), sequence_number')
    BY <1>1, <2>1, <2>2, ReplaysAppend
  <2> QED BY <2>3, <2>4
<1>4. ASSUME Len(q) < Capacity, c \in debug_connections, NoGet(c)
      PROVE  Mirrors(q \o new, k, subjects[k])
  BY <1>1, <1>4, MirrorsAppend DEF Reliable
<1> QED BY <1>1, <1>2, <1>3, <1>4 DEF Reliable

\* A push on the key, whose stream it may change.
LEMMA PushStep ==
    ASSUME TraceInv, OrderInv, StreamsSorted', StoreTypeOK', NEW c \in Conn, NEW k \in Key, Live(c),
           NEW sender \in Conn, NEW value \in Value, NEW action \in ClientAction(sequence_number),
           TracePush(sender, k, value, action)
    PROVE  Reliable(c, k)'
<1> DEFINE q == inbox[c]
           entry == [value |-> value, seq |-> Stamp(action)]
           message == PushMessage(k, entry)
           new == PushDeliveries(c, sender, k, value, action, subjects'[k])
           subs == subscriptions[k][c]
           n == IF Broadcasts(action) THEN subs ELSE 0
           entries == EntriesSince(history, k, joined[c][k])
           more == EntriesSince(history', k, joined[c][k])
<1>1. Push(sender, k, value, action) /\ ApplyAction(k, value, action)
  BY DEF TracePush, Push
<1>2. RoomTypeOK /\ StoreTypeOK
  BY DEF OrderInv, RoomTypeOK
<1>3. /\ Stamp(action) \in Nat /\ entry \in SequenceValue
      /\ sequence_number \in Nat /\ sequence_number' = SequenceAfter(action, sequence_number)
      /\ sequence_number' \in Nat /\ sequence_number <= sequence_number'
      /\ Broadcasts(action) => Stamp(action) = sequence_number + 1
      /\ ~Broadcasts(action) => Stamp(action) = action.seq
  BY <1>1, <1>2, ClientActionType
     DEF ApplyAction, StoreTypeOK, Stamp, StampOf, SequenceAfter, SequenceValue, Broadcasts
<1>4. subjects'[k] = StreamAfter(subjects[k], entry, action) /\ subjects'[k] \in Seq(SequenceValue)
      /\ subjects[k] \in Seq(SequenceValue)
  BY <1>1, <1>2 DEF ApplyAction, StoreTypeOK
<1>5. new \in Seq(Message)
  BY <1>2, <1>4, PushDeliveriesFacts
<1>6. /\ inbox'[c] = Offer(q, new)
      /\ c \in debug_connections' <=> c \in debug_connections
  BY <1>1 DEF Push
<1>7. \A j \in Key : subscriptions'[j][c] = subscriptions[j][c]
  BY <1>1, <1>2 DEF Push, RoomTypeOK
<1>8. NoGet(c)' <=> NoGet(c)
  BY <1>7 DEF NoGet
<1>9. /\ q \in Seq(Message) /\ UpTo(q, sequence_number)
      /\ subs \in Nat /\ replay[c][k] \in [at : Nat, from : Nat]
      /\ joined[c][k] \in {Unsubscribed} \cup Nat /\ Len(history) \in Nat /\ Reliable(c, k)
      /\ Len(inbox'[c]) < Capacity => inbox'[c] = q \o new /\ Len(q) < Capacity
  BY <1>5, <1>6, OpenFacts
<1>10. joined' = joined /\ replay' = replay
  BY DEF TracePush
<1>11. JoinsWhen(subs, joined[c][k], replay[c][k], Len(history))
  BY <1>9 DEF Reliable
<1>12. /\ Len(history') \in Nat /\ Len(history) <= Len(history')
       /\ more = IF Broadcasts(action) THEN entries \cup {entry} ELSE entries
       /\ CompactedIn(history', k) = IF Broadcasts(action) THEN CompactedIn(history, k)
                                     ELSE CompactedIn(history, k) \cup {entry.seq}
  <2>1. PICK h \in HistoryEntry : /\ history' = Append(history, h)
                                  /\ h.key = k /\ h.action = action /\ h.entry = entry
    BY <1>2, PushIsRecorded DEF TraceInv
  <2>2. history \in Seq(HistoryEntry)
    BY DEF TraceInv, TraceTypeOK
  <2> DEFINE start == joined[c][k]
  <2>3. start \in Int /\ start <= Len(history)
    BY <1>9, <1>11 DEF JoinsWhen, Unsubscribed
  <2> HIDE DEF entry, q, message, new, subs, n, start
  <2>4. Len(Append(history, h)) = Len(history) + 1 /\ Len(history) \in Nat
    BY <2>2, LenProperties, AppendProperties
  <2>5. CASE Broadcasts(action)
    <3>0. h.key = k /\ Broadcasts(h.action)
      BY <2>1, <2>5
    <3>1. EntriesSince(Append(history, h), k, start) = EntriesSince(history, k, start) \cup {h.entry}
      BY <2>2, <2>3, <3>0, EntriesAppend
    <3>2. CompactedIn(Append(history, h), k) = CompactedIn(history, k)
      BY <2>2, <2>3, <3>0, EntriesAppend
    <3> HIDE DEF entries, more
    <3> QED BY <2>1, <2>4, <2>5, <3>1, <3>2 DEF start, entries, more
  <2>6. CASE ~Broadcasts(action)
    <3>1. /\ EntriesSince(Append(history, h), k, start) = EntriesSince(history, k, start)
          /\ CompactedIn(Append(history, h), k) = CompactedIn(history, k) \cup {h.entry.seq}
      BY <2>1, <2>2, <2>3, <2>6, EntriesAppend
    <3> HIDE DEF entries, more
    <3> QED BY <2>1, <2>4, <2>6, <3>1 DEF start, entries, more
  <2> QED BY <2>5, <2>6
<1>13. JoinsWhen(subs, joined[c][k], replay[c][k], Len(history'))
  BY <1>9, <1>11, <1>12 DEF JoinsWhen, Unsubscribed
<1>14. CompactedIn(history', k) = IF Broadcasts(action) THEN CompactedIn(history, k)
                                 ELSE CompactedIn(history, k) \cup {entry.seq}
  BY <1>12
<1>15. ASSUME Len(q) < Capacity, c \notin debug_connections
       PROVE  /\ Follows(q \o new, k, subs, more)
              /\ Replays(q \o new, k, replay[c][k], subs, subjects'[k], CompactedIn(history', k), sequence_number')
  <2>1. /\ Follows(q, k, subs, entries)
        /\ Replays(q, k, replay[c][k], subs, subjects[k], CompactedIn(history, k), sequence_number)
    BY <1>9, <1>15 DEF Reliable
  <2>2. /\ Pushes(new, k, 0) = 1 .. n
        /\ \A i \in 1 .. n : new[i] = message
    BY <1>2, <1>4, <1>15, ClientDeliveries
  <2>3. message.seq = Stamp(action) /\ EntryOf(message) = entry
    BY DEF PushMessage, EntryOf
  <2> HIDE DEF q, entry, message, new, entries, more
  <2>4. Follows(q \o new, k, subs, more)
    <3>1. CASE Broadcasts(action)
      <4>1. Pushes(new, k, 0) = 1 .. subs /\ \A i \in 1 .. subs : new[i].seq = sequence_number + 1
        BY <1>3, <2>2, <2>3, <3>1
      <4>2. subs = 1 => more = entries \cup {EntryOf(new[1])}
        BY <1>12, <2>2, <2>3, <3>1
      <4> HIDE DEF subs
      <4> QED BY <1>3, <1>5, <1>9, <2>1, <4>1, <4>2, FollowsAppend
    <3>2. CASE ~Broadcasts(action)
      <4>1. Pushes(new, k, 0) = {} /\ more = entries
        BY <1>12, <2>2, <3>2
      <4> HIDE DEF subs
      <4> QED BY <1>3, <1>5, <1>9, <2>1, <4>1, FollowsAppend
    <3> QED BY <3>1, <3>2
  <2>5. CASE replay[c][k] = NoReplay
    BY <2>4, <2>5 DEF Replays
  <2>6. CASE replay[c][k] # NoReplay
    <3>1. subs # 0
      BY <2>1, <2>6 DEF Replays
    <3>2. \A i \in Pushes(new, k, 0) : new[i].seq > sequence_number
      <4> SUFFICES ASSUME NEW i \in 1 .. n
                   PROVE  new[i].seq > sequence_number
        BY <2>2
      <4>1. Broadcasts(action)
        OBVIOUS
      <4>2. new[i].seq = sequence_number + 1
        BY <1>3, <2>2, <2>3, <4>1
      <4> QED BY <1>3, <4>2
    <3>3. Broadcasts(action) => entry \in Tells(new, k, 0)
      <4> SUFFICES ASSUME Broadcasts(action)
                   PROVE  entry \in Tells(new, k, 0)
        OBVIOUS
      <4>1. 1 \in Pushes(new, k, 0) /\ new[1] = message
        BY <1>9, <2>2, <3>1
      <4> QED BY <2>3, <4>1 DEF Tells
    <3>4. ~Broadcasts(action) => entry.seq \in CompactedIn(history', k)
      BY <1>14
    <3>5. \A e \in Range(subjects'[k]) : e \in Range(subjects[k]) \/ e = entry
      <4>1. Range(subjects'[k]) = RangeAfter(subjects[k], entry, action)
        BY <1>3, <1>4, StreamAfterRange
      <4>2. action.type \in {"relay", "append", "replace", "compact"}
        BY <1>3, ClientActionType
      <4> QED BY <4>1, <4>2 DEF RangeAfter
    <3>6. \A e \in Range(subjects'[k]) : \/ e \in Range(subjects[k])
                                         \/ e \in Tells(new, k, 0)
                                         \/ e.seq \in CompactedIn(history', k)
      BY <3>3, <3>4, <3>5
    <3>7. CompactedIn(history, k) \subseteq CompactedIn(history', k)
      BY <1>14
    <3> HIDE DEF subs
    <3>8. Replays(q \o new, k, replay[c][k], subs, subjects'[k], CompactedIn(history', k), sequence_number')
      BY <1>3, <1>5, <1>9, <2>1, <3>1, <3>2, <3>6, <3>7, ReplaysAppend
    <3> QED BY <2>4, <3>8 DEF subs
  <2> QED BY <2>5, <2>6
<1>16. ASSUME Len(q) < Capacity, c \in debug_connections, NoGet(c)
       PROVE  Mirrors(q \o new, k, subjects'[k])
  <2>1. Mirrors(q, k, subjects[k])
    BY <1>9, <1>16 DEF Reliable
  <2>2. /\ IF Mutates(action) THEN Streams(new, k) = {1} ELSE Streams(new, k) = {}
        /\ Mutates(action) => new[1].data = RetainAfter(subjects'[k], 0)
    <3>1. subscriptions[k][c] = 0
      BY <1>16 DEF NoGet
    <3>2. c \in debug_connections /\ subjects'[k] \in Seq(SequenceValue)
      BY <1>4, <1>16
    <3> HIDE DEF q, entry, message, subs, n, entries, more
    <3> QED BY <1>2, <3>1, <3>2, DebugDeliveries
  <2>3. RetainAfter(subjects'[k], 0) = subjects'[k]
    BY <1>4, RetainAll DEF StreamsSorted
  <2>4. ~Mutates(action) => subjects'[k] = subjects[k]
    BY <1>4 DEF Mutates, StreamAfter
  <2> HIDE DEF q, new
  <2> QED BY <1>5, <1>9, <2>1, <2>2, <2>3, <2>4, MirrorsAppend
<1> HIDE DEF q, new, entries
<1> QED BY <1>6, <1>7, <1>8, <1>9, <1>10, <1>13, <1>15, <1>16 DEF Reliable, q

\* A push on another key.
LEMMA PushElsewhereStep ==
    ASSUME TraceInv, OrderInv, StoreTypeOK', NEW c \in Conn, NEW k \in Key, Live(c),
           NEW sender \in Conn, NEW key \in Key, key # k, NEW value \in Value,
           NEW action \in ClientAction(sequence_number), TracePush(sender, key, value, action)
    PROVE  Reliable(c, k)'
<1> DEFINE new == PushDeliveries(c, sender, key, value, action, subjects'[key])
<1>1. Push(sender, key, value, action) /\ ApplyAction(key, value, action)
  BY DEF TracePush, Push
<1>2. RoomTypeOK /\ StoreTypeOK /\ subjects'[key] \in Seq(SequenceValue)
  BY DEF OrderInv, RoomTypeOK, StoreTypeOK
<1>3. new \in Seq(Message)
  BY <1>2, PushDeliveriesFacts
<1>4. c \notin debug_connections => Pushes(new, k, 0) = {}
  BY <1>2, ClientDeliveries
<1>5. c \in debug_connections /\ NoGet(c) => Streams(new, k) = {}
  <2> SUFFICES ASSUME c \in debug_connections, NoGet(c)
               PROVE  Streams(new, k) = {}
    OBVIOUS
  <2>1. subscriptions[key][c] = 0
    BY DEF NoGet
  <2> QED BY <1>2, <2>1, DebugDeliveries
<1>6. inbox'[c] = Offer(inbox[c], new) /\ (c \in debug_connections' <=> c \in debug_connections)
  BY <1>1 DEF Push
<1> HIDE DEF new
<1>7. \A j \in Key : subscriptions'[j][c] = subscriptions[j][c]
  BY <1>1, <1>2 DEF Push, RoomTypeOK
<1>8. (NoGet(c)' => NoGet(c)) /\ subscriptions'[k][c] = subscriptions[k][c]
  BY <1>7 DEF NoGet
<1>9. /\ subjects'[k] = subjects[k] /\ sequence_number' \in Nat /\ sequence_number <= sequence_number'
  BY <1>1, <1>2 DEF ApplyAction, StoreTypeOK, SequenceAfter
<1>10. joined'[c][k] = joined[c][k] /\ replay'[c][k] = replay[c][k]
  BY DEF TracePush
<1>11. /\ history \in Seq(HistoryEntry) /\ Len(history) \in Nat /\ joined[c][k] \in Int
  BY LenProperties DEF TraceInv, TraceTypeOK, Unsubscribed
<1>12. /\ Len(history') \in Nat /\ Len(history) <= Len(history')
       /\ EntriesSince(history', k, joined[c][k]) = EntriesSince(history, k, joined[c][k])
       /\ CompactedIn(history', k) = CompactedIn(history, k)
  <2>1. TraceTypeOK
    BY DEF TraceInv
  <2>2. \E h \in HistoryEntry :
           /\ history' = Append(history, h)
           /\ h.key = key /\ h.action = action
           /\ h.entry = [value |-> value, seq |-> Stamp(action)]
           /\ h.entry \in SequenceValue
    BY ONLY <2>1, <1>2, TracePush(sender, key, value, action),
            sender \in Conn, key \in Key, value \in Value,
            action \in ClientAction(sequence_number), PushIsRecorded
  <2>3. PICK h \in HistoryEntry : history' = Append(history, h) /\ h.key = key
    BY ONLY <2>2
  <2>4. /\ EntriesSince(Append(history, h), k, joined[c][k]) = EntriesSince(history, k, joined[c][k])
        /\ CompactedIn(Append(history, h), k) = CompactedIn(history, k)
        /\ Len(Append(history, h)) = Len(history) + 1
    BY <1>11, <2>3, EntriesAppend
  <2> QED BY <1>11, <2>3, <2>4
<1> QED BY <1>3, <1>4, <1>5, <1>6, <1>8, <1>9, <1>10, <1>12, QuietStep

\* Its own get, whose answer may be a replay.
LEMMA GetStep ==
    ASSUME TraceInv, OrderInv, StreamsSorted, NEW c \in Conn, NEW k \in Key, Live(c), NEW key \in Key,
           NEW seq \in {NoSeq} \cup 0 .. sequence_number, TraceGet(c, key, seq)
    PROVE  Reliable(c, k)'
<1> DEFINE q == inbox[c]
           subs == subscriptions[k][c]
           answer == InitMessage(key, Read(key, seq))
           new == IF seq = NoSeq THEN <<>> ELSE <<answer>>
<1>1. Get(c, key, seq) /\ RoomTypeOK /\ StoreTypeOK /\ subjects[key] \in Seq(SequenceValue)
  BY DEF TraceGet, OrderInv, RoomTypeOK, StoreTypeOK
<1>2. seq # NoSeq => seq \in Nat
  BY <1>1 DEF StoreTypeOK
<1>3. /\ subscriptions' = [subscriptions EXCEPT ![key][c] = @ + 1]
      /\ inbox' = IF seq = NoSeq THEN inbox
                  ELSE [inbox EXCEPT ![c] = Offer(@, <<answer>>)]
      /\ subjects' = subjects /\ sequence_number' = sequence_number
      /\ debug_connections' = debug_connections
  BY <1>1 DEF Get, storeVars
<1>4. /\ history' = history
  BY DEF TraceGet
<1>5. seq # NoSeq => answer \in Message /\ answer.type = "init"
  BY <1>1, <1>2, RetainAfterFacts DEF Read, InitMessage, Message
<1>6. /\ new \in Seq(Message) /\ \A i \in DOMAIN new : new[i].type = "init"
  BY <1>5
<1>7. q \in Seq(Message) /\ Len(q) \in Nat /\ Len(q) <= Capacity
  BY <1>1, LenProperties DEF RoomTypeOK
<1>8. inbox'[c] = Offer(q, new)
  <2>1. Offer(q, <<>>) = q
    <3>1. q \o <<>> = q
      BY <1>7, ConcatEmptySeq
    <3> QED BY <1>7, <3>1 DEF Offer
  <2> QED BY <1>1, <1>3, <2>1 DEF RoomTypeOK
<1>9. /\ subs \in Nat
      /\ subscriptions'[key][c] = subscriptions[key][c] + 1 /\ subscriptions[key][c] \in Nat
      /\ k # key => subscriptions'[k][c] = subs
  BY <1>1, <1>3 DEF RoomTypeOK
<1>10. ~NoGet(c)'
  BY <1>9 DEF NoGet
<1> HIDE DEF q, subs, answer
<1>11. Pushes(new, k, 0) = {}
  BY <1>6 DEF Pushes
<1>12. /\ UpTo(q, sequence_number) /\ sequence_number \in Nat
       /\ replay[c][k] \in [at : Nat, from : Nat]
       /\ joined[c][k] \in {Unsubscribed} \cup Nat /\ Len(history) \in Nat /\ Reliable(c, k)
       /\ Len(inbox'[c]) < Capacity => inbox'[c] = q \o new /\ Len(q) < Capacity
  <2> HIDE DEF new
  <2> QED BY <1>6, <1>8, OpenFacts DEF q
<1>13. TraceTypeOK
  BY DEF TraceInv
<1>14. CASE k # key
  <2>1. joined'[c][k] = joined[c][k] /\ replay'[c][k] = replay[c][k]
    BY <1>13, <1>14 DEF TraceGet, TraceTypeOK
  <2>2. JoinsWhen(subs, joined[c][k], replay[c][k], Len(history))
    BY <1>12 DEF Reliable, subs
  <2> HIDE DEF new
  <2>3. ASSUME Len(q) < Capacity, c \notin debug_connections
        PROVE  /\ Follows(q \o new, k, subs, EntriesSince(history, k, joined[c][k]))
               /\ Replays(q \o new, k, replay[c][k], subs, subjects[k], CompactedIn(history, k), sequence_number)
    <3>1. /\ Follows(q, k, subs, EntriesSince(history, k, joined[c][k]))
          /\ Replays(q, k, replay[c][k], subs, subjects[k], CompactedIn(history, k), sequence_number)
      BY <1>12, <2>3 DEF Reliable, q, subs
    <3>2. Follows(q \o new, k, subs, EntriesSince(history, k, joined[c][k]))
      BY <1>6, <1>7, <1>9, <1>11, <1>12, <3>1, FollowsAppend
    <3>3. sequence_number <= sequence_number
      BY <1>12
    <3>4. Replays(q \o new, k, replay[c][k], subs, subjects[k], CompactedIn(history, k), sequence_number)
      BY <1>6, <1>7, <1>11, <1>12, <3>1, <3>3, ReplaysAppend
    <3> QED BY <3>2, <3>4
  <2> QED BY <1>3, <1>4, <1>9, <1>10, <1>12, <1>14, <2>1, <2>2, <2>3 DEF Reliable
<1>15. CASE k = key
  <2> DEFINE now == subscriptions'[k][c]
  <2>1. now = subs + 1 /\ now # 0
    BY <1>9, <1>15 DEF subs
  <2> HIDE DEF now
  <2>2. /\ JoinsWhen(subs, joined[c][k], replay[c][k], Len(history))
    BY <1>12 DEF Reliable, subs
  <2>3. joined'[c][k] = IF joined[c][k] # Unsubscribed THEN joined[c][k] ELSE Len(history)
    BY <1>13, <1>15 DEF TraceGet, TraceTypeOK
  <2>4. replay'[c][k] = IF seq = NoSeq THEN replay[c][k] ELSE [at |-> Len(inbox'[c]), from |-> seq]
    BY <1>13, <1>15 DEF TraceGet, TraceTypeOK
  <2>5. JoinsWhen(now, joined'[c][k], replay'[c][k], Len(history))
    BY <1>12, <2>1, <2>2, <2>3 DEF JoinsWhen, Unsubscribed
  <2>6. ASSUME Len(inbox'[c]) < Capacity, c \notin debug_connections
        PROVE  /\ Follows(inbox'[c], k, now, EntriesSince(history, k, joined'[c][k]))
               /\ Replays(inbox'[c], k, replay'[c][k], now, subjects[k], CompactedIn(history, k), sequence_number)
    <3>1. /\ inbox'[c] = q \o new /\ Len(q) < Capacity
          /\ Follows(q, k, subs, EntriesSince(history, k, joined[c][k]))
          /\ Replays(q, k, replay[c][k], subs, subjects[k], CompactedIn(history, k), sequence_number)
      BY <1>12, <2>6 DEF Reliable, q, subs
    <3>2. Follows(q \o new, k, now, EntriesSince(history, k, joined'[c][k]))
      <4>1. CASE subs = 0
        <5>1. joined'[c][k] = Len(history)
          BY <2>2, <2>3, <4>1 DEF JoinsWhen
        <5>2. EntriesSince(history, k, Len(history)) = {}
          BY <1>12, LenProperties, <1>13 DEF EntriesSince, TraceTypeOK
        <5>3. Pushes(q, key, 0) = {}
          BY <1>15, <3>1, <4>1 DEF Follows
        <5>4. Pushes(q \o new, k, 0) = {}
          <6>1. 0 \in 0 .. Len(q)
            BY <1>7
          <6> HIDE DEF new
          <6> QED BY <1>6, <1>7, <1>11, <1>15, <5>3, <6>1, PushesAppend
        <5> QED BY <2>1, <4>1, <5>1, <5>2, <5>4 DEF Follows, Tells, OnceInOrder
      <4>2. CASE subs # 0
        <5>1. now # 0 /\ now # 1
          BY <1>9, <2>1, <4>2
        <5> QED BY <5>1 DEF Follows
      <4> QED BY <4>1, <4>2
    <3>3. CASE seq = NoSeq
      <4>1. Replays(q, k, replay[c][k], now, subjects[k], CompactedIn(history, k), sequence_number)
        BY <2>1, <3>1 DEF Replays
      <4>2. inbox'[c] = q
        BY <1>3, <3>3 DEF q
      <4> QED BY <2>4, <3>1, <3>2, <3>3, <4>1, <4>2
    <3>4. CASE seq # NoSeq
      <4>1. answer = InitMessage(k, RetainAfter(subjects[k], seq))
        BY <1>15 DEF answer, Read
      <4>2. Sorted(subjects[k], sequence_number)
        BY DEF StreamsSorted
      <4>3. /\ answer \in Message
            /\ Replays(Append(q, answer), k, [at |-> Len(q) + 1, from |-> seq], now, subjects[k],
                       CompactedIn(history, k), sequence_number)
        BY <1>1, <1>2, <1>7, <1>12, <1>15, <2>1, <3>4, <4>1, <4>2, ReplaysNow
      <4>4. q \o new = Append(q, answer) /\ Len(Append(q, answer)) = Len(q) + 1
        BY <1>7, <3>4, <4>3, AppendIsConcat, AppendProperties
      <4> QED BY <2>4, <3>1, <3>2, <3>4, <4>3, <4>4
    <3> QED BY <3>3, <3>4
  <2> QED BY <1>3, <1>4, <1>10, <2>5, <2>6 DEF Reliable, now
<1> QED BY <1>14, <1>15

-----------------------------------------------------------------------------
(***************************************************************************)
(* Every step.                                                             *)
(***************************************************************************)

\* A step that is none of c's and changes no stream.
LEMMA OthersStep ==
    ASSUME NEW c \in Conn, status'[c] = status[c], inbox'[c] = inbox[c],
           \A k \in Key : subscriptions'[k][c] = subscriptions[k][c],
           c \in debug_connections' <=> c \in debug_connections,
           joined'[c] = joined[c], replay'[c] = replay[c],
           subjects' = subjects, sequence_number' = sequence_number,
           history' = history
    PROVE  /\ Fresh(c) => Fresh(c)'
           /\ \A k \in Key : Reliable(c, k) => Reliable(c, k)'
<1>1. NoGet(c)' <=> NoGet(c)
  BY DEF NoGet
<1>2. Fresh(c) => Fresh(c)'
  BY <1>1 DEF Fresh
<1>3. ASSUME NEW k \in Key, Reliable(c, k)
      PROVE  Reliable(c, k)'
  BY <1>1, <1>3 DEF Reliable
<1> QED BY <1>2, <1>3

LEMMA TraceTypeStep ==
    ASSUME TraceTypeOK, RoomTypeOK, RoomTypeOK', [TraceNext]_traceVars
    PROVE  TraceTypeOK'
<1>1. CASE UNCHANGED traceVars
  BY <1>1 DEF traceVars, TraceTypeOK
<1>2. ASSUME NEW conn \in Conn, TraceConnect(conn) \/ TracePing(conn)
      PROVE  TraceTypeOK'
  BY <1>2 DEF TraceConnect, TracePing, TraceTypeOK
<1>3. ASSUME NEW conn \in Conn, NEW key \in Key, NEW value \in Value,
             NEW action \in ClientAction(sequence_number), TracePush(conn, key, value, action)
      PROVE  TraceTypeOK'
  <2>1. PICK h \in HistoryEntry : history' = Append(history, h)
    BY <1>3, PushIsRecorded
  <2>2. history' \in Seq(HistoryEntry)
    BY <2>1, AppendProperties DEF TraceTypeOK
  <2> QED BY <1>3, <2>2 DEF TracePush, TraceTypeOK
<1>4. ASSUME NEW conn \in Conn, NEW key \in Key, NEW seq \in {NoSeq} \cup 0 .. sequence_number,
             TraceGet(conn, key, seq)
      PROVE  TraceTypeOK'
  <2>1. Len(history) \in Nat /\ Len(inbox'[conn]) \in Nat
    BY LenProperties DEF TraceTypeOK, RoomTypeOK
  <2>2. seq # NoSeq => seq \in Nat
    BY DEF RoomTypeOK, StoreTypeOK
  <2>3. joined' \in [Conn -> [Key -> {Unsubscribed} \cup Nat]]
    BY <1>4, <2>1 DEF TraceGet, TraceTypeOK
  <2>4. replay' \in [Conn -> [Key -> [at : Nat, from : Nat]]]
    BY <1>4, <2>1, <2>2 DEF TraceGet, TraceTypeOK
  <2> QED BY <1>4, <2>3, <2>4 DEF TraceGet, TraceTypeOK
<1> QED BY <1>1, <1>2, <1>3, <1>4 DEF TraceNext

\* A connection that has just been made has been told of nothing yet, or is
\* shown the streams there are.
LEMMA ConnectStep ==
    ASSUME TraceInv, OrderInv, NEW c \in Conn, NEW k \in Key, TraceConnect(c), Live(c)'
    PROVE  Reliable(c, k)'
<1>0. RoomTypeOK
  BY DEF OrderInv
<1>1. CASE Drop(c)
  BY <1>0, <1>1 DEF Drop, Live, RoomTypeOK
<1>2. CASE Connect(c) \/ ConnectDebug(c)
  <2>1. Fresh(c) /\ Len(history) \in Nat
    BY <1>2, LenProperties DEF TraceInv, TraceTypeOK, Connect, ConnectDebug
  <2>2. /\ subscriptions' = subscriptions /\ subjects' = subjects /\ sequence_number' = sequence_number
        /\ joined' = joined /\ replay' = replay /\ history' = history
    BY <1>2 DEF TraceConnect, Connect, ConnectDebug, storeVars
  <2>3. /\ subscriptions[k][c] = 0 /\ joined[c][k] = Unsubscribed /\ replay[c][k] = NoReplay
        /\ inbox[c] = <<>> /\ c \notin debug_connections
    BY <2>1 DEF Fresh, NoGet
  <2>4. JoinsWhen(0, Unsubscribed, NoReplay, Len(history))
    BY <2>1 DEF JoinsWhen, Unsubscribed
  <2>5. CASE Connect(c)
    <3>1. inbox' = inbox /\ debug_connections' = debug_connections
      BY <2>5 DEF Connect
    <3>2. \A entries : Follows(<<>>, k, 0, entries)
      BY DEF Follows, Pushes
    <3>3. \A stream, except, last : Replays(<<>>, k, NoReplay, 0, stream, except, last)
      BY DEF Replays
    <3> QED BY <2>2, <2>3, <2>4, <3>1, <3>2, <3>3 DEF Reliable
  <2>6. CASE ConnectDebug(c)
    <3>1. PICK order \in SetToSeqs({key \in Key : subjects[key] # <<>>}) :
              inbox' = [inbox EXCEPT ![c] =
                           Offer(<<>>, [i \in DOMAIN order |->
                                           InitMessage(order[i], subjects[order[i]])])]
      BY <2>6 DEF ConnectDebug
    <3> DEFINE first == [i \in DOMAIN order |-> InitMessage(order[i], subjects[order[i]])]
    <3>2. first \in Seq(Message)
      BY <1>0, FirstStreamsFacts
    <3>3. Mirrors(first, k, subjects[k])
      BY <1>0, FirstStreamsMirror
    <3>4. inbox'[c] = Offer(<<>>, first)
      BY <1>0, <3>1 DEF RoomTypeOK
    <3> HIDE DEF first
    <3>5. Len(inbox'[c]) < Capacity => inbox'[c] = first
      <4>1. <<>> \in Seq(Message) /\ <<>> \o first = first
        BY <3>2, ConcatEmptySeq
      <4> QED BY <3>2, <3>4, <4>1, OfferAll
    <3>6. c \in debug_connections'
      BY <2>6 DEF ConnectDebug
    <3> QED BY <2>2, <2>3, <2>4, <3>3, <3>5, <3>6 DEF Reliable
  <2> QED BY <1>2, <2>5, <2>6
<1> QED BY <1>1, <1>2 DEF TraceConnect

LEMMA PingStep ==
    ASSUME TraceInv, OrderInv, NEW c \in Conn, NEW k \in Key, TracePing(c)
    PROVE  Reliable(c, k)'
<1> DEFINE new == <<PongMessage>>
<1>1. Ping(c) /\ Live(c) /\ RoomTypeOK
  BY DEF TracePing, Ping, OrderInv
<1>2. new \in Seq(Message) /\ \A i \in DOMAIN new : new[i].type = "pong"
  BY DEF Message, PongMessage
<1>3. inbox'[c] = Offer(inbox[c], new)
  BY <1>1 DEF Ping, RoomTypeOK
<1> HIDE DEF new
<1>4. Pushes(new, k, 0) = {} /\ Streams(new, k) = {}
  BY <1>2 DEF Pushes, Streams
<1>5. /\ subscriptions' = subscriptions /\ subjects' = subjects /\ sequence_number' = sequence_number
      /\ joined' = joined /\ replay' = replay /\ history' = history
      /\ debug_connections' = debug_connections
  BY <1>1 DEF TracePing, Ping, storeVars
<1>6. sequence_number \in Nat /\ Len(history) \in Nat
  BY <1>1, LenProperties DEF RoomTypeOK, StoreTypeOK, TraceInv, TraceTypeOK
<1>7. NoGet(c)' => NoGet(c)
  BY <1>5 DEF NoGet
<1>8. sequence_number <= sequence_number' /\ Len(history) <= Len(history')
  BY <1>5, <1>6
<1> QED BY <1>1, <1>2, <1>3, <1>4, <1>5, <1>6, <1>7, <1>8, QuietStep

LEMMA TraceInvStep ==
    ASSUME TraceInv, RoomFacts, RoomFacts', [TraceNext]_traceVars
    PROVE  TraceInv'
<1>1. /\ OrderInv /\ RoomTypeOK /\ StreamsSorted
      /\ RoomTypeOK' /\ StoreTypeOK' /\ StreamsSorted'
  BY DEF RoomFacts, OrderInv, RoomTypeOK
<1>2. TraceTypeOK'
  BY <1>1, TraceTypeStep DEF TraceInv
<1>3. SUFFICES ASSUME NEW c \in Conn
               PROVE  /\ status'[c] = "new" => Fresh(c)'
                      /\ \A k \in Key : Live(c)' => Reliable(c, k)'
  BY <1>2 DEF TraceInv
<1>4. /\ status[c] = "new" => Fresh(c)
      /\ \A k \in Key : Live(c) => Reliable(c, k)
  BY DEF TraceInv
<1> DEFINE Goal == /\ status'[c] = "new" => Fresh(c)'
                   /\ \A k \in Key : Live(c)' => Reliable(c, k)'
\* What leaves c as it is, and what happens to others.
<1>5. ASSUME status'[c] = status[c], inbox'[c] = inbox[c],
             \A k \in Key : subscriptions'[k][c] = subscriptions[k][c],
             c \in debug_connections' <=> c \in debug_connections,
             joined'[c] = joined[c], replay'[c] = replay[c],
             subjects' = subjects, sequence_number' = sequence_number,
             history' = history
      PROVE  Goal
  <2>1. /\ Fresh(c) => Fresh(c)'
        /\ \A k \in Key : Reliable(c, k) => Reliable(c, k)'
    BY <1>5, OthersStep
  <2> QED BY <1>4, <1>5, <2>1 DEF Live
<1>6. ASSUME UNCHANGED traceVars
      PROVE  Goal
  BY <1>5, <1>6 DEF traceVars, roomVars, connVars, storeVars
<1>7. ASSUME NEW conn \in Conn, TraceConnect(conn)
      PROVE  Goal
  <2>1. /\ status' \in [Conn -> {"new", "open", "dropped"}] /\ status'[conn] # "new"
        /\ c # conn => status'[c] = status[c] /\ inbox'[c] = inbox[c]
        /\ c # conn => (c \in debug_connections' <=> c \in debug_connections)
        /\ subscriptions' = subscriptions
    BY <1>1, <1>7 DEF TraceConnect, Connect, ConnectDebug, Drop, RoomTypeOK
  <2>2. /\ subjects' = subjects /\ sequence_number' = sequence_number
        /\ history' = history /\ joined' = joined /\ replay' = replay
    BY <1>7 DEF TraceConnect, Connect, ConnectDebug, Drop, storeVars
  <2>3. CASE c # conn
    BY <1>5, <2>1, <2>2, <2>3
  <2>4. CASE c = conn
    <3>1. \A k \in Key : Live(c)' => Reliable(c, k)'
      BY <1>1, <1>7, <2>4, ConnectStep
    <3> QED BY <2>1, <2>4, <3>1
  <2> QED BY <2>3, <2>4
<1>8. ASSUME NEW conn \in Conn, TracePing(conn)
      PROVE  Goal
  <2>1. /\ c # conn => inbox'[c] = inbox[c]
        /\ Live(conn) /\ status' = status
        /\ debug_connections' = debug_connections /\ subscriptions' = subscriptions
        /\ subjects' = subjects /\ sequence_number' = sequence_number
        /\ history' = history /\ joined' = joined /\ replay' = replay
    BY <1>1, <1>8 DEF TracePing, Ping, RoomTypeOK, storeVars
  <2>2. CASE c # conn
    BY <1>5, <2>1, <2>2
  <2>3. CASE c = conn
    <3>1. \A k \in Key : Reliable(c, k)'
      BY <1>1, <1>8, <2>3, PingStep
    <3> QED BY <2>1, <2>3, <3>1 DEF Live
  <2> QED BY <2>2, <2>3
<1>9. ASSUME NEW conn \in Conn, NEW key \in Key, NEW seq \in {NoSeq} \cup 0 .. sequence_number,
             TraceGet(conn, key, seq)
      PROVE  Goal
  <2>1. /\ c # conn => inbox'[c] = inbox[c]
        /\ c # conn => \A k \in Key : subscriptions'[k][c] = subscriptions[k][c]
        /\ Live(conn) /\ status' = status
        /\ debug_connections' = debug_connections
        /\ subjects' = subjects /\ sequence_number' = sequence_number
        /\ history' = history
    BY <1>1, <1>9 DEF TraceGet, Get, RoomTypeOK, storeVars
  <2>2. c # conn => joined'[c] = joined[c] /\ replay'[c] = replay[c]
    BY <1>9 DEF TraceGet, TraceInv, TraceTypeOK
  <2>3. CASE c # conn
    BY <1>5, <2>1, <2>2, <2>3
  <2>4. CASE c = conn
    <3>1. \A k \in Key : Reliable(c, k)'
      BY <1>1, <1>9, <2>1, <2>4, GetStep
    <3> QED BY <2>1, <2>4, <3>1 DEF Live
  <2> QED BY <2>3, <2>4
<1>10. ASSUME NEW sender \in Conn, NEW key \in Key, NEW value \in Value,
              NEW action \in ClientAction(sequence_number), TracePush(sender, key, value, action)
       PROVE  Goal
  <2>1. status' = status /\ Push(sender, key, value, action)
    BY <1>10 DEF TracePush, Push
  <2>2. \A k \in Key : Live(c) => Reliable(c, k)'
    <3> SUFFICES ASSUME NEW k \in Key, Live(c)
                 PROVE  Reliable(c, k)'
      OBVIOUS
    <3>1. CASE k = key
      BY <1>1, <1>10, <3>1, PushStep
    <3>2. CASE k # key
      BY <1>1, <1>10, <3>2, PushElsewhereStep
    <3> QED BY <3>1, <3>2
  <2>3. ASSUME status[c] = "new"
        PROVE  Fresh(c)'
    <3>1. Fresh(c) /\ ~Live(c)
      BY <1>4, <2>3 DEF Live
    <3>2. inbox'[c] = Offer(<<>>, <<>>) /\ Offer(<<>>, <<>>) = <<>>
      <4>1. inbox'[c] = Offer(inbox[c], PushDeliveries(c, sender, key, value, action, subjects'[key]))
        BY <2>1 DEF Push
      <4>2. PushDeliveries(c, sender, key, value, action, subjects'[key]) = <<>>
        BY <3>1 DEF PushDeliveries
      <4> QED BY <3>1, <4>1, <4>2, CapacityAssumption DEF Fresh, Offer
    <3>3. \A k \in Key : subscriptions'[k][c] = 0
      BY <1>1, <2>1, <3>1 DEF Push, RoomTypeOK, Fresh, NoGet
    <3>4. c \notin debug_connections' /\ joined' = joined /\ replay' = replay
      BY <1>10, <2>1, <3>1 DEF Push, TracePush, Fresh
    <3> QED BY <3>1, <3>2, <3>3, <3>4 DEF Fresh, NoGet
  <2> QED BY <2>1, <2>2, <2>3 DEF Live
<1> HIDE DEF Goal
<1>11. Goal
  BY <1>6, <1>7, <1>8, <1>9, <1>10 DEF TraceNext
<1> QED BY <1>11 DEF Goal

LEMMA TraceInvariant ==
    ASSUME ~RawCompaction
    PROVE  TraceSpec => [](TraceInv /\ RoomFacts)
<1>1. TraceInit => TraceInv
  BY TraceInvInit
<1>2. TraceInv /\ RoomFacts /\ RoomFacts' /\ [TraceNext]_traceVars => TraceInv'
  BY TraceInvStep
<1> QED BY <1>1, <1>2, RoomFactsHold, PTL DEF TraceSpec

-----------------------------------------------------------------------------
(***************************************************************************)
(* What the clients may rely on.                                           *)
(***************************************************************************)

\* A place in an inbox that a reading of the trace names.
LEMMA Readings ==
    ASSUME NEW c \in Conn, NEW k \in Key, NEW at
    PROVE  /\ PushesTo(c, k, at) = Pushes(inbox[c], k, at)
           /\ Told(c, k, at) = Tells(inbox[c], k, at)
           /\ StreamsSent(c, k) = Streams(inbox[c], k)
BY DEF PushesTo, Pushes, Told, Tells, StreamsSent, Streams

\* Whatever other connections do, a client whose channel has not been full has
\* been told of every broadcast since it subscribed, and nothing twice (db.rs:
\* push notifies the listeners of a key under the mutex under which get makes
\* one; data-model.md: "Each client will receive every message sent in a room
\* while they are connected, in the same order").
THEOREM ClientsFollowHistory ==
    ASSUME ~RawCompaction
    PROVE  TraceSpec => []SubscribersFollowHistory
<1>1. TraceInv => SubscribersFollowHistory
  <2> SUFFICES ASSUME TraceInv, NEW c \in Clients, NEW k \in Key, subscriptions[k][c] = 1
               PROVE  /\ Told(c, k, 0) = {history[h].entry : h \in BroadcastsTo(k, joined[c][k])}
                      /\ ToldOnceInOrder(c, k, 0)
    BY DEF SubscribersFollowHistory
  <2>1. c \in Conn /\ Live(c) /\ Len(inbox[c]) < Capacity /\ c \notin debug_connections
    BY DEF Clients, KeepsUp
  <2>2. Follows(inbox[c], k, 1, EntriesSince(history, k, joined[c][k]))
    BY <2>1 DEF TraceInv, Reliable
  <2>3. Tells(inbox[c], k, 0) = EntriesSince(history, k, joined[c][k]) /\ OnceInOrder(inbox[c], k)
    BY <2>2 DEF Follows
  <2>4. EntriesSince(history, k, joined[c][k]) = {history[h].entry : h \in BroadcastsTo(k, joined[c][k])}
    BY DEF EntriesSince, BroadcastsTo
  <2> QED BY <2>1, <2>3, <2>4, Readings DEF OnceInOrder, ToldOnceInOrder
<1> QED BY <1>1, TraceInvariant, PTL

\* And the stream it asks to be sent joins what it is told from then on: nothing
\* is missing between them but what compactions have made of it, and nothing is
\* in both (db.rs: get answers and makes the listener in one call).
THEOREM ReplaysJoinLive ==
    ASSUME ~RawCompaction
    PROVE  TraceSpec => []ReplayJoinsLive
<1>1. TraceInv /\ RoomFacts => ReplayJoinsLive
  <2> SUFFICES ASSUME TraceInv, RoomFacts, NEW c \in Clients, NEW k \in Key, replay[c][k] # NoReplay
               PROVE  LET at       == replay[c][k].at
                          replayed == inbox[c][at].data
                      IN  /\ Increasing(replayed)
                          /\ \A entry \in Range(replayed), i \in PushesTo(c, k, at) :
                                entry.seq < inbox[c][i].seq
                          /\ subscriptions[k][c] = 1 => ToldOnceInOrder(c, k, at)
                          /\ \A entry \in Range(subjects[k]) :
                                entry.seq > replay[c][k].from /\ entry.seq \notin CompactedAt(k)
                                    => entry \in Range(replayed) \cup Told(c, k, at)
    BY DEF ReplayJoinsLive
  <2> DEFINE at == replay[c][k].at
             replayed == inbox[c][at].data
  <2>1. c \in Conn /\ Live(c) /\ Len(inbox[c]) < Capacity /\ c \notin debug_connections
    BY DEF Clients, KeepsUp
  <2>2. /\ Follows(inbox[c], k, subscriptions[k][c], EntriesSince(history, k, joined[c][k]))
        /\ Replays(inbox[c], k, replay[c][k], subscriptions[k][c], subjects[k],
                   CompactedIn(history, k), sequence_number)
    BY <2>1 DEF TraceInv, Reliable
  <2>3. at \in Nat
    BY <2>1 DEF TraceInv, TraceTypeOK
  <2>4. /\ PushesTo(c, k, at) = Pushes(inbox[c], k, at)
        /\ Told(c, k, at) = Tells(inbox[c], k, at)
    BY <2>1, Readings
  <2>5. subscriptions[k][c] = 1 => ToldOnceInOrder(c, k, at)
    <3> SUFFICES ASSUME subscriptions[k][c] = 1
                 PROVE  ToldOnceInOrder(c, k, at)
      OBVIOUS
    <3>1. OnceInOrder(inbox[c], k)
      BY <2>2 DEF Follows
    <3>2. Pushes(inbox[c], k, at) \subseteq Pushes(inbox[c], k, 0)
      <4>1. DOMAIN inbox[c] \subseteq Int
        BY <2>1, LenProperties DEF RoomFacts, OrderInv, RoomTypeOK
      <4> QED BY <2>3, <4>1 DEF Pushes
    <3> QED BY <2>4, <3>1, <3>2 DEF OnceInOrder, ToldOnceInOrder
  <2>6. /\ Increasing(replayed)
        /\ \A e \in Range(replayed), i \in Pushes(inbox[c], k, at) : e.seq < inbox[c][i].seq
        /\ \A e \in Range(subjects[k]) : e.seq > replay[c][k].from /\ e.seq \notin CompactedIn(history, k)
               => e \in Range(replayed) \cup Tells(inbox[c], k, at)
    BY <2>2 DEF Replays
  <2>7. CompactedAt(k) = CompactedIn(history, k)
    BY DEF CompactedAt, CompactedIn
  <2> QED BY <2>4, <2>5, <2>6, <2>7
<1> QED BY <1>1, TraceInvariant, PTL

\* A debug connection that listens only always holds the room's streams: they
\* are shown to it when it is made, and again when they change (db.rs:
\* connect_debug, and push to the debug connections).
THEOREM DebugConnectionsMirror ==
    ASSUME ~RawCompaction
    PROVE  TraceSpec => []DebugMirrorsStreams
<1>1. TraceInv /\ RoomFacts => DebugMirrorsStreams
  <2> SUFFICES ASSUME TraceInv, RoomFacts, NEW c \in debug_connections, NEW k \in Key, KeepsUp(c),
                      \A j \in Key : subscriptions[j][c] = 0
               PROVE  \/ StreamsSent(c, k) = {} /\ subjects[k] = <<>>
                      \/ \E last \in StreamsSent(c, k) :
                            /\ \A i \in StreamsSent(c, k) : i <= last
                            /\ subjects[k] = inbox[c][last].data
    BY DEF DebugMirrorsStreams
  <2>1. c \in Conn /\ Live(c) /\ Len(inbox[c]) < Capacity /\ NoGet(c)
    BY DEF KeepsUp, RoomFacts, OrderInv, RoomTypeOK, NoGet
  <2>2. Mirrors(inbox[c], k, subjects[k])
    BY <2>1 DEF TraceInv, Reliable
  <2>3. StreamsSent(c, k) = Streams(inbox[c], k)
    BY <2>1, Readings
  <2> QED BY <2>2, <2>3 DEF Mirrors
<1> QED BY <1>1, TraceInvariant, PTL

-----------------------------------------------------------------------------
(***************************************************************************)
(* What the streams hold.                                                  *)
(***************************************************************************)

\* The readings of a history, of any history hist.
SupersedesIn(hist, later, h) ==
    /\ later > h
    /\ hist[later].key = hist[h].key
    /\ \/ hist[later].action.type = "replace"
       \/ /\ hist[later].action.type = "compact"
          /\ hist[h].entry.seq <= hist[later].entry.seq

RetainedIn(hist, k) ==
    {h \in DOMAIN hist :
        /\ hist[h].key = k
        /\ Mutates(hist[h].action)
        /\ \A later \in DOMAIN hist : ~SupersedesIn(hist, later, h)}

EntriesRetained(hist, k) == {hist[h].entry : h \in RetainedIn(hist, k)}

HoldsUnsuperseded(k) == Range(subjects[k]) = EntriesRetained(history, k)

\* A push of an action on a key supersedes an earlier entry of a key.
OutOf(key, k, action, entry) ==
    /\ key = k
    /\ action.type = "replace" \/ (action.type = "compact" /\ entry.seq <= action.seq)

\* One more push adds itself to what its own key retains, and takes out what it supersedes.
LEMMA RetainedAfterPush ==
    ASSUME NEW hist \in Seq(HistoryEntry), NEW h \in HistoryEntry, NEW k,
           h.action.type = "compact" => h.entry.seq = h.action.seq
    PROVE  EntriesRetained(Append(hist, h), k)
               = {e \in EntriesRetained(hist, k) : ~OutOf(h.key, k, h.action, e)}
                     \cup IF h.key = k /\ Mutates(h.action) THEN {h.entry} ELSE {}
<1> DEFINE n == Len(hist)
           after == Append(hist, h)
           stays == {i \in RetainedIn(hist, k) : ~OutOf(h.key, k, h.action, hist[i].entry)}
           fresh == IF h.key = k /\ Mutates(h.action) THEN {n + 1} ELSE {}
<1>1. /\ n \in Nat /\ DOMAIN hist = 1 .. n /\ DOMAIN after = 1 .. n + 1
      /\ \A i \in 1 .. n : after[i] = hist[i]
      /\ after[n + 1] = h
  BY AppendProperties, LenProperties
<1>2. 1 .. n + 1 = 1 .. n \cup {n + 1} /\ n + 1 \notin 1 .. n /\ \A i \in 1 .. n : n + 1 > i /\ ~(i > n + 1)
  BY <1>1
<1> HIDE DEF n, after
<1>3. ASSUME NEW i \in 1 .. n
      PROVE  /\ SupersedesIn(after, n + 1, i) <=> OutOf(h.key, hist[i].key, h.action, hist[i].entry)
             /\ \A later \in 1 .. n : SupersedesIn(after, later, i) <=> SupersedesIn(hist, later, i)
             /\ ~SupersedesIn(after, i, n + 1)
  BY <1>1, <1>2 DEF SupersedesIn, OutOf
<1>4. ~SupersedesIn(after, n + 1, n + 1)
  BY <1>1 DEF SupersedesIn
<1>5. ASSUME NEW i \in 1 .. n
      PROVE  i \in RetainedIn(after, k) <=> i \in stays
  <2>1. i \in RetainedIn(hist, k) <=> /\ hist[i].key = k /\ Mutates(hist[i].action)
                                      /\ \A later \in 1 .. n : ~SupersedesIn(hist, later, i)
    BY <1>1 DEF RetainedIn
  <2>2. i \in RetainedIn(after, k) <=> /\ hist[i].key = k /\ Mutates(hist[i].action)
                                       /\ \A later \in 1 .. n : ~SupersedesIn(after, later, i)
                                       /\ ~SupersedesIn(after, n + 1, i)
    BY <1>1, <1>2 DEF RetainedIn
  <2> QED BY <1>3, <2>1, <2>2
<1>6. n + 1 \in RetainedIn(after, k) <=> n + 1 \in fresh
  <2>1. n + 1 \in RetainedIn(after, k) <=> /\ h.key = k /\ Mutates(h.action)
                                           /\ \A later \in 1 .. n : ~SupersedesIn(after, later, n + 1)
                                           /\ ~SupersedesIn(after, n + 1, n + 1)
    BY <1>1, <1>2 DEF RetainedIn
  <2> QED BY <1>2, <1>3, <1>4, <2>1
<1>7. RetainedIn(after, k) \subseteq 1 .. n \cup {n + 1} /\ stays \subseteq 1 .. n /\ fresh \subseteq {n + 1}
  BY <1>1, <1>2 DEF RetainedIn
<1>8. RetainedIn(after, k) = stays \cup fresh
  <2> HIDE DEF stays, fresh
  <2> QED BY <1>5, <1>6, <1>7
<1>9. {after[i].entry : i \in stays} = {hist[i].entry : i \in stays}
  <2> HIDE DEF stays
  <2> QED BY <1>1, <1>7
<1>10. {after[i].entry : i \in fresh} = IF h.key = k /\ Mutates(h.action) THEN {h.entry} ELSE {}
  BY <1>1
<1>11. {hist[i].entry : i \in stays} = {e \in EntriesRetained(hist, k) : ~OutOf(h.key, k, h.action, e)}
  BY DEF EntriesRetained
<1>12. EntriesRetained(after, k) = {after[i].entry : i \in stays} \cup {after[i].entry : i \in fresh}
  <2> HIDE DEF stays, fresh
  <2> QED BY <1>8 DEF EntriesRetained
<1> HIDE DEF stays, fresh
<1> QED BY <1>9, <1>10, <1>11, <1>12 DEF after

LEMMA HoldsStep ==
    ASSUME RoomTypeOK, TraceTypeOK, NEW k \in Key, HoldsUnsuperseded(k), [TraceNext]_traceVars
    PROVE  HoldsUnsuperseded(k)'
<1>1. ASSUME subjects' = subjects, history' = history
      PROVE  HoldsUnsuperseded(k)'
  BY <1>1 DEF HoldsUnsuperseded
<1>2. CASE UNCHANGED traceVars
  BY <1>1, <1>2 DEF traceVars, roomVars, storeVars
<1>3. ASSUME NEW conn \in Conn, TraceConnect(conn) \/ TracePing(conn)
      PROVE  HoldsUnsuperseded(k)'
  BY <1>1, <1>3 DEF TraceConnect, TracePing, Connect, ConnectDebug, Drop, Ping, storeVars
<1>4. ASSUME NEW conn \in Conn, NEW key \in Key, NEW seq \in {NoSeq} \cup 0 .. sequence_number,
             TraceGet(conn, key, seq)
      PROVE  HoldsUnsuperseded(k)'
  BY <1>1, <1>4 DEF TraceGet, Get, storeVars
<1>5. ASSUME NEW conn \in Conn, NEW key \in Key, NEW value \in Value,
             NEW action \in ClientAction(sequence_number), TracePush(conn, key, value, action)
      PROVE  HoldsUnsuperseded(k)'
  <2> DEFINE entry == [value |-> value, seq |-> Stamp(action)]
             kept == EntriesRetained(history, k)
  <2>1. /\ entry \in SequenceValue /\ subjects[k] \in Seq(SequenceValue)
        /\ subjects' = [subjects EXCEPT ![key] = StreamAfter(@, entry, action)]
        /\ subjects \in [Key -> Seq(SequenceValue)] /\ sequence_number \in Nat
    BY <1>5, ClientActionType DEF TracePush, Push, ApplyAction, RoomTypeOK, StoreTypeOK, Stamp, SequenceValue
  <2>2. EntriesRetained(history', k)
            = {e \in kept : ~OutOf(key, k, action, e)} \cup IF key = k /\ Mutates(action) THEN {entry} ELSE {}
    <3>1. PICK h \in HistoryEntry : /\ history' = Append(history, h)
                                    /\ h.key = key /\ h.action = action /\ h.entry = entry
      BY <1>5, PushIsRecorded
    <3>2. h.action.type = "compact" => h.entry.seq = h.action.seq
      BY <3>1 DEF Stamp, StampOf
    <3>3. history \in Seq(HistoryEntry)
      BY DEF TraceTypeOK
    <3> QED BY <3>1, <3>2, <3>3, RetainedAfterPush
  <2>3. Range(subjects[k]) = kept
    BY DEF HoldsUnsuperseded
  <2> HIDE DEF entry, kept
  <2>4. Range(subjects'[k])
            = {e \in kept : ~OutOf(key, k, action, e)} \cup IF key = k /\ Mutates(action) THEN {entry} ELSE {}
    <3>1. CASE key # k
      BY <2>1, <2>3, <3>1 DEF OutOf
    <3>2. CASE key = k
      <4>1. Range(subjects'[k]) = RangeAfter(subjects[k], entry, action)
        BY <2>1, <3>2, StreamAfterRange
      <4>2. /\ action.type \in {"relay", "append", "replace", "compact"}
            /\ action.type = "compact" => action.seq \in Nat
        BY <2>1, ClientActionType
      <4>3. \A e \in kept : e.seq \in Nat
        <5>1. \A i \in DOMAIN subjects[k] : subjects[k][i] \in SequenceValue
          BY <2>1, ElementOfSeq, LenProperties
        <5> QED BY <2>3, <5>1 DEF Range, SequenceValue
      <4>4. \A e \in kept : action.type = "compact" => (~(e.seq <= action.seq) <=> e.seq > action.seq)
        BY <4>2, <4>3
      <4> QED BY <2>3, <3>2, <4>1, <4>2, <4>4 DEF RangeAfter, OutOf, Mutates
    <3> QED BY <3>1, <3>2
  <2> QED BY <2>2, <2>4 DEF HoldsUnsuperseded
<1> QED BY <1>2, <1>3, <1>4, <1>5 DEF TraceNext

\* Whatever is pushed by whom, and at whatever number clients compact: a stream holds
\* exactly the entries that no later push on the same key has superseded, so no
\* operation loses or adds data of another key, and a compaction keeps every entry
\* numbered above its own number (store.rs: apply).
THEOREM OnlySupersededLeave == TraceSpec => []StreamsHoldUnsuperseded
<1> DEFINE Holds == \A k \in Key : HoldsUnsuperseded(k)
<1>1. TraceInit => TraceTypeOK /\ Holds
  <2> SUFFICES ASSUME TraceInit
               PROVE  TraceTypeOK /\ Holds
    OBVIOUS
  <2>1. TraceTypeOK
    BY TraceInvInit DEF TraceInv
  <2>2. history = <<>> /\ subjects = [key \in Key |-> <<>>]
    BY DEF TraceInit, RoomInit, StoreInit
  <2>3. \A k \in Key : EntriesRetained(history, k) = {}
    BY <2>2 DEF EntriesRetained, RetainedIn
  <2> QED BY <2>1, <2>2, <2>3 DEF HoldsUnsuperseded, Range
<1>2. RoomTypeOK /\ RoomTypeOK' /\ TraceTypeOK /\ Holds /\ [TraceNext]_traceVars
          => TraceTypeOK' /\ Holds'
  BY TraceTypeStep, HoldsStep
<1>3. Holds => StreamsHoldUnsuperseded
  <2>1. \A k \in Key : RetainedPushes(k) = RetainedIn(history, k)
    BY DEF RetainedPushes, RetainedIn, Supersedes, SupersedesIn
  <2> QED BY <2>1 DEF HoldsUnsuperseded, EntriesRetained, StreamsHoldUnsuperseded
<1> QED BY <1>1, <1>2, <1>3, TraceIsRoom, RoomTypeCorrect, PTL DEF TraceSpec

-----------------------------------------------------------------------------
(***************************************************************************)
(* The stand-alone server: what a client has been told and what waits in   *)
(* its channel goes forward.                                               *)
(***************************************************************************)

\* Every message shows numbers that the room has handed out.
ShowsUpTo(message, n) ==
    /\ message.type = "push" => message.seq <= n
    /\ message.type = "init" => \A i \in DOMAIN message.data : message.data[i].seq <= n

\* Of two messages that a connection is told one after the other.
Precedes(earlier, later, debug) ==
    later.type = "push" =>
        /\ earlier.type = "push" => earlier.seq <= later.seq
        /\ earlier.type = "init" => \A n \in DOMAIN earlier.data :
              \/ earlier.data[n].seq < later.seq
              \/ debug /\ earlier.data[n].seq = later.seq

GoesForward(messages, debug) ==
    \A i, j \in DOMAIN messages : i < j => Precedes(messages[i], messages[j], debug)
AllUpTo(messages, n) == \A i \in DOMAIN messages : ShowsUpTo(messages[i], n)

LEMMA MessageData ==
    ASSUME NEW message \in Message, message.type = "init"
    PROVE  \A i \in DOMAIN message.data : message.data[i].seq \in Nat
<1>1. message.data \in Seq(SequenceValue)
  BY DEF Message, PongMessage
<1>2. \A i \in DOMAIN message.data : message.data[i] \in SequenceValue
  BY <1>1
<1> QED BY <1>2 DEF SequenceValue

\* More messages that are offered to the channel go behind what was told.
LEMMA ToldMore ==
    ASSUME NEW told \in Seq(Message), NEW queue \in Seq(Message), NEW new \in Seq(Message),
           NEW n \in Nat, NEW m \in Nat, n <= m, NEW debug,
           GoesForward(told \o queue, debug), AllUpTo(told \o queue, n),
           GoesForward(new, debug), AllUpTo(new, m),
           \A i \in DOMAIN new : new[i].type = "push" => n < new[i].seq
    PROVE  /\ GoesForward(told \o Offer(queue, new), debug)
           /\ AllUpTo(told \o Offer(queue, new), m)
<1> DEFINE old == told \o queue
           all == told \o Offer(queue, new)
           Old(i) == i \in DOMAIN old /\ all[i] = old[i]
           New(i) == i - Len(old) \in DOMAIN new /\ all[i] = new[i - Len(old)]
<1>1. /\ Offer(queue, new) \in Seq(Message)
      /\ \A i \in DOMAIN Offer(queue, new) :
            i \in DOMAIN (queue \o new) /\ Offer(queue, new)[i] = (queue \o new)[i]
  BY OfferFacts
<1>2. ASSUME NEW i \in DOMAIN all
      PROVE  i \in Nat /\ (Old(i) \/ New(i))
  <2> DEFINE offer == Offer(queue, new)
  <2> HIDE DEF offer
  <2>1. offer \in Seq(Message) /\ all = told \o offer
    BY <1>1 DEF offer
  <2>2. \/ i \in DOMAIN told /\ all[i] = told[i]
        \/ i - Len(told) \in DOMAIN offer /\ all[i] = offer[i - Len(told)] /\ i \in Nat
    BY <2>1
  <2>3. CASE i \in DOMAIN told /\ all[i] = told[i]
    <3>1. i \in DOMAIN old /\ old[i] = told[i] /\ i \in Nat
      BY <2>3
    <3> QED BY <2>3, <3>1
  <2>4. CASE i - Len(told) \in DOMAIN offer /\ all[i] = offer[i - Len(told)] /\ i \in Nat
    <3> DEFINE k == i - Len(told)
    <3>1. k \in DOMAIN (queue \o new) /\ all[i] = (queue \o new)[k]
      BY <1>1, <2>4 DEF offer
    <3>2. Len(old) = Len(told) + Len(queue) /\ Len(told) \in Nat /\ Len(queue) \in Nat
      OBVIOUS
    <3>3. CASE k \in DOMAIN queue
      <4>1. i \in DOMAIN old /\ old[i] = queue[k] /\ (queue \o new)[k] = queue[k]
        BY <2>4, <3>3
      <4> QED BY <2>4, <3>1, <4>1
    <3>4. CASE k \notin DOMAIN queue
      <4>1. k - Len(queue) \in DOMAIN new /\ (queue \o new)[k] = new[k - Len(queue)]
        BY <3>1, <3>4
      <4>2. k - Len(queue) = i - Len(old)
        BY <2>4, <3>2
      <4> QED BY <2>4, <3>1, <4>1, <4>2
    <3> QED BY <3>3, <3>4
  <2> QED BY <2>2, <2>3, <2>4
<1>3. Len(old) \in Nat /\ DOMAIN old = 1 .. Len(old) /\ old \in Seq(Message)
      /\ Len(new) \in Nat /\ DOMAIN new = 1 .. Len(new)
  OBVIOUS
<1>4. GoesForward(old, debug) /\ AllUpTo(old, n)
  OBVIOUS
<1> HIDE DEF all, old
<1>5. ASSUME NEW i \in DOMAIN all
      PROVE  ShowsUpTo(all[i], m)
  <2>1. CASE Old(i)
    <3>1. ShowsUpTo(old[i], n) /\ old[i] \in Message
      BY <1>3, <1>4, <2>1 DEF AllUpTo
    <3>2. old[i].type = "push" => old[i].seq \in Nat
      BY <3>1 DEF Message, InitMessage, PongMessage
    <3>3. old[i].type = "init" => \A k \in DOMAIN old[i].data : old[i].data[k].seq \in Nat
      BY <3>1, MessageData
    <3> QED BY <2>1, <3>1, <3>2, <3>3 DEF ShowsUpTo
  <2>2. CASE New(i)
    BY <2>2 DEF AllUpTo
  <2> QED BY <1>2, <2>1, <2>2
<1>6. ASSUME NEW i \in DOMAIN all, NEW j \in DOMAIN all, i < j
      PROVE  Precedes(all[i], all[j], debug)
  <2>1. CASE Old(i) /\ Old(j)
    BY <1>4, <1>6, <2>1 DEF GoesForward
  <2>2. CASE New(i) /\ New(j)
    <3>1. i - Len(old) < j - Len(old)
      BY <1>2, <1>3, <1>6
    <3> QED BY <2>2, <3>1 DEF GoesForward
  <2>3. CASE New(i) /\ Old(j)
    <3>1. j < i
      BY <1>2, <1>3, <2>3
    <3> QED BY <1>2, <1>6, <3>1
  <2>4. CASE Old(i) /\ New(j)
    <3>1. ShowsUpTo(old[i], n) /\ old[i] \in Message
      BY <1>3, <1>4, <2>4 DEF AllUpTo
    <3>2. old[i].type = "push" => old[i].seq \in Nat
      BY <3>1 DEF Message, InitMessage, PongMessage
    <3>3. old[i].type = "init" => \A k \in DOMAIN old[i].data : old[i].data[k].seq \in Nat
      BY <3>1, MessageData
    <3>4. all[j].type = "push" => n < all[j].seq /\ all[j].seq \in Nat
      <4>1. new[j - Len(old)] \in Message
        BY <2>4
      <4>2. new[j - Len(old)].type = "push" => new[j - Len(old)].seq \in Nat
        BY <4>1 DEF Message, InitMessage, PongMessage
      <4> QED BY <2>4, <4>2
    <3> QED BY <2>4, <3>1, <3>2, <3>3, <3>4 DEF Precedes, ShowsUpTo
  <2> QED BY <1>2, <2>1, <2>2, <2>3, <2>4
<1>7. GoesForward(all, debug) /\ AllUpTo(all, m)
  BY <1>5, <1>6 DEF GoesForward, AllUpTo
<1> QED BY <1>7 DEF all

\* What a push tells one connection of the streams.
LEMMA DeliveredStreams ==
    ASSUME RoomTypeOK, NEW conn \in Conn, NEW sender \in Conn, NEW key \in Key,
           NEW value \in Value, NEW action \in ClientAction(sequence_number),
           NEW stream \in Seq(SequenceValue)
    PROVE  LET new == PushDeliveries(conn, sender, key, value, action, stream)
           IN  \A i \in DOMAIN new : new[i].type = "init" =>
                  conn \in debug_connections /\ new[i].data = RetainAfter(stream, 0)
<1> DEFINE message == PushMessage(key, [value |-> value, seq |-> Stamp(action)])
           shown == InitMessage(key, RetainAfter(stream, 0))
           debug   == IF conn \notin debug_connections THEN <<>>
                      ELSE IF Mutates(action) THEN <<shown>> ELSE <<message>>
           copies  == IF Broadcasts(action) THEN Copies(subscriptions[key][conn], message) ELSE <<>>
           size    == StreamSizeMessage(key, Len(stream))
           answer  == IF conn = sender /\ Len(stream) > 1 THEN <<size>> ELSE <<>>
           Good(s) == \A i \in DOMAIN s : s[i].type = "init" =>
                         conn \in debug_connections /\ s[i].data = RetainAfter(stream, 0)
           Kinds == {message, shown, size}
<1>1. message.type = "push" /\ shown.type = "init" /\ shown.data = RetainAfter(stream, 0)
      /\ size.type = "stream_size"
  BY DEF PushMessage, InitMessage, StreamSizeMessage
<1>2. PushDeliveries(conn, sender, key, value, action, stream) =
          IF Live(conn) THEN debug \o copies \o answer ELSE <<>>
  BY DEF PushDeliveries
<1>3. subscriptions[key][conn] \in Nat
  BY DEF RoomTypeOK
<1> HIDE DEF message, shown, size
<1>0. /\ Good(<<>>) /\ <<>> \in Seq(Kinds)
      /\ Good(<<message>>) /\ <<message>> \in Seq(Kinds)
      /\ conn \in debug_connections => Good(<<shown>>)
      /\ Good(<<size>>) /\ <<size>> \in Seq(Kinds) /\ <<shown>> \in Seq(Kinds)
  BY <1>1
<1>4. Good(debug) /\ debug \in Seq(Kinds)
  <2> HIDE DEF Good, Kinds
  <2> QED BY <1>0
<1>5. Good(copies) /\ copies \in Seq(Kinds)
  <2>1. \A i \in DOMAIN copies : copies[i] = message
    BY DEF Copies
  <2> QED BY <1>1, <1>3, <2>1 DEF Copies
<1>6. Good(answer) /\ answer \in Seq(Kinds)
  <2> HIDE DEF Good, Kinds
  <2> QED BY <1>0
<1>7. ASSUME NEW s \in Seq(Kinds), NEW u \in Seq(Kinds), Good(s), Good(u)
      PROVE  Good(s \o u) /\ s \o u \in Seq(Kinds)
  <2>1. ASSUME NEW i \in DOMAIN (s \o u)
        PROVE  \/ i \in DOMAIN s /\ (s \o u)[i] = s[i]
               \/ i - Len(s) \in DOMAIN u /\ (s \o u)[i] = u[i - Len(s)]
    OBVIOUS
  <2> QED BY <1>7, <2>1
<1> HIDE DEF debug, copies, answer
<1>8. Good(debug \o copies \o answer)
  BY <1>4, <1>5, <1>6, <1>7
<1>10. Good(PushDeliveries(conn, sender, key, value, action, stream))
  BY <1>0, <1>2, <1>8
<1> QED BY <1>10

\* And of the numbers: those of its broadcast are new, and what it shows is the stream
\* with that number.
LEMMA DeliveriesGoForward ==
    ASSUME RoomTypeOK, NEW conn \in Conn, NEW sender \in Conn, NEW key \in Key,
           NEW value \in Value, NEW action \in ClientAction(sequence_number),
           NEW stream \in Seq(SequenceValue), NEW m \in Nat,
           m = SequenceAfter(action, sequence_number),
           \A entry \in Range(stream) : entry.seq <= m
    PROVE  LET new == PushDeliveries(conn, sender, key, value, action, stream)
           IN  /\ new \in Seq(Message)
               /\ AllUpTo(new, m) /\ GoesForward(new, conn \in debug_connections)
               /\ \A i \in DOMAIN new : new[i].type = "push" => sequence_number < new[i].seq
<1> DEFINE new == PushDeliveries(conn, sender, key, value, action, stream)
<1>1. new \in Seq(Message)
      /\ \A i \in DOMAIN new : new[i].type = "push" => new[i].seq = Stamp(action) /\ Broadcasts(action)
  BY PushDeliveriesFacts
<1>2. \A i \in DOMAIN new : new[i].type = "init" =>
          conn \in debug_connections /\ new[i].data = RetainAfter(stream, 0)
  BY DeliveredStreams
<1> HIDE DEF new
<1>3. Broadcasts(action) => Stamp(action) = m /\ sequence_number < m
  BY DEF Broadcasts, Stamp, StampOf, SequenceAfter, RoomTypeOK, StoreTypeOK
<1>4. \A i \in DOMAIN RetainAfter(stream, 0) :
          RetainAfter(stream, 0)[i].seq <= m /\ RetainAfter(stream, 0)[i].seq \in Nat
  <2>1. RetainAfter(stream, 0) \in Seq(SequenceValue)
        /\ Range(RetainAfter(stream, 0)) \subseteq Range(stream)
    BY RetainAfterFacts
  <2> DEFINE log == RetainAfter(stream, 0)
  <2> HIDE DEF log
  <2>2. ASSUME NEW i \in DOMAIN log
        PROVE  log[i] \in Range(log) /\ log[i] \in SequenceValue
    BY <2>1, <2>2 DEF Range, log
  <2> QED BY <2>1, <2>2 DEF log, SequenceValue
<1>5. AllUpTo(new, m)
  BY <1>1, <1>2, <1>3, <1>4 DEF AllUpTo, ShowsUpTo
<1>6. GoesForward(new, conn \in debug_connections)
  BY <1>1, <1>2, <1>3, <1>4 DEF GoesForward, Precedes
<1>7. \A i \in DOMAIN new : new[i].type = "push" => sequence_number < new[i].seq
  BY <1>1, <1>3
<1> QED BY <1>1, <1>5, <1>6, <1>7 DEF new

-----------------------------------------------------------------------------
\* Clients compact only at numbers that the room has handed out.
CompactsHandedOut ==
    \A conn \in Conn : \A i \in DOMAIN incoming[conn] :
        (incoming[conn][i].type = "push" /\ incoming[conn][i].action.type = "compact")
            => incoming[conn][i].action.seq \in 1 .. sequence_number

NumbersHandedOut ==
    \A key \in Key : \A entry \in Range(subjects[key]) : entry.seq <= sequence_number

ToldForward(conn) ==
    LET told == wire[conn] \o inbox[conn]
    IN  GoesForward(told, conn \in debug_connections) /\ AllUpTo(told, sequence_number)

\* Nothing is on its way to a connection that is not there.
Quiet(conn) == ~Live(conn) => wire[conn] = <<>> /\ inbox[conn] = <<>>

WireInv ==
    /\ RoomTypeOK
    /\ wire \in [Conn -> Seq(Message)]
    /\ incoming \in [Conn -> Seq(Frame)]
    /\ sequence_number <= MaxSeq
    /\ NumbersHandedOut
    /\ \A conn \in Conn : ToldForward(conn) /\ Quiet(conn)

\* A request of a client is one that Room knows.
LEMMA PushIsKnown ==
    ASSUME WireInv, CompactsHandedOut, NEW conn \in Conn, incoming[conn] # <<>>,
           Head(incoming[conn]).type = "push"
    PROVE  /\ Head(incoming[conn]).key \in Key /\ Head(incoming[conn]).value \in Value
           /\ Head(incoming[conn]).action \in ClientAction(sequence_number)
           /\ Stamp(Head(incoming[conn]).action)
                 <= SequenceAfter(Head(incoming[conn]).action, sequence_number)
<1> DEFINE request == Head(incoming[conn])
<1>1. incoming[conn] \in Seq(Frame)
  BY DEF WireInv
<1>2. request \in Frame /\ request = incoming[conn][1] /\ 1 \in DOMAIN incoming[conn]
  BY <1>1
<1> HIDE DEF request
<1>3. request.key \in Key /\ request.value \in Value /\ request.action \in Action
  BY <1>2, PushActionsAssumption DEF Frame, Request, request
<1>4. request.action.type = "compact" => request.action.seq \in 1 .. sequence_number
  BY <1>2 DEF CompactsHandedOut, request
<1>5. sequence_number \in Nat /\ sequence_number <= MaxSeq /\ MaxSeq \in Nat
  BY MaxSeqAssumption DEF WireInv, RoomTypeOK, StoreTypeOK
<1>6. request.action \in ClientAction(sequence_number)
  <2>1. CASE request.action.type = "compact"
    <3>1. request.action \in [type : {"compact"}, seq : Nat]
      BY <1>3, <2>1 DEF Action
    <3>2. request.action.seq \in 0 .. MaxSeq /\ request.action.seq \in 1 .. sequence_number
      BY <1>4, <1>5, <2>1
    <3> QED BY <3>1, <3>2 DEF ClientAction
  <2>2. CASE request.action.type # "compact"
    BY <1>3, <2>2 DEF Action, ClientAction
  <2> QED BY <2>1, <2>2
<1>7. Stamp(request.action) <= SequenceAfter(request.action, sequence_number)
  BY <1>4, <1>5 DEF Stamp, StampOf, SequenceAfter
<1> QED BY <1>3, <1>6, <1>7 DEF request

\* What was told to a connection stays, and what it shows.
LEMMA ToldStays ==
    ASSUME NEW conn \in Conn, ToldForward(conn), Quiet(conn),
           wire'[conn] = wire[conn], inbox'[conn] = inbox[conn],
           conn \in debug_connections' <=> conn \in debug_connections,
           sequence_number' = sequence_number, Live(conn) => Live(conn)'
    PROVE  ToldForward(conn)' /\ Quiet(conn)'
<1>1. (conn \in debug_connections)' = (conn \in debug_connections)
  OBVIOUS
<1>2. ToldForward(conn)'
  BY <1>1 DEF ToldForward
<1> QED BY <1>2 DEF Quiet

\* Nor does it matter to a connection to which nothing was told.
LEMMA NothingTold ==
    ASSUME NEW conn, wire'[conn] = <<>>, inbox'[conn] = <<>>
    PROVE  ToldForward(conn)' /\ Quiet(conn)'
<1>1. wire'[conn] \o inbox'[conn] = <<>>
  OBVIOUS
<1>2. ToldForward(conn)'
  BY <1>1 DEF ToldForward, GoesForward, AllUpTo
<1> QED BY <1>2 DEF Quiet

LEMMA RoomStepTypes ==
    ASSUME RoomTypeOK, RoomNext
    PROVE  RoomTypeOK'
<1>1. [StoreNext]_storeVars
  BY RoomStepsStore
<1>2. StoreTypeOK'
  BY <1>1, StoreTypeStep DEF RoomTypeOK
<1> QED BY <1>2, RoomTypeStep

\* What the connections are told when one of them is offered messages that show what
\* there is.
LEMMA OfferedTold ==
    ASSUME WireInv, NEW conn \in Conn, NEW message \in Message, Live(conn),
           message.type # "push", ShowsUpTo(message, sequence_number),
           inbox' = [inbox EXCEPT ![conn] = Offer(@, <<message>>)],
           UNCHANGED <<wire, sequence_number, status, debug_connections>>
    PROVE  \A c \in Conn : ToldForward(c)' /\ Quiet(c)'
<1>1. /\ wire \in [Conn -> Seq(Message)] /\ inbox \in [Conn -> Seq(Message)]
      /\ sequence_number \in Nat
  BY DEF WireInv, RoomTypeOK, StoreTypeOK
<1> DEFINE new == <<message>>
<1>2. new \in Seq(Message) /\ \A i \in DOMAIN new : i = 1 /\ new[i] = message
  OBVIOUS
<1> HIDE DEF new
<1>3. /\ GoesForward(new, conn \in debug_connections) /\ AllUpTo(new, sequence_number)
      /\ \A i \in DOMAIN new : new[i].type = "push" => sequence_number < new[i].seq
  BY <1>2 DEF GoesForward, AllUpTo
<1>4. inbox'[conn] = Offer(inbox[conn], new)
  BY <1>1 DEF new
<1>5. wire[conn] \in Seq(Message) /\ inbox[conn] \in Seq(Message) /\ sequence_number <= sequence_number
  BY <1>1
<1>6. GoesForward(wire[conn] \o inbox[conn], conn \in debug_connections)
      /\ AllUpTo(wire[conn] \o inbox[conn], sequence_number)
  BY DEF WireInv, ToldForward
<1>7. GoesForward(wire[conn] \o Offer(inbox[conn], new), conn \in debug_connections)
      /\ AllUpTo(wire[conn] \o Offer(inbox[conn], new), sequence_number)
  BY <1>1, <1>2, <1>3, <1>5, <1>6, ToldMore
<1>8. ToldForward(conn)' /\ Quiet(conn)'
  BY <1>4, <1>7 DEF ToldForward, Quiet, Live
<1>9. ASSUME NEW c \in Conn, c # conn
      PROVE  ToldForward(c)' /\ Quiet(c)'
  <2>1. inbox'[c] = inbox[c] /\ wire'[c] = wire[c]
    BY <1>1, <1>9
  <2> QED BY <2>1, ToldStays DEF WireInv, Live
<1> QED BY <1>8, <1>9

\* A stream shows what there is.
LEMMA StreamsShow ==
    ASSUME WireInv, NEW key \in Key, NEW s \in Nat
    PROVE  /\ InitMessage(key, Read(key, s)) \in Message
           /\ ShowsUpTo(InitMessage(key, Read(key, s)), sequence_number)
           /\ ShowsUpTo(InitMessage(key, subjects[key]), sequence_number)
<1>1. subjects[key] \in Seq(SequenceValue)
  BY DEF WireInv, RoomTypeOK, StoreTypeOK
<1>2. RetainAfter(subjects[key], s) \in Seq(SequenceValue)
      /\ Range(RetainAfter(subjects[key], s)) \subseteq Range(subjects[key])
  BY <1>1, RetainAfterFacts
<1>3. \A entry \in Range(subjects[key]) : entry.seq <= sequence_number
  BY DEF WireInv, NumbersHandedOut
<1>4. ASSUME NEW log \in Seq(SequenceValue), Range(log) \subseteq Range(subjects[key])
      PROVE  ShowsUpTo(InitMessage(key, log), sequence_number)
  <2>1. \A i \in DOMAIN log : log[i] \in Range(log)
    BY DEF Range
  <2> QED BY <1>3, <1>4, <2>1 DEF ShowsUpTo, InitMessage
<1>5. InitMessage(key, Read(key, s)) \in Message
  BY <1>2 DEF Read, InitMessage, Message
<1> QED BY <1>1, <1>2, <1>4, <1>5 DEF Read

LEMMA PushTold ==
    ASSUME WireInv, NEW conn \in Conn, NEW key \in Key, NEW value \in Value,
           NEW action \in ClientAction(sequence_number), Push(conn, key, value, action),
           Stamp(action) <= SequenceAfter(action, sequence_number), wire' = wire
    PROVE  /\ sequence_number' <= MaxSeq /\ NumbersHandedOut'
           /\ \A c \in Conn : ToldForward(c)' /\ Quiet(c)'
<1>1. /\ wire \in [Conn -> Seq(Message)] /\ inbox \in [Conn -> Seq(Message)]
      /\ sequence_number \in Nat /\ subjects \in [Key -> Seq(SequenceValue)] /\ RoomTypeOK
  BY DEF WireInv, RoomTypeOK, StoreTypeOK
<1> DEFINE entry == [value |-> value, seq |-> Stamp(action)]
           m == SequenceAfter(action, sequence_number)
<1>2. m \in Nat /\ sequence_number <= m /\ entry \in SequenceValue
  BY <1>1, ClientActionType DEF SequenceValue, Stamp, SequenceAfter
<1>3. /\ sequence_number' = m /\ m <= MaxSeq
      /\ subjects' = [subjects EXCEPT ![key] = StreamAfter(@, entry, action)]
      /\ inbox' = [c \in Conn |-> Offer(inbox[c],
                      PushDeliveries(c, conn, key, value, action, subjects'[key]))]
      /\ debug_connections' = {c \in debug_connections : Live(c)}
      /\ status' = status
  BY DEF Push, ApplyAction
<1>4. entry.seq <= m
  OBVIOUS
<1> HIDE DEF m, entry
<1>5. subjects'[key] = StreamAfter(subjects[key], entry, action)
      /\ \A k \in Key : k # key => subjects'[k] = subjects[k]
  BY <1>1, <1>3
<1>6. \A k \in Key : subjects[k] \in Seq(SequenceValue)
         /\ \A e \in Range(subjects[k]) : e.seq <= sequence_number /\ e.seq \in Nat
  <2>1. ASSUME NEW k \in Key, NEW e \in Range(subjects[k])
        PROVE  e.seq <= sequence_number /\ e.seq \in Nat
    <3>1. e \in SequenceValue
      BY <1>1 DEF Range
    <3> QED BY <3>1 DEF WireInv, NumbersHandedOut, SequenceValue
  <2> QED BY <1>1, <2>1
<1>7. subjects'[key] \in Seq(SequenceValue) /\ \A e \in Range(subjects'[key]) : e.seq <= m
  <2>1. StreamAfter(subjects[key], entry, action) \in Seq(SequenceValue)
        /\ Range(StreamAfter(subjects[key], entry, action)) = RangeAfter(subjects[key], entry, action)
    BY <1>1, <1>2, StreamAfterRange
  <2>2. RangeAfter(subjects[key], entry, action) \subseteq Range(subjects[key]) \cup {entry}
    BY <1>1, ClientActionType DEF RangeAfter
  <2>3. \A e \in Range(subjects[key]) : e.seq <= m
    BY <1>1, <1>2, <1>6
  <2> QED BY <1>4, <1>5, <2>1, <2>2, <2>3
<1>8. NumbersHandedOut'
  <2>1. ASSUME NEW k \in Key, NEW e \in Range(subjects'[k])
        PROVE  e.seq <= m
    <3>1. CASE k = key
      BY <1>7, <2>1, <3>1
    <3>2. CASE k # key
      BY <1>1, <1>2, <1>5, <1>6, <2>1, <3>2
    <3> QED BY <3>1, <3>2
  <2> QED BY <1>3, <2>1 DEF NumbersHandedOut
<1>9. ASSUME NEW c \in Conn
      PROVE  ToldForward(c)' /\ Quiet(c)'
  <2> DEFINE new == PushDeliveries(c, conn, key, value, action, subjects'[key])
  <2>1. inbox'[c] = Offer(inbox[c], new) /\ wire'[c] = wire[c]
    BY <1>3
  <2>2. CASE Live(c)
    <3>1. /\ new \in Seq(Message)
          /\ AllUpTo(new, m) /\ GoesForward(new, c \in debug_connections)
          /\ \A i \in DOMAIN new : new[i].type = "push" => sequence_number < new[i].seq
      BY <1>1, <1>2, <1>7, DeliveriesGoForward DEF m
    <3> HIDE DEF new
    <3>2. /\ wire[c] \in Seq(Message) /\ inbox[c] \in Seq(Message)
          /\ GoesForward(wire[c] \o inbox[c], c \in debug_connections)
          /\ AllUpTo(wire[c] \o inbox[c], sequence_number)
      BY <1>1 DEF WireInv, ToldForward
    <3>3. GoesForward(wire[c] \o Offer(inbox[c], new), c \in debug_connections)
          /\ AllUpTo(wire[c] \o Offer(inbox[c], new), m)
      BY <1>1, <1>2, <3>1, <3>2, ToldMore
    <3>4. (c \in debug_connections)' = (c \in debug_connections)
      BY <1>3, <2>2
    <3> QED BY <1>3, <2>1, <2>2, <3>3, <3>4 DEF ToldForward, Quiet, Live
  <2>3. CASE ~Live(c)
    <3>1. new = <<>> /\ wire[c] = <<>> /\ inbox[c] = <<>>
      BY <2>3 DEF PushDeliveries, WireInv, Quiet
    <3> HIDE DEF new
    <3>2. inbox'[c] = <<>>
      <4>1. Offer(<<>>, <<>>) = <<>>
        BY CapacityAssumption DEF Offer
      <4> QED BY <2>1, <3>1, <4>1
    <3> QED BY <2>1, <3>1, <3>2, NothingTold
  <2> QED BY <2>2, <2>3
<1> QED BY <1>3, <1>8, <1>9

\* What is left of WireInv once the frames are set aside.
RoomPart ==
    /\ RoomTypeOK
    /\ sequence_number <= MaxSeq
    /\ NumbersHandedOut
    /\ \A conn \in Conn : ToldForward(conn) /\ Quiet(conn)

LEMMA SendMessageTold ==
    ASSUME WireInv, CompactsHandedOut, NEW conn \in Conn, incoming[conn] # <<>>,
           SendMessage(conn, Head(incoming[conn])), wire' = wire
    PROVE  RoomPart'
<1> DEFINE request == Head(incoming[conn])
<1>1. request \in Frame
  <2>1. incoming[conn] \in Seq(Frame)
    BY DEF WireInv
  <2> QED BY <2>1
<1>2. sequence_number \in Nat /\ RoomTypeOK
  BY DEF WireInv, RoomTypeOK, StoreTypeOK
<1>3. CASE request.type = "push" /\ Push(conn, request.key, request.value, request.action)
  <2>1. /\ request.key \in Key /\ request.value \in Value
        /\ request.action \in ClientAction(sequence_number)
        /\ Stamp(request.action) <= SequenceAfter(request.action, sequence_number)
    BY <1>3, PushIsKnown
  <2> HIDE DEF request
  <2>2. RoomNext
    BY <1>3, <2>1 DEF RoomNext
  <2> QED BY <1>2, <1>3, <2>1, <2>2, RoomStepTypes, PushTold DEF RoomPart
<1>4. CASE request.type = "get" /\ Get(conn, request.key, request.seq)
  <2>1. request.key \in Key /\ request.seq = 0
    BY <1>1, <1>4 DEF Frame, Request
  <2> HIDE DEF request
  <2>2. Get(conn, request.key, 0) /\ 0 \in {NoSeq} \cup 0 .. sequence_number /\ 0 # NoSeq
    BY <1>2, <1>4, <2>1, NoSeqAssumption
  <2>3. RoomNext
    BY <2>1, <2>2 DEF RoomNext
  <2> DEFINE message == InitMessage(request.key, Read(request.key, 0))
  <2>4. message \in Message /\ ShowsUpTo(message, sequence_number) /\ message.type # "push"
    <3>1. request.key \in Key /\ 0 \in Nat
      BY <2>1
    <3>2. message.type = "init"
      BY DEF InitMessage
    <3> QED BY <3>1, <3>2, StreamsShow
  <2>5. /\ Live(conn) /\ inbox' = [inbox EXCEPT ![conn] = Offer(@, <<message>>)]
        /\ UNCHANGED <<storeVars, status, debug_connections>>
    BY <2>2 DEF Get
  <2> HIDE DEF message
  <2>6. UNCHANGED <<wire, subjects, sequence_number, status, debug_connections>>
    BY <2>5 DEF storeVars
  <2>7. \A c \in Conn : ToldForward(c)' /\ Quiet(c)'
    BY <2>4, <2>5, <2>6, OfferedTold
  <2> QED BY <1>2, <2>3, <2>6, <2>7, RoomStepTypes DEF RoomPart, WireInv, NumbersHandedOut
<1>5. CASE Ping(conn)
  <2>1. RoomNext
    BY <1>5 DEF RoomNext
  <2>2. PongMessage \in Message /\ ShowsUpTo(PongMessage, sequence_number) /\ PongMessage.type # "push"
    BY DEF PongMessage, Message, ShowsUpTo
  <2>3. /\ Live(conn) /\ inbox' = [inbox EXCEPT ![conn] = Offer(@, <<PongMessage>>)]
        /\ UNCHANGED <<wire, subjects, sequence_number, status, debug_connections>>
    BY <1>5 DEF Ping, storeVars
  <2>4. \A c \in Conn : ToldForward(c)' /\ Quiet(c)'
    BY <2>2, <2>3, OfferedTold
  <2> QED BY <1>2, <2>1, <2>3, <2>4, RoomStepTypes DEF RoomPart, WireInv, NumbersHandedOut
<1> QED BY <1>3, <1>4, <1>5 DEF SendMessage

\* A socket that is accepted.
LEMMA UpgradeTold ==
    ASSUME WireInv, NEW conn \in Conn, Connect(conn) \/ ConnectDebug(conn), wire' = wire
    PROVE  RoomPart'
<1>1. RoomTypeOK' /\ UNCHANGED <<subjects, sequence_number>>
  <2>1. RoomNext
    BY DEF RoomNext
  <2> QED BY <2>1, RoomStepTypes DEF WireInv, Connect, ConnectDebug, storeVars
<1>2. /\ status' = [status EXCEPT ![conn] = "open"] /\ status[conn] = "new"
      /\ status \in [Conn -> {"new", "open", "dropped"}] /\ inbox \in [Conn -> Seq(Message)]
      /\ sequence_number \in Nat
  BY DEF Connect, ConnectDebug, WireInv, RoomTypeOK, StoreTypeOK
<1>3. \A c \in Conn : Live(c) => Live(c)'
  BY <1>2 DEF Live
<1>4. CASE Connect(conn)
  <2>1. \A c \in Conn : ToldForward(c)' /\ Quiet(c)'
    BY <1>1, <1>3, <1>4, ToldStays DEF Connect, WireInv
  <2> QED BY <1>1, <2>1 DEF RoomPart, WireInv, NumbersHandedOut
<1>5. CASE ConnectDebug(conn)
  <2>1. PICK order \in SetToSeqs({key \in Key : subjects[key] # <<>>}) :
          inbox' = [inbox EXCEPT ![conn] =
                       Offer(<<>>, [i \in DOMAIN order |->
                                       InitMessage(order[i], subjects[order[i]])])]
    BY <1>5 DEF ConnectDebug
  <2> DEFINE first == [i \in DOMAIN order |-> InitMessage(order[i], subjects[order[i]])]
  <2>2. /\ first \in Seq(Message) /\ \A i \in DOMAIN first : first[i].type = "init"
        /\ \A i \in DOMAIN first : \E key \in Key : first[i] = InitMessage(key, subjects[key])
    BY FirstStreamsFacts DEF WireInv
  <2> HIDE DEF first
  <2>3. AllUpTo(first, sequence_number) /\ GoesForward(first, TRUE)
        /\ \A i \in DOMAIN first : first[i].type = "push" => sequence_number < first[i].seq
    <3>1. \A key \in Key : ShowsUpTo(InitMessage(key, subjects[key]), sequence_number)
      BY StreamsShow
    <3> QED BY <2>2, <3>1 DEF AllUpTo, GoesForward, Precedes
  <2>4. wire[conn] = <<>>
    BY <1>2 DEF WireInv, Quiet, Live
  <2>5. GoesForward(<<>> \o <<>>, TRUE) /\ AllUpTo(<<>> \o <<>>, sequence_number) /\ <<>> \in Seq(Message)
    BY DEF GoesForward, AllUpTo
  <2>6. GoesForward(<<>> \o Offer(<<>>, first), TRUE)
        /\ AllUpTo(<<>> \o Offer(<<>>, first), sequence_number)
    <3>1. sequence_number <= sequence_number
      BY <1>2
    <3> QED BY <1>2, <2>2, <2>3, <2>5, <3>1, ToldMore
  <2>7. inbox'[conn] = Offer(<<>>, first) /\ \A c \in Conn : c # conn => inbox'[c] = inbox[c]
    BY <1>2, <2>1 DEF first
  <2>8. debug_connections' = debug_connections \cup {conn}
    BY <1>5 DEF ConnectDebug
  <2>9. ToldForward(conn)' /\ Quiet(conn)'
    <3>1. (conn \in debug_connections)' = TRUE /\ Live(conn)'
      BY <1>2, <2>8 DEF Live
    <3> QED BY <1>1, <2>4, <2>6, <2>7, <3>1 DEF ToldForward, Quiet
  <2>10. ASSUME NEW c \in Conn, c # conn
         PROVE  ToldForward(c)' /\ Quiet(c)'
    BY <1>1, <1>3, <2>7, <2>8, <2>10, ToldStays DEF WireInv
  <2> QED BY <1>1, <2>9, <2>10 DEF RoomPart, WireInv, NumbersHandedOut
<1> QED BY <1>4, <1>5

\* A task that ends takes what it has not sent with it.
LEMMA EndTold ==
    ASSUME WireInv, NEW conn \in Conn, End(conn)
    PROVE  RoomPart'
<1>1. RoomTypeOK' /\ UNCHANGED <<subjects, sequence_number, debug_connections>>
  <2>1. RoomNext
    BY DEF RoomNext, End
  <2> QED BY <2>1, RoomStepTypes DEF WireInv, End, Drop, storeVars
<1>2. /\ wire \in [Conn -> Seq(Message)] /\ inbox \in [Conn -> Seq(Message)]
      /\ status \in [Conn -> {"new", "open", "dropped"}]
  BY DEF WireInv, RoomTypeOK
<1>3. /\ wire' = [wire EXCEPT ![conn] = <<>>] /\ inbox' = [inbox EXCEPT ![conn] = <<>>]
      /\ status' = [status EXCEPT ![conn] = "dropped"]
  BY DEF End, Drop
<1>4. ToldForward(conn)' /\ Quiet(conn)'
  BY <1>2, <1>3, NothingTold
<1>5. ASSUME NEW c \in Conn, c # conn
      PROVE  ToldForward(c)' /\ Quiet(c)'
  <2>1. wire'[c] = wire[c] /\ inbox'[c] = inbox[c] /\ (Live(c) => Live(c)')
    BY <1>2, <1>3, <1>5 DEF Live
  <2> QED BY <1>1, <2>1, ToldStays DEF WireInv
<1> QED BY <1>1, <1>4, <1>5 DEF RoomPart, WireInv, NumbersHandedOut

LEMMA MessageMoves ==
    ASSUME NEW told \in Seq(Message), NEW queue \in Seq(Message), queue # <<>>
    PROVE  /\ Append(told, Head(queue)) \in Seq(Message) /\ Tail(queue) \in Seq(Message)
           /\ Len(Tail(queue)) = Len(queue) - 1 /\ Len(queue) \in Nat
           /\ Append(told, Head(queue)) \o Tail(queue) = told \o queue
<1>1. /\ Append(told, Head(queue)) \in Seq(Message) /\ Tail(queue) \in Seq(Message)
      /\ Len(Tail(queue)) = Len(queue) - 1 /\ Len(queue) \in Nat /\ Len(told) \in Nat
      /\ Len(Append(told, Head(queue))) = Len(told) + 1
  OBVIOUS
<1> DEFINE moved == Append(told, Head(queue)) \o Tail(queue)
           all == told \o queue
<1>2. /\ moved \in Seq(Message) /\ all \in Seq(Message)
      /\ Len(moved) = Len(told) + Len(queue) /\ Len(all) = Len(told) + Len(queue)
  BY <1>1
<1>3. ASSUME NEW i \in 1 .. Len(told) + Len(queue)
      PROVE  moved[i] = all[i]
  <2>1. CASE i <= Len(told)
    <3>1. moved[i] = told[i]
      BY <1>1, <2>1
    <3>2. all[i] = told[i]
      BY <1>1, <2>1
    <3> QED BY <3>1, <3>2
  <2>2. CASE i = Len(told) + 1
    <3>1. moved[i] = Head(queue) /\ all[i] = queue[1]
      BY <1>1, <2>2
    <3> QED BY <3>1
  <2>3. CASE i > Len(told) + 1
    <3>1. moved[i] = Tail(queue)[i - Len(told) - 1]
      BY <1>1, <2>3
    <3>2. all[i] = queue[i - Len(told)] /\ Tail(queue)[i - Len(told) - 1] = queue[i - Len(told)]
      BY <1>1, <2>3
    <3> QED BY <3>1, <3>2
  <2> QED BY <1>1, <2>1, <2>2, <2>3
<1> HIDE DEF moved, all
<1>4. moved = all
  BY <1>1, <1>2, <1>3
<1> QED BY <1>1, <1>4 DEF moved, all

\* A message goes from the channel to the client.
LEMMA ForwardTold ==
    ASSUME WireInv, NEW conn \in Conn, Forward(conn)
    PROVE  RoomPart' /\ wire' \in [Conn -> Seq(Message)]
<1>1. /\ wire \in [Conn -> Seq(Message)] /\ inbox \in [Conn -> Seq(Message)] /\ RoomTypeOK
      /\ \A c \in Conn : Len(inbox[c]) <= Capacity
  BY DEF WireInv, RoomTypeOK
<1>2. /\ inbox[conn] # <<>>
      /\ inbox' = [inbox EXCEPT ![conn] = Tail(@)]
      /\ wire' = [wire EXCEPT ![conn] = Append(@, Head(inbox[conn]))]
      /\ UNCHANGED <<subjects, sequence_number, status, subscriptions, debug_connections>>
  BY DEF Forward, storeVars
<1>3. wire[conn] \in Seq(Message) /\ inbox[conn] \in Seq(Message)
      /\ wire'[conn] = Append(wire[conn], Head(inbox[conn])) /\ inbox'[conn] = Tail(inbox[conn])
  BY <1>1, <1>2
<1>4. /\ wire'[conn] \in Seq(Message) /\ inbox'[conn] \in Seq(Message)
      /\ Len(inbox'[conn]) = Len(inbox[conn]) - 1 /\ Len(inbox[conn]) \in Nat
  BY <1>2, <1>3, MessageMoves
<1>5. wire'[conn] \o inbox'[conn] = wire[conn] \o inbox[conn]
  BY <1>2, <1>3, MessageMoves
<1>6. wire' \in [Conn -> Seq(Message)] /\ inbox' \in [Conn -> Seq(Message)]
      /\ \A c \in Conn : c # conn => wire'[c] = wire[c] /\ inbox'[c] = inbox[c]
  BY <1>1, <1>2, <1>4
<1>7. \A c \in Conn : Len(inbox'[c]) <= Capacity
  <2>1. Len(inbox'[conn]) <= Capacity
    BY <1>1, <1>4, CapacityAssumption
  <2> QED BY <1>1, <1>6, <2>1
<1>8. RoomTypeOK'
  BY <1>1, <1>2, <1>6, <1>7 DEF RoomTypeOK, StoreTypeOK
<1>9. ToldForward(conn)' /\ Quiet(conn)'
  <2>1. ToldForward(conn)'
    BY <1>2, <1>5 DEF WireInv, ToldForward
  <2>2. Live(conn)
    BY <1>2 DEF WireInv, Quiet
  <2> QED BY <1>2, <2>1, <2>2 DEF Quiet, Live
<1>10. ASSUME NEW c \in Conn, c # conn
       PROVE  ToldForward(c)' /\ Quiet(c)'
  BY <1>2, <1>6, <1>10, ToldStays DEF WireInv, Live
<1> QED BY <1>2, <1>6, <1>8, <1>9, <1>10 DEF RoomPart, WireInv, NumbersHandedOut

\* The server starts anew.
LEMMA RestartTold ==
    ASSUME WireInv, Restart
    PROVE  RoomPart'
<1>1. /\ subjects' = [key \in Key |-> <<>>] /\ sequence_number' = 0
      /\ status' = [conn \in Conn |-> IF Live(conn) THEN "dropped" ELSE status[conn]]
      /\ inbox' = [conn \in Conn |-> <<>>] /\ wire' = [conn \in Conn |-> <<>>]
      /\ subscriptions' = [key \in Key |-> [conn \in Conn |-> 0]]
      /\ debug_connections' = {}
  BY DEF Restart
<1>2. RoomTypeOK'
  BY <1>1, CapacityAssumption DEF WireInv, RoomTypeOK, StoreTypeOK
<1>3. sequence_number' <= MaxSeq
  BY <1>1, MaxSeqAssumption
<1>4. NumbersHandedOut'
  BY <1>1 DEF NumbersHandedOut, Range
<1>5. \A conn \in Conn : ToldForward(conn)' /\ Quiet(conn)'
  BY <1>1, NothingTold
<1> QED BY <1>2, <1>3, <1>4, <1>5 DEF RoomPart

\* What a task does is in step with the connection it holds.
TaskInv ==
    /\ room_map \in {"uncreated", "there", "lost"}
    /\ task \in [Conn -> {"none", "loop", "answer", "spin", "posted", "post", "ended"}]
    /\ status \in [Conn -> {"new", "open", "dropped"}]
    /\ \A conn \in Conn : Live(conn) <=> task[conn] \notin {"none", "posted", "ended"}
    /\ broken \subseteq Conn
    /\ frames \in 0 .. MaxFrames

\* A task and its connection change together.
LEMMA TaskChanges ==
    ASSUME TaskInv, NEW conn \in Conn,
           NEW s \in {"new", "open", "dropped"},
           NEW t \in {"none", "loop", "answer", "spin", "posted", "post", "ended"},
           status' = [status EXCEPT ![conn] = s], task' = [task EXCEPT ![conn] = t],
           s = "open" <=> t \notin {"none", "posted", "ended"},
           room_map' \in {"uncreated", "there", "lost"}, broken' \subseteq Conn,
           frames' \in 0 .. MaxFrames
    PROVE  TaskInv'
  BY DEF TaskInv, Live

LEMMA TaskStep ==
    ASSUME TaskInv, [ServerNext]_serverVars
    PROVE  TaskInv'
<1>0. /\ task \in [Conn -> {"none", "loop", "answer", "spin", "posted", "post", "ended"}]
      /\ status \in [Conn -> {"new", "open", "dropped"}]
      /\ room_map \in {"uncreated", "there", "lost"} /\ broken \subseteq Conn
      /\ frames \in 0 .. MaxFrames /\ MaxFrames \in Nat
  BY MaxFramesAssumption DEF TaskInv
<1>1. ASSUME UNCHANGED <<task, status>>, room_map' \in {"uncreated", "there", "lost"},
             broken' \subseteq Conn, frames' \in 0 .. MaxFrames
      PROVE  TaskInv'
  BY <1>1 DEF TaskInv, Live
<1>2. ASSUME NEW conn \in Conn, NEW request, SendMessage(conn, request)
      PROVE  status' = status
  BY <1>2 DEF SendMessage, Push, Get, Ping
<1>3. ASSUME NEW conn \in Conn, End(conn), UNCHANGED <<room_map, broken, frames>>
      PROVE  TaskInv'
  BY <1>0, <1>3, TaskChanges DEF End, Drop
<1>4. ASSUME NEW conn \in Conn, Connect(conn) \/ ConnectDebug(conn)
      PROVE  status' = [status EXCEPT ![conn] = "open"]
  BY <1>4 DEF Connect, ConnectDebug
<1>5. CASE UNCHANGED serverVars
  BY <1>0, <1>1, <1>5 DEF serverVars, roomVars, connVars
<1>6. CASE NewRoom
  BY <1>0, <1>1, <1>6 DEF NewRoom, roomVars, connVars
<1>7. CASE Restart
  <2>1. /\ room_map' = "lost" /\ UNCHANGED <<broken, frames>>
        /\ status' = [conn \in Conn |-> IF Live(conn) THEN "dropped" ELSE status[conn]]
        /\ task' = [conn \in Conn |-> IF task[conn] = "none" THEN "none" ELSE "ended"]
    BY <1>7 DEF Restart
  <2>2. status' \in [Conn -> {"new", "open", "dropped"}]
    BY <1>0, <2>1
  <2>3. task' \in [Conn -> {"none", "loop", "answer", "spin", "posted", "post", "ended"}]
    BY <2>1
  <2>4. ASSUME NEW conn \in Conn
        PROVE  status'[conn] # "open" /\ task'[conn] \in {"none", "ended"}
    BY <1>0, <2>1 DEF Live
  <2> QED BY <1>0, <2>1, <2>2, <2>3, <2>4 DEF TaskInv, Live
<1>8. ASSUME NEW conn \in Conn, Upgrade(conn)
      PROVE  TaskInv'
  <2>1. /\ Connect(conn) \/ ConnectDebug(conn)
        /\ task' = [task EXCEPT ![conn] = "loop"] /\ UNCHANGED <<room_map, broken, frames>>
    BY <1>8 DEF Upgrade
  <2> QED BY <1>0, <1>4, <2>1, TaskChanges
<1>9. ASSUME NEW conn \in Conn, NEW request, Post(conn, request)
      PROVE  TaskInv'
  <2>1. /\ task[conn] = "none" /\ task' = [task EXCEPT ![conn] = "posted"]
        /\ frames' = frames + 1 /\ frames < MaxFrames /\ UNCHANGED <<status, room_map, broken>>
    BY <1>9 DEF Post, roomVars, connVars
  <2>2. status[conn] \in {"new", "open", "dropped"} /\ status[conn] # "open"
        /\ status' = [status EXCEPT ![conn] = status[conn]]
    BY <1>0, <2>1 DEF TaskInv, Live
  <2>3. frames' \in 0 .. MaxFrames
    BY <1>0, <2>1
  <2> QED BY <1>0, <2>1, <2>2, <2>3, TaskChanges
<1>10. ASSUME NEW conn \in Conn, ServePost(conn)
       PROVE  TaskInv'
  <2>0. UNCHANGED <<room_map, broken, frames>>
    BY <1>10 DEF ServePost
  <2>1. CASE Connect(conn) /\ task' = [task EXCEPT ![conn] = "post"]
    BY <1>0, <1>4, <2>0, <2>1, TaskChanges
  <2>2. CASE task[conn] = "posted" /\ task' = [task EXCEPT ![conn] = "ended"] /\ UNCHANGED roomVars
    <3>1. status[conn] \in {"new", "open", "dropped"} /\ status[conn] # "open"
          /\ status' = [status EXCEPT ![conn] = status[conn]]
      BY <1>0, <2>2 DEF TaskInv, Live, roomVars, connVars
    <3> QED BY <1>0, <2>0, <2>2, <3>1, TaskChanges
  <2>3. CASE SendMessage(conn, Head(incoming[conn])) /\ UNCHANGED task
    BY <1>0, <1>1, <1>2, <2>0, <2>3
  <2>4. CASE End(conn)
    BY <1>3, <2>0, <2>4
  <2> QED BY <1>10, <2>1, <2>2, <2>3, <2>4 DEF ServePost
<1>11. ASSUME NEW conn \in Conn, Vanish(conn)
       PROVE  TaskInv'
  BY <1>0, <1>1, <1>11 DEF Vanish, roomVars, connVars
<1>12. ASSUME NEW conn \in Conn, Receive(conn)
       PROVE  TaskInv'
  <2>0. UNCHANGED <<room_map, broken, frames>> /\ task[conn] = "loop"
    BY <1>12 DEF Receive
  <2>1. CASE SendMessage(conn, Head(incoming[conn])) /\ UNCHANGED task
    BY <1>0, <1>1, <1>2, <2>0, <2>1
  <2>2. CASE End(conn)
    BY <1>3, <2>0, <2>2
  <2>3. ASSUME NEW t \in {"answer", "spin"}, task' = [task EXCEPT ![conn] = t], UNCHANGED roomVars
        PROVE  TaskInv'
    <3>1. status[conn] = "open" /\ status' = [status EXCEPT ![conn] = "open"]
      BY <1>0, <2>0, <2>3 DEF TaskInv, Live, roomVars, connVars
    <3> QED BY <1>0, <2>0, <2>3, <3>1, TaskChanges
  <2> QED BY <1>12, <2>1, <2>2, <2>3 DEF Receive
<1>13. ASSUME NEW conn \in Conn, Forward(conn)
       PROVE  TaskInv'
  <2>1. /\ task[conn] \in {"loop", "answer"} /\ task' = [task EXCEPT ![conn] = "loop"]
        /\ UNCHANGED <<status, room_map, broken, frames>>
    BY <1>13 DEF Forward
  <2>2. status[conn] = "open" /\ status' = [status EXCEPT ![conn] = "open"]
    BY <1>0, <2>1 DEF TaskInv, Live
  <2> QED BY <1>0, <2>1, <2>2, TaskChanges
<1>14. ASSUME NEW conn \in Conn, Fail(conn)
       PROVE  TaskInv'
  BY <1>3, <1>14 DEF Fail
<1>15. ASSUME NEW conn \in Conn, NEW frame, Send(conn, frame)
       PROVE  TaskInv'
  <2>1. frames' \in 0 .. MaxFrames
    <3>1. CASE frame.type = "close"
      BY <1>0, <1>15, <3>1 DEF Send
    <3>2. CASE frame.type # "close"
      BY <1>0, <1>15, <3>2 DEF Send
    <3> QED BY <3>1, <3>2
  <2> QED BY <1>0, <1>1, <1>15, <2>1 DEF Send, roomVars, connVars
<1> QED BY <1>5, <1>6, <1>7, <1>8, <1>9, <1>10, <1>11, <1>12, <1>13, <1>14, <1>15 DEF ServerNext

\* The frames that wait are those that were sent.
LEMMA IncomingStep ==
    ASSUME incoming \in [Conn -> Seq(Frame)], [ServerNext]_serverVars
    PROVE  incoming' \in [Conn -> Seq(Frame)]
<1>1. ASSUME NEW conn \in Conn, NEW s \in Seq(Frame), incoming' = [incoming EXCEPT ![conn] = s]
      PROVE  incoming' \in [Conn -> Seq(Frame)]
  BY <1>1
<1>2. ASSUME NEW conn \in Conn
      PROVE  <<>> \in Seq(Frame) /\ (incoming[conn] # <<>> => Tail(incoming[conn]) \in Seq(Frame))
  <2>1. incoming[conn] \in Seq(Frame)
    OBVIOUS
  <2> QED BY <2>1
<1>3. CASE UNCHANGED incoming
  BY <1>3
<1>4. CASE Restart
  BY <1>2, <1>4 DEF Restart
<1>5. ASSUME NEW conn \in Conn, ServePost(conn) \/ Receive(conn) \/ Fail(conn)
      PROVE  incoming' \in [Conn -> Seq(Frame)]
  <2>1. \/ UNCHANGED incoming
        \/ incoming' = [incoming EXCEPT ![conn] = <<>>]
        \/ incoming[conn] # <<>> /\ incoming' = [incoming EXCEPT ![conn] = Tail(incoming[conn])]
    BY <1>5 DEF ServePost, Receive, Fail, End
  <2> QED BY <1>1, <1>2, <2>1
<1>6. ASSUME NEW conn \in Conn, NEW request \in Request, Post(conn, request)
      PROVE  incoming' \in [Conn -> Seq(Frame)]
  <2>1. <<request>> \in Seq(Frame) /\ incoming' = [incoming EXCEPT ![conn] = <<request>>]
    BY <1>6 DEF Post, Frame
  <2> QED BY <1>1, <2>1
<1>7. ASSUME NEW conn \in Conn, NEW frame \in Frame, Send(conn, frame)
      PROVE  incoming' \in [Conn -> Seq(Frame)]
  <2>1. incoming[conn] \in Seq(Frame)
    OBVIOUS
  <2>2. Append(incoming[conn], frame) \in Seq(Frame)
        /\ incoming' = [incoming EXCEPT ![conn] = Append(incoming[conn], frame)]
    BY <1>7, <2>1 DEF Send
  <2> QED BY <1>1, <2>2
<1>8. ASSUME NEW conn \in Conn, Upgrade(conn) \/ Vanish(conn) \/ Forward(conn)
      PROVE  UNCHANGED incoming
  BY <1>8 DEF Upgrade, Vanish, Forward
<1>9. NewRoom \/ UNCHANGED serverVars => UNCHANGED incoming
  BY DEF NewRoom, serverVars
<1> QED BY <1>3, <1>4, <1>5, <1>6, <1>7, <1>8, <1>9 DEF ServerNext

ServerInv == TaskInv /\ WireInv

LEMMA RoomPartStep ==
    ASSUME WireInv, CompactsHandedOut, [ServerNext]_serverVars
    PROVE  RoomPart' /\ wire' \in [Conn -> Seq(Message)]
<1>0. wire \in [Conn -> Seq(Message)]
  BY DEF WireInv
<1>1. ASSUME UNCHANGED <<roomVars, wire>>
      PROVE  RoomPart' /\ wire' \in [Conn -> Seq(Message)]
  <2>1. \A c \in Conn : ToldForward(c)' /\ Quiet(c)'
    BY <1>1, ToldStays DEF WireInv, roomVars, storeVars, connVars, Live
  <2> QED BY <1>0, <1>1, <2>1
          DEF WireInv, RoomPart, RoomTypeOK, StoreTypeOK, NumbersHandedOut, roomVars, storeVars, connVars
<1>2. ASSUME NEW conn \in Conn, End(conn)
      PROVE  RoomPart' /\ wire' \in [Conn -> Seq(Message)]
  <2>1. wire' = [wire EXCEPT ![conn] = <<>>] /\ <<>> \in Seq(Message)
    BY <1>2 DEF End
  <2> QED BY <1>0, <1>2, <2>1, EndTold
<1>3. ASSUME NEW conn \in Conn, incoming[conn] # <<>>, SendMessage(conn, Head(incoming[conn])),
             wire' = wire
      PROVE  RoomPart' /\ wire' \in [Conn -> Seq(Message)]
  BY <1>0, <1>3, SendMessageTold
<1>4. ASSUME NEW conn \in Conn, Connect(conn) \/ ConnectDebug(conn), wire' = wire
      PROVE  RoomPart' /\ wire' \in [Conn -> Seq(Message)]
  BY <1>0, <1>4, UpgradeTold
<1>5. CASE UNCHANGED serverVars \/ NewRoom
  BY <1>1, <1>5 DEF NewRoom, serverVars
<1>6. CASE Restart
  <2>1. wire' = [conn \in Conn |-> <<>>] /\ <<>> \in Seq(Message)
    BY <1>6 DEF Restart
  <2> QED BY <1>6, <2>1, RestartTold
<1>7. ASSUME NEW conn \in Conn, Upgrade(conn)
      PROVE  RoomPart' /\ wire' \in [Conn -> Seq(Message)]
  BY <1>4, <1>7 DEF Upgrade
<1>8. ASSUME NEW conn \in Conn, ServePost(conn)
      PROVE  RoomPart' /\ wire' \in [Conn -> Seq(Message)]
  BY <1>1, <1>2, <1>3, <1>4, <1>8 DEF ServePost
<1>9. ASSUME NEW conn \in Conn, Receive(conn)
      PROVE  RoomPart' /\ wire' \in [Conn -> Seq(Message)]
  BY <1>1, <1>2, <1>3, <1>9 DEF Receive
<1>10. ASSUME NEW conn \in Conn, Fail(conn)
       PROVE  RoomPart' /\ wire' \in [Conn -> Seq(Message)]
  BY <1>2, <1>10 DEF Fail
<1>11. ASSUME NEW conn \in Conn, Forward(conn)
       PROVE  RoomPart' /\ wire' \in [Conn -> Seq(Message)]
  BY <1>11, ForwardTold
<1>12. ASSUME NEW conn \in Conn, NEW request, Vanish(conn) \/ Post(conn, request) \/ Send(conn, request)
       PROVE  RoomPart' /\ wire' \in [Conn -> Seq(Message)]
  BY <1>1, <1>12 DEF Vanish, Post, Send
<1> QED BY <1>5, <1>6, <1>7, <1>8, <1>9, <1>10, <1>11, <1>12 DEF ServerNext

LEMMA ServerInvariant == ServerSpec /\ []CompactsHandedOut => []ServerInv
<1>1. ServerInit => ServerInv
  <2> SUFFICES ASSUME ServerInit
               PROVE  ServerInv
    OBVIOUS
  <2>1. TaskInv
    BY MaxFramesAssumption DEF ServerInit, RoomInit, TaskInv, Live
  <2>2. RoomTypeOK
    BY RoomTypeInit DEF ServerInit
  <2>3. /\ wire = [conn \in Conn |-> <<>>] /\ inbox = [conn \in Conn |-> <<>>]
        /\ incoming = [conn \in Conn |-> <<>>]
        /\ subjects = [key \in Key |-> <<>>] /\ sequence_number = 0
    BY DEF ServerInit, RoomInit, StoreInit
  <2>4. NumbersHandedOut
    BY <2>3 DEF NumbersHandedOut, Range
  <2>5. ASSUME NEW conn \in Conn
        PROVE  ToldForward(conn) /\ Quiet(conn)
    <3>1. wire[conn] \o inbox[conn] = <<>> /\ wire[conn] = <<>> /\ inbox[conn] = <<>>
      BY <2>3
    <3> QED BY <3>1 DEF ToldForward, GoesForward, AllUpTo, Quiet
  <2> QED BY <2>1, <2>2, <2>3, <2>4, <2>5, MaxSeqAssumption DEF ServerInv, WireInv
<1>2. ServerInv /\ CompactsHandedOut /\ [ServerNext]_serverVars => ServerInv'
  BY TaskStep, IncomingStep, RoomPartStep DEF ServerInv, WireInv, RoomPart
<1> QED BY <1>1, <1>2, PTL DEF ServerSpec

\* A task holds a connection to the room exactly as long as its loop, or its post, runs.
THEOREM ServerTypeCorrect == ServerSpec /\ []CompactsHandedOut => []ServerTypeOK
<1>1. ServerInv => ServerTypeOK
  BY DEF ServerInv, TaskInv, WireInv, ServerTypeOK
<1> QED BY <1>1, ServerInvariant, PTL

\* For any number of sockets, posts, frames and restarts, and channels of any size: what
\* a client is told goes forward (server.rs: one channel per socket, which the callback
\* fills under the room's mutex and the task empties in order).
THEOREM ClientsAreToldForward == ServerSpec /\ []CompactsHandedOut => []TellsForward
<1>1. ServerInv => TellsForward
  BY DEF ServerInv, WireInv, ToldForward, GoesForward, Precedes, TellsForward
<1> QED BY <1>1, ServerInvariant, PTL
=============================================================================
