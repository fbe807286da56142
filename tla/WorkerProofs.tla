---------------------------- MODULE WorkerProofs ----------------------------
(***************************************************************************)
(* What the storage of a durable object is good for, for any streams,      *)
(* sockets and entries, and wherever the object is evicted.                *)
(***************************************************************************)
EXTENDS WorkerTrace, RoomProofs

-----------------------------------------------------------------------------
(***************************************************************************)
(* The map of one stream in storage.                                       *)
(***************************************************************************)

Image == UNION {[numbers -> Value] : numbers \in SUBSET (0 .. MaxSeq)}

\* An entry is stored.
Held(map, entry) == entry.seq \in DOMAIN map /\ map[entry.seq] = entry.value

LEMMA ImageFacts ==
    ASSUME NEW map
    PROVE  map \in Image <=> map \in [DOMAIN map -> Value] /\ DOMAIN map \in SUBSET (0 .. MaxSeq)
<1>1. ASSUME map \in Image
      PROVE  map \in [DOMAIN map -> Value] /\ DOMAIN map \in SUBSET (0 .. MaxSeq)
  <2>1. PICK numbers \in SUBSET (0 .. MaxSeq) : map \in [numbers -> Value]
    BY <1>1 DEF Image
  <2> QED BY <2>1
<1>2. ASSUME map \in [DOMAIN map -> Value], DOMAIN map \in SUBSET (0 .. MaxSeq)
      PROVE  map \in Image
  BY <1>2 DEF Image
<1> QED BY <1>1, <1>2

LEMMA NothingImage == Nothing \in Image /\ DOMAIN Nothing = {}
<1>1. DOMAIN Nothing = {} /\ Nothing \in [{} -> Value]
  BY DEF Nothing
<1> QED BY <1>1, ImageFacts

\* A bounded set has its greatest number.
LEMMA MaxFacts ==
    ASSUME NEW numbers \in SUBSET (0 .. MaxSeq), numbers # {}
    PROVE  Max(numbers) \in numbers /\ \A n \in numbers : n <= Max(numbers)
<1> DEFINE gaps == {MaxSeq - n : n \in numbers}
<1>1. MaxSeq \in Nat
  BY MaxSeqAssumption
<1>2. gaps \in SUBSET Nat /\ gaps # {}
  <2>1. \A n \in numbers : MaxSeq - n \in Nat
    BY <1>1
  <2> QED BY <2>1
<1>3. PICK gap \in gaps : \A other \in gaps : gap <= other
  <2> HIDE DEF gaps
  <2> QED BY <1>2, LeastNatural
<1>4. PICK m \in numbers : gap = MaxSeq - m
  OBVIOUS
<1>5. \A n \in numbers : m >= n
  <2> SUFFICES ASSUME NEW n \in numbers
               PROVE  m >= n
    OBVIOUS
  <2>1. MaxSeq - n \in gaps
    OBVIOUS
  <2>2. MaxSeq - m <= MaxSeq - n
    BY <1>3, <1>4, <2>1
  <2> QED BY <1>1, <2>2
<1>6. \E x \in numbers : \A y \in numbers : x >= y
  BY <1>5
<1> QED BY <1>1, <1>6 DEF Max

\* What is appended joins what is there.
LEMMA AppendKeeps ==
    ASSUME NEW S, NEW order \in Seq(S), NEW n \in S
    PROVE  Range(Append(order, n)) = Range(order) \cup {n}
<1> DEFINE more == Append(order, n)
<1>1. /\ more \in Seq(S) /\ Len(order) \in Nat
      /\ DOMAIN order = 1 .. Len(order) /\ DOMAIN more = 1 .. Len(order) + 1
      /\ \A i \in 1 .. Len(order) : more[i] = order[i]
      /\ more[Len(order) + 1] = n
  BY AppendProperties, LenProperties
<1> HIDE DEF more
<1>2. \A i \in 1 .. Len(order) + 1 : i \in 1 .. Len(order) \/ i = Len(order) + 1
  BY <1>1
<1>3. \A i \in 1 .. Len(order) : i \in 1 .. Len(order) + 1
  BY <1>1
<1>4. Len(order) + 1 \in 1 .. Len(order) + 1
  BY <1>1
<1> QED BY <1>1, <1>2, <1>3, <1>4 DEF Range, more

\* An order of numbers is increasing.
Rises(order) == \A i, j \in DOMAIN order : i < j => order[i] < order[j]

\* A bounded set can be listed in increasing order.
LEMMA RisingOrderExists ==
    ASSUME NEW m \in Nat, NEW numbers \in SUBSET (0 .. m - 1)
    PROVE  \E order \in Seq(Nat) : Range(order) = numbers /\ Rises(order)
<1> DEFINE Listable(D) == \E order \in Seq(Nat) : Range(order) = D /\ Rises(order)
           T == {n \in Nat : \A D \in SUBSET (0 .. n - 1) : Listable(D)}
<1>1. 0 \in T
  <2>1. <<>> \in Seq(Nat) /\ Range(<<>>) = {} /\ Rises(<<>>)
    BY DEF Range, Rises
  <2>2. \A D \in SUBSET (0 .. 0 - 1) : D = {}
    OBVIOUS
  <2> QED BY <2>1, <2>2
<1>2. ASSUME NEW n \in Nat, n \in T
      PROVE  n + 1 \in T
  <2> SUFFICES ASSUME NEW D \in SUBSET (0 .. n)
               PROVE  Listable(D)
    <3>1. (n + 1) - 1 = n
      OBVIOUS
    <3> HIDE DEF Listable
    <3> QED BY <3>1
  <2> DEFINE E == D \ {n}
  <2>1. E \in SUBSET (0 .. n - 1)
    OBVIOUS
  <2>2. PICK order \in Seq(Nat) : Range(order) = E /\ Rises(order)
    BY <1>2, <2>1
  <2>3. CASE n \notin D
    BY <2>2, <2>3
  <2>4. CASE n \in D
    <3> DEFINE more == Append(order, n)
    <3>1. /\ more \in Seq(Nat) /\ Len(order) \in Nat
          /\ DOMAIN order = 1 .. Len(order) /\ DOMAIN more = 1 .. Len(order) + 1
          /\ \A i \in 1 .. Len(order) : more[i] = order[i]
          /\ more[Len(order) + 1] = n
      BY AppendProperties, LenProperties
    <3> HIDE DEF more, E
    <3>2. \A i \in 1 .. Len(order) : order[i] \in E
      BY <2>2, <3>1 DEF Range
    <3>3. \A i \in 1 .. Len(order) : more[i] < n
      BY <2>1, <3>1, <3>2
    <3>4. Rises(more)
      <4> SUFFICES ASSUME NEW i \in DOMAIN more, NEW j \in DOMAIN more, i < j
                   PROVE  more[i] < more[j]
        BY DEF Rises
      <4>1. CASE j = Len(order) + 1
        BY <3>1, <3>3, <4>1
      <4>2. CASE j \in 1 .. Len(order)
        BY <2>2, <3>1, <4>2 DEF Rises
      <4> QED BY <3>1, <4>1, <4>2
    <3>5. Range(more) = Range(order) \cup {n}
      BY AppendKeeps DEF more
    <3>6. Range(more) = D
      BY <2>2, <2>4, <3>5 DEF E
    <3> QED BY <3>1, <3>4, <3>6
  <2> QED BY <2>3, <2>4
<1>3. Nat \subseteq T
  <2> HIDE DEF T
  <2> QED BY <1>1, <1>2, NatSetInduction
<1> QED BY <1>3

LEMMA ListingFacts ==
    ASSUME NEW map \in Image
    PROVE  /\ Listing(map) \in [1 .. Cardinality(DOMAIN map) -> DOMAIN map]
           /\ Cardinality(DOMAIN map) \in Nat
           /\ Range(Listing(map)) = DOMAIN map
           /\ Rises(Listing(map))
<1> DEFINE numbers == DOMAIN map
<1>1. MaxSeq \in Nat /\ MaxSeq + 1 \in Nat /\ 0 .. (MaxSeq + 1) - 1 = 0 .. MaxSeq
  BY MaxSeqAssumption
<1>2. numbers \in SUBSET (0 .. MaxSeq)
  BY ImageFacts
<1> HIDE DEF numbers
<1>3. PICK order \in Seq(Nat) : Range(order) = numbers /\ Rises(order)
  BY <1>1, <1>2, RisingOrderExists
<1>4. IsFiniteSet(numbers)
  <2>1. IsFiniteSet(0 .. MaxSeq)
    BY <1>1, FS_Interval
  <2> QED BY <1>2, <2>1, FS_Subset
<1>5. Len(order) \in Nat /\ DOMAIN order = 1 .. Len(order)
  BY LenProperties
<1> DEFINE n == Len(order)
<1>6. order \in [1 .. n -> numbers]
  BY <1>3, <1>5 DEF Range
<1>7. \A i \in 1 .. n : order[i] \in Nat
  BY ElementOfSeq, <1>5
<1>8. \A i, j \in 1 .. n : i # j => order[i] # order[j]
  BY <1>3, <1>5, <1>7 DEF Rises
<1>9. order \in Injection(1 .. n, numbers)
  BY <1>6, <1>8 DEF Injection, IsInjective
<1>10. order \in Surjection(1 .. n, numbers)
  BY <1>3, <1>5, <1>6 DEF Surjection, Range
<1>11. Cardinality(1 .. n) = n
  BY <1>5, FS_Interval
<1>12. Cardinality(numbers) = n
  BY <1>4, <1>9, <1>10, <1>11, FS_Injection
<1>13. order \in SetToSeqs(numbers)
  BY <1>6, <1>8, <1>12 DEF SetToSeqs
<1>14. \E listed \in SetToSeqs(numbers) : \A i, j \in DOMAIN listed : i < j => listed[i] < listed[j]
  BY <1>3, <1>13 DEF Rises
<1> DEFINE list == Listing(map)
<1>15. list \in SetToSeqs(numbers) /\ Rises(list)
  BY <1>14 DEF Listing, Rises, numbers
<1> HIDE DEF list
<1>16. list \in [1 .. n -> numbers] /\ \A i, j \in 1 .. n : i # j => list[i] # list[j]
  BY <1>12, <1>15 DEF SetToSeqs
<1>17. list \in Injection(1 .. n, numbers)
  BY <1>16 DEF Injection, IsInjective
<1>18. list \in Surjection(1 .. n, numbers)
  BY <1>4, <1>11, <1>12, <1>17, FS_Injection
<1>19. Range(list) = numbers
  BY <1>16, <1>18 DEF Surjection, Range
<1> QED BY <1>5, <1>12, <1>15, <1>16, <1>19 DEF list, numbers

\* What is loaded of a stream is what is stored of it, in order.
LEMMA LogOfFacts ==
    ASSUME NEW map \in Image
    PROVE  /\ LogOf(map) \in Seq(SequenceValue)
           /\ Increasing(LogOf(map))
           /\ Range(LogOf(map)) = {[value |-> map[n], seq |-> n] : n \in DOMAIN map}
           /\ Numbers(LogOf(map)) = DOMAIN map
           /\ \A entry \in Range(LogOf(map)) : Held(map, entry)
<1> DEFINE order == Listing(map)
           size == Cardinality(DOMAIN map)
           log == LogOf(map)
           entries == {[value |-> map[n], seq |-> n] : n \in DOMAIN map}
<1>1. /\ order \in [1 .. size -> DOMAIN map] /\ size \in Nat /\ Range(order) = DOMAIN map
      /\ Rises(order)
  BY ListingFacts
<1>2. \A n \in DOMAIN map : map[n] \in Value /\ n \in Nat
  BY ImageFacts
<1>3. log = [i \in 1 .. size |-> [value |-> map[order[i]], seq |-> order[i]]]
  BY <1>1 DEF LogOf
<1> HIDE DEF order, size, log
<1>4. \A i \in 1 .. size : log[i] \in SequenceValue /\ log[i].seq = order[i] /\ log[i].value = map[order[i]]
  BY <1>1, <1>2, <1>3 DEF SequenceValue
<1>5. log \in [1 .. size -> SequenceValue]
  BY <1>3, <1>4
<1>6. log \in Seq(SequenceValue)
  BY <1>1, <1>5, IsASeq
<1>7. Increasing(log)
  BY <1>1, <1>4, <1>5 DEF Increasing, Rises
<1>8. Range(log) = entries
  <2>1. ASSUME NEW entry \in Range(log)
        PROVE  entry \in entries
    <3>1. PICK i \in 1 .. size : entry = log[i]
      BY <1>5 DEF Range
    <3> QED BY <1>1, <1>3, <3>1
  <2>2. ASSUME NEW n \in DOMAIN map
        PROVE  [value |-> map[n], seq |-> n] \in Range(log)
    <3>1. PICK i \in 1 .. size : order[i] = n
      BY <1>1 DEF Range
    <3> QED BY <1>3, <1>5, <3>1 DEF Range
  <2> QED BY <2>1, <2>2
<1>9. Numbers(log) = DOMAIN map
  <2>1. Numbers(log) = {entry.seq : entry \in entries}
    BY <1>8 DEF Numbers
  <2>2. {entry.seq : entry \in entries} = {[value |-> map[n], seq |-> n].seq : n \in DOMAIN map}
    OBVIOUS
  <2> HIDE DEF entries
  <2>3. {[value |-> map[n], seq |-> n].seq : n \in DOMAIN map} = DOMAIN map
    OBVIOUS
  <2> QED BY <2>1, <2>2, <2>3
<1>10. \A entry \in Range(log) : Held(map, entry)
  BY <1>8 DEF Held
<1> QED BY <1>6, <1>7, <1>8, <1>9, <1>10 DEF log

\* The two ways in which storage changes a stream.
LEMMA WithEntryFacts ==
    ASSUME NEW map \in Image, NEW entry \in SequenceValue, entry.seq <= MaxSeq
    PROVE  /\ WithEntry(map, entry) \in Image
           /\ DOMAIN WithEntry(map, entry) = DOMAIN map \cup {entry.seq}
           /\ Held(WithEntry(map, entry), entry)
           /\ \A other : Held(map, other) /\ other.seq # entry.seq => Held(WithEntry(map, entry), other)
<1> DEFINE new == WithEntry(map, entry)
<1>1. new = [n \in DOMAIN map \cup {entry.seq} |-> IF n = entry.seq THEN entry.value ELSE map[n]]
  BY DEF WithEntry
<1>2. DOMAIN map \in SUBSET (0 .. MaxSeq) /\ \A n \in DOMAIN map : map[n] \in Value
  BY ImageFacts
<1>3. entry.seq \in 0 .. MaxSeq /\ entry.value \in Value
  BY MaxSeqAssumption DEF SequenceValue
<1> HIDE DEF new
<1>4. new \in [DOMAIN new -> Value] /\ DOMAIN new \in SUBSET (0 .. MaxSeq)
  BY <1>1, <1>2, <1>3
<1>5. new \in Image
  BY <1>4, ImageFacts
<1> QED BY <1>1, <1>5 DEF Held, new

LEMMA WithoutNumbersFacts ==
    ASSUME NEW map \in Image, NEW numbers
    PROVE  /\ WithoutNumbers(map, numbers) \in Image
           /\ DOMAIN WithoutNumbers(map, numbers) = DOMAIN map \ numbers
           /\ \A other : Held(map, other) /\ other.seq \notin numbers => Held(WithoutNumbers(map, numbers), other)
<1> DEFINE new == WithoutNumbers(map, numbers)
<1>1. new = [n \in DOMAIN map \ numbers |-> map[n]]
  BY DEF WithoutNumbers, Restrict
<1>2. DOMAIN map \in SUBSET (0 .. MaxSeq) /\ \A n \in DOMAIN map : map[n] \in Value
  BY ImageFacts
<1> HIDE DEF new
<1>3. new \in [DOMAIN new -> Value] /\ DOMAIN new \in SUBSET (0 .. MaxSeq)
  BY <1>1, <1>2
<1>4. new \in Image
  BY <1>3, ImageFacts
<1> QED BY <1>1, <1>4 DEF Held, new

-----------------------------------------------------------------------------
(***************************************************************************)
(* The inductive invariant.                                                *)
(***************************************************************************)

\* Everything has its type, and no number is beyond the bound.
BoundedEntry == {entry \in SequenceValue : entry.seq <= MaxSeq}
Request == [key : Key, value : Value, action : ClientAction(MaxSeq)]

BoundedOp ==
    [type : {"list"}, key : Key, action : ClientAction(MaxSeq), entry : BoundedEntry]
        \cup [type : {"delete"}, key : Key, numbers : SUBSET Nat, entry : BoundedEntry]
        \cup [type : {"put"}, key : Key, entry : BoundedEntry]
        \cup {DeleteAllOp}

StreamsInside ==
    /\ StoreTypeOK
    /\ sequence_number <= MaxSeq
    /\ \A key \in Key : \A entry \in Range(subjects[key]) : entry.seq <= MaxSeq

\* Nothing of an object that is not in memory is in memory.
NothingOutside ==
    ~loaded => /\ Range(ops) \subseteq {DeleteAllOp}
               /\ \A socket \in Socket : waiting[socket] = NoMessage
               /\ StoreInit

Inside ==
    /\ StreamsInside
    /\ loaded \in BOOLEAN
    /\ storage \in [Key -> Image]
    /\ ops \in Seq(BoundedOp)
    /\ waiting \in [Socket -> Request \cup {NoMessage}]
    /\ alarm \in {NoAlarm} \cup 0 .. Retention
    /\ known \in {CutShort} \cup 0 .. MaxSeq
    /\ lost \in BOOLEAN /\ leftover \in BOOLEAN
    /\ told \in 0 .. MaxSeq
    /\ NothingOutside

LEMMA OpFacts ==
    ASSUME NEW op \in BoundedOp
    PROVE  /\ op.type \in {"list", "delete", "put", "delete_all"}
           /\ op.type = "delete_all" => op = DeleteAllOp
           /\ op.type # "delete_all" => /\ op.key \in Key /\ op.entry \in BoundedEntry
                                        /\ op.entry \in SequenceValue /\ op.entry.seq \in 0 .. MaxSeq
           /\ op.type = "list" => op.action \in ClientAction(MaxSeq)
           /\ op.type = "delete" => op.numbers \in SUBSET Nat
<1>1. MaxSeq \in Nat
  BY MaxSeqAssumption
<1> QED BY <1>1 DEF BoundedOp, DeleteAllOp, BoundedEntry, SequenceValue

LEMMA OpTypes ==
    ASSUME NEW key \in Key, NEW action \in ClientAction(MaxSeq), NEW entry \in BoundedEntry
    PROVE  /\ ListOp(key, action, entry) \in BoundedOp
           /\ \A numbers \in SUBSET Nat : DeleteOp(key, numbers, entry) \in BoundedOp
           /\ PutOp(key, entry) \in BoundedOp
           /\ DeleteAllOp \in BoundedOp
BY DEF BoundedOp, ListOp, DeleteOp, PutOp

\* What a client may send, whatever it knows.
LEMMA RequestFacts ==
    ASSUME Inside, NEW request \in Requests
    PROVE  request \in Request
<1> DEFINE numbers == {sequence_number, told}
<1>1. MaxSeq \in Nat /\ numbers \in SUBSET (0 .. MaxSeq) /\ numbers # {}
  BY MaxSeqAssumption DEF Inside, StreamsInside, StoreTypeOK
<1> HIDE DEF numbers
<1>2. Max(numbers) \in 0 .. MaxSeq
  BY <1>1, MaxFacts
<1>3. ClientAction(Max(numbers)) \subseteq ClientAction(MaxSeq)
  BY <1>1, <1>2 DEF ClientAction
<1>4. request \in PushRequest(Max(numbers))
  BY DEF Requests, numbers
<1> QED BY <1>3, <1>4 DEF PushRequest, Request

\* What one apply does to the stream, and what its task issues first.
LEMMA SendFacts ==
    ASSUME Inside, NEW request \in Request, SendMessage(request)
    PROVE  LET key   == request.key
               entry == [value |-> request.value, seq |-> Stamp(request.action)]
           IN  /\ entry \in BoundedEntry /\ entry \in SequenceValue
               /\ sequence_number' = SequenceAfter(request.action, sequence_number)
               /\ sequence_number' \in Nat /\ sequence_number <= sequence_number'
               /\ subjects'[key] = StreamAfter(subjects[key], entry, request.action)
               /\ Range(subjects'[key]) = RangeAfter(subjects[key], entry, request.action)
               /\ \A k \in Key \ {key} : subjects'[k] = subjects[k]
               /\ StreamsInside'
               /\ ops' = ops \o FirstOps(key, request.action, entry)
               /\ FirstOps(key, request.action, entry) \in Seq(BoundedOp)
               /\ ops' \in Seq(BoundedOp)
<1> DEFINE key    == request.key
           action == request.action
           entry  == [value |-> request.value, seq |-> Stamp(action)]
<1>1. /\ key \in Key /\ request.value \in Value /\ action \in ClientAction(MaxSeq)
      /\ MaxSeq \in Nat /\ sequence_number \in Nat
      /\ subjects \in [Key -> Seq(SequenceValue)]
  BY MaxSeqAssumption DEF Request, Inside, StreamsInside, StoreTypeOK
<1>2. /\ action.type \in {"relay", "append", "replace", "compact"}
      /\ action.type = "compact" => action.seq \in 0 .. MaxSeq
  BY <1>1 DEF ClientAction
<1>3. ApplyAction(key, request.value, action) /\ ops' = ops \o FirstOps(key, action, entry)
  BY DEF SendMessage
<1>4. /\ sequence_number' = SequenceAfter(action, sequence_number)
      /\ sequence_number' <= MaxSeq
      /\ subjects' = [subjects EXCEPT ![key] = StreamAfter(@, entry, action)]
  BY <1>3 DEF ApplyAction
<1>5. /\ sequence_number' \in Nat /\ sequence_number <= sequence_number'
      /\ entry.seq \in 0 .. MaxSeq
  BY <1>1, <1>2, <1>4 DEF SequenceAfter, Stamp, StampOf
<1>6. entry \in BoundedEntry /\ entry \in SequenceValue
  BY <1>1, <1>5 DEF BoundedEntry, SequenceValue
<1> HIDE DEF key, action, entry
<1>7. /\ subjects'[key] = StreamAfter(subjects[key], entry, action)
      /\ \A k \in Key \ {key} : subjects'[k] = subjects[k]
  BY <1>1, <1>4
<1>8. subjects[key] \in Seq(SequenceValue)
  BY <1>1
<1>9. /\ subjects'[key] \in Seq(SequenceValue)
      /\ Range(subjects'[key]) = RangeAfter(subjects[key], entry, action)
  BY <1>1, <1>6, <1>7, <1>8, StreamAfterRange
<1>10. StoreTypeOK'
  BY <1>1, <1>4, <1>5, <1>7, <1>9 DEF StoreTypeOK
<1>11. \A e \in Range(subjects'[key]) : e \in Range(subjects[key]) \/ e = entry
  BY <1>2, <1>9 DEF RangeAfter
<1>12. StreamsInside'
  BY <1>1, <1>4, <1>5, <1>7, <1>10, <1>11 DEF StreamsInside, Inside
<1>13. FirstOps(key, action, entry) \in Seq(BoundedOp)
  <2>1. ListOp(key, action, entry) \in BoundedOp /\ PutOp(key, entry) \in BoundedOp
    BY <1>1, <1>6, OpTypes
  <2> QED BY <1>2, <2>1 DEF FirstOps
<1>14. ops' \in Seq(BoundedOp)
  BY <1>3, <1>13, ConcatProperties DEF Inside
<1> QED BY <1>3, <1>4, <1>5, <1>6, <1>7, <1>9, <1>12, <1>13, <1>14 DEF key, action, entry

\* A queue and what is left of it once its head is carried out.
LEMMA QueueFacts ==
    ASSUME NEW S, NEW queue \in Seq(S), queue # <<>>
    PROVE  /\ Head(queue) \in S /\ Head(queue) \in Range(queue)
           /\ Tail(queue) \in Seq(S)
           /\ Len(queue) \in Nat \ {0} /\ Len(Tail(queue)) = Len(queue) - 1
           /\ Range(queue) = {Head(queue)} \cup Range(Tail(queue))
<1> DEFINE rest == Tail(queue)
<1>1. /\ Len(queue) \in Nat \ {0} /\ DOMAIN queue = 1 .. Len(queue)
      /\ \A i \in 1 .. Len(queue) : queue[i] \in S
  BY EmptySeq, LenProperties, ElementOfSeq
<1>2. /\ Head(queue) = queue[1] /\ rest \in Seq(S) /\ Len(rest) = Len(queue) - 1
      /\ \A i \in 1 .. Len(rest) : rest[i] = queue[i + 1]
  BY HeadTailProperties
<1>3. DOMAIN rest = 1 .. Len(queue) - 1
  BY <1>2, LenProperties
<1> HIDE DEF rest
<1>4. \A i \in 1 .. Len(queue) - 1 : rest[i] = queue[i + 1] /\ i + 1 \in 1 .. Len(queue)
  BY <1>1, <1>2
<1>5. \A i \in 1 .. Len(queue) : i = 1 \/ (i - 1 \in 1 .. Len(queue) - 1 /\ queue[i] = rest[i - 1])
  <2> SUFFICES ASSUME NEW i \in 1 .. Len(queue), i # 1
               PROVE  i - 1 \in 1 .. Len(queue) - 1 /\ queue[i] = rest[i - 1]
    OBVIOUS
  <2>1. i - 1 \in 1 .. Len(queue) - 1 /\ (i - 1) + 1 = i
    BY <1>1
  <2> QED BY <1>4, <2>1
<1>6. 1 \in 1 .. Len(queue)
  BY <1>1
<1>7. Range(queue) \subseteq {Head(queue)} \cup Range(rest)
  BY <1>1, <1>2, <1>3, <1>5 DEF Range
<1>8. Head(queue) \in Range(queue) /\ Range(rest) \subseteq Range(queue)
  BY <1>1, <1>2, <1>3, <1>4, <1>6 DEF Range
<1> QED BY <1>1, <1>2, <1>6, <1>7, <1>8 DEF rest

\* A load takes the streams from storage and continues above every stored number.
LEMMA LoadFacts ==
    ASSUME Inside, Load
    PROVE  /\ StreamsInside'
           /\ \A key \in Key : subjects'[key] = LogOf(storage[key])
           /\ sequence_number' \in 0 .. MaxSeq
           /\ \A key \in Key : \A n \in DOMAIN storage[key] : n \in 0 .. MaxSeq /\ n <= sequence_number'
<1>1. MaxSeq \in Nat /\ \A key \in Key : storage[key] \in Image
  BY MaxSeqAssumption DEF Inside
<1>2. subjects' = [key \in Key |-> LogOf(storage[key])] /\ sequence_number' = LastNumber
  BY DEF Load
<1>3. \A key \in Key : DOMAIN storage[key] \in SUBSET (0 .. MaxSeq)
  BY <1>1, ImageFacts
<1> DEFINE numbers == {0} \cup UNION {DOMAIN storage[key] : key \in Key}
<1>4. numbers \in SUBSET (0 .. MaxSeq) /\ numbers # {}
  BY <1>1, <1>3
<1>5. \A key \in Key : \A n \in DOMAIN storage[key] : n \in numbers
  OBVIOUS
<1>6. sequence_number' = Max(numbers)
  BY <1>2 DEF LastNumber
<1> HIDE DEF numbers
<1>7. sequence_number' \in 0 .. MaxSeq /\ \A n \in numbers : n <= sequence_number'
  BY <1>4, <1>6, MaxFacts
<1>8. ASSUME NEW key \in Key
      PROVE  /\ subjects'[key] = LogOf(storage[key])
             /\ subjects'[key] \in Seq(SequenceValue)
             /\ \A entry \in Range(subjects'[key]) : entry.seq <= MaxSeq
  <2>1. subjects'[key] = LogOf(storage[key])
    BY <1>2
  <2>2. /\ LogOf(storage[key]) \in Seq(SequenceValue)
        /\ Numbers(LogOf(storage[key])) = DOMAIN storage[key]
    BY <1>1, LogOfFacts
  <2>3. ASSUME NEW entry \in Range(subjects'[key])
        PROVE  entry.seq <= MaxSeq
    <3>1. entry.seq \in Numbers(LogOf(storage[key]))
      BY <2>1 DEF Numbers
    <3> QED BY <1>1, <1>3, <2>2, <3>1
  <2> QED BY <2>1, <2>2, <2>3
<1>9. StoreTypeOK'
  BY <1>1, <1>2, <1>7, <1>8 DEF StoreTypeOK
<1>10. StreamsInside'
  BY <1>1, <1>7, <1>8, <1>9 DEF StreamsInside
<1> QED BY <1>3, <1>5, <1>7, <1>8, <1>10

\* A room without entries.
LEMMA EmptyFacts ==
    ASSUME subjects' = [key \in Key |-> <<>>], sequence_number' = 0
    PROVE  StreamsInside' /\ StoreInit' /\ \A key \in Key : Range(subjects'[key]) = {}
<1>1. \A key \in Key : subjects'[key] = <<>> /\ Range(subjects'[key]) = {}
  BY DEF Range
<1>2. subjects' \in [Key -> Seq(SequenceValue)]
  OBVIOUS
<1>3. MaxSeq \in Nat
  BY MaxSeqAssumption
<1> QED BY <1>1, <1>2, <1>3 DEF StreamsInside, StoreTypeOK, StoreInit

\* What clients know once a request is applied.
LEMMA AppliedFacts ==
    ASSUME Inside, NEW request \in Request, SendMessage(request), Applied(request)
    PROVE  /\ known' \in {CutShort} \cup 0 .. MaxSeq
           /\ Ahead(request.action) => lost' /\ ~Intact'
           /\ ~Ahead(request.action) =>
                 /\ lost' = lost /\ (Intact' <=> Intact)
                 /\ ~Mutates(request.action) => known' = known
                 /\ Intact /\ Mutates(request.action) =>
                       /\ known <= known' /\ Stamp(request.action) <= known'
                       /\ known' \in {known, Stamp(request.action)}
<1> DEFINE stamp == Stamp(request.action)
<1>1. /\ known \in {CutShort} \cup 0 .. MaxSeq /\ MaxSeq \in Nat /\ CutShort = -1
      /\ stamp \in 0 .. MaxSeq
  <2>1. [value |-> request.value, seq |-> stamp] \in BoundedEntry
    BY SendFacts
  <2> QED BY <2>1, MaxSeqAssumption DEF Inside, BoundedEntry, SequenceValue, CutShort
<1> HIDE DEF stamp
<1>2. CASE Ahead(request.action)
  BY <1>2 DEF Applied, Intact
<1>3. CASE ~Ahead(request.action) /\ Intact /\ Mutates(request.action)
  <2>1. known' = Max({known, stamp}) /\ lost' = lost
    BY <1>3 DEF Applied, stamp
  <2>2. {known, stamp} \in SUBSET (0 .. MaxSeq) /\ {known, stamp} # {}
    BY <1>1, <1>3 DEF Intact
  <2>3. known' \in {known, stamp} /\ known <= known' /\ stamp <= known'
    BY <2>1, <2>2, MaxFacts
  <2> QED BY <1>1, <1>3, <2>1, <2>2, <2>3 DEF Intact, stamp
<1>4. CASE ~Ahead(request.action) /\ ~(Intact /\ Mutates(request.action))
  <2>1. known' = known /\ lost' = lost
    BY <1>4 DEF Applied
  <2> QED BY <1>1, <1>4, <2>1 DEF Intact
<1> QED BY <1>2, <1>3, <1>4

\* Storage carries out its next operation.
LEMMA ExecInside ==
    ASSUME Inside, TraceExec
    PROVE  Inside'
<1>1. /\ ops # <<>> /\ UNCHANGED <<storeVars, loaded, waiting, alarm>>
      /\ ops \in Seq(BoundedOp) /\ storage \in [Key -> Image]
  BY DEF TraceExec, ExecList, ExecDelete, ExecPut, ExecDeleteAll, Inside
<1> DEFINE op == Head(ops)
<1>2. /\ op \in BoundedOp /\ op \in Range(ops)
      /\ Tail(ops) \in Seq(BoundedOp) /\ Range(Tail(ops)) \subseteq Range(ops)
  BY <1>1, QueueFacts
<1>3. /\ op.type = "delete_all" => op = DeleteAllOp
      /\ op.type # "delete_all" => /\ op.key \in Key /\ op.entry \in BoundedEntry
                                   /\ op.entry \in SequenceValue /\ op.entry.seq <= MaxSeq
  BY <1>2, OpFacts, MaxSeqAssumption
<1>4. /\ known' \in {CutShort} \cup 0 .. MaxSeq
      /\ lost' \in BOOLEAN /\ leftover' \in BOOLEAN
      /\ told' \in 0 .. MaxSeq
  BY DEF TraceExec, Inside, Skipped, ghostVars
<1>5. ~loaded => op = DeleteAllOp
  BY <1>2 DEF Inside, NothingOutside
<1>6. StreamsInside' /\ (~loaded => StoreInit')
  BY <1>1 DEF Inside, NothingOutside, StreamsInside, StoreTypeOK, StoreInit, storeVars
<1>7. DeleteAllOp.type = "delete_all"
  BY DEF DeleteAllOp
<1> HIDE DEF op
<1>8. CASE ExecList
  <2>1. op.type = "list"
    BY <1>8 DEF ExecList, op
  <2>2. /\ op.action \in ClientAction(MaxSeq) /\ Listed(op.key, op.action) \in SUBSET Nat
    <3>1. op.action \in ClientAction(MaxSeq) /\ storage[op.key] \in Image
      BY <1>1, <1>2, <1>3, <2>1, OpFacts
    <3>2. DOMAIN storage[op.key] \in SUBSET (0 .. MaxSeq) /\ MaxSeq \in Nat
      BY <3>1, ImageFacts, MaxSeqAssumption
    <3>3. Listed(op.key, op.action) \subseteq DOMAIN storage[op.key]
      BY DEF Listed
    <3> QED BY <3>1, <3>2, <3>3
  <2>3. \/ ops' = Tail(ops) \o <<DeleteOp(op.key, Listed(op.key, op.action), op.entry)>>
        \/ ops' = Append(Tail(ops), PutOp(op.key, op.entry))
    BY <1>8 DEF ExecList, AfterList, op
  <2>4. /\ DeleteOp(op.key, Listed(op.key, op.action), op.entry) \in BoundedOp
        /\ PutOp(op.key, op.entry) \in BoundedOp
    BY <1>3, <2>1, <2>2, OpTypes
  <2>5. ops' \in Seq(BoundedOp)
    <3>1. CASE ops' = Append(Tail(ops), PutOp(op.key, op.entry))
      BY <1>2, <2>4, <3>1, AppendProperties
    <3>2. CASE ops' = Tail(ops) \o <<DeleteOp(op.key, Listed(op.key, op.action), op.entry)>>
      <4>1. <<DeleteOp(op.key, Listed(op.key, op.action), op.entry)>> \in Seq(BoundedOp)
        BY <2>4
      <4> QED BY <1>2, <3>2, <4>1, ConcatProperties
    <3> QED BY <2>3, <3>1, <3>2
  <2>6. storage' = storage /\ loaded
    BY <1>5, <1>7, <1>8, <2>1 DEF ExecList, Inside
  <2> QED BY <1>1, <1>4, <1>6, <2>5, <2>6 DEF Inside, NothingOutside
<1>9. CASE ExecDelete
  <2>1. /\ op.type = "delete" /\ loaded
        /\ storage' = [storage EXCEPT ![op.key] = WithoutNumbers(@, op.numbers)]
        /\ ops' = Append(Tail(ops), PutOp(op.key, op.entry))
    BY <1>5, <1>7, <1>9 DEF ExecDelete, Inside, op
  <2>2. PutOp(op.key, op.entry) \in BoundedOp
    BY <1>3, <2>1 DEF BoundedOp, PutOp
  <2>3. ops' \in Seq(BoundedOp)
    BY <1>2, <2>1, <2>2, AppendProperties
  <2>4. WithoutNumbers(storage[op.key], op.numbers) \in Image
    BY <1>1, <1>3, <2>1, WithoutNumbersFacts
  <2>5. storage' \in [Key -> Image]
    BY <1>1, <2>1, <2>4
  <2> QED BY <1>1, <1>4, <1>6, <2>1, <2>3, <2>5 DEF Inside, NothingOutside
<1>10. CASE ExecPut
  <2>1. /\ op.type = "put" /\ loaded
        /\ storage' = [storage EXCEPT ![op.key] = WithEntry(@, op.entry)]
        /\ ops' = Tail(ops)
    BY <1>5, <1>7, <1>10 DEF ExecPut, Inside, op
  <2>2. WithEntry(storage[op.key], op.entry) \in Image
    BY <1>1, <1>3, <2>1, WithEntryFacts
  <2>3. storage' \in [Key -> Image]
    BY <1>1, <2>1, <2>2
  <2> QED BY <1>1, <1>2, <1>4, <1>6, <2>1, <2>3 DEF Inside, NothingOutside
<1>11. CASE ExecDeleteAll
  <2>1. storage' = [key \in Key |-> Nothing] /\ ops' = Tail(ops)
    BY <1>11 DEF ExecDeleteAll
  <2>2. storage' \in [Key -> Image]
    BY <2>1, NothingImage
  <2> QED BY <1>1, <1>2, <1>4, <1>6, <2>1, <2>2 DEF Inside, NothingOutside
<1> QED BY <1>8, <1>9, <1>10, <1>11 DEF TraceExec

\* A request is applied, on a socket or not.
LEMMA SendInside ==
    ASSUME Inside, loaded, NEW request \in Request, SendMessage(request), Applied(request),
           UNCHANGED <<loaded, storage, alarm>>,
           waiting' \in [Socket -> Request \cup {NoMessage}]
    PROVE  Inside'
<1>1. StreamsInside' /\ ops' \in Seq(BoundedOp)
  BY SendFacts
<1>2. known' \in {CutShort} \cup 0 .. MaxSeq
  BY AppliedFacts
<1>3. UNCHANGED <<leftover, told>> /\ lost' \in BOOLEAN
  BY DEF Applied, Inside
<1> QED BY <1>1, <1>2, <1>3 DEF Inside, NothingOutside

LEMMA InsideInit == WorkerTraceInit => Inside
<1> SUFFICES ASSUME WorkerTraceInit
             PROVE  Inside
  OBVIOUS
<1>1. /\ WorkerInit /\ known = 0 /\ lost = FALSE /\ leftover = FALSE /\ told = 0
      /\ MaxSeq \in Nat
  BY MaxSeqAssumption DEF WorkerTraceInit
<1>2. /\ StoreInit /\ loaded = FALSE /\ storage = [key \in Key |-> Nothing] /\ ops = <<>>
      /\ waiting = [socket \in Socket |-> NoMessage] /\ alarm = NoAlarm
  BY <1>1 DEF WorkerInit
<1>3. StreamsInside
  BY <1>1, <1>2 DEF StreamsInside, StoreTypeOK, StoreInit, Range
<1>4. storage \in [Key -> Image]
  BY <1>2, NothingImage
<1>5. Range(<<>>) = {} /\ <<>> \in Seq(BoundedOp)
  BY DEF Range
<1>6. NothingOutside
  BY <1>2, <1>5 DEF NothingOutside
<1>7. waiting \in [Socket -> Request \cup {NoMessage}]
  BY <1>2
<1>8. known \in {CutShort} \cup 0 .. MaxSeq /\ told \in 0 .. MaxSeq
  BY <1>1
<1> QED BY <1>1, <1>2, <1>3, <1>4, <1>5, <1>6, <1>7, <1>8 DEF Inside

LEMMA InsideStep ==
    ASSUME Inside, [WorkerTraceNext]_workerTraceVars
    PROVE  Inside'
<1>1. /\ StreamsInside /\ loaded \in BOOLEAN /\ storage \in [Key -> Image]
      /\ ops \in Seq(BoundedOp) /\ waiting \in [Socket -> Request \cup {NoMessage}]
      /\ alarm \in {NoAlarm} \cup 0 .. Retention
      /\ known \in {CutShort} \cup 0 .. MaxSeq
      /\ lost \in BOOLEAN /\ leftover \in BOOLEAN /\ NothingOutside
      /\ told \in 0 .. MaxSeq
      /\ MaxSeq \in Nat /\ Retention \in Nat \ {0}
  BY MaxSeqAssumption, RetentionAssumption DEF Inside
<1>2. CASE TraceLoad
  <2> told' = told
    BY <1>2 DEF TraceLoad
  <2>1. CASE Load /\ lost' = FALSE /\ leftover' = FALSE /\ UNCHANGED known
    <3>1. StreamsInside'
      BY <2>1, LoadFacts
    <3>2. loaded' = TRUE /\ UNCHANGED <<storage, ops, waiting, alarm>>
      BY <2>1 DEF Load
    <3> QED BY <1>1, <2>1, <3>1, <3>2 DEF Inside, NothingOutside
  <2>2. CASE LoadFails /\ lost' = TRUE /\ known' = CutShort /\ UNCHANGED leftover
    <3>1. StreamsInside'
      BY <2>2, EmptyFacts DEF LoadFails
    <3>2. loaded' = TRUE /\ UNCHANGED <<storage, ops, waiting, alarm>>
      BY <2>2 DEF LoadFails
    <3> QED BY <1>1, <2>2, <3>1, <3>2 DEF Inside, NothingOutside
  <2> QED BY <1>2, <2>1, <2>2 DEF TraceLoad
<1>3. CASE TraceExec
  BY <1>3, ExecInside
<1>4. CASE TraceAlarm
  <2>1. UNCHANGED <<storeVars, loaded, storage, waiting, known, lost, leftover, told>>
    BY <1>4 DEF TraceAlarm, Tick, Alarm, ghostVars
  <2>2. alarm' \in {NoAlarm} \cup 0 .. Retention
    BY <1>1, <1>4 DEF TraceAlarm, Tick, Alarm, NoAlarm
  <2>3. ops' = ops \/ ops' = Append(ops, DeleteAllOp)
    BY <1>4 DEF TraceAlarm, Tick, Alarm
  <2>4. DeleteAllOp \in BoundedOp
    BY DEF BoundedOp
  <2>5. ops' \in Seq(BoundedOp) /\ Range(ops') \subseteq Range(ops) \cup {DeleteAllOp}
    <3>1. /\ Append(ops, DeleteAllOp) \in Seq(BoundedOp)
          /\ Range(Append(ops, DeleteAllOp)) = Range(ops) \cup {DeleteAllOp}
      BY <1>1, <2>4, AppendProperties, AppendKeeps
    <3> QED BY <1>1, <2>3, <3>1
  <2>6. StreamsInside' /\ (StoreInit => StoreInit')
    BY <1>1, <2>1 DEF StreamsInside, StoreTypeOK, StoreInit, storeVars
  <2> QED BY <1>1, <2>1, <2>2, <2>5, <2>6 DEF Inside, NothingOutside
<1>5. CASE TraceEvict
  <2>1. /\ loaded' = FALSE /\ ops' = <<>> /\ waiting' = [socket \in Socket |-> NoMessage]
        /\ UNCHANGED <<storage, alarm, leftover, lost>>
        /\ known' \in {known, CutShort}
        /\ subjects' = [key \in Key |-> <<>>] /\ sequence_number' = 0
        /\ told' = Max({told, sequence_number})
    BY <1>5 DEF TraceEvict, Evict
  <2>2. StreamsInside' /\ StoreInit'
    BY <2>1, EmptyFacts
  <2>3. Range(<<>>) = {} /\ <<>> \in Seq(BoundedOp)
    BY DEF Range
  <2>4. {told, sequence_number} \in SUBSET (0 .. MaxSeq) /\ {told, sequence_number} # {}
    BY <1>1 DEF StreamsInside, StoreTypeOK
  <2>5. told' \in 0 .. MaxSeq
    BY <2>1, <2>4, MaxFacts
  <2> QED BY <1>1, <2>1, <2>2, <2>3, <2>5 DEF Inside, NothingOutside
<1>6. ASSUME NEW socket \in Socket, TraceReceive(socket)
      PROVE  Inside'
  <2>1. UNCHANGED <<storeVars, loaded, storage, ops, known, lost, leftover, told>> /\ loaded
    BY <1>6 DEF TraceReceive, Receive, ReceiveRead, ghostVars
  <2>2. alarm' = Retention
    BY <1>6 DEF TraceReceive, Receive, ReceiveRead
  <2>3. waiting' \in [Socket -> Request \cup {NoMessage}]
    <3>1. CASE ReceiveRead(socket)
      BY <1>1, <3>1 DEF ReceiveRead
    <3>2. ASSUME NEW request \in Requests, Receive(socket, request)
          PROVE  waiting' \in [Socket -> Request \cup {NoMessage}]
      BY <1>1, <3>2, RequestFacts DEF Receive
    <3> QED BY <1>6, <3>1, <3>2 DEF TraceReceive
  <2>4. StreamsInside'
    BY <1>1, <2>1 DEF StreamsInside, StoreTypeOK, storeVars
  <2> QED BY <1>1, <2>1, <2>2, <2>3, <2>4 DEF Inside, NothingOutside
<1>7. ASSUME NEW socket \in Socket, TraceForward(socket)
      PROVE  Inside'
  <2>1. /\ waiting[socket] # NoMessage /\ SendMessage(waiting[socket]) /\ Applied(waiting[socket])
        /\ waiting' = [waiting EXCEPT ![socket] = NoMessage]
        /\ UNCHANGED <<loaded, storage, alarm>>
    BY <1>7 DEF TraceForward, Forward
  <2>2. waiting[socket] \in Request /\ loaded
    BY <1>1, <2>1 DEF NothingOutside
  <2>3. waiting' \in [Socket -> Request \cup {NoMessage}]
    BY <1>1, <2>1
  <2> QED BY <2>1, <2>2, <2>3, SendInside
<1>8. ASSUME NEW request \in Requests, TracePost(request)
      PROVE  Inside'
  <2>1. request \in Request
    BY RequestFacts
  <2>2. /\ loaded /\ SendMessage(request) /\ Applied(request)
        /\ UNCHANGED <<loaded, storage, waiting, alarm>>
    BY <1>8 DEF TracePost, Post
  <2> QED BY <1>1, <2>1, <2>2, SendInside
<1>9. CASE UNCHANGED workerTraceVars
  BY <1>1, <1>9 DEF workerTraceVars, workerVars, ghostVars, storeVars, Inside, NothingOutside,
                    StreamsInside, StoreTypeOK, StoreInit
<1> QED BY <1>2, <1>3, <1>4, <1>5, <1>6, <1>7, <1>8, <1>9 DEF WorkerTraceNext

\* A room that is brought up from storage keeps its types, and an object that is not
\* in memory leaves no message, entry or task behind (state.rs, dbroom.rs).
THEOREM WorkerTypeCorrect == WorkerTraceSpec => []WorkerTypeOK
<1>1. Inside => WorkerTypeOK
  <2> SUFFICES ASSUME Inside
               PROVE  WorkerTypeOK
    OBVIOUS
  <2>1. MaxSeq \in Nat /\ ClientAction(MaxSeq) \subseteq Action
    BY MaxSeqAssumption DEF ClientAction, Action
  <2>2. BoundedOp \subseteq StorageOp
    BY <2>1 DEF BoundedOp, StorageOp, BoundedEntry
  <2>3. ops \in Seq(StorageOp)
    <3>1. /\ ops \in Seq(BoundedOp) /\ Len(ops) \in Nat
          /\ \A i \in 1 .. Len(ops) : ops[i] \in StorageOp
      BY <2>2, LenProperties, ElementOfSeq DEF Inside
    <3> QED BY <3>1, SeqDef
  <2>4. ASSUME NEW key \in Key
        PROVE  DOMAIN storage[key] \subseteq Nat /\ Range(storage[key]) \subseteq Value
    <3>1. /\ storage[key] \in [DOMAIN storage[key] -> Value]
          /\ DOMAIN storage[key] \in SUBSET (0 .. MaxSeq)
      BY ImageFacts DEF Inside
    <3> QED BY <2>1, <3>1 DEF Range
  <2>5. \A socket \in Socket :
          waiting[socket] = NoMessage
              \/ waiting[socket] \in [key : Key, value : Value, action : Action]
    BY <2>1 DEF Inside, Request
  <2> QED BY <2>3, <2>4, <2>5 DEF Inside, StreamsInside, NothingOutside, WorkerTypeOK
<1> QED BY <1>1, InsideInit, InsideStep, PTL DEF WorkerTraceSpec

\* Behind input gates at most one thing is under way.
Gated ==
    /\ Len(ops) <= 1
    /\ \A socket \in Socket : waiting[socket] # NoMessage =>
          /\ ops = <<>>
          /\ \A other \in Socket \ {socket} : waiting[other] = NoMessage

\* What an operation under way is going to delete.
Deletes(op, n) ==
    \/ op.type = "list" /\ (op.action.type = "compact" => n <= op.action.seq)
    \/ op.type = "delete" /\ n \in op.numbers

\* The operations under way for a stream.
OpsOn(key) == {op \in Range(ops) : op.type # "delete_all" /\ op.key = key}

\* They spare what the stream retains, and end by putting an entry of it.
Spares(stream, under_way) ==
    \A op \in under_way :
        /\ op.entry \in Range(stream)
        /\ \A entry \in Range(stream) : entry # op.entry => ~Deletes(op, entry.seq)

\* Every entry of the stream is stored, or is going to be.
KeepsAll(stream, map, under_way) ==
    \A entry \in Range(stream) : Held(map, entry) \/ \E op \in under_way : op.entry = entry

\* Whatever else is stored is going to be deleted.
KeepsOnly(stream, map, under_way) ==
    \A n \in DOMAIN map : n \in Numbers(stream) \/ \E op \in under_way : Deletes(op, n)

\* No number is below those that are handed out.
Positive ==
    /\ \A key \in Key : 0 \notin DOMAIN storage[key]
    /\ \A op \in Range(ops) : op.type # "delete_all" => op.entry.seq # 0

\* While the object is in memory, storage follows it.
Mirrored(key) ==
    /\ Spares(subjects[key], OpsOn(key))
    /\ loaded /\ ~lost => KeepsAll(subjects[key], storage[key], OpsOn(key))
    /\ loaded /\ ~lost /\ ~leftover => KeepsOnly(subjects[key], storage[key], OpsOn(key))

\* What is left of a stream while the object is out of memory.
Remembered(key) ==
    /\ before[key] \in Seq(SequenceValue) /\ Increasing(before[key])
    /\ ~loaded /\ ~lost =>
          /\ \A entry \in Range(before[key]) : entry.seq \notin pending[key] => Held(storage[key], entry)
          /\ ~leftover /\ pending[key] = {} => DOMAIN storage[key] \subseteq Numbers(before[key])

\* A number that clients know is carried by an entry, in memory or in storage.
Recalled ==
    Intact =>
        /\ loaded => /\ ~lost /\ known <= sequence_number
                     /\ known # 0 => \E key \in Key : \E entry \in Range(subjects[key]) : entry.seq >= known
        /\ ~loaded /\ known # 0 => \E key \in Key : \E n \in DOMAIN storage[key] : n >= known

WorkerInv ==
    /\ Gated
    /\ Positive
    /\ ~lost => StreamsSorted
    /\ \A key \in Key : Mirrored(key) /\ Remembered(key)
    /\ Recalled

\* Nothing is under way for a stream, or one operation is.
LEMMA OneOp ==
    ASSUME Inside, Gated, ops # <<>>
    PROVE  /\ Head(ops) \in BoundedOp /\ Range(ops) = {Head(ops)} /\ Tail(ops) = <<>>
           /\ \A socket \in Socket : waiting[socket] = NoMessage
           /\ \A key \in Key :
                 OpsOn(key) = IF Head(ops).type # "delete_all" /\ Head(ops).key = key
                              THEN {Head(ops)} ELSE {}
<1>1. ops \in Seq(BoundedOp) /\ Len(ops) <= 1 /\ \A socket \in Socket : waiting[socket] = NoMessage
  BY DEF Inside, Gated
<1>2. /\ Head(ops) \in BoundedOp /\ Tail(ops) \in Seq(BoundedOp)
      /\ Len(ops) \in Nat \ {0} /\ Len(Tail(ops)) = Len(ops) - 1
      /\ Range(ops) = {Head(ops)} \cup Range(Tail(ops))
  BY <1>1, QueueFacts
<1>3. Tail(ops) = <<>>
  BY <1>1, <1>2, EmptySeq
<1>4. Range(ops) = {Head(ops)}
  BY <1>2, <1>3 DEF Range
<1> QED BY <1>1, <1>2, <1>3, <1>4 DEF OpsOn

LEMMA NoOp ==
    /\ ops = <<>> => Range(ops) = {} /\ \A key \in Key : OpsOn(key) = {}
    /\ ops' = <<>> => Range(ops') = {} /\ Len(ops') = 0 /\ \A key \in Key : OpsOn(key)' = {}
<1>1. Range(<<>>) = {} /\ Len(<<>>) = 0
  BY DEF Range
<1> QED BY <1>1 DEF OpsOn

LEMMA NextOp ==
    ASSUME NEW op, ops' = <<op>>
    PROVE  /\ Range(ops') = {op} /\ Len(ops') = 1
           /\ \A key \in Key :
                 OpsOn(key)' = IF op.type # "delete_all" /\ op.key = key THEN {op} ELSE {}
<1>1. Range(<<op>>) = {op} /\ Len(<<op>>) = 1
  BY DEF Range
<1> QED BY <1>1 DEF OpsOn

\* Behind input gates, and with a queue that is empty, the next operation is alone.
LEMMA Alone ==
    ASSUME NEW op
    PROVE  <<>> \o <<op>> = <<op>> /\ Append(<<>>, op) = <<op>>
OBVIOUS

-----------------------------------------------------------------------------
(***************************************************************************)
(* The steps, seen from one stream.                                        *)
(***************************************************************************)

\* An apply starts the task that brings the stream's storage up to date.
LEMMA SendMirrors ==
    ASSUME NEW key, NEW n \in Nat, NEW action \in ClientAction(n), NEW entry,
           NEW log \in Seq(SequenceValue), NEW stream, NEW map \in Image,
           Range(stream) = RangeAfter(log, entry, action),
           NEW under_way, under_way = Range(FirstOps(key, action, entry))
    PROVE  /\ Spares(stream, under_way)
           /\ KeepsAll(log, map, {}) => KeepsAll(stream, map, under_way)
           /\ KeepsOnly(log, map, {}) => KeepsOnly(stream, map, under_way)
<1>1. /\ action.type \in {"relay", "append", "replace", "compact"}
      /\ action.type = "compact" => action.seq \in Nat
      /\ DOMAIN map \subseteq Nat
      /\ \A e \in Range(log) : e.seq \in Nat
  <2>1. DOMAIN map \subseteq Nat
    BY ImageFacts
  <2>2. Range(log) \subseteq SequenceValue
    BY LenProperties, ElementOfSeq DEF Range
  <2> QED BY <2>1, <2>2, ClientActionType DEF SequenceValue
<1>2. /\ action.type = "relay" => under_way = {}
      /\ action.type = "append" => under_way = {PutOp(key, entry)}
      /\ action.type \in {"replace", "compact"} => under_way = {ListOp(key, action, entry)}
  BY <1>1 DEF FirstOps, Range
<1>3. /\ action.type = "relay" => Range(stream) = Range(log)
      /\ action.type = "append" => Range(stream) = Range(log) \cup {entry}
      /\ action.type = "replace" => Range(stream) = {entry}
      /\ action.type = "compact" =>
            Range(stream) = {e \in Range(log) : e.seq > action.seq} \cup {entry}
  BY <1>1 DEF RangeAfter
<1>4. /\ PutOp(key, entry).entry = entry /\ \A m : ~Deletes(PutOp(key, entry), m)
      /\ ListOp(key, action, entry).entry = entry
      /\ \A m : Deletes(ListOp(key, action, entry), m) <=> (action.type = "compact" => m <= action.seq)
  BY DEF PutOp, ListOp, Deletes
<1>5. Spares(stream, under_way)
  BY <1>1, <1>2, <1>3, <1>4 DEF Spares
<1>6. ASSUME KeepsAll(log, map, {})
      PROVE  KeepsAll(stream, map, under_way)
  BY <1>1, <1>2, <1>3, <1>4, <1>6 DEF KeepsAll
<1>7. ASSUME KeepsOnly(log, map, {})
      PROVE  KeepsOnly(stream, map, under_way)
  <2> SUFFICES ASSUME NEW m \in DOMAIN map
               PROVE  m \in Numbers(stream) \/ \E op \in under_way : Deletes(op, m)
    BY DEF KeepsOnly
  <2>1. PICK e \in Range(log) : e.seq = m
    BY <1>7 DEF KeepsOnly, Numbers
  <2>2. e \in Range(stream) => m \in Numbers(stream)
    BY <2>1 DEF Numbers
  <2>3. m \in Nat /\ (action.type = "compact" => m <= action.seq \/ m > action.seq)
    BY <1>1
  <2>4. CASE action.type \in {"relay", "append"}
    BY <1>3, <2>1, <2>2, <2>4
  <2>5. CASE action.type = "replace"
    BY <1>2, <1>4, <2>5
  <2>6. CASE action.type = "compact"
    BY <1>2, <1>3, <1>4, <2>1, <2>2, <2>3, <2>6
  <2> QED BY <1>1, <2>4, <2>5, <2>6
<1> QED BY <1>5, <1>6, <1>7

\* What a list finds in a stream.
Found(map, action) == {n \in DOMAIN map : action.type = "compact" => n <= action.seq}

\* A list hands on what it found.
LEMMA ListMirrors ==
    ASSUME NEW stream, NEW map, NEW op, op.type = "list"
    PROVE  LET next == DeleteOp(op.key, Found(map, op.action), op.entry)
           IN  /\ Spares(stream, {op}) => Spares(stream, {next})
               /\ KeepsAll(stream, map, {op}) => KeepsAll(stream, map, {next})
               /\ KeepsOnly(stream, map, {op}) => KeepsOnly(stream, map, {next})
<1> DEFINE next == DeleteOp(op.key, Found(map, op.action), op.entry)
<1>1. next.entry = op.entry /\ \A n \in DOMAIN map : Deletes(next, n) <=> Deletes(op, n)
  BY DEF DeleteOp, Deletes, Found
<1>2. \A n : Deletes(next, n) => Deletes(op, n)
  BY DEF DeleteOp, Deletes, Found
<1> HIDE DEF next
<1>3. /\ Spares(stream, {op}) => Spares(stream, {next})
      /\ KeepsAll(stream, map, {op}) => KeepsAll(stream, map, {next})
      /\ KeepsOnly(stream, map, {op}) => KeepsOnly(stream, map, {next})
  BY <1>1, <1>2 DEF Spares, KeepsAll, KeepsOnly
<1> QED BY <1>3 DEF next

\* A list that fails leaves what was to be deleted.
LEMMA SkipMirrors ==
    ASSUME NEW stream, NEW map, NEW op, NEW next, next = PutOp(op.key, op.entry)
    PROVE  /\ Spares(stream, {op}) => Spares(stream, {next})
           /\ KeepsAll(stream, map, {op}) => KeepsAll(stream, map, {next})
<1>1. next.entry = op.entry /\ \A n : ~Deletes(next, n)
  BY DEF PutOp, Deletes
<1> QED BY <1>1 DEF Spares, KeepsAll

\* A deletion deletes what it was to delete, and nothing that the stream retains.
LEMMA DeleteMirrors ==
    ASSUME NEW stream, NEW map \in Image, NEW op, op.type = "delete", Spares(stream, {op})
    PROVE  LET left == WithoutNumbers(map, op.numbers)
               next == PutOp(op.key, op.entry)
           IN  /\ Spares(stream, {next})
               /\ KeepsAll(stream, map, {op}) => KeepsAll(stream, left, {next})
               /\ KeepsOnly(stream, map, {op}) => KeepsOnly(stream, left, {next})
<1> DEFINE left == WithoutNumbers(map, op.numbers)
           next == PutOp(op.key, op.entry)
<1>1. next.entry = op.entry /\ \A n : ~Deletes(next, n)
  BY DEF PutOp, Deletes
<1>2. \A n : Deletes(op, n) <=> n \in op.numbers
  BY DEF Deletes
<1>3. /\ DOMAIN left = DOMAIN map \ op.numbers
      /\ \A e : Held(map, e) /\ e.seq \notin op.numbers => Held(left, e)
  BY WithoutNumbersFacts
<1> HIDE DEF left, next
<1>4. /\ Spares(stream, {next})
      /\ KeepsAll(stream, map, {op}) => KeepsAll(stream, left, {next})
      /\ KeepsOnly(stream, map, {op}) => KeepsOnly(stream, left, {next})
  BY <1>1, <1>2, <1>3 DEF Spares, KeepsAll, KeepsOnly
<1> QED BY <1>4 DEF left, next

\* A put completes the task.
LEMMA PutMirrors ==
    ASSUME NEW n, NEW stream \in Seq(SequenceValue), Sorted(stream, n), NEW map \in Image,
           NEW op, op.type = "put", op.entry \in SequenceValue, op.entry.seq <= MaxSeq,
           NEW new, new = WithEntry(map, op.entry),
           Spares(stream, {op})
    PROVE  /\ KeepsAll(stream, map, {op}) => KeepsAll(stream, new, {})
           /\ KeepsOnly(stream, map, {op}) => KeepsOnly(stream, new, {})
<1>1. op.entry \in Range(stream)
  BY DEF Spares
<1>2. /\ DOMAIN new = DOMAIN map \cup {op.entry.seq} /\ Held(new, op.entry)
      /\ \A e : Held(map, e) /\ e.seq # op.entry.seq => Held(new, e)
  BY WithEntryFacts
<1>3. \A e \in Range(stream) : e.seq = op.entry.seq => e = op.entry
  BY <1>1, NumberDeterminesEntry
<1>4. op.entry.seq \in Numbers(stream)
  BY <1>1 DEF Numbers
<1>5. \A m : ~Deletes(op, m)
  BY DEF Deletes
<1> QED BY <1>2, <1>3, <1>4, <1>5 DEF KeepsAll, KeepsOnly

-----------------------------------------------------------------------------
(***************************************************************************)
(* The steps, seen from the room.                                          *)
(***************************************************************************)

\* Steps that leave the streams, their storage and the tasks alone.
LEMMA QuietWorker ==
    ASSUME WorkerInv, UNCHANGED <<storeVars, loaded, storage, ghostVars>>,
           Range(ops') \subseteq Range(ops) \cup {DeleteAllOp},
           \A key \in Key : OpsOn(key)' = OpsOn(key),
           Gated'
    PROVE  WorkerInv'
<1>1. ~lost' => StreamsSorted'
  BY DEF WorkerInv, StreamsSorted, storeVars, ghostVars
<1>2. Positive'
  BY DEF WorkerInv, Positive, DeleteAllOp
<1>3. \A key \in Key : Mirrored(key)' /\ Remembered(key)'
  BY DEF WorkerInv, Mirrored, Remembered, storeVars, ghostVars
<1>4. Recalled'
  BY DEF WorkerInv, Recalled, Intact, storeVars, ghostVars
<1> QED BY <1>1, <1>2, <1>3, <1>4 DEF WorkerInv

LEMMA ReceiveStep ==
    ASSUME InputGates, Inside, WorkerInv, NEW socket \in Socket, TraceReceive(socket)
    PROVE  WorkerInv'
<1>1. /\ loaded /\ Idle /\ UNCHANGED <<storeVars, loaded, storage, ops, ghostVars>>
  BY DEF TraceReceive, Receive, ReceiveRead, GateOpen
<1>2. ops = <<>> /\ ops' = <<>> /\ (\A other \in Socket : waiting[other] = NoMessage)
  BY <1>1 DEF Idle
<1>3. Range(ops') \subseteq Range(ops) \cup {DeleteAllOp} /\ (\A key \in Key : OpsOn(key)' = OpsOn(key))
      /\ Len(ops') = 0
  BY <1>2, NoOp
<1>4. waiting \in [Socket -> Request \cup {NoMessage}]
  BY DEF Inside
<1>5. \A other \in Socket : waiting'[other] # NoMessage => other = socket
  BY <1>2, <1>4 DEF TraceReceive, Receive, ReceiveRead
<1>6. Gated'
  BY <1>2, <1>3, <1>5 DEF Gated
<1> QED BY <1>1, <1>3, <1>6, QuietWorker

LEMMA AlarmStep ==
    ASSUME InputGates, Inside, WorkerInv, TraceAlarm
    PROVE  WorkerInv'
<1>1. UNCHANGED <<storeVars, loaded, storage, waiting, ghostVars>>
  BY DEF TraceAlarm, Tick, Alarm
<1>3. CASE Tick
  <2>1. ops' = ops
    BY <1>3 DEF Tick
  <2>2. Gated'
    BY <1>1, <2>1 DEF WorkerInv, Gated
  <2> QED BY <1>1, <2>1, <2>2, QuietWorker DEF OpsOn
<1>4. CASE Alarm
  <2>1. /\ ops = <<>> /\ (\A socket \in Socket : waiting[socket] = NoMessage)
        /\ ops' = Append(ops, DeleteAllOp)
    BY <1>4 DEF Alarm, GateOpen, Idle
  <2>2. ops' = <<DeleteAllOp>> /\ DeleteAllOp.type = "delete_all"
    BY <2>1, Alone DEF DeleteAllOp
  <2>3. /\ Range(ops') = {DeleteAllOp} /\ Len(ops') = 1
        /\ \A key \in Key : OpsOn(key)' = {}
    BY <2>2, NextOp
  <2>4. \A key \in Key : OpsOn(key) = {}
    BY <2>1, NoOp
  <2>5. Gated'
    BY <1>1, <2>1, <2>3 DEF Gated
  <2> QED BY <1>1, <2>3, <2>4, <2>5, QuietWorker
<1> QED BY <1>3, <1>4 DEF TraceAlarm

\* A request is applied when nothing is under way.
LEMMA SendStep ==
    ASSUME ~RawCompaction, Inside, WorkerInv, loaded, ops = <<>>,
           NEW request \in Request,
           SendMessage(request), Applied(request), UNCHANGED <<loaded, storage>>,
           \A socket \in Socket : waiting'[socket] = NoMessage
    PROVE  WorkerInv'
<1> DEFINE key    == request.key
           action == request.action
           entry  == [value |-> request.value, seq |-> Stamp(action)]
           first  == FirstOps(key, action, entry)
<1>1. /\ MaxSeq \in Nat /\ sequence_number \in Nat /\ sequence_number <= MaxSeq
      /\ StoreTypeOK /\ storage \in [Key -> Image]
  BY MaxSeqAssumption DEF Inside, StreamsInside, StoreTypeOK
<1>2. /\ key \in Key /\ request.value \in Value /\ action \in ClientAction(MaxSeq)
      /\ action.type \in {"relay", "append", "replace", "compact"}
      /\ action.type = "compact" => action.seq \in Nat \ {0}
      /\ ~Ahead(action) => action \in ClientAction(sequence_number)
  BY <1>1 DEF Request, ClientAction, Ahead
<1>3. request \in Request
  OBVIOUS
<1>4. /\ sequence_number' = SequenceAfter(action, sequence_number)
      /\ sequence_number' \in Nat /\ sequence_number <= sequence_number'
      /\ Range(subjects'[key]) = RangeAfter(subjects[key], entry, action)
      /\ \A k \in Key \ {key} : subjects'[k] = subjects[k]
      /\ ops' = ops \o first /\ first \in Seq(BoundedOp)
  BY <1>3, SendFacts
<1>5. /\ entry.seq \in Nat \ {0}
      /\ ~Ahead(action) => entry.seq <= sequence_number'
      /\ action.type \in {"append", "replace"} => entry.seq = sequence_number + 1
      /\ action.type = "compact" => entry.seq = action.seq /\ sequence_number' = sequence_number
  BY <1>1, <1>2, <1>4 DEF SequenceAfter, Stamp, StampOf, Ahead
<1>6. ~lost /\ ~Ahead(action) => StreamsSorted'
  <2> SUFFICES ASSUME ~lost, ~Ahead(action)
               PROVE  StreamsSorted'
    OBVIOUS
  <2>1. StoreNext
    <3>1. ApplyAction(key, request.value, action)
      BY DEF SendMessage
    <3> QED BY <1>2, <3>1 DEF StoreNext
  <2> QED BY <1>1, <2>1, SortedStep DEF WorkerInv
<1>7. ops' = first
  BY <1>4, ConcatEmptySeq
<1> HIDE DEF entry, action, key, first
<1>8. first = <<>> \/ \E op : first = <<op>> /\ op.type # "delete_all" /\ op.key = key /\ op.entry = entry
  BY <1>2 DEF first, FirstOps, ListOp, PutOp
<1>9. /\ Len(ops') <= 1
      /\ \A op \in Range(ops') : op.type # "delete_all" /\ op.entry = entry
      /\ OpsOn(key)' = Range(first) /\ \A k \in Key \ {key} : OpsOn(k)' = {}
  <2>1. CASE first = <<>>
    BY <1>2, <1>7, <2>1, NoOp DEF Range
  <2>2. ASSUME NEW op, first = <<op>>, op.type # "delete_all", op.key = key, op.entry = entry
        PROVE  /\ Len(ops') <= 1
               /\ \A o \in Range(ops') : o.type # "delete_all" /\ o.entry = entry
               /\ OpsOn(key)' = Range(first) /\ \A k \in Key \ {key} : OpsOn(k)' = {}
    <3>1. ops' = <<op>>
      BY <1>7, <2>2
    <3>2. /\ Range(ops') = {op} /\ Len(ops') = 1
          /\ \A k \in Key : OpsOn(k)' = IF op.type # "delete_all" /\ op.key = k THEN {op} ELSE {}
      BY <3>1, NextOp
    <3>3. Range(first) = {op}
      BY <1>7, <3>1, <3>2
    <3>4. OpsOn(key)' = {op}
      BY <1>2, <2>2, <3>2
    <3>5. \A k \in Key \ {key} : OpsOn(k)' = {}
      BY <2>2, <3>2
    <3>6. \A o \in Range(ops') : o.type # "delete_all" /\ o.entry = entry
      BY <2>2, <3>2
    <3> QED BY <3>2, <3>3, <3>4, <3>5, <3>6
  <2> QED BY <1>8, <2>1, <2>2
<1>10. \A k \in Key : OpsOn(k) = {}
  BY NoOp
<1>11. Gated'
  BY <1>9 DEF Gated
<1>12. Positive'
  BY <1>5, <1>9 DEF WorkerInv, Positive
<1>13. /\ UNCHANGED <<before, pending, leftover>>
       /\ Ahead(action) => lost' /\ ~Intact'
       /\ ~Ahead(action) => lost' = lost
  BY <1>3, AppliedFacts DEF Applied, action
<1>14. ASSUME NEW k \in Key
       PROVE  Mirrored(k)'
  <2>1. Mirrored(k) /\ OpsOn(k) = {}
    BY <1>10 DEF WorkerInv
  <2>2. CASE k # key
    <3>1. subjects'[k] = subjects[k] /\ OpsOn(k)' = {}
      BY <1>4, <1>9, <2>2
    <3> QED BY <1>13, <2>1, <3>1 DEF Mirrored
  <2>3. CASE k = key
    <3> DEFINE log == subjects[key]
               stream == subjects'[key]
               map == storage[key]
               under_way == Range(first)
    <3>1. map \in Image /\ log \in Seq(SequenceValue)
      BY <1>1, <1>2 DEF StoreTypeOK
    <3>2. Range(stream) = RangeAfter(log, entry, action)
      BY <1>4
    <3>3. under_way = Range(FirstOps(key, action, entry))
      BY DEF first
    <3>4. MaxSeq \in Nat /\ action \in ClientAction(MaxSeq)
      BY <1>1, <1>2
    <3> HIDE DEF log, stream, map, under_way
    <3>5. /\ Spares(stream, under_way)
          /\ KeepsAll(log, map, {}) => KeepsAll(stream, map, under_way)
          /\ KeepsOnly(log, map, {}) => KeepsOnly(stream, map, under_way)
      BY <3>1, <3>2, <3>3, <3>4, SendMirrors
    <3> QED BY <1>9, <1>13, <2>1, <2>3, <3>5 DEF Mirrored, log, stream, map, under_way
  <2> QED BY <2>2, <2>3
<1>15. \A k \in Key : Remembered(k)'
  BY <1>13 DEF WorkerInv, Remembered
<1>16. Recalled'
  <2> SUFFICES ASSUME Intact'
               PROVE  /\ ~lost' /\ known' <= sequence_number'
                      /\ known' # 0 => \E k \in Key : \E e \in Range(subjects'[k]) : e.seq >= known'
    BY DEF Recalled
  <2> ~Ahead(action) /\ lost' = lost
    BY <1>13
  <2>1. /\ known \in {CutShort} \cup 0 .. MaxSeq
        /\ Intact' <=> Intact
        /\ ~Mutates(action) => known' = known
        /\ Intact /\ Mutates(action) =>
              /\ known <= known' /\ entry.seq <= known'
              /\ known' \in {known, entry.seq}
    BY <1>3, AppliedFacts DEF action, entry, Inside
  <2>2. /\ ~lost /\ known <= sequence_number /\ known \in Nat
        /\ known # 0 => \E k \in Key : \E e \in Range(subjects[k]) : e.seq >= known
    BY <1>1, <2>1 DEF WorkerInv, Recalled, Intact
  <2>3. \A k \in Key : \A e \in Range(subjects[k]) : e.seq \in Nat
    BY <2>2 DEF WorkerInv, StreamsSorted, Sorted
  <2>4. CASE ~Mutates(action)
    <3>1. action.type = "relay" /\ known' = known
      BY <2>1, <2>4 DEF Mutates
    <3>2. \A k \in Key : Range(subjects'[k]) = Range(subjects[k])
      BY <1>4, <3>1 DEF RangeAfter
    <3> QED BY <1>1, <1>4, <1>13, <2>2, <3>1, <3>2
  <2>5. CASE Mutates(action)
    <3>1. action.type \in {"append", "replace", "compact"}
      BY <1>2, <2>5 DEF Mutates
    <3>2. /\ known <= known' /\ entry.seq <= known' /\ known' \in {known, entry.seq}
      BY <2>1, <2>5
    <3>3. known' <= sequence_number' /\ entry.seq \in Nat
      BY <1>1, <1>4, <1>5, <2>2, <3>2
    <3>4. entry \in Range(subjects'[key])
      BY <1>4, <3>1 DEF RangeAfter
    <3>5. CASE known' = entry.seq
      BY <1>2, <1>13, <2>2, <3>3, <3>4, <3>5
    <3>6. CASE known' # entry.seq
      <4>1. known' = known /\ entry.seq < known /\ known # 0
        BY <2>2, <3>2, <3>3, <3>6
      <4>2. action.type = "compact" /\ entry.seq = action.seq
        BY <1>1, <1>5, <2>2, <3>1, <4>1
      <4>3. PICK k \in Key : \E e \in Range(subjects[k]) : e.seq >= known
        BY <2>2, <4>1
      <4>4. PICK e \in Range(subjects[k]) : e.seq >= known
        BY <4>3
      <4>5. e.seq > action.seq
        BY <2>2, <2>3, <3>3, <4>1, <4>2, <4>4
      <4>6. e \in Range(subjects'[k])
        BY <1>4, <4>2, <4>5 DEF RangeAfter
      <4> QED BY <1>13, <2>2, <3>3, <4>1, <4>4, <4>6
    <3> QED BY <3>5, <3>6
  <2> QED BY <2>4, <2>5
<1> QED BY <1>6, <1>11, <1>12, <1>13, <1>14, <1>15, <1>16 DEF WorkerInv

\* What takes the place of the operation that is carried out, if anything does.
FollowsUp(op, next) == next.type # "delete_all" /\ next.key = op.key /\ next.entry = op.entry

\* The operations under way for a stream after the step.
OpsAfter(key) == {op \in Range(ops') : op.type # "delete_all" /\ op.key = key}

NextIsFollowUp == ops' = <<>> \/ \E next : ops' = <<next>> /\ FollowsUp(Head(ops), next)

OthersStay == \A key \in Key \ {Head(ops).key} : storage'[key] = storage[key]

\* An operation on one stream is carried out.
LEMMA ExecFrame ==
    ASSUME Inside, WorkerInv, loaded, ops # <<>>, Head(ops).type # "delete_all",
           UNCHANGED <<storeVars, loaded, waiting, before, pending, lost>>,
           NextIsFollowUp, OthersStay,
           0 \notin DOMAIN storage'[Head(ops).key],
           leftover' = leftover \/ leftover',
           known' = known \/ known' = CutShort,
           Spares(subjects[Head(ops).key], OpsAfter(Head(ops).key)),
           ~lost => KeepsAll(subjects[Head(ops).key], storage'[Head(ops).key], OpsAfter(Head(ops).key)),
           ~lost /\ ~leftover' =>
               KeepsOnly(subjects[Head(ops).key], storage'[Head(ops).key], OpsAfter(Head(ops).key))
    PROVE  WorkerInv'
<1> DEFINE op == Head(ops)
           stream == subjects[op.key]
           under_way == OpsAfter(op.key)
<1>1. /\ Spares(stream, under_way)
      /\ ~lost => KeepsAll(stream, storage'[op.key], under_way)
      /\ ~lost /\ ~leftover' => KeepsOnly(stream, storage'[op.key], under_way)
      /\ 0 \notin DOMAIN storage'[op.key] /\ op.type # "delete_all"
  OBVIOUS
<1>2. /\ \A key \in Key \ {op.key} : storage'[key] = storage[key]
      /\ \/ ops' = <<>>
         \/ \E next : /\ ops' = <<next>> /\ next.type # "delete_all"
                      /\ next.key = op.key /\ next.entry = op.entry
  BY DEF NextIsFollowUp, OthersStay, FollowsUp
<1>3. /\ op \in BoundedOp /\ Range(ops) = {op} /\ \A socket \in Socket : waiting[socket] = NoMessage
      /\ \A key \in Key : OpsOn(key) = IF op.type # "delete_all" /\ op.key = key THEN {op} ELSE {}
  BY OneOp DEF WorkerInv
<1> HIDE DEF op
<1>4. op.key \in Key /\ op.entry.seq # 0
  BY <1>1, <1>3, OpFacts DEF WorkerInv, Positive
<1>5. /\ Len(ops') <= 1
      /\ \A o \in Range(ops') : o.entry = op.entry
      /\ \A key \in Key \ {op.key} : OpsOn(key)' = {}
  <2>1. CASE ops' = <<>>
    BY <2>1, NoOp
  <2>2. ASSUME NEW next, ops' = <<next>>, next.type # "delete_all", next.key = op.key, next.entry = op.entry
        PROVE  /\ Len(ops') <= 1
               /\ \A o \in Range(ops') : o.entry = op.entry
               /\ \A key \in Key \ {op.key} : OpsOn(key)' = {}
    <3>1. /\ Range(ops') = {next} /\ Len(ops') = 1
          /\ \A key \in Key : OpsOn(key)' = IF next.type # "delete_all" /\ next.key = key THEN {next} ELSE {}
      BY <2>2, NextOp
    <3>2. \A key \in Key \ {op.key} : OpsOn(key)' = {}
      BY <2>2, <3>1
    <3> QED BY <2>2, <3>1, <3>2
  <2> QED BY <1>2, <2>1, <2>2
<1>6. Gated'
  BY <1>3, <1>5 DEF Gated
<1>7. Positive'
  BY <1>1, <1>2, <1>4, <1>5 DEF WorkerInv, Positive
<1>8. ~lost' => StreamsSorted'
  BY DEF WorkerInv, StreamsSorted, storeVars
<1>9. ASSUME NEW key \in Key
      PROVE  Mirrored(key)' /\ Remembered(key)'
  <2>1. Remembered(key)'
    BY DEF WorkerInv, Remembered
  <2>2. CASE key = op.key
    <3>1. subjects'[key] = stream /\ OpsOn(key)' = under_way /\ storage'[key] = storage'[op.key]
      BY <2>2 DEF storeVars, OpsOn, OpsAfter
    <3> QED BY <1>1, <2>1, <2>2, <3>1 DEF Mirrored
  <2>3. CASE key # op.key
    <3>1. /\ subjects'[key] = subjects[key] /\ storage'[key] = storage[key]
          /\ OpsOn(key) = {} /\ OpsOn(key)' = {}
      BY <1>2, <1>3, <1>5, <2>3 DEF storeVars
    <3>2. Mirrored(key)
      BY DEF WorkerInv
    <3> QED BY <2>1, <3>1, <3>2 DEF Mirrored
  <2> QED BY <2>2, <2>3
<1>10. Recalled'
  BY DEF WorkerInv, Recalled, Intact, storeVars, CutShort
<1> QED BY <1>6, <1>7, <1>8, <1>9, <1>10 DEF WorkerInv

\* The operation that is next, when it is one on a stream.
LEMMA HeadFacts ==
    ASSUME Inside, WorkerInv, ops # <<>>, Head(ops).type # "delete_all"
    PROVE  LET op     == Head(ops)
               stream == subjects[op.key]
               map    == storage[op.key]
           IN  /\ op.key \in Key /\ op.entry \in SequenceValue /\ op.entry.seq <= MaxSeq
               /\ op.entry.seq # 0 /\ loaded /\ Tail(ops) = <<>>
               /\ map \in Image /\ 0 \notin DOMAIN map
               /\ stream \in Seq(SequenceValue) /\ (~lost => Sorted(stream, sequence_number))
               /\ Spares(stream, {op})
               /\ ~lost => KeepsAll(stream, map, {op})
               /\ ~lost /\ ~leftover => KeepsOnly(stream, map, {op})
<1> DEFINE op == Head(ops)
           stream == subjects[op.key]
           map == storage[op.key]
<1>1. /\ op \in BoundedOp /\ Range(ops) = {op} /\ Tail(ops) = <<>>
      /\ \A key \in Key : OpsOn(key) = IF op.type # "delete_all" /\ op.key = key THEN {op} ELSE {}
  BY OneOp DEF WorkerInv
<1>2. op.type # "delete_all"
  OBVIOUS
<1> HIDE DEF op
<1>3. /\ op.key \in Key /\ op.entry \in SequenceValue /\ op.entry.seq <= MaxSeq
      /\ op.entry.seq # 0
  BY <1>1, <1>2, OpFacts, MaxSeqAssumption DEF WorkerInv, Positive
<1>4. loaded
  BY <1>1, <1>2 DEF Inside, NothingOutside, DeleteAllOp
<1>5. map \in Image /\ 0 \notin DOMAIN map
  BY <1>3 DEF WorkerInv, Positive, Inside
<1>6. stream \in Seq(SequenceValue) /\ (~lost => Sorted(stream, sequence_number))
  BY <1>3 DEF Inside, StreamsInside, StoreTypeOK, WorkerInv, StreamsSorted
<1>7. OpsOn(op.key) = {op} /\ Mirrored(op.key)
  BY <1>1, <1>2, <1>3 DEF WorkerInv
<1>8. /\ Spares(stream, {op})
      /\ ~lost => KeepsAll(stream, map, {op})
      /\ ~lost /\ ~leftover => KeepsOnly(stream, map, {op})
  BY <1>4, <1>7 DEF Mirrored
<1> QED BY <1>1, <1>3, <1>4, <1>5, <1>6, <1>8 DEF op

\* What takes its place is then alone in the queue.
LEMMA FollowUpFacts ==
    ASSUME NEW next, ops' = <<next>>, FollowsUp(Head(ops), next), Head(ops).key \in Key
    PROVE  OpsAfter(Head(ops).key) = {next} /\ NextIsFollowUp
<1> DEFINE op == Head(ops)
<1>1. next.type # "delete_all" /\ next.key = op.key
  BY DEF FollowsUp
<1>2. Range(ops') = {next}
  BY NextOp
<1>3. NextIsFollowUp
  BY DEF NextIsFollowUp
<1> HIDE DEF op
<1>4. OpsAfter(op.key) = {next}
  BY <1>1, <1>2 DEF OpsAfter
<1> QED BY <1>3, <1>4 DEF op

LEMMA ListStep ==
    ASSUME Inside, WorkerInv, ExecList, UNCHANGED <<before, pending, lost>>,
           leftover' = (leftover \/ Skipped), known' = IF Skipped THEN CutShort ELSE known
    PROVE  WorkerInv'
<1> DEFINE op == Head(ops)
           stream == subjects[op.key]
           map == storage[op.key]
<1>1. /\ ops # <<>> /\ op.type = "list" /\ op.type # "delete_all"
      /\ UNCHANGED <<storeVars, loaded, storage, waiting>>
  BY DEF ExecList
<1>2. /\ op.key \in Key /\ loaded /\ Tail(ops) = <<>> /\ 0 \notin DOMAIN map
      /\ Spares(stream, {op})
      /\ ~lost => KeepsAll(stream, map, {op})
      /\ ~lost /\ ~leftover => KeepsOnly(stream, map, {op})
  BY <1>1, HeadFacts
<1>3. storage'[op.key] = map /\ OthersStay
  BY <1>1 DEF OthersStay
<1> DEFINE numbers == Listed(op.key, op.action)
           deletion == DeleteOp(op.key, numbers, op.entry)
           put == PutOp(op.key, op.entry)
<1>4. \/ ops' = Tail(ops) \o <<deletion>>
      \/ ops' = Append(Tail(ops), put)
  BY DEF ExecList, AfterList
<1>5. ops' = <<deletion>> \/ ops' = <<put>>
  BY <1>2, <1>4, Alone
<1>6. /\ FollowsUp(op, deletion) /\ deletion.type = "delete"
      /\ FollowsUp(op, put) /\ put.type = "put"
  BY DEF DeleteOp, PutOp, FollowsUp
<1>7. numbers = Found(map, op.action)
  BY DEF Listed, Found
<1> HIDE DEF numbers
<1>8. deletion = DeleteOp(op.key, numbers, op.entry) /\ put = PutOp(op.key, op.entry)
  OBVIOUS
<1>9. \A next : Last(<<next>>) = next /\ <<next>> # <<>>
  BY DEF Last
<1> HIDE DEF deletion, put
<1>10. CASE ops' = <<deletion>>
  <2>1. ~Skipped
    BY <1>6, <1>9, <1>10 DEF Skipped
  <2>2. leftover' = leftover /\ known' = known
    BY <2>1 DEF Inside
  <2>3. OpsAfter(op.key) = {deletion} /\ NextIsFollowUp
    BY <1>2, <1>6, <1>10, FollowUpFacts
  <2> HIDE DEF op, stream, map
  <2>4. /\ Spares(stream, {deletion})
        /\ ~lost => KeepsAll(stream, map, {deletion})
        /\ ~lost /\ ~leftover => KeepsOnly(stream, map, {deletion})
    <3>1. op.type = "list" /\ deletion = DeleteOp(op.key, Found(map, op.action), op.entry)
      BY <1>1, <1>7, <1>8
    <3> QED BY <1>2, <3>1, ListMirrors
  <2> QED BY <1>1, <1>2, <1>3, <2>2, <2>3, <2>4, ExecFrame DEF op, stream
<1>11. CASE ops' = <<put>>
  <2>1. Skipped
    BY <1>6, <1>9, <1>11 DEF Skipped
  <2>2. leftover' /\ known' = CutShort
    BY <2>1
  <2>3. OpsAfter(op.key) = {put} /\ NextIsFollowUp
    BY <1>2, <1>6, <1>11, FollowUpFacts
  <2> HIDE DEF op, stream, map
  <2>4. /\ Spares(stream, {put})
        /\ ~lost => KeepsAll(stream, map, {put})
    BY <1>2, <1>8, SkipMirrors
  <2> QED BY <1>1, <1>2, <1>3, <2>2, <2>3, <2>4, ExecFrame DEF op, stream
<1> QED BY <1>5, <1>10, <1>11

LEMMA DeleteStep ==
    ASSUME Inside, WorkerInv, ExecDelete, UNCHANGED ghostVars
    PROVE  WorkerInv'
<1> DEFINE op == Head(ops)
           stream == subjects[op.key]
           map == storage[op.key]
           left == WithoutNumbers(map, op.numbers)
           put == PutOp(op.key, op.entry)
<1>1. /\ ops # <<>> /\ op.type = "delete" /\ op.type # "delete_all"
      /\ storage' = [storage EXCEPT ![op.key] = left]
      /\ UNCHANGED <<storeVars, loaded, waiting, ghostVars>>
      /\ storage \in [Key -> Image]
  BY DEF ExecDelete, Inside
<1>2. /\ op.key \in Key /\ loaded /\ Tail(ops) = <<>>
      /\ map \in Image /\ 0 \notin DOMAIN map
      /\ Spares(stream, {op})
      /\ ~lost => KeepsAll(stream, map, {op})
      /\ ~lost /\ ~leftover => KeepsOnly(stream, map, {op})
  BY <1>1, HeadFacts
<1>3. ops' = <<put>>
  BY <1>2, Alone DEF ExecDelete
<1>4. storage'[op.key] = left /\ OthersStay
  BY <1>1, <1>2 DEF OthersStay
<1>5. FollowsUp(op, put)
  BY DEF PutOp, FollowsUp
<1>6. OpsAfter(op.key) = {put} /\ NextIsFollowUp
  BY <1>2, <1>3, <1>5, FollowUpFacts
<1>7. left = WithoutNumbers(map, op.numbers) /\ put = PutOp(op.key, op.entry)
  OBVIOUS
<1> HIDE DEF op, stream, map, left, put
<1>8. 0 \notin DOMAIN left
  BY <1>2, <1>7, WithoutNumbersFacts
<1>9. /\ Spares(stream, {put})
      /\ ~lost => KeepsAll(stream, left, {put})
      /\ ~lost /\ ~leftover => KeepsOnly(stream, left, {put})
  BY <1>1, <1>2, DeleteMirrors DEF left, put
<1>10. UNCHANGED <<storeVars, loaded, waiting, before, pending, lost, leftover, known>>
  BY <1>1 DEF ghostVars
<1> QED BY <1>1, <1>2, <1>4, <1>6, <1>8, <1>9, <1>10, ExecFrame DEF op, stream

LEMMA PutStep ==
    ASSUME Inside, WorkerInv, ExecPut, UNCHANGED ghostVars
    PROVE  WorkerInv'
<1> DEFINE op == Head(ops)
           stream == subjects[op.key]
           map == storage[op.key]
           new == WithEntry(map, op.entry)
<1>1. /\ ops # <<>> /\ op.type = "put" /\ op.type # "delete_all"
      /\ storage' = [storage EXCEPT ![op.key] = new]
      /\ UNCHANGED <<storeVars, loaded, waiting, ghostVars>>
      /\ storage \in [Key -> Image]
  BY DEF ExecPut, Inside
<1>2. /\ op.key \in Key /\ op.entry \in SequenceValue /\ op.entry.seq <= MaxSeq
      /\ op.entry.seq # 0 /\ loaded /\ Tail(ops) = <<>>
      /\ map \in Image /\ 0 \notin DOMAIN map
      /\ stream \in Seq(SequenceValue) /\ (~lost => Sorted(stream, sequence_number))
      /\ Spares(stream, {op})
      /\ ~lost => KeepsAll(stream, map, {op})
      /\ ~lost /\ ~leftover => KeepsOnly(stream, map, {op})
  BY <1>1, HeadFacts
<1>3. ops' = <<>> /\ OpsAfter(op.key) = {}
  <2>1. ops' = <<>>
    BY <1>2 DEF ExecPut
  <2> QED BY <2>1, NoOp DEF OpsAfter
<1>4. storage'[op.key] = new /\ OthersStay
  BY <1>1, <1>2 DEF OthersStay
<1>5. NextIsFollowUp
  BY <1>3 DEF NextIsFollowUp
<1>6. new = WithEntry(map, op.entry)
  OBVIOUS
<1> HIDE DEF op, stream, map, new
<1>7. DOMAIN new = DOMAIN map \cup {op.entry.seq}
  BY <1>2, <1>6, WithEntryFacts
<1>8. /\ ~lost => KeepsAll(stream, new, {})
      /\ ~lost /\ ~leftover => KeepsOnly(stream, new, {})
  <2>1. CASE lost
    BY <2>1
  <2>2. CASE ~lost
    BY <1>1, <1>2, <1>6, <2>2, PutMirrors
  <2> QED BY <2>1, <2>2
<1>9. Spares(stream, {})
  BY DEF Spares
<1>10. UNCHANGED <<storeVars, loaded, waiting, before, pending, lost, leftover, known>>
  BY <1>1 DEF ghostVars
<1>11. 0 \notin DOMAIN new
  BY <1>2, <1>7 DEF SequenceValue
<1> QED BY <1>1, <1>2, <1>3, <1>4, <1>5, <1>8, <1>9, <1>10, <1>11, ExecFrame DEF op, stream

LEMMA DeleteAllStep ==
    ASSUME Inside, WorkerInv, ExecDeleteAll, lost', known' = CutShort,
           UNCHANGED <<before, pending, leftover>>
    PROVE  WorkerInv'
<1>1. /\ ops # <<>> /\ storage' = [key \in Key |-> Nothing] /\ ops' = Tail(ops)
      /\ UNCHANGED <<storeVars, loaded, waiting>>
  BY DEF ExecDeleteAll
<1>2. ops' = <<>> /\ waiting' = waiting /\ \A socket \in Socket : waiting[socket] = NoMessage
  BY <1>1, OneOp DEF WorkerInv
<1>3. Range(ops') = {} /\ Len(ops') = 0 /\ (\A key \in Key : OpsOn(key)' = {})
  BY <1>2, NoOp
<1>4. Gated'
  BY <1>2, <1>3 DEF Gated
<1>5. Positive'
  BY <1>1, <1>3, NothingImage DEF Positive
<1>7. \A key \in Key : Mirrored(key)' /\ Remembered(key)'
  BY <1>1, <1>3 DEF WorkerInv, Mirrored, Remembered, Spares
<1>8. Recalled'
  BY DEF Recalled, Intact
<1> QED BY <1>4, <1>5, <1>7, <1>8 DEF WorkerInv

LEMMA ExecStep ==
    ASSUME Inside, WorkerInv, TraceExec
    PROVE  WorkerInv'
BY ListStep, DeleteStep, PutStep, DeleteAllStep DEF TraceExec, ghostVars

\* The room comes back from storage.
LEMMA LoadStep ==
    ASSUME InputGates, Inside, WorkerInv, TraceLoad
    PROVE  WorkerInv'
<1>1. /\ Idle /\ UNCHANGED <<storage, ops, waiting>> /\ loaded' = TRUE /\ ~loaded
      /\ before' = NothingBefore /\ pending' = NonePending
      /\ storage \in [Key -> Image] /\ MaxSeq \in Nat
      /\ known \in {CutShort} \cup 0 .. MaxSeq
  BY MaxSeqAssumption DEF TraceLoad, Load, LoadFails, GateOpen, Inside
<1>2. ops' = <<>> /\ \A socket \in Socket : waiting'[socket] = NoMessage
  BY <1>1 DEF Idle
<1>3. Range(ops') = {} /\ Len(ops') = 0 /\ (\A key \in Key : OpsOn(key)' = {})
  BY <1>2, NoOp
<1>4. Gated'
  BY <1>2, <1>3 DEF Gated
<1>5. Positive'
  BY <1>1, <1>3 DEF WorkerInv, Positive
<1>6. \A key \in Key : Remembered(key)'
  <2>1. <<>> \in Seq(SequenceValue) /\ Increasing(<<>>)
    BY DEF Increasing
  <2> QED BY <1>1, <2>1 DEF Remembered, NothingBefore
<1>7. CASE Load /\ lost' = FALSE /\ UNCHANGED known
  <2>1. /\ sequence_number' \in 0 .. MaxSeq
        /\ \A key \in Key : subjects'[key] = LogOf(storage[key])
        /\ \A key \in Key : \A n \in DOMAIN storage[key] : n \in 0 .. MaxSeq /\ n <= sequence_number'
    BY <1>7, LoadFacts
  <2>2. ASSUME NEW key \in Key
        PROVE  /\ Sorted(subjects'[key], sequence_number')
               /\ Mirrored(key)'
               /\ Numbers(subjects'[key]) = DOMAIN storage[key]
    <3> DEFINE map == storage[key]
               log == LogOf(map)
    <3>1. map \in Image /\ subjects'[key] = log /\ storage'[key] = map /\ OpsOn(key)' = {}
      BY <1>1, <1>3, <2>1
    <3>2. /\ log \in Seq(SequenceValue) /\ Increasing(log) /\ Numbers(log) = DOMAIN map
          /\ \A entry \in Range(log) : Held(map, entry)
      BY <3>1, LogOfFacts
    <3>3. 0 \notin DOMAIN map /\ \A n \in DOMAIN map : n \in 0 .. MaxSeq /\ n <= sequence_number'
      BY <2>1 DEF WorkerInv, Positive
    <3> HIDE DEF map, log
    <3>4. \A n \in DOMAIN map : n \in 1 .. sequence_number'
      BY <1>1, <2>1, <3>3
    <3>5. \A entry \in Range(log) : entry.seq \in DOMAIN map
      BY <3>2 DEF Held
    <3>6. Sorted(log, sequence_number')
      BY <3>2, <3>4, <3>5 DEF Sorted
    <3>7. Spares(log, {}) /\ KeepsAll(log, map, {}) /\ KeepsOnly(log, map, {})
      BY <3>2 DEF Spares, KeepsAll, KeepsOnly
    <3>8. Mirrored(key)'
      BY <3>1, <3>7 DEF Mirrored
    <3> QED BY <3>1, <3>2, <3>6, <3>8 DEF map
  <2>3. StreamsSorted'
    BY <2>2 DEF StreamsSorted
  <2>4. Recalled'
    <3> SUFFICES ASSUME Intact'
                 PROVE  /\ ~lost' /\ known' <= sequence_number'
                        /\ known' # 0 => \E key \in Key : \E entry \in Range(subjects'[key]) : entry.seq >= known'
      BY <1>1 DEF Recalled
    <3>1. known' = known /\ Intact /\ known \in Nat
      BY <1>1, <1>7 DEF Intact
    <3>2. CASE known = 0
      BY <1>7, <2>1, <3>1, <3>2
    <3>3. CASE known # 0
      <4>1. PICK key \in Key : \E n \in DOMAIN storage[key] : n >= known
        BY <1>1, <3>1, <3>3 DEF WorkerInv, Recalled
      <4>2. PICK n \in DOMAIN storage[key] : n >= known
        BY <4>1
      <4>3. n \in Nat /\ n <= sequence_number' /\ n \in Numbers(subjects'[key])
        BY <1>1, <2>1, <2>2
      <4>4. PICK entry \in Range(subjects'[key]) : entry.seq = n
        BY <4>3 DEF Numbers
      <4>5. known <= sequence_number'
        BY <2>1, <3>1, <4>2, <4>3
      <4> QED BY <1>7, <3>1, <4>2, <4>4, <4>5
    <3> QED BY <3>2, <3>3
  <2> QED BY <1>4, <1>5, <1>6, <2>2, <2>3, <2>4 DEF WorkerInv
<1>8. CASE LoadFails /\ lost' = TRUE /\ known' = CutShort
  <2>1. \A key \in Key : subjects'[key] = <<>> /\ Range(subjects'[key]) = {}
    BY <1>8, EmptyFacts DEF LoadFails
  <2>2. StreamsSorted'
    BY <2>1 DEF StreamsSorted, Sorted, Increasing
  <2>3. \A key \in Key : Mirrored(key)'
    BY <1>3, <1>8 DEF Mirrored, Spares
  <2>4. Recalled'
    BY <1>8 DEF Recalled, Intact
  <2> QED BY <1>4, <1>5, <1>6, <2>2, <2>3, <2>4 DEF WorkerInv
<1> QED BY <1>7, <1>8 DEF TraceLoad

\* The object leaves memory: what storage does not hold by then is in what was
\* under way.
LEMMA EvictStep ==
    ASSUME Inside, WorkerInv, TraceEvict
    PROVE  WorkerInv'
<1>1. /\ loaded /\ loaded' = FALSE /\ ops' = <<>> /\ waiting' = [socket \in Socket |-> NoMessage]
      /\ UNCHANGED <<storage, leftover, lost>>
      /\ subjects' = [key \in Key |-> <<>>] /\ sequence_number' = 0
      /\ before' = IF lost THEN NothingBefore ELSE subjects
      /\ pending' = IF lost THEN NonePending ELSE [key \in Key |-> PendingNumbers(key)]
      /\ known' = IF Idle THEN known ELSE CutShort
      /\ subjects \in [Key -> Seq(SequenceValue)]
  BY DEF TraceEvict, Evict, Inside, StreamsInside, StoreTypeOK
<1>2. Range(ops') = {} /\ Len(ops') = 0 /\ (\A key \in Key : OpsOn(key)' = {})
  BY <1>1, NoOp
<1>3. \A key \in Key : subjects'[key] = <<>> /\ Range(subjects'[key]) = {}
  BY <1>1, EmptyFacts
<1>4. Gated'
  BY <1>1, <1>2 DEF Gated
<1>5. Positive'
  BY <1>1, <1>2 DEF WorkerInv, Positive
<1>6. StreamsSorted'
  BY <1>3 DEF StreamsSorted, Sorted, Increasing
<1>7. ASSUME NEW key \in Key
      PROVE  Mirrored(key)' /\ Remembered(key)'
  <2>1. Mirrored(key)'
    BY <1>1, <1>2 DEF Mirrored, Spares
  <2>2. CASE lost
    <3>1. <<>> \in Seq(SequenceValue) /\ Increasing(<<>>)
      BY DEF Increasing
    <3>2. before'[key] = <<>> /\ lost'
      BY <1>1, <2>2 DEF NothingBefore
    <3> QED BY <2>1, <3>1, <3>2 DEF Remembered
  <2>3. CASE ~lost
    <3> DEFINE stream == subjects[key]
               map == storage[key]
               under_way == OpsOn(key)
               numbers == {op.entry.seq : op \in under_way}
    <3>1. before'[key] = stream /\ storage'[key] = map /\ pending'[key] = PendingNumbers(key)
      BY <1>1, <2>3
    <3>2. PendingNumbers(key) = numbers
      BY DEF PendingNumbers, OpsOn
    <3>3. stream \in Seq(SequenceValue) /\ Increasing(stream)
      BY <1>1, <2>3 DEF WorkerInv, StreamsSorted, Sorted
    <3>4. /\ KeepsAll(stream, map, under_way)
          /\ ~leftover => KeepsOnly(stream, map, under_way)
      BY <1>1, <2>3 DEF WorkerInv, Mirrored
    <3> HIDE DEF stream, map, under_way
    <3>5. ASSUME NEW entry \in Range(stream), entry.seq \notin numbers
          PROVE  Held(map, entry)
      BY <3>4, <3>5 DEF KeepsAll
    <3>6. ASSUME ~leftover, numbers = {}
          PROVE  DOMAIN map \subseteq Numbers(stream)
      <4>1. under_way = {}
        BY <3>6
      <4> QED BY <3>4, <3>6, <4>1 DEF KeepsOnly
    <3> HIDE DEF numbers
    <3> QED BY <1>1, <2>1, <3>1, <3>2, <3>3, <3>5, <3>6 DEF Remembered
  <2> QED BY <2>2, <2>3
<1>8. Recalled'
  <2> SUFFICES ASSUME Intact', known' # 0
               PROVE  \E key \in Key : \E n \in DOMAIN storage'[key] : n >= known'
    BY <1>1 DEF Recalled
  <2>1. Idle /\ known' = known /\ Intact
    BY <1>1 DEF Intact
  <2>2. ~lost /\ \E key \in Key : \E entry \in Range(subjects[key]) : entry.seq >= known
    BY <1>1, <2>1 DEF WorkerInv, Recalled
  <2>3. PICK key \in Key : \E entry \in Range(subjects[key]) : entry.seq >= known
    BY <2>2
  <2>4. PICK entry \in Range(subjects[key]) : entry.seq >= known
    BY <2>3
  <2>5. KeepsAll(subjects[key], storage[key], OpsOn(key)) /\ OpsOn(key) = {}
    BY <1>1, <2>1, <2>2, NoOp DEF WorkerInv, Mirrored, Idle
  <2>6. entry.seq \in DOMAIN storage[key]
    BY <2>5 DEF KeepsAll, Held
  <2> QED BY <1>1, <2>1, <2>4, <2>6
<1> QED BY <1>4, <1>5, <1>6, <1>7, <1>8 DEF WorkerInv

LEMMA WorkerInvInit == WorkerTraceInit => WorkerInv
<1> SUFFICES ASSUME WorkerTraceInit
             PROVE  WorkerInv
  OBVIOUS
<1>1. /\ subjects = [key \in Key |-> <<>>] /\ sequence_number = 0 /\ loaded = FALSE
      /\ storage = [key \in Key |-> Nothing] /\ ops = <<>>
      /\ waiting = [socket \in Socket |-> NoMessage]
      /\ before = NothingBefore /\ known = 0
  BY DEF WorkerTraceInit, WorkerInit, StoreInit
<1>2. <<>> \in Seq(SequenceValue) /\ Increasing(<<>>) /\ Range(<<>>) = {} /\ Len(<<>>) = 0
  BY DEF Increasing, Range
<1>3. Gated
  BY <1>1, <1>2 DEF Gated
<1>4. Positive
  BY <1>1, <1>2, NothingImage DEF Positive
<1>5. StreamsSorted
  BY <1>1, <1>2 DEF StreamsSorted, Sorted
<1>6. \A key \in Key : Mirrored(key)
  BY <1>1, NoOp DEF Mirrored, Spares
<1>7. ASSUME NEW key \in Key
      PROVE  Remembered(key)
  <2>1. before[key] = <<>> /\ DOMAIN storage[key] = {}
    BY <1>1, NothingImage DEF NothingBefore
  <2> QED BY <1>2, <2>1 DEF Remembered
<1>8. Recalled
  BY <1>1 DEF Recalled
<1> QED BY <1>3, <1>4, <1>5, <1>6, <1>7, <1>8 DEF WorkerInv

LEMMA WorkerInvStep ==
    ASSUME InputGates, ~RawCompaction, Inside, WorkerInv, [WorkerTraceNext]_workerTraceVars
    PROVE  WorkerInv'
<1>1. ASSUME NEW socket \in Socket, TraceForward(socket)
      PROVE  WorkerInv'
  <2> DEFINE request == waiting[socket]
  <2>1. /\ request # NoMessage /\ SendMessage(request) /\ Applied(request)
        /\ waiting' = [waiting EXCEPT ![socket] = NoMessage]
        /\ UNCHANGED <<loaded, storage>>
        /\ waiting \in [Socket -> Request \cup {NoMessage}]
    BY <1>1 DEF TraceForward, Forward, Inside
  <2>2. /\ ops = <<>> /\ request \in Request
        /\ \A other \in Socket \ {socket} : waiting[other] = NoMessage
    BY <2>1 DEF WorkerInv, Gated
  <2>3. loaded
    BY <2>1 DEF Inside, NothingOutside
  <2>4. \A other \in Socket : waiting'[other] = NoMessage
    BY <2>1, <2>2
  <2> QED BY <2>1, <2>2, <2>3, <2>4, SendStep
<1>2. ASSUME NEW request \in Requests, TracePost(request)
      PROVE  WorkerInv'
  <2>1. /\ loaded /\ Idle /\ SendMessage(request) /\ Applied(request)
        /\ UNCHANGED <<loaded, storage, waiting>>
    BY <1>2 DEF TracePost, Post, GateOpen
  <2>2. request \in Request
    BY RequestFacts
  <2>3. ops = <<>> /\ \A socket \in Socket : waiting'[socket] = NoMessage
    BY <2>1 DEF Idle
  <2> QED BY <2>1, <2>2, <2>3, SendStep
<1>3. CASE UNCHANGED workerTraceVars
  <2>1. /\ UNCHANGED <<storeVars, loaded, storage, ghostVars, ops, waiting>>
    BY <1>3 DEF workerTraceVars, workerVars, storeVars
  <2>2. Gated'
    BY <2>1 DEF WorkerInv, Gated
  <2> QED BY <2>1, <2>2, QuietWorker DEF OpsOn
<1> QED BY <1>1, <1>2, <1>3, LoadStep, ExecStep, AlarmStep, EvictStep, ReceiveStep DEF WorkerTraceNext

THEOREM WorkerInvariant ==
    ASSUME InputGates, ~RawCompaction
    PROVE  WorkerTraceSpec => [](Inside /\ WorkerInv)
<1>1. WorkerTraceInit => Inside /\ WorkerInv
  BY InsideInit, WorkerInvInit
<1>2. Inside /\ WorkerInv /\ [WorkerTraceNext]_workerTraceVars => (Inside /\ WorkerInv)'
  BY InsideStep, WorkerInvStep
<1> QED BY <1>1, <1>2, PTL DEF WorkerTraceSpec

-----------------------------------------------------------------------------
(***************************************************************************)
(* What the invariant is for.                                              *)
(***************************************************************************)

\* Nothing is under way for a settled stream.
LEMMA SettledFacts ==
    ASSUME Inside, WorkerInv, ~lost, NEW key \in Key, Settled(key)
    PROVE  /\ subjects[key] \in Seq(SequenceValue) /\ Sorted(subjects[key], sequence_number)
           /\ storage[key] \in Image
           /\ \A entry \in Range(subjects[key]) : Held(storage[key], entry)
           /\ ~leftover => DOMAIN storage[key] \subseteq Numbers(subjects[key])
<1> DEFINE under_way == OpsOn(key)
<1>1. PendingNumbers(key) = {op.entry.seq : op \in under_way}
  BY DEF PendingNumbers, OpsOn
<1>2. under_way = {}
  <2> HIDE DEF under_way
  <2> QED BY <1>1 DEF Settled
<1>3. loaded /\ Mirrored(key) /\ StoreTypeOK /\ storage \in [Key -> Image] /\ StreamsSorted
  BY DEF Settled, Inside, StreamsInside, WorkerInv
<1>4. /\ KeepsAll(subjects[key], storage[key], {})
      /\ ~leftover => KeepsOnly(subjects[key], storage[key], {})
  BY <1>2, <1>3 DEF Mirrored
<1> QED BY <1>3, <1>4 DEF StoreTypeOK, StreamsSorted, KeepsAll, KeepsOnly

\* Behind input gates, once the tasks of a stream are done, storage holds it entry by
\* entry (dbroom.rs applies what a push changes, state.rs reads it back).
THEOREM StorageMirrorsMemory ==
    ASSUME InputGates, ~RawCompaction
    PROVE  WorkerTraceSpec => []StoredIsRetained
<1>1. Inside /\ WorkerInv => StoredIsRetained
  <2> SUFFICES ASSUME Inside, WorkerInv, ~lost, ~leftover, NEW key \in Key, Settled(key)
               PROVE  storage[key] = ImageOf(subjects[key])
    BY DEF StoredIsRetained
  <2> DEFINE stream == subjects[key]
             map == storage[key]
  <2>1. /\ stream \in Seq(SequenceValue) /\ Sorted(stream, sequence_number)
        /\ map \in Image
        /\ \A entry \in Range(stream) : Held(map, entry)
        /\ DOMAIN map \subseteq Numbers(stream)
    BY SettledFacts
  <2> HIDE DEF stream, map
  <2>2. DOMAIN map = Numbers(stream)
    BY <2>1 DEF Numbers, Held
  <2>3. map = [m \in Numbers(stream) |-> map[m]]
    <3>1. map \in [DOMAIN map -> Value]
      BY <2>1, ImageFacts
    <3> QED BY <2>2, <3>1
  <2>4. \A entry \in Range(stream) : map[entry.seq] = entry.value
    BY <2>1 DEF Held
  <2>5. ImageOf(stream) = map
    BY <2>1, <2>3, <2>4, ImageUnique
  <2> QED BY <2>5 DEF stream, map
<1> QED BY <1>1, WorkerInvariant, PTL

\* Also when lists fail and deletions are skipped, no entry that a stream retains is
\* missing from storage (dbroom.rs gives up the deletion, not the put).
THEOREM StorageKeepsMemory ==
    ASSUME InputGates, ~RawCompaction
    PROVE  WorkerTraceSpec => []RetainedIsStored
<1>1. Inside /\ WorkerInv => RetainedIsStored
  BY SettledFacts DEF RetainedIsStored, Held
<1> QED BY <1>1, WorkerInvariant, PTL

\* A room whose work was never cut short numbers on above everything that its clients
\* know, also after a load (load_store in state.rs takes the highest stored number).
THEOREM KnownNumbersStay ==
    ASSUME InputGates, ~RawCompaction
    PROVE  WorkerTraceSpec => []KeptNumbersNotReused
<1>1. Inside /\ WorkerInv => KeptNumbersNotReused
  <2> SUFFICES ASSUME Inside, WorkerInv, loaded
               PROVE  sequence_number >= known
    BY DEF KeptNumbersNotReused
  <2>1. sequence_number \in Nat /\ known \in {CutShort} \cup 0 .. MaxSeq /\ MaxSeq \in Nat
    BY MaxSeqAssumption DEF Inside, StreamsInside, StoreTypeOK
  <2>2. Intact => known <= sequence_number
    BY DEF WorkerInv, Recalled
  <2> QED BY <2>1, <2>2 DEF Intact, CutShort
<1> QED BY <1>1, WorkerInvariant, PTL

\* A load brings a stream back as it was, but for what was under way when the object
\* was evicted (state.rs, load_store).
THEOREM ReloadBringsBack ==
    ASSUME InputGates, ~RawCompaction
    PROVE  WorkerTraceSpec => ReloadLosesOnlyPending
<1> DEFINE Return ==
        ~loaded /\ loaded' /\ ~lost /\ ~leftover /\ ~lost' =>
            \A key \in Key :
                /\ pending[key] = {} => subjects'[key] = before[key]
                /\ \A entry \in Range(before[key]) :
                      entry.seq \notin pending[key] => entry \in Range(subjects'[key])
<1>1. ASSUME Inside, WorkerInv, [WorkerTraceNext]_workerTraceVars
      PROVE  Return
  <2> SUFFICES ASSUME ~loaded, loaded', ~lost, ~leftover, ~lost', NEW key \in Key
               PROVE  /\ pending[key] = {} => subjects'[key] = before[key]
                      /\ \A entry \in Range(before[key]) :
                            entry.seq \notin pending[key] => entry \in Range(subjects'[key])
    OBVIOUS
  <2>1. Load
    <3>1. ASSUME loaded' = loaded
          PROVE  FALSE
      BY <3>1
    <3>2. CASE TraceLoad
      BY <3>2 DEF TraceLoad
    <3>3. CASE TraceExec
      BY <3>1, <3>3 DEF TraceExec, ExecList, ExecDelete, ExecPut, ExecDeleteAll
    <3>4. CASE TraceAlarm
      BY <3>1, <3>4 DEF TraceAlarm, Tick, Alarm
    <3>5. CASE TraceEvict
      BY <3>5 DEF TraceEvict, Evict
    <3>6. ASSUME NEW socket \in Socket, TraceReceive(socket) \/ TraceForward(socket)
          PROVE  FALSE
      BY <3>1, <3>6 DEF TraceReceive, Receive, ReceiveRead, TraceForward, Forward
    <3>7. ASSUME NEW request \in Requests, TracePost(request)
          PROVE  FALSE
      BY <3>1, <3>7 DEF TracePost, Post
    <3>8. CASE UNCHANGED workerTraceVars
      BY <3>1, <3>8 DEF workerTraceVars, workerVars
    <3> QED BY <1>1, <3>2, <3>3, <3>4, <3>5, <3>6, <3>7, <3>8 DEF WorkerTraceNext
  <2> DEFINE map == storage[key]
             old == before[key]
             log == LogOf(map)
  <2>2. subjects'[key] = log
    BY <1>1, <2>1, LoadFacts
  <2>3. map \in Image
    BY <1>1 DEF Inside
  <2>4. /\ old \in Seq(SequenceValue) /\ Increasing(old)
        /\ \A entry \in Range(old) : entry.seq \notin pending[key] => Held(map, entry)
        /\ pending[key] = {} => DOMAIN map \subseteq Numbers(old)
    BY <1>1 DEF WorkerInv, Remembered
  <2>5. /\ log \in Seq(SequenceValue) /\ Increasing(log)
        /\ Range(log) = {[value |-> map[n], seq |-> n] : n \in DOMAIN map}
    BY <2>3, LogOfFacts
  <2> HIDE DEF map, old, log
  <2>6. \A entry \in Range(old) : entry \in SequenceValue
    BY <2>4, LenProperties, ElementOfSeq DEF Range
  <2>7. ASSUME NEW entry \in Range(old), Held(map, entry)
        PROVE  entry \in Range(log) /\ entry = [value |-> map[entry.seq], seq |-> entry.seq]
    <3>1. entry = [value |-> map[entry.seq], seq |-> entry.seq] /\ entry.seq \in DOMAIN map
      BY <2>6, <2>7 DEF Held, SequenceValue
    <3> QED BY <2>5, <3>1
  <2>8. ASSUME pending[key] = {}
        PROVE  log = old
    <3>1. \A entry \in Range(old) : Held(map, entry)
      BY <2>4, <2>8
    <3>2. \A n \in DOMAIN map : n \in Numbers(old)
      BY <2>4, <2>8
    <3>3. ASSUME NEW entry \in Range(log)
          PROVE  entry \in Range(old)
      <4>1. PICK n \in DOMAIN map : entry = [value |-> map[n], seq |-> n]
        BY <2>5
      <4>2. PICK other \in Range(old) : other.seq = n
        BY <3>2 DEF Numbers
      <4>3. other = entry
        BY <2>7, <3>1, <4>1, <4>2
      <4> QED BY <4>3
    <3>4. Range(log) = Range(old)
      BY <2>7, <3>1, <3>3
    <3> QED BY <2>4, <2>5, <3>4, SameStream
  <2> QED BY <2>2, <2>4, <2>7, <2>8 DEF old
<1>2. Inside /\ WorkerInv /\ [WorkerTraceNext]_workerTraceVars => [Return]_workerTraceVars
  BY <1>1
<1> HIDE DEF Return
<1>3. WorkerTraceSpec => [][Return]_workerTraceVars
  BY <1>2, WorkerInvariant, PTL DEF WorkerTraceSpec
<1> QED BY <1>3 DEF ReloadLosesOnlyPending, Return

=============================================================================
