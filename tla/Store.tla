------------------------------- MODULE Store -------------------------------
(***************************************************************************)
(* The in-memory store of one room (driftdb/src/store.rs): a stream of     *)
(* sequence-numbered values per key and the counter that numbers them.     *)
(* A stream that does not exist in the HashMap and an empty stream answer  *)
(* alike, and apply never leaves an empty one behind, so both are <<>>.    *)
(***************************************************************************)
EXTENDS Integers, Sequences, SequencesExt

CONSTANTS
    Key,            \* names of the streams
    Value,          \* values a client may push
    MaxSeq,         \* bound on the sequence numbers a behaviour hands out
    RawCompaction   \* TRUE: a client may compact at any sequence number, as
                    \* the API allows; FALSE: only at one it may have received

ASSUME MaxSeqAssumption == MaxSeq \in Nat
ASSUME RawCompactionAssumption == RawCompaction \in BOOLEAN

VARIABLES
    subjects,           \* the stream of each key, oldest entry first
    sequence_number     \* the last sequence number handed out

storeVars == <<subjects, sequence_number>>

SequenceValue == [value : Value, seq : Nat]

Action == [type : {"relay", "append", "replace"}]
              \cup [type : {"compact"}, seq : Nat]

\* The actions a client can send when n is the room's last sequence number.
ClientAction(n) ==
    [type : {"relay", "append", "replace"}]
        \cup [type : {"compact"}, seq : IF RawCompaction THEN 0 .. MaxSeq ELSE 1 .. n]

-----------------------------------------------------------------------------
(***************************************************************************)
(* What apply decides (an ApplyResult) and what that does to one stream.   *)
(***************************************************************************)

\* Slip: replace stamps its value before it draws the number.
StampOf_ReplaceStampsEarly(action, n) ==
    IF action.type = "compact" THEN action.seq
    ELSE IF action.type = "replace" THEN n ELSE n + 1

\* The number stamped on the value: compact brings its own, the others draw
\* the next one.
StampOf(action, n) == IF action.type = "compact" THEN action.seq ELSE n + 1

\* Slip: replacing a stream restarts the count.
SequenceAfter_ReplaceRestarts(action, n) ==
    CASE action.type = "compact" -> n [] action.type = "replace" -> 0 [] OTHER -> n + 1

SequenceAfter(action, n) == IF action.type = "compact" THEN n ELSE n + 1

\* Slip: what is not broadcast is taken not to change anything.
Mutates_OnlyBroadcasts(action) == action.type \in {"append", "replace"}

Mutates(action) == action.type # "relay"

Broadcasts(action) == action.type # "compact"

\* The entries of a stream numbered above s, in their order.
RetainAfter(log, s) ==
    LET kept[i \in 0 .. Len(log)] ==
            IF i = 0 THEN <<>>
            ELSE IF log[i].seq > s THEN Append(kept[i - 1], log[i])
            ELSE kept[i - 1]
    IN  kept[Len(log)]

\* Slips: a compaction also drops what it has not seen; it pushes to the end.
StreamAfter_CompactsAll(log, entry, action) ==
    CASE action.type = "relay"  -> log
      [] action.type = "append" -> Append(log, entry)
      [] OTHER                  -> <<entry>>
StreamAfter_CompactsToEnd(log, entry, action) ==
    CASE action.type = "relay"   -> log
      [] action.type = "append"  -> Append(log, entry)
      [] action.type = "replace" -> <<entry>>
      [] action.type = "compact" -> Append(RetainAfter(log, action.seq), entry)

\* The delete instruction, then the push instruction.
StreamAfter(log, entry, action) ==
    CASE action.type = "relay"   -> log
      [] action.type = "append"  -> Append(log, entry)
      [] action.type = "replace" -> <<entry>>
      [] action.type = "compact" -> <<entry>> \o RetainAfter(log, action.seq)

-----------------------------------------------------------------------------
(***************************************************************************)
(* The operations of the store.                                            *)
(***************************************************************************)

\* Slip: the reader's own number is counted twice.
Read_SkipsOne(key, min_sequence) == RetainAfter(subjects[key], min_sequence + 1)

\* What a reader who has seen everything up to min_sequence is missing.
Read(key, min_sequence) == RetainAfter(subjects[key], min_sequence)

\* Slip: a message that is not kept is not numbered.
Stamp_RelayUnnumbered(action) ==
    IF action.type = "relay" THEN -1 ELSE StampOf(action, sequence_number)

\* The number the running apply puts on its value.
Stamp(action) == StampOf(action, sequence_number)

ApplyAction(key, value, action) ==
    /\ SequenceAfter(action, sequence_number) <= MaxSeq
    /\ sequence_number' = SequenceAfter(action, sequence_number)
    /\ subjects' = [subjects EXCEPT ![key] =
                       StreamAfter(@, [value |-> value, seq |-> Stamp(action)], action)]

StoreInit ==
    /\ subjects = [key \in Key |-> <<>>]
    /\ sequence_number = 0

StoreNext ==
    \E key \in Key, value \in Value, action \in ClientAction(sequence_number) :
        ApplyAction(key, value, action)

StoreSpec == StoreInit /\ [][StoreNext]_storeVars

-----------------------------------------------------------------------------
(***************************************************************************)
(* Properties.                                                             *)
(***************************************************************************)

StoreTypeOK ==
    /\ subjects \in [Key -> Seq(SequenceValue)]
    /\ sequence_number \in Nat

Increasing(log) == \A i, j \in DOMAIN log : i < j => log[i].seq < log[j].seq

\* A stream of a room whose last number is n.
Sorted(log, n) ==
    /\ Increasing(log)
    /\ \A entry \in Range(log) : entry.seq \in 1 .. n

\* A stream is read oldest first by the numbers on its entries, no two entries
\* carry the same number, and no entry carries a number the room has not handed
\* out yet.  Compaction inserts at the front with a number the client chose, so
\* this holds only because of what the client chose.
StreamsSorted ==
    \A key \in Key : Sorted(subjects[key], sequence_number)

-----------------------------------------------------------------------------
(***************************************************************************)
(* The store seen as a map from sequence numbers to values.                *)
(***************************************************************************)

Numbers(log) == {entry.seq : entry \in Range(log)}

ImageOf(log) ==
    [n \in Numbers(log) |-> (CHOOSE entry \in Range(log) : entry.seq = n).value]

Abstract == INSTANCE StreamMap WITH
                image <- [key \in Key |-> ImageOf(subjects[key])],
                last  <- sequence_number

\* Every step of the store is the same step of the map: the order and the
\* number of entries that the deque keeps add nothing to the map, so that what
\* a replica saves entry by entry is all there is to save.
ImplementsStreamMap == Abstract!MapSpec
=============================================================================
