---------------------------- MODULE WorkerTrace ----------------------------
(***************************************************************************)
(* What the durable object's storage is good for: the worker, beside it    *)
(* what it had in memory when it was last evicted and what its clients     *)
(* know.                                                                   *)
(***************************************************************************)
EXTENDS Worker

VARIABLES
    before,     \* the streams in memory at the eviction, until the next load
    pending,    \* per key, the numbers whose put was outstanding then
    known,      \* the highest number of a value that clients saw and was kept,
                \* or CutShort once work was lost, skipped or cleared away, or
                \* a compaction was ahead of the room
    leftover,   \* since the load, a deletion was skipped
    lost,       \* since the load, storage lost what memory has, or a compaction
                \* was ahead of the room
    told        \* the highest number handed out before the last eviction

ghostVars == <<before, pending, known, leftover, lost, told>>
workerTraceVars == <<workerVars, ghostVars>>

CutShort == -1
Intact == known # CutShort

NothingBefore == [key \in Key |-> <<>>]
NonePending == [key \in Key |-> {}]

PendingNumbers(key) ==
    {op.entry.seq : op \in {op \in Range(ops) : op.type # "delete_all" /\ op.key = key}}

TraceLoad ==
    /\ \/ Load /\ lost' = FALSE /\ leftover' = FALSE /\ UNCHANGED known
       \/ LoadFails /\ lost' = TRUE /\ known' = CutShort /\ UNCHANGED leftover
    /\ before' = NothingBefore
    /\ pending' = NonePending
    /\ UNCHANGED told

\* The clients' next request.  A client outlives the room, and may compact at any
\* number that it was told, by whichever incarnation of the room.
Requests == PushRequest(Max({sequence_number, told}))

\* A compaction at a number that the room, as it is now, has not handed out.
Ahead(action) == action.type = "compact" /\ action.seq > sequence_number

TraceReceive(socket) ==
    /\ ReceiveRead(socket) \/ \E request \in Requests : Receive(socket, request)
    /\ UNCHANGED ghostVars

\* A request is applied.
Applied(request) ==
    /\ \/ /\ Ahead(request.action)
          /\ lost' = TRUE
          /\ known' = CutShort
       \/ /\ ~Ahead(request.action)
          /\ known' = IF Intact /\ Mutates(request.action)
                         THEN Max({known, Stamp(request.action)}) ELSE known
          /\ UNCHANGED lost
    /\ UNCHANGED <<before, pending, leftover, told>>

TraceForward(socket) == Forward(socket) /\ Applied(waiting[socket])

TracePost(request) == Post(request) /\ Applied(request)

\* The list that was carried out has led to no deletion.
Skipped == ops' = <<>> \/ Last(ops').type # "delete"

TraceExec ==
    /\ \/ (ExecDelete \/ ExecPut) /\ UNCHANGED <<leftover, lost, known>>
       \/ /\ ExecList
          /\ leftover' = (leftover \/ Skipped)
          /\ known' = IF Skipped THEN CutShort ELSE known
          /\ UNCHANGED lost
       \/ /\ ExecDeleteAll
          /\ lost' = TRUE
          /\ known' = CutShort
          /\ UNCHANGED leftover
    /\ UNCHANGED <<before, pending, told>>

TraceAlarm == (Tick \/ Alarm) /\ UNCHANGED ghostVars

TraceEvict ==
    /\ Evict
    /\ before' = IF lost THEN NothingBefore ELSE subjects
    /\ pending' = IF lost THEN NonePending ELSE [key \in Key |-> PendingNumbers(key)]
    /\ known' = IF Idle THEN known ELSE CutShort
    /\ told' = Max({told, sequence_number})
    /\ UNCHANGED <<leftover, lost>>

WorkerTraceInit ==
    /\ WorkerInit
    /\ before = NothingBefore
    /\ pending = NonePending
    /\ known = 0
    /\ leftover = FALSE
    /\ lost = FALSE
    /\ told = 0

WorkerTraceNext ==
    \/ TraceLoad \/ TraceExec \/ TraceAlarm \/ TraceEvict
    \/ \E socket \in Socket : TraceReceive(socket) \/ TraceForward(socket)
    \/ \E request \in Requests : TracePost(request)

WorkerTraceSpec == WorkerTraceInit /\ [][WorkerTraceNext]_workerTraceVars

-----------------------------------------------------------------------------
(***************************************************************************)
(* Properties.                                                             *)
(***************************************************************************)

\* No storage operation is outstanding for the key.
Settled(key) == loaded /\ DeleteAllOp \notin Range(ops) /\ PendingNumbers(key) = {}

\* Once the tasks of a key are done, storage holds its stream, entry by entry, however
\* often the room was evicted meanwhile, unless it was cleared or compacted ahead of itself
\* since the load: behind input gates the list, delete and put of one push never mix with
\* those of another.
StoredIsRetained ==
    ~lost /\ ~leftover =>
        \A key \in Key : Settled(key) => storage[key] = ImageOf(subjects[key])

\* Also when lists fail and deletions are skipped, every entry that a stream
\* retains is stored: no task deletes what a later one put, nor puts an older
\* value over a newer.
RetainedIsStored ==
    ~lost =>
        \A key \in Key : Settled(key) =>
            \A entry \in Range(subjects[key]) :
                /\ entry.seq \in DOMAIN storage[key]
                /\ storage[key][entry.seq] = entry.value

\* A room that comes back has the streams it had, in their order; of a push that
\* was cut short at any point only the pushed value may be missing, and what it
\* was to delete may be back.
ReloadLosesOnlyPending ==
    [][~loaded /\ loaded' /\ ~lost /\ ~leftover /\ ~lost' =>
          \A key \in Key :
              /\ pending[key] = {} => subjects'[key] = before[key]
              /\ \A entry \in Range(before[key]) :
                    entry.seq \notin pending[key] => entry \in Range(subjects'[key])]_workerTraceVars

\* A room whose work was never cut short, and that no client compacted ahead of itself,
\* continues above every number under which its clients know a value that was meant to
\* be kept, also if that value is gone: a client that replays skips what is not above
\* the number it has confirmed.
KeptNumbersNotReused ==
    loaded => sequence_number >= known

\* Of what the documents say: a number is handed out once ("given a unique sequence
\* number", data-model.md:76).  A room that was evicted goes on from what is stored.
NumbersAreUnique ==
    [][loaded /\ sequence_number' > sequence_number => sequence_number' > told]_workerTraceVars

\* Of what the documents say: what a stream replays "will be in increasing order of
\* sequence number" (api.md:120).  A Compactor that was told numbers of the room before
\* it was evicted compacts ahead of what the room hands out next.
RepliesIncrease ==
    \A key \in Key :
        LET reply == Read(key, 0)
        IN  \A i, j \in DOMAIN reply : i < j => reply[i].seq < reply[j].seq
=============================================================================
