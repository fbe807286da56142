-------------------------- MODULE WorkerRetention --------------------------
(***************************************************************************)
(* How long the durable object keeps what it has stored: the worker with a *)
(* clock beside it that starts again at every write.                       *)
(***************************************************************************)
EXTENDS Worker

VARIABLES
    age,    \* ticks since a client last wrote to the room, up to Retention
    saved   \* the streams that have been stored since the room was last due to be cleared

retentionVars == <<workerVars, age, saved>>

\* So long after the last write the room may be gone.
Due == age = Retention

\* What storage holds counts as saved.
Saves == saved' = saved \cup {key \in Key : storage'[key] # Nothing}

RetentionWrite ==
    \E request \in PushRequest(sequence_number) :
        /\ Post(request) \/ \E socket \in Socket : Receive(socket, request)
        /\ age' = IF Mutates(request.action) THEN 0 ELSE age
        /\ Saves

RetentionTick ==
    /\ Tick
    /\ age' = Min({age + 1, Retention})
    /\ Saves

RetentionClear ==
    /\ ExecDeleteAll
    /\ saved' = IF Due THEN {} ELSE saved
    /\ UNCHANGED age

RetentionStep ==
    /\ \/ Load \/ LoadFails \/ Alarm \/ Evict
       \/ ExecList \/ ExecDelete \/ ExecPut
       \/ \E socket \in Socket : Forward(socket) \/ ReceiveRead(socket)
    /\ Saves
    /\ UNCHANGED age

RetentionInit ==
    /\ WorkerInit
    /\ age = 0
    /\ saved = {}

RetentionNext == RetentionWrite \/ RetentionTick \/ RetentionClear \/ RetentionStep

RetentionSpec == RetentionInit /\ [][RetentionNext]_retentionVars

-----------------------------------------------------------------------------
\* Of what the documents say: "Room state is currently persisted for 24 hours after the
\* last write" (index.mdx:96).  A write over HTTP does not put the alarm off; a compaction
\* deletes what it replaces before it stores its snapshot; and a room whose storage cannot
\* be read begins as an empty one.
PersistedAfterWrite ==
    [][~loaded /\ loaded' /\ ~Due => \A key \in saved : subjects'[key] # <<>>]_retentionVars
=============================================================================
