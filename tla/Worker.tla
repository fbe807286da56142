------------------------------- MODULE Worker -------------------------------
(***************************************************************************)
(* A room as a Cloudflare durable object (driftdb-worker/src/dbroom.rs and *)
(* state.rs): the store while it is in memory, its copy in the object's    *)
(* storage, the tasks that keep the copy, and the alarm that clears it.    *)
(*                                                                         *)
(* Rust code runs between two awaits without interruption.  Every await is *)
(* for an operation on storage, and storage carries them out one by one in *)
(* the order they were issued: ops is their queue.  What an operation's    *)
(* completion makes its task issue goes to the end of the queue.           *)
(***************************************************************************)
EXTENDS Store

CONSTANTS
    Socket,         \* web sockets of the room
    NoMessage,      \* no message is held back on a socket
    InputGates,     \* whether no event is delivered while storage is at work,
                    \* as the platform promises unless it is told otherwise
    Crashes,        \* whether the object may vanish in the middle of its work
    StorageFails,   \* whether reading storage may fail
    Retention,      \* the ticks that an alarm is set ahead
    MaxOps          \* bound on the storage operations outstanding

ASSUME InputGatesAssumption == InputGates \in BOOLEAN
ASSUME CrashesAssumption == Crashes \in BOOLEAN
ASSUME StorageFailsAssumption == StorageFails \in BOOLEAN
ASSUME RetentionAssumption == Retention \in Nat \ {0}
ASSUME MaxOpsAssumption == MaxOps \in Nat \ {0}

VARIABLES
    loaded,     \* whether the object has a database
    storage,    \* per key, the stored values by their sequence number
    ops,        \* the storage operations issued and not carried out
    waiting,    \* per socket, the message that waits for the alarm to be set
    alarm       \* ticks until the alarm, or NoAlarm

workerVars == <<storeVars, loaded, storage, ops, waiting, alarm>>

NoAlarm == -1

Nothing == [n \in {} |-> {}]

\* A push message of a client that knows of numbers up to n.
PushRequest(n) == [key : Key, value : Value, action : ClientAction(n)]

\* No storage operation is outstanding.
Idle == ops = <<>> /\ \A socket \in Socket : waiting[socket] = NoMessage

\* The platform may deliver an event: a request, a message or the alarm.
GateOpen == InputGates => Idle

-----------------------------------------------------------------------------
(***************************************************************************)
(* The replica callback: lists and deletes what the apply deleted, then    *)
(* puts what it pushed.                                                    *)
(***************************************************************************)

ListOp(key, action, entry) ==
    [type |-> "list", key |-> key, action |-> action, entry |-> entry]
DeleteOp(key, numbers, entry) ==
    [type |-> "delete", key |-> key, numbers |-> numbers, entry |-> entry]
PutOp(key, entry) == [type |-> "put", key |-> key, entry |-> entry]
DeleteAllOp == [type |-> "delete_all"]

\* What the task of an apply issues first.
FirstOps(key, action, entry) ==
    CASE action.type = "relay"                 -> <<>>
      [] action.type = "append"                -> <<PutOp(key, entry)>>
      [] action.type \in {"replace", "compact"} -> <<ListOp(key, action, entry)>>

\* Slip: the end of the list is not given.
Listed_NoEnd(key, action) == DOMAIN storage[key]

\* All of the stream, or what is numbered up to the compaction.
Listed(key, action) ==
    {n \in DOMAIN storage[key] : action.type = "compact" => n <= action.seq}

AfterList(op, numbers) == <<DeleteOp(op.key, numbers, op.entry)>>

WithEntry(map, entry) ==
    [n \in DOMAIN map \cup {entry.seq} |-> IF n = entry.seq THEN entry.value ELSE map[n]]

WithoutNumbers(map, numbers) == Restrict(map, DOMAIN map \ numbers)

-----------------------------------------------------------------------------
(***************************************************************************)
(* load_store.                                                             *)
(***************************************************************************)

\* Storage lists the entries of a key by their numbers.
Listing(map) ==
    CHOOSE order \in SetToSeqs(DOMAIN map) : \A i, j \in DOMAIN order : i < j => order[i] < order[j]

\* Slip: entries are pushed to the front.
LogOf_Reversed(map) ==
    LET order == Reverse(Listing(map))
    IN  [i \in DOMAIN order |-> [value |-> map[order[i]], seq |-> order[i]]]

LogOf(map) ==
    LET order == Listing(map)
    IN  [i \in DOMAIN order |-> [value |-> map[order[i]], seq |-> order[i]]]

\* Slip: numbering continues from the number of the last key that is listed.
LastNumber_OfOneKey ==
    LET listed == {key \in Key : storage[key] # Nothing}
    IN  Max({0} \cup (IF listed = {} THEN {} ELSE DOMAIN storage[CHOOSE key \in listed : TRUE]))

LastNumber == Max({0} \cup UNION {DOMAIN storage[key] : key \in Key})

-----------------------------------------------------------------------------
(***************************************************************************)
(* Steps.                                                                  *)
(***************************************************************************)

\* A request finds no database in memory and loads it.
Load ==
    /\ ~loaded
    /\ GateOpen
    /\ loaded' = TRUE
    /\ subjects' = [key \in Key |-> LogOf(storage[key])]
    /\ sequence_number' = LastNumber
    /\ UNCHANGED <<storage, ops, waiting, alarm>>

\* Storage cannot be listed or read: the room starts empty.
LoadFails ==
    /\ ~loaded
    /\ GateOpen
    /\ StorageFails
    /\ loaded' = TRUE
    /\ subjects' = [key \in Key |-> <<>>]
    /\ sequence_number' = 0
    /\ UNCHANGED <<storage, ops, waiting, alarm>>

\* conn.send_message, and the task spawned by the replica callback up to its
\* first await.
SendMessage(request) ==
    /\ Len(ops) < MaxOps
    /\ ApplyAction(request.key, request.value, request.action)
    /\ ops' = ops \o FirstOps(request.key, request.action,
                              [value |-> request.value, seq |-> Stamp(request.action)])

\* A push arrives on a socket: before anything else, the alarm is put off.
Receive(socket, request) ==
    /\ loaded
    /\ GateOpen
    /\ waiting[socket] = NoMessage
    /\ waiting' = [waiting EXCEPT ![socket] = request]
    /\ alarm' = Retention
    /\ UNCHANGED <<storeVars, loaded, storage, ops>>

\* The alarm is set, and the message is sent on to the database.
Forward(socket) ==
    /\ waiting[socket] # NoMessage
    /\ SendMessage(waiting[socket])
    /\ waiting' = [waiting EXCEPT ![socket] = NoMessage]
    /\ UNCHANGED <<loaded, storage, alarm>>

\* A get or a ping on a socket puts the alarm off and changes nothing else here.
ReceiveRead(socket) ==
    /\ loaded
    /\ GateOpen
    /\ waiting[socket] = NoMessage
    /\ alarm' = Retention
    /\ UNCHANGED <<storeVars, loaded, storage, ops, waiting>>

\* A push arrives as an HTTP request, which leaves the alarm alone.
Post(request) ==
    /\ loaded
    /\ GateOpen
    /\ SendMessage(request)
    /\ UNCHANGED <<loaded, storage, waiting, alarm>>

\* Slip: a list that fails ends the task.
ExecList_GivesUp ==
    /\ ops # <<>>
    /\ Head(ops).type = "list"
    /\ LET op == Head(ops)
       IN  \/ ops' = Tail(ops) \o AfterList(op, Listed(op.key, op.action))
           \/ StorageFails /\ ops' = Tail(ops)
    /\ UNCHANGED <<storeVars, loaded, storage, waiting, alarm>>

\* A list that fails is taken for a deletion that is done.
ExecList ==
    /\ ops # <<>>
    /\ Head(ops).type = "list"
    /\ LET op == Head(ops)
       IN  \/ ops' = Tail(ops) \o AfterList(op, Listed(op.key, op.action))
           \/ StorageFails /\ ops' = Append(Tail(ops), PutOp(op.key, op.entry))
    /\ UNCHANGED <<storeVars, loaded, storage, waiting, alarm>>

\* Slip: the stream is deleted as it is by then, not as it was listed.
ExecDelete_WholeStream ==
    /\ ops # <<>>
    /\ Head(ops).type = "delete"
    /\ LET op == Head(ops)
       IN  /\ storage' = [storage EXCEPT ![op.key] = Nothing]
           /\ ops' = Append(Tail(ops), PutOp(op.key, op.entry))
    /\ UNCHANGED <<storeVars, loaded, waiting, alarm>>

ExecDelete ==
    /\ ops # <<>>
    /\ Head(ops).type = "delete"
    /\ LET op == Head(ops)
       IN  /\ storage' = [storage EXCEPT ![op.key] = WithoutNumbers(@, op.numbers)]
           /\ ops' = Append(Tail(ops), PutOp(op.key, op.entry))
    /\ UNCHANGED <<storeVars, loaded, waiting, alarm>>

ExecPut ==
    /\ ops # <<>>
    /\ Head(ops).type = "put"
    /\ storage' = [storage EXCEPT ![Head(ops).key] = WithEntry(@, Head(ops).entry)]
    /\ ops' = Tail(ops)
    /\ UNCHANGED <<storeVars, loaded, waiting, alarm>>

\* cleanup: the database stays in memory.
ExecDeleteAll ==
    /\ ops # <<>>
    /\ Head(ops).type = "delete_all"
    /\ storage' = [key \in Key |-> Nothing]
    /\ ops' = Tail(ops)
    /\ UNCHANGED <<storeVars, loaded, waiting, alarm>>

Tick ==
    /\ alarm > 0
    /\ alarm' = alarm - 1
    /\ UNCHANGED <<storeVars, loaded, storage, ops, waiting>>

\* The alarm does not load the database.
Alarm ==
    /\ alarm = 0
    /\ GateOpen
    /\ alarm' = NoAlarm
    /\ ops' = Append(ops, DeleteAllOp)
    /\ UNCHANGED <<storeVars, loaded, storage, waiting>>

\* Slip: what sockets have received outlives the object.
Evict_KeepsWaiting ==
    /\ loaded
    /\ Crashes \/ Idle
    /\ loaded' = FALSE
    /\ subjects' = [key \in Key |-> <<>>]
    /\ sequence_number' = 0
    /\ ops' = <<>>
    /\ UNCHANGED <<storage, waiting, alarm>>

\* The platform takes the object out of memory, idle or not.  Its sockets close,
\* and what it has issued and storage has not carried out is lost.
Evict ==
    /\ loaded
    /\ Crashes \/ Idle
    /\ loaded' = FALSE
    /\ subjects' = [key \in Key |-> <<>>]
    /\ sequence_number' = 0
    /\ ops' = <<>>
    /\ waiting' = [socket \in Socket |-> NoMessage]
    /\ UNCHANGED <<storage, alarm>>

WorkerInit ==
    /\ StoreInit
    /\ loaded = FALSE
    /\ storage = [key \in Key |-> Nothing]
    /\ ops = <<>>
    /\ waiting = [socket \in Socket |-> NoMessage]
    /\ alarm = NoAlarm

WorkerNext ==
    \/ Load \/ LoadFails
    \/ \E request \in PushRequest(sequence_number) :
          Post(request) \/ \E socket \in Socket : Receive(socket, request)
    \/ \E socket \in Socket : Forward(socket) \/ ReceiveRead(socket)
    \/ ExecList \/ ExecDelete \/ ExecPut \/ ExecDeleteAll
    \/ Tick \/ Alarm \/ Evict

WorkerSpec == WorkerInit /\ [][WorkerNext]_workerVars

-----------------------------------------------------------------------------
StorageOp ==
    [type : {"list"}, key : Key, action : Action, entry : SequenceValue]
        \cup [type : {"delete"}, key : Key, numbers : SUBSET Nat, entry : SequenceValue]
        \cup [type : {"put"}, key : Key, entry : SequenceValue]
        \cup {DeleteAllOp}

\* Nothing of an object that is not in memory is in memory.
WorkerTypeOK ==
    /\ StoreTypeOK
    /\ loaded \in BOOLEAN
    /\ \A key \in Key : /\ DOMAIN storage[key] \subseteq Nat
                        /\ Range(storage[key]) \subseteq Value
    /\ ops \in Seq(StorageOp)
    /\ \A socket \in Socket :
          waiting[socket] = NoMessage
              \/ waiting[socket] \in [key : Key, value : Value, action : Action]
    /\ alarm \in {NoAlarm} \cup 0 .. Retention
    /\ ~loaded => /\ Range(ops) \subseteq {DeleteAllOp}
                  /\ \A socket \in Socket : waiting[socket] = NoMessage
                  /\ StoreInit
=============================================================================
