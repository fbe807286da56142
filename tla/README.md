# DriftDB in TLA+

A verification development of [DriftDB](../src/README.md), a real-time store
in which clients of a *room* push values to named *streams*, hear what the
others push, and replay what a stream retains. The modules model the Rust core
(`driftdb/`), the two servers around it (`driftdb-server/`, `driftdb-worker/`),
the TypeScript client (`js-pkg/packages/driftdb`) with everything built on it,
and the React provider and hooks. TLC checks them on small instances, and TLAPS
proves theorems for any number of clients, keys, sockets and messages.

## The system

| Component | State | Operations | Talks to |
|---|---|---|---|
| **Store** `driftdb/src/store.rs` | per key a deque of numbered values; the last sequence number | `apply` (relay, append, replace, compact), `get`, `dump` | called by the database, under its mutex |
| **Room database** `driftdb/src/db.rs` | the store; per key the `Weak` references of its listeners; the debug connections; a replica callback | `push`, `subscribe`, `get`, `connect`, `connect_debug` | calls the connections' callbacks and the replica callback before it releases the mutex |
| **Connection** `driftdb/src/connection.rs` | a callback, a `Weak` reference to the database | `send_message`: push, get (subscribe, then read), ping | calls the database; lives as long as its owner keeps the `Arc` |
| **Codec** `driftdb/src/types/key_seq_pair.rs` | none | `KeyAndSeq` to and from a storage key | used by the worker |
| **Stand-alone server** `driftdb-server/src/server.rs` | the map from room to database (in memory only); a channel of 32 messages per socket | new room, look up a room, HTTP send, socket loop | one task per socket, on several threads |
| **Worker** `driftdb-worker/src/` | a durable object's storage and, while it is in memory, its database; an alarm | `connect`, HTTP send, `get_db`/`load_store`, the replica callback, `alarm`/`cleanup` | single-threaded; each replica callback spawns a task that awaits storage |
| **DbConnection** `js-pkg/packages/driftdb/src/index.ts` | socket, status, queue of unsent messages, subscriptions, reconnect timer, latency test | connect, disconnect, send, subscribe, unsubscribe, socket callbacks | the server's socket; the classes below |
| **API, HTTP** `api.ts`, `http.ts` | none | new room, get room, send by POST | the provider; the server |
| **Compactor, Reducer** `compactor.ts`, `reducer.ts` | shown state, confirmed state and its number | subscribe, dispatch, `onSequenceValue`, `onSize` | appends and compacts one stream |
| **StateListener** `state.ts` | last value, debounce timer | subscribe, set, handle a value, destroy | replaces one stream |
| **PresenceListener** `presence.ts` | own state, the peers seen, two timers | subscribe, update, expire, destroy | relays on one stream |
| **WebRTC** `webrtc.ts` | a peer connection per peer, a signalling channel, last values | hear of a peer, offer, answer, candidate, send | presence; appends to two streams per pair |
| **React provider, hooks** `driftdb-react/src/index.tsx` | the room and its promise, the URL, what is shown | effects that create, subscribe and destroy the above | all of the above |

What is hard here, and what makes each part correct:

* *Store*: a client chooses the number of a compaction while others append.
  The streams must stay in the order of their numbers, and hold exactly what no
  later replace or compaction on their key has superseded.
* *Room*: connections push, subscribe, come and go concurrently; a `get` both
  subscribes and reads. Everyone must be told of everything, once, in one order,
  and a replay must meet the live broadcasts exactly. A debug connection must be
  able to mirror the room.
* *Reducer*: optimistic clients, late joiners and concurrent compactions by
  clients that have confirmed different prefixes of one history. The confirmed
  states must be prefixes of one history, the stream must always give all of it
  back, and the clients must not provoke each other to compact for ever.
* *Shared state*: a debounce timer that outlives its component, own echoes that
  are ignored. What was set must be sent, and what is shown must be what the
  stream holds.
* *Presence*: timers that are late, or overwritten and running beside each other.
  A live peer must not be forgotten, a silent one must be.
* *WebRTC*: offers that cross, pages that are loaded anew or closed in the middle. Two
  ends must settle on one session and connect, and the values must be of pages that are
  there.
* *Server*: slow sockets lose messages when their channel is full; a task is
  polled at its awaits; rooms do not survive a restart. What a client is told must
  go forward, and a client that is gone must be dropped once there is something to
  tell it: nothing else makes the task notice.
* *Worker*: deletions and puts of one push are separate awaited operations, in
  tasks that overlap with those of later pushes; a room can be evicted between
  any two, and is rebuilt from what is stored, while its clients live on with the
  numbers they were told. Storage must hold what memory retains, and a reload must lose
  no more than what was being saved.
* *Client and provider*: a reconnected socket is a new connection to the room;
  timers, the queue and callbacks race with `disconnect` and `connect`, and the
  answer to a request with the unmounting of its component. Every message must be
  sent once and in order, the client must come back, and the page must show the
  room that it is in.

`PROJECT.json` lists each hazard at its line, with the properties that watch it.

## The modules

| Module | Models |
|---|---|
| `Store` | the store. `ApplyAction` is `Store::apply`, whole: number, delete instruction, push instruction |
| `StreamMap` | abstract: per key a map from numbers to values. The entries that `driftdb-worker/src/state.rs` deletes and puts are this map's |
| `Room` (extends `Store`) | the database and its connections. `Push`, `Get` and `Ping` are `send_message`; `Connect`, `ConnectDebug` and `Drop` the life of a connection |
| `RoomTrace` (extends `Room`) | the room with a history beside it: every push with its action and entry, subscriptions, replays. States what clients may rely on, and what a stream holds of all that was ever pushed |
| `Reducer` (extends `Room`) | clients with one or more `Compactor`s each, FIFO queues to and from the room, and the room |
| `SharedState` (extends `Room`) | clients with a `StateListener`, whose components come and go, and the room |
| `SocketServer` (extends `Room`) | the stand-alone server: a task per socket, its channel, control frames, HTTP posts, a restart |
| `Worker` (extends `Store`) | a room as a durable object: the store in memory, its copy in storage, the queue of storage operations, the alarm, eviction and reload |
| `WorkerTrace` (extends `Worker`) | the worker with ghosts beside it: what was in memory at the last eviction, which puts were outstanding, which numbers clients know, the highest number they were told by any incarnation of the room |
| `WorkerRetention` (extends `Worker`) | the worker with a clock beside it that starts again at every write: how long what was stored is there |
| `KeyCodec` | the names under which the worker stores entries, and the listing of names |
| `Client` | a `DbConnection`, its sockets and their handlers, its queue and timers, and the network |
| `Provider` (extends `Client`) | `DriftDBProvider` and the hooks on status, latency and QR code around that client: the request for a room, mounting and unmounting, changing props |
| `Presence` | `PresenceListener`s on a clock, and the messages between them |
| `WebRTC` | pages that negotiate over two streams; the `RTCPeerConnection` as the code uses it |
| `MC...` | the modules above, for TLC: which clients are restless, which actions are pushed, symmetry sets, and the assumptions on pure functions that TLC evaluates |
| `RoomProofs`, `DeliveryProofs`, `ReducerProofs`, `SharedStateProofs`, `PresenceProofs`, `ClientProofs`, `WebRTCProofs`, `WorkerProofs` | the theorems: `RoomProofs` has those about `Store` and `Room`, `DeliveryProofs` those about `RoomTrace` and `SocketServer`, `ClientProofs` those about `Client` and `Provider` |

Composition follows the code. `Room` extends `Store` because the database owns
the store; `Reducer`, `SharedState` and `SocketServer` extend `Room`, so their
clients act on the room itself and not on an assumption about it; `Provider`
extends `Client` in the same way. `Worker` extends `Store` alone: what the
connections are told is the same for both servers and is checked in `RoomTrace`.
`Presence` and `WebRTC` use of the room only that it relays, or retains and
delivers once and in order, which are properties of `RoomTrace`.

**State.** `subjects` and `sequence_number` are the fields of `Store`; a key
that is not in the `HashMap` and one with an empty log answer alike and are both
`<<>>`. `subscriptions[key][conn]` counts how often a connection is in the
key's `Vec` of listeners (it is pushed once per `get`, and gets a copy of each
broadcast for each time). `debug_connections` is the other `Vec`, where a
connection is once. `status` says whether a `Weak` reference can still be
upgraded. `inbox[conn]` is what the connection's callback has been given. In
`Room` and `RoomTrace` nothing consumes it, so it is all a connection was ever
told; in `Reducer` and `SharedState` it is a FIFO queue that the client empties,
in `SocketServer` the channel that the task empties. `Capacity` is the size of
that channel (32 in the program): `Offer` drops what does not fit, as the
`try_send` of `handle_socket` does.

**Steps.** `send_message` takes the database's mutex first and releases it last,
and calls the callbacks in between; so does `connect_debug`. Each is therefore
one action, and concurrency is the interleaving of actions. `Drop` is the end of
the last `Arc`: references to it stay in the lists, dead, until a push tries
them. A debug connection learns the streams in an order the `HashMap` picks, so
`ConnectDebug` picks any. In the client, each action is one JavaScript callback,
which runs to its end.

**The stand-alone server.** A task runs from one await to the next: `Receive` and
`Forward` are the two branches of the `select!` of `handle_socket`, and either is
taken when both are ready. `recv` takes a message from the socket *before* its
loop (`server.rs:43`), so a ping of the client is answered for ever (`task` is
`"answer"`) and a pong spins (`"spin"`); dropping the future when the other branch
is ready gets the task out of the first only. `Vanish` is a client that is gone without a word, and
`Fail` the task's noticing it, which may happen at any time and must happen only once there is
something to send (`SomethingToSend`): `handle_socket` has no timeout and sends no ping. A post is two steps, the upgrade of
the room and the message, for other tasks run in between. `Restart` empties
`room_map`, and what asks for the room afterwards panics.

**The worker.** Rust code runs between two awaits without interruption, and each
await of the worker is for an operation on storage. `ops` is the FIFO queue of
the operations issued, and each `Exec` action carries out the oldest and issues
what its task issues next, so the tasks of several pushes overlap exactly as far
as the platform lets them. With `InputGates = TRUE` it delivers no event while
storage is at work, as Cloudflare documents of durable objects; gates and storage
are external and are modelled from that. `Evict` removes memory and what was
issued, at any step (`Crashes`) or only when idle. `StorageFails` makes lists and
reads fail: a failed list skips the deletion but not the put (`state.rs:87`), a
failed read starts an empty room (`state.rs:66`). Clients outlive the room: `Requests` of
`WorkerTrace` lets them compact at any number that any incarnation of the room has told
them (`told`), and a room that was compacted ahead of itself so is exempt, until it is
loaded again, from what is said of storage (`lost`), and from then on from what is said of
its numbers (`CutShort`), as is one that was cleared. Time is ticks until the alarm.
`KeyCodec` writes storage names out character by character, because the listings
of the worker depend on their order.

**The client.** `timer` is the running timer of `reconnectLoopHandle`; `strays`
counts the timers whose handle was overwritten and that nothing can stop any more.
A socket that was closed is forgotten and its place used again, so a behaviour may
be infinite with three sockets. A cut connection loses what was in flight; `queue`
is what the code keeps. `unsubscribe` changes nothing in the code and so nothing
here: it looks for the quoted key (`index.ts:328`).

**The provider.** `requests` are the promises of the API that are pending: each
may resolve after the provider was unmounted or its effect has run again, and
connects all the same. `late` remembers that a cleanup found a request or a
reconnect under way, in which cases the code does leave a connection behind.
`listening` tells a hook that was mounted before there was a connection from one
that comes later and is not told the status until it changes.

**Presence.** `now` is the clock. A timer fires at most `Slack` after it is due and
a message takes at most `MaxDelay`; the clock waits for both, and that is all that
is assumed of time. `updateHandle` is the timer whose handle the listener has, and
`strays` those it has lost: `subscribe` overwrites the handle of one that
`updateState` may have set (`presence.ts:74`), so `Early` lets states change first.

**WebRTC.** `pc[me][peer]` is a `PeerConnection` of `webrtc.ts`: its signalling
state, whether an offer is being made or ignored, how much of the peer's stream is
read. Descriptions are set one after the other by a chain of operations, as the
standard says of `RTCPeerConnection`, and `Operate` does the next. `session` names
the offer that an end has settled on. `Leave` closes a page and `Load` may load one in the same
tab later, with a new id, or never. `Expire` is the interval of the presence listener, which deletes
a peer and calls nobody (`presence.ts:79`); `Sync` runs only when somebody is heard (`Hear`).

**Data.** Values, keys and connections are model values. In `Reducer` a value
is an action's identity or a snapshot, and a state is the sequence of actions
applied: two clients agree under every reducer function exactly if these
sequences are equal. In `SharedState` a value is the number of the call that set
it. A client chooses a compaction's number: the API takes any
(`RawCompaction = TRUE`), the clients of this repository only take the number
of an entry they have confirmed, so at most the last of the room that told them
(`FALSE`). A `Compactor` keeps that number when the room behind it is cleared, or cut
short, and loaded again, and may then be ahead of it. Rooms of the stand-alone server are never
loaded again under their name, so this concerns the worker alone, and `WorkerTrace` has it.

**Slips.** Definitions such as `RetainAfter_Inclusive` are never part of a
specification. Each is a plausible mistake in the definition it stands in front
of; put in its place it breaks the property that `PROJECT.json` names, which
shows that the property can fail.

## What TLC checks

| Run | Shows | Bounds, and why they are enough |
|---|---|---|
| `Room.cfg` | `RoomTypeOK`; `PushesInOrder`; `DebugMirrorsStreams`; `SubscribersFollowHistory`; `ReplayJoinsLive`; of the store `StreamsSorted`, `StreamsHoldUnsuperseded` and that it implements `StreamMap` | 2 connections, plain or debug, 2 keys, 4 requests: append, compact, replay, append, between connections that come and go |
| `Reducer.cfg` | `ReducerTypeOK`; `ConfirmedIsHistory`; `ReplayIsHistory`; `CompactionsAtSeenNumbers`; `AllConfirmedAtRest`; `ComesToRest`: the compactions die out | 3 clients, 3 dispatches, compaction from 2 entries on: two snapshots in flight at once with an append between them, and a client that joins late |
| `ReducerStates.cfg` | *violation* of `StatesAgreeAtRest` (`react.md:103`) | 2 clients, one of which mounts a second component, 3 dispatches, channels of 4 |
| `SharedState.cfg` | `UnsentIsDue`; `OthersShowStream`; `LastSetIsSent` | 2 clients, one of whose components comes back, 2 calls: two sets that cross, and a timer that outlives its component and fires after its successor's |
| `Presence.cfg` | `UnsentIsDue`; `UpdatesApart`; `SilentPeersGo`; `LivePeersKept` | 2 clients, intervals of 1 and 2, timers 1 late, 2 changes, 10 ticks: five times the longer interval, so that two expiries and two updates that are late follow each other, and a stray timer beside |
| `WebRTC.cfg` | `OneSession`; `PeersConnect`; `GhostsGo` | 2 tabs, ids in either order, one page left, for good or to be loaded again, or one failure at any point, one value: negotiation is between pairs, and a third id is that of the page loaded anew |
| `SocketServer.cfg` | `TellsForward`; `ClosedIsDropped` | 2 connections, 3 frames, channels of 2: a replay with a push behind it, and a push that finds the channel full |
| `Worker.cfg` | `WorkerTypeOK`; `StoredIsRetained`; `RetainedIsStored`; `KeptNumbersNotReused`; `ReloadLosesOnlyPending`; and what is assumed of `KeyCodec` | 2 keys, 3 numbers, 4 operations outstanding, eviction at every step, failing lists and reads: a push, a compaction that deletes and a replace, each cut short anywhere |
| `WorkerRetention.cfg` | *violation* of `PersistedAfterWrite` (`index.mdx:96`) | 1 key, an alarm 2 ticks after a message, writes on a socket or over HTTP, eviction at every step, reads that fail |
| `Client.cfg` | `ClientTypeOK`; `EachSentOnce`; `RestsConnected`; `ReconnectsOnlyWhenDown`; `QueueIsSent` | 3 sockets, 2 messages, 2 calls of `connect`, 2 cuts: a cut while reconnecting, a close reported after the next socket has opened |
| `Provider.cfg` | `HooksReachRoom`; `ShowsRoomItIsIn`; `LeavesRoom`; `LatencyIsMeasured` | 2 rooms of which one need not be there, 2 runs of the effect, 2 cuts: a cleanup at any point of a request, a handshake or a reconnect |
| `ProviderRooms.cfg` | *violation* of `PageIsInItsRoom` (`index.tsx:40`, `js.md:100`, `js.md:106`) | 2 rooms, 2 runs of the effect, a hook, 1 cut |

The numbers, requests, dispatches and times are bounded (`MaxSeq`, `MaxRequests`,
`MaxDispatch`, `MaxTime` and so on), so every run may stop and is checked with
`CHECK_DEADLOCK FALSE`. Connections, keys and states are interchangeable, and
permuted as symmetries in the runs with `SYMMETRY` in their cfg; no such run checks
liveness. `SizeThreshold` is 1 where the program's default is 30: a snapshot is
taken as soon as there is anything to take one of, which makes them collide most
often. `Capacity` is 32, as in the program, except where channels are to fill: in `ReducerStates.cfg`
and the run of the server.

The variables that `RoomTrace` and `WorkerTrace` add are histories that no action of
the code reads; those of `Client` and `Reducer` that the code does not have (`received`,
`sends`, `history` and the like) only record.

**The violations** are disagreements between the repository's words and its
code. Each run has one property that the code misses in several ways; TLC shows the
shortest, and the others with the constants given here.

* `ProviderRooms`: `props.room` changes while the first request is pending, and the first
  answer comes last: the client is in the first room, the page was given the second
  (`index.tsx:74`). With `MaxEffects = 1`: after a reconnect nothing sends the `get`s again,
  so that the client is connected and hears nothing (`index.ts:117`). Longer than both: `connect`
  closes the old socket but leaves its handlers on (`index.ts:82`), and the timer that its
  close starts goes back to the room that was left.
* `ReducerStates`: a client dispatches `a`; before the echo, another client's
  `b` arrives and resets the shown state to the confirmed one (`compactor.ts:122`),
  which lacks `a`; the echo of `a` then extends only the confirmed state, because
  the message is the client's own (`compactor.ts:121`). The client goes on showing
  `b` without `a` until somebody else dispatches. With `Optimistic = FALSE` and a `Capacity` of 32:
  a component is mounted on a connection that already hears the stream, and a broadcast
  that is on its way reaches the new `Compactor` before its replay does, is applied to the
  initial state, and makes the entries of the replay, which have lower numbers, look old
  (`compactor.ts:100`). When the next size makes it compact that state, the history is gone for
  everybody, against `react.md:105`; one `Compactor` per connection excludes this, which
  `ReducerProofs` proves. With `Optimistic = FALSE`, `Capacity = 2` and `Restless = {}`: a channel is
  full and a client misses an action for good (`server.rs:100`, against `data-model.md:44`). With
  `Optimistic = FALSE`, one component per client and `Capacity = 32` the property holds.
* `WorkerRetention`: the room is evicted, the read of its storage fails, and it begins empty
  (`state.rs:66`). With `StorageFails = FALSE` and no socket: a replace or a compaction has deleted
  what it supersedes, its put is still to come (`state.rs:93`), and the object vanishes: the stream
  is gone, and not only the push. With `StorageFails` and `Crashes` both `FALSE`: a message on a
  socket sets the alarm; a value is posted over HTTP, which does not put it off
  (`dbroom.rs:121`), and cleared a tick later.

Some modules end with properties that documents state and the code misses, and that are not
in a run's cfg. TLC finds each violated in the module's own run, if it is asked for it there:

| Property | Against | The counterexample |
|---|---|---|
| `RoomTrace`, `ConnectedHearEverything` | `api.md:23` | a connection that has sent no `get` hears nothing (`db.rs:79`) |
| `SocketServer`, `RepliesAreSent` | `api.md:99` | a client asks for a stream and then sends a pong, as web sockets allow. The task looks at the pong for ever, without an await (`server.rs:43`), and the reply stays in the channel |
| `WorkerTrace`, `NumbersAreUnique` | `data-model.md:75` | a relayed message takes a number and is not stored; after an idle eviction the room continues below it (`state.rs:172`) |
| `WorkerTrace`, `RepliesIncrease` | `api.md:120` | a `Compactor` that outlives a room that was cut short or cleared compacts ahead of the one that is loaded then (`store.rs:157`) |
| `Client`, `StaysDisconnected` | `index.ts:196` | `disconnect` while the timer of a reconnect runs: the timer is not stopped |
| `SharedState`, `AllShowStream` | `react.md:48` | a component sets a value before its replay, or another's value, has come in; that is shown when it comes, and the echo of its own is ignored (`state.ts:40`) |
| `Presence`, `UpdatesKeepApart` | `presence.ts:53` | `updateState` sets a timer, `subscribe` overwrites its handle (`presence.ts:74`), and both go on: with timers in time (`Slack = 0`), intervals of 2 and 4, and `MaxTime = 12` |
| `WebRTC`, `ValuesOfThoseThere` | `index.tsx:364` | the only other tab is closed. Its presence expires in silence (`presence.ts:82`), `sync` is not called, and its value stays. `GhostsGo` says what does hold |
| `WebRTC`, `AllPeersAreReached` | `index.tsx:332` | the failure handler's threshold is twice the size of `connMap` when that was empty, so 0; the first failure closes the connection (`webrtc.ts:109`), and `sync` opens none to a peer that `connMap` has |

Found on the way, with the same models and other bounds:

* If every handshake takes longer than the timer, a client whose application has called
  `connect` twice never settles: each attempt is torn down by the timer that the close
  of the one before has started. `QueueIsSent` is therefore claimed only for applications
  that call `connect` once.
* With a `Capacity` of 2 a client misses an action because its channel was full,
  hears a later one, and compacts at the later one's number: the action is gone for
  everybody who joins (`react.md:105`). It takes a backlog of 32 with the program's
  channels. With 2 or 3, `ComesToRest` fails as well: a client that missed
  broadcasts compacts at its old number for ever.
* A ping of a client keeps the task answering, and a close behind it is not received
  (`server.rs:43`): the exception that `ClosedIsDropped` makes.
* A debug connection that also subscribes is shown a changed stream just before the
  push that changed it, for `push` serves the debug connections first and the listeners
  of the key after them (`db.rs:32`, `db.rs:79`): the entry comes twice, once as retained and once
  live. `TellsForward` allows it there and nowhere else. With channels of one message the
  push that follows the stream is always dropped, so it takes two to see this.
* A client that vanishes without a word while its room is idle stays a connection of it for
  ever (`server.rs:116`). `ClosedIsDropped` speaks of one whose room has something for it.
* `stream_size` is sent from two entries on, not on growth
  (`db.rs:91`, `api.md:71`); a compaction at a number that the stream was already
  rolled up to is not ignored (`types/mod.rs:63`).
* `onMessage` of the WebRTC hook calls back before it keeps the value
  (`webrtc.ts:126`), so the map that an application sees lacks the last value
  (`driftdb-react/src/index.tsx:331`).
* With `InputGates = FALSE` storage may keep what memory has dropped: two replaces that list
  before either has put both find nothing to delete, so `StoredIsRetained` fails and only
  `RetainedIsStored` is left, which TLC finds to hold of three pushes on one key whose tasks
  interleave at every await. If lists fail as well, an overtaken put
  writes over a newer value.

**Fairness.** Nothing forces an application, a user or the network to do anything
new: to subscribe, dispatch, mount, set, connect, cut or leave. Weak fairness is
assumed of what is under way.

* `ReducerSpec`: per client, the room serves what was sent (the socket task's
  loop) and the client handles what it was sent (the browser's event loop).
  `ComesToRest` needs no more: a compaction is answered by a size, and what keeps it
  from going round is that a snapshot at a client's last confirmed number removes
  everything up to it.
* `SharedSpec`: per client, `Progress`: time passes, timers fire, server and event
  loop go on.
* `ClientSpec`: the browser fires timers, and the network goes on with what is under
  way: a socket that keeps connecting opens unless it is cut, a close ends, messages
  arrive. It cuts at most `MaxFailures` times; `QueueIsSent` is a statement about a
  network that works in the end.
* `ProviderSpec`, `RTCSpec`: `GoOn`, that something of all this goes on as long as
  anything can. That is less than fairness to each part, and enough where each step
  leaves less under way.
* `ServerSpec`: per connection, a task that is ready is polled, and takes one of its
  ready branches; `select!` picks at random, and no branch is promised. That a client has
  vanished makes a task ready only if it has something to send: fairness includes `Fail` only
  under `SomethingToSend`.
* `PresenceSpec` has none. Its properties are bounds on real time, and hold because
  the clock waits for timers and messages.

**Assumptions that TLC evaluates.** `MCRoomTrace` assumes, over all short streams,
sorted or not, that `RetainAfter`, written as a recursive function for the provers,
is the `filter` of the code. `MCWorker` assumes of `KeyCodec`, over all keys of up
to two characters, digits and separators among them: that a name gives back its key
and number (`RoundTrip`), that the listing by prefix is exactly the stream
(`ListsStream`), that the listing up to a compaction is what the compaction drops
(`ListsUpToCompaction`), and that names sort as their numbers do (`LoadsInOrder`), which
is what `Worker` takes them for.

## What TLAPS proves

For any set of keys, values, connections, sockets and clients, and any bounds. The
assumptions are those the modules name beside their constants.

*The store and the room* (`RoomProofs`, whose part on the store `WorkerProofs` uses too):

* `StoreTypeCorrect`: `StoreSpec => []StoreTypeOK`.
* `StreamsStaySorted`: `StoreSpec => []StreamsSorted`, if clients compact only
  at numbers handed out (`~RawCompaction`; without it TLC shows the violation).
  `StreamsSorted` is inductive because it bounds the entries by the last number
  as well as ordering them: a new number is above all entries, and a compaction's
  number is below all entries it keeps.
* `StoreImplementsMap`: the refinement, step by step: relay, append, replace and
  compact of the store are those of `StreamMap` under `ImageOf`. It rests on
  `NumberDeterminesEntry`, for which the order is needed.
* `RoomImplementsStore`: `RoomSpec => StoreSpec`; every step of a room is a step
  of its store or leaves it alone. `RoomStreamsSorted` carries the order over.
* `RoomTypeCorrect`: `RoomSpec => []RoomTypeOK`.
* `PushesStayInOrder`: `RoomSpec => []PushesInOrder`. The inductive invariant is
  `OrderInv`: the order, and that no broadcast on its way carries a number above
  the room's last one. A push delivers only its own, new number, behind them.

*What streams hold and clients are told* (`DeliveryProofs`):

* `OnlySupersededLeave`: `TraceSpec => []StreamsHoldUnsuperseded`, for compactions at any number. A
  stream's entries are exactly those of the pushes to its key that no later replace, and no later
  compaction at their number or above, has superseded: so no operation takes away anything
  else, or anything of another key. The history has every push with its action and its entry,
  so the invariant is inductive as it stands, once the entries are known to be typed: a push
  adds itself, if it is retained, and supersedes what it is said to.
* `ClientsFollowHistory`, `ReplaysJoinLive`, `DebugConnectionsMirror` state what
  `RoomTrace` promises to clients, if they compact only at numbers handed out. The
  three properties speak of clients whose channel has not been full (`KeepsUp`); they have
  to, for what does not fit is dropped. The inductive invariant is `TraceInv`. For each
  connection and key it says that what the connection was told since it subscribed are the
  broadcasts of the history since then, each as often as it subscribed (`Follows`); that an
  entry the stream retains is in the replay, or was told after it, or was made by a
  compaction (`Replays`); and that the last stream sent to a debug connection is the
  stream (`Mirrors`). The properties count a single subscription; the invariant has to know
  of every number of them, and of the connection before it subscribes.
* `ServerTypeCorrect` and `ClientsAreToldForward`: `[]TellsForward` across sockets, posts,
  overflowing channels and restarts, if the compactions that wait to be received are at
  numbers handed out (`CompactsHandedOut`, a condition on what clients send). `ServerInv` adds
  that no number told or retained is above the room's last one, and that nothing is on
  its way to a connection that is not there, so that a socket which opens begins with
  nothing before it, and a restart, which sets the numbers back, with nothing told.

*The reducer* (`ReducerProofs`):

* `ReducerImplementsStore`: whatever its clients do, the stream sees only steps of
  `Store` as restricted by `~RawCompaction`, so the theorems about the store hold of
  it. The invariant behind it, `ReducerInv`, says that everything under way, requests,
  messages and what Compactors have confirmed, carries only numbers handed out.
* `ReducerTypeCorrect` and `CompactionsAtNumbersSeen` follow from it, with any
  number of Compactors on a connection and also if channels overflow.
* `ConfirmedStaysHistory`, `ReplayStaysHistory`, `AllStayConfirmedAtRest`: that
  compaction is faithful. They have two provisos, `OneEach` (a client has one
  Compactor) and that no channel is full, and need both: `ReducerStates.cfg` allows
  a second Compactor and channels that fill, and either makes clients disagree. The inductive invariant is `HistoryInv`. It
  says that the stream is `Complete`: every entry is true to the history, a snapshot
  being that of the history up to its number, every action has the entry before it
  unless it is the first, and the last number has an entry. So a snapshot that comes
  late and in front of a newer one only repeats a part of the past. Every snapshot on
  its way is true as well, and each client is either waiting for its first replay, with
  nothing before it, or has confirmed a prefix that the messages in its inbox continue
  without a gap.

*The client* (`ClientProofs`):

* `ClientTypeCorrect`: `ClientSpec => []ClientTypeOK`, which includes that no
  socket but the one in use is open or opening.
* `ReconnectsWhenDown`: `ClientSpec => ReconnectsOnlyWhenDown`. The inductive
  invariant is `ReconnectInv`: after one call of `connect` there is one socket or
  one timer and never both (`SingleChain`). Types alone do not exclude a timer
  beside an open socket; that each close follows on one connect does.
* `ComesToRestConnected`: `ClientSpec => []RestsConnected`. `ComebackInv` names what
  brings a client back as long as it has not disconnected: a timer, a close that will
  be reported because its socket still has its handlers, an attempt, or an open
  connection that it knows of. A reported close finds the room to go back to on the
  socket it is of.
* `SendsEachOnce`: `ClientSpec => []EachSentOnce`. `OnceInv` adds to the property
  that nothing is queued behind a connection that is known to be open
  (`SocketsOK`), without which a later message could be sent before an earlier one,
  and that what was left on the sockets before is in order and older than what waits.

*The provider* (`ClientProofs`), without any condition on `ProviderSpec`:

* `ProviderInvariant` carries the client's types and `ComebackInv` over to the provider, whose
  effects, cleanups and late answers call `connect` and `disconnect` in their own way.
* `UnmountLeaves`: `ProviderSpec => []LeavesRoom`. `LeaveInv` says why: unless it was `late`,
  an unmounted provider has no request, no timer, no stray timer, and no socket but one that is
  closing without its handlers, which starts nothing (`NothingUnderWay`).
* `PageShowsItsRoom`: `ProviderSpec => []ShowsRoomItIsIn`. `PageInv` says that as long as the effect
  has run once, every request, timer and socket, of old connections too, leads to one room;
  `ShownInv` that a hook which listens follows the status, and knows the room in the URL
  whenever there is a connection.
* `HooksAreHeard`: `ProviderSpec => []HooksReachRoom`. In `HookInv`, the get of every subscription is
  queued, sent or in the room (`OnItsWay`), and the connection is the first one: a second
  would need a timer, and a timer a close.

*Presence* (`PresenceProofs`):

* `PresenceTypeCorrect`; `UnsentStaysDue`, `UpdatesStayApart`,
  `SilentPeersAreForgotten` and `LivePeersStayKnown` state the four properties of the
  run for any intervals, lateness and delay. In `PresenceInv`, a listener that has told
  anything has a timer due within `MaxInterval + Slack` of its last update, by whichever
  handle; what is known of a peer is its last update, or a message that tells the next
  one is on its way; and an expiry looks at it within three intervals. A live peer is
  kept because an update comes at most `MaxInterval`, two latenesses and a delay after the
  one before, and the code forgets after `2 * MaxInterval`: that is where the proviso
  `MaxDelay + 2 * Slack <= MaxInterval` comes from.

*WebRTC* (`WebRTCProofs`):

* `EndsShareSession`: `RTCSpec => []OneSession`. `RTCInv` describes each end by what it has
  sent and got alone, because streams outlive pages: an end need not know whether the other
  is still there. There is one offer at most each way and one answer at most, for an offer
  of the other; only a polite end sends both, the offer first (`SignalsInOrder`). Beside that an
  end is idle, making an offer, waiting for its answer, answering, or settled by an answer that
  it sent or got, and in each case the invariant says which descriptions can still be in its
  chain of operations (`EndOK`).
* `PeersAreKnown`: `RTCSpec => [](RTCTypeOK /\ PagesInv)`. No end is made twice: ids are not
  used again, and a connection that is there means that its peer has been heard of.

*Shared state* (`SharedStateProofs`):

* `NothingUnsentForgotten`: `SharedSpec => []UnsentIsDue`. In `SharedInv` every listener is a
  `DueListener`, one whose timer runs if and only as long as it has something to send; what it
  shows, the one field that others reach, does not matter to that.
* `OthersAreShown`: `SharedSpec => []OthersShowStream`, if no channel is full (`ChannelsHold`): a
  client that is not told of the last value cannot show it. `HeardInv` says of the last
  listener of each client that it is subscribed or its get is under way, and that the
  stream's value is its own, or a get of its client is still to be served, or it will overwrite
  the value with one that it has sent or has a timer for, or it will show the value once it has
  handled the messages that wait for it (`WillShow`). `SharedInv` supplies that the stream and
  what is told of it have one entry at most, because every set replaces.

*The worker* (`WorkerProofs`):

* `WorkerTypeCorrect`: `WorkerTraceSpec => []WorkerTypeOK`, with input gates or without.
* `StorageMirrorsMemory`, `StorageKeepsMemory`, `KnownNumbersStay` and `ReloadBringsBack` state the four
  properties of `Worker.cfg`, for any streams, sockets and evictions, behind input gates
  and with clients that compact only at numbers that this or an earlier incarnation of the room
  has handed out. A compaction ahead of the room as it is now ends what the first two and the
  last claim until the next load, and what the third claims for good. `WorkerInv` says of a stream that every
  entry it retains is stored or is what the operation under way will put, that whatever
  else is stored is what that operation will delete, unless a list has failed (`leftover`),
  and that it deletes nothing that is retained (`Mirrored`); that one operation is
  outstanding at most (`Gated`), which is what the gates give; and what was in memory at the
  last eviction (`Remembered`, `Recalled`), which has to survive as long as nothing is loaded.

`RoomProofs` proves induction over the natural numbers for sets (`NatSetInduction`)
from well-foundedness of finite subsets, because the library's theorems quantify over
operators; `RetainAfterFacts` uses it. `SharedState` assumes that its values are the
pairs that clients wrap them in (`ValueAssumption`); TLC evaluates this.

Only model-checked: liveness (`ComesToRest`, `QueueIsSent`, `LastSetIsSent`, `PeersConnect`,
`GhostsGo`, `ClosedIsDropped`, `LatencyIsMeasured`), which is out of this prover's reach. Every
other invariant and every action property of the passing runs has a theorem, those on storage
with input gates alone. The properties that TLC finds violated have none, being false.

## Not modelled

* The worker's entry point (`lib.rs`, `config.rs`, `websocket.rs`, `utils.rs`): it
  routes a request to the durable object of its room and keeps nothing.
* Serialisation as JSON and CBOR, logging, the command line of the server, the
  documentation site, the demos and rendering. The demos keep no shared state beside
  that of the hooks; their reducers are the function that `Reducer` takes in its
  most general form.
* Of `Client`: the promise that `connect` returns, with the flag `closed` that only it
  reads, and status listeners that send or connect.
* Of `Reducer`: a Compactor that dispatches before it subscribes or is subscribed
  twice, and reconnection, after which it is told nothing (`ProviderRooms.cfg`).
* A deletion or put of the worker that fails: the task panics.
* The `u64` of a sequence number is a natural number; to overflow it takes a
  compaction at the largest one and a reload.
