------------------------------- MODULE WebRTC -------------------------------
(***************************************************************************)
(* Clients that connect to each other (js-pkg/packages/driftdb/src/        *)
(* webrtc.ts): each tells its id through a PresenceListener, opens a peer  *)
(* connection for every id it hears of, and exchanges offers, answers and  *)
(* candidates over two streams of the room, one per direction.             *)
(*                                                                         *)
(* A peer connection is the browser's.  Its descriptions are set one after *)
(* the other by a chain of operations, and what a handler does once its    *)
(* await is over it does in the same step.  The streams retain what is     *)
(* sent and deliver it once and in order (module RoomTrace); a client that *)
(* is there is heard again and again, so that what has been heard of it    *)
(* does not expire before it leaves (module Presence).                     *)
(***************************************************************************)
EXTENDS Naturals, SequencesExt, FiniteSets

CONSTANTS
    Client,         \* the browser tabs
    Id,             \* the ids there are; their order is that of the strings
    Restless,       \* those whose page may be left
    FirstIds,       \* the ids that the first pages may have
    NoId,           \* in place of an id: none
    MaxSends,       \* bound on the values that are broadcast
    MaxFaults       \* bound on the pages left, and the failures between pages that are there

ASSUME IdAssumption == Id \subseteq Nat /\ NoId \notin Id
ASSUME FirstIdsAssumption == \A ids \in FirstIds : ids \in [Client -> Id] /\ IsInjective(ids)
ASSUME MaxAssumption == MaxSends \in Nat /\ MaxFaults \in Nat

VARIABLES
    myId,           \* per client, the id of the page it has loaded last
    gone,           \* the clients whose page is left
    used,           \* the ids that pages have had
    presence,       \* per client, the id it has last heard from each other one
    connMap,        \* per client, the peers it sends to
    peersToLastMsg, \* per client, the peers it has a value of
    pc,             \* per id and peer, the peer connection that id has made
    stream,         \* per id and peer, what the peer has sent it, in the room
    data,           \* per id and peer, how many values are on their way to id
    sends, faults \* counters

pageVars == <<myId, gone, used, presence, connMap, peersToLastMsg>>
rtcVars == <<pageVars, pc, stream, data, sends, faults>>

Message ==
    [type : {"offer", "answer"}] \cup [type : {"candidate"}, of : {"offer", "answer"}]

\* What joins the chain to set the local description.
Local == [type |-> "local"]

\* `session`: whose offer was answered.  `read`: how much of the stream the
\* subscription has delivered.  `gathering`: the description whose candidates are to
\* come.  `reachable`: whether a candidate of the peer's description was added.
\* `send`: whether the peer's data channel is there to send on.
NoConnection ==
    [status |-> "none", signalingState |-> "stable", session |-> NoId,
     makingOffer |-> FALSE, chain |-> <<>>, read |-> 0, gathering |-> "none",
     reachable |-> FALSE, send |-> FALSE]

\* createWebRTCConnection and the data channel, which makes a negotiation needed.
NewConnection == [NoConnection EXCEPT !.status = "open"]

\* The id of a tab, in its session storage: a page loaded again has that of the page
\* before.  It is what presences are kept under, and not the id that peers call.
ClientId(client) == client

Open(me, peer) == pc[me][peer].status = "open"
Loaded(id) == \E client \in Client \ gone : myId[client] = id

-----------------------------------------------------------------------------
(***************************************************************************)
(* Pages and their peers.                                                  *)
(***************************************************************************)

\* The page is left, for a while or for good: its connections, and what it has heard,
\* are no more.
Leave(client) ==
    /\ client \in Restless \ gone
    /\ faults < MaxFaults
    /\ faults' = faults + 1
    /\ gone' = gone \cup {client}
    /\ presence' = [presence EXCEPT ![client] = [other \in Client |-> NoId]]
    /\ connMap' = [connMap EXCEPT ![client] = {}]
    /\ peersToLastMsg' = [peersToLastMsg EXCEPT ![client] = {}]
    /\ pc' = [me \in Id |-> IF me = myId[client] THEN [peer \in Id |-> NoConnection] ELSE pc[me]]
    /\ data' = [me \in Id |-> IF me = myId[client] THEN [peer \in Id |-> 0] ELSE data[me]]
    /\ UNCHANGED <<myId, used, stream, sends>>

\* The page is loaded again in the same tab, with an id of its own.
Load(client) ==
    \E id \in Id \ used :
        /\ client \in gone
        /\ gone' = gone \ {client}
        /\ myId' = [myId EXCEPT ![client] = id]
        /\ used' = used \cup {id}
        /\ UNCHANGED <<presence, connMap, peersToLastMsg, pc, stream, data, sends, faults>>

\* addNewConnection for those of the peers that connMap does not have.
AddNewConnections(client, peers) ==
    pc' = [pc EXCEPT ![myId[client]] = [peer \in Id |->
              IF peer \in peers \ connMap[client] THEN NewConnection ELSE @[peer]]]

\* Slip: the values of peers that are gone are kept.
Sync_KeepsValues(client, peers) ==
    /\ AddNewConnections(client, peers)
    /\ connMap' = [connMap EXCEPT ![client] = peers]
    /\ UNCHANGED peersToLastMsg

\* sync: the connections of peers that are gone are forgotten, not closed.
Sync(client, peers) ==
    /\ AddNewConnections(client, peers)
    /\ connMap' = [connMap EXCEPT ![client] = peers]
    /\ peersToLastMsg' = [peersToLastMsg EXCEPT ![client] = @ \cap peers]

\* Whether all that the peer sent is delivered.
AllRead(me, peer) == Open(me, peer) => pc[me][peer].read = Len(stream[me][peer])

\* The presence of another client arrives, and the callback gets that of all.  One
\* socket brings it and the signals, so that those of the page before come first.
Hear(client, other) ==
    /\ client # other /\ {client, other} \cap gone = {}
    /\ presence[client][other] \notin {NoId, myId[other]}
          => AllRead(myId[client], presence[client][other])
    /\ presence' = [presence EXCEPT ![client][ClientId(other)] = myId[other]]
    /\ Sync(client, Range(presence'[client]) \ {NoId})
    /\ UNCHANGED <<myId, gone, used, stream, data, sends, faults>>

\* The interval of the presence listener takes away what it has not heard for long, and
\* calls nobody.  By then what the page had sent before it was left is delivered.
Expire(client, other) ==
    /\ presence[client][other] # NoId
    /\ ~Loaded(presence[client][other])
    /\ AllRead(myId[client], presence[client][other])
    /\ presence' = [presence EXCEPT ![client][ClientId(other)] = NoId]
    /\ UNCHANGED <<myId, gone, used, connMap, peersToLastMsg, pc, stream, data, sends, faults>>

-----------------------------------------------------------------------------
(***************************************************************************)
(* Signalling.                                                             *)
(***************************************************************************)

\* Slip: the order is taken as each end meets it.
Polite_Nobody(me, peer) == FALSE

\* SignalingChannel.polite
Polite(me, peer) == me < peer

\* sendSignalingMessage, on the stream that the peer subscribes to.
SendSignalingMessage(me, peer, message) ==
    stream' = [stream EXCEPT ![peer][me] = Append(@, message)]

\* onnegotiationneeded, which the browser calls when nothing is under way, until the
\* data channel is negotiated; it starts to set the local description.
OnNegotiationNeeded(me, peer) ==
    LET conn == pc[me][peer]
    IN  /\ conn.status = "open" /\ conn.session = NoId
        /\ conn.signalingState = "stable" /\ conn.chain = <<>>
        /\ pc' = [pc EXCEPT ![me][peer].makingOffer = TRUE, ![me][peer].chain = <<Local>>]
        /\ UNCHANGED <<pageVars, stream, data, sends, faults>>

\* Slip: an offer is taken whatever is under way.
IgnoresOffer_Never(me, peer) == FALSE

\* ignoreOffer
IgnoresOffer(me, peer) ==
    /\ ~Polite(me, peer)
    /\ pc[me][peer].makingOffer \/ pc[me][peer].signalingState # "stable"

\* onMessage, until its first await: what it asks the connection to do joins the chain.
OnMessage(me, peer) ==
    LET conn    == pc[me][peer]
        message == stream[me][peer][conn.read + 1]
    IN  /\ conn.status = "open"
        /\ conn.read < Len(stream[me][peer])
        /\ pc' = [pc EXCEPT ![me][peer].read = @ + 1,
                            ![me][peer].chain =
                                IF message.type = "offer" /\ IgnoresOffer(me, peer) THEN @
                                ELSE Append(@, message)]
        /\ UNCHANGED <<pageVars, stream, data, sends, faults>>

\* setLocalDescription, then what waits for it: an offer, or the answer if there is a
\* remote offer.
SetLocalDescription(me, peer) ==
    LET conn == pc[me][peer]
        type == IF conn.signalingState = "have-remote-offer" THEN "answer" ELSE "offer"
    IN  /\ Head(conn.chain).type = "local"
        /\ pc' = [pc EXCEPT ![me][peer] =
                     [conn EXCEPT !.chain = Tail(@), !.gathering = type,
                         !.signalingState = IF type = "answer" THEN "stable" ELSE "have-local-offer",
                         !.session = IF type = "answer" THEN peer ELSE @,
                         !.makingOffer = IF type = "answer" THEN @ ELSE FALSE]]
        /\ SendSignalingMessage(me, peer, [type |-> type])

\* setRemoteDescription of an offer, in place of an offer of its own if there is one;
\* the handler goes on to answer.
SetRemoteOffer(me, peer) ==
    /\ Head(pc[me][peer].chain).type = "offer"
    /\ pc' = [pc EXCEPT ![me][peer].chain = Append(Tail(@), Local),
                        ![me][peer].gathering = "none",
                        ![me][peer].signalingState = "have-remote-offer",
                        ![me][peer].reachable = FALSE]
    /\ UNCHANGED stream

\* setRemoteDescription of an answer; without an offer it fails, and that is logged.
SetRemoteAnswer(me, peer) ==
    LET conn == pc[me][peer]
    IN  /\ Head(conn.chain).type = "answer"
        /\ pc' = [pc EXCEPT ![me][peer] =
                     IF conn.signalingState = "have-local-offer"
                     THEN [conn EXCEPT !.chain = Tail(@), !.signalingState = "stable",
                                       !.session = me, !.reachable = FALSE]
                     ELSE [conn EXCEPT !.chain = Tail(@)]]
        /\ UNCHANGED stream

\* The remote description that there is.
RemoteDescription(conn, peer) ==
    IF conn.signalingState = "have-remote-offer" \/ conn.session = peer THEN "offer"
    ELSE IF conn.session # NoId THEN "answer" ELSE "none"

\* addIceCandidate; what does not belong to the remote description fails.
AddIceCandidate(me, peer) ==
    LET conn == pc[me][peer]
        next == Head(conn.chain)
    IN  /\ next.type = "candidate"
        /\ pc' = [pc EXCEPT ![me][peer].chain = Tail(@),
                            ![me][peer].reachable =
                                @ \/ next.of = RemoteDescription(conn, peer)]
        /\ UNCHANGED stream

\* The next operation of the chain is done.
Operate(me, peer) ==
    /\ Open(me, peer)
    /\ pc[me][peer].chain # <<>>
    /\ \/ SetLocalDescription(me, peer) \/ SetRemoteOffer(me, peer)
       \/ SetRemoteAnswer(me, peer) \/ AddIceCandidate(me, peer)
    /\ UNCHANGED <<pageVars, data, sends, faults>>

\* onicecandidate, some time after the local description is set.
OnIceCandidate(me, peer) ==
    /\ Open(me, peer)
    /\ pc[me][peer].gathering # "none"
    /\ pc' = [pc EXCEPT ![me][peer].gathering = "none"]
    /\ SendSignalingMessage(me, peer, [type |-> "candidate", of |-> pc[me][peer].gathering])
    /\ UNCHANGED <<pageVars, data, sends, faults>>

-----------------------------------------------------------------------------
(***************************************************************************)
(* Connections and values.                                                 *)
(***************************************************************************)

Settled(me, peer) ==
    Open(me, peer) /\ pc[me][peer].signalingState = "stable" /\ pc[me][peer].session # NoId

\* Two ends of one session that can reach each other are connected.
Connected(p, q) ==
    /\ Settled(p, q) /\ Settled(q, p)
    /\ pc[p][q].session = pc[q][p].session
    /\ pc[p][q].reachable /\ pc[q][p].reachable

\* ondatachannel: the channel that the peer has created under its own id.
OnDataChannel(me, peer) ==
    /\ Connected(me, peer)
    /\ ~pc[me][peer].send
    /\ pc' = [pc EXCEPT ![me][peer].send = TRUE]
    /\ UNCHANGED <<pageVars, stream, data, sends, faults>>

\* The handler that a connection is created with was made when connMap was empty: its
\* errThreshold is 0, so that the first error closes.
OnFailure(me, peer) == pc' = [pc EXCEPT ![me][peer].status = "closed"]

\* The connection fails, because the other end is gone or on its own account.
Fail(me, peer) ==
    /\ Settled(me, peer)
    /\ IF Settled(peer, me)
       THEN faults < MaxFaults /\ faults' = faults + 1
       ELSE ~Open(peer, me) /\ UNCHANGED faults
    /\ OnFailure(me, peer)
    /\ data' = [data EXCEPT ![me][peer] = 0]
    /\ UNCHANGED <<pageVars, stream, sends>>

\* send, to every peer whose channel is there; to others it fails, and that is logged.
SendToPeers(me, peers) ==
    data' = [peer \in Id |->
                [data[peer] EXCEPT ![me] =
                    IF peer \in peers /\ pc[me][peer].send /\ Connected(me, peer)
                    THEN @ + 1 ELSE @]]

\* throttle: a call that comes too soon after another one is dropped.
Throttle(call, noCall) == call \/ noCall

\* useWebRtcPresence: a new value is sent.  Without peers nothing happens.
Send(client) ==
    /\ sends < MaxSends
    /\ \E peer \in connMap[client] : pc[myId[client]][peer].send
    /\ sends' = sends + 1
    /\ Throttle(SendToPeers(myId[client], connMap[client]), UNCHANGED data)
    /\ UNCHANGED <<pageVars, pc, stream, faults>>

\* The handler of the data channel, also of one whose connection is forgotten.
Arrive(client, peer) ==
    LET me == myId[client]
    IN  /\ Open(me, peer)
        /\ data[me][peer] > 0
        /\ data' = [data EXCEPT ![me][peer] = @ - 1]
        /\ peersToLastMsg' = [peersToLastMsg EXCEPT ![client] = @ \cup {peer}]
        /\ UNCHANGED <<myId, gone, used, presence, connMap, pc, stream, sends, faults>>

RTCInit ==
    /\ myId \in FirstIds
    /\ gone = {}
    /\ used = Range(myId)
    /\ presence = [client \in Client |-> [other \in Client |-> NoId]]
    /\ connMap = [client \in Client |-> {}]
    /\ peersToLastMsg = [client \in Client |-> {}]
    /\ pc = [me \in Id |-> [peer \in Id |-> NoConnection]]
    /\ stream = [me \in Id |-> [peer \in Id |-> <<>>]]
    /\ data = [me \in Id |-> [peer \in Id |-> 0]]
    /\ sends = 0
    /\ faults = 0

\* What goes on by itself between a page and a peer.
Progress(client, peer) ==
    LET me == myId[client]
    IN  \/ OnNegotiationNeeded(me, peer) \/ OnMessage(me, peer) \/ Operate(me, peer)
        \/ OnIceCandidate(me, peer) \/ OnDataChannel(me, peer) \/ Arrive(client, peer)

\* Clients are heard of as long as they are there, and browsers and network go on with
\* what is under way.
GoOn ==
    \E client \in Client :
        \/ \E other \in Client : Hear(client, other) \/ Expire(client, other)
        \/ \E peer \in Id : Progress(client, peer)

RTCNext ==
    \/ GoOn
    \/ \E client \in Client : Leave(client) \/ Load(client) \/ Send(client)
    \/ \E me, peer \in Id : Fail(me, peer)

\* There is only so much under way: it is enough that something goes on as long as
\* anything can.  Nobody has to come back to a page, and nobody has to send anything.
RTCSpec == RTCInit /\ [][RTCNext]_rtcVars /\ WF_rtcVars(GoOn)

-----------------------------------------------------------------------------
(***************************************************************************)
(* Properties.                                                             *)
(***************************************************************************)

\* Two ends that have both settled have settled on one offer, however their offers
\* crossed and whichever of them came in while the other was being made; and an answer
\* on its way to an end finds the offer that it is for.
OneSession ==
    \A p, q \in Id :
        /\ Settled(p, q) /\ Settled(q, p) => pc[p][q].session = pc[q][p].session
        /\ (Open(p, q) /\ \E i \in pc[p][q].read + 1 .. Len(stream[p][q]) :
                              stream[p][q][i].type = "answer")
              => pc[p][q].signalingState = "have-local-offer"

Acquainted ==
    gone = {} /\ \A c, d \in Client : c # d => presence[c][d] = myId[d]

\* Pages that have heard of each other come to be connected, both ways, unless one is
\* left or their connection fails: after which it stays closed.
PeersConnect ==
    Acquainted ~>
        \/ ~Acquainted
        \/ \A c, d \in Client : c # d =>
              LET conn == pc[myId[c]][myId[d]]
              IN  conn.send \/ conn.status = "closed" \/ pc[myId[d]][myId[c]].status = "closed"

\* The values that a client has of pages that are left.
Ghosts(client) == {peer \in peersToLastMsg[client] : ~Loaded(peer)}

\* Nobody is there to be heard.
Alone(client) == Client \ {client} \subseteq gone

\* As long as some other page is there to be heard, a page that is left goes from the
\* values that getPeersToLastMsg gives, also if one of its values comes in after its
\* successor was heard of, or its presence has expired in silence.
GhostsGo ==
    \A client \in Client :
        (Ghosts(client) # {} /\ ~Alone(client)) ~> (Ghosts(client) = {} \/ Alone(client))

-----------------------------------------------------------------------------
(***************************************************************************)
(* What the documents say and the code does not do.                        *)
(***************************************************************************)

\* The values are, in the end, those of the clients that are there (index.tsx: "returns a
\* map of the current presence of all clients in the current room").  What expires is
\* deleted without a call, and the values are only looked through when somebody is heard.
ValuesOfThoseThere ==
    \A client \in Client : Ghosts(client) # {} ~> Ghosts(client) = {}

\* Pages that have heard of each other come to be connected, for as long as they are
\* there (index.tsx: "sending messages to the channel will send messages to all peers in
\* the same DriftDB room").  The first failure closes a connection, and nothing opens it
\* again.
AllPeersAreReached ==
    Acquainted ~>
        \/ ~Acquainted
        \/ \A c, d \in Client : c # d =>
              pc[myId[c]][myId[d]].send /\ Connected(myId[c], myId[d])
=============================================================================
