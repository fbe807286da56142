---------------------------- MODULE WebRTCProofs ----------------------------
(***************************************************************************)
(* Two ends of a WebRTC connection settle on one session, for any number   *)
(* of tabs and ids, however often pages are left and loaded again, what is *)
(* known of them expires, and connections fail.                            *)
(***************************************************************************)
EXTENDS WebRTC, SequenceTheorems, TLAPS

(***************************************************************************)
(* Types.                                                                  *)
(***************************************************************************)

Operation == Message \cup {Local}

\* A peer connection.
PeerConnection ==
    [status : {"none", "open", "closed"},
     signalingState : {"stable", "have-local-offer", "have-remote-offer"},
     session : Id \cup {NoId}, makingOffer : BOOLEAN, chain : Seq(Operation), read : Nat,
     gathering : {"none", "offer", "answer"}, reachable : BOOLEAN, send : BOOLEAN]

RTCTypeOK ==
    /\ myId \in [Client -> Id] /\ IsInjective(myId)
    /\ gone \subseteq Client
    /\ used \subseteq Id /\ \A client \in Client : myId[client] \in used
    /\ presence \in [Client -> [Client -> Id \cup {NoId}]]
    /\ connMap \in [Client -> SUBSET Id]
    /\ pc \in [Id -> [Id -> PeerConnection]]
    /\ stream \in [Id -> [Id -> Seq(Message)]]

(***************************************************************************)
(* The inductive invariant: what a page has to do with the ids that it has *)
(* heard of, what has been sent one way and the other, and how far an end  *)
(* has come.  What is in the streams outlives the pages, so an end needs   *)
(* to know nothing of the other end, but of the streams alone.             *)
(***************************************************************************)

Has(messages, type) == \E i \in DOMAIN messages : messages[i].type = type
Once(messages, type) ==
    \A i, j \in DOMAIN messages : messages[i].type = type /\ messages[j].type = type => i = j

\* A connection is between a page that is loaded and another one that it has heard of,
\* which it does not forget as long as that one is there; and it is made before anything
\* is sent on it.
PagesInv ==
    /\ \A client \in Client : Range(presence[client]) \ {NoId} \subseteq connMap[client]
    /\ \A me, peer \in Id : pc[me][peer].status # "none" => me # peer /\ Loaded(me) /\ peer \in used
    /\ \A c, d \in Client :
          c # d /\ d \notin gone /\ pc[myId[c]][myId[d]].status # "none"
              => presence[c][d] = myId[d]
    /\ \A me, peer \in Id :
          pc[me][peer].status = "none" /\ (Loaded(me) \/ me \notin used) => stream[peer][me] = <<>>

\* What an end has sent and what it got: one offer at most and one answer at most, which
\* is for an offer of the other.  An end sends both only if it is polite, the offer first.
SignalsInOrder(polite, sent, got) ==
    /\ Once(sent, "offer") /\ Once(sent, "answer")
    /\ Has(sent, "answer") => Has(got, "offer")
    /\ \A i, j \in DOMAIN sent :
          sent[i].type = "offer" /\ sent[j].type = "answer" => polite /\ i < j

HasRead(conn, got, type) == \E i \in 1 .. conn.read : got[i].type = type

\* No session yet and nothing under way but perhaps to take the other's offer.
Idle(conn, sent, got) ==
    /\ conn.signalingState = "stable" /\ conn.session = NoId /\ ~conn.makingOffer
    /\ ~Has(conn.chain, "local") /\ ~Has(conn.chain, "answer")
    /\ Has(conn.chain, "offer") <=> HasRead(conn, got, "offer")
    /\ ~Has(sent, "offer") /\ ~Has(sent, "answer")

\* About to make an offer.
Making(conn, polite, sent, got) ==
    /\ conn.signalingState = "stable" /\ conn.session = NoId /\ conn.makingOffer
    /\ conn.chain # <<>> /\ Head(conn.chain) = Local /\ ~Has(conn.chain, "answer")
    /\ Has(conn.chain, "offer") => polite /\ HasRead(conn, got, "offer")
    /\ ~Has(sent, "offer") /\ ~Has(sent, "answer")

\* An offer is made and neither replaced nor answered.
Offered(conn, polite, sent, got) ==
    /\ conn.signalingState = "have-local-offer" /\ conn.session = NoId /\ ~conn.makingOffer
    /\ ~Has(conn.chain, "local")
    /\ Has(conn.chain, "offer") => polite /\ HasRead(conn, got, "offer")
    /\ Has(conn.chain, "answer") <=> HasRead(conn, got, "answer")
    /\ Has(sent, "offer") /\ ~Has(sent, "answer")

\* The other's offer is taken, and about to be answered.
Answering(conn, polite, sent, got) ==
    /\ conn.signalingState = "have-remote-offer" /\ conn.session = NoId /\ ~conn.makingOffer
    /\ ~Has(conn.chain, "offer") /\ ~Has(conn.chain, "answer")
    /\ HasRead(conn, got, "offer")
    /\ Has(sent, "offer") => polite
    /\ ~Has(sent, "answer")

\* The other's offer is answered, or the other has answered.
Answered(conn, polite, peer, sent, got) ==
    /\ conn.signalingState = "stable" /\ conn.session = peer /\ ~conn.makingOffer
    /\ \A type \in {"local", "offer", "answer"} : ~Has(conn.chain, type)
    /\ HasRead(conn, got, "offer")
    /\ Has(sent, "offer") => polite
    /\ Has(sent, "answer")
Accepted(conn, me, sent, got) ==
    /\ conn.signalingState = "stable" /\ conn.session = me /\ ~conn.makingOffer
    /\ \A type \in {"local", "offer", "answer"} : ~Has(conn.chain, type)
    /\ HasRead(conn, got, "answer")
    /\ Has(sent, "offer") /\ ~Has(sent, "answer")

EndOK(conn, me, peer, sent, got) ==
    /\ conn.read <= Len(got)
    /\ \A type \in {"local", "offer", "answer"} : Once(conn.chain, type)
    /\ \/ Idle(conn, sent, got)
       \/ Making(conn, Polite(me, peer), sent, got)
       \/ Offered(conn, Polite(me, peer), sent, got)
       \/ Answering(conn, Polite(me, peer), sent, got)
       \/ Answered(conn, Polite(me, peer), peer, sent, got)
       \/ Accepted(conn, me, sent, got)

SignalsInv ==
    \A me, peer \in Id : me # peer =>
        /\ SignalsInOrder(Polite(me, peer), stream[peer][me], stream[me][peer])
        /\ Open(me, peer) => EndOK(pc[me][peer], me, peer, stream[peer][me], stream[me][peer])

RTCInv == RTCTypeOK /\ PagesInv /\ SignalsInv

-----------------------------------------------------------------------------
(***************************************************************************)
(* Sequences of messages.                                                  *)
(***************************************************************************)

LEMMA OperationTypes ==
    /\ Local \in Operation /\ Local.type = "local" /\ Message \subseteq Operation
    /\ \A m \in Operation : m.type \in {"local", "offer", "answer", "candidate"}
    /\ \A m \in Operation : m.type = "local" <=> m = Local
    /\ \A m \in Message : m.type \in {"offer", "answer", "candidate"}
    /\ \A m \in Message : m.type = "candidate" => m.of \in {"offer", "answer"}
BY DEF Operation, Message, Local

LEMMA Appended ==
    ASSUME NEW T, NEW s \in Seq(T), NEW m \in T
    PROVE  /\ Append(s, m) \in Seq(T) /\ Append(s, m) # <<>>
           /\ s # <<>> => Head(Append(s, m)) = Head(s)
           /\ \A type : Has(Append(s, m), type) <=> Has(s, type) \/ m.type = type
           /\ \A type : Once(s, type) /\ ~(Has(s, type) /\ m.type = type)
                           => Once(Append(s, m), type)
<1>1. Append(s, m) \in Seq(T) /\ Len(Append(s, m)) = Len(s) + 1 /\ Len(s) \in Nat
  OBVIOUS
<1>2. /\ DOMAIN Append(s, m) = DOMAIN s \cup {Len(s) + 1} /\ Len(s) + 1 \notin DOMAIN s
      /\ \A i \in DOMAIN s : Append(s, m)[i] = s[i]
      /\ Append(s, m)[Len(s) + 1] = m
  OBVIOUS
<1>5. Append(s, m) # <<>>
  BY <1>1
<1>6. ASSUME s # <<>>
      PROVE  Head(Append(s, m)) = Head(s)
  <2>1. Len(s) >= 1
    BY <1>6
  <2>2. Append(s, m)[1] = s[1]
    BY <2>1
  <2> QED BY <1>1, <1>5, <1>6, <2>2
<1>3. ASSUME NEW type
      PROVE  Has(Append(s, m), type) <=> Has(s, type) \/ m.type = type
  BY <1>2 DEF Has
<1>4. ASSUME NEW type, Once(s, type), ~(Has(s, type) /\ m.type = type)
      PROVE  Once(Append(s, m), type)
  BY <1>2, <1>4 DEF Has, Once
<1> QED BY <1>1, <1>3, <1>4, <1>5, <1>6

LEMMA TailOf ==
    ASSUME NEW T, NEW s \in Seq(T), s # <<>>
    PROVE  /\ Tail(s) \in Seq(T) /\ Head(s) \in T
           /\ \A type : Has(s, type) <=> Head(s).type = type \/ Has(Tail(s), type)
           /\ \A type : Once(s, type) => Once(Tail(s), type)
           /\ \A type : Once(s, type) /\ Head(s).type = type => ~Has(Tail(s), type)
<1>1. /\ Tail(s) \in Seq(T) /\ Head(s) \in T /\ Head(s) = s[1] /\ Len(s) \in Nat \ {0}
      /\ Len(Tail(s)) = Len(s) - 1 /\ \A i \in 1 .. Len(s) - 1 : Tail(s)[i] = s[i + 1]
      /\ DOMAIN s = 1 .. Len(s) /\ DOMAIN Tail(s) = 1 .. Len(s) - 1
  OBVIOUS
<1> DEFINE n == Len(s)  t == Tail(s)
<1>2. /\ n \in Nat \ {0} /\ DOMAIN s = 1 .. n /\ DOMAIN t = 1 .. n - 1
      /\ \A i \in 1 .. n - 1 : t[i] = s[i + 1]
  BY <1>1
<1> HIDE DEF n, t
<1>3. ASSUME NEW type
      PROVE  Has(s, type) <=> s[1].type = type \/ Has(t, type)
  <2>1. ASSUME Has(s, type), s[1].type # type
        PROVE  Has(t, type)
    <3>1. PICK i \in DOMAIN s : s[i].type = type
      BY <2>1 DEF Has
    <3>2. i - 1 \in 1 .. n - 1 /\ t[i - 1] = s[i]
      BY <1>2, <2>1, <3>1
    <3> QED BY <1>2, <3>1, <3>2 DEF Has
  <2>2. ASSUME Has(t, type)
        PROVE  Has(s, type)
    <3>1. PICK i \in DOMAIN t : t[i].type = type
      BY <2>2 DEF Has
    <3>2. i + 1 \in DOMAIN s /\ s[i + 1] = t[i]
      BY <1>2
    <3> QED BY <3>1, <3>2 DEF Has
  <2>3. 1 \in DOMAIN s
    BY <1>2
  <2> QED BY <2>1, <2>2, <2>3 DEF Has
<1>4. ASSUME NEW type, Once(s, type)
      PROVE  Once(t, type)
  <2> SUFFICES ASSUME NEW i \in DOMAIN t, NEW j \in DOMAIN t, t[i].type = type, t[j].type = type
               PROVE  i = j
    BY DEF Once
  <2>1. i + 1 \in DOMAIN s /\ j + 1 \in DOMAIN s /\ s[i + 1].type = type /\ s[j + 1].type = type
    BY <1>2
  <2>2. i + 1 = j + 1
    BY <1>4, <2>1 DEF Once
  <2> QED BY <1>2, <2>2
<1>5. ASSUME NEW type, Once(s, type), s[1].type = type, NEW i \in DOMAIN t, t[i].type = type
      PROVE  FALSE
  <2>1. i + 1 \in DOMAIN s /\ 1 \in DOMAIN s /\ s[i + 1].type = type
    BY <1>2, <1>5
  <2>2. i + 1 = 1
    BY <1>5, <2>1 DEF Once
  <2> QED BY <1>2, <2>2
<1> QED BY <1>1, <1>3, <1>4, <1>5 DEF t, Has

\* Where a message of a type is, and where it is not.
LEMMA NothingSent == \A type : ~Has(<<>>, type) /\ Once(<<>>, type)
BY DEF Has, Once

\* What is read stays read when more comes.
LEMMA ReadFacts ==
    ASSUME NEW conn, conn.read \in Nat, NEW got \in Seq(Message), conn.read <= Len(got)
    PROVE  /\ \A type : HasRead(conn, got, type) => Has(got, type)
           /\ \A m \in Message : \A type : HasRead(conn, Append(got, m), type) <=> HasRead(conn, got, type)
<1>1. \A i \in 1 .. conn.read : i \in DOMAIN got
  OBVIOUS
<1>2. \A m \in Message : \A i \in 1 .. conn.read : Append(got, m)[i] = got[i]
  BY <1>1
<1> QED BY <1>1, <1>2 DEF HasRead, Has

LEMMA GotGrows ==
    ASSUME NEW conn \in PeerConnection, NEW me, NEW peer, NEW sent, NEW got \in Seq(Message),
           NEW m \in Message, EndOK(conn, me, peer, sent, got)
    PROVE  EndOK(conn, me, peer, sent, Append(got, m))
<1>1. conn.read \in Nat /\ conn.read <= Len(got) /\ Len(Append(got, m)) = Len(got) + 1
  BY DEF PeerConnection, EndOK
<1>2. \A type : HasRead(conn, Append(got, m), type) <=> HasRead(conn, got, type)
  BY <1>1, ReadFacts
<1>3. conn.read <= Len(Append(got, m))
  BY <1>1
<1> QED BY <1>2, <1>3 DEF EndOK, Idle, Making, Offered, Answering, Answered, Accepted

-----------------------------------------------------------------------------
(***************************************************************************)
(* A step of one end.                                                      *)
(***************************************************************************)

\* The end of me towards the peer becomes conn, and has sent what is in sent.
EndBecomes(me, peer, conn, sent) ==
    /\ pc' \in [Id -> [Id -> PeerConnection]]
    /\ pc'[me][peer] = conn
    /\ \A i, j \in Id : <<i, j>> # <<me, peer>> => pc'[i][j] = pc[i][j]
    /\ stream' \in [Id -> [Id -> Seq(Message)]]
    /\ stream'[peer][me] = sent
    /\ \A i, j \in Id : <<i, j>> # <<peer, me>> => stream'[i][j] = stream[i][j]
    /\ UNCHANGED <<myId, gone, used, presence, connMap>>

LEMMA EndStep ==
    ASSUME RTCInv, NEW me \in Id, NEW peer \in Id, Open(me, peer),
           NEW conn \in PeerConnection, NEW sent \in Seq(Message),
           EndBecomes(me, peer, conn, sent),
           conn.status # "none",
           sent = stream[peer][me] \/ \E m \in Message : sent = Append(stream[peer][me], m),
           SignalsInOrder(Polite(me, peer), sent, stream[me][peer]),
           conn.status = "open" => EndOK(conn, me, peer, sent, stream[me][peer])
    PROVE  RTCInv'
<1> DEFINE old == stream[peer][me]  got == stream[me][peer]
<1>1. me # peer /\ old \in Seq(Message) /\ got \in Seq(Message) /\ pc[me][peer].status = "open"
  BY DEF RTCInv, RTCTypeOK, PagesInv, Open
<1>2. RTCTypeOK'
  BY DEF RTCInv, RTCTypeOK, EndBecomes
<1>3. PagesInv'
  <2>1. \A i, j \in Id : (pc'[i][j].status = "none") <=> (pc[i][j].status = "none")
    BY <1>1 DEF EndBecomes
  <2>2. \A i, j \in Id : pc[i][j].status = "none" => stream'[j][i] = stream[j][i]
    BY <1>1 DEF EndBecomes
  <2>3. \A c \in Client : myId[c] \in Id
    BY DEF RTCInv, RTCTypeOK
  <2>4. UNCHANGED <<myId, gone, used, presence, connMap>> /\ PagesInv
    BY DEF EndBecomes, RTCInv
  <2>5. \A c \in Client : Range(presence'[c]) \ {NoId} \subseteq connMap'[c]
    BY <2>4 DEF PagesInv
  <2>6. \A i \in Id : Loaded(i)' <=> Loaded(i)
    BY <2>4 DEF Loaded
  <2>7. \A i, j \in Id : pc'[i][j].status # "none" => i # j /\ Loaded(i)' /\ j \in used'
    BY <2>1, <2>4, <2>6 DEF PagesInv
  <2>8. \A c, d \in Client :
           c # d /\ d \notin gone' /\ pc'[myId'[c]][myId'[d]].status # "none" => presence'[c][d] = myId'[d]
    BY <2>1, <2>3, <2>4 DEF PagesInv
  <2>9. \A i, j \in Id :
           pc'[i][j].status = "none" /\ (Loaded(i)' \/ i \notin used') => stream'[j][i] = <<>>
    BY <2>1, <2>2, <2>4, <2>6 DEF PagesInv
  <2> QED BY <2>5, <2>7, <2>8, <2>9 DEF PagesInv
<1>4. stream'[me][peer] = got
  BY <1>1 DEF EndBecomes
<1>5. ASSUME NEW i \in Id, NEW j \in Id, i # j
      PROVE  /\ SignalsInOrder(Polite(i, j), stream[j][i], stream[i][j])'
             /\ Open(i, j)' => EndOK(pc[i][j], i, j, stream[j][i], stream[i][j])'
  <2>1. CASE i = me /\ j = peer
    BY <1>4, <2>1 DEF EndBecomes, Open, Polite
  <2>2. CASE i = peer /\ j = me
    <3>1. /\ pc'[i][j] = pc[i][j] /\ stream'[j][i] = stream[j][i] /\ stream'[i][j] = sent
      BY <1>1, <2>2 DEF EndBecomes
    <3>2. /\ SignalsInOrder(Polite(i, j), stream[j][i], stream[i][j])
          /\ Open(i, j) => EndOK(pc[i][j], i, j, stream[j][i], stream[i][j])
          /\ pc[i][j] \in PeerConnection
      BY <1>5 DEF RTCInv, SignalsInv, RTCTypeOK
    <3>3. Has(stream[i][j], "offer") => Has(sent, "offer")
      BY <1>1, <2>2, Appended
    <3>4. SignalsInOrder(Polite(i, j), stream[j][i], sent)
      BY <3>2, <3>3 DEF SignalsInOrder
    <3>5. Open(i, j) => EndOK(pc[i][j], i, j, stream[j][i], sent)
      BY <1>1, <2>2, <3>2, GotGrows
    <3> QED BY <3>1, <3>4, <3>5 DEF Open, Polite
  <2>3. CASE <<i, j>> # <<me, peer>> /\ <<i, j>> # <<peer, me>>
    <3>1. /\ pc'[i][j] = pc[i][j] /\ stream'[j][i] = stream[j][i] /\ stream'[i][j] = stream[i][j]
      BY <2>3 DEF EndBecomes
    <3> QED BY <1>5, <3>1 DEF RTCInv, SignalsInv, Open, Polite
  <2> QED BY <2>1, <2>2, <2>3
<1>6. SignalsInv'
  BY <1>5 DEF SignalsInv
<1> QED BY <1>2, <1>3, <1>6 DEF RTCInv

-----------------------------------------------------------------------------
(***************************************************************************)
(* How an end goes on.                                                     *)
(***************************************************************************)

\* What an end gets in answer and what in question: not both, unless the other is polite.
LEMMA NotBoth ==
    ASSUME NEW polite \in BOOLEAN, NEW sent, NEW got, SignalsInOrder(~polite, got, sent),
           Has(got, "offer"), Has(got, "answer")
    PROVE  ~polite
BY DEF SignalsInOrder, Has

\* Nothing that matters to an end has changed.
LEMMA SameEnd ==
    ASSUME NEW conn \in PeerConnection, NEW new \in PeerConnection, NEW me, NEW peer,
           NEW sent, NEW more, NEW got, EndOK(conn, me, peer, sent, got),
           \A type \in {"offer", "answer"} : Has(more, type) <=> Has(sent, type),
           new.read = conn.read, new.chain = conn.chain, new.session = conn.session,
           new.signalingState = conn.signalingState, new.makingOffer = conn.makingOffer
    PROVE  EndOK(new, me, peer, more, got)
<1>1. \A type : HasRead(new, got, type) <=> HasRead(conn, got, type)
  BY DEF HasRead
<1> QED BY <1>1 DEF EndOK, Idle, Making, Offered, Answering, Answered, Accepted

LEMMA NegotiationOK ==
    ASSUME NEW conn \in PeerConnection, NEW new \in PeerConnection, NEW me \in Id, NEW peer \in Id,
           NEW sent, NEW got, EndOK(conn, me, peer, sent, got),
           conn.session = NoId, conn.signalingState = "stable", conn.chain = <<>>,
           new.read = conn.read, new.chain = <<Local>>, new.session = conn.session,
           new.signalingState = conn.signalingState, new.makingOffer = TRUE
    PROVE  EndOK(new, me, peer, sent, got)
<1>1. Idle(conn, sent, got)
  BY IdAssumption DEF EndOK, Making, Offered, Answering, Answered, Accepted
<1>2. \A type \in {"offer", "answer"} : ~Has(<<Local>>, type)
  BY DEF Has, Local
<1>3. \A type : Once(<<Local>>, type)
  BY DEF Once
<1>4. <<Local>> # <<>> /\ Head(<<Local>>) = Local
  OBVIOUS
<1>5. Making(new, Polite(me, peer), sent, got)
  BY <1>1, <1>2, <1>4 DEF Idle, Making
<1> QED BY <1>3, <1>5 DEF EndOK

LEMMA MessageOK ==
    ASSUME NEW conn \in PeerConnection, NEW new \in PeerConnection, NEW me \in Id, NEW peer \in Id,
           NEW sent \in Seq(Message), NEW got \in Seq(Message), EndOK(conn, me, peer, sent, got),
           SignalsInOrder(Polite(me, peer), sent, got), SignalsInOrder(~Polite(me, peer), got, sent),
           conn.read < Len(got), NEW m, m = got[conn.read + 1],
           new.read = conn.read + 1, new.session = conn.session,
           new.signalingState = conn.signalingState, new.makingOffer = conn.makingOffer,
           new.chain = IF /\ m.type = "offer" /\ ~Polite(me, peer)
                          /\ conn.makingOffer \/ conn.signalingState # "stable"
                       THEN conn.chain ELSE Append(conn.chain, m)
    PROVE  EndOK(new, me, peer, sent, got)
<1> DEFINE polite == Polite(me, peer)
<1>1. /\ conn.read \in Nat /\ conn.read + 1 \in DOMAIN got /\ new.read <= Len(got)
      /\ m \in Message /\ m \in Operation /\ conn.chain \in Seq(Operation)
      /\ m.type \in {"offer", "answer", "candidate"}
  BY OperationTypes DEF PeerConnection
<1>2. polite \in BOOLEAN
  BY DEF Polite
<1>3. \A type : HasRead(new, got, type) <=> HasRead(conn, got, type) \/ m.type = type
  <2>1. 1 .. new.read = 1 .. conn.read \cup {conn.read + 1}
    BY <1>1
  <2> QED BY <2>1 DEF HasRead
<1>4. \A type : HasRead(conn, got, type) \/ m.type = type => Has(got, type)
  BY <1>1, ReadFacts DEF Has
<1>5. \A type \in {"offer", "answer"} : m.type = type => ~HasRead(conn, got, type)
  <2> SUFFICES ASSUME NEW type \in {"offer", "answer"}, m.type = type,
                      NEW i \in 1 .. conn.read, got[i].type = type
               PROVE  FALSE
    BY DEF HasRead
  <2>1. Once(got, type)
    BY DEF SignalsInOrder
  <2>2. i \in DOMAIN got /\ conn.read + 1 \in DOMAIN got /\ i # conn.read + 1
    BY <1>1
  <2> QED BY <2>1, <2>2 DEF Once
<1>6. /\ \A type : Has(Append(conn.chain, m), type) <=> Has(conn.chain, type) \/ m.type = type
      /\ \A type : Once(conn.chain, type) /\ ~(Has(conn.chain, type) /\ m.type = type)
                      => Once(Append(conn.chain, m), type)
      /\ Append(conn.chain, m) # <<>>
      /\ conn.chain # <<>> => Head(Append(conn.chain, m)) = Head(conn.chain)
  BY <1>1, Appended
<1>7. CASE m.type = "candidate"
  <2>1. new.chain = Append(conn.chain, m)
    BY <1>7
  <2>2. \A type \in {"local", "offer", "answer"} : Has(new.chain, type) <=> Has(conn.chain, type)
    BY <1>6, <1>7, <2>1
  <2>3. \A type \in {"local", "offer", "answer"} : Once(new.chain, type)
    BY <1>6, <1>7, <2>1 DEF EndOK
  <2>4. \A type \in {"offer", "answer"} : HasRead(new, got, type) <=> HasRead(conn, got, type)
    BY <1>3, <1>7
  <2>5. conn.chain # <<>> => new.chain # <<>> /\ Head(new.chain) = Head(conn.chain)
    BY <1>6, <2>1
  <2>6. Idle(conn, sent, got) => Idle(new, sent, got)
    BY <2>2, <2>4 DEF Idle
  <2>7. Making(conn, polite, sent, got) => Making(new, polite, sent, got)
    BY <2>2, <2>4, <2>5 DEF Making
  <2>8. Offered(conn, polite, sent, got) => Offered(new, polite, sent, got)
    BY <2>2, <2>4 DEF Offered
  <2>9. Answering(conn, polite, sent, got) => Answering(new, polite, sent, got)
    BY <2>2, <2>4 DEF Answering
  <2>10. Answered(conn, polite, peer, sent, got) => Answered(new, polite, peer, sent, got)
    BY <2>2, <2>4 DEF Answered
  <2>11. Accepted(conn, me, sent, got) => Accepted(new, me, sent, got)
    BY <2>2, <2>4 DEF Accepted
  <2> QED BY <1>1, <2>3, <2>6, <2>7, <2>8, <2>9, <2>10, <2>11 DEF EndOK
<1>8. CASE m.type = "offer"
  <2>1. ~HasRead(conn, got, "offer") /\ HasRead(new, got, "offer")
        /\ (HasRead(new, got, "answer") <=> HasRead(conn, got, "answer"))
    BY <1>3, <1>5, <1>8
  <2>2. ~Answering(conn, polite, sent, got) /\ ~Answered(conn, polite, peer, sent, got)
    BY <2>1 DEF Answering, Answered
  <2>3. ~Accepted(conn, me, sent, got)
    <3> SUFFICES ASSUME NEW j \in 1 .. conn.read, got[j].type = "answer"
                 PROVE  FALSE
      BY DEF Accepted, HasRead
    <3>1. j \in DOMAIN got /\ j < conn.read + 1
      BY <1>1
    <3>2. conn.read + 1 < j
      BY <1>1, <1>8, <3>1 DEF SignalsInOrder
    <3> QED BY <1>1, <3>1, <3>2
  <2>4. CASE Idle(conn, sent, got)
    <3>1. new.chain = Append(conn.chain, m)
      BY <2>4 DEF Idle
    <3>2. ~Has(conn.chain, "offer")
      BY <2>1, <2>4 DEF Idle
    <3>3. \A type \in {"local", "offer", "answer"} : Once(new.chain, type)
      BY <1>6, <1>8, <3>1, <3>2 DEF EndOK
    <3>4. Has(new.chain, "offer") /\ ~Has(new.chain, "local") /\ ~Has(new.chain, "answer")
      BY <1>6, <1>8, <2>4, <3>1 DEF Idle
    <3>5. Idle(new, sent, got)
      BY <2>1, <2>4, <3>4 DEF Idle
    <3> QED BY <1>1, <3>3, <3>5 DEF EndOK
  <2>5. CASE Making(conn, polite, sent, got) \/ Offered(conn, polite, sent, got)
    <3>1. new.chain = IF polite THEN Append(conn.chain, m) ELSE conn.chain
      BY <1>8, <2>5 DEF Making, Offered
    <3>2. ~Has(conn.chain, "offer")
      BY <2>1, <2>5 DEF Making, Offered
    <3>3. \A type \in {"local", "offer", "answer"} : Once(new.chain, type)
      BY <1>2, <1>6, <1>8, <3>1, <3>2 DEF EndOK
    <3>4. /\ Has(new.chain, "offer") => polite
          /\ Has(new.chain, "local") <=> Has(conn.chain, "local")
          /\ Has(new.chain, "answer") <=> Has(conn.chain, "answer")
          /\ conn.chain # <<>> => new.chain # <<>> /\ Head(new.chain) = Head(conn.chain)
      BY <1>2, <1>6, <1>8, <3>1, <3>2
    <3>5. Making(conn, polite, sent, got) => Making(new, polite, sent, got)
      BY <2>1, <3>4 DEF Making
    <3>6. Offered(conn, polite, sent, got) => Offered(new, polite, sent, got)
      BY <2>1, <3>4 DEF Offered
    <3> QED BY <1>1, <2>5, <3>3, <3>5, <3>6 DEF EndOK
  <2> QED BY <2>2, <2>3, <2>4, <2>5 DEF EndOK
<1>9. CASE m.type = "answer"
  <2>1. ~HasRead(conn, got, "answer") /\ HasRead(new, got, "answer")
        /\ (HasRead(new, got, "offer") <=> HasRead(conn, got, "offer"))
    BY <1>3, <1>5, <1>9
  <2>2. Has(got, "answer") /\ Has(sent, "offer")
    BY <1>4, <1>9 DEF SignalsInOrder
  <2>3. Has(got, "offer") => ~polite
    BY <1>2, <2>2, NotBoth
  <2>4. Offered(conn, polite, sent, got)
    BY <1>4, <2>1, <2>2, <2>3 DEF EndOK, Idle, Making, Answering, Answered, Accepted
  <2>5. new.chain = Append(conn.chain, m)
    BY <1>9
  <2>6. ~Has(conn.chain, "answer")
    BY <2>1, <2>4 DEF Offered
  <2>7. \A type \in {"local", "offer", "answer"} : Once(new.chain, type)
    BY <1>6, <1>9, <2>5, <2>6 DEF EndOK
  <2>8. /\ Has(new.chain, "answer")
        /\ Has(new.chain, "offer") <=> Has(conn.chain, "offer")
        /\ Has(new.chain, "local") <=> Has(conn.chain, "local")
    BY <1>6, <1>9, <2>5
  <2>9. Offered(new, polite, sent, got)
    BY <2>1, <2>4, <2>8 DEF Offered
  <2> QED BY <1>1, <2>7, <2>9 DEF EndOK
<1> QED BY <1>1, <1>7, <1>8, <1>9

\* What is sent next leaves what is sent in order: no more than one offer, before the answer.
LEMMA SendsInOrder ==
    ASSUME NEW polite \in BOOLEAN, NEW sent \in Seq(Message), NEW got, SignalsInOrder(polite, sent, got),
           NEW m \in Message,
           m.type = "offer" => ~Has(sent, "offer") /\ ~Has(sent, "answer"),
           m.type = "answer" => ~Has(sent, "answer") /\ Has(got, "offer") /\ (Has(sent, "offer") => polite)
    PROVE  SignalsInOrder(polite, Append(sent, m), got)
<1>1. /\ \A type : Has(Append(sent, m), type) <=> Has(sent, type) \/ m.type = type
      /\ \A type : Once(sent, type) /\ ~(Has(sent, type) /\ m.type = type)
                      => Once(Append(sent, m), type)
  BY Appended
<1>2. Once(Append(sent, m), "offer") /\ Once(Append(sent, m), "answer")
  BY <1>1 DEF SignalsInOrder
<1>3. Has(Append(sent, m), "answer") => Has(got, "offer")
  BY <1>1 DEF SignalsInOrder
<1>4. ASSUME NEW i \in DOMAIN Append(sent, m), NEW j \in DOMAIN Append(sent, m),
             Append(sent, m)[i].type = "offer", Append(sent, m)[j].type = "answer"
      PROVE  polite /\ i < j
  <2>1. /\ Len(sent) \in Nat /\ DOMAIN sent = 1 .. Len(sent)
        /\ DOMAIN Append(sent, m) = 1 .. Len(sent) + 1
        /\ \A k \in 1 .. Len(sent) : Append(sent, m)[k] = sent[k]
        /\ Append(sent, m)[Len(sent) + 1] = m
    OBVIOUS
  <2>2. CASE i \in DOMAIN sent /\ j \in DOMAIN sent
    BY <1>4, <2>1, <2>2 DEF SignalsInOrder
  <2>3. CASE i \in DOMAIN sent /\ j = Len(sent) + 1
    BY <1>4, <2>1, <2>3 DEF Has
  <2>4. CASE i = Len(sent) + 1
    <3>1. m.type = "offer" /\ j # i
      BY <1>4, <2>1, <2>4
    <3>2. j \in DOMAIN sent /\ sent[j].type = "answer"
      BY <1>4, <2>1, <2>4, <3>1
    <3> QED BY <3>1, <3>2 DEF Has
  <2> QED BY <2>1, <2>2, <2>3, <2>4
<1> QED BY <1>2, <1>3, <1>4 DEF SignalsInOrder

\* setLocalDescription makes an offer, or an answer if there is a remote offer.
LEMMA LocalOK ==
    ASSUME NEW conn \in PeerConnection, NEW new \in PeerConnection, NEW me \in Id, NEW peer \in Id,
           NEW sent \in Seq(Message), NEW got \in Seq(Message), EndOK(conn, me, peer, sent, got),
           SignalsInOrder(Polite(me, peer), sent, got), SignalsInOrder(~Polite(me, peer), got, sent),
           conn.chain # <<>>, Head(conn.chain).type = "local",
           NEW type, type = IF conn.signalingState = "have-remote-offer" THEN "answer" ELSE "offer",
           new.read = conn.read, new.chain = Tail(conn.chain),
           new.session = IF type = "answer" THEN peer ELSE conn.session,
           new.signalingState = IF type = "answer" THEN "stable" ELSE "have-local-offer",
           new.makingOffer = IF type = "answer" THEN conn.makingOffer ELSE FALSE
    PROVE  /\ EndOK(new, me, peer, Append(sent, [type |-> type]), got)
           /\ SignalsInOrder(Polite(me, peer), Append(sent, [type |-> type]), got)
<1> DEFINE polite == Polite(me, peer)
           m == [type |-> type]
           more == Append(sent, m)
<1>1. conn.chain \in Seq(Operation) /\ conn.read \in Nat /\ m \in Message /\ polite \in BOOLEAN
  BY DEF PeerConnection, Message, Polite
<1>2. /\ \A t : Has(conn.chain, t) <=> Head(conn.chain).type = t \/ Has(new.chain, t)
      /\ \A t : Once(conn.chain, t) => Once(new.chain, t)
      /\ \A t : Once(conn.chain, t) /\ Head(conn.chain).type = t => ~Has(new.chain, t)
  <2>1. conn.chain \in Seq(Operation) /\ conn.chain # <<>> /\ new.chain = Tail(conn.chain)
    BY <1>1
  <2> QED BY ONLY <2>1, TailOf
<1>3. \A t : Has(more, t) <=> Has(sent, t) \/ m.type = t
  BY <1>1, Appended
<1>4. \A t : HasRead(new, got, t) <=> HasRead(conn, got, t)
  BY DEF HasRead
<1>5. /\ \A t \in {"local", "offer", "answer"} : Once(new.chain, t)
      /\ Has(conn.chain, "local") /\ ~Has(new.chain, "local")
      /\ new.read <= Len(got)
  BY <1>2 DEF EndOK
<1>6. \A t : HasRead(conn, got, t) => Has(got, t)
  BY <1>1, ReadFacts DEF EndOK
<1>7. Making(conn, polite, sent, got) \/ Answering(conn, polite, sent, got)
  BY <1>5 DEF EndOK, Idle, Offered, Answered, Accepted
<1>8. CASE Making(conn, polite, sent, got)
  <2>1. type = "offer" /\ m.type = "offer"
    BY <1>8 DEF Making
  <2>2. SignalsInOrder(polite, more, got)
    BY <1>1, <1>8, <2>1, SendsInOrder DEF Making
  <2>3. ~HasRead(new, got, "answer")
    BY <1>4, <1>6, <1>8 DEF Making, SignalsInOrder
  <2>4. Has(new.chain, "offer") => polite /\ HasRead(new, got, "offer")
    BY <1>2, <1>4, <1>8 DEF Making
  <2>5. ~Has(new.chain, "answer")
    BY <1>2, <1>8 DEF Making
  <2>6. Has(more, "offer") /\ ~Has(more, "answer")
    BY <1>3, <1>8, <2>1 DEF Making
  <2>7. Offered(new, polite, more, got)
    BY <1>5, <1>8, <2>1, <2>3, <2>4, <2>5, <2>6 DEF Making, Offered
  <2> QED BY <1>5, <2>2, <2>7 DEF EndOK
<1>9. CASE Answering(conn, polite, sent, got)
  <2>1. type = "answer" /\ m.type = "answer"
    BY <1>9 DEF Answering
  <2>2. SignalsInOrder(polite, more, got)
    BY <1>1, <1>6, <1>9, <2>1, SendsInOrder DEF Answering
  <2>3. \A t \in {"local", "offer", "answer"} : ~Has(new.chain, t)
    BY <1>2, <1>5, <1>9 DEF Answering
  <2>4. Has(more, "answer") /\ (Has(more, "offer") => polite)
    BY <1>3, <1>9, <2>1 DEF Answering
  <2>5. Answered(new, polite, peer, more, got)
    BY <1>4, <1>9, <2>1, <2>3, <2>4 DEF Answering, Answered
  <2> QED BY <1>5, <2>2, <2>5 DEF EndOK
<1> QED BY <1>7, <1>8, <1>9

\* setRemoteDescription of an offer, which the end goes on to answer.
LEMMA RemoteOfferOK ==
    ASSUME NEW conn \in PeerConnection, NEW new \in PeerConnection, NEW me \in Id, NEW peer \in Id,
           NEW sent \in Seq(Message), NEW got \in Seq(Message), EndOK(conn, me, peer, sent, got),
           SignalsInOrder(~Polite(me, peer), got, sent),
           conn.chain # <<>>, Head(conn.chain).type = "offer",
           new.read = conn.read, new.chain = Append(Tail(conn.chain), Local),
           new.session = conn.session, new.signalingState = "have-remote-offer",
           new.makingOffer = conn.makingOffer
    PROVE  EndOK(new, me, peer, sent, got)
<1> DEFINE polite == Polite(me, peer)
           rest == Tail(conn.chain)
<1>1. /\ conn.chain \in Seq(Operation) /\ conn.read \in Nat /\ polite \in BOOLEAN
      /\ Local \in Operation /\ Local.type = "local"
  BY OperationTypes DEF PeerConnection, Polite
<1>2. /\ rest \in Seq(Operation)
      /\ \A t : Has(conn.chain, t) <=> Head(conn.chain).type = t \/ Has(rest, t)
      /\ \A t : Once(conn.chain, t) => Once(rest, t)
      /\ \A t : Once(conn.chain, t) /\ Head(conn.chain).type = t => ~Has(rest, t)
  BY <1>1, TailOf
<1>3. /\ \A t : Has(new.chain, t) <=> Has(rest, t) \/ t = "local"
      /\ \A t : Once(rest, t) /\ ~(Has(rest, t) /\ t = "local") => Once(new.chain, t)
  <2>1. rest \in Seq(Operation) /\ Local \in Operation /\ Local.type = "local"
        /\ new.chain = Append(rest, Local)
    BY <1>1, <1>2
  <2> HIDE DEF rest
  <2> QED BY ONLY <2>1, Appended
<1> HIDE DEF rest
<1>4. \A t : HasRead(new, got, t) <=> HasRead(conn, got, t)
  BY DEF HasRead
<1>5. \A t : HasRead(conn, got, t) => Has(got, t)
  BY <1>1, ReadFacts DEF EndOK
<1>6. Has(conn.chain, "offer") /\ ~Has(rest, "offer") /\ Head(conn.chain) # Local
  BY <1>1, <1>2 DEF EndOK
<1>7. Idle(conn, sent, got) \/ Offered(conn, polite, sent, got)
  BY <1>6 DEF EndOK, Making, Answering, Answered, Accepted
<1>8. ~Has(conn.chain, "local")
  BY <1>7 DEF Idle, Offered
<1>9. HasRead(conn, got, "offer") /\ (Has(sent, "offer") => polite)
  BY <1>6, <1>7 DEF Idle, Offered
<1>10. ~Has(conn.chain, "answer")
  <2>1. CASE Idle(conn, sent, got)
    BY <2>1 DEF Idle
  <2>2. CASE Offered(conn, polite, sent, got)
    <3>1. polite
      BY <1>6, <2>2 DEF Offered
    <3>2. ~Has(got, "answer")
      BY <1>1, <1>5, <1>9, <3>1, NotBoth
    <3> QED BY <1>5, <2>2, <3>2 DEF Offered
  <2> QED BY <1>7, <2>1, <2>2
<1>11. \A t \in {"local", "offer", "answer"} : Once(new.chain, t)
  BY <1>2, <1>3, <1>8 DEF EndOK
<1>12. ~Has(new.chain, "offer") /\ ~Has(new.chain, "answer")
  BY <1>2, <1>3, <1>6, <1>10
<1>13. Answering(new, polite, sent, got)
  BY <1>4, <1>7, <1>9, <1>12 DEF Idle, Offered, Answering
<1> QED BY <1>11, <1>13 DEF EndOK

\* setRemoteDescription of an answer: there is an offer that it is for.
LEMMA RemoteAnswerOK ==
    ASSUME NEW conn \in PeerConnection, NEW new \in PeerConnection, NEW me \in Id, NEW peer \in Id,
           NEW sent \in Seq(Message), NEW got \in Seq(Message), EndOK(conn, me, peer, sent, got),
           SignalsInOrder(~Polite(me, peer), got, sent),
           conn.chain # <<>>, Head(conn.chain).type = "answer",
           new.read = conn.read, new.chain = Tail(conn.chain), new.makingOffer = conn.makingOffer,
           conn.signalingState = "have-local-offer" =>
               new.session = me /\ new.signalingState = "stable"
    PROVE  EndOK(new, me, peer, sent, got)
<1> DEFINE polite == Polite(me, peer)
<1>1. /\ conn.chain \in Seq(Operation) /\ conn.read \in Nat /\ polite \in BOOLEAN
      /\ Local.type = "local"
  BY OperationTypes DEF PeerConnection, Polite
<1>2. /\ \A t : Has(conn.chain, t) <=> Head(conn.chain).type = t \/ Has(new.chain, t)
      /\ \A t : Once(conn.chain, t) => Once(new.chain, t)
      /\ \A t : Once(conn.chain, t) /\ Head(conn.chain).type = t => ~Has(new.chain, t)
  BY <1>1, TailOf
<1>3. \A t : HasRead(new, got, t) <=> HasRead(conn, got, t)
  BY DEF HasRead
<1>4. \A t : HasRead(conn, got, t) => Has(got, t)
  BY <1>1, ReadFacts DEF EndOK
<1>5. Has(conn.chain, "answer") /\ ~Has(new.chain, "answer") /\ Head(conn.chain) # Local
  BY <1>1, <1>2 DEF EndOK
<1>6. Offered(conn, polite, sent, got)
  BY <1>5 DEF EndOK, Idle, Making, Answering, Answered, Accepted
<1>7. Has(got, "answer") /\ HasRead(new, got, "answer")
  BY <1>3, <1>4, <1>5, <1>6 DEF Offered
<1>8. ~Has(conn.chain, "offer")
  <2> SUFFICES ASSUME Has(conn.chain, "offer")
               PROVE  FALSE
    OBVIOUS
  <2>1. polite /\ Has(got, "offer")
    BY <1>4, <1>6 DEF Offered
  <2> QED BY <1>1, <1>7, <2>1, NotBoth
<1>9. \A t \in {"local", "offer", "answer"} : Once(new.chain, t) /\ ~Has(new.chain, t)
  BY <1>2, <1>5, <1>6, <1>8 DEF EndOK, Offered
<1>10. Accepted(new, me, sent, got)
  BY <1>6, <1>7, <1>9 DEF Offered, Accepted
<1> QED BY <1>9, <1>10 DEF EndOK

\* addIceCandidate
LEMMA CandidateOK ==
    ASSUME NEW conn \in PeerConnection, NEW new \in PeerConnection, NEW me \in Id, NEW peer \in Id,
           NEW sent, NEW got, EndOK(conn, me, peer, sent, got),
           conn.chain # <<>>, Head(conn.chain).type = "candidate",
           new.read = conn.read, new.chain = Tail(conn.chain), new.session = conn.session,
           new.signalingState = conn.signalingState, new.makingOffer = conn.makingOffer
    PROVE  EndOK(new, me, peer, sent, got)
<1> DEFINE polite == Polite(me, peer)
<1>1. conn.chain \in Seq(Operation) /\ Local.type = "local"
  BY OperationTypes DEF PeerConnection
<1>2. /\ \A t \in {"local", "offer", "answer"} : Has(new.chain, t) <=> Has(conn.chain, t)
      /\ \A t : Once(conn.chain, t) => Once(new.chain, t)
      /\ Head(conn.chain) # Local
  BY <1>1, TailOf
<1>3. \A t : HasRead(new, got, t) <=> HasRead(conn, got, t)
  BY DEF HasRead
<1>4. \A t \in {"local", "offer", "answer"} : Once(new.chain, t)
  BY <1>2 DEF EndOK
<1>5. ~Making(conn, polite, sent, got)
  BY <1>2 DEF Making
<1>6. Idle(conn, sent, got) => Idle(new, sent, got)
  BY <1>2, <1>3 DEF Idle
<1>7. Offered(conn, polite, sent, got) => Offered(new, polite, sent, got)
  BY <1>2, <1>3 DEF Offered
<1>8. Answering(conn, polite, sent, got) => Answering(new, polite, sent, got)
  BY <1>2, <1>3 DEF Answering
<1>9. Answered(conn, polite, peer, sent, got) => Answered(new, polite, peer, sent, got)
  BY <1>2, <1>3 DEF Answered
<1>10. Accepted(conn, me, sent, got) => Accepted(new, me, sent, got)
  BY <1>2, <1>3 DEF Accepted
<1> QED BY <1>4, <1>5, <1>6, <1>7, <1>8, <1>9, <1>10 DEF EndOK

-----------------------------------------------------------------------------
(***************************************************************************)
(* The steps.                                                              *)
(***************************************************************************)

\* What is known of an end that is open.
LEMMA EndFacts ==
    ASSUME RTCInv, NEW me \in Id, NEW peer \in Id, Open(me, peer)
    PROVE  /\ pc[me][peer] \in PeerConnection /\ pc[me][peer].status = "open"
           /\ stream[peer][me] \in Seq(Message) /\ stream[me][peer] \in Seq(Message)
           /\ EndOK(pc[me][peer], me, peer, stream[peer][me], stream[me][peer])
           /\ SignalsInOrder(Polite(me, peer), stream[peer][me], stream[me][peer])
           /\ SignalsInOrder(~Polite(me, peer), stream[me][peer], stream[peer][me])
<1>1. me # peer /\ pc[me][peer] \in PeerConnection
      /\ stream[peer][me] \in Seq(Message) /\ stream[me][peer] \in Seq(Message)
  BY DEF RTCInv, RTCTypeOK, PagesInv, Open
<1>2. /\ SignalsInOrder(Polite(me, peer), stream[peer][me], stream[me][peer])
      /\ SignalsInOrder(Polite(peer, me), stream[me][peer], stream[peer][me])
      /\ EndOK(pc[me][peer], me, peer, stream[peer][me], stream[me][peer])
  BY <1>1 DEF RTCInv, SignalsInv
<1>3. Polite(peer, me) = ~Polite(me, peer)
  BY <1>1, IdAssumption DEF Polite
<1> QED BY <1>1, <1>2, <1>3 DEF Open

\* A step of an end that sends nothing.
LEMMA QuietEnd ==
    ASSUME RTCInv, NEW me \in Id, NEW peer \in Id, NEW conn \in PeerConnection,
           pc' = [pc EXCEPT ![me][peer] = conn], UNCHANGED <<myId, gone, used, presence, connMap, stream>>
    PROVE  EndBecomes(me, peer, conn, stream[peer][me])
BY DEF RTCInv, RTCTypeOK, EndBecomes

LEMMA NegotiationStep ==
    ASSUME RTCInv, NEW me \in Id, NEW peer \in Id, OnNegotiationNeeded(me, peer)
    PROVE  RTCInv'
<1> DEFINE conn == pc[me][peer]
           new == [conn EXCEPT !.makingOffer = TRUE, !.chain = <<Local>>]
<1>1. /\ Open(me, peer) /\ conn.session = NoId /\ conn.signalingState = "stable" /\ conn.chain = <<>>
      /\ UNCHANGED <<myId, gone, used, presence, connMap, stream>>
  BY DEF OnNegotiationNeeded, Open, pageVars
<1>2. conn \in PeerConnection /\ conn.status = "open"
  BY <1>1, EndFacts
<1>3. pc' = [pc EXCEPT ![me][peer] = new]
  BY <1>2 DEF OnNegotiationNeeded, RTCInv, RTCTypeOK
<1>4. /\ new \in PeerConnection /\ new.status = "open"
      /\ new.read = conn.read /\ new.chain = <<Local>> /\ new.session = conn.session
      /\ new.signalingState = conn.signalingState /\ new.makingOffer = TRUE
  <2>1. <<Local>> \in Seq(Operation)
    BY OperationTypes
  <2> QED BY <1>2, <2>1 DEF PeerConnection
<1> HIDE DEF new
<1>5. EndOK(new, me, peer, stream[peer][me], stream[me][peer])
  BY <1>1, <1>4, EndFacts, NegotiationOK
<1>6. EndBecomes(me, peer, new, stream[peer][me])
  BY <1>1, <1>3, <1>4, QuietEnd
<1> QED BY <1>1, <1>4, <1>5, <1>6, EndFacts, EndStep

LEMMA MessageStep ==
    ASSUME RTCInv, NEW me \in Id, NEW peer \in Id, OnMessage(me, peer)
    PROVE  RTCInv'
<1> DEFINE conn == pc[me][peer]
           got == stream[me][peer]
           m == got[conn.read + 1]
           chain == IF m.type = "offer" /\ IgnoresOffer(me, peer) THEN conn.chain
                    ELSE Append(conn.chain, m)
           new == [conn EXCEPT !.read = @ + 1, !.chain = chain]
<1>1. /\ Open(me, peer) /\ conn.read < Len(got)
      /\ UNCHANGED <<myId, gone, used, presence, connMap, stream>>
  BY DEF OnMessage, Open, pageVars
<1>2. conn \in PeerConnection /\ conn.status = "open" /\ got \in Seq(Message)
  BY <1>1, EndFacts
<1>3. pc' = [pc EXCEPT ![me][peer] = new]
  BY <1>2 DEF OnMessage, RTCInv, RTCTypeOK
<1>4. chain = IF /\ m.type = "offer" /\ ~Polite(me, peer)
                 /\ conn.makingOffer \/ conn.signalingState # "stable"
              THEN conn.chain ELSE Append(conn.chain, m)
  BY DEF IgnoresOffer
<1>5. m \in Operation /\ conn.chain \in Seq(Operation) /\ conn.read \in Nat
  BY <1>1, <1>2, OperationTypes DEF PeerConnection
<1>6. chain \in Seq(Operation)
  BY <1>5
<1> HIDE DEF chain, m
<1>7. /\ new \in PeerConnection /\ new.status = "open"
      /\ new.read = conn.read + 1 /\ new.chain = chain /\ new.session = conn.session
      /\ new.signalingState = conn.signalingState /\ new.makingOffer = conn.makingOffer
  <2>1. conn.read + 1 \in Nat
    BY <1>5
  <2> HIDE DEF got
  <2> QED BY <1>2, <1>6, <2>1 DEF PeerConnection
<1> HIDE DEF new
<1>8. m = got[conn.read + 1]
  BY DEF m
<1>9. EndOK(new, me, peer, stream[peer][me], got)
  BY <1>1, <1>4, <1>7, <1>8, EndFacts, MessageOK
<1>10. EndBecomes(me, peer, new, stream[peer][me])
  BY <1>1, <1>3, <1>7, QuietEnd
<1> QED BY <1>1, <1>7, <1>9, <1>10, EndFacts, EndStep

\* What is sent goes into the peer's stream.
LEMMA SendingEnd ==
    ASSUME RTCInv, NEW me \in Id, NEW peer \in Id, NEW conn \in PeerConnection, NEW m \in Message,
           pc' = [pc EXCEPT ![me][peer] = conn], SendSignalingMessage(me, peer, m),
           UNCHANGED <<myId, gone, used, presence, connMap>>
    PROVE  /\ EndBecomes(me, peer, conn, Append(stream[peer][me], m))
           /\ Append(stream[peer][me], m) \in Seq(Message)
<1>1. Append(stream[peer][me], m) \in Seq(Message)
  BY DEF RTCInv, RTCTypeOK
<1>2. stream' = [stream EXCEPT ![peer][me] = Append(stream[peer][me], m)]
  BY DEF SendSignalingMessage, RTCInv, RTCTypeOK
<1> QED BY <1>1, <1>2 DEF RTCInv, RTCTypeOK, EndBecomes

LEMMA LocalStep ==
    ASSUME RTCInv, NEW me \in Id, NEW peer \in Id, Operate(me, peer), SetLocalDescription(me, peer)
    PROVE  RTCInv'
<1> DEFINE conn == pc[me][peer]
           type == IF conn.signalingState = "have-remote-offer" THEN "answer" ELSE "offer"
           m == [type |-> type]
           sent == stream[peer][me]
           new == [conn EXCEPT !.chain = Tail(@), !.gathering = type,
                      !.signalingState = IF type = "answer" THEN "stable" ELSE "have-local-offer",
                      !.session = IF type = "answer" THEN peer ELSE @,
                      !.makingOffer = IF type = "answer" THEN @ ELSE FALSE]
<1>1. /\ Open(me, peer) /\ conn.chain # <<>> /\ Head(conn.chain).type = "local"
      /\ UNCHANGED <<myId, gone, used, presence, connMap>>
  BY DEF Operate, SetLocalDescription, pageVars
<1>2. conn \in PeerConnection /\ conn.status = "open" /\ sent \in Seq(Message)
  BY <1>1, EndFacts
<1>3. pc' = [pc EXCEPT ![me][peer] = new] /\ SendSignalingMessage(me, peer, m)
  BY <1>2 DEF SetLocalDescription, RTCInv, RTCTypeOK
<1>4. m \in Message /\ type \in {"answer", "offer"}
  BY DEF Message
<1>5. Tail(conn.chain) \in Seq(Operation)
  BY <1>1, <1>2 DEF PeerConnection
<1>6. /\ new \in PeerConnection /\ new.status = "open"
      /\ new.read = conn.read /\ new.chain = Tail(conn.chain)
      /\ new.session = IF type = "answer" THEN peer ELSE conn.session
      /\ new.signalingState = IF type = "answer" THEN "stable" ELSE "have-local-offer"
      /\ new.makingOffer = IF type = "answer" THEN conn.makingOffer ELSE FALSE
  BY <1>2, <1>5 DEF PeerConnection
<1>7. type = IF conn.signalingState = "have-remote-offer" THEN "answer" ELSE "offer"
  OBVIOUS
<1> HIDE DEF new, type
<1>8. /\ EndOK(new, me, peer, Append(sent, m), stream[me][peer])
      /\ SignalsInOrder(Polite(me, peer), Append(sent, m), stream[me][peer])
  BY <1>1, <1>6, <1>7, EndFacts, LocalOK
<1> HIDE DEF m
<1>9. EndBecomes(me, peer, new, Append(sent, m)) /\ Append(sent, m) \in Seq(Message)
  BY <1>1, <1>3, <1>4, <1>6, SendingEnd
<1> QED BY <1>1, <1>4, <1>6, <1>8, <1>9, EndStep

\* The other operations of the chain send nothing.
LEMMA RemoteStep ==
    ASSUME RTCInv, NEW me \in Id, NEW peer \in Id, Operate(me, peer),
           SetRemoteOffer(me, peer) \/ SetRemoteAnswer(me, peer) \/ AddIceCandidate(me, peer)
    PROVE  RTCInv'
<1> DEFINE conn == pc[me][peer]
           sent == stream[peer][me]
           got == stream[me][peer]
<1>1. Open(me, peer) /\ conn.chain # <<>> /\ UNCHANGED <<myId, gone, used, presence, connMap, stream>>
  BY DEF Operate, SetRemoteOffer, SetRemoteAnswer, AddIceCandidate, pageVars
<1>2. conn \in PeerConnection /\ conn.status = "open"
  BY <1>1, EndFacts
<1>3. Tail(conn.chain) \in Seq(Operation) /\ Append(Tail(conn.chain), Local) \in Seq(Operation)
  BY <1>1, <1>2, OperationTypes DEF PeerConnection
<1>4. ASSUME NEW new \in PeerConnection, pc' = [pc EXCEPT ![me][peer] = new], new.status = "open",
             EndOK(new, me, peer, sent, got)
      PROVE  RTCInv'
  <2>1. EndBecomes(me, peer, new, sent)
    BY <1>1, <1>4, QuietEnd
  <2> QED BY <1>1, <1>4, <2>1, EndFacts, EndStep
<1>5. CASE SetRemoteOffer(me, peer)
  <2> DEFINE new == [conn EXCEPT !.chain = Append(Tail(@), Local), !.gathering = "none",
                                 !.signalingState = "have-remote-offer", !.reachable = FALSE]
  <2>1. pc' = [pc EXCEPT ![me][peer] = new] /\ Head(conn.chain).type = "offer"
    BY <1>2, <1>5 DEF SetRemoteOffer, RTCInv, RTCTypeOK
  <2>2. /\ new \in PeerConnection /\ new.status = "open"
        /\ new.read = conn.read /\ new.chain = Append(Tail(conn.chain), Local)
        /\ new.session = conn.session /\ new.signalingState = "have-remote-offer"
        /\ new.makingOffer = conn.makingOffer
    BY <1>2, <1>3 DEF PeerConnection
  <2> HIDE DEF new
  <2>3. EndOK(new, me, peer, sent, got)
    BY <1>1, <2>1, <2>2, EndFacts, RemoteOfferOK
  <2> QED BY <1>4, <2>1, <2>2, <2>3
<1>6. CASE SetRemoteAnswer(me, peer)
  <2> DEFINE new == IF conn.signalingState = "have-local-offer"
                    THEN [conn EXCEPT !.chain = Tail(@), !.signalingState = "stable",
                                      !.session = me, !.reachable = FALSE]
                    ELSE [conn EXCEPT !.chain = Tail(@)]
  <2>1. pc' = [pc EXCEPT ![me][peer] = new] /\ Head(conn.chain).type = "answer"
    BY <1>2, <1>6 DEF SetRemoteAnswer, RTCInv, RTCTypeOK
  <2>2. /\ new \in PeerConnection /\ new.status = "open"
        /\ new.read = conn.read /\ new.chain = Tail(conn.chain)
        /\ new.makingOffer = conn.makingOffer
        /\ conn.signalingState = "have-local-offer" =>
              new.session = me /\ new.signalingState = "stable"
    BY <1>2, <1>3 DEF PeerConnection
  <2> HIDE DEF new
  <2>3. EndOK(new, me, peer, sent, got)
    BY <1>1, <2>1, <2>2, EndFacts, RemoteAnswerOK
  <2> QED BY <1>4, <2>1, <2>2, <2>3
<1>7. CASE AddIceCandidate(me, peer)
  <2> DEFINE reached == conn.reachable \/ Head(conn.chain).of = RemoteDescription(conn, peer)
             new == [conn EXCEPT !.chain = Tail(@), !.reachable = reached]
  <2>1. pc' = [pc EXCEPT ![me][peer] = new] /\ Head(conn.chain).type = "candidate"
    BY <1>2, <1>7 DEF AddIceCandidate, RTCInv, RTCTypeOK
  <2>2. reached \in BOOLEAN
    OBVIOUS
  <2> HIDE DEF reached
  <2>3. /\ new \in PeerConnection /\ new.status = "open"
        /\ new.read = conn.read /\ new.chain = Tail(conn.chain) /\ new.session = conn.session
        /\ new.signalingState = conn.signalingState /\ new.makingOffer = conn.makingOffer
    BY <1>2, <1>3, <2>2 DEF PeerConnection
  <2> HIDE DEF new
  <2>4. EndOK(new, me, peer, sent, got)
    BY <1>1, <2>1, <2>3, EndFacts, CandidateOK
  <2> QED BY <1>4, <2>1, <2>3, <2>4
<1> QED BY <1>5, <1>6, <1>7

LEMMA IceStep ==
    ASSUME RTCInv, NEW me \in Id, NEW peer \in Id, OnIceCandidate(me, peer)
    PROVE  RTCInv'
<1> DEFINE conn == pc[me][peer]
           sent == stream[peer][me]
           m == [type |-> "candidate", of |-> conn.gathering]
           new == [conn EXCEPT !.gathering = "none"]
<1>1. /\ Open(me, peer) /\ conn.gathering # "none" /\ UNCHANGED <<myId, gone, used, presence, connMap>>
      /\ SendSignalingMessage(me, peer, m)
  BY DEF OnIceCandidate, pageVars
<1>2. conn \in PeerConnection /\ conn.status = "open" /\ sent \in Seq(Message)
  BY <1>1, EndFacts
<1>3. pc' = [pc EXCEPT ![me][peer] = new]
  BY <1>2 DEF OnIceCandidate, RTCInv, RTCTypeOK
<1>4. m \in Message /\ m.type = "candidate"
  BY <1>1, <1>2 DEF Message, PeerConnection
<1>5. /\ new \in PeerConnection /\ new.status = "open"
      /\ new.read = conn.read /\ new.chain = conn.chain /\ new.session = conn.session
      /\ new.signalingState = conn.signalingState /\ new.makingOffer = conn.makingOffer
  BY <1>2 DEF PeerConnection
<1> HIDE DEF new, m
<1>6. \A type \in {"offer", "answer"} : Has(Append(sent, m), type) <=> Has(sent, type)
  BY <1>2, <1>4, Appended
<1>7. EndOK(new, me, peer, Append(sent, m), stream[me][peer])
  BY <1>1, <1>5, <1>6, EndFacts, SameEnd
<1>8. SignalsInOrder(Polite(me, peer), Append(sent, m), stream[me][peer])
  <2>1. Polite(me, peer) \in BOOLEAN
    BY DEF Polite
  <2> QED BY <1>1, <1>4, <2>1, EndFacts, SendsInOrder
<1>9. EndBecomes(me, peer, new, Append(sent, m)) /\ Append(sent, m) \in Seq(Message)
  BY <1>1, <1>3, <1>4, <1>5, SendingEnd
<1> QED BY <1>1, <1>4, <1>5, <1>7, <1>8, <1>9, EndStep

\* A data channel that comes, or a connection that is closed.
LEMMA ChannelStep ==
    ASSUME RTCInv, NEW me \in Id, NEW peer \in Id, OnDataChannel(me, peer) \/ Fail(me, peer)
    PROVE  RTCInv'
<1> DEFINE conn == pc[me][peer]
           opened == [conn EXCEPT !.send = TRUE]
           closed == [conn EXCEPT !.status = "closed"]
<1>1. Open(me, peer) /\ UNCHANGED <<myId, gone, used, presence, connMap, stream>>
  BY DEF OnDataChannel, Fail, Connected, Settled, pageVars
<1>2. conn \in PeerConnection /\ conn.status = "open"
  BY <1>1, EndFacts
<1>3. CASE OnDataChannel(me, peer)
  <2>1. pc' = [pc EXCEPT ![me][peer] = opened]
    BY <1>2, <1>3 DEF OnDataChannel, RTCInv, RTCTypeOK
  <2>2. /\ opened \in PeerConnection /\ opened.status = "open"
        /\ opened.read = conn.read /\ opened.chain = conn.chain /\ opened.session = conn.session
        /\ opened.signalingState = conn.signalingState /\ opened.makingOffer = conn.makingOffer
    BY <1>2 DEF PeerConnection
  <2> HIDE DEF opened
  <2>3. EndOK(opened, me, peer, stream[peer][me], stream[me][peer])
    BY <1>1, <2>2, EndFacts, SameEnd
  <2>4. EndBecomes(me, peer, opened, stream[peer][me])
    BY <1>1, <2>1, <2>2, QuietEnd
  <2> QED BY <1>1, <2>2, <2>3, <2>4, EndFacts, EndStep
<1>4. CASE Fail(me, peer)
  <2>1. pc' = [pc EXCEPT ![me][peer] = closed]
    BY <1>2, <1>4 DEF Fail, OnFailure, RTCInv, RTCTypeOK
  <2>2. closed \in PeerConnection /\ closed.status = "closed"
    BY <1>2 DEF PeerConnection
  <2> HIDE DEF closed
  <2>3. EndBecomes(me, peer, closed, stream[peer][me])
    BY <1>1, <2>1, <2>2, QuietEnd
  <2> QED BY <1>1, <2>2, <2>3, EndFacts, EndStep
<1> QED BY <1>3, <1>4

-----------------------------------------------------------------------------
(***************************************************************************)
(* Pages.                                                                  *)
(***************************************************************************)

LEMMA FreshConnections ==
    /\ NoConnection \in PeerConnection /\ NoConnection.status = "none"
    /\ NewConnection \in PeerConnection /\ NewConnection.status = "open"
    /\ NewConnection.signalingState = "stable" /\ NewConnection.session = NoId
    /\ NewConnection.makingOffer = FALSE /\ NewConnection.chain = <<>> /\ NewConnection.read = 0
<1>1. <<>> \in Seq(Operation)
  OBVIOUS
<1>2. NoConnection \in PeerConnection
  BY <1>1 DEF NoConnection, PeerConnection
<1>3. NewConnection \in PeerConnection
  BY <1>2 DEF NewConnection, PeerConnection
<1> QED BY <1>2, <1>3 DEF NoConnection, NewConnection

LEMMA NewEndOK ==
    ASSUME NEW me, NEW peer, NEW got \in Seq(Message)
    PROVE  EndOK(NewConnection, me, peer, <<>>, got)
<1>1. \A type : ~HasRead(NewConnection, got, type)
  BY FreshConnections DEF HasRead
<1>2. Idle(NewConnection, <<>>, got)
  BY <1>1, FreshConnections, NothingSent DEF Idle
<1>3. NewConnection.read <= Len(got)
  BY FreshConnections
<1> QED BY <1>2, <1>3, FreshConnections, NothingSent DEF EndOK

LEMMA LeaveStep ==
    ASSUME RTCInv, NEW client \in Client, Leave(client)
    PROVE  RTCInv'
<1>1. /\ gone' = gone \cup {client}
      /\ presence' = [presence EXCEPT ![client] = [other \in Client |-> NoId]]
      /\ connMap' = [connMap EXCEPT ![client] = {}]
      /\ pc' = [me \in Id |-> IF me = myId[client] THEN [peer \in Id |-> NoConnection] ELSE pc[me]]
      /\ UNCHANGED <<myId, used, stream>>
  BY DEF Leave
<1> DEFINE before == myId[client]
<1>2. RTCTypeOK /\ PagesInv /\ SignalsInv
  BY DEF RTCInv
<1>3. /\ \A c \in Client : myId[c] \in Id /\ myId[c] \in used
      /\ \A c, d \in Client : myId[c] = myId[d] => c = d
      /\ before \in Id /\ \A i : Loaded(i)' <=> Loaded(i) /\ i # before
  BY <1>1, <1>2 DEF RTCTypeOK, IsInjective, Loaded
<1>4. /\ \A peer \in Id : pc'[before][peer].status = "none"
      /\ \A me \in Id : me # before => pc'[me] = pc[me]
  BY <1>1, <1>3, FreshConnections
<1>5. RTCTypeOK'
  <2>1. pc' \in [Id -> [Id -> PeerConnection]]
    BY <1>1, <1>2, FreshConnections DEF RTCTypeOK
  <2> QED BY <1>1, <1>2, <2>1 DEF RTCTypeOK, IsInjective
<1>6. \A c \in Client : Range(presence'[c]) \ {NoId} \subseteq connMap'[c]
  <2> SUFFICES ASSUME NEW c \in Client
               PROVE  Range(presence'[c]) \ {NoId} \subseteq connMap'[c]
    OBVIOUS
  <2>1. CASE c = client
    <3>1. presence'[c] = [other \in Client |-> NoId]
      BY <1>1, <1>2, <2>1 DEF RTCTypeOK
    <3> QED BY <3>1 DEF Range
  <2>2. CASE c # client
    <3>1. connMap'[c] = connMap[c] /\ presence'[c] = presence[c]
      BY <1>1, <1>2, <2>2 DEF RTCTypeOK
    <3> QED BY <1>2, <3>1 DEF PagesInv
  <2> QED BY <2>1, <2>2
<1>7. \A me, peer \in Id : pc'[me][peer].status # "none" => me # peer /\ Loaded(me)' /\ peer \in used'
  BY <1>1, <1>2, <1>3, <1>4 DEF PagesInv
<1>8. \A c, d \in Client :
         c # d /\ d \notin gone' /\ pc'[myId'[c]][myId'[d]].status # "none" => presence'[c][d] = myId'[d]
  <2> SUFFICES ASSUME NEW c \in Client, NEW d \in Client, c # d, d \notin gone',
                      pc'[myId[c]][myId[d]].status # "none"
               PROVE  presence'[c][d] = myId[d]
    BY <1>1
  <2>1. myId[c] # before /\ c # client /\ pc[myId[c]][myId[d]].status # "none"
    BY <1>3, <1>4
  <2>2. presence'[c] = presence[c] /\ d \notin gone
    BY <1>1, <1>2, <2>1 DEF RTCTypeOK
  <2> QED BY <1>2, <2>1, <2>2 DEF PagesInv
<1>9. \A me, peer \in Id :
         pc'[me][peer].status = "none" /\ (Loaded(me)' \/ me \notin used') => stream'[peer][me] = <<>>
  BY <1>1, <1>2, <1>3, <1>4 DEF PagesInv
<1>10. SignalsInv'
  <2> SUFFICES ASSUME NEW me \in Id, NEW peer \in Id, me # peer
               PROVE  /\ SignalsInOrder(Polite(me, peer), stream[peer][me], stream[me][peer])'
                      /\ Open(me, peer)' => EndOK(pc[me][peer], me, peer, stream[peer][me], stream[me][peer])'
    BY DEF SignalsInv
  <2>1. Open(me, peer)' => pc'[me] = pc[me]
    BY <1>4 DEF Open
  <2> QED BY <1>1, <1>2, <2>1 DEF SignalsInv, Open, Polite
<1> QED BY <1>5, <1>6, <1>7, <1>8, <1>9, <1>10 DEF RTCInv, PagesInv

LEMMA LoadStep ==
    ASSUME RTCInv, NEW client \in Client, Load(client)
    PROVE  RTCInv'
<1>1. PICK id \in Id \ used :
         /\ client \in gone /\ gone' = gone \ {client}
         /\ myId' = [myId EXCEPT ![client] = id]
         /\ used' = used \cup {id}
         /\ UNCHANGED <<presence, connMap, pc, stream>>
  BY DEF Load
<1>2. RTCTypeOK /\ PagesInv /\ SignalsInv
  BY DEF RTCInv
<1>3. /\ \A c \in Client : myId[c] \in Id /\ myId[c] \in used
      /\ \A c, d \in Client : myId[c] = myId[d] => c = d
      /\ myId'[client] = id /\ \A c \in Client : c # client => myId'[c] = myId[c]
  BY <1>1, <1>2 DEF RTCTypeOK, IsInjective
<1>4. \A i : Loaded(i)' <=> Loaded(i) \/ i = id
  BY <1>1, <1>3 DEF Loaded
<1>5. RTCTypeOK'
  <2>1. myId' \in [Client -> Id] /\ IsInjective(myId')
    BY <1>1, <1>2, <1>3 DEF RTCTypeOK, IsInjective
  <2> QED BY <1>1, <1>2, <1>3, <2>1 DEF RTCTypeOK
<1>6. \A me, peer \in Id : pc'[me][peer].status # "none" => me # peer /\ Loaded(me)' /\ peer \in used'
  BY <1>1, <1>2, <1>4 DEF PagesInv
<1>7. \A c, d \in Client :
         c # d /\ d \notin gone' /\ pc'[myId'[c]][myId'[d]].status # "none" => presence'[c][d] = myId'[d]
  <2> SUFFICES ASSUME NEW c \in Client, NEW d \in Client, c # d, d \notin gone',
                      pc[myId'[c]][myId'[d]].status # "none"
               PROVE  presence[c][d] = myId'[d]
    BY <1>1
  <2>1. myId'[c] \in Id /\ myId'[d] \in Id
    BY <1>5 DEF RTCTypeOK
  <2>2. Loaded(myId'[c]) /\ myId'[d] \in used
    BY <1>2, <2>1 DEF PagesInv
  <2>3. c # client /\ d # client
    <3>1. ~Loaded(id)
      BY <1>1, <1>3 DEF Loaded
    <3> QED BY <1>1, <1>3, <2>2, <3>1
  <2> QED BY <1>1, <1>2, <1>3, <2>3 DEF PagesInv
<1>8. \A me, peer \in Id :
         pc'[me][peer].status = "none" /\ (Loaded(me)' \/ me \notin used') => stream'[peer][me] = <<>>
  BY <1>1, <1>2, <1>4 DEF PagesInv
<1>9. SignalsInv'
  BY <1>1, <1>2 DEF SignalsInv, Open, Polite
<1>10. \A c \in Client : Range(presence'[c]) \ {NoId} \subseteq connMap'[c]
  BY <1>1, <1>2 DEF PagesInv
<1> QED BY <1>5, <1>6, <1>7, <1>8, <1>9, <1>10 DEF RTCInv, PagesInv

\* What expires is of a page that is not there any more.
LEMMA ExpireStep ==
    ASSUME RTCInv, NEW client \in Client, NEW other \in Client, Expire(client, other)
    PROVE  RTCInv'
<1>1. /\ ~Loaded(presence[client][other])
      /\ presence' = [presence EXCEPT ![client][other] = NoId]
      /\ UNCHANGED <<myId, gone, used, connMap, pc, stream>>
  BY DEF Expire, ClientId
<1>2. RTCTypeOK /\ PagesInv /\ SignalsInv
  BY DEF RTCInv
<1>3. /\ presence' \in [Client -> [Client -> Id \cup {NoId}]]
      /\ presence'[client][other] = NoId
      /\ \A c, d \in Client : c # client \/ d # other => presence'[c][d] = presence[c][d]
  BY <1>1, <1>2 DEF RTCTypeOK
<1>4. RTCTypeOK'
  BY <1>1, <1>2, <1>3 DEF RTCTypeOK, IsInjective
<1>5. \A i : Loaded(i)' <=> Loaded(i)
  BY <1>1 DEF Loaded
<1>6. \A c \in Client : Range(presence'[c]) \ {NoId} \subseteq connMap'[c]
  <2>1. \A c \in Client : Range(presence'[c]) \ {NoId} \subseteq Range(presence[c]) \ {NoId}
    <3> SUFFICES ASSUME NEW c \in Client, NEW d \in Client, presence'[c][d] # NoId
                 PROVE  presence'[c][d] \in Range(presence[c])
      BY <1>3 DEF Range
    <3>1. presence'[c][d] = presence[c][d] /\ DOMAIN presence[c] = Client
      BY <1>2, <1>3 DEF RTCTypeOK
    <3> QED BY <3>1 DEF Range
  <2> QED BY <1>1, <1>2, <2>1 DEF PagesInv
<1>7. \A c, d \in Client :
         c # d /\ d \notin gone' /\ pc'[myId'[c]][myId'[d]].status # "none" => presence'[c][d] = myId'[d]
  <2> SUFFICES ASSUME NEW c \in Client, NEW d \in Client, c # d, d \notin gone,
                      pc[myId[c]][myId[d]].status # "none"
               PROVE  presence'[c][d] = myId[d]
    BY <1>1
  <2>1. presence[c][d] = myId[d] /\ Loaded(myId[d])
    BY <1>2 DEF PagesInv, Loaded
  <2> QED BY <1>1, <1>3, <2>1
<1>8. SignalsInv'
  BY <1>1, <1>2 DEF SignalsInv, Open, Polite
<1> QED BY <1>1, <1>2, <1>4, <1>5, <1>6, <1>7, <1>8 DEF RTCInv, PagesInv

LEMMA HearStep ==
    ASSUME RTCInv, NEW client \in Client, NEW other \in Client, Hear(client, other)
    PROVE  RTCInv'
<1> DEFINE me == myId[client]
           peer == myId[other]
           peers == Range(presence'[client]) \ {NoId}
           added == peers \ connMap[client]
<1>1. RTCTypeOK /\ PagesInv /\ SignalsInv /\ NoId \notin Id
  BY IdAssumption DEF RTCInv
<1>2. /\ client # other /\ client \notin gone /\ other \notin gone
      /\ presence' = [presence EXCEPT ![client][other] = peer]
      /\ connMap' = [connMap EXCEPT ![client] = peers]
      /\ UNCHANGED <<myId, gone, used, stream>>
  BY DEF Hear, ClientId, Sync
<1>3. /\ \A c \in Client : myId[c] \in Id /\ myId[c] \in used
      /\ \A c, d \in Client : myId[c] = myId[d] => c = d
  BY <1>1 DEF RTCTypeOK, IsInjective
<1>4. me \in Id /\ peer \in Id /\ me # peer /\ Loaded(me)
  BY <1>2, <1>3 DEF Loaded
<1>5. /\ presence' \in [Client -> [Client -> Id \cup {NoId}]]
      /\ presence'[client][other] = peer
      /\ \A d \in Client : d # other => presence'[client][d] = presence[client][d]
      /\ \A c \in Client : c # client => presence'[c] = presence[c]
  BY <1>1, <1>2, <1>4 DEF RTCTypeOK
<1>6. Range(presence[client]) \ {NoId} \subseteq connMap[client]
  BY <1>1 DEF PagesInv
<1>7. \A x \in added : x = peer /\ presence[client][other] # peer
  <2> SUFFICES ASSUME NEW x \in added
               PROVE  x = peer /\ presence[client][other] # peer
    OBVIOUS
  <2>1. PICK d \in Client : x = presence'[client][d]
    BY <1>5 DEF Range
  <2>2. x \notin Range(presence[client]) /\ DOMAIN presence[client] = Client
    BY <1>1, <1>6 DEF RTCTypeOK
  <2>3. d = other
    BY <1>5, <2>1, <2>2 DEF Range
  <2> QED BY <1>5, <2>1, <2>2, <2>3 DEF Range
<1>8. pc' = [pc EXCEPT ![me] = [x \in Id |-> IF x \in added THEN NewConnection ELSE pc[me][x]]]
  BY DEF Hear, Sync, AddNewConnections
<1> HIDE DEF added, peers
<1>9. /\ \A i \in Id : i # me => pc'[i] = pc[i]
      /\ \A x \in Id : x # peer => pc'[me][x] = pc[me][x]
      /\ pc'[me][peer] = pc[me][peer]
            \/ (pc'[me][peer] = NewConnection /\ presence[client][other] # peer)
      /\ pc' \in [Id -> [Id -> PeerConnection]]
  <2>1. \A i \in Id : i # me => pc'[i] = pc[i]
    BY <1>1, <1>8 DEF RTCTypeOK
  <2>2. \A x \in Id : pc'[me][x] = IF x \in added THEN NewConnection ELSE pc[me][x]
    BY <1>1, <1>4, <1>8 DEF RTCTypeOK
  <2>3. pc' \in [Id -> [Id -> PeerConnection]]
    BY <1>1, <1>8, FreshConnections DEF RTCTypeOK
  <2> QED BY <1>7, <2>1, <2>2, <2>3, <1>4
<1>10. \/ pc'[me][peer] = pc[me][peer]
       \/ /\ pc'[me][peer] = NewConnection
          /\ pc[me][peer].status = "none" /\ stream[peer][me] = <<>>
  <2> SUFFICES ASSUME pc'[me][peer] = NewConnection, presence[client][other] # peer
               PROVE  pc[me][peer].status = "none" /\ stream[peer][me] = <<>>
    BY <1>9
  <2>1. pc[me][peer].status = "none"
    BY <1>1, <1>2 DEF PagesInv
  <2> QED BY <1>1, <1>4, <2>1 DEF PagesInv
<1>11. \A i, j \in Id :
          \/ pc'[i][j] = pc[i][j]
          \/ /\ i = me /\ j = peer /\ pc'[i][j] = NewConnection
             /\ pc[i][j].status = "none" /\ stream[j][i] = <<>>
  BY <1>9, <1>10
<1>12. RTCTypeOK'
  <2>1. peers \in SUBSET Id
    BY <1>5 DEF Range, peers
  <2> QED BY <1>1, <1>2, <1>5, <1>9, <2>1 DEF RTCTypeOK
<1>13. PagesInv'
  <2>1. \A c \in Client : Range(presence'[c]) \ {NoId} \subseteq connMap'[c]
    <3> SUFFICES ASSUME NEW c \in Client
                 PROVE  Range(presence'[c]) \ {NoId} \subseteq connMap'[c]
      OBVIOUS
    <3>1. CASE c = client
      BY <1>1, <1>2, <3>1 DEF peers, RTCTypeOK
    <3>2. CASE c # client
      BY <1>1, <1>2, <1>5, <3>2 DEF RTCTypeOK, PagesInv
    <3> QED BY <3>1, <3>2
  <2>2. \A i, j \in Id : pc'[i][j].status # "none" => i # j /\ Loaded(i)' /\ j \in used'
    BY <1>1, <1>2, <1>3, <1>4, <1>11 DEF PagesInv, Loaded
  <2>3. \A c, d \in Client :
           c # d /\ d \notin gone' /\ pc'[myId'[c]][myId'[d]].status # "none"
               => presence'[c][d] = myId'[d]
    <3> SUFFICES ASSUME NEW c \in Client, NEW d \in Client, c # d, d \notin gone,
                        pc'[myId[c]][myId[d]].status # "none"
                 PROVE  presence'[c][d] = myId[d]
      BY <1>2
    <3>1. CASE c = client /\ d = other
      BY <1>5, <3>1
    <3>2. CASE c # client \/ d # other
      <4>1. pc'[myId[c]][myId[d]] = pc[myId[c]][myId[d]]
        BY <1>3, <1>11, <3>2
      <4>2. presence[c][d] = myId[d]
        BY <1>1, <4>1 DEF PagesInv
      <4> QED BY <1>5, <3>2, <4>2
    <3> QED BY <3>1, <3>2
  <2>4. \A i, j \in Id :
           pc'[i][j].status = "none" /\ (Loaded(i)' \/ i \notin used') => stream'[j][i] = <<>>
    BY <1>1, <1>2, <1>11 DEF PagesInv, Loaded
  <2> QED BY <2>1, <2>2, <2>3, <2>4 DEF PagesInv
<1>14. SignalsInv'
  <2> SUFFICES ASSUME NEW i \in Id, NEW j \in Id, i # j
               PROVE  /\ SignalsInOrder(Polite(i, j), stream[j][i], stream[i][j])'
                      /\ Open(i, j)' => EndOK(pc[i][j], i, j, stream[j][i], stream[i][j])'
    BY DEF SignalsInv
  <2>1. /\ SignalsInOrder(Polite(i, j), stream[j][i], stream[i][j])
        /\ Open(i, j) => EndOK(pc[i][j], i, j, stream[j][i], stream[i][j])
        /\ stream[i][j] \in Seq(Message)
    BY <1>1 DEF SignalsInv, RTCTypeOK
  <2>2. CASE pc'[i][j] = pc[i][j]
    BY <1>2, <2>1, <2>2 DEF Open, Polite
  <2>3. CASE pc'[i][j] = NewConnection /\ stream[j][i] = <<>>
    <3>1. EndOK(NewConnection, i, j, <<>>, stream[i][j])
      BY <2>1, NewEndOK
    <3> QED BY <1>2, <2>1, <2>3, <3>1 DEF Polite
  <2> QED BY <1>11, <2>2, <2>3
<1> QED BY <1>12, <1>13, <1>14 DEF RTCInv

\* What says nothing of pages, signals and connections.
LEMMA ValueStep ==
    ASSUME RTCInv, UNCHANGED <<myId, gone, used, presence, connMap, pc, stream>>
    PROVE  RTCInv'
<1>1. RTCTypeOK'
  BY DEF RTCInv, RTCTypeOK, IsInjective
<1>2. PagesInv'
  BY DEF RTCInv, PagesInv, Loaded, Range
<1>3. SignalsInv'
  BY DEF RTCInv, SignalsInv, Open, Polite
<1> QED BY <1>1, <1>2, <1>3 DEF RTCInv

LEMMA RTCStart == RTCInit => RTCInv
<1> SUFFICES ASSUME RTCInit
             PROVE  RTCInv
  OBVIOUS
<1>1. myId \in [Client -> Id] /\ IsInjective(myId)
  BY FirstIdsAssumption DEF RTCInit
<1>2. used \subseteq Id /\ \A client \in Client : myId[client] \in used
  BY <1>1 DEF RTCInit, Range
<1>3. RTCTypeOK
  BY <1>1, <1>2, FreshConnections DEF RTCInit, RTCTypeOK
<1>4. PagesInv
  <2>1. \A client \in Client : Range(presence[client]) \ {NoId} \subseteq connMap[client]
    BY DEF RTCInit, Range
  <2>2. \A i, j \in Id : pc[i][j].status = "none" /\ stream[j][i] = <<>>
    BY FreshConnections DEF RTCInit
  <2> QED BY <1>1, <2>1, <2>2 DEF PagesInv
<1>5. SignalsInv
  <2>1. \A i, j \in Id : ~Open(i, j) /\ stream[j][i] = <<>>
    BY FreshConnections DEF RTCInit, Open
  <2>2. \A polite : SignalsInOrder(polite, <<>>, <<>>)
    BY NothingSent DEF SignalsInOrder
  <2> QED BY <2>1, <2>2 DEF SignalsInv
<1> QED BY <1>3, <1>4, <1>5 DEF RTCInv

LEMMA RTCStep == RTCInv /\ [RTCNext]_rtcVars => RTCInv'
<1> SUFFICES ASSUME RTCInv, [RTCNext]_rtcVars
             PROVE  RTCInv'
  OBVIOUS
<1>1. \A client \in Client : myId[client] \in Id
  BY DEF RTCInv, RTCTypeOK
<1>2. ASSUME NEW client \in Client, Leave(client) \/ Load(client)
      PROVE  RTCInv'
  BY <1>2, LeaveStep, LoadStep
<1>3. ASSUME NEW client \in Client, NEW other \in Client,
             Hear(client, other) \/ Expire(client, other)
      PROVE  RTCInv'
  BY <1>3, HearStep, ExpireStep
<1>4. ASSUME NEW me \in Id, NEW peer \in Id,
             \/ OnNegotiationNeeded(me, peer) \/ OnMessage(me, peer) \/ Operate(me, peer)
             \/ OnIceCandidate(me, peer) \/ OnDataChannel(me, peer) \/ Fail(me, peer)
      PROVE  RTCInv'
  <2>1. CASE Operate(me, peer)
    BY <2>1, LocalStep, RemoteStep DEF Operate
  <2> QED BY <1>4, <2>1, NegotiationStep, MessageStep, IceStep, ChannelStep
<1>5. ASSUME NEW client \in Client, NEW peer \in Id, Send(client) \/ Arrive(client, peer)
      PROVE  RTCInv'
  BY <1>5, ValueStep DEF Send, Arrive, pageVars
<1>6. ASSUME NEW client \in Client, Send(client)
      PROVE  RTCInv'
  BY <1>6, ValueStep DEF Send, pageVars
<1>7. CASE UNCHANGED rtcVars
  BY <1>7, ValueStep DEF rtcVars, pageVars
<1>8. CASE GoOn
  <2>1. ASSUME NEW client \in Client, NEW peer \in Id, Progress(client, peer)
        PROVE  RTCInv'
    BY <1>1, <1>4, <1>5, <2>1 DEF Progress
  <2> QED BY <1>3, <1>8, <2>1 DEF GoOn
<1> QED BY <1>2, <1>4, <1>6, <1>7, <1>8 DEF RTCNext

-----------------------------------------------------------------------------
THEOREM RTCInvariant == RTCSpec => []RTCInv
BY RTCStart, RTCStep, PTL DEF RTCSpec

\* The connections of pages are well typed, and are between pages that have heard of each
\* other (webrtc.ts: sync makes one for every presence, and a page never hears itself).
THEOREM PeersAreKnown == RTCSpec => [](RTCTypeOK /\ PagesInv)
<1>1. RTCInv => RTCTypeOK /\ PagesInv
  BY DEF RTCInv
<1> QED BY <1>1, RTCInvariant, PTL

\* For any number of tabs, and however offers cross, pages are left and loaded in the middle
\* and connections fail: two ends that have both settled have settled on one offer, and an
\* answer finds the offer that it is for (webrtc.ts: of two offers that collide the polite
\* end takes back its own, and the other ignores what it gets).
THEOREM EndsShareSession == RTCSpec => []OneSession
<1>1. ASSUME RTCInv, NEW p \in Id, NEW q \in Id, Settled(p, q), Settled(q, p)
      PROVE  pc[p][q].session = pc[q][p].session
  <2> DEFINE a == stream[q][p]
             b == stream[p][q]
  <2>1. /\ EndOK(pc[p][q], p, q, a, b) /\ SignalsInOrder(Polite(p, q), a, b)
        /\ pc[p][q] \in PeerConnection /\ a \in Seq(Message) /\ b \in Seq(Message)
        /\ EndOK(pc[q][p], q, p, b, a) /\ SignalsInOrder(~Polite(p, q), b, a)
        /\ pc[q][p] \in PeerConnection
    BY <1>1, EndFacts DEF Settled
  <2>2. /\ \A type : HasRead(pc[p][q], b, type) => Has(b, type)
        /\ \A type : HasRead(pc[q][p], a, type) => Has(a, type)
    BY <2>1, ReadFacts DEF EndOK, PeerConnection
  <2>3. /\ \/ pc[p][q].session = q /\ Has(a, "answer") /\ Has(b, "offer")
           \/ pc[p][q].session = p /\ Has(b, "answer") /\ Has(a, "offer")
        /\ \/ pc[q][p].session = p /\ Has(b, "answer") /\ Has(a, "offer")
           \/ pc[q][p].session = q /\ Has(a, "answer") /\ Has(b, "offer")
    BY <1>1, <2>1, <2>2 DEF Settled, EndOK, Idle, Making, Offered, Answering, Answered, Accepted
  <2>4. ~(Has(a, "answer") /\ Has(b, "offer") /\ Has(b, "answer") /\ Has(a, "offer"))
    <3>1. Polite(p, q) \in BOOLEAN
      BY DEF Polite
    <3> QED BY <2>1, <3>1 DEF SignalsInOrder, Has
  <2> QED BY <2>3, <2>4
<1>2. ASSUME RTCInv, NEW p \in Id, NEW q \in Id, Open(p, q),
             NEW i \in pc[p][q].read + 1 .. Len(stream[p][q]), stream[p][q][i].type = "answer"
      PROVE  pc[p][q].signalingState = "have-local-offer"
  <2> DEFINE conn == pc[p][q]
             sent == stream[q][p]
             got == stream[p][q]
  <2>1. /\ EndOK(conn, p, q, sent, got) /\ conn \in PeerConnection /\ got \in Seq(Message)
        /\ SignalsInOrder(Polite(p, q), sent, got) /\ SignalsInOrder(~Polite(p, q), got, sent)
    BY <1>2, EndFacts
  <2>2. conn.read \in Nat /\ conn.read <= Len(got) /\ i \in DOMAIN got
    BY <1>2, <2>1 DEF EndOK, PeerConnection
  <2>3. Has(got, "answer") /\ Has(sent, "offer")
    BY <1>2, <2>1, <2>2 DEF Has, SignalsInOrder
  <2>4. ~HasRead(conn, got, "answer")
    <3> SUFFICES ASSUME NEW j \in 1 .. conn.read, got[j].type = "answer"
                 PROVE  FALSE
      BY DEF HasRead
    <3>1. j \in DOMAIN got /\ j # i
      BY <1>2, <2>2
    <3> QED BY <1>2, <2>1, <2>2, <3>1 DEF SignalsInOrder, Once
  <2>5. HasRead(conn, got, "offer") => ~Polite(p, q)
    <3>1. Polite(p, q) \in BOOLEAN
      BY DEF Polite
    <3> QED BY <2>1, <2>2, <2>3, <3>1, ReadFacts, NotBoth
  <2> QED BY <2>1, <2>3, <2>4, <2>5
          DEF EndOK, Idle, Making, Offered, Answering, Answered, Accepted
<1>3. RTCInv => OneSession
  BY <1>1, <1>2 DEF OneSession
<1> QED BY <1>3, RTCInvariant, PTL
=============================================================================
