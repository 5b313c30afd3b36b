---------------------------- MODULE MirrorProofs ----------------------------
(***************************************************************************)
(* Proofs about RoomMirror and ClientApi, for every number of clients,     *)
(* every number of messages in flight and every sequence of calls.         *)
(***************************************************************************)
EXTENDS EventProofs, ApiProofs

\* Who tries a leaf that names no prover: SMT, then Zenon, then SMT with more time.  Leaves whose
\* goal leads SMT astray name Zenon, with a second attempt that has more time.
USE SMTT(20), ZenonT(20), Z3T(60)

(***************************************************************************)
(* The inductive invariant: what a client has cached and what is on its    *)
(* way to it add up to what the server knows of it.                        *)
(***************************************************************************)

\* What is on its way to c can be carved, event by event; if the server still
\* has the connection, it leads to what c is to know.
InTransit(c) ==
    \E w : /\ Trace(c, Cache(client[c]), net[c], w)
           /\ c \in DOMAIN connections => w = Truth(c)

MirrorInv ==
    /\ Inv
    /\ net \in [Id -> Seq(Fitting)]
    /\ DOMAIN client = Id
    /\ \A c \in Id : GoodClient(client[c])
    /\ \A c \in Id : IF client[c].is_open THEN InTransit(c) ELSE net[c] = <<>>
    /\ \A c \in Id : c >= next_id => client[c] = NewClient

\* Only AcceptLoop makes connections, each with an id of its own.
LEMMA ConnectionsGrow ==
    ASSUME Inv, Next
    PROVE  /\ next_id' >= next_id
           /\ \A c \in DOMAIN connections' :
                 c \in DOMAIN connections \/ (c = next_id /\ c \notin sessions')
<1>1. CASE AcceptLoop
  <2>1. next_id \in Nat /\ sessions \subseteq 1..(next_id - 1)
    BY DEF Inv, StateType
  <2>2. next_id \notin sessions
    BY <2>1
  <2> QED BY <1>1, <2>1, <2>2 DEF AcceptLoop, Put
<1>2. ASSUME next_id' = next_id, DOMAIN connections' \subseteq DOMAIN connections
      PROVE  /\ next_id' >= next_id
             /\ \A c \in DOMAIN connections' : c \in DOMAIN connections
  <2>1. next_id \in Nat
    BY DEF Inv, StateType
  <2> QED BY <1>2, <2>1
<1>3. ASSUME NEW c \in Id, Session(c) \/ SessionEnd(c)
      PROVE  next_id' = next_id /\ DOMAIN connections' \subseteq DOMAIN connections
  BY <1>3 DEF Session, SessionEnd, Drop
<1>4. ASSUME NEW c \in Id, HandleMessage(c)
      PROVE  next_id' = next_id /\ DOMAIN connections' \subseteq DOMAIN connections
  <2> DEFINE Goal == next_id' = next_id /\ DOMAIN connections' \subseteq DOMAIN connections
  <2>1. ASSUME NEW msgs, Answer(c, msgs) PROVE Goal
    BY <2>1 DEF Answer
  <2>2. ASSUME NEW d, NEW rs, NEW msg, TakeOut(rs, d, msg) PROVE Goal
    BY <2>2 DEF TakeOut
  <2>3. CASE HandleCreateRoom(c)
    BY Zenon, ZenonT(60), <2>1, <2>3 DEF HandleCreateRoom, Fail
  <2>4. CASE \E code \in RoomCode, password \in Password : HandleJoinRoom(c, code, password)
    BY <2>1, <2>4 DEF HandleJoinRoom, Fail
  <2>5. CASE HandleLeaveRoom(c)
    BY <2>1, <2>2, <2>5 DEF HandleLeaveRoom, Fail
  <2>6. CASE HandleRoomChat(c) \/ Heartbeat(c)
    BY <2>1, <2>6 DEF HandleRoomChat, Heartbeat, Fail
  <2>7. CASE \E id \in Id : HandleP2PSignal(c, id)
    BY <2>7 DEF HandleP2PSignal, Answer, Ignore
  <2>8. CASE \E key \in Key, value \in Value : HandleSetRoomData(c, key, value)
    BY <2>1, <2>8 DEF HandleSetRoomData, Fail, Ignore
  <2>9. CASE \E key \in Key, value \in Value : HandleSetMemberData(c, key, value)
    BY <2>1, <2>9 DEF HandleSetMemberData, Fail, Ignore
  <2>10. CASE \E id \in Id : HandleKickMember(c, id) \/ HandleBanMember(c, id)
    BY <2>1, <2>2, <2>10 DEF HandleKickMember, HandleBanMember, Fail
  <2>11. CASE \E id \in Id : HandleTransferHost(c, id)
    BY <2>1, <2>11 DEF HandleTransferHost, Fail, Ignore
  <2>12. CASE \E open \in BOOLEAN : HandleSetRoomJoinable(c, open)
    BY <2>1, <2>12 DEF HandleSetRoomJoinable, Fail, Ignore
  <2>13. CASE \E password \in Password : HandleSetRoomPassword(c, password)
    BY <2>1, <2>13 DEF HandleSetRoomPassword, Fail, Ignore
  <2> QED BY <1>4, <2>3, <2>4, <2>5, <2>6, <2>7, <2>8, <2>9, <2>10, <2>11, <2>12, <2>13
          DEF HandleMessage
<1> QED BY <1>1, <1>2, <1>3, <1>4 DEF Next

\* What a step of the server sends reaches a client after what is on its way.
LEMMA DeliverOne ==
    ASSUME MirrorInv, Next, Deliver, NEW c \in Id
    PROVE  /\ GoodClient(client'[c])
           /\ net'[c] \in Seq(Fitting)
           /\ IF client'[c].is_open THEN InTransit(c)' ELSE net'[c] = <<>>
           /\ c >= next_id' => client'[c] = NewClient
<1> DEFINE cl == client[c]
           accepted == c \in DOMAIN connections' \ DOMAIN connections
           b == cl.is_open \/ accepted
           s == sent'[c]
<1>1. /\ Inv /\ Inv' /\ GoodClient(cl) /\ cl.is_open \in BOOLEAN /\ net[c] \in Seq(Fitting)
      /\ IF cl.is_open THEN InTransit(c) ELSE net[c] = <<>>
      /\ c >= next_id => cl = NewClient
  BY InvNext DEF MirrorInv, GoodClient, ClientState
<1>2. s \in Seq(Fitting)
  BY <1>1, SentNext DEF SentType
<1>3. /\ c \in DOMAIN connections => Told(c)
      /\ c \notin DOMAIN connections => s = <<>>
  BY <1>1, NextTells DEF Tells
<1>4. /\ next_id' >= next_id /\ next_id \in Nat /\ next_id' \in Nat /\ c \in Nat
      /\ c \in DOMAIN connections' =>
            c \in DOMAIN connections \/ (c = next_id /\ c \notin sessions')
      /\ c \in DOMAIN connections' => c < next_id'
  BY <1>1, ConnectionsGrow DEF Inv, StateType, Id
<1>5. /\ client'[c] = [cl EXCEPT !.is_open = b]
      /\ net'[c] = IF cl.is_open THEN net[c] \o Kept(s) ELSE <<>>
  BY DEF Deliver
<1>6. b \in BOOLEAN
  BY <1>1
<1> HIDE DEF b, cl
<1>7. GoodClient(client'[c]) /\ Cache(client'[c]) = Cache(cl) /\ client'[c].is_open = b
  BY <1>1, <1>5, <1>6, OpenLinks
<1>8. Kept(<<>>) = <<>>
  BY DEF Kept
<1>9. CASE cl.is_open /\ c \in DOMAIN connections
  <2>1. PICK w : Trace(c, Truth(c), s, w) /\ (c \in DOMAIN connections' => w = Truth(c)')
    BY <1>3, <1>9 DEF Told
  <2>2. Kept(s) \in Seq(Fitting) /\ Trace(c, Truth(c), Kept(s), w)
    BY Zenon, ZenonT(60), <1>2, <2>1, TraceKept
  <2>3. Trace(c, Cache(cl), net[c], Truth(c))
    BY <1>1, <1>9 DEF InTransit, cl
  <2>4. Trace(c, Cache(cl), net[c] \o Kept(s), w)
    BY <1>1, <2>2, <2>3, TraceConcat
  <2>5. net'[c] = net[c] \o Kept(s) /\ net'[c] \in Seq(Fitting)
    <3>1. net'[c] = net[c] \o Kept(s)
      BY Zenon, ZenonT(60), <1>5, <1>9
    <3>2. net[c] \o Kept(s) \in Seq(Fitting)
      BY <1>1, <2>2
    <3> QED BY Zenon, ZenonT(60), <3>1, <3>2
  <2>6. InTransit(c)'
    BY Zenon, ZenonT(60), <1>7, <2>1, <2>4, <2>5 DEF InTransit
  <2>7. c < next_id
    BY <1>1, <1>9 DEF Inv, StateType
  <2>8. ~(c >= next_id')
    BY <1>4, <2>7
  <2>9. client'[c].is_open
    BY Zenon, ZenonT(60), <1>7, <1>9 DEF b
  <2> QED BY <1>7, <2>5, <2>6, <2>8, <2>9
<1>10. CASE cl.is_open /\ c \notin DOMAIN connections
  <2>1. c < next_id
    BY <1>1, <1>4, <1>10 DEF NewClient
  <2>2. c \notin DOMAIN connections' /\ ~(c >= next_id')
    BY <1>4, <1>10, <2>1
  <2>3. net'[c] = net[c]
    <3>1. net'[c] = net[c] \o <<>>
      BY Zenon, ZenonT(60), <1>3, <1>5, <1>8, <1>10
    <3>2. net[c] \o <<>> = net[c]
      BY <1>1
    <3> QED BY Zenon, ZenonT(60), <3>1, <3>2
  <2>4. InTransit(c)'
    BY Zenon, ZenonT(60), <1>1, <1>7, <1>10, <2>2, <2>3 DEF InTransit, cl
  <2>5. client'[c].is_open
    BY Zenon, ZenonT(60), <1>7, <1>10 DEF b
  <2> QED BY <1>1, <1>7, <2>2, <2>3, <2>4, <2>5
<1>11. CASE ~cl.is_open /\ accepted
  <2>1. c = next_id /\ c \notin sessions' /\ ~(c >= next_id')
    BY <1>4, <1>11
  <2>2. cl = NewClient
    BY <1>1, <1>4, <2>1
  <2>3. Truth(c)' = Outside(0)
    BY <2>1 DEF Truth
  <2>4. Cache(client'[c]) = Truth(c)' /\ net'[c] = <<>>
    BY <1>5, <1>7, <1>11, <2>2, <2>3, NewClientGood
  <2>5. InTransit(c)'
    BY Zenon, ZenonT(60), <2>4, TraceEmpty DEF InTransit
  <2>6. client'[c].is_open
    BY Zenon, ZenonT(60), <1>7, <1>11 DEF b
  <2>7. net'[c] \in Seq(Fitting)
    BY <2>4
  <2> QED BY <1>7, <2>1, <2>5, <2>6, <2>7
<1>12. CASE ~cl.is_open /\ ~accepted
  <2>1. b = FALSE /\ cl.is_open = FALSE
    BY <1>1, <1>12 DEF b
  <2>2. client'[c] = cl
    BY Zenon, ZenonT(60), <1>1, <1>5, <2>1 DEF GoodClient, ClientState
  <2>3. net'[c] = <<>> /\ net'[c] \in Seq(Fitting)
    BY <1>5, <1>12
  <2>4. c >= next_id' => cl = NewClient
    BY <1>1, <1>4
  <2> QED BY <1>1, <1>12, <2>2, <2>3, <2>4
<1> QED BY <1>9, <1>10, <1>11, <1>12

\* A step of the server.
LEMMA DeliverInv == ASSUME MirrorInv, Next, Deliver PROVE MirrorInv'
<1>1. Inv'
  BY InvNext DEF MirrorInv
<1>2. DOMAIN client' = Id /\ DOMAIN net' = Id /\ net' = [c \in Id |-> net'[c]]
  BY DEF Deliver
<1>3. \A c \in Id : net'[c] \in Seq(Fitting)
  BY DeliverOne
<1>4. net' \in [Id -> Seq(Fitting)]
  BY <1>2, <1>3
<1> QED BY <1>1, <1>2, <1>4, DeliverOne DEF MirrorInv

\* A step of client c, which the server takes no part in.
LEMMA ClientStep ==
    ASSUME MirrorInv, UNCHANGED vars, NEW c \in Id, NEW new, GoodClient(new),
           NEW msgs \in Seq(Fitting), NEW w,
           client' = [client EXCEPT ![c] = new], net' = [net EXCEPT ![c] = msgs],
           client[c] # NewClient,
           IF new.is_open
           THEN Trace(c, Cache(new), msgs, w) /\ (c \in DOMAIN connections => w = Truth(c))
           ELSE msgs = <<>>
    PROVE  MirrorInv'
<1>1. Inv /\ Inv'
  BY InvNext DEF MirrorInv
<1>2. /\ DOMAIN client' = Id /\ client'[c] = new /\ net'[c] = msgs
      /\ \A d \in Id : d # c => client'[d] = client[d] /\ net'[d] = net[d]
      /\ net' \in [Id -> Seq(Fitting)]
  BY DEF MirrorInv
<1>3. connections' = connections /\ next_id' = next_id /\ \A d : Truth(d)' = Truth(d)
  BY DEF vars, Truth
<1>4. ASSUME NEW d \in Id
      PROVE  /\ GoodClient(client'[d])
             /\ IF client'[d].is_open THEN InTransit(d)' ELSE net'[d] = <<>>
             /\ d >= next_id' => client'[d] = NewClient
  <2>1. CASE d = c
    <3>1. d >= next_id' => client'[d] = NewClient
      BY <1>3, <2>1 DEF MirrorInv
    <3>2. new.is_open => InTransit(c)'
      BY Zenon, ZenonT(60), <1>2, <1>3 DEF InTransit
    <3> QED BY <1>2, <2>1, <3>1, <3>2
  <2>2. CASE d # c
    <3>1. client'[d] = client[d] /\ net'[d] = net[d]
      BY <1>2, <2>2
    <3>2. InTransit(d) => InTransit(d)'
      BY Zenon, ZenonT(60), <1>3, <3>1 DEF InTransit
    <3> QED BY <1>3, <3>1, <3>2 DEF MirrorInv
  <2> QED BY <2>1, <2>2
<1> QED BY <1>1, <1>2, <1>4 DEF MirrorInv

\* Carving one message, as Poll does it: it is legal, and the rest is still on
\* its way.
LEMMA PollFacts ==
    ASSUME MirrorInv, NEW c \in Id, Poll(c)
    PROVE  LET msg == Head(net[c])
           IN  /\ msg \in ServerMessage
               /\ Legal(c, Cache(client[c]), msg)
               /\ GoodClient(client'[c]) /\ client'[c].is_open
               /\ Cache(client'[c]) = Apply(Cache(client[c]), msg)
               /\ MirrorInv'
<1> DEFINE cl == client[c]
           s == net[c]
<1>1. /\ GoodClient(cl) /\ cl.is_open /\ s \in Seq(Fitting) /\ s # <<>>
      /\ InTransit(c) /\ UNCHANGED vars /\ c \in DOMAIN client
  BY DEF MirrorInv, Poll
<1>2. PICK new \in CarveServer(cl, Head(s)) : client' = [client EXCEPT ![c] = new]
  BY Zenon, ZenonT(60) DEF Poll
<1>3. net' = [net EXCEPT ![c] = Tail(s)]
  BY DEF Poll
<1>4. PICK w : Trace(c, Cache(cl), s, w) /\ (c \in DOMAIN connections => w = Truth(c))
  BY <1>1 DEF InTransit
<1>5. cl # NewClient
  BY <1>1 DEF NewClient
<1> HIDE DEF cl, s
<1>6. Legal(c, Cache(cl), Head(s)) /\ Trace(c, Apply(Cache(cl), Head(s)), Tail(s), w)
  BY <1>1, <1>4, TraceTail
<1>7. Head(s) \in ServerMessage /\ Tail(s) \in Seq(Fitting)
  BY <1>1 DEF Fitting
<1>8. GoodClient(new) /\ Cache(new) = Apply(Cache(cl), Head(s)) /\ new.is_open = cl.is_open
  BY Zenon, ZenonT(60), <1>1, <1>2, <1>6, <1>7, CarveFacts
<1>9. MirrorInv'
  BY Zenon, ZenonT(60), <1>1, <1>2, <1>3, <1>4, <1>5, <1>6, <1>7, <1>8, ClientStep DEF cl
<1>10. client'[c] = new
  BY <1>1, <1>2
<1> QED BY Zenon, ZenonT(60), <1>1, <1>6, <1>7, <1>8, <1>9, <1>10 DEF cl, s

\* A client that loses its connection is in no room, and nothing reaches it.
LEMMA DisconnectInv == ASSUME MirrorInv, NEW c \in Id, DisconnectServer(c) PROVE MirrorInv'
<1> DEFINE cl == client[c]
           new == [Cleared(cl) EXCEPT !.is_open = FALSE]
<1>1. GoodClient(cl) /\ cl.is_open /\ UNCHANGED vars
  BY DEF MirrorInv, DisconnectServer
<1>2. GoodClient(new) /\ new.is_open = FALSE
  BY Zenon, ZenonT(60), <1>1, ClearedFacts, OpenLinks
<1>3. cl # NewClient
  BY <1>1 DEF NewClient
<1>4. /\ client' = [client EXCEPT ![c] = new]
      /\ net' = [net EXCEPT ![c] = <<>>]
  BY DEF DisconnectServer
<1> HIDE DEF new
<1>5. <<>> \in Seq(Fitting)
  OBVIOUS
<1> QED BY Zenon, ZenonT(60), <1>1, <1>2, <1>3, <1>4, <1>5, ClientStep

\* A client's links change, between members.
LEMMA LinksInv ==
    ASSUME MirrorInv, UNCHANGED <<vars, net>>, NEW c \in Id,
           NEW ids \in SUBSET (Range(client[c].members) \ {client[c].id}),
           client[c] # NewClient, client' = [client EXCEPT ![c].links = ids]
    PROVE  MirrorInv'
<1> DEFINE cl == client[c]
           new == [cl EXCEPT !.links = ids]
<1>1. /\ GoodClient(cl) /\ UNCHANGED vars /\ net[c] \in Seq(Fitting)
      /\ net' = [net EXCEPT ![c] = net[c]]
      /\ IF cl.is_open THEN InTransit(c) ELSE net[c] = <<>>
  BY DEF MirrorInv
<1>2. client' = [client EXCEPT ![c] = new]
  OBVIOUS
<1>3. GoodClient(new) /\ Cache(new) = Cache(cl) /\ new.is_open = cl.is_open
  BY Zenon, ZenonT(60), <1>1, OpenLinks
<1> HIDE DEF new
<1>4. PICK w : cl.is_open => Trace(c, Cache(cl), net[c], w)
                             /\ (c \in DOMAIN connections => w = Truth(c))
  BY <1>1 DEF InTransit
<1> QED BY Zenon, ZenonT(60), <1>1, <1>2, <1>3, <1>4, ClientStep

\* SendP2P dials a member that is not the client itself.
LEMMA SendP2PInv ==
    ASSUME MirrorInv, NEW c \in Id, NEW id \in Id, SendP2P(c, id)
    PROVE  MirrorInv'
<1> DEFINE cl == client[c]
           ids == cl.links \cup {id}
<1>1. GoodClient(cl) /\ id \in Range(cl.members) /\ id # cl.id
  BY DEF MirrorInv, SendP2P
<1>2. ids \in SUBSET (Range(cl.members) \ {cl.id})
  BY <1>1 DEF GoodClient
<1>3. Range(NewClient.members) = {}
  BY DEF NewClient, Range
<1>4. cl # NewClient
  BY <1>1, <1>3
<1>5. client' = [client EXCEPT ![c].links = ids] /\ UNCHANGED <<vars, net>>
  BY DEF SendP2P
<1> QED BY Zenon, ZenonT(60), <1>2, <1>4, <1>5, LinksInv

\* A link whose agent failed is dropped.
LEMMA LinkFailedInv ==
    ASSUME MirrorInv, NEW c \in Id, NEW id \in Id, LinkFailed(c, id)
    PROVE  MirrorInv'
<1> DEFINE cl == client[c]
           ids == cl.links \ {id}
<1>1. GoodClient(cl) /\ id \in cl.links
  BY DEF MirrorInv, LinkFailed
<1>2. ids \in SUBSET (Range(cl.members) \ {cl.id})
  BY <1>1 DEF GoodClient
<1>3. cl # NewClient
  BY <1>1 DEF NewClient
<1>4. client' = [client EXCEPT ![c].links = ids] /\ UNCHANGED <<vars, net>>
  BY DEF LinkFailed
<1> QED BY Zenon, ZenonT(60), <1>2, <1>3, <1>4, LinksInv

\* Nobody is connected at first.
LEMMA MirrorInvInit == MirrorInit => MirrorInv
<1> SUFFICES ASSUME MirrorInit PROVE MirrorInv
  OBVIOUS
<1>1. Inv
  BY InvInit DEF MirrorInit
<1>2. /\ DOMAIN client = Id
      /\ net \in [Id -> Seq(Fitting)]
      /\ \A c \in Id : client[c] = NewClient /\ net[c] = <<>>
  BY DEF MirrorInit
<1>3. NewClient.is_open = FALSE
  BY DEF NewClient
<1> QED BY <1>1, <1>2, <1>3, NewClientGood DEF MirrorInv

\* The invariant is about these variables.
LEMMA MirrorInvUnchanged == ASSUME MirrorInv, UNCHANGED <<vars, net, client>> PROVE MirrorInv'
<1>1. UNCHANGED vars /\ UNCHANGED <<net, client>>
  OBVIOUS
<1>2. Inv'
  BY <1>1, InvNext DEF MirrorInv
<1>3. \A d : InTransit(d)' = InTransit(d)
  BY <1>1 DEF InTransit, Truth, vars
<1>4. next_id' = next_id
  BY <1>1 DEF vars
<1> QED BY <1>1, <1>2, <1>3, <1>4 DEF MirrorInv

\* Every step of the server and of the clients keeps the invariant.
LEMMA MirrorInvNext == MirrorInv /\ [MirrorNext]_allvars => MirrorInv'
<1> SUFFICES ASSUME MirrorInv, [MirrorNext]_allvars PROVE MirrorInv'
  OBVIOUS
<1>1. CASE UNCHANGED allvars
  BY <1>1, MirrorInvUnchanged DEF allvars
<1>2. CASE ConnectStep \/ RequestStep
  <2>1. Next /\ Deliver
    BY <1>2 DEF ConnectStep, RequestStep, Next
  <2> QED BY <2>1, DeliverInv
<1>3. ASSUME NEW c \in Id, Poll(c) PROVE MirrorInv'
  BY <1>3, PollFacts
<1>4. ASSUME NEW c \in Id, DisconnectServer(c) PROVE MirrorInv'
  BY <1>4, DisconnectInv
<1>5. ASSUME NEW c \in Id, NEW id \in Id, SendP2P(c, id) \/ LinkFailed(c, id) PROVE MirrorInv'
  BY <1>5, SendP2PInv, LinkFailedInv
<1> QED BY <1>1, <1>2, <1>3, <1>4, <1>5 DEF MirrorNext

\* The system of server and clients keeps the inductive invariant: at every
\* moment what a client has cached and what is on its way to it add up to its
\* room, every event applicable when it is carved.
THEOREM MirrorInvHolds == MirrorSpec => []MirrorInv
BY MirrorInvInit, MirrorInvNext, PTL DEF MirrorSpec

\* Every event finds the client in the state that CacheRoomState takes it to be
\* in, for every number of clients and every interleaving of sends and polls.
THEOREM EventsApplyHolds == MirrorSpec => []EventsApply
<1>1. MirrorInv => EventsApply
  <2> SUFFICES ASSUME MirrorInv PROVE EventsApply
    OBVIOUS
  <2>1. ASSUME NEW c \in Id, net[c] # <<>>
        PROVE  Legal(c, Cache(client[c]), Head(net[c]))
    <3>1. net[c] \in Seq(Fitting) /\ InTransit(c)
      BY <2>1 DEF MirrorInv
    <3>2. PICK w : Trace(c, Cache(client[c]), net[c], w)
      BY <3>1 DEF InTransit
    <3> QED BY <2>1, <3>1, <3>2, TraceTail
  <2> QED BY <2>1, CacheFields DEF EventsApply, Legal
<1> QED BY <1>1, MirrorInvHolds, PTL

\* "no member, no mesh link", for every number of clients: CacheRoomState drops
\* the link with the member, and no signal of a departed member is carved.
THEOREM NoMemberNoLinkHolds == MirrorSpec => []NoMemberNoLink
<1>1. MirrorInv => NoMemberNoLink
  BY DEF MirrorInv, GoodClient, NoMemberNoLink
<1> QED BY <1>1, MirrorInvHolds, PTL

-----------------------------------------------------------------------------
(***************************************************************************)
(* What is left when everything in flight has been carved.                 *)
(***************************************************************************)

\* Two orders of the same members are equally long.
LEMMA SameLength ==
    ASSUME NEW S, NEW s \in Seq(S), NEW t \in Seq(S), IsInjective(s), IsInjective(t),
           Range(s) = Range(t)
    PROVE  Len(s) = Len(t)
<1>1. ASSUME NEW u \in Seq(S), IsInjective(u) PROVE Cardinality(Range(u)) = Len(u)
  <2>1. Len(u) \in Nat /\ DOMAIN u = 1..Len(u) /\ u \in [1..Len(u) -> Range(u)]
    BY DEF Range
  <2>2. u \in Bijection(1..Len(u), Range(u))
    BY <1>1, <2>1 DEF Bijection, Injection, Surjection, Range
  <2> QED BY <2>1, <2>2, FS_CountingElements DEF ExistsBijection
<1> QED BY <1>1

\* The mirror is exact, for every number of clients, however far each of them
\* is behind: carving what is on its way leaves a client with the room that the
\* server keeps, whatever events were sent for it and in whatever order the
\* handlers ran.
THEOREM MirrorExactHolds == MirrorSpec => []MirrorExact
<1>1. MirrorInv => MirrorExact
  <2> SUFFICES ASSUME MirrorInv, NEW c \in sessions, client[c].is_open
               PROVE  LET cl == Replay(c)
                          code == connections[c]
                      IN  IF code = Empty THEN NoRoom(cl)
                          ELSE /\ cl.id = c
                               /\ cl.room = code
                               /\ cl.host = rooms[code].host
                               /\ cl.open = rooms[code].open
                               /\ cl.passworded = (rooms[code].password # Empty)
                               /\ Len(cl.members) = Len(rooms[code].members)
                               /\ Range(cl.members) = Range(rooms[code].members)
                               /\ cl.data = rooms[code].data
                               /\ cl.member_data = rooms[code].member_data
    BY DEF MirrorExact
  <2> DEFINE cl == Replay(c)
             code == connections[c]
  <2>1. Inv /\ c \in DOMAIN connections /\ c \in Id
    BY ConnectedIds DEF MirrorInv, Inv, StateType
  <2>2. GoodClient(client[c]) /\ net[c] \in Seq(Fitting) /\ InTransit(c)
    BY <2>1 DEF MirrorInv
  <2>3. Trace(c, Cache(client[c]), net[c], Truth(c))
    BY <2>1, <2>2 DEF InTransit
  <2>4. GoodClient(cl) /\ Cache(cl) = Truth(c)
    <3>1. net[c] \in Seq(ServerMessage)
      BY <2>2 DEF Fitting
    <3> QED BY Zenon, ZenonT(60), <2>1, <2>2, <2>3, <3>1, ReplayTrace
  <2> HIDE DEF cl
  <2>5. CASE code = Empty
    <3>1. Cache(cl) = Outside(c)
      BY <2>1, <2>4, <2>5, TruthFacts
    <3> QED BY <2>4, <2>5, <3>1, OutsideNoRoom DEF cl
  <2>6. CASE code # Empty
    <3> DEFINE room == rooms[code]
               v == Inside(c, code, room)
    <3>1. Cache(cl) = v /\ code \in DOMAIN rooms
      BY <2>1, <2>4, <2>6, TruthFacts
    <3>2. /\ v.id = c /\ v.room = code /\ v.host = room.host /\ v.open = room.open
          /\ v.passworded = (room.password # Empty) /\ v.members = Range(room.members)
          /\ v.data = room.data /\ v.member_data = room.member_data
      BY Zenon, ZenonT(60) DEF Inside, ViewOf
    <3>3. /\ cl.id = v.id /\ cl.room = v.room /\ cl.host = v.host /\ cl.open = v.open
          /\ cl.passworded = v.passworded /\ Range(cl.members) = v.members
          /\ cl.data = v.data /\ cl.member_data = v.member_data
      BY <3>1, CacheFields
    <3>4. room \in Room /\ IsInjective(room.members)
      BY <2>1, <3>1, Placed DEF GoodRoom
    <3>5. room.members \in Seq(Id) /\ cl.members \in Seq(Id) /\ IsInjective(cl.members)
      BY <2>4, <3>4 DEF Room, GoodClient, ClientState
    <3> HIDE DEF v, room
    <3>6. Range(cl.members) = Range(room.members)
      BY <3>2, <3>3
    <3>7. Len(cl.members) = Len(room.members)
      BY <3>4, <3>5, <3>6, SameLength
    <3> QED BY Zenon, ZenonT(60), <2>6, <3>2, <3>3, <3>6, <3>7 DEF cl, room
  <2> QED BY <2>5, <2>6 DEF cl
<1> QED BY <1>1, MirrorInvHolds, PTL

-----------------------------------------------------------------------------
(***************************************************************************)
(* What takes a client out of its room.                                    *)
(***************************************************************************)

OwnInv == \A c \in Id : Own(c, Cache(client[c]))

\* A client that is in a room has its id and is a member, at every step.
LEMMA OwnInvNext == ASSUME MirrorInv, OwnInv, [MirrorNext]_allvars PROVE OwnInv'
<1> SUFFICES ASSUME NEW c \in Id PROVE Own(c, Cache(client'[c]))
  BY DEF OwnInv
<1> DEFINE cl == client[c]
<1>1. GoodClient(cl) /\ cl \in ClientState /\ Own(c, Cache(cl)) /\ DOMAIN client = Id
  BY DEF MirrorInv, OwnInv, GoodClient
<1>2. CASE Cache(client'[c]) = Cache(cl)
  BY <1>1, <1>2
<1>3. CASE UNCHANGED allvars
  BY <1>2, <1>3 DEF allvars
<1>4. CASE ConnectStep \/ RequestStep
  <2> DEFINE b == cl.is_open \/ c \in DOMAIN connections' \ DOMAIN connections
  <2>1. client'[c] = [cl EXCEPT !.is_open = b] /\ b \in BOOLEAN
    BY Zenon, ZenonT(60), <1>1, <1>4 DEF ConnectStep, RequestStep, Deliver, ClientState
  <2> HIDE DEF b, cl
  <2>2. Cache(client'[c]) = Cache(cl)
    BY <1>1, <2>1, OpenLinks
  <2> QED BY <1>2, <2>2
<1>5. ASSUME NEW d \in Id, d # c, Poll(d) \/ DisconnectServer(d)
      PROVE  Own(c, Cache(client'[c]))
  <2>1. PICK new : client' = [client EXCEPT ![d] = new]
    BY <1>5 DEF Poll, DisconnectServer
  <2>2. client'[c] = cl
    BY <1>1, <1>5, <2>1
  <2> QED BY <1>2, <2>2
<1>6. CASE Poll(c)
  BY <1>1, <1>6, PollFacts, ApplyOwn
<1>7. CASE DisconnectServer(c)
  <2> DEFINE left == Cleared(cl)
  <2>1. client'[c] = [left EXCEPT !.is_open = FALSE]
    BY <1>1, <1>7 DEF DisconnectServer
  <2>2. GoodClient(left) /\ Cache(left) = Outside(cl.id)
    BY <1>1, ClearedFacts
  <2> HIDE DEF left, cl
  <2>3. Cache(client'[c]) = Outside(cl.id)
    BY Zenon, ZenonT(60), <2>1, <2>2, OpenLinks
  <2> QED BY <2>3 DEF Own, Outside, ViewOf
<1>8. ASSUME NEW d \in Id, NEW id \in Id, SendP2P(d, id) \/ LinkFailed(d, id)
      PROVE  Own(c, Cache(client'[c]))
  <2>1. PICK ids : client' = [client EXCEPT ![d].links = ids]
    BY <1>8 DEF SendP2P, LinkFailed
  <2>2. /\ client'[c].id = cl.id /\ client'[c].room = cl.room /\ client'[c].host = cl.host
        /\ client'[c].members = cl.members /\ client'[c].data = cl.data
        /\ client'[c].member_data = cl.member_data
        /\ client'[c].open = cl.open /\ client'[c].passworded = cl.passworded
    BY <1>1, <2>1 DEF ClientState
  <2>3. Cache(client'[c]) = Cache(cl)
    BY <2>2 DEF Cache
  <2> QED BY <1>2, <2>3
<1> QED BY <1>3, <1>4, <1>5, <1>6, <1>7, <1>8 DEF MirrorNext

\* A client that is not where the server has it is yet to carve what took it
\* out.  A leave, a kick and a ban each send the member that goes its notice,
\* behind everything that was sent before, and nothing else moves a client.
THEOREM DepartureInFlightHolds == MirrorSpec => []DepartureInFlight
<1>1. MirrorInit => OwnInv
  BY NewClientGood DEF MirrorInit, OwnInv, Own, Outside, ViewOf
<1>2. MirrorInv /\ OwnInv /\ [MirrorNext]_allvars => OwnInv'
  BY OwnInvNext
<1>3. MirrorInv /\ OwnInv => DepartureInFlight
  <2> SUFFICES ASSUME MirrorInv, OwnInv, NEW c \in sessions, client[c].is_open,
                      client[c].room \notin {Empty, connections[c]},
                      \A i \in 1..Len(net[c]) : ~TakesOut(c, net[c][i])
               PROVE  FALSE
    BY DEF DepartureInFlight
  <2> DEFINE v == Cache(client[c])
             msgs == net[c]
  <2>1. Inv /\ c \in DOMAIN connections /\ c \in Id
    BY ConnectedIds DEF MirrorInv, Inv, StateType
  <2>2. InTransit(c) /\ Own(c, v) /\ msgs \in Seq(ServerMessage)
    <3>1. InTransit(c) /\ msgs \in Seq(Fitting)
      BY <2>1 DEF MirrorInv
    <3>2. msgs \in Seq(ServerMessage)
      BY <3>1 DEF Fitting
    <3> QED BY <2>1, <3>1, <3>2 DEF OwnInv
  <2>3. Trace(c, v, msgs, Truth(c))
    BY <2>1, <2>2 DEF InTransit
  <2>4. v.room = client[c].room
    BY CacheFields
  <2>5. Truth(c).room = connections[c]
    BY <2>1 DEF Truth, Outside, Inside, ViewOf
  <2>6. v.room # Empty /\ \A i \in 1..Len(msgs) : ~TakesOut(c, msgs[i])
    BY <2>4
  <2> HIDE DEF v, msgs
  <2>7. Truth(c).room = v.room
    BY Zenon, ZenonT(60), <2>2, <2>3, <2>6, TraceStays
  <2> QED BY <2>4, <2>5, <2>7
<1> QED BY <1>1, <1>2, <1>3, MirrorInvHolds, PTL DEF MirrorSpec

-----------------------------------------------------------------------------
(***************************************************************************)
(* ClientApi.                                                              *)
(***************************************************************************)

ApiInv == MirrorInv /\ AppInv

\* Everything but weyve_poll and weyve_client_destroy leaves App's cache alone,
\* and only a new client's connection opens.
LEMMA OthersFacts ==
    ASSUME MirrorInv, Others
    PROVE  MirrorInv' /\ AppKept
<1> DEFINE cl == client[App]
           Goal == /\ Cache(client'[App]) = Cache(cl) /\ client'[App].members = cl.members
                   /\ client'[App].is_open => cl.is_open \/ App >= next_id
                   /\ next_id' >= next_id
<1>1. MirrorNext
  BY DEF Others, MirrorNext
<1>2. MirrorInv' /\ App \in Id /\ GoodClient(cl) /\ cl \in ClientState /\ DOMAIN client = Id
  BY <1>1, MirrorInvNext, AppAssumption DEF MirrorInv, GoodClient
<1>3. next_id \in Nat /\ next_id' \in Nat /\ App \in Nat
  BY <1>2 DEF MirrorInv, Inv, StateType, Id
<1>4. ASSUME ConnectStep \/ RequestStep PROVE Goal
  <2> DEFINE b == cl.is_open \/ App \in DOMAIN connections' \ DOMAIN connections
  <2>1. Next /\ Deliver
    BY <1>4 DEF ConnectStep, RequestStep, Next
  <2>2. client'[App] = [cl EXCEPT !.is_open = b] /\ b \in BOOLEAN
    BY <1>2, <2>1 DEF Deliver, ClientState
  <2>3. /\ next_id' >= next_id
        /\ b => cl.is_open \/ App >= next_id
    <3>1. Inv
      BY DEF MirrorInv
    <3> QED BY <1>3, <2>1, <3>1, ConnectionsGrow
  <2> HIDE DEF b
  <2>4. Cache(client'[App]) = Cache(cl) /\ client'[App].is_open = b
    BY <1>2, <2>2, OpenLinks
  <2>5. client'[App].members = cl.members
    BY <1>2, <2>2 DEF ClientState
  <2> QED BY <2>3, <2>4, <2>5
<1>5. ASSUME NEW c \in Id \ {App}, Poll(c) \/ DisconnectServer(c) PROVE Goal
  <2>1. client'[App] = cl /\ UNCHANGED vars
    <3>1. PICK new : client' = [client EXCEPT ![c] = new]
      BY <1>5 DEF Poll, DisconnectServer
    <3>2. UNCHANGED vars
      BY <1>5 DEF Poll, DisconnectServer
    <3> QED BY <1>2, <3>1, <3>2
  <2>2. next_id' = next_id
    BY <2>1 DEF vars
  <2> QED BY <1>3, <2>1, <2>2
<1>6. ASSUME NEW c \in Id, NEW id \in Id, SendP2P(c, id) \/ LinkFailed(c, id) PROVE Goal
  <2>1. UNCHANGED vars /\ \E ids : client'[App] = [cl EXCEPT !.links = ids]
    <3>1. UNCHANGED vars
      BY <1>6 DEF SendP2P, LinkFailed
    <3>2. PICK ids : client' = [client EXCEPT ![c].links = ids]
      BY <1>6 DEF SendP2P, LinkFailed
    <3>3. CASE c = App
      BY Zenon, ZenonT(60), <1>2, <3>1, <3>2, <3>3
    <3>4. CASE c # App
      <4>1. client'[App] = cl
        BY <1>2, <3>2, <3>4
      <4>2. cl = [cl EXCEPT !.links = cl.links]
        BY <1>2 DEF ClientState
      <4> QED BY Zenon, ZenonT(60), <3>1, <4>1, <4>2
    <3> QED BY Zenon, ZenonT(60), <3>3, <3>4
  <2>2. PICK ids : client'[App] = [cl EXCEPT !.links = ids]
    BY Zenon, ZenonT(60), <2>1
  <2>3. /\ client'[App].id = cl.id /\ client'[App].room = cl.room /\ client'[App].host = cl.host
        /\ client'[App].members = cl.members /\ client'[App].data = cl.data
        /\ client'[App].member_data = cl.member_data
    BY <1>2, <2>2 DEF ClientState
  <2>4. /\ client'[App].open = cl.open /\ client'[App].passworded = cl.passworded
        /\ client'[App].is_open = cl.is_open
    BY <1>2, <2>2 DEF ClientState
  <2>5. Cache(client'[App]) = Cache(cl)
    BY <2>3, <2>4 DEF Cache
  <2>6. next_id' = next_id
    BY <2>1 DEF vars
  <2> QED BY <1>3, <2>3, <2>4, <2>5, <2>6
<1>7. Goal
  BY <1>4, <1>5, <1>6 DEF Others
<1> QED BY <1>2, <1>3, <1>7 DEF Others, AppKept

\* Every step keeps the invariant.
LEMMA ApiInvNext == ApiInv /\ [ApiNext]_apivars => ApiInv'
<1> SUFFICES ASSUME ApiInv, [ApiNext]_apivars PROVE ApiInv'
  OBVIOUS
<1>1. MirrorInv /\ AppInv /\ App \in Id
  BY AppAssumption DEF ApiInv
<1>2. AppFacts
  BY <1>1 DEF AppFacts, MirrorInv, Inv, StateType
<1>3. Poll(App) => MirrorInv' /\ AppCarves
  BY <1>1, PollFacts DEF AppCarves
<1>4. Others => MirrorInv' /\ AppKept
  BY <1>1, OthersFacts
<1>5. AppInv'
  BY <1>1, <1>2, <1>3, <1>4, AppInvNext
<1>6. MirrorInv'
  <2>1. ASSUME UNCHANGED <<vars, net, client>> PROVE MirrorInv'
    BY <1>1, <2>1, MirrorInvUnchanged
  <2>2. CASE UNCHANGED apivars
    BY <2>1, <2>2 DEF apivars, allvars
  <2>3. CASE weyve_next \/ weyve_next_p2p \/ \E place \in AccessorPlace : Borrow(place)
    <3>1. UNCHANGED allvars
      BY <2>3 DEF weyve_next, weyve_next_p2p, Borrow
    <3> QED BY <2>1, <3>1 DEF allvars
  <2>4. CASE weyve_poll
    BY <1>3, <2>4 DEF weyve_poll
  <2>5. CASE \E id \in Id : Recv(id)
    BY <2>1, <2>5 DEF Recv
  <2>6. CASE PollLost \/ weyve_client_destroy
    <3>1. DisconnectServer(App)
      BY <2>6 DEF PollLost, weyve_client_destroy
    <3> QED BY <1>1, <3>1, DisconnectInv
  <2>7. CASE Others
    BY <1>4, <2>7
  <2> QED BY <2>2, <2>3, <2>4, <2>5, <2>6, <2>7 DEF ApiNext
<1> QED BY <1>5, <1>6 DEF ApiInv

\* weyve_client_create, before anyone has connected.
LEMMA ApiInvInit == ApiInit => ApiInv
BY MirrorInvInit, AppInvInit DEF ApiInit, ApiInv

\* The program of a client, whatever it calls and in whatever order, keeps the
\* inductive invariant.
THEOREM ApiInvHolds == ApiSpec => []ApiInv
BY ApiInvInit, ApiInvNext, PTL DEF ApiSpec

\* Every pointer that the C interface hands out reads as it did until the call
\* that ends its loan, for any number of clients and any sequence of calls.
THEOREM BorrowedIntactHolds == ApiSpec => []BorrowedIntact
<1>1. ApiInv => BorrowedIntact
  BY DEF ApiInv, AppInv, LoansHold, BorrowedIntact
<1> QED BY <1>1, ApiInvHolds, PTL

\* A program that follows its room by the events of weyve_next alone arrives at
\* what the accessors say: CarveServer queues every message that CacheRoomState
\* changes the room by, in order, and FillEvent skips none of them.
THEOREM EventsSufficeHolds == ApiSpec => []EventsSuffice
<1>1. ApiInv => EventsSuffice
  BY AppInvSuffices DEF ApiInv
<1> QED BY <1>1, ApiInvHolds, PTL

\* A program that takes its events before its datagrams is told of a member
\* before it is handed anything that the member sent, though PollPeers and
\* CarveServer fill their queues independently.
THEOREM SendersAnnouncedHolds == ApiSpec => []SendersAnnounced
<1>1. ApiInv => SendersAnnounced
  BY DEF ApiInv, AppInv, SenderInv, SendersAnnounced, Known
<1> QED BY <1>1, ApiInvHolds, PTL

=============================================================================
