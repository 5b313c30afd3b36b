--------------------------- MODULE P2PMeshProofs ---------------------------
(***************************************************************************)
(* Proofs about P2PMesh: for every set of addresses, failures and          *)
(* callbacks, every max_connection_attempts and every bound.               *)
(***************************************************************************)
EXTENDS P2PMesh, TLAPS

\* Who tries a leaf that names no prover: SMT, then Zenon, then SMT with more time.  Leaves whose
\* goal leads SMT astray name Zenon, with a second attempt that has more time.
USE SMTT(20), ZenonT(20), Z3T(60)

-----------------------------------------------------------------------------
(***************************************************************************)
(* The shape of the state.                                                 *)
(***************************************************************************)

LinkType ==
    [gen : Nat, agent : Address \cup {"none"}, remote : Nat, connected : BOOLEAN,
     outbox : Seq(Nat), state : {"none", "connected", "disconnected", "failed"},
     told : SUBSET {"Candidate", "GatheringDone", "Recv"}]

MeshType ==
    [is_open : BOOLEAN, known : BOOLEAN, link : LinkType, attempts : Nat, agents : Nat,
     inbox : Nat]

\* What is sent to and from the server.
Message ==
    [kind : {"Leave", "Join", "Eof", "PeerJoined", "PeerLeft", "OwnPeerLeft"}]
    \cup [kind : {"Description"}, gen : Nat \ {0}, answer : BOOLEAN]
    \cup [kind : {"Candidate", "GatheringDone"}, gen : Nat]

Event ==
    [agent : Address, gen : Nat,
     kind : {"connected", "disconnected", "failed", "Candidate", "GatheringDone", "Recv"}]

\* What holds of one client's mesh at all times.
GoodMesh(m) ==
    /\ m \in MeshType
    /\ m.attempts <= max_connection_attempts
    /\ m.agents <= MaxAgents
    /\ m.link.gen <= m.agents
    /\ HasLink(m) => m.link.agent \in Address
    /\ ~HasLink(m) => m.link = NoLink
    /\ m.link.connected => m.link.outbox = <<>>

MeshInv ==
    /\ mesh \in [Peer -> MeshType]
    /\ \A p \in Peer : GoodMesh(mesh[p])
    /\ events \in [Peer -> Seq(Event)]
    /\ scratch \in [Peer -> Seq(Event)]
    /\ \A p \in Peer : Len(events[p]) <= MaxQueued /\ Len(scratch[p]) <= MaxQueued
    /\ carving \in [Peer -> BOOLEAN]
    /\ up \in [Peer -> Seq(Message)]
    /\ down \in [Peer -> Seq(Message)]
    /\ in_room \subseteq Peer
    /\ sends \in [Peer -> Nat]
    /\ wire \in [Peer -> Seq(Nat)]

Increasing(s) == \A i, j \in DOMAIN s : i < j => s[i] < s[j]

AtMost(s, n) == \A i \in DOMAIN s : s[i] <= n

Before(s, t) == \A i \in DOMAIN s, j \in DOMAIN t : s[i] < t[j]

\* The n-th datagram of a client has number n.  Those handed to libjuice and those
\* that wait in an outbox are numbers already given, each in order, the former
\* before the latter.
Ordered(w, o, n) ==
    /\ AtMost(w, n) /\ AtMost(o, n)
    /\ Increasing(w) /\ Increasing(o)
    /\ Before(w, o)

OrderInv == \A p \in Peer : Ordered(wire[p], mesh[p].link.outbox, sends[p])

Departures == {"PeerLeft", "OwnPeerLeft"}

\* Does a client that knows its peer or not when it carves the first message of q
\* know it when it comes to the i-th?
KnownAt(q, known, i) ==
    \/ known /\ \A j \in 1..(i - 1) : q[j].kind \notin Departures
    \/ \E j \in 1..(i - 1) :
          /\ q[j].kind = "PeerJoined"
          /\ \A k \in (j + 1)..(i - 1) : q[k].kind \notin Departures

EofBefore(q, i) == \E j \in 1..(i - 1) : q[j].kind = "Eof"

\* Every description on its way is carved while the client knows its peer, or
\* never; and while both are in the room, the client knows its peer when all that
\* is on its way is carved.
InFlight(q, known, both) ==
    /\ \A i \in 1..Len(q) : q[i].kind = "Description" => KnownAt(q, known, i) \/ EofBefore(q, i)
    /\ both => KnownAt(q, known, Len(q) + 1) \/ EofBefore(q, Len(q) + 1)

MemberInv ==
    \A p \in Peer :
        /\ HasLink(mesh[p]) => mesh[p].known
        /\ mesh[p].is_open => InFlight(down[p], mesh[p].known, in_room = Peer)

EofIn(q) == \E i \in 1..Len(q) : q[i].kind = "Eof"

\* What is on its way to a client that knows its peer or not makes it forget its
\* peer, or ends with the stream.
Ends(q, known) ==
    \/ EofIn(q)
    \/ /\ known => \E i \in 1..Len(q) : q[i].kind \in Departures
       /\ \A i \in 1..Len(q) : q[i].kind = "PeerJoined" =>
             \E j \in (i + 1)..Len(q) : q[j].kind \in Departures

EndInv ==
    \A p \in Peer :
        /\ mesh[p].known => mesh[p].is_open
        /\ mesh[p].is_open /\ EofIn(up[p]) => EofIn(down[p])
        /\ mesh[p].is_open /\ in_room # Peer => Ends(down[p], mesh[p].known)

-----------------------------------------------------------------------------
(***************************************************************************)
(* The operators on a mesh.                                                *)
(***************************************************************************)

\* NoLink is a link.
LEMMA NoLinkType == NoLink \in LinkType /\ NoLink.gen = 0 /\ NoLink.outbox = <<>>
                    /\ NoLink.connected = FALSE /\ NoLink.remote = 0 /\ NoLink.agent = "none"
BY DEF NoLink, LinkType

\* Assigning fields of a link or of a mesh.
LEMMA FlagUpdate ==
    ASSUME NEW m \in MeshType, NEW b \in BOOLEAN, NEW c \in BOOLEAN
    PROVE  LET n == [m EXCEPT !.known = b, !.is_open = c]
           IN  /\ n \in MeshType /\ n.link = m.link /\ n.attempts = m.attempts
               /\ n.agents = m.agents /\ n.known = b /\ n.is_open = c
BY Zenon, ZenonT(60) DEF MeshType

LEMMA KnownUpdate ==
    ASSUME NEW m \in MeshType, NEW b \in BOOLEAN
    PROVE  LET n == [m EXCEPT !.known = b]
           IN  /\ n \in MeshType /\ n.link = m.link /\ n.attempts = m.attempts
               /\ n.agents = m.agents /\ n.known = b /\ n.is_open = m.is_open
BY DEF MeshType

LEMMA OneUpdate ==
    ASSUME NEW m \in MeshType, NEW l \in LinkType
    PROVE  LET n == [m EXCEPT !.link = l]
           IN  /\ n \in MeshType /\ n.link = l /\ n.attempts = m.attempts
               /\ n.agents = m.agents /\ n.known = m.known /\ n.is_open = m.is_open
BY DEF MeshType

\* DestroyLink leaves the mesh as it is, without a link.
LEMMA DestroyLinkFacts ==
    ASSUME NEW m, GoodMesh(m)
    PROVE  /\ GoodMesh(DestroyLink(m))
           /\ DestroyLink(m).link = NoLink
           /\ DestroyLink(m).known = m.known
           /\ DestroyLink(m).is_open = m.is_open
<1> DEFINE n == DestroyLink(m)
<1>1. m \in MeshType
  BY DEF GoodMesh
<1>2. /\ n \in MeshType /\ n.link = NoLink /\ n.attempts = m.attempts
      /\ n.agents = m.agents /\ n.known = m.known /\ n.is_open = m.is_open
  BY <1>1, NoLinkType, OneUpdate, Zenon, ZenonT(60) DEF DestroyLink
<1> HIDE DEF n
<1>3. GoodMesh(n)
  BY <1>1, <1>2, NoLinkType DEF GoodMesh, HasLink, MeshType
<1> QED BY <1>2, <1>3 DEF n

LEMMA ForgetFacts ==
    ASSUME NEW m, GoodMesh(m)
    PROVE  /\ GoodMesh(Forget(m))
           /\ Forget(m).link = NoLink
           /\ Forget(m).is_open = m.is_open
<1> DEFINE n == Forget(m)
<1>1. m \in MeshType /\ 0 \in Nat
  BY DEF GoodMesh
<1>2. /\ n \in MeshType /\ n.link = NoLink /\ n.attempts = 0 /\ n.agents = m.agents
      /\ n.known = m.known /\ n.is_open = m.is_open
  BY Zenon, ZenonT(60), <1>1, NoLinkType DEF Forget, MeshType
<1> HIDE DEF n
<1>3. GoodMesh(n)
  BY <1>1, <1>2, NoLinkType, FaultAssumption DEF GoodMesh, HasLink, MeshType
<1> QED BY <1>2, <1>3 DEF n

\* Losing the server also forgets the members and closes the client.
LEMMA DisconnectServerFacts ==
    ASSUME NEW m, GoodMesh(m)
    PROVE  /\ GoodMesh(DisconnectServer(m))
           /\ DisconnectServer(m).link = NoLink
           /\ ~DisconnectServer(m).is_open /\ ~DisconnectServer(m).known
<1>1. GoodMesh(Forget(m)) /\ Forget(m).link = NoLink
  BY ForgetFacts
<1> QED BY Zenon, ZenonT(60), <1>1, FlagUpdate DEF GoodMesh, DisconnectServer, HasLink

\* A join makes the peer known; a departure of it or of ours makes it unknown, and
\* takes the link along.
LEMMA CacheRoomStateFacts ==
    ASSUME NEW m, GoodMesh(m), NEW msg,
           msg.kind \in {"PeerJoined", "PeerLeft", "OwnPeerLeft"}
    PROVE  /\ GoodMesh(CacheRoomState(m, msg))
           /\ CacheRoomState(m, msg).known = (msg.kind = "PeerJoined")
           /\ CacheRoomState(m, msg).is_open = m.is_open
           /\ msg.kind = "PeerJoined" => CacheRoomState(m, msg).link = m.link
           /\ msg.kind # "PeerJoined" => CacheRoomState(m, msg).link = NoLink
<1>1. CASE msg.kind = "PeerJoined"
  BY Zenon, ZenonT(60), <1>1, KnownUpdate DEF GoodMesh, CacheRoomState, HasLink
<1>2. CASE msg.kind # "PeerJoined"
  <2>1. GoodMesh(Forget(m)) /\ Forget(m).link = NoLink /\ Forget(m).is_open = m.is_open
    BY ForgetFacts
  <2>2. CacheRoomState(m, msg) = [Forget(m) EXCEPT !.known = FALSE]
    BY <1>2 DEF CacheRoomState
  <2> DEFINE f == Forget(m)
             n == [f EXCEPT !.known = FALSE]
  <2>3. f \in MeshType
    BY <2>1 DEF GoodMesh
  <2> HIDE DEF f
  <2>4. /\ n \in MeshType /\ n.link = f.link /\ n.attempts = f.attempts
        /\ n.agents = f.agents /\ n.known = FALSE /\ n.is_open = f.is_open
    BY <2>3, KnownUpdate, Zenon, ZenonT(60)
  <2> HIDE DEF n
  <2>5. GoodMesh(n)
    BY <2>1, <2>4 DEF GoodMesh, HasLink, f
  <2> QED BY Zenon, ZenonT(60), <1>2, <2>1, <2>2, <2>4, <2>5 DEF n, f
<1> QED BY <1>1, <1>2

\* CreateLink: a new link waits for a description and for its connection, with
\* a number no agent of this client had before; without an agent nothing changes.
LEMMA CreateLinkFacts ==
    ASSUME NEW m, GoodMesh(m), ~HasLink(m), NEW new \in CreateLink(m)
    PROVE  /\ GoodMesh(new)
           /\ new.known = m.known /\ new.is_open = m.is_open
           /\ new.link.outbox = <<>> /\ new.link.connected = FALSE
           /\ new.link.remote = 0
           /\ HasLink(new) => new.link.gen = m.agents + 1
           /\ ~HasLink(new) => new = m
<1>1. CASE new = m
  BY <1>1, NoLinkType DEF GoodMesh
<1>2. CASE new # m
  <2>1. PICK a \in Address :
           /\ m.agents < MaxAgents
           /\ m.attempts < max_connection_attempts
           /\ new = [m EXCEPT !.link = [NoLink EXCEPT !.gen = m.agents + 1, !.agent = a],
                              !.attempts = m.attempts + 1,
                              !.agents = m.agents + 1]
    <3>1. m.attempts < max_connection_attempts
      BY <1>2, FaultAssumption DEF CreateLink, GoodMesh, MeshType
    <3>2. new \in JuiceCreate(m)
      BY <1>2 DEF CreateLink
    <3>3. m.agents < MaxAgents
      BY <1>2, <3>2, Zenon, ZenonT(60) DEF JuiceCreate
    <3> QED BY <1>2, <3>1, <3>2, <3>3, Zenon, ZenonT(60) DEF JuiceCreate
  <2> DEFINE l == [NoLink EXCEPT !.gen = m.agents + 1, !.agent = a]
  <2>2. m \in MeshType /\ m.agents + 1 \in Nat /\ m.attempts + 1 \in Nat
    BY DEF GoodMesh, MeshType
  <2>3. /\ l \in LinkType /\ l.gen = m.agents + 1 /\ l.agent = a /\ l.outbox = <<>>
        /\ l.connected = FALSE /\ l.remote = 0
    <3> DEFINE g == m.agents + 1
    <3>1. g \in Nat
      BY <2>2
    <3> HIDE DEF g
    <3> QED BY Zenon, ZenonT(60), <3>1, NoLinkType DEF LinkType, g
  <2> HIDE DEF l
  <2>4. /\ new \in MeshType /\ new.link = l /\ new.attempts = m.attempts + 1
        /\ new.agents = m.agents + 1 /\ new.known = m.known /\ new.is_open = m.is_open
    <3> DEFINE g == m.agents + 1
               k == m.attempts + 1
    <3>1. g \in Nat /\ k \in Nat /\ new = [m EXCEPT !.link = l, !.attempts = k, !.agents = g]
      BY <2>1, <2>2 DEF l
    <3> HIDE DEF g, k
    <3>2. /\ new \in MeshType /\ new.link = l /\ new.attempts = k
          /\ new.agents = g /\ new.known = m.known /\ new.is_open = m.is_open
      BY Zenon, ZenonT(60), <2>2, <2>3, <3>1 DEF MeshType
    <3> QED BY <3>2 DEF g, k
  <2>5. /\ m.attempts \in Nat /\ max_connection_attempts \in Nat
        /\ m.agents \in Nat /\ MaxAgents \in Nat
    BY <2>2, FaultAssumption DEF MeshType
  <2>6. m.attempts < max_connection_attempts /\ m.agents < MaxAgents
    BY Zenon, ZenonT(60), <2>1
  <2>7. /\ m.attempts + 1 <= max_connection_attempts
        /\ m.agents + 1 <= MaxAgents /\ m.agents + 1 <= m.agents + 1 /\ m.agents + 1 # 0
    BY ONLY SMTT(20), Z3T(60), <2>5, <2>6
  <2>8. HasLink(new) /\ new.link.gen <= new.agents
    BY Zenon, ZenonT(60), <2>3, <2>4, <2>7 DEF HasLink
  <2>9. GoodMesh(new)
    BY Zenon, ZenonT(60), <2>1, <2>3, <2>4, <2>7, <2>8 DEF GoodMesh
  <2> QED BY Zenon, ZenonT(60), <2>3, <2>4, <2>8, <2>9
<1> QED BY Zenon, ZenonT(60), <1>1, <1>2

-----------------------------------------------------------------------------
\* outbox.push_back, on a link that is not connected.
LEMMA QueueFacts ==
    ASSUME NEW m, GoodMesh(m), HasLink(m), ~m.link.connected, NEW n \in Nat
    PROVE  /\ GoodMesh(Queue(m, n))
           /\ Queue(m, n).known = m.known /\ Queue(m, n).is_open = m.is_open
           /\ Queue(m, n).link.gen = m.link.gen /\ Queue(m, n).link.remote = m.link.remote
           /\ Queue(m, n).link.outbox = Append(m.link.outbox, n)
<1>1. m \in MeshType /\ m.link \in LinkType
  BY DEF GoodMesh, MeshType
<1> DEFINE o == Append(m.link.outbox, n)
<1>2. o \in Seq(Nat)
  BY <1>1 DEF LinkType
<1>3. Queue(m, n) = [m EXCEPT !.link.outbox = o]
  BY <1>1 DEF Queue
<1> HIDE DEF o
<1>4. LET new == [m EXCEPT !.link.outbox = o]
      IN  /\ GoodMesh(new)
          /\ new.known = m.known /\ new.is_open = m.is_open
          /\ new.link.gen = m.link.gen /\ new.link.remote = m.link.remote
          /\ new.link.outbox = o
  BY Zenon, ZenonT(60), <1>1, <1>2 DEF GoodMesh, HasLink, MeshType, LinkType
<1> QED BY Zenon, ZenonT(60), <1>3, <1>4 DEF o

\* juice_set_remote_description.
LEMMA SetRemoteFacts ==
    ASSUME NEW m, GoodMesh(m), HasLink(m), NEW g \in Nat
    PROVE  /\ GoodMesh(SetRemote(m, g))
           /\ SetRemote(m, g).known = m.known /\ SetRemote(m, g).is_open = m.is_open
           /\ SetRemote(m, g).link.gen = m.link.gen /\ SetRemote(m, g).link.remote = g
           /\ SetRemote(m, g).link.outbox = m.link.outbox
<1>1. m \in MeshType /\ m.link \in LinkType
  BY DEF GoodMesh, MeshType
<1> QED BY Zenon, ZenonT(60), <1>1 DEF SetRemote, GoodMesh, HasLink, MeshType, LinkType

\* A link that connects is flushed.
LEMMA FlushedFacts ==
    ASSUME NEW m, GoodMesh(m), HasLink(m)
    PROVE  /\ GoodMesh(Flushed(m))
           /\ Flushed(m).known = m.known /\ Flushed(m).is_open = m.is_open
           /\ Flushed(m).link.gen = m.link.gen /\ Flushed(m).link.remote = m.link.remote
           /\ Flushed(m).link.outbox = <<>>
<1> DEFINE f == Flushed(m)
<1>1. m \in MeshType /\ m.link \in LinkType /\ <<>> \in Seq(Nat)
  BY DEF GoodMesh, MeshType
<1>2. /\ f.known = m.known /\ f.is_open = m.is_open
      /\ f.attempts = 0 /\ f.agents = m.agents
  BY <1>1 DEF Flushed, MeshType
<1>3. /\ f.link.gen = m.link.gen /\ f.link.remote = m.link.remote
      /\ f.link.outbox = <<>> /\ f.link.agent = m.link.agent
  BY Zenon, ZenonT(60), <1>1 DEF Flushed, MeshType, LinkType
<1>4. f.link \in LinkType
  BY Zenon, ZenonT(60), <1>1 DEF Flushed, MeshType, LinkType
<1>5. f \in MeshType
  BY Zenon, ZenonT(60), <1>1 DEF Flushed, MeshType, LinkType
<1> HIDE DEF f
<1>6. GoodMesh(f)
  BY <1>2, <1>3, <1>4, <1>5, FaultAssumption DEF GoodMesh, HasLink
<1> QED BY <1>2, <1>3, <1>6 DEF f

\* What libjuice reports of the link's agent, and what is read of it, leave a good
\* mesh as far as the properties go.
LEMMA ReportFacts ==
    ASSUME NEW m, GoodMesh(m), HasLink(m)
    PROVE  /\ \A s \in {"connected", "disconnected", "failed"} :
                 GoodMesh([m EXCEPT !.link.state = s])
           /\ \A k \in {"Candidate", "GatheringDone", "Recv"} :
                 GoodMesh([m EXCEPT !.link.told = @ \cup {k}])
           /\ GoodMesh([m EXCEPT !.link.connected = FALSE])
           /\ GoodMesh([m EXCEPT !.inbox = @ + 1])
<1>1. m \in MeshType /\ m.link \in LinkType
  BY DEF GoodMesh, MeshType
<1>2. ASSUME NEW s \in {"connected", "disconnected", "failed"}
      PROVE  GoodMesh([m EXCEPT !.link.state = s])
  BY Zenon, ZenonT(60), <1>1 DEF GoodMesh, HasLink, MeshType, LinkType
<1>3. ASSUME NEW k \in {"Candidate", "GatheringDone", "Recv"}
      PROVE  GoodMesh([m EXCEPT !.link.told = @ \cup {k}])
  BY Zenon, ZenonT(60), <1>1 DEF GoodMesh, HasLink, MeshType, LinkType
<1>4. GoodMesh([m EXCEPT !.link.connected = FALSE])
  BY Zenon, ZenonT(60), <1>1 DEF GoodMesh, HasLink, MeshType, LinkType
<1>5. GoodMesh([m EXCEPT !.inbox = @ + 1])
  BY <1>1 DEF GoodMesh, HasLink, MeshType
<1> QED BY <1>2, <1>3, <1>4, <1>5
-----------------------------------------------------------------------------
(***************************************************************************)
(* MeshInv is inductive.                                                   *)
(***************************************************************************)

\* A step that puts a good mesh in the place of one.
LEMMA OneMesh ==
    ASSUME MeshInv, NEW p \in Peer, NEW m, GoodMesh(m), mesh' = [mesh EXCEPT ![p] = m]
    PROVE  /\ mesh' \in [Peer -> MeshType]
           /\ \A q \in Peer : GoodMesh(mesh'[q])
           /\ mesh'[p] = m
           /\ \A q \in Peer \ {p} : mesh'[q] = mesh[q]
BY DEF MeshInv, GoodMesh

\* What SendServer leaves in the queue.
LEMMA SendServerType ==
    ASSUME MeshInv, NEW p \in Peer, NEW msgs \in Seq(Message), SendServer(p, msgs)
    PROVE  up' \in [Peer -> Seq(Message)]
BY DEF MeshInv, SendServer

\* A description of a link.
LEMMA DescriptionType ==
    ASSUME NEW m, GoodMesh(m), HasLink(m), NEW a \in BOOLEAN
    PROVE  <<Description(m, a)>> \in Seq(Message)
<1>1. m.link.gen \in Nat \ {0}
  BY DEF GoodMesh, HasLink, MeshType, LinkType
<1>2. Description(m, a) \in Message
  BY <1>1 DEF Description, Message
<1> QED BY <1>2

\* SendP2P: the datagram is sent, queued for the link there is or for a new one,
\* or dropped with the link that could not be made.
LEMMA SendP2PMesh ==
    ASSUME MeshInv, NEW p \in Peer, SendP2P(p)
    PROVE  /\ mesh' \in [Peer -> MeshType]
           /\ \A q \in Peer : GoodMesh(mesh'[q])
           /\ up' \in [Peer -> Seq(Message)]
           /\ \A q \in Peer \ {p} : mesh'[q] = mesh[q]
           /\ mesh'[p].known = mesh[p].known /\ mesh'[p].is_open = mesh[p].is_open
           /\ \/ /\ HasLink(mesh[p]) /\ mesh[p].link.connected /\ mesh' = mesh
                 /\ wire' = [wire EXCEPT ![p] = Append(@, sends[p] + 1)]
              \/ /\ wire' = wire
                 /\ mesh'[p].link.outbox \in
                       {<<>>, mesh[p].link.outbox, Append(mesh[p].link.outbox, sends[p] + 1)}
           /\ HasLink(mesh[p]) => mesh'[p].link.gen = mesh[p].link.gen
           /\ HasLink(mesh[p]) => mesh'[p].link.remote = mesh[p].link.remote
<1> DEFINE m == mesh[p]
           n == sends[p] + 1
<1>1. GoodMesh(m) /\ n \in Nat /\ mesh \in [Peer -> MeshType] /\ up \in [Peer -> Seq(Message)]
      /\ \A q \in Peer : GoodMesh(mesh[q])
  BY DEF MeshInv
<1>2. CASE HasLink(m) /\ m.link.connected
  <2>1. mesh' = mesh /\ up' = up /\ wire' = [wire EXCEPT ![p] = Append(@, sends[p] + 1)]
    BY <1>2 DEF SendP2P
  <2> QED BY <1>1, <1>2, <2>1
<1>3. CASE HasLink(m) /\ ~m.link.connected
  <2>1. mesh' = [mesh EXCEPT ![p] = Queue(m, n)] /\ up' = up /\ wire' = wire
    BY <1>3 DEF SendP2P
  <2>2. /\ GoodMesh(Queue(m, n))
        /\ Queue(m, n).known = m.known /\ Queue(m, n).is_open = m.is_open
        /\ Queue(m, n).link.gen = m.link.gen /\ Queue(m, n).link.remote = m.link.remote
        /\ Queue(m, n).link.outbox = Append(m.link.outbox, n)
    BY <1>1, <1>3, QueueFacts
  <2>3. /\ mesh' \in [Peer -> MeshType]
        /\ \A q \in Peer : GoodMesh(mesh'[q])
        /\ mesh'[p] = Queue(m, n)
        /\ \A q \in Peer \ {p} : mesh'[q] = mesh[q]
    BY Zenon, ZenonT(60), <2>1, <2>2, OneMesh
  <2> QED BY Zenon, ZenonT(60), <1>1, <2>1, <2>2, <2>3
<1>4. CASE ~HasLink(m)
  <2>1. m.link = NoLink
    BY <1>1, <1>4 DEF GoodMesh
  <2>2. PICK new \in CreateLink(m) :
          \/ /\ ~HasLink(new)
             /\ UNCHANGED <<mesh, up, wire>>
          \/ /\ HasLink(new)
             /\ \E out \in ShareLink :
                   /\ SendServer(p, IF out.sent THEN <<Description(new, FALSE)>> ELSE <<>>)
                   /\ mesh' = [mesh EXCEPT ![p] = IF out.ok THEN Queue(new, n)
                                                  ELSE DestroyLink(new)]
             /\ UNCHANGED wire
    BY Zenon, ZenonT(60), <1>4 DEF SendP2P
  <2>3. /\ GoodMesh(new)
        /\ new.known = m.known /\ new.is_open = m.is_open
        /\ new.link.outbox = <<>> /\ new.link.connected = FALSE
    BY Zenon, ZenonT(60), <1>1, <1>4, CreateLinkFacts
  <2>4. CASE ~HasLink(new)
    BY <1>1, <1>4, <2>2, <2>4
  <2>5. CASE HasLink(new)
    <3>1. PICK out \in ShareLink :
            /\ SendServer(p, IF out.sent THEN <<Description(new, FALSE)>> ELSE <<>>)
            /\ mesh' = [mesh EXCEPT ![p] = IF out.ok THEN Queue(new, n) ELSE DestroyLink(new)]
      BY Zenon, ZenonT(60), <2>2, <2>5
    <3>2. up' \in [Peer -> Seq(Message)] /\ wire' = wire
      <4>1. (IF out.sent THEN <<Description(new, FALSE)>> ELSE <<>>) \in Seq(Message)
        <5>1. <<Description(new, FALSE)>> \in Seq(Message)
          BY Zenon, ZenonT(60), <2>3, <2>5, DescriptionType
        <5>2. <<>> \in Seq(Message)
          OBVIOUS
        <5> QED BY <5>1, <5>2, Zenon, ZenonT(60)
      <4> QED BY Zenon, ZenonT(60), <2>2, <2>5, <3>1, <4>1, SendServerType
    <3>3. CASE out.ok
      <4>1. /\ GoodMesh(Queue(new, n))
            /\ Queue(new, n).known = m.known /\ Queue(new, n).is_open = m.is_open
            /\ Queue(new, n).link.outbox = Append(new.link.outbox, n)
        BY <1>1, <2>3, <2>5, QueueFacts
      <4>2. mesh' = [mesh EXCEPT ![p] = Queue(new, n)]
        BY <3>1, <3>3
      <4>3. /\ mesh' \in [Peer -> MeshType]
            /\ \A q \in Peer : GoodMesh(mesh'[q])
            /\ mesh'[p] = Queue(new, n)
            /\ \A q \in Peer \ {p} : mesh'[q] = mesh[q]
        BY Zenon, ZenonT(60), <4>1, <4>2, OneMesh
      <4> QED BY Zenon, ZenonT(60), <1>4, <2>1, <2>3, <3>2, <4>1, <4>3, NoLinkType
    <3>4. CASE ~out.ok
      <4>1. /\ GoodMesh(DestroyLink(new))
            /\ DestroyLink(new).known = m.known /\ DestroyLink(new).is_open = m.is_open
            /\ DestroyLink(new).link = NoLink
        BY <2>3, DestroyLinkFacts
      <4>2. mesh' = [mesh EXCEPT ![p] = DestroyLink(new)]
        BY <3>1, <3>4
      <4>3. /\ mesh' \in [Peer -> MeshType]
            /\ \A q \in Peer : GoodMesh(mesh'[q])
            /\ mesh'[p] = DestroyLink(new)
            /\ \A q \in Peer \ {p} : mesh'[q] = mesh[q]
        BY Zenon, ZenonT(60), <4>1, <4>2, OneMesh
      <4> QED BY <1>4, <3>2, <4>1, <4>3, NoLinkType
    <3> QED BY Zenon, ZenonT(60), <3>3, <3>4
  <2> QED BY Zenon, ZenonT(60), <2>4, <2>5
<1> QED BY Zenon, ZenonT(60), <1>2, <1>3, <1>4

\* The answering half of HandleP2PDescription, on a mesh without a link.
LEMMA AnswerDialMesh ==
    ASSUME MeshInv, NEW p \in Peer, NEW m, GoodMesh(m), ~HasLink(m),
           NEW sig, sig.gen \in Nat, AnswerDial(p, m, sig)
    PROVE  /\ mesh' \in [Peer -> MeshType]
           /\ \A q \in Peer : GoodMesh(mesh'[q])
           /\ up' \in [Peer -> Seq(Message)]
           /\ \A q \in Peer \ {p} : mesh'[q] = mesh[q]
           /\ mesh'[p].known = m.known /\ mesh'[p].is_open = m.is_open
           /\ mesh'[p].link.outbox = <<>>
           /\ HasLink(mesh'[p]) => mesh'[p].link.gen = m.agents + 1
<1> DEFINE z == [m EXCEPT !.attempts = 0]
<1>1. m \in MeshType /\ m.link \in LinkType /\ up \in [Peer -> Seq(Message)]
  BY DEF GoodMesh, MeshType, MeshInv
<1>2. /\ z \in MeshType /\ z.link = m.link /\ z.attempts = 0 /\ z.agents = m.agents
      /\ z.known = m.known /\ z.is_open = m.is_open
  BY <1>1 DEF MeshType
<1> HIDE DEF z
<1>3. GoodMesh(z) /\ ~HasLink(z)
  BY <1>2, FaultAssumption DEF GoodMesh, HasLink
<1>4. PICK new \in CreateLink(z) :
        \/ /\ ~HasLink(new)
           /\ mesh' = [mesh EXCEPT ![p] = new]
           /\ UNCHANGED up
        \/ /\ HasLink(new)
           /\ mesh' = [mesh EXCEPT ![p] = SetRemote(new, sig.gen)]
           /\ \E out \in ShareLink :
                 SendServer(p, IF out.sent THEN <<Description(new, TRUE)>> ELSE <<>>)
  BY Zenon, ZenonT(60) DEF AnswerDial, z
<1>5. /\ GoodMesh(new)
      /\ new.known = m.known /\ new.is_open = m.is_open
      /\ new.link.outbox = <<>>
      /\ HasLink(new) => new.link.gen = m.agents + 1
  <2>1. /\ GoodMesh(new)
        /\ new.known = z.known /\ new.is_open = z.is_open
        /\ new.link.outbox = <<>>
        /\ HasLink(new) => new.link.gen = z.agents + 1
    BY Zenon, ZenonT(60), <1>3, CreateLinkFacts
  <2> QED BY <1>2, <2>1
<1>6. CASE ~HasLink(new)
  <2>1. mesh' = [mesh EXCEPT ![p] = new] /\ up' = up
    BY <1>4, <1>6
  <2>2. /\ mesh' \in [Peer -> MeshType]
        /\ \A q \in Peer : GoodMesh(mesh'[q])
        /\ mesh'[p] = new
        /\ \A q \in Peer \ {p} : mesh'[q] = mesh[q]
    BY Zenon, ZenonT(60), <1>5, <2>1, OneMesh
  <2> QED BY <1>1, <1>5, <1>6, <2>1, <2>2
<1>7. CASE HasLink(new)
  <2> DEFINE set == SetRemote(new, sig.gen)
  <2>1. PICK out \in ShareLink :
           SendServer(p, IF out.sent THEN <<Description(new, TRUE)>> ELSE <<>>)
    BY Zenon, ZenonT(60), <1>4, <1>7
  <2>2. mesh' = [mesh EXCEPT ![p] = set]
    BY <1>4, <1>7
  <2>3. /\ GoodMesh(set)
        /\ set.known = m.known /\ set.is_open = m.is_open
        /\ set.link.gen = m.agents + 1 /\ set.link.outbox = <<>>
    BY <1>5, <1>7, SetRemoteFacts
  <2> HIDE DEF set
  <2>4. up' \in [Peer -> Seq(Message)]
    <3>1. <<Description(new, TRUE)>> \in Seq(Message)
      BY Zenon, ZenonT(60), <1>5, <1>7, DescriptionType
    <3>2. <<>> \in Seq(Message)
      OBVIOUS
    <3>3. (IF out.sent THEN <<Description(new, TRUE)>> ELSE <<>>) \in Seq(Message)
      BY <3>1, <3>2, Zenon, ZenonT(60)
    <3> QED BY Zenon, ZenonT(60), <2>1, <3>3, SendServerType
  <2>5. /\ mesh' \in [Peer -> MeshType]
        /\ \A q \in Peer : GoodMesh(mesh'[q])
        /\ mesh'[p] = set
        /\ \A q \in Peer \ {p} : mesh'[q] = mesh[q]
    BY Zenon, ZenonT(60), <2>2, <2>3, OneMesh
  <2> QED BY <2>3, <2>4, <2>5
<1> QED BY <1>6, <1>7

\* HandleP2PDescription: a link that has its description gives way to a new
\* agent or to none; one that waits for it takes it.
LEMMA HandleP2PDescriptionMesh ==
    ASSUME MeshInv, NEW p \in Peer, NEW sig, sig.gen \in Nat, HandleP2PDescription(p, sig)
    PROVE  /\ mesh' \in [Peer -> MeshType]
           /\ \A q \in Peer : GoodMesh(mesh'[q])
           /\ up' \in [Peer -> Seq(Message)]
           /\ \A q \in Peer \ {p} : mesh'[q] = mesh[q]
           /\ mesh'[p].known = mesh[p].known /\ mesh'[p].is_open = mesh[p].is_open
           /\ mesh'[p].link.outbox \in {<<>>, mesh[p].link.outbox}
           /\ HasLink(mesh[p]) /\ mesh[p].link.remote # 0 =>
                 mesh'[p].link.gen # mesh[p].link.gen
<1> DEFINE m == IF mesh[p].link.remote # 0 THEN DestroyLink(mesh[p]) ELSE mesh[p]
<1>1. GoodMesh(mesh[p]) /\ mesh[p].agents \in Nat /\ mesh[p].link.gen \in Nat
      /\ mesh[p].link.gen <= mesh[p].agents /\ up \in [Peer -> Seq(Message)]
  BY DEF MeshInv, GoodMesh, MeshType, LinkType
<1>2. /\ GoodMesh(m) /\ m.known = mesh[p].known /\ m.is_open = mesh[p].is_open
      /\ m.agents = mesh[p].agents
      /\ mesh[p].link.remote # 0 => ~HasLink(m)
      /\ HasLink(m) => m = mesh[p] /\ m.link.remote = 0
  <2>1. CASE mesh[p].link.remote # 0
    BY <1>1, <2>1, DestroyLinkFacts, NoLinkType DEF HasLink, DestroyLink, GoodMesh, MeshType
  <2>2. CASE mesh[p].link.remote = 0
    BY <1>1, <2>2
  <2> QED BY <2>1, <2>2
<1>3. \/ /\ HasLink(m)
         /\ mesh' = [mesh EXCEPT ![p] = SetRemote(m, sig.gen)]
         /\ UNCHANGED up
      \/ /\ ~HasLink(m)
         /\ AnswerDial(p, m, sig)
  BY DEF HandleP2PDescription
<1> HIDE DEF m
<1>4. CASE HasLink(m)
  <2> DEFINE set == SetRemote(m, sig.gen)
  <2>1. mesh' = [mesh EXCEPT ![p] = set] /\ up' = up
    BY <1>3, <1>4
  <2>2. /\ GoodMesh(set)
        /\ set.known = m.known /\ set.is_open = m.is_open
        /\ set.link.gen = m.link.gen /\ set.link.outbox = m.link.outbox
    BY <1>2, <1>4, SetRemoteFacts
  <2> HIDE DEF set
  <2>3. /\ mesh' \in [Peer -> MeshType]
        /\ \A q \in Peer : GoodMesh(mesh'[q])
        /\ mesh'[p] = set
        /\ \A q \in Peer \ {p} : mesh'[q] = mesh[q]
    BY Zenon, ZenonT(60), <2>1, <2>2, OneMesh
  <2> QED BY <1>1, <1>2, <1>4, <2>1, <2>2, <2>3
<1>5. CASE ~HasLink(m)
  <2>1. /\ mesh' \in [Peer -> MeshType]
        /\ \A q \in Peer : GoodMesh(mesh'[q])
        /\ up' \in [Peer -> Seq(Message)]
        /\ \A q \in Peer \ {p} : mesh'[q] = mesh[q]
        /\ mesh'[p].known = m.known /\ mesh'[p].is_open = m.is_open
        /\ mesh'[p].link.outbox = <<>>
        /\ HasLink(mesh'[p]) => mesh'[p].link.gen = m.agents + 1
    BY <1>2, <1>3, <1>5, AnswerDialMesh
  <2> QED BY <1>1, <1>2, <2>1 DEF HasLink
<1> QED BY <1>4, <1>5

\* What is on its way is a message, and its rest too.
LEMMA HeadMessage ==
    ASSUME NEW S, NEW s \in Seq(S), s # <<>>
    PROVE  /\ Head(s) \in S /\ Head(s) = s[1]
           /\ Tail(s) \in Seq(S) /\ Len(Tail(s)) = Len(s) - 1
           /\ \A i \in 1..(Len(s) - 1) : Tail(s)[i] = s[i + 1]
OBVIOUS

\* A message that Poll carves, by its kind.
LEMMA CarveServerMesh ==
    ASSUME MeshInv, NEW p \in Peer, CarveServer(p)
    PROVE  LET msg == Head(down[p])
               m == mesh[p]
               n == mesh'[p]
           IN  /\ mesh' \in [Peer -> MeshType]
               /\ \A q \in Peer : GoodMesh(mesh'[q])
               /\ up' \in [Peer -> Seq(Message)]
               /\ \A q \in Peer \ {p} : mesh'[q] = mesh[q]
               /\ n.link.outbox \in {<<>>, m.link.outbox}
               /\ HasLink(m) /\ m.link.remote # 0 /\ n.link.gen = m.link.gen =>
                     n.link.remote = m.link.remote
               /\ \/ /\ msg.kind = "Description"
                     /\ n.known = m.known /\ n.is_open = m.is_open
                  \/ /\ msg.kind \in {"Candidate", "GatheringDone"}
                     /\ n = m
                  \/ /\ msg.kind = "PeerJoined"
                     /\ n.known = TRUE /\ n.link = m.link /\ n.is_open = m.is_open
                  \/ /\ msg.kind \in Departures
                     /\ n.known = FALSE /\ n.link = NoLink /\ n.is_open = m.is_open
                  \/ /\ msg.kind = "Eof"
                     /\ n.link = NoLink /\ ~n.is_open /\ ~n.known
<1> DEFINE msg == Head(down[p])
<1>1. /\ GoodMesh(mesh[p]) /\ mesh \in [Peer -> MeshType]
      /\ \A q \in Peer : GoodMesh(mesh[q])
      /\ up \in [Peer -> Seq(Message)]
  BY DEF MeshInv
<1>2. msg \in Message
  BY HeadMessage DEF MeshInv, CarveServer
<1>3. \/ HandleP2PSignal(p, msg)
      \/ /\ msg.kind \in {"PeerJoined", "PeerLeft", "OwnPeerLeft"}
         /\ mesh' = [mesh EXCEPT ![p] = CacheRoomState(mesh[p], msg)]
         /\ UNCHANGED up
      \/ /\ msg.kind = "Eof"
         /\ mesh' = [mesh EXCEPT ![p] = DisconnectServer(mesh[p])]
         /\ UNCHANGED up
  BY <1>1 DEF CarveServer
<1> HIDE DEF msg
<1>4. CASE msg.kind = "Description" /\ HandleP2PDescription(p, msg)
  <2>1. msg.gen \in Nat
    BY <1>2, <1>4 DEF Message
  <2>2. /\ mesh' \in [Peer -> MeshType]
        /\ \A q \in Peer : GoodMesh(mesh'[q])
        /\ up' \in [Peer -> Seq(Message)]
        /\ \A q \in Peer \ {p} : mesh'[q] = mesh[q]
        /\ mesh'[p].known = mesh[p].known /\ mesh'[p].is_open = mesh[p].is_open
        /\ mesh'[p].link.outbox \in {<<>>, mesh[p].link.outbox}
        /\ HasLink(mesh[p]) /\ mesh[p].link.remote # 0 =>
              mesh'[p].link.gen # mesh[p].link.gen
    BY <1>4, <2>1, HandleP2PDescriptionMesh
  <2> QED BY <1>4, <2>2 DEF msg
<1>5. CASE msg.kind \in {"Candidate", "GatheringDone"} /\ UNCHANGED <<mesh, up>>
  BY <1>1, <1>5 DEF msg
<1>6. CASE /\ msg.kind \in {"PeerJoined", "PeerLeft", "OwnPeerLeft"}
           /\ mesh' = [mesh EXCEPT ![p] = CacheRoomState(mesh[p], msg)]
           /\ UNCHANGED up
  <2> DEFINE n == CacheRoomState(mesh[p], msg)
  <2>1. /\ GoodMesh(n)
        /\ n.known = (msg.kind = "PeerJoined")
        /\ n.is_open = mesh[p].is_open
        /\ msg.kind = "PeerJoined" => n.link = mesh[p].link
        /\ msg.kind # "PeerJoined" => n.link = NoLink
    BY <1>1, <1>6, CacheRoomStateFacts
  <2>2. mesh' = [mesh EXCEPT ![p] = n]
    BY <1>6
  <2> HIDE DEF n
  <2>3. /\ mesh' \in [Peer -> MeshType]
        /\ \A q \in Peer : GoodMesh(mesh'[q])
        /\ mesh'[p] = n
        /\ \A q \in Peer \ {p} : mesh'[q] = mesh[q]
    BY Zenon, ZenonT(60), <2>1, <2>2, OneMesh
  <2> QED BY Zenon, ZenonT(60), <1>1, <1>6, <2>1, <2>3, NoLinkType DEF HasLink, Departures, msg
<1>7. CASE /\ msg.kind = "Eof"
           /\ mesh' = [mesh EXCEPT ![p] = DisconnectServer(mesh[p])]
           /\ UNCHANGED up
  <2> DEFINE n == DisconnectServer(mesh[p])
  <2>1. GoodMesh(n) /\ n.link = NoLink /\ ~n.is_open /\ ~n.known
    BY <1>1, DisconnectServerFacts
  <2>2. mesh' = [mesh EXCEPT ![p] = n]
    BY <1>7
  <2> HIDE DEF n
  <2>3. /\ mesh' \in [Peer -> MeshType]
        /\ \A q \in Peer : GoodMesh(mesh'[q])
        /\ mesh'[p] = n
        /\ \A q \in Peer \ {p} : mesh'[q] = mesh[q]
    BY Zenon, ZenonT(60), <2>1, <2>2, OneMesh
  <2> QED BY <1>1, <1>7, <2>1, <2>3, NoLinkType DEF HasLink, msg
<1> QED BY Zenon, ZenonT(60), <1>3, <1>4, <1>5, <1>6, <1>7 DEF HandleP2PSignal

\* An event of libjuice changes the link it is for, or ends it.
LEMMA HandleJuiceEventMesh ==
    ASSUME MeshInv, NEW p \in Peer, HandleJuiceEvent(p)
    PROVE  LET m == mesh[p]
               n == mesh'[p]
           IN  /\ mesh' \in [Peer -> MeshType]
               /\ \A q \in Peer : GoodMesh(mesh'[q])
               /\ up' \in [Peer -> Seq(Message)]
               /\ \A q \in Peer \ {p} : mesh'[q] = mesh[q]
               /\ n.known = m.known /\ n.is_open = m.is_open
               /\ n.link.gen \in {0, m.link.gen}
               /\ HasLink(m) /\ n.link.gen = m.link.gen => n.link.remote = m.link.remote
               /\ \/ /\ n.link.outbox \in {<<>>, m.link.outbox}
                     /\ wire' = wire
                  \/ /\ n.link.outbox = <<>>
                     /\ wire' = [wire EXCEPT ![p] = @ \o m.link.outbox]
<1> DEFINE m == mesh[p]
           ev == Head(scratch[p])
<1>1. /\ GoodMesh(m) /\ mesh \in [Peer -> MeshType] /\ m \in MeshType /\ m.link \in LinkType
      /\ \A q \in Peer : GoodMesh(mesh[q])
      /\ up \in [Peer -> Seq(Message)]
  BY DEF MeshInv, MeshType
<1>2. ev \in Event
  BY HeadMessage DEF MeshInv, HandleJuiceEvent
<1>3. CASE UNCHANGED <<mesh, up, wire>>
  BY <1>1, <1>3
<1>4. CASE HasLink(m) /\ ev.kind = "connected" /\ LinkConnected(p) /\ up' = up
  <2>1. /\ GoodMesh(Flushed(m))
        /\ Flushed(m).known = m.known /\ Flushed(m).is_open = m.is_open
        /\ Flushed(m).link.gen = m.link.gen /\ Flushed(m).link.remote = m.link.remote
        /\ Flushed(m).link.outbox = <<>>
    BY <1>1, <1>4, FlushedFacts
  <2>2. /\ mesh' = [mesh EXCEPT ![p] = Flushed(m)]
        /\ wire' = [wire EXCEPT ![p] = @ \o m.link.outbox]
    BY <1>4 DEF LinkConnected
  <2>3. /\ mesh' \in [Peer -> MeshType]
        /\ \A q \in Peer : GoodMesh(mesh'[q])
        /\ mesh'[p] = Flushed(m)
        /\ \A q \in Peer \ {p} : mesh'[q] = mesh[q]
    BY Zenon, ZenonT(60), <2>1, <2>2, OneMesh
  <2> QED BY Zenon, ZenonT(60), <1>1, <1>4, <2>1, <2>2, <2>3
<1>5. CASE /\ HasLink(m) /\ up' = up /\ wire' = wire
           /\ mesh' = [mesh EXCEPT ![p].link.connected = FALSE]
  <2> DEFINE n == [m EXCEPT !.link.connected = FALSE]
  <2>1. /\ GoodMesh(n) /\ n.known = m.known /\ n.is_open = m.is_open
        /\ n.link.gen = m.link.gen /\ n.link.remote = m.link.remote
        /\ n.link.outbox = m.link.outbox
    BY Zenon, ZenonT(60), <1>1, <1>5, ReportFacts DEF MeshType, LinkType
  <2>2. mesh' = [mesh EXCEPT ![p] = n]
    BY <1>1, <1>5
  <2> HIDE DEF n
  <2>3. /\ mesh' \in [Peer -> MeshType]
        /\ \A q \in Peer : GoodMesh(mesh'[q])
        /\ mesh'[p] = n
        /\ \A q \in Peer \ {p} : mesh'[q] = mesh[q]
    BY Zenon, ZenonT(60), <2>1, <2>2, OneMesh
  <2> QED BY Zenon, ZenonT(60), <1>1, <1>5, <2>1, <2>3
<1>6. CASE HasLink(m) /\ up' = up /\ wire' = wire /\ mesh' = [mesh EXCEPT ![p] = DestroyLink(m)]
  <2>1. /\ GoodMesh(DestroyLink(m)) /\ DestroyLink(m).link = NoLink
        /\ DestroyLink(m).known = m.known /\ DestroyLink(m).is_open = m.is_open
    BY <1>1, DestroyLinkFacts
  <2>2. /\ mesh' \in [Peer -> MeshType]
        /\ \A q \in Peer : GoodMesh(mesh'[q])
        /\ mesh'[p] = DestroyLink(m)
        /\ \A q \in Peer \ {p} : mesh'[q] = mesh[q]
    BY Zenon, ZenonT(60), <1>6, <2>1, OneMesh
  <2> QED BY Zenon, ZenonT(60), <1>1, <1>6, <2>1, <2>2, NoLinkType DEF HasLink
<1>7. CASE /\ ev.kind \in {"Candidate", "GatheringDone"} /\ mesh' = mesh /\ wire' = wire
           /\ SendServer(p, <<[kind |-> ev.kind, gen |-> ev.gen]>>)
  <2>1. [kind |-> ev.kind, gen |-> ev.gen] \in Message
    BY <1>2, <1>7 DEF Event, Message
  <2>2. <<[kind |-> ev.kind, gen |-> ev.gen]>> \in Seq(Message)
    BY <2>1
  <2>3. up' \in [Peer -> Seq(Message)]
    BY <1>7, <2>2, SendServerType
  <2> QED BY <1>1, <1>7, <2>3
<1>8. CASE /\ HasLink(m) /\ up' = up /\ wire' = wire
           /\ mesh' = [mesh EXCEPT ![p].inbox = @ + 1]
  <2> DEFINE n == [m EXCEPT !.inbox = @ + 1]
  <2>1. /\ GoodMesh(n) /\ n.known = m.known /\ n.is_open = m.is_open /\ n.link = m.link
    BY Zenon, ZenonT(60), <1>1, <1>8, ReportFacts DEF MeshType
  <2>2. mesh' = [mesh EXCEPT ![p] = n]
    BY <1>1, <1>8
  <2> HIDE DEF n
  <2>3. /\ mesh' \in [Peer -> MeshType]
        /\ \A q \in Peer : GoodMesh(mesh'[q])
        /\ mesh'[p] = n
        /\ \A q \in Peer \ {p} : mesh'[q] = mesh[q]
    BY Zenon, ZenonT(60), <2>1, <2>2, OneMesh
  <2> QED BY Zenon, ZenonT(60), <1>1, <1>8, <2>1, <2>3
<1> QED BY <1>3, <1>4, <1>5, <1>6, <1>7, <1>8, Zenon, ZenonT(60) DEF HandleJuiceEvent, HandleLinkState

\* A callback: the event is queued, if there is room, and the agent's report kept.
LEMMA PushJuiceEventMesh ==
    ASSUME MeshInv, NEW p \in Peer, NEW m, GoodMesh(m), mesh' = [mesh EXCEPT ![p] = m],
           NEW kind \in {"connected", "disconnected", "failed", "Candidate", "GatheringDone",
                         "Recv"},
           PushJuiceEvent(p, kind),
           UNCHANGED <<scratch, carving, up, down, conn, in_room, sends, wire, moves>>
    PROVE  MeshInv'
<1>1. /\ mesh' \in [Peer -> MeshType]
      /\ \A q \in Peer : GoodMesh(mesh'[q])
  BY Zenon, ZenonT(60), OneMesh
<1> DEFINE ev == [agent |-> mesh[p].link.agent, gen |-> mesh[p].link.gen, kind |-> kind]
<1>2. ev \in Event
  BY DEF MeshInv, GoodMesh, PushJuiceEvent, MeshType, LinkType, Event
<1>3. events' = [events EXCEPT ![p] = Append(@, ev)] /\ Len(events[p]) < MaxQueued
  BY DEF PushJuiceEvent
<1> HIDE DEF ev
<1>4. /\ events' \in [Peer -> Seq(Event)]
      /\ \A q \in Peer : Len(events'[q]) <= MaxQueued
  BY <1>2, <1>3, FaultAssumption DEF MeshInv
<1> QED BY <1>1, <1>4 DEF MeshInv

\* A callback changes nothing but what the model notes of the agent.
LEMMA OnJuiceMesh ==
    ASSUME MeshInv, NEW p \in Peer,
           \/ \E state : OnJuiceState(p, state)
           \/ \E kind : OnJuiceOther(p, kind)
    PROVE  \A q \in Peer : /\ mesh'[q].known = mesh[q].known
                           /\ mesh'[q].is_open = mesh[q].is_open
                           /\ mesh'[q].link.gen = mesh[q].link.gen
                           /\ mesh'[q].link.remote = mesh[q].link.remote
                           /\ mesh'[q].link.outbox = mesh[q].link.outbox
<1>1. mesh \in [Peer -> MeshType] /\ mesh[p] \in MeshType /\ mesh[p].link \in LinkType
  BY DEF MeshInv, MeshType
<1>2. ASSUME NEW state, OnJuiceState(p, state)
      PROVE  /\ \A q \in Peer \ {p} : mesh'[q] = mesh[q]
             /\ mesh'[p] = [mesh[p] EXCEPT !.link.state = state]
  BY <1>1, <1>2 DEF OnJuiceState
<1>3. ASSUME NEW kind, OnJuiceOther(p, kind)
      PROVE  /\ \A q \in Peer \ {p} : mesh'[q] = mesh[q]
             /\ mesh'[p] = [mesh[p] EXCEPT !.link.told = @ \cup {kind}]
  BY <1>1, <1>3 DEF OnJuiceOther
<1> DEFINE Same(n) == /\ n.known = mesh[p].known /\ n.is_open = mesh[p].is_open
                      /\ n.link.gen = mesh[p].link.gen /\ n.link.remote = mesh[p].link.remote
                      /\ n.link.outbox = mesh[p].link.outbox
<1>4. /\ \A state : Same([mesh[p] EXCEPT !.link.state = state])
      /\ \A kind : Same([mesh[p] EXCEPT !.link.told = @ \cup {kind}])
  BY <1>1 DEF MeshType, LinkType
<1>5. Same(mesh'[p]) /\ \A q \in Peer \ {p} : mesh'[q] = mesh[q]
  <2> HIDE DEF Same
  <2> QED BY <1>2, <1>3, <1>4, Zenon, ZenonT(60)
<1> QED BY <1>5

\* A message of the server or of the program.
LEMMA PlainMessage ==
    ASSUME NEW kind \in {"Leave", "Join", "Eof", "PeerJoined", "PeerLeft", "OwnPeerLeft"}
    PROVE  [kind |-> kind] \in Message /\ <<[kind |-> kind]>> \in Seq(Message)
<1>1. [kind |-> kind] \in Message
  BY DEF Message
<1> QED BY <1>1

\* What the server makes of a message.
LEMMA ServerHandleType ==
    ASSUME MeshInv, NEW p \in Peer, NEW msg \in Message, ServerHandle(p, msg)
    PROVE  down' \in [Peer -> Seq(Message)] /\ in_room' \subseteq Peer
<1>1. /\ down \in [Peer -> Seq(Message)] /\ in_room \subseteq Peer
      /\ Other(p) \in Peer /\ Other(p) # p
  BY DEF MeshInv, Peer, Other
<1>2. /\ [kind |-> "PeerJoined"] \in Message
      /\ [kind |-> "PeerLeft"] \in Message
      /\ [kind |-> "OwnPeerLeft"] \in Message
  BY PlainMessage
<1>3. \A r \in Peer : /\ Append(down[r], [kind |-> "PeerJoined"]) \in Seq(Message)
                      /\ Append(down[r], [kind |-> "PeerLeft"]) \in Seq(Message)
                      /\ Append(down[r], [kind |-> "OwnPeerLeft"]) \in Seq(Message)
                      /\ Append(down[r], msg) \in Seq(Message)
  BY <1>1, <1>2
<1>4. CASE /\ in_room' = in_room \ {p}
           /\ down' = [r \in Peer |->
                         IF r = p THEN Append(down[r], [kind |-> "OwnPeerLeft"])
                         ELSE IF Other(p) \in in_room
                              THEN Append(down[r], [kind |-> "PeerLeft"])
                         ELSE down[r]]
  BY <1>1, <1>3, <1>4
<1>5. CASE /\ in_room' = in_room \cup {p}
           /\ down' = [r \in Peer |-> Append(down[r], [kind |-> "PeerJoined"])]
  BY <1>1, <1>3, <1>5
<1>6. CASE /\ down' = [down EXCEPT ![Other(p)] = Append(@, msg)]
           /\ UNCHANGED in_room
  BY <1>1, <1>3, <1>6
<1>7. CASE Gone(p)
  BY Zenon, ZenonT(60), <1>1, <1>3, <1>7 DEF Gone
<1>8. CASE UNCHANGED <<down, in_room>>
  BY <1>1, <1>8
<1> QED BY <1>4, <1>5, <1>6, <1>7, <1>8, Zenon, ZenonT(60) DEF ServerHandle

\* Every step keeps the shape of the state.
LEMMA MeshInvStep ==
    ASSUME MeshInv, [Next]_vars
    PROVE  MeshInv'
<1>1. CASE UNCHANGED vars
  BY <1>1 DEF MeshInv, vars
<1>2. ASSUME NEW p \in Peer, SendP2P(p) PROVE MeshInv'
  <2>1. /\ mesh' \in [Peer -> MeshType]
        /\ \A q \in Peer : GoodMesh(mesh'[q])
        /\ up' \in [Peer -> Seq(Message)]
        /\ wire' = [wire EXCEPT ![p] = Append(@, sends[p] + 1)] \/ wire' = wire
    BY <1>2, SendP2PMesh
  <2>2. /\ UNCHANGED <<events, scratch, carving, down, conn, in_room, moves>>
        /\ sends' = [sends EXCEPT ![p] = sends[p] + 1]
    BY <1>2 DEF SendP2P
  <2>3. sends' \in [Peer -> Nat] /\ wire' \in [Peer -> Seq(Nat)]
    <3>1. sends[p] + 1 \in Nat /\ Append(wire[p], sends[p] + 1) \in Seq(Nat)
      BY DEF MeshInv
    <3> QED BY Zenon, ZenonT(60), <2>1, <2>2, <3>1 DEF MeshInv
  <2> QED BY <2>1, <2>2, <2>3 DEF MeshInv
<1>3. ASSUME NEW p \in Peer, CarveServer(p) PROVE MeshInv'
  <2>1. /\ mesh' \in [Peer -> MeshType]
        /\ \A q \in Peer : GoodMesh(mesh'[q])
        /\ up' \in [Peer -> Seq(Message)]
    BY Zenon, ZenonT(60), <1>3, CarveServerMesh
  <2>2. /\ UNCHANGED <<events, scratch, conn, in_room, sends, wire, moves>>
        /\ down[p] # <<>>
        /\ down' = [down EXCEPT ![p] = Tail(@)]
        /\ carving' = [carving EXCEPT ![p] = Head(down[p]).kind # "Eof"]
    BY <1>3 DEF CarveServer
  <2>3. Tail(down[p]) \in Seq(Message)
    BY <2>2, HeadMessage DEF MeshInv
  <2> QED BY <2>1, <2>2, <2>3 DEF MeshInv
<1>4. ASSUME NEW p \in Peer, PollPeers(p) PROVE MeshInv'
  BY <1>4, FaultAssumption DEF MeshInv, PollPeers
<1>5. ASSUME NEW p \in Peer, HandleJuiceEvent(p) PROVE MeshInv'
  <2>1. /\ mesh' \in [Peer -> MeshType]
        /\ \A q \in Peer : GoodMesh(mesh'[q])
        /\ up' \in [Peer -> Seq(Message)]
        /\ wire' = [wire EXCEPT ![p] = @ \o mesh[p].link.outbox] \/ wire' = wire
    BY Zenon, ZenonT(60), <1>5, HandleJuiceEventMesh
  <2>2. /\ UNCHANGED <<events, carving, down, conn, in_room, sends, moves>>
        /\ scratch[p] # <<>>
        /\ scratch' = [scratch EXCEPT ![p] = Tail(@)]
    BY <1>5 DEF HandleJuiceEvent
  <2>3. Tail(scratch[p]) \in Seq(Event) /\ Len(Tail(scratch[p])) <= MaxQueued
    BY <2>2, HeadMessage, FaultAssumption DEF MeshInv
  <2>4. wire' \in [Peer -> Seq(Nat)]
    <3>1. mesh[p].link.outbox \in Seq(Nat)
      BY DEF MeshInv, MeshType, LinkType
    <3>2. wire[p] \o mesh[p].link.outbox \in Seq(Nat)
      BY <3>1 DEF MeshInv
    <3> QED BY Zenon, ZenonT(60), <2>1, <3>2 DEF MeshInv
  <2> QED BY Zenon, ZenonT(60), <2>1, <2>2, <2>3, <2>4 DEF MeshInv
<1>6. ASSUME NEW p \in Peer, Relay(p) PROVE MeshInv'
  <2>1. Head(up[p]) \in Message /\ Tail(up[p]) \in Seq(Message)
    BY <1>6, HeadMessage DEF Relay, MeshInv
  <2>2. down' \in [Peer -> Seq(Message)] /\ in_room' \subseteq Peer
    BY <1>6, <2>1, ServerHandleType DEF Relay
  <2> QED BY Zenon, ZenonT(60), <1>6, <2>1, <2>2 DEF MeshInv, Relay
<1>7. ASSUME NEW p \in Peer, ConnectionLost(p) PROVE MeshInv'
  <2>1. ASSUME NEW s \in Seq(Message), NEW n \in 0..Len(s)
        PROVE  SubSeq(s, 1, n) \o <<[kind |-> "Eof"]>> \in Seq(Message)
    <3>1. SubSeq(s, 1, n) \in Seq(Message)
      BY <2>1
    <3> QED BY <3>1, PlainMessage
  <2>2. up' \in [Peer -> Seq(Message)] /\ down' \in [Peer -> Seq(Message)]
    <3>1. up[p] \in Seq(Message) /\ down[p] \in Seq(Message)
      BY DEF MeshInv
    <3>2. PICK i \in 0..Len(up[p]) :
             up' = [up EXCEPT ![p] = SubSeq(up[p], 1, i) \o <<[kind |-> "Eof"]>>]
      BY Zenon, ZenonT(60), <1>7 DEF ConnectionLost
    <3>3. PICK j \in 0..Len(down[p]) :
             down' = [down EXCEPT ![p] = SubSeq(down[p], 1, j) \o <<[kind |-> "Eof"]>>]
      BY Zenon, ZenonT(60), <1>7 DEF ConnectionLost
    <3>4. /\ SubSeq(up[p], 1, i) \o <<[kind |-> "Eof"]>> \in Seq(Message)
          /\ SubSeq(down[p], 1, j) \o <<[kind |-> "Eof"]>> \in Seq(Message)
      BY <2>1, <3>1
    <3> QED BY <3>2, <3>3, <3>4 DEF MeshInv
  <2> QED BY Zenon, ZenonT(60), <1>7, <2>2 DEF MeshInv, ConnectionLost
<1>8. ASSUME NEW p \in Peer, NEW kind \in {"Leave", "Join"}, Move(p, kind) PROVE MeshInv'
  <2>1. up' \in [Peer -> Seq(Message)]
    BY Zenon, ZenonT(60), <1>8, PlainMessage, SendServerType DEF Move
  <2> QED BY <1>8, <2>1 DEF MeshInv, Move
<1>9. ASSUME NEW p \in Peer, NEW state \in {"connected", "disconnected", "failed"},
             OnJuiceState(p, state)
      PROVE  MeshInv'
  <2>1. GoodMesh(mesh[p]) /\ HasLink(mesh[p]) /\ mesh \in [Peer -> MeshType]
    BY <1>9 DEF MeshInv, OnJuiceState, PushJuiceEvent
  <2>2. GoodMesh([mesh[p] EXCEPT !.link.state = state])
    BY Zenon, ZenonT(60), <2>1, ReportFacts
  <2>3. mesh' = [mesh EXCEPT ![p] = [mesh[p] EXCEPT !.link.state = state]]
    BY <1>9, <2>1 DEF OnJuiceState
  <2> QED BY Zenon, ZenonT(60), <1>9, <2>2, <2>3, PushJuiceEventMesh DEF OnJuiceState
<1>10. ASSUME NEW p \in Peer, NEW kind \in {"Candidate", "GatheringDone", "Recv"},
              OnJuiceOther(p, kind)
       PROVE  MeshInv'
  <2>1. GoodMesh(mesh[p]) /\ HasLink(mesh[p]) /\ mesh \in [Peer -> MeshType]
    BY <1>10 DEF MeshInv, OnJuiceOther, PushJuiceEvent
  <2>2. GoodMesh([mesh[p] EXCEPT !.link.told = @ \cup {kind}])
    BY Zenon, ZenonT(60), <2>1, ReportFacts
  <2>3. mesh' = [mesh EXCEPT ![p] = [mesh[p] EXCEPT !.link.told = @ \cup {kind}]]
    BY <1>10, <2>1 DEF OnJuiceOther
  <2> QED BY Zenon, ZenonT(60), <1>10, <2>2, <2>3, PushJuiceEventMesh DEF OnJuiceOther
<1> QED
  BY <1>1, <1>2, <1>3, <1>4, <1>5, <1>6, <1>7, <1>8, <1>9, <1>10, Zenon, ZenonT(60) DEF Next

\* The shape of the state, always.
LEMMA MeshInvAlways == Spec => []MeshInv
<1>1. Init => MeshInv
  <2>1. GoodMesh(NewMesh) /\ NewMesh \in MeshType
    BY NoLinkType, FaultAssumption DEF GoodMesh, NewMesh, HasLink, MeshType
  <2> QED BY <2>1, FaultAssumption DEF Init, MeshInv, Peer
<1> QED BY <1>1, MeshInvStep, PTL DEF Spec

-----------------------------------------------------------------------------
(***************************************************************************)
(* What follows from it.                                                   *)
(***************************************************************************)

\* The type invariant, with CreateLink's budget of max_connection_attempts.
THEOREM TypeCorrect == Spec => []TypeOK
<1>1. MeshInv => TypeOK
  BY NoLinkType DEF MeshInv, GoodMesh, TypeOK, HasLink, MeshType, LinkType
<1> QED BY <1>1, MeshInvAlways, PTL

\* HandleLinkState flushes what waits before the link is up, and SendP2P queues
\* only for links that are not: nothing waits for a link that is up.
THEOREM OutboxFlushed == Spec => []NothingWaitsWhenUp
<1>1. MeshInv => NothingWaitsWhenUp
  BY DEF MeshInv, GoodMesh, NothingWaitsWhenUp
<1> QED BY <1>1, MeshInvAlways, PTL

\* HandleP2PDescription gives an agent at most one description.
THEOREM DescriptionSetOnce == Spec => RemoteSetOnce
<1> DEFINE Once == \A p \in Peer :
               HasLink(mesh[p]) /\ mesh'[p].link.gen = mesh[p].link.gen /\ mesh[p].link.remote # 0
               => mesh'[p].link.remote = mesh[p].link.remote
<1>1. ASSUME MeshInv, [Next]_vars PROVE Once
  <2>1. CASE UNCHANGED mesh
    BY <2>1
  <2>2. ASSUME NEW p \in Peer, SendP2P(p) PROVE Once
    <3>1. /\ \A q \in Peer \ {p} : mesh'[q] = mesh[q]
          /\ HasLink(mesh[p]) => mesh'[p].link.remote = mesh[p].link.remote
      BY <1>1, <2>2, SendP2PMesh
    <3> QED BY <3>1
  <2>3. ASSUME NEW p \in Peer, CarveServer(p) PROVE Once
    <3>1. /\ \A q \in Peer \ {p} : mesh'[q] = mesh[q]
          /\ HasLink(mesh[p]) /\ mesh[p].link.remote # 0
             /\ mesh'[p].link.gen = mesh[p].link.gen =>
                mesh'[p].link.remote = mesh[p].link.remote
      BY Zenon, ZenonT(60), <1>1, <2>3, CarveServerMesh
    <3> QED BY <3>1
  <2>4. ASSUME NEW p \in Peer, HandleJuiceEvent(p) PROVE Once
    <3>1. /\ \A q \in Peer \ {p} : mesh'[q] = mesh[q]
          /\ HasLink(mesh[p]) /\ mesh'[p].link.gen = mesh[p].link.gen =>
                mesh'[p].link.remote = mesh[p].link.remote
      BY Zenon, ZenonT(60), <1>1, <2>4, HandleJuiceEventMesh
    <3> QED BY <3>1
  <2>5. ASSUME NEW p \in Peer, NEW state, OnJuiceState(p, state) PROVE Once
    BY <1>1, <2>5, OnJuiceMesh
  <2>6. ASSUME NEW p \in Peer, NEW kind, OnJuiceOther(p, kind) PROVE Once
    BY <1>1, <2>6, OnJuiceMesh
  <2> HIDE DEF Once
  <2> QED BY Zenon, ZenonT(60), <1>1, <2>1, <2>2, <2>3, <2>4, <2>5, <2>6
          DEF Next, vars, PollPeers, Relay, ConnectionLost, Move
<1> QED BY <1>1, MeshInvAlways, PTL DEF Spec, RemoteSetOnce

-----------------------------------------------------------------------------
(***************************************************************************)
(* Datagrams are sent in order.                                            *)
(***************************************************************************)

\* A number above all goes to the end.
LEMMA AppendOrder ==
    ASSUME NEW s \in Seq(Nat), NEW n \in Nat, AtMost(s, n), Increasing(s)
    PROVE  /\ AtMost(Append(s, n + 1), n + 1)
           /\ Increasing(Append(s, n + 1))
           /\ \A t \in Seq(Nat) : Before(t, s) /\ AtMost(t, n) => Before(t, Append(s, n + 1))
<1>1. /\ DOMAIN s = 1..Len(s) /\ Len(s) \in Nat
      /\ DOMAIN Append(s, n + 1) = 1..(Len(s) + 1)
      /\ Append(s, n + 1)[Len(s) + 1] = n + 1
      /\ \A i \in 1..Len(s) : Append(s, n + 1)[i] = s[i]
      /\ \A i \in 1..Len(s) : s[i] \in Nat
  OBVIOUS
<1> DEFINE a == Append(s, n + 1)
<1> HIDE DEF a
<1>2. AtMost(a, n + 1)
  BY <1>1 DEF AtMost, a
<1>3. Increasing(a)
  BY <1>1 DEF AtMost, Increasing, a
<1>4. ASSUME NEW t \in Seq(Nat), Before(t, s), AtMost(t, n) PROVE Before(t, a)
  BY <1>1, <1>4 DEF AtMost, Before, a
<1> QED BY <1>2, <1>3, <1>4 DEF a

\* What was flushed stands behind what was sent.
LEMMA ConcatOrder ==
    ASSUME NEW s \in Seq(Nat), NEW t \in Seq(Nat), NEW n \in Nat,
           AtMost(s, n), AtMost(t, n), Increasing(s), Increasing(t), Before(s, t)
    PROVE  AtMost(s \o t, n) /\ Increasing(s \o t)
<1>1. /\ DOMAIN s = 1..Len(s) /\ Len(s) \in Nat
      /\ DOMAIN t = 1..Len(t) /\ Len(t) \in Nat
      /\ DOMAIN (s \o t) = 1..(Len(s) + Len(t))
      /\ \A i \in 1..Len(s) : (s \o t)[i] = s[i]
      /\ \A i \in (Len(s) + 1)..(Len(s) + Len(t)) :
            (s \o t)[i] = t[i - Len(s)] /\ i - Len(s) \in 1..Len(t)
  OBVIOUS
<1> DEFINE c == s \o t
<1> HIDE DEF c
<1>2. AtMost(c, n)
  BY <1>1 DEF AtMost, c
<1>3. Increasing(c)
  <2> SUFFICES ASSUME NEW i \in 1..(Len(s) + Len(t)), NEW j \in 1..(Len(s) + Len(t)), i < j
               PROVE  c[i] < c[j]
    BY <1>1 DEF Increasing, c
  <2>1. CASE j <= Len(s)
    <3>1. i \in DOMAIN s /\ j \in DOMAIN s /\ c[i] = s[i] /\ c[j] = s[j]
      BY <1>1, <2>1 DEF c
    <3> QED BY <3>1 DEF Increasing
  <2>2. CASE i <= Len(s) /\ j > Len(s)
    <3>1. /\ i \in DOMAIN s /\ j - Len(s) \in DOMAIN t
          /\ c[i] = s[i] /\ c[j] = t[j - Len(s)]
      BY <1>1, <2>2 DEF c
    <3> QED BY <3>1 DEF Before
  <2>3. CASE i > Len(s)
    <3>1. /\ i - Len(s) \in 1..Len(t) /\ j - Len(s) \in 1..Len(t)
          /\ i - Len(s) < j - Len(s)
          /\ c[i] = t[i - Len(s)] /\ c[j] = t[j - Len(s)]
      BY <1>1, <2>3 DEF c
    <3> QED BY Zenon, ZenonT(60), <1>1, <3>1 DEF Increasing
  <2> QED BY <1>1, <2>1, <2>2, <2>3
<1> QED BY <1>2, <1>3 DEF c

\* The three things that happen to a client's datagrams: one is handed to a link
\* with nothing waiting, one is queued, and what is queued is flushed or dropped.
LEMMA OrderedSteps ==
    ASSUME NEW w \in Seq(Nat), NEW o \in Seq(Nat), NEW n \in Nat, Ordered(w, o, n)
    PROVE  /\ Ordered(w, <<>>, n) /\ Ordered(w, o, n + 1) /\ Ordered(w, <<>>, n + 1)
           /\ o = <<>> => Ordered(Append(w, n + 1), o, n + 1)
           /\ Ordered(w, Append(o, n + 1), n + 1)
           /\ Ordered(w \o o, <<>>, n)
<1>1. DOMAIN <<>> = {} /\ (\A i \in DOMAIN w : w[i] \in Nat) /\ (\A i \in DOMAIN o : o[i] \in Nat)
  OBVIOUS
<1>2. AtMost(w, n + 1) /\ AtMost(o, n + 1)
  BY <1>1 DEF Ordered, AtMost
<1>3. \A v, k : AtMost(<<>>, k) /\ Increasing(<<>>) /\ Before(v, <<>>)
  BY <1>1 DEF AtMost, Increasing, Before
<1>4. /\ AtMost(Append(w, n + 1), n + 1) /\ Increasing(Append(w, n + 1))
      /\ AtMost(Append(o, n + 1), n + 1) /\ Increasing(Append(o, n + 1))
      /\ Before(w, Append(o, n + 1))
  BY AppendOrder DEF Ordered
<1>5. AtMost(w \o o, n) /\ Increasing(w \o o)
  BY ConcatOrder DEF Ordered
<1> QED BY <1>2, <1>3, <1>4, <1>5 DEF Ordered

\* Every step keeps the order.
LEMMA OrderInvStep ==
    ASSUME MeshInv, OrderInv, [Next]_vars
    PROVE  OrderInv'
<1>1. \A q \in Peer : /\ wire[q] \in Seq(Nat) /\ sends[q] \in Nat
                      /\ mesh[q].link.outbox \in Seq(Nat)
                      /\ mesh[q].link.connected => mesh[q].link.outbox = <<>>
                      /\ Ordered(wire[q], mesh[q].link.outbox, sends[q])
  BY DEF MeshInv, GoodMesh, MeshType, LinkType, OrderInv
<1>2. CASE UNCHANGED <<mesh, wire, sends>>
  BY <1>2 DEF OrderInv
<1>3. ASSUME NEW p \in Peer, SendP2P(p) PROVE OrderInv'
  <2> DEFINE w == wire[p]
             o == mesh[p].link.outbox
             n == sends[p]
  <2>1. /\ \A q \in Peer \ {p} : mesh'[q] = mesh[q]
        /\ \/ /\ HasLink(mesh[p]) /\ mesh[p].link.connected /\ mesh' = mesh
              /\ wire' = [wire EXCEPT ![p] = Append(w, n + 1)]
           \/ /\ wire' = wire
              /\ mesh'[p].link.outbox \in {<<>>, o, Append(o, n + 1)}
    BY <1>3, SendP2PMesh
  <2>2. sends' = [sends EXCEPT ![p] = n + 1]
    BY <1>3 DEF SendP2P
  <2>3. wire \in [Peer -> Seq(Nat)] /\ sends \in [Peer -> Nat]
    BY DEF MeshInv
  <2>4. \A q \in Peer \ {p} : Ordered(wire'[q], mesh'[q].link.outbox, sends'[q])
    BY Zenon, ZenonT(60), <1>1, <2>1, <2>2, <2>3
  <2>5. /\ Ordered(w, <<>>, n + 1) /\ Ordered(w, o, n + 1) /\ Ordered(w, Append(o, n + 1), n + 1)
        /\ o = <<>> => Ordered(Append(w, n + 1), o, n + 1)
    BY <1>1, OrderedSteps
  <2>6. Ordered(wire'[p], mesh'[p].link.outbox, sends'[p])
    BY Zenon, ZenonT(60), <1>1, <2>1, <2>2, <2>3, <2>5
  <2> QED BY <2>4, <2>6 DEF OrderInv
<1>4. ASSUME NEW p \in Peer, CarveServer(p) PROVE OrderInv'
  <2>1. /\ \A q \in Peer \ {p} : mesh'[q] = mesh[q]
        /\ mesh'[p].link.outbox \in {<<>>, mesh[p].link.outbox}
    BY Zenon, ZenonT(60), <1>4, CarveServerMesh
  <2>2. sends' = sends /\ wire' = wire
    BY Zenon, ZenonT(60), <1>4 DEF CarveServer
  <2>3. Ordered(wire[p], <<>>, sends[p])
    BY <1>1, OrderedSteps
  <2> QED BY Zenon, ZenonT(60), <1>1, <2>1, <2>2, <2>3 DEF OrderInv
<1>5. ASSUME NEW p \in Peer, HandleJuiceEvent(p) PROVE OrderInv'
  <2>1. /\ \A q \in Peer \ {p} : mesh'[q] = mesh[q]
        /\ \/ /\ mesh'[p].link.outbox \in {<<>>, mesh[p].link.outbox}
              /\ wire' = wire
           \/ /\ mesh'[p].link.outbox = <<>>
              /\ wire' = [wire EXCEPT ![p] = @ \o mesh[p].link.outbox]
    BY Zenon, ZenonT(60), <1>5, HandleJuiceEventMesh
  <2>2. sends' = sends /\ wire \in [Peer -> Seq(Nat)]
    BY <1>5 DEF HandleJuiceEvent, MeshInv
  <2>3. /\ Ordered(wire[p], <<>>, sends[p])
        /\ Ordered(wire[p] \o mesh[p].link.outbox, <<>>, sends[p])
    BY <1>1, OrderedSteps
  <2> QED BY Zenon, ZenonT(60), <1>1, <2>1, <2>2, <2>3 DEF OrderInv
<1>6. ASSUME NEW p \in Peer, NEW state, OnJuiceState(p, state) PROVE OrderInv'
  <2>1. \A q \in Peer : mesh'[q].link.outbox = mesh[q].link.outbox
    BY <1>6, OnJuiceMesh
  <2> QED BY <1>6, <2>1 DEF OrderInv, OnJuiceState
<1>7. ASSUME NEW p \in Peer, NEW kind, OnJuiceOther(p, kind) PROVE OrderInv'
  <2>1. \A q \in Peer : mesh'[q].link.outbox = mesh[q].link.outbox
    BY <1>7, OnJuiceMesh
  <2> QED BY <1>7, <2>1 DEF OrderInv, OnJuiceOther
<1> QED BY Zenon, ZenonT(60), <1>2, <1>3, <1>4, <1>5, <1>6, <1>7
        DEF Next, vars, PollPeers, Relay, ConnectionLost, Move

\* Datagrams reach juice_send in the order of the SendP2P calls and none twice,
\* over every loss, rebuild and recovery of the link.
THEOREM DatagramsInOrder == Spec => []SentInOrder
<1>1. Init => OrderInv
  BY NoLinkType DEF Init, OrderInv, Ordered, AtMost, Increasing, Before, NewMesh
<1>2. OrderInv => SentInOrder
  BY DEF OrderInv, Ordered, Increasing, SentInOrder
<1> QED BY <1>1, <1>2, OrderInvStep, MeshInvAlways, PTL DEF Spec

-----------------------------------------------------------------------------
(***************************************************************************)
(* Links are to members.                                                   *)
(***************************************************************************)

\* Only what comes before counts.
LEMMA KnownSame ==
    ASSUME NEW q, NEW r, NEW known, NEW i \in Nat, \A j \in 1..(i - 1) : q[j] = r[j]
    PROVE  /\ KnownAt(q, known, i) => KnownAt(r, known, i)
           /\ EofBefore(q, i) => EofBefore(r, i)
BY DEF KnownAt, EofBefore

\* The server puts a message behind the others: nobody's departure while both are
\* in the room, and an arrival when they come to be.
LEMMA InFlightAppend ==
    ASSUME NEW q \in Seq(Message), NEW known \in BOOLEAN, NEW both, NEW msg \in Message,
           InFlight(q, known, both)
    PROVE  /\ msg.kind \in Departures => InFlight(Append(q, msg), known, FALSE)
           /\ msg.kind = "PeerJoined" => InFlight(Append(q, msg), known, TRUE)
           /\ both /\ msg.kind \notin Departures => InFlight(Append(q, msg), known, TRUE)
<1> DEFINE a == Append(q, msg)
           n == Len(q)
<1>1. /\ n \in Nat /\ Len(a) = n + 1 /\ a[n + 1] = msg
      /\ \A j \in 1..n : a[j] = q[j]
  OBVIOUS
<1> HIDE DEF a, n
<1>2. ASSUME NEW i \in 1..(n + 1)
      PROVE  /\ KnownAt(q, known, i) => KnownAt(a, known, i)
             /\ EofBefore(q, i) => EofBefore(a, i)
  BY <1>1, KnownSame
<1>3. \A i \in 1..n : a[i].kind = "Description" => KnownAt(a, known, i) \/ EofBefore(a, i)
  BY <1>1, <1>2 DEF InFlight, n
<1>4. EofBefore(a, n + 1) => EofBefore(a, n + 2)
  BY <1>1 DEF EofBefore
<1>5. msg.kind = "PeerJoined" => KnownAt(a, known, n + 2)
  <2> SUFFICES ASSUME msg.kind = "PeerJoined" PROVE KnownAt(a, known, n + 2)
    OBVIOUS
  <2>1. n + 1 \in 1..((n + 2) - 1) /\ ((n + 1) + 1)..((n + 2) - 1) = {}
    BY <1>1
  <2> QED BY <1>1, <2>1 DEF KnownAt
<1>6. msg.kind \notin Departures /\ KnownAt(a, known, n + 1) => KnownAt(a, known, n + 2)
  <2> SUFFICES ASSUME msg.kind \notin Departures, KnownAt(a, known, n + 1)
               PROVE  KnownAt(a, known, n + 2)
    OBVIOUS
  <2>1. (n + 1) - 1 = n /\ (n + 2) - 1 = n + 1
    BY <1>1
  <2>2. CASE known /\ \A j \in 1..n : a[j].kind \notin Departures
    BY <1>1, <2>1, <2>2 DEF KnownAt
  <2>3. CASE \E j \in 1..n : /\ a[j].kind = "PeerJoined"
                             /\ \A k \in (j + 1)..n : a[k].kind \notin Departures
    BY <1>1, <2>1, <2>3 DEF KnownAt
  <2> QED BY <2>1, <2>2, <2>3 DEF KnownAt
<1>7. both => KnownAt(a, known, n + 1) \/ EofBefore(a, n + 1)
  BY <1>1, <1>2 DEF InFlight, n
<1>8. Len(a) + 1 = n + 2 /\ 1..Len(a) = 1..n \cup {n + 1}
  BY <1>1
<1>9. CASE msg.kind \in Departures
  BY <1>1, <1>3, <1>8, <1>9 DEF InFlight, Departures, a
<1>10. CASE msg.kind = "PeerJoined"
  BY <1>1, <1>3, <1>5, <1>8, <1>10 DEF InFlight, Departures, a
<1>11. CASE both /\ msg.kind \notin Departures
  BY <1>1, <1>3, <1>4, <1>6, <1>7, <1>8, <1>11 DEF InFlight, a
<1> QED BY Zenon, ZenonT(60), <1>9, <1>10, <1>11 DEF Departures

\* Carving the first message.
LEMMA InFlightTail ==
    ASSUME NEW q \in Seq(Message), q # <<>>, NEW known \in BOOLEAN, NEW both,
           InFlight(q, known, both), q[1].kind # "Eof", NEW new \in BOOLEAN,
           \/ q[1].kind = "PeerJoined" /\ new
           \/ q[1].kind \in Departures /\ ~new
           \/ q[1].kind \notin Departures \cup {"PeerJoined"} /\ new = known
    PROVE  InFlight(Tail(q), new, both)
<1> DEFINE t == Tail(q)
           n == Len(q)
<1>1. /\ n \in Nat \ {0} /\ Len(t) = n - 1
      /\ \A j \in 1..(n - 1) : t[j] = q[j + 1]
  BY HeadMessage
<1> HIDE DEF t, n
<1>2. ASSUME NEW i \in 1..n, KnownAt(q, known, i + 1)
      PROVE  KnownAt(t, new, i)
  <2>1. (i + 1) - 1 = i /\ 1 \in 1..i
    OBVIOUS
  <2>2. CASE known /\ \A j \in 1..i : q[j].kind \notin Departures
    <3>1. q[1].kind \notin Departures
      BY <2>1, <2>2
    <3>2. new
      BY Zenon, ZenonT(60), <2>2, <3>1
    <3>3. \A k \in 1..(i - 1) : t[k].kind \notin Departures
      BY <1>1, <2>2
    <3> QED BY <3>2, <3>3 DEF KnownAt
  <2>3. CASE \E j \in 1..i : /\ q[j].kind = "PeerJoined"
                             /\ \A k \in (j + 1)..i : q[k].kind \notin Departures
    <3>1. PICK j \in 1..i : /\ q[j].kind = "PeerJoined"
                            /\ \A k \in (j + 1)..i : q[k].kind \notin Departures
      BY <2>3
    <3>2. CASE j = 1
      <4>1. new
        BY <3>1, <3>2 DEF Departures
      <4>2. \A k \in 1..(i - 1) : t[k].kind \notin Departures
        BY <1>1, <3>1, <3>2
      <4> QED BY <4>1, <4>2 DEF KnownAt
    <3>3. CASE j # 1
      <4>1. j - 1 \in 1..(i - 1) /\ t[j - 1].kind = "PeerJoined"
        BY <1>1, <3>1, <3>3
      <4>2. \A k \in ((j - 1) + 1)..(i - 1) : t[k].kind \notin Departures
        BY <1>1, <3>1, <3>3
      <4> QED BY <4>1, <4>2 DEF KnownAt
    <3> QED BY <3>2, <3>3
  <2> QED BY <1>2, <2>1, <2>2, <2>3 DEF KnownAt
<1>3. ASSUME NEW i \in 1..n, EofBefore(q, i + 1)
      PROVE  EofBefore(t, i)
  <2>1. PICK j \in 1..i : q[j].kind = "Eof"
    BY <1>3 DEF EofBefore
  <2>2. j - 1 \in 1..(i - 1) /\ t[j - 1] = q[j]
    BY <1>1, <2>1
  <2> QED BY <2>1, <2>2 DEF EofBefore
<1>4. ASSUME NEW i \in 1..Len(t), t[i].kind = "Description"
      PROVE  KnownAt(t, new, i) \/ EofBefore(t, i)
  <2>1. i + 1 \in 1..n /\ i \in 1..n /\ q[i + 1].kind = "Description"
    BY <1>1, <1>4
  <2> QED BY <1>2, <1>3, <2>1 DEF InFlight, n
<1>5. both => KnownAt(t, new, Len(t) + 1) \/ EofBefore(t, Len(t) + 1)
  BY <1>1, <1>2, <1>3 DEF InFlight, n
<1> QED BY <1>4, <1>5 DEF InFlight, t

\* Losing the connection cuts off the rest.
LEMMA InFlightCut ==
    ASSUME NEW q \in Seq(Message), NEW known \in BOOLEAN, NEW both,
           InFlight(q, known, both), NEW n \in 0..Len(q)
    PROVE  InFlight(SubSeq(q, 1, n) \o <<[kind |-> "Eof"]>>, known, both)
<1> DEFINE c == SubSeq(q, 1, n) \o <<[kind |-> "Eof"]>>
<1>1. /\ Len(c) = n + 1 /\ c[n + 1] = [kind |-> "Eof"]
      /\ \A j \in 1..n : c[j] = q[j]
      /\ Len(q) \in Nat
  OBVIOUS
<1> HIDE DEF c
<1>2. c[n + 1].kind = "Eof"
  BY <1>1
<1>3. EofBefore(c, Len(c) + 1)
  BY <1>1, <1>2 DEF EofBefore
<1>4. ASSUME NEW i \in 1..Len(c), c[i].kind = "Description"
      PROVE  KnownAt(c, known, i) \/ EofBefore(c, i)
  <2>1. i \in 1..n /\ i \in 1..Len(q) /\ q[i].kind = "Description"
    BY <1>1, <1>2, <1>4
  <2>2. /\ KnownAt(q, known, i) => KnownAt(c, known, i)
        /\ EofBefore(q, i) => EofBefore(c, i)
    <3>1. i \in Nat /\ \A j \in 1..(i - 1) : q[j] = c[j]
      BY <1>1, <2>1
    <3> QED BY <3>1, KnownSame
  <2> QED BY <2>1, <2>2 DEF InFlight
<1> QED BY <1>3, <1>4 DEF InFlight, c

\* What the server appends to the queues, and to which.
LEMMA ServerHandleInFlight ==
    ASSUME MeshInv, NEW p \in Peer, NEW msg \in Message, ServerHandle(p, msg),
           NEW r \in Peer, NEW known \in BOOLEAN, InFlight(down[r], known, in_room = Peer)
    PROVE  InFlight(down'[r], known, in_room' = Peer)
<1>1. /\ down \in [Peer -> Seq(Message)] /\ in_room \subseteq Peer
      /\ Other(p) \in Peer /\ Other(p) # p /\ Peer = {p, Other(p)}
  BY DEF MeshInv, Peer, Other
<1> DEFINE left == [kind |-> "PeerLeft"]
           own == [kind |-> "OwnPeerLeft"]
           joined == [kind |-> "PeerJoined"]
           q == down[r]
<1>2. /\ left \in Message /\ own \in Message /\ joined \in Message /\ q \in Seq(Message)
      /\ left.kind \in Departures /\ own.kind \in Departures /\ joined.kind = "PeerJoined"
  BY <1>1, PlainMessage DEF Departures
<1> HIDE DEF left, own, joined
<1>3. /\ InFlight(q, known, FALSE)
      /\ InFlight(Append(q, left), known, FALSE)
      /\ InFlight(Append(q, own), known, FALSE)
      /\ InFlight(Append(q, joined), known, TRUE)
      /\ in_room = Peer /\ msg.kind \notin Departures => InFlight(Append(q, msg), known, TRUE)
  <2>1. InFlight(q, known, FALSE)
    BY DEF InFlight
  <2> QED BY Zenon, ZenonT(60), <1>2, <2>1, InFlightAppend
<1>4. in_room' = in_room \ {p} => (in_room' = Peer) = FALSE
  BY Zenon, ZenonT(60), <1>1
<1>5. CASE /\ in_room' = in_room \ {p}
           /\ down' = [s \in Peer |->
                         IF s = p THEN Append(down[s], own)
                         ELSE IF Other(p) \in in_room THEN Append(down[s], left)
                         ELSE down[s]]
  <2>1. down'[r] \in {q, Append(q, own), Append(q, left)}
    BY <1>5
  <2> QED BY Zenon, ZenonT(60), <1>3, <1>4, <1>5, <2>1
<1>6. CASE /\ p \notin in_room /\ Other(p) \in in_room
           /\ in_room' = in_room \cup {p}
           /\ down' = [s \in Peer |-> Append(down[s], joined)]
  <2>1. (in_room' = Peer) = TRUE /\ down'[r] = Append(q, joined)
    BY <1>1, <1>6
  <2> QED BY Zenon, ZenonT(60), <1>3, <2>1
<1>7. CASE /\ msg.kind \in {"Description", "Candidate", "GatheringDone"} /\ in_room = Peer
           /\ down' = [down EXCEPT ![Other(p)] = Append(@, msg)]
           /\ in_room' = in_room
  <2>1. msg.kind \notin Departures /\ (in_room' = Peer) = TRUE /\ (in_room = Peer) = TRUE
    BY <1>7 DEF Departures
  <2>2. down'[r] \in {q, Append(q, msg)}
    BY <1>1, <1>7
  <2> QED BY Zenon, ZenonT(60), <1>3, <2>1, <2>2
<1>8. CASE Gone(p)
  <2>1. in_room' = in_room \ {p} /\ down'[r] \in {q, Append(q, left)}
    BY <1>1, <1>8 DEF Gone, left
  <2> QED BY Zenon, ZenonT(60), <1>3, <1>4, <2>1
<1>9. CASE UNCHANGED <<down, in_room>>
  BY <1>9
<1> QED BY <1>5, <1>6, <1>7, <1>8, <1>9, Zenon, ZenonT(60) DEF ServerHandle, left, own, joined

\* Every step keeps links to members.
LEMMA MemberInvStep ==
    ASSUME MeshInv, MemberInv, [Next]_vars
    PROVE  MemberInv'
<1>1. \A q \in Peer : /\ GoodMesh(mesh[q]) /\ mesh[q].known \in BOOLEAN
                      /\ down[q] \in Seq(Message)
                      /\ HasLink(mesh[q]) => mesh[q].known
                      /\ mesh[q].is_open => InFlight(down[q], mesh[q].known, in_room = Peer)
  BY DEF MeshInv, MemberInv, MeshType
<1>2. CASE UNCHANGED <<mesh, down, in_room>>
  BY <1>2 DEF MemberInv
<1>3. ASSUME NEW p \in Peer, SendP2P(p) PROVE MemberInv'
  <2>1. /\ \A q \in Peer \ {p} : mesh'[q] = mesh[q]
        /\ mesh'[p].known = mesh[p].known /\ mesh'[p].is_open = mesh[p].is_open
    BY <1>3, SendP2PMesh
  <2>2. mesh[p].known /\ UNCHANGED <<down, in_room>>
    BY <1>3 DEF SendP2P
  <2> QED BY ZenonT(60), ZenonT(90), <1>1, <2>1, <2>2 DEF MemberInv
<1>4. ASSUME NEW p \in Peer, CarveServer(p) PROVE MemberInv'
  <2> DEFINE msg == Head(down[p])
             m == mesh[p]
             n == mesh'[p]
  <2>1. /\ mesh' \in [Peer -> MeshType]
        /\ \A q \in Peer \ {p} : mesh'[q] = mesh[q]
        /\ \/ /\ msg.kind = "Description"
              /\ n.known = m.known /\ n.is_open = m.is_open
           \/ /\ msg.kind \in {"Candidate", "GatheringDone"}
              /\ n = m
           \/ /\ msg.kind = "PeerJoined"
              /\ n.known = TRUE /\ n.link = m.link /\ n.is_open = m.is_open
           \/ /\ msg.kind \in Departures
              /\ n.known = FALSE /\ n.link = NoLink /\ n.is_open = m.is_open
           \/ /\ msg.kind = "Eof"
              /\ n.link = NoLink /\ ~n.is_open /\ ~n.known
    BY Zenon, ZenonT(60), <1>4, CarveServerMesh
  <2>2. /\ m.is_open /\ down[p] # <<>> /\ in_room' = in_room
        /\ down' = [down EXCEPT ![p] = Tail(@)]
    BY <1>4 DEF CarveServer
  <2>3. \A q \in Peer \ {p} : down'[q] = down[q]
    BY <2>2 DEF MeshInv
  <2>4. down'[p] = Tail(down[p]) /\ msg = down[p][1] /\ 1 \in 1..Len(down[p])
    BY <1>1, <2>2, HeadMessage DEF MeshInv
  <2>5. InFlight(down[p], m.known, in_room = Peer) /\ n.known \in BOOLEAN
    BY <1>1, <2>1, <2>2 DEF MeshType
  <2>6. msg.kind = "Description" => m.known
    <3>1. 1 - 1 = 0 /\ 1..0 = {}
      OBVIOUS
    <3> QED BY <2>4, <2>5, <3>1 DEF InFlight, KnownAt, EofBefore
  <2>7. HasLink(n) => n.known
    BY <1>1, <2>1, <2>6, NoLinkType DEF HasLink
  <2>8. n.is_open => InFlight(down'[p], n.known, in_room = Peer)
    <3>1. CASE msg.kind = "Eof"
      BY Zenon, ZenonT(60), <2>1, <3>1 DEF Departures
    <3>2. CASE msg.kind # "Eof"
      <4>1. \/ msg.kind = "PeerJoined" /\ n.known
            \/ msg.kind \in Departures /\ ~n.known
            \/ msg.kind \notin Departures \cup {"PeerJoined"} /\ n.known = m.known
        BY <2>1, <3>2 DEF Departures
      <4> DEFINE q == down[p]
                 known == m.known
                 new == n.known
                 both == in_room = Peer
      <4>2. /\ q \in Seq(Message) /\ q # <<>> /\ known \in BOOLEAN /\ new \in BOOLEAN
            /\ q[1].kind # "Eof" /\ down'[p] = Tail(q)
        BY <1>1, <2>2, <2>4, <2>5, <3>2 DEF MeshInv, MeshType
      <4>3. InFlight(q, known, both)
        BY <2>5
      <4>4. \/ q[1].kind = "PeerJoined" /\ new
            \/ q[1].kind \in Departures /\ ~new
            \/ q[1].kind \notin Departures \cup {"PeerJoined"} /\ new = known
        BY <2>4, <4>1
      <4> HIDE DEF q, known, new, both
      <4>5. InFlight(Tail(q), new, both)
        BY ONLY SMTT(20), Z3T(60), <4>2, <4>3, <4>4, InFlightTail
      <4> QED BY <4>2, <4>5 DEF new, both
    <3> QED BY <3>1, <3>2
  <2> QED BY Zenon, ZenonT(60), <1>1, <2>1, <2>2, <2>3, <2>7, <2>8 DEF MemberInv
<1>5. ASSUME NEW p \in Peer, HandleJuiceEvent(p) PROVE MemberInv'
  <2>1. /\ \A q \in Peer \ {p} : mesh'[q] = mesh[q]
        /\ mesh'[p].known = mesh[p].known /\ mesh'[p].is_open = mesh[p].is_open
        /\ mesh'[p].link.gen \in {0, mesh[p].link.gen}
    BY Zenon, ZenonT(60), <1>5, HandleJuiceEventMesh
  <2>2. UNCHANGED <<down, in_room>>
    BY <1>5 DEF HandleJuiceEvent
  <2> QED BY <1>1, <2>1, <2>2 DEF MemberInv, HasLink
<1>6. ASSUME NEW p \in Peer, Relay(p) PROVE MemberInv'
  <2>1. Head(up[p]) \in Message /\ ServerHandle(p, Head(up[p])) /\ mesh' = mesh
    BY <1>6, HeadMessage DEF Relay, MeshInv
  <2>2. ASSUME NEW q \in Peer, mesh[q].is_open
        PROVE  InFlight(down'[q], mesh[q].known, in_room' = Peer)
    BY <1>1, <2>1, <2>2, ServerHandleInFlight
  <2> QED BY <1>1, <2>1, <2>2 DEF MemberInv
<1>7. ASSUME NEW p \in Peer, ConnectionLost(p) PROVE MemberInv'
  <2>1. PICK j \in 0..Len(down[p]) :
           down' = [down EXCEPT ![p] = SubSeq(down[p], 1, j) \o <<[kind |-> "Eof"]>>]
    BY Zenon, ZenonT(60), <1>7 DEF ConnectionLost
  <2>2. UNCHANGED <<mesh, in_room>>
    BY <1>7 DEF ConnectionLost
  <2>3. mesh[p].is_open => InFlight(SubSeq(down[p], 1, j) \o <<[kind |-> "Eof"]>>,
                                    mesh[p].known, in_room = Peer)
    BY <1>1, InFlightCut
  <2> QED BY <1>1, <2>1, <2>2, <2>3 DEF MemberInv, MeshInv
<1>8. ASSUME NEW p \in Peer, NEW state, OnJuiceState(p, state) PROVE MemberInv'
  <2>1. \A q \in Peer : /\ mesh'[q].link.gen = mesh[q].link.gen
                        /\ mesh'[q].known = mesh[q].known
                        /\ mesh'[q].is_open = mesh[q].is_open
    BY <1>8, OnJuiceMesh
  <2> QED BY <1>1, <1>8, <2>1 DEF MemberInv, HasLink, OnJuiceState
<1>9. ASSUME NEW p \in Peer, NEW kind, OnJuiceOther(p, kind) PROVE MemberInv'
  <2>1. \A q \in Peer : /\ mesh'[q].link.gen = mesh[q].link.gen
                        /\ mesh'[q].known = mesh[q].known
                        /\ mesh'[q].is_open = mesh[q].is_open
    BY <1>9, OnJuiceMesh
  <2> QED BY <1>1, <1>9, <2>1 DEF MemberInv, HasLink, OnJuiceOther
<1> QED BY Zenon, ZenonT(60), <1>2, <1>3, <1>4, <1>5, <1>6, <1>7, <1>8, <1>9 DEF Next, vars, PollPeers, Move

\* "no member, no mesh link": the server relays a signal only between members, and
\* sends it before it tells of a departure; so no late description builds a link
\* to someone who has left.
THEOREM NoLinkToStrangers == Spec => []LinkOnlyToMember
<1>1. Init => MemberInv
  <2>1. 1 - 1 = 0 /\ 1..0 = {} /\ Len(<<>>) = 0
    OBVIOUS
  <2> QED BY <2>1, NoLinkType DEF Init, MemberInv, InFlight, KnownAt, NewMesh, HasLink
<1>2. MemberInv => LinkOnlyToMember
  BY DEF MemberInv, LinkOnlyToMember
<1> QED BY <1>1, <1>2, MemberInvStep, MeshInvAlways, PTL DEF Spec

-----------------------------------------------------------------------------
(***************************************************************************)
(* What ends a link is on its way.                                         *)
(***************************************************************************)

\* A message behind the others.
LEMMA EndsAppend ==
    ASSUME NEW q \in Seq(Message), NEW msg \in Message, NEW known
    PROVE  /\ EofIn(q) => EofIn(Append(q, msg))
           /\ msg.kind \in Departures => Ends(Append(q, msg), known)
<1> DEFINE a == Append(q, msg)
           n == Len(q)
<1>1. /\ n \in Nat /\ Len(a) = n + 1 /\ a[n + 1] = msg
      /\ \A j \in 1..n : a[j] = q[j]
  OBVIOUS
<1>2. EofIn(q) => EofIn(a)
  BY <1>1 DEF EofIn
<1> HIDE DEF a, n
<1>3. ASSUME msg.kind \in Departures PROVE Ends(a, known)
  <2>1. n + 1 \in 1..Len(a) /\ a[n + 1].kind \in Departures
    BY <1>1, <1>3
  <2>2. ASSUME NEW i \in 1..Len(a), a[i].kind = "PeerJoined"
        PROVE  n + 1 \in (i + 1)..Len(a)
    BY <1>1, <1>3, <2>2 DEF Departures
  <2> QED BY <2>1, <2>2 DEF Ends
<1> QED BY <1>2, <1>3 DEF a

\* Carving the first message.
LEMMA EndsTail ==
    ASSUME NEW q \in Seq(Message), q # <<>>, q[1].kind # "Eof"
    PROVE  /\ EofIn(q) => EofIn(Tail(q))
           /\ \A known, new \in BOOLEAN :
                 /\ Ends(q, known)
                 /\ \/ q[1].kind = "PeerJoined" /\ new
                    \/ q[1].kind \in Departures /\ ~new
                    \/ q[1].kind \notin Departures \cup {"PeerJoined"} /\ new = known
                 => Ends(Tail(q), new)
<1> DEFINE t == Tail(q)
           n == Len(q)
<1>1. /\ n \in Nat \ {0} /\ Len(t) = n - 1
      /\ \A j \in 1..(n - 1) : t[j] = q[j + 1]
  BY HeadMessage
<1> HIDE DEF t, n
<1>2. ASSUME NEW j \in 2..n PROVE j - 1 \in 1..Len(t) /\ t[j - 1] = q[j]
  BY <1>1
<1>3. EofIn(q) => EofIn(t)
  <2> SUFFICES ASSUME EofIn(q) PROVE EofIn(t)
    OBVIOUS
  <2>1. PICK j \in 1..n : q[j].kind = "Eof"
    BY DEF EofIn, n
  <2>2. j \in 2..n
    BY <1>1, <2>1
  <2> QED BY <1>2, <2>1, <2>2 DEF EofIn
<1>4. ASSUME NEW known \in BOOLEAN, NEW new \in BOOLEAN, Ends(q, known), ~EofIn(q),
             \/ q[1].kind = "PeerJoined" /\ new
             \/ q[1].kind \in Departures /\ ~new
             \/ q[1].kind \notin Departures \cup {"PeerJoined"} /\ new = known
      PROVE  Ends(t, new)
  <2>1. /\ known => \E i \in 1..n : q[i].kind \in Departures
        /\ \A i \in 1..n : q[i].kind = "PeerJoined" =>
              \E j \in (i + 1)..n : q[j].kind \in Departures
    BY <1>4 DEF Ends, n
  <2>2. ASSUME NEW j \in 2..n, q[j].kind \in Departures
        PROVE  \E i \in 1..Len(t) : t[i].kind \in Departures
    BY <1>2, <2>2
  <2>3. new => \E i \in 1..Len(t) : t[i].kind \in Departures
    <3>1. CASE q[1].kind = "PeerJoined"
      <4>1. PICK j \in (1 + 1)..n : q[j].kind \in Departures
        BY <1>1, <2>1, <3>1
      <4>2. j \in 2..n
        OBVIOUS
      <4> QED BY <2>2, <4>1, <4>2
    <3>2. CASE q[1].kind \notin Departures \cup {"PeerJoined"} /\ new = known
      <4> SUFFICES ASSUME new PROVE \E i \in 1..Len(t) : t[i].kind \in Departures
        OBVIOUS
      <4>1. PICK j \in 1..n : q[j].kind \in Departures
        BY Zenon, ZenonT(60), <2>1, <3>2
      <4>2. j # 1
        BY <3>2, <4>1
      <4>3. j \in 2..n
        BY <1>1, <4>1, <4>2
      <4> QED BY <2>2, <4>1, <4>3
    <3> QED BY Zenon, ZenonT(60), <1>4, <3>1, <3>2
  <2>4. ASSUME NEW i \in 1..Len(t), t[i].kind = "PeerJoined"
        PROVE  \E j \in (i + 1)..Len(t) : t[j].kind \in Departures
    <3>1. i + 1 \in 1..n /\ q[i + 1].kind = "PeerJoined"
      BY <1>1, <2>4
    <3>2. PICK j \in ((i + 1) + 1)..n : q[j].kind \in Departures
      BY <2>1, <3>1
    <3>3. j - 1 \in (i + 1)..Len(t) /\ t[j - 1] = q[j]
      BY <1>1, <3>1, <3>2
    <3> QED BY <3>2, <3>3
  <2> QED BY <2>3, <2>4 DEF Ends
<1>5. EofIn(t) => \A new : Ends(t, new)
  BY DEF Ends
<1> QED BY Zenon, ZenonT(60), <1>3, <1>4, <1>5 DEF t

\* What a client sends to the server is no end of the stream.
LEMMA SendServerEof ==
    ASSUME MeshInv, NEW p \in Peer, NEW msg, msg.kind # "Eof",
           SendServer(p, <<msg>>) \/ SendServer(p, <<>>) \/ UNCHANGED up,
           NEW q \in Peer, EofIn(up'[q])
    PROVE  EofIn(up[q])
<1> DEFINE s == up[q]
           S == Message \cup {msg}
<1>1. up \in [Peer -> Seq(Message)] /\ s \in Seq(S) /\ s \o <<>> = s
  BY DEF MeshInv
<1>2. up'[q] \in {s, s \o <<>>, s \o <<msg>>}
  BY <1>1 DEF SendServer
<1>3. EofIn(s \o <<msg>>) => EofIn(s)
  <2> DEFINE a == s \o <<msg>>
             n == Len(s)
  <2>1. n \in Nat /\ Len(a) = n + 1 /\ a[n + 1] = msg /\ \A i \in 1..n : a[i] = s[i]
    BY <1>1
  <2> HIDE DEF a, n
  <2>2. ASSUME NEW i \in 1..Len(a), a[i].kind = "Eof" PROVE i \in 1..n /\ s[i].kind = "Eof"
    BY <2>1, <2>2
  <2> QED BY <2>2 DEF EofIn, a, n
<1> QED BY Zenon, ZenonT(60), <1>1, <1>2, <1>3

LEMMA EofSent ==
    ASSUME MeshInv, NEW p \in Peer,
           \/ SendP2P(p) \/ CarveServer(p) \/ HandleJuiceEvent(p)
           \/ \E kind \in {"Leave", "Join"} : Move(p, kind),
           NEW q \in Peer, EofIn(up'[q])
    PROVE  EofIn(up[q])
<1> DEFINE Sent(msg) == SendServer(p, <<msg>>) \/ SendServer(p, <<>>) \/ UNCHANGED up
           Plain == \E msg : msg.kind # "Eof" /\ Sent(msg)
<1> SUFFICES Plain
  BY Zenon, ZenonT(60), SendServerEof
<1>1. \A m, a : Description(m, a).kind # "Eof"
  BY DEF Description
<1>2. ASSUME UNCHANGED up PROVE Plain
  BY Zenon, ZenonT(60), <1>1, <1>2
<1>3. ASSUME NEW m, NEW a, NEW b, SendServer(p, IF b THEN <<Description(m, a)>> ELSE <<>>)
      PROVE  Plain
  BY Zenon, ZenonT(60), <1>1, <1>3
<1>4. CASE SendP2P(p)
  <2>1. CASE ~HasLink(mesh[p]) /\ ~UNCHANGED up
    <3>1. PICK new \in CreateLink(mesh[p]), out \in ShareLink :
             SendServer(p, IF out.sent THEN <<Description(new, FALSE)>> ELSE <<>>)
      BY Zenon, ZenonT(60), <1>4, <2>1 DEF SendP2P
    <3> QED BY Zenon, ZenonT(60), <1>3, <3>1
  <2>2. CASE HasLink(mesh[p])
    BY Zenon, ZenonT(60), <1>2, <1>4, <2>2 DEF SendP2P
  <2> QED BY Zenon, ZenonT(60), <1>2, <2>1, <2>2
<1>5. ASSUME NEW m, NEW sig, AnswerDial(p, m, sig) PROVE Plain
  BY Zenon, ZenonT(60), <1>2, <1>3, <1>5 DEF AnswerDial
<1>6. CASE CarveServer(p)
  <2>1. UNCHANGED up \/ \E m, sig : AnswerDial(p, m, sig)
    BY Zenon, ZenonT(60), <1>6 DEF CarveServer, HandleP2PSignal, HandleP2PDescription
  <2> QED BY ZenonT(60), ZenonT(90), <1>2, <1>5, <2>1
<1>7. CASE HandleJuiceEvent(p)
  <2> DEFINE ev == Head(scratch[p])
             msg == [kind |-> ev.kind, gen |-> ev.gen]
  <2>1. \/ UNCHANGED up
        \/ ev.kind \in {"Candidate", "GatheringDone"} /\ SendServer(p, <<msg>>)
    BY Zenon, ZenonT(60), <1>7 DEF HandleJuiceEvent, HandleLinkState
  <2>2. ev.kind \in {"Candidate", "GatheringDone"} => msg.kind # "Eof"
    OBVIOUS
  <2> HIDE DEF msg
  <2> QED BY Zenon, ZenonT(60), <1>2, <2>1, <2>2
<1>8. ASSUME NEW kind \in {"Leave", "Join"}, Move(p, kind) PROVE Plain
  <2> DEFINE msg == [kind |-> kind]
  <2>1. msg.kind # "Eof"
    OBVIOUS
  <2>2. SendServer(p, <<msg>>)
    BY <1>8 DEF Move
  <2> HIDE DEF msg
  <2> QED BY Zenon, ZenonT(60), <2>1, <2>2
<1> QED BY Zenon, ZenonT(60), <1>4, <1>6, <1>7, <1>8

\* The server tells both of a departure; the one whose session has ended knows.
LEMMA ServerHandleEnds ==
    ASSUME MeshInv, NEW p \in Peer, NEW msg \in Message, ServerHandle(p, msg),
           NEW r \in Peer, NEW known \in BOOLEAN,
           r = p /\ msg.kind = "Eof" => EofIn(down[r]),
           in_room # Peer => Ends(down[r], known)
    PROVE  /\ EofIn(down[r]) => EofIn(down'[r])
           /\ in_room' # Peer => Ends(down'[r], known)
<1>1. /\ down \in [Peer -> Seq(Message)] /\ in_room \subseteq Peer
      /\ Other(p) \in Peer /\ Other(p) # p /\ Peer = {p, Other(p)}
  BY DEF MeshInv, Peer, Other
<1> DEFINE left == [kind |-> "PeerLeft"]
           own == [kind |-> "OwnPeerLeft"]
           joined == [kind |-> "PeerJoined"]
           q == down[r]
<1>2. /\ left \in Message /\ own \in Message /\ joined \in Message /\ q \in Seq(Message)
      /\ left.kind \in Departures /\ own.kind \in Departures
  BY <1>1, PlainMessage DEF Departures
<1> HIDE DEF left, own, joined
<1>3. /\ Ends(Append(q, left), known) /\ Ends(Append(q, own), known)
      /\ EofIn(q) => /\ Ends(q, known) /\ EofIn(Append(q, left)) /\ EofIn(Append(q, own))
                     /\ EofIn(Append(q, joined)) /\ EofIn(Append(q, msg))
  BY Zenon, ZenonT(60), <1>2, EndsAppend DEF Ends
<1>4. CASE /\ in_room' = in_room \ {p}
           /\ down' = [s \in Peer |->
                         IF s = p THEN Append(down[s], own)
                         ELSE IF Other(p) \in in_room THEN Append(down[s], left)
                         ELSE down[s]]
  <2>1. \/ down'[r] \in {Append(q, own), Append(q, left)}
        \/ down'[r] = q /\ in_room # Peer
    BY <1>1, <1>4
  <2> QED BY Zenon, ZenonT(60), <1>3, <2>1
<1>5. CASE /\ p \notin in_room /\ Other(p) \in in_room
           /\ in_room' = in_room \cup {p}
           /\ down' = [s \in Peer |-> Append(down[s], joined)]
  <2>1. in_room' = Peer /\ down'[r] = Append(q, joined)
    BY <1>1, <1>5
  <2> QED BY Zenon, ZenonT(60), <1>3, <2>1
<1>6. CASE /\ in_room = Peer
           /\ down' = [down EXCEPT ![Other(p)] = Append(@, msg)]
           /\ in_room' = in_room
  <2>1. in_room' = Peer /\ down'[r] \in {q, Append(q, msg)}
    BY <1>1, <1>6
  <2> QED BY Zenon, ZenonT(60), <1>3, <2>1
<1>7. CASE msg.kind = "Eof" /\ Gone(p)
  <2>1. \/ down'[r] = Append(q, left)
        \/ down'[r] = q /\ (r = p \/ in_room # Peer)
    BY <1>1, <1>7 DEF Gone, left
  <2> QED BY Zenon, ZenonT(60), <1>3, <1>7, <2>1
<1>8. CASE UNCHANGED <<down, in_room>>
  BY <1>8
<1> QED BY <1>4, <1>5, <1>6, <1>7, <1>8, Zenon, ZenonT(60) DEF ServerHandle, left, own, joined

\* Every step keeps the end of a link on its way.
LEMMA EndInvStep ==
    ASSUME MeshInv, EndInv, [Next]_vars
    PROVE  EndInv'
<1>1. \A q \in Peer : /\ mesh[q].known \in BOOLEAN
                      /\ down[q] \in Seq(Message) /\ up[q] \in Seq(Message)
                      /\ mesh[q].known => mesh[q].is_open
                      /\ mesh[q].is_open /\ EofIn(up[q]) => EofIn(down[q])
                      /\ mesh[q].is_open /\ in_room # Peer => Ends(down[q], mesh[q].known)
  BY DEF MeshInv, EndInv, MeshType
<1>2. ASSUME down' = down, in_room' = in_room,
             \A q \in Peer : /\ mesh'[q].known = mesh[q].known
                             /\ mesh'[q].is_open = mesh[q].is_open
                             /\ EofIn(up'[q]) => EofIn(up[q])
      PROVE  EndInv'
  BY Zenon, ZenonT(60), <1>1, <1>2 DEF EndInv
<1>3. CASE UNCHANGED <<mesh, up, down, in_room>>
  BY <1>3 DEF EndInv
<1>4. ASSUME NEW p \in Peer, SendP2P(p) PROVE EndInv'
  <2>1. /\ \A q \in Peer \ {p} : mesh'[q] = mesh[q]
        /\ mesh'[p].known = mesh[p].known /\ mesh'[p].is_open = mesh[p].is_open
    BY <1>4, SendP2PMesh
  <2>2. down' = down /\ in_room' = in_room
    BY <1>4 DEF SendP2P
  <2>3. \A q \in Peer : EofIn(up'[q]) => EofIn(up[q])
    BY Zenon, ZenonT(60), <1>4, EofSent
  <2> QED BY Zenon, ZenonT(60), <1>2, <2>1, <2>2, <2>3
<1>5. ASSUME NEW p \in Peer, HandleJuiceEvent(p) PROVE EndInv'
  <2>1. /\ \A q \in Peer \ {p} : mesh'[q] = mesh[q]
        /\ mesh'[p].known = mesh[p].known /\ mesh'[p].is_open = mesh[p].is_open
    BY Zenon, ZenonT(60), <1>5, HandleJuiceEventMesh
  <2>2. down' = down /\ in_room' = in_room
    BY <1>5 DEF HandleJuiceEvent
  <2>3. \A q \in Peer : EofIn(up'[q]) => EofIn(up[q])
    BY Zenon, ZenonT(60), <1>5, EofSent
  <2> QED BY Zenon, ZenonT(60), <1>2, <2>1, <2>2, <2>3
<1>6. ASSUME NEW p \in Peer, NEW kind \in {"Leave", "Join"}, Move(p, kind) PROVE EndInv'
  <2>1. mesh' = mesh /\ down' = down /\ in_room' = in_room
    BY <1>6 DEF Move
  <2>2. \A q \in Peer : EofIn(up'[q]) => EofIn(up[q])
    BY Zenon, ZenonT(60), <1>6, EofSent
  <2> QED BY Zenon, ZenonT(60), <1>2, <2>1, <2>2
<1>7. ASSUME NEW p \in Peer, NEW what, OnJuiceState(p, what) \/ OnJuiceOther(p, what)
      PROVE  EndInv'
  <2>1. \A q \in Peer : /\ mesh'[q].known = mesh[q].known
                        /\ mesh'[q].is_open = mesh[q].is_open
    BY <1>7, OnJuiceMesh
  <2>2. up' = up /\ down' = down /\ in_room' = in_room
    BY <1>7 DEF OnJuiceState, OnJuiceOther
  <2> QED BY Zenon, ZenonT(60), <1>2, <2>1, <2>2
<1>8. ASSUME NEW p \in Peer, CarveServer(p) PROVE EndInv'
  <2> DEFINE q == down[p]
             known == mesh[p].known
             new == mesh'[p].known
  <2>1. /\ mesh' \in [Peer -> MeshType]
        /\ \A r \in Peer \ {p} : mesh'[r] = mesh[r]
        /\ \/ Head(q).kind = "Description" /\ new = known /\ mesh'[p].is_open = mesh[p].is_open
           \/ Head(q).kind \in {"Candidate", "GatheringDone"} /\ mesh'[p] = mesh[p]
           \/ Head(q).kind = "PeerJoined" /\ new = TRUE /\ mesh'[p].is_open = mesh[p].is_open
           \/ Head(q).kind \in Departures /\ new = FALSE /\ mesh'[p].is_open = mesh[p].is_open
           \/ Head(q).kind = "Eof" /\ ~mesh'[p].is_open /\ ~new
    BY Zenon, ZenonT(60), <1>8, CarveServerMesh
  <2>2. mesh[p].is_open /\ q # <<>> /\ in_room' = in_room /\ down' = [down EXCEPT ![p] = Tail(@)]
    BY <1>8 DEF CarveServer
  <2>3. /\ q \in Seq(Message) /\ known \in BOOLEAN /\ new \in BOOLEAN /\ Head(q) = q[1]
        /\ \A r \in Peer : down'[r] = IF r = p THEN Tail(q) ELSE down[r]
    BY <1>1, <2>1, <2>2, HeadMessage DEF MeshInv, MeshType
  <2>4. \A r \in Peer : EofIn(up'[r]) => EofIn(up[r])
    BY Zenon, ZenonT(60), <1>8, EofSent
  <2>5. CASE q[1].kind = "Eof"
    <3>1. ~mesh'[p].is_open /\ ~new
      BY <2>1, <2>3, <2>5 DEF Departures
    <3> QED BY ZenonT(60), ZenonT(90), <1>1, <2>1, <2>2, <2>3, <2>4, <3>1 DEF EndInv
  <2>6. CASE q[1].kind # "Eof"
    <3>1. /\ \/ q[1].kind = "PeerJoined" /\ new
             \/ q[1].kind \in Departures /\ ~new
             \/ q[1].kind \notin Departures \cup {"PeerJoined"} /\ new = known
          /\ mesh'[p].is_open = mesh[p].is_open
      BY <2>1, <2>3, <2>6 DEF Departures
    <3> HIDE DEF q, known, new
    <3>2. (EofIn(q) => EofIn(Tail(q))) /\ (Ends(q, known) => Ends(Tail(q), new))
      BY Zenon, ZenonT(60), <2>2, <2>3, <2>6, <3>1, EndsTail
    <3>3. EofIn(up'[p]) => EofIn(down'[p])
      BY Zenon, ZenonT(60), <1>1, <2>2, <2>3, <2>4, <3>2 DEF q
    <3>4. in_room' # Peer => Ends(down'[p], new)
      BY Zenon, ZenonT(60), <1>1, <2>2, <2>3, <3>2 DEF q, known
    <3> QED BY ZenonT(60), ZenonT(90), <1>1, <2>1, <2>2, <2>3, <2>4, <3>1, <3>3, <3>4 DEF EndInv, new
  <2> QED BY <2>5, <2>6
<1>9. ASSUME NEW p \in Peer, Relay(p) PROVE EndInv'
  <2> DEFINE msg == Head(up[p])
  <2>1. /\ msg \in Message /\ ServerHandle(p, msg) /\ mesh' = mesh
        /\ up[p] # <<>> /\ up' = [up EXCEPT ![p] = Tail(@)]
    BY <1>9, HeadMessage DEF Relay, MeshInv
  <2>2. \A q \in Peer : EofIn(up'[q]) => EofIn(up[q])
    <3>1. EofIn(Tail(up[p])) => EofIn(up[p])
      BY <1>1, <2>1, HeadMessage DEF EofIn
    <3>2. \A q \in Peer : up'[q] = IF q = p THEN Tail(up[p]) ELSE up[q]
      BY <2>1 DEF MeshInv
    <3> QED BY Zenon, ZenonT(60), <3>1, <3>2
  <2>3. msg.kind = "Eof" => EofIn(up[p])
    BY <1>1, <2>1, HeadMessage DEF EofIn
  <2> HIDE DEF msg
  <2>4. ASSUME NEW q \in Peer, mesh[q].is_open
        PROVE  /\ EofIn(down[q]) => EofIn(down'[q])
               /\ in_room' # Peer => Ends(down'[q], mesh[q].known)
    <3>1. /\ q = p /\ msg.kind = "Eof" => EofIn(down[q])
          /\ in_room # Peer => Ends(down[q], mesh[q].known)
      BY Zenon, ZenonT(60), <1>1, <2>3, <2>4
    <3> QED BY Zenon, ZenonT(60), <1>1, <2>1, <3>1, ServerHandleEnds
  <2> QED BY Zenon, ZenonT(60), <1>1, <2>1, <2>2, <2>4 DEF EndInv
<1>10. ASSUME NEW p \in Peer, ConnectionLost(p) PROVE EndInv'
  <2>1. PICK j \in 0..Len(down[p]) :
           down' = [down EXCEPT ![p] = SubSeq(down[p], 1, j) \o <<[kind |-> "Eof"]>>]
    BY Zenon, ZenonT(60), <1>10 DEF ConnectionLost
  <2>2. PICK s : up' = [up EXCEPT ![p] = s]
    BY Zenon, ZenonT(60), <1>10 DEF ConnectionLost
  <2>3. UNCHANGED <<mesh, in_room>>
    BY <1>10 DEF ConnectionLost
  <2> DEFINE c == SubSeq(down[p], 1, j) \o <<[kind |-> "Eof"]>>
  <2>4. EofIn(c)
    <3>1. Len(c) = j + 1 /\ c[j + 1] = [kind |-> "Eof"] /\ j + 1 \in 1..(j + 1)
      BY <1>1
    <3>2. c[j + 1].kind = "Eof"
      BY <3>1
    <3> HIDE DEF c
    <3> QED BY <3>1, <3>2 DEF EofIn
  <2> HIDE DEF c
  <2>5. /\ down'[p] = c
        /\ \A q \in Peer : q # p => down'[q] = down[q] /\ up'[q] = up[q]
    BY <2>1, <2>2 DEF MeshInv, c
  <2> QED BY Zenon, ZenonT(60), <1>1, <2>3, <2>4, <2>5 DEF EndInv, Ends
<1> QED BY Zenon, ZenonT(60), <1>3, <1>4, <1>5, <1>6, <1>7, <1>8, <1>9, <1>10 DEF Next, vars, PollPeers

\* No link outlives its reason unnoticed: from the moment the two are not both in
\* the room, whoever left or was cut off, each end that has a link has the message
\* that ends it on its way, whatever was dialled and answered in the meantime.
THEOREM LinkEndComes == Spec => []LinkEndInFlight
<1>1. Init => EndInv
  <2> SUFFICES ASSUME Init PROVE EndInv
    OBVIOUS
  <2>1. \A p \in Peer : mesh[p].is_open /\ up[p] = <<>>
    BY DEF Init, NewMesh
  <2>2. ~EofIn(<<>>) /\ in_room = Peer
    BY DEF EofIn, Init
  <2> QED BY Zenon, ZenonT(60), <2>1, <2>2 DEF EndInv
<1>2. MeshInv /\ EndInv /\ [Next]_vars => EndInv'
  BY EndInvStep
<1>3. MeshInv /\ LinkOnlyToMember /\ EndInv => LinkEndInFlight
  <2> SUFFICES ASSUME MeshInv, LinkOnlyToMember, EndInv, NEW p \in Peer, HasLink(mesh[p]),
                      in_room # Peer
               PROVE  \E i \in DOMAIN down[p] :
                         down[p][i].kind \in {"PeerLeft", "OwnPeerLeft", "Eof"}
    BY DEF LinkEndInFlight
  <2>1. mesh[p].known /\ Ends(down[p], mesh[p].known)
    BY Zenon, ZenonT(60) DEF LinkOnlyToMember, EndInv
  <2>2. DOMAIN down[p] = 1..Len(down[p])
    BY DEF MeshInv
  <2> QED BY <2>1, <2>2 DEF Ends, EofIn, Departures
<1> QED BY <1>1, <1>2, <1>3, NoLinkToStrangers, MeshInvAlways, PTL DEF Spec

=============================================================================
