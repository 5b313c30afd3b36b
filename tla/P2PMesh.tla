------------------------------ MODULE P2PMesh ------------------------------
(***************************************************************************)
(* Client/src/p2p_mesh.cpp: the direct link between two members of a room, *)
(* dialled lazily, signalled through the server and run by libjuice, whose *)
(* callbacks queue events that Poll handles.                               *)
(*                                                                         *)
(* The server relays in order: up[p] is what p sent and it has not handled *)
(* (tx and the socket), down[p] what it sent and p has not carved.  Of the *)
(* room it keeps who is in it.  libjuice is external: an agent may report  *)
(* CONNECTED once it and its counterpart hold each other's descriptions,   *)
(* and the calls and reports named in Faults may fail.                     *)
(*                                                                         *)
(* An agent has an address, which the code compares, and a number gen that *)
(* tells agents apart; the code has no such number.  Likewise the answer   *)
(* mark of a description is not in the protocol: no action reads either.   *)
(***************************************************************************)
EXTENDS Naturals, Sequences, Functions

CONSTANTS
    Address,                   \* where juice_create may place an agent
    Faults,                    \* the failures of libjuice that may happen
    Extra,                     \* the callbacks besides the state changes, by client
    max_connection_attempts,
    MaxAgents,                 \* bound: agents a client can create
    MaxSends,                  \* bound: datagrams a client sends
    MaxMoves,                  \* bound: requests to leave or to join, connections lost
    MaxQueued                  \* bound: callbacks not yet handled by a client

ASSUME FaultAssumption ==
    /\ Faults \subseteq {"create", "description", "gather", "disconnected", "failed"}
    /\ Extra \subseteq {1, 2} \X {"Candidate", "GatheringDone", "Recv"}
    /\ {max_connection_attempts, MaxAgents, MaxSends, MaxMoves, MaxQueued} \subseteq Nat

Peer == {1, 2}
Other(p) == 3 - p

VARIABLES
    mesh,      \* per client: P2PMesh, and whether _members holds the other
    events,    \* P2PMesh::events: callbacks queued
    scratch,   \* P2PMesh::scratch: callbacks that PollPeers is handling
    carving,   \* has Poll begun and not yet reached PollPeers?
    up, down,  \* messages to and from the server
    conn,      \* the connections the server has
    in_room,   \* and the members
    sends,     \* how many datagrams SendP2P was called with
    wire,      \* the datagrams handed to juice_send, in order
    moves      \* how often someone asked to leave or to join, or was cut off

vars == <<mesh, events, scratch, carving, up, down, conn, in_room, sends, wire, moves>>

-----------------------------------------------------------------------------
(***************************************************************************)
(* Links.                                                                  *)
(***************************************************************************)

\* gen 0: there is no link.  remote is the gen of the agent whose description
\* was set, 0 while remote_set is false; state is what the agent last reported.
NoLink ==
    [gen |-> 0, agent |-> "none", remote |-> 0, connected |-> FALSE,
     outbox |-> <<>>, state |-> "none", told |-> {}]

HasLink(m) == m.link.gen # 0

\* Is p outside Poll?
Idle(p) == ~carving[p] /\ scratch[p] = <<>>

NewMesh ==
    [is_open |-> TRUE, known |-> TRUE, link |-> NoLink, attempts |-> 0, agents |-> 0,
     inbox |-> 0]

DestroyLink(m) == [m EXCEPT !.link = NoLink]

\* DestroyAllLinks, and DestroyLink with attempts.erase.
Forget(m) == [m EXCEPT !.link = NoLink, !.attempts = 0]

\* juice_create: an agent at some address, or nullptr.
JuiceCreate(m) ==
    {[m EXCEPT !.link = [NoLink EXCEPT !.gen = m.agents + 1, !.agent = a],
               !.attempts = m.attempts + 1,
               !.agents = m.agents + 1] : a \in IF m.agents < MaxAgents THEN Address ELSE {}}
    \cup IF m.agents < MaxAgents /\ "create" \notin Faults THEN {} ELSE {m}

\* Mutant: one attempt too many.
CreateLinkOneMore(m) ==
    IF m.attempts > max_connection_attempts THEN {m} ELSE JuiceCreate(m)

\* The meshes CreateLink may leave; without a link when it returns nullptr.
CreateLink(m) ==
    IF m.attempts >= max_connection_attempts THEN {m} ELSE JuiceCreate(m)

\* ShareLink: is the description sent, and does the call succeed?
ShareLink ==
    {[sent |-> TRUE, ok |-> TRUE]}
    \cup {[sent |-> FALSE, ok |-> FALSE] : f \in Faults \cap {"description"}}
    \cup {[sent |-> TRUE, ok |-> FALSE] : f \in Faults \cap {"gather"}}

Description(m, answer) == [kind |-> "Description", gen |-> m.link.gen, answer |-> answer]

SendServer(p, msgs) == up' = [up EXCEPT ![p] = @ \o msgs]

\* outbox.push_back
Queue(m, n) == [m EXCEPT !.link.outbox = Append(@, n)]

SendP2P(p) ==
    LET m == mesh[p]
        n == sends[p] + 1
    IN  /\ Idle(p)
        /\ n <= MaxSends
        /\ m.known
        /\ sends' = [sends EXCEPT ![p] = n]
        /\ \/ /\ HasLink(m) /\ m.link.connected
              /\ wire' = [wire EXCEPT ![p] = Append(@, n)]
              /\ UNCHANGED <<mesh, up>>
           \/ /\ HasLink(m) /\ ~m.link.connected
              /\ mesh' = [mesh EXCEPT ![p] = Queue(m, n)]
              /\ UNCHANGED <<up, wire>>
           \/ /\ ~HasLink(m)
              /\ \E new \in CreateLink(m) :
                    \/ /\ ~HasLink(new)
                       /\ UNCHANGED <<mesh, up, wire>>
                    \/ /\ HasLink(new)
                       /\ \E out \in ShareLink :
                             /\ SendServer(p, IF out.sent THEN <<Description(new, FALSE)>> ELSE <<>>)
                             /\ mesh' = [mesh EXCEPT ![p] = IF out.ok THEN Queue(new, n)
                                                            ELSE DestroyLink(new)]
                       /\ UNCHANGED wire
        /\ UNCHANGED <<events, scratch, carving, down, conn, in_room, moves>>

-----------------------------------------------------------------------------
(***************************************************************************)
(* Messages from the server.                                               *)
(***************************************************************************)

\* juice_set_remote_description
SetRemote(m, gen) == [m EXCEPT !.link.remote = gen]

\* The answering half of HandleP2PDescription; ShareLink's result is dropped.
AnswerDial(p, m, sig) ==
    \E new \in CreateLink([m EXCEPT !.attempts = 0]) :
        \/ /\ ~HasLink(new)
           /\ mesh' = [mesh EXCEPT ![p] = new]
           /\ UNCHANGED up
        \/ /\ HasLink(new)
           /\ mesh' = [mesh EXCEPT ![p] = SetRemote(new, sig.gen)]
           /\ \E out \in ShareLink :
                 SendServer(p, IF out.sent THEN <<Description(new, TRUE)>> ELSE <<>>)

\* Mutant: the link that has its description is kept, and given the new one.
HandleP2PDescriptionInPlace(p, sig) ==
    \/ /\ HasLink(mesh[p])
       /\ mesh' = [mesh EXCEPT ![p] = SetRemote(@, sig.gen)]
       /\ UNCHANGED up
    \/ /\ ~HasLink(mesh[p])
       /\ AnswerDial(p, mesh[p], sig)

\* Mutant: a link of ours gives way even when it has no description yet.
HandleP2PDescriptionYields(p, sig) == AnswerDial(p, DestroyLink(mesh[p]), sig)

HandleP2PDescription(p, sig) ==
    LET m == IF mesh[p].link.remote # 0 THEN DestroyLink(mesh[p]) ELSE mesh[p]
    IN  \/ /\ HasLink(m)
           /\ mesh' = [mesh EXCEPT ![p] = SetRemote(m, sig.gen)]
           /\ UNCHANGED up
        \/ /\ ~HasLink(m)
           /\ AnswerDial(p, m, sig)

\* Candidates and the end of gathering go to the agent, when there is one.
HandleP2PSignal(p, sig) ==
    \/ /\ sig.kind = "Description"
       /\ HandleP2PDescription(p, sig)
    \/ /\ sig.kind \in {"Candidate", "GatheringDone"}
       /\ UNCHANGED <<mesh, up>>

\* Mutant: the link to someone who left is kept.
CacheRoomStateKeepsLink(m, msg) ==
    [m EXCEPT !.known = msg.kind = "PeerJoined"]

\* CacheRoomState, as far as the other peer is concerned.
CacheRoomState(m, msg) ==
    CASE msg.kind = "PeerJoined" -> [m EXCEPT !.known = TRUE]
      [] msg.kind \in {"PeerLeft", "OwnPeerLeft"} -> [Forget(m) EXCEPT !.known = FALSE]

\* DisconnectServer, with ClearRoomState: Poll does nothing from now on.
DisconnectServer(m) == [Forget(m) EXCEPT !.known = FALSE, !.is_open = FALSE]

\* The next message that Poll carves, or the end of the stream, which DrainServer
\* meets before anything is carved.
CarveServer(p) ==
    /\ mesh[p].is_open /\ down[p] # <<>> /\ scratch[p] = <<>>
    /\ LET msg == Head(down[p])
       IN  /\ carving' = [carving EXCEPT ![p] = msg.kind # "Eof"]
           /\ \/ HandleP2PSignal(p, msg)
              \/ /\ msg.kind \in {"PeerJoined", "PeerLeft", "OwnPeerLeft"}
                 /\ mesh' = [mesh EXCEPT ![p] = CacheRoomState(@, msg)]
                 /\ UNCHANGED up
              \/ /\ msg.kind = "Eof" /\ ~carving[p]
                 /\ mesh' = [mesh EXCEPT ![p] = DisconnectServer(@)]
                 /\ UNCHANGED up
    /\ down' = [down EXCEPT ![p] = Tail(@)]
    /\ UNCHANGED <<events, scratch, conn, in_room, sends, wire, moves>>

-----------------------------------------------------------------------------
(***************************************************************************)
(* Events of libjuice.                                                     *)
(***************************************************************************)

\* The mesh after HandleLinkState for CONNECTED and COMPLETED, with its FlushLink.
Flushed(m) == [m EXCEPT !.link.connected = TRUE, !.link.outbox = <<>>, !.attempts = 0]

\* Mutants: the newest datagram goes first; the outbox is not cleared.
LinkConnectedNewestFirst(p) ==
    LET o == mesh[p].link.outbox
    IN  /\ mesh' = [mesh EXCEPT ![p] = Flushed(@)]
        /\ wire' = [wire EXCEPT ![p] = @ \o [i \in DOMAIN o |-> o[Len(o) + 1 - i]]]

LinkConnectedKeepsOutbox(p) ==
    /\ mesh' = [mesh EXCEPT ![p].link.connected = TRUE, ![p].attempts = 0]
    /\ wire' = [wire EXCEPT ![p] = @ \o mesh[p].link.outbox]

\* What waited goes to juice_send.
LinkConnected(p) ==
    /\ mesh' = [mesh EXCEPT ![p] = Flushed(@)]
    /\ wire' = [wire EXCEPT ![p] = @ \o mesh[p].link.outbox]

HandleLinkState(p, state) ==
    /\ \/ /\ state = "connected"
          /\ LinkConnected(p)
       \/ /\ state = "disconnected"
          /\ mesh' = [mesh EXCEPT ![p].link.connected = FALSE]
          /\ UNCHANGED wire
       \/ /\ state = "failed"
          /\ mesh' = [mesh EXCEPT ![p] = DestroyLink(@)]
          /\ UNCHANGED wire
    /\ UNCHANGED up

\* The next event of the batch; it is dropped when its agent is not at the
\* address of the link's.
HandleJuiceEvent(p) ==
    /\ scratch[p] # <<>>
    /\ LET ev == Head(scratch[p])
       IN  \/ /\ ~HasLink(mesh[p]) \/ mesh[p].link.agent # ev.agent
              /\ UNCHANGED <<mesh, up, wire>>
           \/ /\ HasLink(mesh[p]) /\ mesh[p].link.agent = ev.agent
              /\ \/ /\ ev.kind \in {"connected", "disconnected", "failed"}
                    /\ HandleLinkState(p, ev.kind)
                 \/ /\ ev.kind \in {"Candidate", "GatheringDone"}
                    /\ SendServer(p, <<[kind |-> ev.kind, gen |-> ev.gen]>>)
                    /\ UNCHANGED <<mesh, wire>>
                 \/ /\ ev.kind = "Recv"
                    /\ mesh' = [mesh EXCEPT ![p].inbox = @ + 1]
                    /\ UNCHANGED <<up, wire>>
    /\ scratch' = [scratch EXCEPT ![p] = Tail(@)]
    /\ UNCHANGED <<events, carving, down, conn, in_room, sends, moves>>

\* Poll reaches PollPeers and takes what is queued, under the mutex.
PollPeers(p) ==
    /\ mesh[p].is_open /\ scratch[p] = <<>>
    /\ carving[p] \/ events[p] # <<>>
    /\ carving' = [carving EXCEPT ![p] = FALSE]
    /\ scratch' = [scratch EXCEPT ![p] = events[p]]
    /\ events' = [events EXCEPT ![p] = <<>>]
    /\ UNCHANGED <<mesh, up, down, conn, in_room, sends, wire, moves>>

\* A callback of p's agent: PushJuiceEvent.
PushJuiceEvent(p, kind) ==
    /\ HasLink(mesh[p])
    /\ Len(events[p]) < MaxQueued
    /\ events' = [events EXCEPT ![p] =
                    Append(@, [agent |-> mesh[p].link.agent, gen |-> mesh[p].link.gen,
                               kind |-> kind])]

\* libjuice: the two agents hold each other's descriptions.
Paired(p) ==
    /\ mesh[p].link.remote # 0
    /\ mesh[p].link.remote = mesh[Other(p)].link.gen
    /\ mesh[Other(p)].link.remote = mesh[p].link.gen

\* libjuice: the agent changes state and reports it.
OnJuiceState(p, state) ==
    /\ PushJuiceEvent(p, state)
    /\ mesh' = [mesh EXCEPT ![p].link.state = state]
    /\ LET old == mesh[p].link.state
       IN  \/ state = "connected" /\ old \in {"none", "disconnected"} /\ Paired(p)
           \/ state = "disconnected" /\ old = "connected" /\ state \in Faults
           \/ state = "failed" /\ old # "failed" /\ mesh[p].link.remote # 0 /\ state \in Faults
    /\ UNCHANGED <<scratch, carving, up, down, conn, in_room, sends, wire, moves>>

\* libjuice: a candidate, the end of gathering or a datagram; each kind once.
OnJuiceOther(p, kind) ==
    /\ <<p, kind>> \in Extra
    /\ PushJuiceEvent(p, kind)
    /\ kind \notin mesh[p].link.told
    /\ mesh[p].link.state \in IF kind = "Recv" THEN {"connected"} ELSE {"none", "connected", "disconnected"}
    /\ mesh' = [mesh EXCEPT ![p].link.told = @ \cup {kind}]
    /\ UNCHANGED <<scratch, carving, up, down, conn, in_room, sends, wire, moves>>

-----------------------------------------------------------------------------
(***************************************************************************)
(* The room, as the server keeps it.                                       *)
(***************************************************************************)

\* The program calls LeaveRoom or JoinRoom.
Move(p, kind) ==
    /\ Idle(p) /\ mesh[p].is_open
    /\ moves < MaxMoves
    /\ moves' = moves + 1
    /\ SendServer(p, <<[kind |-> kind]>>)
    /\ UNCHANGED <<mesh, events, scratch, carving, down, conn, in_room, sends, wire>>

\* The connection breaks: of what is on the way, each end reads some, then the
\* end of the stream.
ConnectionLost(p) ==
    LET Cut(s) == {SubSeq(s, 1, n) \o <<[kind |-> "Eof"]>> : n \in 0..Len(s)}
        Broken(q) == \E i \in DOMAIN q : q[i].kind = "Eof"
    IN  /\ p \in conn /\ mesh[p].is_open /\ ~Broken(up[p]) /\ ~Broken(down[p])
        /\ moves < MaxMoves
        /\ moves' = moves + 1
        /\ \E q \in Cut(up[p]) : up' = [up EXCEPT ![p] = q]
        /\ \E q \in Cut(down[p]) : down' = [down EXCEPT ![p] = q]
        /\ UNCHANGED <<mesh, events, scratch, carving, conn, in_room, sends, wire>>

\* Mutant: a lost connection is not announced to the room.
GoneSilent(p) ==
    /\ in_room' = in_room \ {p}
    /\ UNCHANGED down

\* The session of p ended: it is out of the room, and the other is told.
Gone(p) ==
    /\ in_room' = in_room \ {p}
    /\ IF {p, Other(p)} \subseteq in_room
       THEN down' = [down EXCEPT ![Other(p)] = Append(@, [kind |-> "PeerLeft"])]
       ELSE UNCHANGED down

\* What the server does with a message of p.  A room nobody is in is gone.
ServerHandle(p, msg) ==
    LET q == Other(p)
    IN  \/ /\ msg.kind = "Leave" /\ p \in in_room
           /\ in_room' = in_room \ {p}
           /\ down' = [r \in Peer |->
                         IF r = p THEN Append(down[r], [kind |-> "OwnPeerLeft"])
                         ELSE IF q \in in_room THEN Append(down[r], [kind |-> "PeerLeft"])
                         ELSE down[r]]
        \/ /\ msg.kind = "Join" /\ p \notin in_room /\ q \in in_room
           /\ in_room' = in_room \cup {p}
           /\ down' = [r \in Peer |-> Append(down[r], [kind |-> "PeerJoined"])]
        \/ /\ msg.kind \in {"Description", "Candidate", "GatheringDone"} /\ in_room = Peer
           /\ down' = [down EXCEPT ![q] = Append(@, msg)]
           /\ UNCHANGED in_room
        \/ /\ msg.kind = "Eof"
           /\ Gone(p)
        \/ /\ \/ msg.kind = "Leave" /\ p \notin in_room
              \/ msg.kind = "Join" /\ (p \in in_room \/ q \notin in_room)
              \/ msg.kind \in {"Description", "Candidate", "GatheringDone"} /\ in_room # Peer
           /\ UNCHANGED <<down, in_room>>

\* What p queued goes out at the end of Poll.
Relay(p) ==
    /\ p \in conn /\ up[p] # <<>>
    /\ Idle(p) \/ Head(up[p]).kind = "Eof"
    /\ ServerHandle(p, Head(up[p]))
    /\ conn' = IF Head(up[p]).kind = "Eof" THEN conn \ {p} ELSE conn
    /\ up' = [up EXCEPT ![p] = Tail(@)]
    /\ UNCHANGED <<mesh, events, scratch, carving, sends, wire, moves>>

-----------------------------------------------------------------------------

Init ==
    /\ mesh = [p \in Peer |-> NewMesh]
    /\ events = [p \in Peer |-> <<>>]
    /\ scratch = [p \in Peer |-> <<>>]
    /\ carving = [p \in Peer |-> FALSE]
    /\ up = [p \in Peer |-> <<>>]
    /\ down = [p \in Peer |-> <<>>]
    /\ conn = Peer
    /\ in_room = Peer
    /\ sends = [p \in Peer |-> 0]
    /\ wire = [p \in Peer |-> <<>>]
    /\ moves = 0

Next ==
    \E p \in Peer :
        \/ SendP2P(p)
        \/ CarveServer(p)
        \/ PollPeers(p)
        \/ HandleJuiceEvent(p)
        \/ Relay(p)
        \/ ConnectionLost(p)
        \/ \E kind \in {"Leave", "Join"} : Move(p, kind)
        \/ \E state \in {"connected", "disconnected", "failed"} : OnJuiceState(p, state)
        \/ \E kind \in {"Candidate", "GatheringDone", "Recv"} : OnJuiceOther(p, kind)

Spec == Init /\ [][Next]_vars

\* The two programs keep polling, the server keeps reading and writing, and
\* agents that can reach each other connect.
FairSpec ==
    /\ Spec
    /\ \A p \in Peer :
          /\ WF_vars(CarveServer(p))
          /\ WF_vars(PollPeers(p))
          /\ WF_vars(HandleJuiceEvent(p))
          /\ WF_vars(Relay(p))
          /\ WF_vars(OnJuiceState(p, "connected"))

-----------------------------------------------------------------------------
(***************************************************************************)
(* Properties.                                                             *)
(***************************************************************************)

\* The type invariant.  With it, CreateLink's budget: no peer is dialled more
\* often than max_connection_attempts without an answer or a success between.
TypeOK ==
    \A p \in Peer :
        /\ mesh[p].attempts \in 0 .. max_connection_attempts
        /\ mesh[p].agents \in 0 .. MaxAgents
        /\ mesh[p].link.gen \in 0 .. mesh[p].agents
        /\ mesh[p].link.agent \in IF HasLink(mesh[p]) THEN Address ELSE {"none"}
        /\ mesh[p].link.connected => HasLink(mesh[p])
        /\ Len(events[p]) <= MaxQueued /\ Len(scratch[p]) <= MaxQueued

\* p2p_mesh.h, "juice_set_remote_description may only run once": no agent is
\* given a second description, whatever mixture of dials, answers, glare,
\* redials and stale signals reaches HandleP2PDescription.
RemoteSetOnce ==
    [][\A p \in Peer :
          HasLink(mesh[p]) /\ mesh'[p].link.gen = mesh[p].link.gen /\ mesh[p].link.remote # 0
          => mesh'[p].link.remote = mesh[p].link.remote]_vars

\* Datagrams reach juice_send in the order of the SendP2P calls and none
\* twice: what waits in an outbox is flushed before anything is sent directly,
\* over every loss, rebuild and recovery of the link.
SentInOrder ==
    \A p \in Peer : \A i, j \in DOMAIN wire[p] : i < j => wire[p][i] < wire[p][j]

\* CacheRoomState's "no member, no mesh link".  HandleP2PSignal does not look
\* at _members: it is the server's check, and the order of what it sends, that
\* keeps a late description from building a link to someone who has left.
LinkOnlyToMember ==
    \A p \in Peer : HasLink(mesh[p]) => mesh[p].known

\* Nothing waits for a link that the program is told is up (PeerConnectedP2P).
NothingWaitsWhenUp ==
    \A p \in Peer : mesh[p].link.connected => mesh[p].link.outbox = <<>>

\* A link ends with the membership of its peer, whether that left or lost its
\* connection to the server, though nothing in libjuice ends it.
LinkEndsWithMember ==
    \A p \in Peer :
        HasLink(mesh[p]) /\ Other(p) \notin in_room
            ~> ~HasLink(mesh[p]) \/ Other(p) \in in_room

\* What ends it is on the way: while the two are not both in the room, an end
\* that still has a link is yet to carve a departure, its own or the other's, or
\* the end of the stream.
LinkEndInFlight ==
    \A p \in Peer :
        HasLink(mesh[p]) /\ in_room # Peer =>
            \E i \in DOMAIN down[p] : down[p][i].kind \in {"PeerLeft", "OwnPeerLeft", "Eof"}

\* Unless someone leaves, is cut off or libjuice fails, a dial ends with both ends
\* connected and nothing left to flush, even when both dial at once.
DialConnects ==
    \A p \in Peer :
        HasLink(mesh[p]) ~>
            \/ moves > 0
            \/ \A q \in Peer : mesh[q].link.connected /\ mesh[q].link.outbox = <<>>

\* HandleP2PDescription's comment: a second description for a link that has
\* one "is the peer redialing with a fresh agent".  So the link is never torn
\* down for a description that answers one of ours.
TornDownForRedial ==
    [][\A p \in Peer :
          CarveServer(p) /\ Head(down[p]).kind = "Description" /\ mesh[p].link.remote # 0
          => ~Head(down[p]).answer]_vars

\* p2p_mesh.h: "a rebuilt link ignores strays".  An event of an agent that is
\* gone changes nothing of the link that took its place.
StraysIgnored ==
    [][\A p \in Peer :
          HandleJuiceEvent(p) /\ Head(scratch[p]).gen # mesh[p].link.gen
          => UNCHANGED <<mesh, up, wire>>]_vars

\* p2p_mesh.h: "datagrams queued until the link connects".  While the other
\* stays a member, a queued datagram stays queued until it is sent.
QueuedUntilConnects ==
    [][\A p \in Peer :
          mesh[p].known /\ mesh'[p].known
          => Range(mesh[p].link.outbox) \subseteq
                Range(mesh'[p].link.outbox) \cup Range(wire'[p])]_vars

=============================================================================
