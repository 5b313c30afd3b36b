----------------------------- MODULE RoomMirror -----------------------------
(***************************************************************************)
(* The clients of the room service: Client::CacheRoomState, which mirrors  *)
(* the room from the events the server sends, composed with RoomServer.    *)
(*                                                                         *)
(* Client c is the Client whose connection the server calls c.  net[c] is  *)
(* what the server sent to it and it has not carved: conn->out, the bytes  *)
(* in the socket and rx, in order.  Poll handles one message; a real Poll  *)
(* is a run of these.  RoomError, Heartbeat and IceServers change nothing  *)
(* that is modelled here and are left out of net.                          *)
(***************************************************************************)
EXTENDS RoomServer

CONSTANT MaxEvents   \* bound: requests handled, links dialled, connections lost

ASSUME MaxEventsAssumption == MaxEvents \in Nat

VARIABLES
    events,   \* how many of these there were
    net,
    client

allvars == <<vars, events, net, client>>

-----------------------------------------------------------------------------
(***************************************************************************)
(* The client's state.  links stands for the keys of P2PMesh::links.       *)
(***************************************************************************)

\* ClearRoomState
Cleared(cl) ==
    [cl EXCEPT !.links = {}, !.room = Empty, !.host = 0, !.open = TRUE,
               !.passworded = FALSE, !.members = <<>>, !.data = EmptyMap,
               !.member_data = EmptyMap]

\* A Client that has not called Connect.
NewClient ==
    [is_open |-> FALSE, id |-> 0, links |-> {}, room |-> Empty, host |-> 0,
     open |-> TRUE, passworded |-> FALSE, members |-> <<>>, data |-> EmptyMap,
     member_data |-> EmptyMap]

AssignRoom(cl, room) ==
    [cl EXCEPT !.room = room, !.host = 0, !.open = TRUE, !.passworded = FALSE,
               !.members = <<cl.id>>, !.data = EmptyMap, !.member_data = EmptyMap]

\* Mutant: the link to a member that left is kept.
PeerGoneKeepsLink(cl, id) ==
    [cl EXCEPT !.members = Erase(@, id), !.member_data = Drop(@, id)]

PeerGone(cl, id) ==
    [cl EXCEPT !.members = Erase(@, id), !.member_data = Drop(@, id), !.links = @ \ {id}]

\* One key of one member, as CacheRoomState stores it.
StoreMemberData(member_data, id, key, value) ==
    LET old == IF id \in DOMAIN member_data THEN member_data[id] ELSE EmptyMap
    IN  WriteMemberData(member_data, id, Write(old, key, value))

CacheRoomState(cl, msg) ==
    CASE msg.type = "AssignRoomId" -> AssignRoom(cl, msg.room)
      [] msg.type = "PeerJoined" -> [cl EXCEPT !.members = Append(@, msg.id)]
      [] msg.type = "PeerLeft" -> IF msg.id = cl.id THEN Cleared(cl) ELSE PeerGone(cl, msg.id)
      [] msg.type = "HostChanged" -> [cl EXCEPT !.host = msg.id]
      [] msg.type = "RoomDataChanged" -> [cl EXCEPT !.data = Write(@, msg.key, msg.value)]
      [] msg.type = "MemberDataChanged" ->
            [cl EXCEPT !.member_data = StoreMemberData(@, msg.id, msg.key, msg.value)]
      [] msg.type \in {"KickedByHost", "BannedByHost"} -> Cleared(cl)
      [] msg.type = "RoomAccessChanged" ->
            [cl EXCEPT !.open = msg.open, !.passworded = msg.passworded]
      [] OTHER -> cl

\* What CarveServer may make of a message.  A P2PSignal leaves a link (an
\* answer to a description) or none (a candidate; no agent could be made).
CarveServer(cl, msg) ==
    CASE msg.type = "AssignClientId" -> {[cl EXCEPT !.id = msg.id]}
      [] msg.type = "P2PSignal" -> {cl, [cl EXCEPT !.links = @ \cup {msg.id}]}
      [] OTHER -> {CacheRoomState(cl, msg)}

-----------------------------------------------------------------------------

MirrorInit ==
    /\ Init
    /\ events = 0
    /\ net = [c \in Id |-> <<>>]
    /\ client = [c \in Id |-> NewClient]

\* What CarveServer acts on, or the program may relate to the room.
Carved(msg) == msg.type \notin {"RoomError", "Heartbeat", "IceServers"}

\* What is left out comes last: a handler sends a client one error or echo, or
\* the IceServers after its id.
Kept(msgs) == IF msgs # <<>> /\ ~Carved(msgs[Len(msgs)])
              THEN SubSeq(msgs, 1, Len(msgs) - 1) ELSE msgs

\* What the server sends in a step reaches the clients that are connected.
\* An accepted connection is a Client that has connected.
Deliver ==
    /\ client' = [c \in Id |-> [client[c] EXCEPT
                     !.is_open = @ \/ c \in DOMAIN connections' \ DOMAIN connections]]
    /\ net' = [c \in Id |-> IF client[c].is_open
                            THEN net[c] \o Kept(sent'[c])
                            ELSE <<>>]

Count ==
    /\ events < MaxEvents
    /\ events' = events + 1

ConnectStep ==
    /\ AcceptLoop \/ \E c \in Id : Session(c)
    /\ Deliver
    /\ UNCHANGED events

RequestStep ==
    /\ \E c \in Id : HandleMessage(c) \/ SessionEnd(c)
    /\ Deliver
    /\ Count

Poll(c) ==
    /\ client[c].is_open
    /\ net[c] # <<>>
    /\ \E cl \in CarveServer(client[c], Head(net[c])) :
          client' = [client EXCEPT ![c] = cl]
    /\ net' = [net EXCEPT ![c] = Tail(@)]
    /\ UNCHANGED <<vars, events>>

\* End of file or an error on the socket, at any moment.  Bytes read by the
\* same DrainServer are not carved.
DisconnectServer(c) ==
    /\ client[c].is_open
    /\ client' = [client EXCEPT ![c] = [Cleared(@) EXCEPT !.is_open = FALSE]]
    /\ net' = [net EXCEPT ![c] = <<>>]
    /\ Count
    /\ UNCHANGED vars

\* SendP2P to a member it has no link to.
SendP2P(c, id) ==
    /\ id # client[c].id
    /\ id \in Range(client[c].members) \ client[c].links
    /\ client' = [client EXCEPT ![c].links = @ \cup {id}]
    /\ Count
    /\ UNCHANGED <<vars, net>>

\* The link's agent failed.
LinkFailed(c, id) ==
    /\ id \in client[c].links
    /\ client' = [client EXCEPT ![c].links = @ \ {id}]
    /\ UNCHANGED <<vars, events, net>>

MirrorNext ==
    \/ ConnectStep
    \/ RequestStep
    \/ \E c \in Id : \/ Poll(c)
                     \/ DisconnectServer(c)
                     \/ \E id \in Id : SendP2P(c, id) \/ LinkFailed(c, id)

MirrorSpec == MirrorInit /\ [][MirrorNext]_allvars

-----------------------------------------------------------------------------
(***************************************************************************)
(* Properties.                                                             *)
(***************************************************************************)

\* The cache once everything in flight has been carved.
Replay(c) ==
    LET after[i \in 0..Len(net[c])] ==
            IF i = 0 THEN client[c]
            ELSE CHOOSE new \in CarveServer(after[i - 1], net[c][i]) : TRUE
    IN  after[Len(net[c])]

\* cl is the cache of a client that is in no room.
NoRoom(cl) ==
    /\ cl.room = Empty /\ cl.host = 0 /\ cl.open /\ ~cl.passworded
    /\ cl.members = <<>> /\ cl.data = EmptyMap /\ cl.member_data = EmptyMap

\* The events a client was sent add up to its room, whatever happened in
\* between: when the queue drains, every accessor of the client answers as the
\* server would.  (The order of members differs: the client is its own first.)
MirrorExact ==
    \A c \in sessions : client[c].is_open =>
        LET cl == Replay(c)
            code == connections[c]
        IN  IF code = Empty THEN NoRoom(cl)
            ELSE /\ cl.id = c
                 /\ cl.room = code
                 /\ cl.host = rooms[code].host
                 /\ cl.open = rooms[code].open
                 /\ cl.passworded = (rooms[code].password # Empty)
                 /\ Len(cl.members) = Len(rooms[code].members)
                 /\ Range(cl.members) = Range(rooms[code].members)
                 /\ cl.data = rooms[code].data
                 /\ cl.member_data = rooms[code].member_data

\* Every event finds the client in the state it is about: joins announce
\* strangers, departures and signals members, nothing about a room reaches a
\* client that is not in it, and a room is assigned only after the id that
\* AssignRoomId puts into the members.
EventsApply ==
    \A c \in Id : net[c] # <<>> =>
        LET msg == Head(net[c])
            cl == client[c]
        IN  /\ msg.type = "AssignRoomId" => cl.room = Empty /\ cl.id = c
            /\ msg.type = "PeerJoined" =>
                  cl.room # Empty /\ msg.id \notin Range(cl.members)
            /\ msg.type \in {"PeerLeft", "HostChanged", "RoomChat", "MemberDataChanged",
                             "P2PSignal"} => msg.id \in Range(cl.members)
            /\ msg.type \in {"KickedByHost", "BannedByHost", "RoomDataChanged",
                             "RoomAccessChanged"} => cl.room # Empty

\* "no member, no mesh link": a client has links only to the other members it
\* knows of, also when a signal and a departure cross.
NoMemberNoLink ==
    \A c \in Id : client[c].links \subseteq Range(client[c].members) \ {client[c].id}

\* The event that takes client c out of its room.
TakesOut(c, msg) ==
    \/ msg.type \in {"KickedByHost", "BannedByHost"}
    \/ msg.type = "PeerLeft" /\ msg.id = c

\* A client that the server has taken out of the room it shows has the event
\* that says so on its way, whoever took it out and wherever it is now: the
\* message that the handlers of a leave, a kick and a ban send to it, before
\* LeaveRoom, is its only notice.
DepartureInFlight ==
    \A c \in sessions :
        client[c].is_open /\ client[c].room \notin {Empty, connections[c]} =>
            \E i \in 1..Len(net[c]) : TakesOut(c, net[c][i])

\* A client the server has taken out of its room learns of it.
DepartureNoticed ==
    \A c \in Id, r \in RoomCode :
        client[c].room = r /\ c \in sessions /\ connections[c] # r
            ~> client[c].room # r \/ c \notin sessions \/ connections[c] = r

=============================================================================
