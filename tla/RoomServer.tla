------------------------------ MODULE RoomServer ------------------------------
(***************************************************************************)
(* The room service of Server/src/weyvelength_server.cpp: connections,     *)
(* rooms and the handler of every client message.                          *)
(*                                                                         *)
(* The server is one thread running one asio io_context, and no handler    *)
(* suspends: a handler, with every LeaveRoom, SendTo and SendToMany it     *)
(* calls, is one action.  A client may send any request at any time (the   *)
(* client library checks nothing before it sends), so requests are inputs. *)
(*                                                                         *)
(* Strings are abstracted to members of small sets with a size.  The       *)
(* context text of a RoomError, chat text, signal payloads and logging are *)
(* left out.                                                               *)
(***************************************************************************)
EXTENDS Naturals, FiniteSets, Sequences, Functions

CONSTANTS
    MaxId,                 \* bound: connections accepted; their ids are 1..MaxId
    RoomCode,              \* the codes MakeRoomCode can return
    Key, Value, Password,  \* the strings requests carry
    Size,                  \* their lengths in bytes
    max_room_data_key, max_room_data_value, max_room_password,
    max_room_data_keys, max_member_data_keys, max_message_size

\* Far below 2^32, so that _next_id does not wrap.
ASSUME MaxIdAssumption == MaxId \in Nat

\* The empty std::string: no room, no password, and the value that erases a key.
Empty == ""

\* conn->room is Empty outside a room: a code is never empty
\* (room_code_length 0 means the default of 8).  Codes are not used up: the
\* 32^8 of them outnumber the connections.
ASSUME RoomCodeAssumption ==
    /\ Empty \notin RoomCode
    /\ IsFiniteSet(RoomCode)
    /\ MaxId <= Cardinality(RoomCode)

ASSUME StringAssumption ==
    /\ IsFiniteSet(Key)
    /\ Empty \in Password
    /\ Size \in [Key \cup Value \cup Password -> Nat]
    /\ \A s \in Key \cup Value \cup Password : Size[s] = 0 <=> s = Empty

\* max_member_data_keys is positive: HandleSetMemberData takes its slot with
\* operator[], and an insertion refused at a limit of 0 would leave it empty.
\* 13 bytes of a data message are not key or value (EncodedSize).
ASSUME LimitAssumption ==
    /\ max_room_data_key \in Nat
    /\ max_room_data_value \in Nat
    /\ max_room_password \in Nat
    /\ max_room_data_keys \in Nat
    /\ max_member_data_keys \in Nat \ {0}
    /\ max_message_size \in Nat
    /\ 13 + max_room_data_key + max_room_data_value < max_message_size

VARIABLES
    next_id,      \* _next_id
    connections,  \* _connections: id -> conn->room
    sessions,     \* the connections whose Session coroutine is reading
    rooms,        \* _rooms: code -> Room
    sent          \* what this step appends to every connection's out queue

vars == <<next_id, connections, sessions, rooms, sent>>

Id == 1..MaxId

-----------------------------------------------------------------------------
(***************************************************************************)
(* std::map and std::vector operations.                                    *)
(***************************************************************************)

EmptyMap == [x \in {} |-> x]

\* map[k] = v
Put(f, k, v) == [x \in DOMAIN f \cup {k} |-> IF x = k THEN v ELSE f[x]]

\* map.erase(k)
Drop(f, k) == [x \in DOMAIN f \ {k} |-> f[x]]

\* std::erase(s, e), for an s without repetitions (MembersDistinct).
Erase(s, e) ==
    IF e \in Range(s)
    THEN LET p == CHOOSE i \in DOMAIN s : s[i] = e
         IN  [j \in 1..(Len(s) - 1) |-> IF j < p THEN s[j] ELSE s[j + 1]]
    ELSE s

\* The keys of a map one after the other: std::map's order in the code, any here.
Listing(keys) == CHOOSE s \in Bijection(1..Cardinality(keys), keys) : TRUE

-----------------------------------------------------------------------------
(***************************************************************************)
(* The messages the server sends.                                          *)
(***************************************************************************)

RoomErrorCode ==
    {"AlreadyInRoom", "NoSuchRoom", "NotInRoom", "NotHost", "BadRoomData",
     "NoSuchMember", "RoomClosed", "BadPassword", "Banned"}

ServerMessage ==
    [type : {"AssignClientId", "PeerJoined", "PeerLeft", "HostChanged",
             "RoomChat", "P2PSignal"}, id : Id]
    \cup [type : {"IceServers", "Heartbeat", "KickedByHost", "BannedByHost"}]
    \cup [type : {"AssignRoomId"}, room : RoomCode]
    \cup [type : {"RoomError"}, code : RoomErrorCode]
    \cup [type : {"RoomAccessChanged"}, open : BOOLEAN, passworded : BOOLEAN]
    \cup [type : {"RoomDataChanged"}, key : Key, value : Value]
    \cup [type : {"MemberDataChanged"}, id : Id, key : Key, value : Value]

Bare(type) == [type |-> type]
AboutClient(type, id) == [type |-> type, id |-> id]
AssignRoomId(code) == [type |-> "AssignRoomId", room |-> code]
RoomError(code) == [type |-> "RoomError", code |-> code]
RoomAccessChanged(room) ==
    [type |-> "RoomAccessChanged", open |-> room.open, passworded |-> room.password # Empty]
RoomDataChanged(key, value) ==
    [type |-> "RoomDataChanged", key |-> key, value |-> value]
MemberDataChanged(id, key, value) ==
    [type |-> "MemberDataChanged", id |-> id, key |-> key, value |-> value]

\* The bytes of a data message: the index of the variant, the id of a member,
\* key and value with their lengths.
EncodedSize(msg) ==
    1 + (IF msg.type = "MemberDataChanged" THEN 4 ELSE 0) + 4 + Size[msg.key] + 4 + Size[msg.value]

\* SendTo and SendToMany: the queue suffixes they produce.  An id that is no
\* longer connected gets nothing (SendFrame).
SendToMany(ids, msgs) ==
    [c \in Id |-> IF c \in ids \cap DOMAIN connections THEN msgs ELSE <<>>]

SendTo(id, msgs) == SendToMany({id}, msgs)

\* The sends of a, then the sends of b.
Then(a, b) == [c \in Id |-> a[c] \o b[c]]

\* A handler that only answers, or does nothing at all.
Answer(c, msgs) ==
    /\ sent' = SendTo(c, msgs)
    /\ UNCHANGED <<next_id, connections, sessions, rooms>>

Fail(c, code) == Answer(c, <<RoomError(code)>>)

Ignore(c) == Answer(c, <<>>)

-----------------------------------------------------------------------------
(***************************************************************************)
(* Connections.                                                            *)
(***************************************************************************)

Init ==
    /\ next_id = 1
    /\ connections = EmptyMap
    /\ sessions = {}
    /\ rooms = EmptyMap
    /\ sent = [c \in Id |-> <<>>]

\* Mutant: the id is taken with ++_next_id.
AcceptLoopPreIncrement ==
    /\ next_id <= MaxId
    /\ next_id' = next_id + 1
    /\ connections' = Put(connections, next_id + 1, Empty)
    /\ sent' = [c \in Id |-> <<>>]
    /\ UNCHANGED <<sessions, rooms>>

AcceptLoop ==
    /\ next_id <= MaxId
    /\ next_id' = next_id + 1
    /\ connections' = Put(connections, next_id, Empty)
    /\ sent' = [c \in Id |-> <<>>]
    /\ UNCHANGED <<sessions, rooms>>

\* Session up to its first suspension: the greeting.
Session(c) ==
    /\ c \in DOMAIN connections \ sessions
    /\ sessions' = sessions \cup {c}
    /\ sent' = SendTo(c, <<AboutClient("AssignClientId", c), Bare("IceServers")>>)
    /\ UNCHANGED <<next_id, connections, rooms>>

\* Mutants: the host is not replaced; the newest member succeeds; the metadata
\* of the one who leaves is kept.
WithoutMemberKeepsHost(room, c) ==
    [room EXCEPT !.members = Erase(@, c), !.member_data = Drop(@, c)]

WithoutMemberNewestHost(room, c) ==
    LET left == Erase(room.members, c)
    IN  [room EXCEPT !.members = left,
                     !.member_data = Drop(@, c),
                     !.host = IF @ = c THEN left[Len(left)] ELSE @]

WithoutMemberKeepsData(room, c) ==
    LET left == Erase(room.members, c)
    IN  [room EXCEPT !.members = left, !.host = IF @ = c THEN Head(left) ELSE @]

\* A room that others stay in, once c is out of it; the oldest remaining
\* member succeeds a host.
WithoutMember(room, c) ==
    LET left == Erase(room.members, c)
    IN  [room EXCEPT !.members = left,
                     !.member_data = Drop(@, c),
                     !.host = IF @ = c THEN Head(left) ELSE @]

\* Mutant: a room is not closed when its last member leaves.
LeaveRoomKeepsEmpty(rs, c) ==
    LET code == connections[c]
    IN  IF code \notin DOMAIN rs THEN rs
        ELSE IF Erase(rs[code].members, c) = <<>>
             THEN [rs EXCEPT ![code].members = <<>>, ![code].member_data = EmptyMap]
        ELSE [rs EXCEPT ![code] = WithoutMember(@, c)]

\* LeaveRoom(conn): the rooms it leaves behind, starting from rs ...
LeaveRoom(rs, c) ==
    LET code == connections[c]
    IN  IF code \notin DOMAIN rs THEN rs
        ELSE IF Erase(rs[code].members, c) = <<>> THEN Drop(rs, code)
        ELSE [rs EXCEPT ![code] = WithoutMember(@, c)]

\* Mutant: the new host is not announced.
LeaveRoomSendsNoHost(c) ==
    LET code == connections[c]
    IN  IF code \notin DOMAIN rooms THEN SendToMany({}, <<>>)
        ELSE SendToMany(Range(Erase(rooms[code].members, c)), <<AboutClient("PeerLeft", c)>>)

\* ... and what the remaining members are told.
LeaveRoomSends(c) ==
    LET code == connections[c]
        left == Erase(rooms[code].members, c)
    IN  IF code \notin DOMAIN rooms THEN SendToMany({}, <<>>)
        ELSE SendToMany(Range(left),
                 <<AboutClient("PeerLeft", c)>>
                 \o IF rooms[code].host = c
                    THEN <<AboutClient("HostChanged", Head(left))>>
                    ELSE <<>>)

\* Session from the end of its ReadLoop: any error, end of file or protocol
\* violation.
SessionEnd(c) ==
    /\ c \in sessions
    /\ sessions' = sessions \ {c}
    /\ connections' = Drop(connections, c)
    /\ rooms' = LeaveRoom(rooms, c)
    /\ sent' = LeaveRoomSends(c)
    /\ UNCHANGED next_id

-----------------------------------------------------------------------------
(***************************************************************************)
(* Room requests.  c is the sender; its Session is reading.                *)
(***************************************************************************)

Heartbeat(c) == Answer(c, <<Bare("Heartbeat")>>)

NewRoom(c) ==
    [host |-> c, members |-> <<c>>, data |-> EmptyMap, member_data |-> EmptyMap,
     open |-> TRUE, password |-> Empty, banned_members |-> {}]

HandleCreateRoom(c) ==
    \/ /\ connections[c] # Empty
       /\ Fail(c, "AlreadyInRoom")
    \/ /\ connections[c] = Empty
       /\ \E code \in RoomCode \ DOMAIN rooms :
             /\ rooms' = Put(rooms, code, NewRoom(c))
             /\ connections' = [connections EXCEPT ![c] = code]
             /\ sent' = SendTo(c, <<AssignRoomId(code), AboutClient("HostChanged", c)>>)
       /\ UNCHANGED <<next_id, sessions>>

\* Mutants: a member may join again; a ban is not looked at.
JoinRefusalAgain(c, code, password) ==
    IF code \notin DOMAIN rooms THEN "NoSuchRoom"
    ELSE IF c \in rooms[code].banned_members THEN "Banned"
    ELSE IF ~rooms[code].open THEN "RoomClosed"
    ELSE IF rooms[code].password \notin {Empty, password} THEN "BadPassword"
    ELSE "none"

JoinRefusalUnbanned(c, code, password) ==
    IF connections[c] # Empty THEN "AlreadyInRoom"
    ELSE IF code \notin DOMAIN rooms THEN "NoSuchRoom"
    ELSE IF ~rooms[code].open THEN "RoomClosed"
    ELSE IF rooms[code].password \notin {Empty, password} THEN "BadPassword"
    ELSE "none"

\* The checks of HandleJoinRoom, in order: the error of the first that fails.
JoinRefusal(c, code, password) ==
    IF connections[c] # Empty THEN "AlreadyInRoom"
    ELSE IF code \notin DOMAIN rooms THEN "NoSuchRoom"
    ELSE IF c \in rooms[code].banned_members THEN "Banned"
    ELSE IF ~rooms[code].open THEN "RoomClosed"
    ELSE IF rooms[code].password \notin {Empty, password} THEN "BadPassword"
    ELSE "none"

\* Mutant: a joiner is not told of a closed door or a password.
HydrationNoAccess(code) ==
    LET room == rooms[code]
        keys == Listing(DOMAIN room.data)
        slots == Listing({s \in Id \X Key : /\ s[1] \in DOMAIN room.member_data
                                              /\ s[2] \in DOMAIN room.member_data[s[1]]})
    IN  <<AssignRoomId(code)>>
        \o [i \in 1..Len(room.members) |-> AboutClient("PeerJoined", room.members[i])]
        \o <<AboutClient("HostChanged", room.host)>>
        \o [i \in 1..Len(keys) |-> RoomDataChanged(keys[i], room.data[keys[i]])]
        \o [i \in 1..Len(slots) |->
               MemberDataChanged(slots[i][1], slots[i][2],
                                 room.member_data[slots[i][1]][slots[i][2]])]

\* What a joiner is sent: the room as the events that would have built it.
Hydration(code) ==
    LET room == rooms[code]
        keys == Listing(DOMAIN room.data)
        slots == Listing({s \in Id \X Key : /\ s[1] \in DOMAIN room.member_data
                                              /\ s[2] \in DOMAIN room.member_data[s[1]]})
    IN  <<AssignRoomId(code)>>
        \o [i \in 1..Len(room.members) |-> AboutClient("PeerJoined", room.members[i])]
        \o <<AboutClient("HostChanged", room.host), RoomAccessChanged(room)>>
        \o [i \in 1..Len(keys) |-> RoomDataChanged(keys[i], room.data[keys[i]])]
        \o [i \in 1..Len(slots) |->
               MemberDataChanged(slots[i][1], slots[i][2],
                                 room.member_data[slots[i][1]][slots[i][2]])]

\* Mutant: the joiner is added first and told of its own arrival.
HandleJoinRoomTellsAll(c, code, password) ==
    LET refusal == JoinRefusal(c, code, password) IN
    \/ /\ refusal # "none"
       /\ Fail(c, refusal)
    \/ /\ refusal = "none"
       /\ rooms' = [rooms EXCEPT ![code].members = Append(@, c)]
       /\ connections' = [connections EXCEPT ![c] = code]
       /\ sent' = Then(SendToMany(Range(rooms[code].members) \cup {c},
                                  <<AboutClient("PeerJoined", c)>>),
                       SendTo(c, Hydration(code)))
       /\ UNCHANGED <<next_id, sessions>>

HandleJoinRoom(c, code, password) ==
    LET refusal == JoinRefusal(c, code, password) IN
    \/ /\ refusal # "none"
       /\ Fail(c, refusal)
    \/ /\ refusal = "none"
       /\ rooms' = [rooms EXCEPT ![code].members = Append(@, c)]
       /\ connections' = [connections EXCEPT ![c] = code]
       /\ sent' = Then(SendToMany(Range(rooms[code].members), <<AboutClient("PeerJoined", c)>>),
                       SendTo(c, Hydration(code)))
       /\ UNCHANGED <<next_id, sessions>>

\* Mutants: conn->room is not cleared; the one who goes is not told.
TakeOutKeepsRoom(rs, c, msg) ==
    /\ rooms' = LeaveRoom(rs, c)
    /\ sent' = Then(SendTo(c, <<msg>>), LeaveRoomSends(c))
    /\ UNCHANGED <<next_id, connections, sessions>>

TakeOutSilent(rs, c, msg) ==
    /\ rooms' = LeaveRoom(rs, c)
    /\ connections' = [connections EXCEPT ![c] = Empty]
    /\ sent' = LeaveRoomSends(c)
    /\ UNCHANGED <<next_id, sessions>>

\* Tell c with msg, then LeaveRoom: the end of a leave, a kick and a ban.
TakeOut(rs, c, msg) ==
    /\ rooms' = LeaveRoom(rs, c)
    /\ connections' = [connections EXCEPT ![c] = Empty]
    /\ sent' = Then(SendTo(c, <<msg>>), LeaveRoomSends(c))
    /\ UNCHANGED <<next_id, sessions>>

HandleLeaveRoom(c) ==
    \/ /\ connections[c] = Empty
       /\ Fail(c, "NotInRoom")
    \/ /\ connections[c] # Empty
       /\ TakeOut(rooms, c, AboutClient("PeerLeft", c))

InRoom(c) == connections[c] \in DOMAIN rooms

MyRoom(c) == rooms[connections[c]]

\* Tell everyone in c's room, c included.
Broadcast(c, msgs) == sent' = SendToMany(Range(MyRoom(c).members), msgs)

HandleRoomChat(c) ==
    \/ /\ ~InRoom(c)
       /\ Fail(c, "NotInRoom")
    \/ /\ InRoom(c)
       /\ Broadcast(c, <<AboutClient("RoomChat", c)>>)
       /\ UNCHANGED <<next_id, connections, sessions, rooms>>

\* Mutant: a signal reaches any connection.
HandleP2PSignalAnywhere(c, id) ==
    IF InRoom(c) /\ id # c
    THEN Answer(id, <<AboutClient("P2PSignal", c)>>)
    ELSE Ignore(c)

\* Relayed with the sender's id; a bad target is dropped without an error.
HandleP2PSignal(c, id) ==
    IF InRoom(c) /\ id # c /\ id \in Range(MyRoom(c).members)
    THEN Answer(id, <<AboutClient("P2PSignal", c)>>)
    ELSE Ignore(c)

-----------------------------------------------------------------------------
(***************************************************************************)
(* Room and member metadata.                                               *)
(***************************************************************************)

\* Mutant: the sender need not be the host.
HostsAnyMember(c) == InRoom(c)

\* HostRoom: the sender's room, when it is the host ...
Hosts(c) == InRoom(c) /\ MyRoom(c).host = c

\* ... and the error it sends when not.
HostError(c) == IF InRoom(c) THEN "NotHost" ELSE "NotInRoom"

\* Mutant: the new key is not counted.
BadWriteOffByOne(data, key, value, limit) ==
    \/ key = Empty
    \/ Size[key] > max_room_data_key
    \/ Size[value] > max_room_data_value
    \/ /\ value # Empty
       /\ key \notin DOMAIN data
       /\ Cardinality(DOMAIN data) > limit

\* The write is malformed, or would add one key too many.
BadWrite(data, key, value, limit) ==
    \/ key = Empty
    \/ Size[key] > max_room_data_key
    \/ Size[value] > max_room_data_value
    \/ /\ value # Empty
       /\ key \notin DOMAIN data
       /\ Cardinality(DOMAIN data) + 1 > limit

\* An empty value deletes.
Write(data, key, value) ==
    IF value = Empty THEN Drop(data, key) ELSE Put(data, key, value)

\* Mutant: the room is told of a write before the write is checked.
HandleSetRoomDataTellsFirst(c, key, value) ==
    \/ /\ ~Hosts(c)
       /\ Fail(c, HostError(c))
    \/ /\ Hosts(c)
       /\ Broadcast(c, <<RoomDataChanged(key, value)>>)
       /\ rooms' = IF BadWrite(MyRoom(c).data, key, value, max_room_data_keys) THEN rooms
                   ELSE [rooms EXCEPT ![connections[c]].data = Write(@, key, value)]
       /\ UNCHANGED <<next_id, connections, sessions>>

HandleSetRoomData(c, key, value) ==
    \/ /\ ~Hosts(c)
       /\ Fail(c, HostError(c))
    \/ /\ Hosts(c)
       /\ BadWrite(MyRoom(c).data, key, value, max_room_data_keys)
       /\ Fail(c, "BadRoomData")
    \/ /\ Hosts(c)
       /\ ~BadWrite(MyRoom(c).data, key, value, max_room_data_keys)
       /\ IF Write(MyRoom(c).data, key, value) = MyRoom(c).data
          THEN Ignore(c)
          ELSE /\ rooms' = [rooms EXCEPT ![connections[c]].data = Write(@, key, value)]
               /\ Broadcast(c, <<RoomDataChanged(key, value)>>)
               /\ UNCHANGED <<next_id, connections, sessions>>

MemberData(c) ==
    IF c \in DOMAIN MyRoom(c).member_data THEN MyRoom(c).member_data[c] ELSE EmptyMap

\* A slot that becomes empty is removed.
WriteMemberData(member_data, c, data) ==
    IF DOMAIN data = {} THEN Drop(member_data, c) ELSE Put(member_data, c, data)

HandleSetMemberData(c, key, value) ==
    \/ /\ ~InRoom(c)
       /\ Fail(c, "NotInRoom")
    \/ /\ InRoom(c)
       /\ BadWrite(MemberData(c), key, value, max_member_data_keys)
       /\ Fail(c, "BadRoomData")
    \/ /\ InRoom(c)
       /\ ~BadWrite(MemberData(c), key, value, max_member_data_keys)
       /\ IF Write(MemberData(c), key, value) = MemberData(c)
          THEN Ignore(c)
          ELSE /\ rooms' = [rooms EXCEPT ![connections[c]].member_data =
                               WriteMemberData(@, c, Write(MemberData(c), key, value))]
               /\ Broadcast(c, <<MemberDataChanged(c, key, value)>>)
               /\ UNCHANGED <<next_id, connections, sessions>>

-----------------------------------------------------------------------------
(***************************************************************************)
(* Moderation.                                                             *)
(***************************************************************************)

\* Mutant: the host may remove itself.
RemovableHost(c, id) ==
    /\ id \in DOMAIN connections
    /\ connections[id] = connections[c]

\* A target HandleKickMember and HandleBanMember accept.
Removable(c, id) ==
    /\ id # MyRoom(c).host
    /\ id \in DOMAIN connections
    /\ connections[id] = connections[c]

HandleKickMember(c, id) ==
    \/ /\ ~Hosts(c)
       /\ Fail(c, HostError(c))
    \/ /\ Hosts(c)
       /\ ~Removable(c, id)
       /\ Fail(c, "NoSuchMember")
    \/ /\ Hosts(c)
       /\ Removable(c, id)
       /\ TakeOut(rooms, id, Bare("KickedByHost"))

\* The rooms after id is barred from c's room.
Bar(c, id) ==
    [rooms EXCEPT ![connections[c]].banned_members = @ \cup {id}]

HandleBanMember(c, id) ==
    \/ /\ ~Hosts(c)
       /\ Fail(c, HostError(c))
    \/ /\ Hosts(c)
       /\ ~Removable(c, id)
       /\ Fail(c, "NoSuchMember")
    \/ /\ Hosts(c)
       /\ Removable(c, id)
       /\ TakeOut(Bar(c, id), id, Bare("BannedByHost"))

HandleTransferHost(c, id) ==
    \/ /\ ~Hosts(c)
       /\ Fail(c, HostError(c))
    \/ /\ Hosts(c)
       /\ id = c
       /\ Ignore(c)
    \/ /\ Hosts(c)
       /\ id # c
       /\ id \notin Range(MyRoom(c).members)
       /\ Fail(c, "NoSuchMember")
    \/ /\ Hosts(c)
       /\ id # c
       /\ id \in Range(MyRoom(c).members)
       /\ rooms' = [rooms EXCEPT ![connections[c]].host = id]
       /\ Broadcast(c, <<AboutClient("HostChanged", id)>>)
       /\ UNCHANGED <<next_id, connections, sessions>>

HandleSetRoomJoinable(c, open) ==
    \/ /\ ~Hosts(c)
       /\ Fail(c, HostError(c))
    \/ /\ Hosts(c)
       /\ MyRoom(c).open = open
       /\ Ignore(c)
    \/ /\ Hosts(c)
       /\ MyRoom(c).open # open
       /\ rooms' = [rooms EXCEPT ![connections[c]].open = open]
       /\ Broadcast(c, <<RoomAccessChanged([MyRoom(c) EXCEPT !.open = open])>>)
       /\ UNCHANGED <<next_id, connections, sessions>>

\* Members learn whether there is a password, never which.
HandleSetRoomPassword(c, password) ==
    \/ /\ ~Hosts(c)
       /\ Fail(c, HostError(c))
    \/ /\ Hosts(c)
       /\ Size[password] > max_room_password
       /\ Fail(c, "BadPassword")
    \/ /\ Hosts(c)
       /\ Size[password] <= max_room_password
       /\ rooms' = [rooms EXCEPT ![connections[c]].password = password]
       /\ Broadcast(c, IF (MyRoom(c).password # Empty) # (password # Empty)
                       THEN <<RoomAccessChanged([MyRoom(c) EXCEPT !.password = password])>>
                       ELSE <<>>)
       /\ UNCHANGED <<next_id, connections, sessions>>

-----------------------------------------------------------------------------

\* HandleMessage: one reassembled, decoded message of c.
HandleMessage(c) ==
    /\ c \in sessions
    /\ \/ Heartbeat(c)
       \/ HandleCreateRoom(c)
       \/ \E code \in RoomCode, password \in Password : HandleJoinRoom(c, code, password)
       \/ HandleLeaveRoom(c)
       \/ HandleRoomChat(c)
       \/ \E id \in Id : HandleP2PSignal(c, id)
       \/ \E key \in Key, value \in Value : HandleSetRoomData(c, key, value)
       \/ \E key \in Key, value \in Value : HandleSetMemberData(c, key, value)
       \/ \E id \in Id : HandleKickMember(c, id)
       \/ \E id \in Id : HandleBanMember(c, id)
       \/ \E id \in Id : HandleTransferHost(c, id)
       \/ \E open \in BOOLEAN : HandleSetRoomJoinable(c, open)
       \/ \E password \in Password : HandleSetRoomPassword(c, password)

Next ==
    \/ AcceptLoop
    \/ \E c \in Id : Session(c) \/ SessionEnd(c) \/ HandleMessage(c)

Spec == Init /\ [][Next]_vars

-----------------------------------------------------------------------------
(***************************************************************************)
(* Properties.                                                             *)
(***************************************************************************)

\* Maps from some of S to T.
Map(S, T) == UNION {[D -> T] : D \in SUBSET S}

Room ==
    [host : Id, members : Seq(Id), data : Map(Key, Value),
     member_data : Map(Id, Map(Key, Value)),
     open : BOOLEAN, password : Password, banned_members : SUBSET Id]

\* Every variable has the shape of the field it stands for; the ids handed out
\* are the ones below _next_id, and only accepted connections are read.
TypeOK ==
    /\ next_id \in 1..(MaxId + 1)
    /\ DOMAIN connections \subseteq 1..(next_id - 1)
    /\ connections \in [DOMAIN connections -> RoomCode \cup {Empty}]
    /\ sessions \subseteq DOMAIN connections
    /\ DOMAIN rooms \subseteq RoomCode
    /\ rooms \in [DOMAIN rooms -> Room]
    /\ sent \in [Id -> Seq(ServerMessage)]

\* conn->room and Room::members, the two records of who is where, agree after
\* every handler: a connection names a room exactly when that room lists it.
\* LeaveRoom, the join and the create each have to update both.
RoomsAgree ==
    /\ \A c \in DOMAIN connections :
          connections[c] # Empty =>
             /\ connections[c] \in DOMAIN rooms
             /\ c \in Range(rooms[connections[c]].members)
    /\ \A r \in DOMAIN rooms : \A c \in Range(rooms[r].members) :
          c \in sessions /\ connections[c] = r

\* A room always has a host and the host is in it, whoever left, was removed,
\* disconnected or handed over; so no room is empty.
HostPresent == \A r \in DOMAIN rooms : rooms[r].host \in Range(rooms[r].members)

\* No member is listed twice, so that one std::erase is one departure and a
\* broadcast reaches everyone once.
MembersDistinct == \A r \in DOMAIN rooms : IsInjective(rooms[r].members)

\* HandleBanMember: "barred until the room closes": no barred id is in the
\* room, by any sequence of joins and host changes.
BannedStayOut ==
    \A r \in DOMAIN rooms : rooms[r].banned_members \cap Range(rooms[r].members) = {}

\* Member metadata belongs to current members, none is kept for a departed one,
\* and a slot that holds nothing is not kept either.
MemberDataOwned ==
    \A r \in DOMAIN rooms : \A c \in DOMAIN rooms[r].member_data :
        /\ c \in Range(rooms[r].members)
        /\ DOMAIN rooms[r].member_data[c] # {}

\* A metadata map within its caps: no empty key, and no empty value, which
\* would read as a deletion when the room is replayed to a joiner.
WellFormed(data, limit) ==
    /\ Cardinality(DOMAIN data) <= limit
    /\ \A k \in DOMAIN data :
          /\ Size[k] \in 1..max_room_data_key
          /\ Size[data[k]] \in 1..max_room_data_value

\* The caps on metadata hold after every insertion, overwrite and deletion, in
\* the room's own map and in every member's.
DataWithinLimits ==
    \A r \in DOMAIN rooms :
        /\ WellFormed(rooms[r].data, max_room_data_keys)
        /\ \A c \in DOMAIN rooms[r].member_data :
              WellFormed(rooms[r].member_data[c], max_member_data_keys)

\* The loop of HandleCreateRoom that draws codes until one is free ends: a
\* client outside a room always leaves a code for its own.
CodeAlwaysFree ==
    \A c \in DOMAIN connections : connections[c] = Empty => RoomCode \ DOMAIN rooms # {}

\* The rooms as Membership sees them.
Elders(members) ==
    {e \in Range(members) \X Range(members) :
        \E i, j \in DOMAIN members : i < j /\ e[1] = members[i] /\ e[2] = members[j]}

Party(room) ==
    [members |-> Range(room.members), elder |-> Elders(room.members), host |-> room.host,
     barred |-> room.banned_members]

NoParty == [members |-> {}, elder |-> {}, host |-> 0, barred |-> {}]

Parties(rs) == [r \in RoomCode |-> IF r \in DOMAIN rs THEN Party(rs[r]) ELSE NoParty]

Abstract == INSTANCE Membership WITH Client <- Id, party <- Parties(rooms)

\* The handlers implement Membership: nobody is in two rooms, a barred client
\* stays out, and the host is handed over or succeeded by the oldest member,
\* though membership is kept in two places and the order in a vector.
ImplementsMembership == Abstract!Spec

\* HandleKickMember and HandleBanMember go on using their Room* after
\* LeaveRoom: the room they removed someone from is still there, with the same
\* host and without the target.
RemovalKeepsRoom ==
    [][\A c \in sessions, id \in DOMAIN connections :
          /\ Hosts(c) /\ Removable(c, id)
          /\ HandleKickMember(c, id) \/ HandleBanMember(c, id)
          => /\ connections[id] \in DOMAIN rooms'
             /\ rooms'[connections[id]].host = c
             /\ id \notin Range(rooms'[connections[id]].members)]_vars

\* Metadata, access and bans of a room change only by a message of its host,
\* and so does the host while the old one stays: the step is one HandleMessage
\* of the host could take and of nobody else.
HostControlsRoom ==
    [][\A r \in DOMAIN rooms \cap DOMAIN rooms' :
          LET Controlled(room) ==
                 <<room.data, room.open, room.password, room.banned_members>>
          IN  \/ Controlled(rooms'[r]) # Controlled(rooms[r])
              \/ rooms[r].host \in Range(rooms'[r].members) \ {rooms'[r].host}
              => {c \in sessions : HandleMessage(c)} = {rooms[r].host}]_vars

IsData(msg) == msg.type \in {"RoomDataChanged", "MemberDataChanged"}

\* protocol.h: "the pair caps keep every data message under max_message_size",
\* when a write is announced and when the room is replayed to a joiner.
DataMessagesFit ==
    [][\A c \in Id : \A i \in DOMAIN sent'[c] :
          IsData(sent'[c][i]) => EncodedSize(sent'[c][i]) < max_message_size]_vars

\* Client/include/private/client.h says of SetRoomData "server replies
\* RoomDataChanged or RoomError": a request is never left without an answer.
SetRoomDataReplied ==
    [][\A c \in sessions, key \in Key, value \in Value :
          HandleSetRoomData(c, key, value) => sent'[c] # <<>>]_vars

=============================================================================
