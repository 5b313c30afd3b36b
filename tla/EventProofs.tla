---------------------------- MODULE EventProofs -----------------------------
(***************************************************************************)
(* What the server sends a client adds up: from the room as the client     *)
(* knows it, the events of a handler lead, each of them applicable, to the *)
(* room as the handler leaves it.                                          *)
(***************************************************************************)
EXTENDS ViewProofs, RoomServerProofs

\* Who tries a leaf that names no prover: SMT, then Zenon, then SMT with more time.  Leaves whose
\* goal leads SMT astray name Zenon, with a second attempt that has more time.
USE SMTT(20), ZenonT(20), Z3T(60)

\* SendTo, SendToMany and one after the other, for one connection.
LEMMA SendFacts ==
    ASSUME NEW d \in Id
    PROVE  /\ \A ids, msgs : d \in ids /\ d \in DOMAIN connections => SendToMany(ids, msgs)[d] = msgs
           /\ \A ids, msgs : d \notin ids \/ d \notin DOMAIN connections =>
                 SendToMany(ids, msgs)[d] = <<>>
           /\ \A msgs : d \in DOMAIN connections => SendTo(d, msgs)[d] = msgs
           /\ \A c, msgs : d # c \/ d \notin DOMAIN connections => SendTo(c, msgs)[d] = <<>>
           /\ \A a, b : Then(a, b)[d] = a[d] \o b[d]
BY Zenon, ZenonT(60) DEF SendToMany, SendTo, Then

\* What the server knows that connection c is to know.
Truth(c) ==
    IF c \notin sessions THEN Outside(0)
    ELSE IF connections[c] = Empty THEN Outside(c)
    ELSE Inside(c, connections[c], rooms[connections[c]])

\* The step tells connection c what changes for it.
Told(c) ==
    \E w : Trace(c, Truth(c), sent'[c], w) /\ (c \in DOMAIN connections' => w = Truth(c)')

\* The step tells every connection what changes for it, and nobody else anything.
Tells ==
    \A d \in Id : /\ d \in DOMAIN connections => Told(d)
                  /\ d \notin DOMAIN connections => sent'[d] = <<>>

\* The members of a room are the connections that are in it.
LEMMA Placed ==
    ASSUME Inv, NEW r \in DOMAIN rooms, NEW d
    PROVE  /\ d \in Range(rooms[r].members) <=> d \in sessions /\ connections[d] = r
           /\ r \in RoomCode /\ r # Empty
           /\ GoodRoom(rooms[r])
<1>1. r \in RoomCode /\ r # Empty /\ GoodRoom(rooms[r])
  BY RoomCodeAssumption DEF Inv, GoodRooms
<1>2. sessions \subseteq DOMAIN connections
  BY DEF Inv, StateType
<1> QED BY <1>1, <1>2 DEF Inv, RoomsAgree

\* What each connection knows.
LEMMA TruthFacts ==
    ASSUME Inv, NEW d
    PROVE  /\ d \notin sessions => Truth(d) = Outside(0)
           /\ d \in sessions /\ connections[d] = Empty => Truth(d) = Outside(d)
           /\ d \in sessions /\ connections[d] # Empty =>
                 /\ Truth(d) = Inside(d, connections[d], rooms[connections[d]])
                 /\ connections[d] \in DOMAIN rooms
           /\ d \in DOMAIN connections \ sessions => connections[d] = Empty
BY DEF Truth, Inv, StateType, RoomsAgree

\* A connection that the step leaves where it is, in a room that stays as it is.
LEMMA TruthKept ==
    ASSUME Inv, NEW d, d \in sessions' <=> d \in sessions,
           d \in sessions => connections'[d] = connections[d],
           d \in sessions /\ connections[d] # Empty =>
              rooms'[connections[d]] = rooms[connections[d]]
    PROVE  Truth(d)' = Truth(d)
BY DEF Truth

\* A step that changes nothing for d and sends it at most one message, which
\* changes nothing either.
LEMMA QuietTold ==
    ASSUME NEW d, Truth(d)' = Truth(d),
           \/ sent'[d] = <<>>
           \/ \E m : sent'[d] = <<m>> /\ Legal(d, Truth(d), m) /\ Apply(Truth(d), m) = Truth(d)
    PROVE  Told(d)
<1>1. CASE sent'[d] = <<>>
  BY <1>1, TraceEmpty DEF Told
<1>2. CASE \E m : sent'[d] = <<m>> /\ Legal(d, Truth(d), m) /\ Apply(Truth(d), m) = Truth(d)
  <2>1. PICK m : sent'[d] = <<m>> /\ Legal(d, Truth(d), m) /\ Apply(Truth(d), m) = Truth(d)
    BY <1>2
  <2>2. Trace(d, Truth(d), sent'[d], Truth(d))
    BY <2>1, TraceOne
  <2> QED BY <2>2 DEF Told
<1> QED BY <1>1, <1>2

\* A request that is answered to the sender only, with what it need not know.
LEMMA AnswerTells ==
    ASSUME Inv, NEW c, NEW m, ~Carved(m), Answer(c, <<m>>) \/ Answer(c, <<>>)
    PROVE  Tells
<1>1. \A d \in Id : Truth(d)' = Truth(d)
  BY DEF Answer, Truth
<1>2. ASSUME NEW d \in Id
      PROVE  sent'[d] = <<>> \/ (sent'[d] = <<m>> /\ d \in DOMAIN connections)
  <2>1. PICK msgs \in {<<m>>, <<>>} : sent' = SendTo(c, msgs)
    BY DEF Answer
  <2>2. CASE d = c /\ d \in DOMAIN connections
    <3>1. sent'[d] = msgs
      BY Zenon, ZenonT(60), <2>1, <2>2, SendFacts
    <3> QED BY <2>1, <2>2, <3>1
  <2>3. CASE d # c \/ d \notin DOMAIN connections
    BY Zenon, ZenonT(60), <2>1, <2>3, SendFacts
  <2> QED BY <2>2, <2>3
<1> QED BY <1>1, <1>2, ApplyUncarved, QuietTold DEF Tells

\* A request that is refused or ignored.
LEMMA RefusedTells ==
    ASSUME Inv, NEW c, (\E code : Fail(c, code)) \/ Ignore(c) PROVE Tells
<1>1. ASSUME NEW code, Fail(c, code) PROVE Tells
  <2>1. ~Carved(RoomError(code))
    BY DEF RoomError, Carved
  <2> QED BY <1>1, <2>1, AnswerTells DEF Fail
<1>2. CASE Ignore(c)
  <2>1. ~Carved(Bare("Heartbeat"))
    BY DEF Bare, Carved
  <2> QED BY Zenon, ZenonT(60), <1>2, <2>1, AnswerTells DEF Ignore
<1> QED BY <1>1, <1>2

\* A handler that changes the sender's room, not who is in it, and tells
\* everyone in it.
LEMMA RoomTells ==
    ASSUME Inv, NEW c, InRoom(c), NEW room, NEW msgs, Broadcast(c, msgs),
           rooms'[connections[c]] = room,
           \A r \in DOMAIN rooms : r # connections[c] => rooms'[r] = rooms[r],
           UNCHANGED <<connections, sessions>>,
           \A d \in Range(MyRoom(c).members) :
              Trace(d, Inside(d, connections[c], MyRoom(c)), msgs,
                    Inside(d, connections[c], room))
    PROVE  Tells
<1> DEFINE code == connections[c]
           members == Range(MyRoom(c).members)
<1>1. /\ code \in DOMAIN rooms /\ MyRoom(c) = rooms[code]
      /\ sent' = SendToMany(members, msgs)
  BY DEF InRoom, MyRoom, Broadcast
<1>2. ASSUME NEW d \in Id, d \in members PROVE d \in DOMAIN connections /\ Told(d)
  <2>1. d \in sessions /\ connections[d] = code /\ code # Empty
    BY <1>1, <1>2, Placed
  <2>2. d \in DOMAIN connections
    BY <2>1 DEF Inv, StateType
  <2>3. sent'[d] = msgs
    BY Zenon, ZenonT(60), <1>1, <1>2, <2>2, SendFacts
  <2>4. Truth(d) = Inside(d, code, MyRoom(c)) /\ Truth(d)' = Inside(d, code, room)
    BY <1>1, <2>1 DEF Truth
  <2>5. Trace(d, Truth(d), sent'[d], Truth(d)')
    BY <1>2, <2>3, <2>4
  <2> QED BY <2>2, <2>5 DEF Told
<1>3. ASSUME NEW d \in Id, d \notin members PROVE Told(d) /\ sent'[d] = <<>>
  <2>1. sent'[d] = <<>>
    BY Zenon, ZenonT(60), <1>1, <1>3, SendFacts
  <2>2. d \in sessions => connections[d] # code
    BY <1>1, <1>3, Placed
  <2>3. Truth(d)' = Truth(d)
    BY <2>2, TruthFacts DEF Truth
  <2> QED BY <2>1, <2>3, QuietTold
<1> QED BY <1>2, <1>3 DEF Tells

-----------------------------------------------------------------------------
(***************************************************************************)
(* Connections, and the requests that leave everyone where it is.          *)
(***************************************************************************)

\* A connection that has just been accepted is told nothing.
LEMMA AcceptTells == ASSUME Inv, AcceptLoop PROVE Tells
<1>1. \A d \in Id : sent'[d] = <<>>
  BY DEF AcceptLoop
<1>2. sessions \subseteq DOMAIN connections /\ DOMAIN connections \subseteq 1..(next_id - 1)
      /\ next_id \in Nat
  BY DEF Inv, StateType
<1>3. \A d \in DOMAIN connections : connections'[d] = connections[d]
  BY <1>2 DEF AcceptLoop, Put
<1>4. sessions' = sessions /\ rooms' = rooms
  BY DEF AcceptLoop
<1>5. \A d \in Id : Truth(d)' = Truth(d)
  BY <1>2, <1>3, <1>4, TruthKept
<1> QED BY <1>1, <1>5, QuietTold DEF Tells

\* The greeting of a Session tells the client its id.
LEMMA SessionTells == ASSUME Inv, NEW c \in Id, Session(c) PROVE Tells
<1> DEFINE m == AboutClient("AssignClientId", c)
           n == Bare("IceServers")
<1>1. /\ c \in DOMAIN connections /\ c \notin sessions /\ sessions' = sessions \cup {c}
      /\ sent' = SendTo(c, <<m, n>>) /\ connections' = connections /\ rooms' = rooms
  BY DEF Session
<1>2. Truth(c) = Outside(0) /\ Truth(c)' = Outside(c)
  <2>1. connections[c] = Empty
    BY <1>1, TruthFacts
  <2> QED BY <1>1, <2>1 DEF Truth
<1>3. Told(c)
  <2>1. Legal(c, Outside(0), m) /\ Apply(Outside(0), m) = Outside(c)
    BY Zenon, ZenonT(60), OutsideFacts
  <2>2. Legal(c, Outside(c), n) /\ Apply(Outside(c), n) = Outside(c)
    BY ApplyUncarved DEF Carved, Bare
  <2> HIDE DEF m, n
  <2>3. Trace(c, Outside(0), <<m, n>>, Outside(c))
    <3>1. Trace(c, Outside(0), <<m, n>>, Apply(Apply(Outside(0), m), n))
      BY <2>1, <2>2, TraceTwo
    <3> QED BY <2>1, <2>2, <3>1
  <2>4. sent'[c] = <<m, n>>
    BY Zenon, ZenonT(60), <1>1, SendFacts
  <2> QED BY <1>2, <2>3, <2>4 DEF Told
<1>4. ASSUME NEW d \in Id, d # c PROVE Told(d) /\ sent'[d] = <<>>
  <2>1. sent'[d] = <<>>
    BY Zenon, ZenonT(60), <1>1, <1>4, SendFacts
  <2>2. Truth(d)' = Truth(d)
    BY <1>1, <1>4, TruthKept
  <2> QED BY <2>1, <2>2, QuietTold
<1> QED BY <1>1, <1>3, <1>4 DEF Tells

\* HandleRoomChat changes no room.
LEMMA ChatTells == ASSUME Inv, NEW c \in sessions, HandleRoomChat(c) PROVE Tells
<1>1. CASE Fail(c, "NotInRoom")
  BY <1>1, RefusedTells
<1>2. CASE /\ InRoom(c)
           /\ Broadcast(c, <<AboutClient("RoomChat", c)>>)
           /\ UNCHANGED <<next_id, connections, sessions, rooms>>
  <2> DEFINE code == connections[c]
             msg == AboutClient("RoomChat", c)
  <2>1. code \in DOMAIN rooms /\ MyRoom(c) = rooms[code]
    BY <1>2 DEF InRoom, MyRoom
  <2>2. code # Empty /\ c \in Range(MyRoom(c).members)
    BY <2>1, Placed
  <2>3. \A d : Trace(d, Inside(d, code, MyRoom(c)), <<msg>>, Inside(d, code, MyRoom(c)))
    <3> TAKE d
    <3> DEFINE v == Inside(d, code, MyRoom(c))
    <3>1. Legal(d, v, msg) /\ Apply(v, msg) = v
      BY Zenon, ZenonT(60), <2>2, LegalInside, ApplyClient
    <3> HIDE DEF v, msg
    <3> QED BY <3>1, TraceOne DEF v
  <2>4. rooms'[code] = MyRoom(c) /\ \A r \in DOMAIN rooms : r # code => rooms'[r] = rooms[r]
    BY <1>2, <2>1
  <2> HIDE DEF msg
  <2> QED BY Zenon, ZenonT(60), <1>2, <2>3, <2>4, RoomTells DEF msg
<1> QED BY <1>1, <1>2 DEF HandleRoomChat

\* HandleP2PSignal tells the target, which is in the sender's room.
LEMMA SignalTells ==
    ASSUME Inv, NEW c \in sessions, NEW id \in Id, HandleP2PSignal(c, id) PROVE Tells
<1> DEFINE msg == AboutClient("P2PSignal", c)
<1>1. CASE Ignore(c)
  BY <1>1, RefusedTells
<1>2. CASE /\ InRoom(c) /\ id # c /\ id \in Range(MyRoom(c).members)
           /\ Answer(id, <<msg>>)
  <2> DEFINE code == connections[c]
  <2>1. code \in DOMAIN rooms /\ MyRoom(c) = rooms[code]
    BY <1>2 DEF InRoom, MyRoom
  <2>2. /\ code # Empty /\ c \in Range(MyRoom(c).members)
        /\ id \in sessions /\ connections[id] = code
    BY <1>2, <2>1, Placed
  <2>3. \A d \in Id : Truth(d)' = Truth(d)
    BY <1>2 DEF Answer, Truth
  <2>4. Truth(id) = Inside(id, code, MyRoom(c))
    BY <2>1, <2>2, TruthFacts
  <2>5. Legal(id, Truth(id), msg) /\ Apply(Truth(id), msg) = Truth(id)
    BY Zenon, ZenonT(60), <1>2, <2>2, <2>4, LegalInside, ApplyClient
  <2> HIDE DEF msg
  <2>6. ASSUME NEW d \in Id
        PROVE  Told(d) /\ (d \notin DOMAIN connections => sent'[d] = <<>>)
    <3>1. sent' = SendTo(id, <<msg>>)
      BY <1>2 DEF Answer
    <3>2. CASE d = id
      <4>1. d \in DOMAIN connections /\ sent'[d] = <<msg>>
        BY Zenon, ZenonT(60), <2>2, <3>1, <3>2, SendFacts DEF Inv, StateType
      <4> QED BY <2>3, <2>5, <3>2, <4>1, QuietTold
    <3>3. CASE d # id
      BY Zenon, ZenonT(60), <2>3, <3>1, <3>3, SendFacts, QuietTold
    <3> QED BY <3>2, <3>3
  <2> QED BY <2>6 DEF Tells
<1> QED BY <1>1, <1>2 DEF HandleP2PSignal

\* A handler that sets fields of the sender's room and tells everyone in it one
\* message that sets them in a view.
LEMMA FieldTells ==
    ASSUME Inv, NEW c, InRoom(c), NEW room, NEW msg, Broadcast(c, <<msg>>),
           rooms' = [rooms EXCEPT ![connections[c]] = room], UNCHANGED <<connections, sessions>>,
           \A d : LET v == Inside(d, connections[c], MyRoom(c))
                  IN  Legal(d, v, msg) /\ Apply(v, msg) = Inside(d, connections[c], room)
    PROVE  Tells
<1> DEFINE code == connections[c]
<1>1. code \in DOMAIN rooms /\ rooms \in [DOMAIN rooms -> Room]
  BY DEF InRoom, Inv, GoodRooms
<1>2. rooms'[code] = room /\ \A r \in DOMAIN rooms : r # code => rooms'[r] = rooms[r]
  BY <1>1
<1>3. \A d : Trace(d, Inside(d, code, MyRoom(c)), <<msg>>, Inside(d, code, room))
  BY Zenon, ZenonT(60), TraceOne
<1> QED BY Zenon, ZenonT(60), <1>2, <1>3, RoomTells

\* HandleSetRoomData tells the room of the write it makes.
LEMMA RoomDataTells ==
    ASSUME Inv, NEW c \in sessions, NEW key \in Key, NEW value \in Value,
           HandleSetRoomData(c, key, value)
    PROVE  Tells
<1>1. CASE (\E code : Fail(c, code)) \/ Ignore(c)
  BY <1>1, RefusedTells
<1>2. CASE /\ Hosts(c)
           /\ rooms' = [rooms EXCEPT ![connections[c]].data = Write(@, key, value)]
           /\ Broadcast(c, <<RoomDataChanged(key, value)>>)
           /\ UNCHANGED <<next_id, connections, sessions>>
  <2> DEFINE code == connections[c]
             old == MyRoom(c)
             data == Write(old.data, key, value)
             room == [old EXCEPT !.data = data]
             msg == RoomDataChanged(key, value)
  <2>1. InRoom(c) /\ code \in DOMAIN rooms /\ old = rooms[code] /\ code # Empty /\ GoodRoom(old)
    BY <1>2, Placed DEF Hosts, InRoom, MyRoom
  <2>2. rooms' = [rooms EXCEPT ![code] = room]
    BY <1>2 DEF MyRoom
  <2> HIDE DEF old
  <2>3. old \in Room
    BY <2>1 DEF GoodRoom
  <2>4. ASSUME NEW d
        PROVE  LET v == Inside(d, code, old) IN Legal(d, v, msg) /\ Apply(v, msg) = Inside(d, code, room)
    <3> HIDE DEF data
    <3>1. /\ room.host = old.host /\ room.open = old.open /\ room.password = old.password
          /\ room.members = old.members /\ room.data = data /\ room.member_data = old.member_data
      BY <2>3 DEF Room
    <3> HIDE DEF room
    <3> QED BY <2>1, <3>1, TellRoomData DEF data
  <2> HIDE DEF room, msg
  <2> QED BY Zenon, ZenonT(60), <1>2, <2>1, <2>2, <2>4, FieldTells DEF old, msg
<1> QED BY <1>1, <1>2 DEF HandleSetRoomData

\* HandleSetMemberData tells the room of the write it makes.
LEMMA MemberDataTells ==
    ASSUME Inv, NEW c \in sessions, NEW key \in Key, NEW value \in Value,
           HandleSetMemberData(c, key, value)
    PROVE  Tells
<1>1. CASE (\E code : Fail(c, code)) \/ Ignore(c)
  BY <1>1, RefusedTells
<1>2. CASE /\ InRoom(c)
           /\ rooms' = [rooms EXCEPT ![connections[c]].member_data =
                           WriteMemberData(@, c, Write(MemberData(c), key, value))]
           /\ Broadcast(c, <<MemberDataChanged(c, key, value)>>)
           /\ UNCHANGED <<next_id, connections, sessions>>
  <2> DEFINE code == connections[c]
             old == MyRoom(c)
             data == StoreMemberData(old.member_data, c, key, value)
             room == [old EXCEPT !.member_data = data]
             msg == MemberDataChanged(c, key, value)
  <2>1. /\ code \in DOMAIN rooms /\ old = rooms[code] /\ code # Empty /\ GoodRoom(old)
        /\ c \in Range(old.members)
    BY <1>2, Placed DEF InRoom, MyRoom
  <2>2. rooms' = [rooms EXCEPT ![code] = room]
    <3>1. data = WriteMemberData(old.member_data, c, Write(MemberData(c), key, value))
      BY DEF StoreMemberData, MemberData
    <3> HIDE DEF data
    <3> QED BY <1>2, <3>1 DEF MyRoom
  <2> HIDE DEF old
  <2>3. old \in Room
    BY <2>1 DEF GoodRoom
  <2>4. ASSUME NEW d
        PROVE  LET v == Inside(d, code, old)
               IN  Legal(d, v, msg) /\ Apply(v, msg) = Inside(d, code, room)
    <3> HIDE DEF data
    <3>1. /\ room.host = old.host /\ room.open = old.open /\ room.password = old.password
          /\ room.members = old.members /\ room.data = old.data /\ room.member_data = data
      BY <2>3 DEF Room
    <3> HIDE DEF room
    <3> QED BY <2>1, <3>1, TellMemberData DEF data
  <2> HIDE DEF room, msg
  <2> QED BY Zenon, ZenonT(60), <1>2, <2>2, <2>4, FieldTells DEF old, msg
<1> QED BY <1>1, <1>2 DEF HandleSetMemberData

\* HandleTransferHost tells the room of its new host.
LEMMA TransferTells ==
    ASSUME Inv, NEW c \in sessions, NEW id \in Id, HandleTransferHost(c, id) PROVE Tells
<1>1. CASE (\E code : Fail(c, code)) \/ Ignore(c)
  BY <1>1, RefusedTells
<1>2. CASE /\ Hosts(c)
           /\ id \in Range(MyRoom(c).members)
           /\ rooms' = [rooms EXCEPT ![connections[c]].host = id]
           /\ Broadcast(c, <<AboutClient("HostChanged", id)>>)
           /\ UNCHANGED <<next_id, connections, sessions>>
  <2> DEFINE code == connections[c]
             old == MyRoom(c)
             room == [old EXCEPT !.host = id]
             msg == AboutClient("HostChanged", id)
  <2>1. InRoom(c) /\ code \in DOMAIN rooms /\ old = rooms[code] /\ code # Empty /\ GoodRoom(old)
    BY <1>2, Placed DEF Hosts, InRoom, MyRoom
  <2>2. rooms' = [rooms EXCEPT ![code] = room]
    BY <1>2 DEF MyRoom
  <2>5. id \in Range(old.members)
    BY <1>2
  <2> HIDE DEF old
  <2>3. old \in Room
    BY <2>1 DEF GoodRoom
  <2>4. ASSUME NEW d
        PROVE  LET v == Inside(d, code, old)
               IN  Legal(d, v, msg) /\ Apply(v, msg) = Inside(d, code, room)
    <3>1. /\ room.host = id /\ room.open = old.open /\ room.password = old.password
          /\ room.members = old.members /\ room.data = old.data
          /\ room.member_data = old.member_data
      BY <2>3 DEF Room
    <3> HIDE DEF room
    <3> QED BY <2>1, <2>5, <3>1, TellHost
  <2> HIDE DEF room, msg
  <2> QED BY Zenon, ZenonT(60), <1>2, <2>1, <2>2, <2>4, FieldTells DEF old, msg
<1> QED BY <1>1, <1>2 DEF HandleTransferHost

\* A change of who may enter, as the members are told of it.
LEMMA AccessTells ==
    ASSUME Inv, NEW c, InRoom(c), NEW room,
           rooms' = [rooms EXCEPT ![connections[c]] = room], UNCHANGED <<connections, sessions>>,
           Broadcast(c, <<RoomAccessChanged(room)>>),
           room.host = MyRoom(c).host, room.members = MyRoom(c).members,
           room.data = MyRoom(c).data, room.member_data = MyRoom(c).member_data
    PROVE  Tells
<1> DEFINE code == connections[c]
           old == MyRoom(c)
           msg == RoomAccessChanged(room)
<1>1. code # Empty
  BY Placed DEF InRoom
<1>2. ASSUME NEW d
      PROVE  LET v == Inside(d, code, old)
             IN  Legal(d, v, msg) /\ Apply(v, msg) = Inside(d, code, room)
  <2> HIDE DEF old
  <2> QED BY <1>1, TellAccess DEF old
<1> HIDE DEF msg
<1> QED BY Zenon, ZenonT(60), <1>2, FieldTells DEF msg

\* HandleSetRoomJoinable tells the room whether it is open.
LEMMA JoinableTells ==
    ASSUME Inv, NEW c \in sessions, NEW open \in BOOLEAN, HandleSetRoomJoinable(c, open)
    PROVE  Tells
<1>1. CASE (\E code : Fail(c, code)) \/ Ignore(c)
  BY <1>1, RefusedTells
<1>2. CASE /\ Hosts(c)
           /\ rooms' = [rooms EXCEPT ![connections[c]].open = open]
           /\ Broadcast(c, <<RoomAccessChanged([MyRoom(c) EXCEPT !.open = open])>>)
           /\ UNCHANGED <<next_id, connections, sessions>>
  <2> DEFINE old == MyRoom(c)
             room == [old EXCEPT !.open = open]
  <2>1. InRoom(c) /\ old \in Room
    BY <1>2, MyRoomGood DEF Hosts, GoodRoom
  <2>2. rooms' = [rooms EXCEPT ![connections[c]] = room]
    BY <1>2 DEF MyRoom
  <2>3. /\ room.host = old.host /\ room.members = old.members
        /\ room.data = old.data /\ room.member_data = old.member_data
    BY <2>1 DEF Room
  <2> HIDE DEF room
  <2> QED BY Zenon, ZenonT(60), <1>2, <2>1, <2>2, <2>3, AccessTells DEF room
<1> QED BY <1>1, <1>2 DEF HandleSetRoomJoinable

\* HandleSetRoomPassword tells the room when it gets or loses a password, and
\* nothing when the password is another one.
LEMMA PasswordTells ==
    ASSUME Inv, NEW c \in sessions, NEW password \in Password, HandleSetRoomPassword(c, password)
    PROVE  Tells
<1> DEFINE old == MyRoom(c)
           room == [old EXCEPT !.password = password]
           changed == (old.password # Empty) # (password # Empty)
<1>1. CASE \E code : Fail(c, code)
  BY <1>1, RefusedTells
<1>2. CASE /\ Hosts(c)
           /\ rooms' = [rooms EXCEPT ![connections[c]].password = password]
           /\ Broadcast(c, IF changed THEN <<RoomAccessChanged(room)>> ELSE <<>>)
           /\ UNCHANGED <<next_id, connections, sessions>>
  <2>1. InRoom(c) /\ old \in Room
    BY <1>2, MyRoomGood DEF Hosts, GoodRoom
  <2>2. rooms' = [rooms EXCEPT ![connections[c]] = room]
    BY <1>2 DEF MyRoom
  <2>3. /\ room.host = old.host /\ room.members = old.members
        /\ room.data = old.data /\ room.member_data = old.member_data
        /\ room.open = old.open /\ room.password = password
    BY <2>1 DEF Room
  <2> HIDE DEF room
  <2>4. CASE changed
    BY Zenon, ZenonT(60), <1>2, <2>1, <2>2, <2>3, <2>4, AccessTells DEF room
  <2>5. CASE ~changed
    <3> DEFINE code == connections[c]
    <3>1. (room.password # Empty) = (old.password # Empty)
      BY <2>3, <2>5
    <3>2. \A d : Inside(d, code, room) = Inside(d, code, old)
      BY <2>3, <3>1 DEF Inside
    <3>3. \A d : Trace(d, Inside(d, code, old), <<>>, Inside(d, code, room))
      BY <3>2, TraceEmpty
    <3>4. rooms'[code] = room /\ \A r \in DOMAIN rooms : r # code => rooms'[r] = rooms[r]
      BY <2>1, <2>2 DEF InRoom, Inv, GoodRooms
    <3>5. Broadcast(c, <<>>)
      BY <1>2, <2>5
    <3> QED BY Zenon, ZenonT(60), <1>2, <2>1, <3>3, <3>4, <3>5, RoomTells
  <2> QED BY <2>4, <2>5
<1> QED BY <1>1, <1>2 DEF HandleSetRoomPassword

-----------------------------------------------------------------------------
(***************************************************************************)
(* Coming and going.                                                       *)
(***************************************************************************)

\* HandleCreateRoom tells the creator of its room and that it is the host.
LEMMA CreateTells == ASSUME Inv, NEW c \in sessions, HandleCreateRoom(c) PROVE Tells
<1>1. CASE Fail(c, "AlreadyInRoom")
  BY <1>1, RefusedTells
<1>2. ASSUME NEW code \in RoomCode \ DOMAIN rooms, connections[c] = Empty,
             rooms' = Put(rooms, code, NewRoom(c)),
             connections' = [connections EXCEPT ![c] = code],
             sent' = SendTo(c, <<AssignRoomId(code), AboutClient("HostChanged", c)>>),
             sessions' = sessions
      PROVE  Tells
  <2> DEFINE m == AssignRoomId(code)
             n == AboutClient("HostChanged", c)
             e == EmptyMap
             a == ViewOf(c, code, 0, TRUE, FALSE, {c}, e, e)
             b == ViewOf(c, code, c, TRUE, FALSE, {c}, e, e)
  <2>1. c \in DOMAIN connections /\ c \in Id
    BY ConnectedIds DEF Inv, StateType
  <2>2. /\ connections'[c] = code
        /\ \A d \in DOMAIN connections : d # c => connections'[d] = connections[d]
        /\ rooms'[code] = NewRoom(c)
        /\ \A r \in DOMAIN rooms : rooms'[r] = rooms[r]
    BY <1>2, <2>1 DEF Put, Inv, StateType
  <2>3. Told(c)
    <3>1. Truth(c) = Outside(c)
      BY <1>2, TruthFacts
    <3>2. code # Empty
      BY RoomCodeAssumption
    <3>3. Truth(c)' = Inside(c, code, NewRoom(c))
      BY <1>2, <2>2, <3>2 DEF Truth
    <3>4. Inside(c, code, NewRoom(c)) = b
      <4>1. Range(NewRoom(c).members) = {c}
        BY <2>1, NewRoomGood
      <4>2. NewRoom(c).password = Empty /\ NewRoom(c).host = c /\ NewRoom(c).open = TRUE
            /\ NewRoom(c).data = e /\ NewRoom(c).member_data = e
        BY DEF NewRoom
      <4> QED BY Zenon, ZenonT(60), <4>1, <4>2 DEF Inside
    <3>5. Legal(c, Outside(c), m) /\ Apply(Outside(c), m) = a
      BY Zenon, ZenonT(60), OutsideFacts
    <3>6. /\ a.id = c /\ a.room = code /\ a.open = TRUE /\ a.passworded = FALSE
          /\ a.members = {c} /\ a.data = e /\ a.member_data = e
      BY DEF ViewOf
    <3> HIDE DEF a, m
    <3>7. Legal(c, a, n)
      BY <3>6 DEF Legal, AboutClient
    <3>8. Apply(a, n) = b
      <4>1. Apply(a, n) = ViewOf(a.id, a.room, c, a.open, a.passworded, a.members, a.data,
                                 a.member_data)
        BY Zenon, ZenonT(60), ApplyClient
      <4> QED BY Zenon, ZenonT(60), <3>6, <4>1
    <3> HIDE DEF b, n
    <3>9. Trace(c, Outside(c), <<m, n>>, b)
      <4>1. Trace(c, Outside(c), <<m, n>>, Apply(Apply(Outside(c), m), n))
        BY <3>5, <3>7, TraceTwo
      <4> QED BY <3>5, <3>8, <4>1
    <3>10. sent'[c] = <<m, n>>
      BY Zenon, ZenonT(60), <1>2, <2>1, SendFacts DEF m, n
    <3> QED BY <3>1, <3>3, <3>4, <3>9, <3>10 DEF Told
  <2>4. ASSUME NEW d \in Id, d # c PROVE Told(d) /\ sent'[d] = <<>>
    <3>1. sent'[d] = <<>>
      BY Zenon, ZenonT(60), <1>2, <2>4, SendFacts
    <3>2. sessions \subseteq DOMAIN connections
      BY DEF Inv, StateType
    <3>3. Truth(d)' = Truth(d)
      BY <1>2, <2>2, <2>4, <3>2, TruthKept, TruthFacts
    <3> QED BY <3>1, <3>3, QuietTold
  <2> QED BY <2>1, <2>3, <2>4 DEF Tells
<1> QED BY Zenon, ZenonT(60), <1>1, <1>2 DEF HandleCreateRoom

\* Whom LeaveRoom tells, and of what.
LEMMA LeaveSends ==
    ASSUME Inv, NEW c \in Id, NEW d \in Id
    PROVE  LET code == connections[c]
               left == Erase(rooms[code].members, c)
               msgs == <<AboutClient("PeerLeft", c)>>
                       \o IF rooms[code].host = c
                          THEN <<AboutClient("HostChanged", Head(left))>>
                          ELSE <<>>
           IN  /\ code \notin DOMAIN rooms => LeaveRoomSends(c)[d] = <<>>
               /\ code \in DOMAIN rooms /\ (d = c \/ d \notin Range(rooms[code].members)) =>
                     LeaveRoomSends(c)[d] = <<>>
               /\ code \in DOMAIN rooms /\ d # c /\ d \in Range(rooms[code].members) =>
                     LeaveRoomSends(c)[d] = msgs /\ left # <<>>
<1> DEFINE code == connections[c]
           left == Erase(rooms[code].members, c)
           msgs == <<AboutClient("PeerLeft", c)>>
                   \o IF rooms[code].host = c
                      THEN <<AboutClient("HostChanged", Head(left))>>
                      ELSE <<>>
<1>1. CASE code \notin DOMAIN rooms
  <2>1. LeaveRoomSends(c) = SendToMany({}, <<>>)
    BY <1>1 DEF LeaveRoomSends
  <2>2. SendToMany({}, <<>>)[d] = <<>>
    BY DEF SendToMany
  <2>3. LeaveRoomSends(c)[d] = <<>>
    BY <2>1, <2>2
  <2> QED BY <1>1, <2>3
<1>2. CASE code \in DOMAIN rooms
  <2>1. rooms[code] \in Room /\ IsInjective(rooms[code].members)
    BY <1>2, Placed DEF GoodRoom
  <2>2. Range(left) = Range(rooms[code].members) \ {c}
    <3>1. rooms[code].members \in Seq(Id)
      BY <2>1 DEF Room
    <3> QED BY <2>1, <3>1, EraseFacts
  <2>3. LeaveRoomSends(c) = SendToMany(Range(left), msgs)
    BY <1>2 DEF LeaveRoomSends
  <2>4. d \in Range(rooms[code].members) => d \in DOMAIN connections
    BY <1>2, Placed DEF Inv, StateType
  <2>5. Range(<<>>) = {}
    BY DEF Range
  <2> HIDE DEF msgs, left
  <2>6. d # c /\ d \in Range(rooms[code].members) =>
           SendToMany(Range(left), msgs)[d] = msgs /\ left # <<>>
    BY <2>2, <2>4, <2>5 DEF SendToMany
  <2>7. d = c \/ d \notin Range(rooms[code].members) => SendToMany(Range(left), msgs)[d] = <<>>
    BY <2>2 DEF SendToMany
  <2> QED BY Zenon, ZenonT(60), <1>2, <2>3, <2>6, <2>7 DEF msgs, left
<1> QED BY Zenon, ZenonT(60), <1>1, <1>2

\* LeaveRoom tells those who stay in c's room, and nobody else anything.
LEMMA StayTold ==
    ASSUME Inv, NEW c \in sessions, NEW d \in Id, d # c, NEW rs, DOMAIN rs = DOMAIN rooms,
           \A r \in DOMAIN rooms : SameRoom(rs[r], rooms[r]),
           rooms' = LeaveRoom(rs, c), sent'[d] = LeaveRoomSends(c)[d],
           d \in sessions' <=> d \in sessions,
           d \in sessions => connections'[d] = connections[d]
    PROVE  Told(d) /\ (d \notin DOMAIN connections => sent'[d] = <<>>)
<1> DEFINE code == connections[c]
           left == Erase(rooms[code].members, c)
           msgs == <<AboutClient("PeerLeft", c)>>
                   \o IF rooms[code].host = c
                      THEN <<AboutClient("HostChanged", Head(left))>>
                      ELSE <<>>
<1>1. CASE code \in DOMAIN rooms /\ d \in Range(rooms[code].members)
  <2>1. /\ d \in sessions /\ connections[d] = code /\ code # Empty
        /\ rooms[code] \in Room /\ IsInjective(rooms[code].members)
    BY <1>1, Placed DEF GoodRoom
  <2>2. d \in DOMAIN connections /\ c \in DOMAIN connections
    BY <2>1 DEF Inv, StateType
  <2>5. c \in Range(rooms[code].members)
    BY <1>1, <2>1, <2>2 DEF Inv, RoomsAgree
  <2>6. sent'[d] = msgs /\ left # <<>>
    BY <1>1, <2>2, LeaveSends, ConnectedIds DEF Inv
  <2>7. rooms'[code] = WithoutMember(rs[code], c)
    <3>1. Erase(rs[code].members, c) = left
      BY <1>1 DEF SameRoom
    <3> QED BY <1>1, <2>6, <3>1 DEF LeaveRoom
  <2>8. Truth(d) = Inside(d, code, rooms[code])
    BY <2>1, TruthFacts
  <2>9. Truth(d)' = Inside(d, code, WithoutMember(rs[code], c))
    BY <2>1, <2>7 DEF Truth
  <2>10. Trace(d, Inside(d, code, rooms[code]), msgs,
               Inside(d, code, WithoutMember(rs[code], c)))
    BY <1>1, <2>1, <2>5, <2>6, LeaveTrace
  <2> QED BY <2>2, <2>6, <2>8, <2>9, <2>10 DEF Told
<1>2. CASE code \notin DOMAIN rooms \/ d \notin Range(rooms[code].members)
  <2>1. sent'[d] = <<>>
    <3>1. c \in Id
      BY ConnectedIds DEF Inv, StateType
    <3> QED BY Zenon, ZenonT(60), <1>2, <3>1, LeaveSends
  <2>2. ASSUME d \in sessions, connections[d] # Empty
        PROVE  /\ connections[d] \in DOMAIN rooms
               /\ rooms'[connections[d]] = rs[connections[d]]
    <3>1. connections[d] \in DOMAIN rooms
      BY <2>2, TruthFacts
    <3>2. CASE code \notin DOMAIN rooms
      BY <3>1, <3>2 DEF LeaveRoom
    <3>3. CASE code \in DOMAIN rooms /\ d \notin Range(rooms[code].members)
      <4>1. connections[d] # code
        BY <2>2, <3>3, Placed
      <4> QED BY <3>1, <3>3, <4>1 DEF LeaveRoom, Drop
    <3> QED BY <1>2, <3>2, <3>3
  <2>3. Truth(d)' = Truth(d)
    <3>1. CASE d \in sessions /\ connections[d] # Empty
      <4>1. Truth(d)' = Inside(d, connections[d], rs[connections[d]])
        BY <2>2, <3>1 DEF Truth
      <4>2. Truth(d) = Inside(d, connections[d], rooms[connections[d]])
        BY <3>1, TruthFacts
      <4> QED BY <2>2, <3>1, <4>1, <4>2, InsideSame
    <3>2. CASE ~(d \in sessions /\ connections[d] # Empty)
      BY <3>2 DEF Truth
    <3> QED BY <3>1, <3>2
  <2> QED BY <2>1, <2>3, QuietTold
<1> QED BY <1>1, <1>2

\* The rooms before and after a ban are the same to their members.
LEMMA SameRooms ==
    ASSUME Inv
    PROVE  \A r \in DOMAIN rooms : SameRoom(rooms[r], rooms[r])
BY DEF SameRoom, Inv, GoodRooms

\* The end of a leave, a kick and a ban.
LEMMA TakeOutTells ==
    ASSUME Inv, NEW c \in sessions, connections[c] # Empty, NEW rs, DOMAIN rs = DOMAIN rooms,
           \A r \in DOMAIN rooms : SameRoom(rs[r], rooms[r]), NEW msg,
           msg \in {AboutClient("PeerLeft", c), Bare("KickedByHost"), Bare("BannedByHost")},
           TakeOut(rs, c, msg)
    PROVE  Tells
<1>1. /\ rooms' = LeaveRoom(rs, c) /\ connections' = [connections EXCEPT ![c] = Empty]
      /\ sent' = Then(SendTo(c, <<msg>>), LeaveRoomSends(c)) /\ sessions' = sessions
  BY DEF TakeOut
<1>2. /\ c \in DOMAIN connections /\ c \in Id /\ sessions \subseteq DOMAIN connections
      /\ connections'[c] = Empty
      /\ \A d \in DOMAIN connections : d # c => connections'[d] = connections[d]
  BY <1>1, ConnectedIds DEF Inv, StateType
<1>3. ASSUME NEW d \in Id, d # c PROVE Told(d) /\ (d \notin DOMAIN connections => sent'[d] = <<>>)
  <2>1. sent'[d] = <<>> \o LeaveRoomSends(c)[d]
    <3>1. SendTo(c, <<msg>>)[d] = <<>>
      BY Zenon, ZenonT(60), <1>3, SendFacts
    <3> QED BY Zenon, ZenonT(60), <1>1, <3>1, SendFacts
  <2>2. LeaveRoomSends(c)[d] \in Seq(Fitting)
    BY LeaveRoomSendsType, <1>2 DEF SentType
  <2>3. sent'[d] = LeaveRoomSends(c)[d]
    BY <2>1, <2>2
  <2>4. d \in sessions => connections'[d] = connections[d]
    BY <1>2, <1>3
  <2> QED BY <1>1, <1>3, <2>3, <2>4, StayTold
<1>4. Told(c)
  <2> DEFINE code == connections[c]
             v == Inside(c, code, rooms[code])
  <2>1. code \in DOMAIN rooms /\ Truth(c) = v /\ Truth(c)' = Outside(c)
    BY <1>1, <1>2, TruthFacts DEF Truth
  <2>2. /\ rooms[code] \in Room /\ IsInjective(rooms[code].members)
        /\ c \in Range(rooms[code].members)
    BY <2>1, Placed DEF GoodRoom
  <2>3. LeaveRoomSends(c)[c] = <<>>
    BY Zenon, ZenonT(60), <1>2, <2>1, LeaveSends
  <2>4. sent'[c] = <<msg>>
    <3>1. sent'[c] = <<msg>> \o <<>>
      <4>1. SendTo(c, <<msg>>)[c] = <<msg>>
        BY Zenon, ZenonT(60), <1>2, SendFacts
      <4>2. sent'[c] = SendTo(c, <<msg>>)[c] \o LeaveRoomSends(c)[c]
        BY Zenon, ZenonT(60), <1>1, <1>2 DEF Then
      <4> QED BY Zenon, ZenonT(60), <2>3, <4>1, <4>2
    <3> QED BY <3>1
  <2>5. Legal(c, v, msg) /\ Apply(v, msg) = Outside(c)
    <3>1. code # Empty
      OBVIOUS
    <3>2. /\ Legal(c, v, AboutClient("PeerLeft", c)) /\ Legal(c, v, Bare("KickedByHost"))
          /\ Legal(c, v, Bare("BannedByHost"))
      BY Zenon, ZenonT(60), <2>2, <3>1, LegalInside
    <3>3. /\ Apply(v, AboutClient("PeerLeft", c)) = Outside(c)
          /\ Apply(v, Bare("KickedByHost")) = Outside(c)
          /\ Apply(v, Bare("BannedByHost")) = Outside(c)
      <4>1. v.id = c
        BY DEF Inside, ViewOf
      <4> HIDE DEF v
      <4> QED BY Zenon, ZenonT(60), <4>1, ApplyClient, ApplyOther
    <3> HIDE DEF v
    <3> QED BY <3>2, <3>3
  <2> HIDE DEF v
  <2>6. Trace(c, v, <<msg>>, Outside(c))
    <3>1. Trace(c, v, <<msg>>, Apply(v, msg))
      BY <2>5, TraceOne
    <3> QED BY <2>5, <3>1
  <2> QED BY <2>1, <2>4, <2>6 DEF Told
<1> QED BY <1>2, <1>3, <1>4 DEF Tells

\* HandleLeaveRoom confirms to the leaver and tells the others.
LEMMA LeaveTells == ASSUME Inv, NEW c \in sessions, HandleLeaveRoom(c) PROVE Tells
<1>1. CASE Fail(c, "NotInRoom")
  BY <1>1, RefusedTells
<1>2. CASE connections[c] # Empty /\ TakeOut(rooms, c, AboutClient("PeerLeft", c))
  BY <1>2, SameRooms, TakeOutTells
<1> QED BY <1>1, <1>2 DEF HandleLeaveRoom

\* HandleKickMember tells the one it removes, and the others.
LEMMA KickTells ==
    ASSUME Inv, NEW c \in sessions, NEW id, HandleKickMember(c, id) PROVE Tells
<1>1. CASE \E code : Fail(c, code)
  BY <1>1, RefusedTells
<1>2. CASE Hosts(c) /\ Removable(c, id) /\ TakeOut(rooms, id, Bare("KickedByHost"))
  <2>1. connections[c] \in DOMAIN rooms /\ id \in DOMAIN connections
        /\ connections[id] = connections[c]
    BY <1>2 DEF Hosts, InRoom, Removable
  <2>2. connections[id] # Empty /\ id \in sessions
    BY <2>1, Placed DEF Inv, RoomsAgree
  <2> QED BY <1>2, <2>2, SameRooms, TakeOutTells
<1> QED BY <1>1, <1>2 DEF HandleKickMember

\* HandleBanMember, which bars first, tells the same.
LEMMA BanTells ==
    ASSUME Inv, NEW c \in sessions, NEW id \in Id, HandleBanMember(c, id) PROVE Tells
<1>1. CASE \E code : Fail(c, code)
  BY <1>1, RefusedTells
<1>2. CASE Hosts(c) /\ Removable(c, id) /\ TakeOut(Bar(c, id), id, Bare("BannedByHost"))
  <2> DEFINE code == connections[c]
             rs == Bar(c, id)
  <2>1. code \in DOMAIN rooms /\ id \in DOMAIN connections /\ connections[id] = code
    BY <1>2 DEF Hosts, InRoom, Removable
  <2>2. connections[id] # Empty /\ id \in sessions
    BY <2>1, Placed DEF Inv, RoomsAgree
  <2>3. /\ DOMAIN rs = DOMAIN rooms
        /\ rs[code] = [rooms[code] EXCEPT !.banned_members = @ \cup {id}]
        /\ \A r \in DOMAIN rooms : r # code => rs[r] = rooms[r]
    BY <2>1 DEF Bar, Inv, GoodRooms
  <2>4. SameRoom(rs[code], rooms[code])
    <3> DEFINE room == rooms[code]
               barred == room.banned_members \cup {id}
    <3>1. room \in Room /\ barred \in SUBSET Id
      BY <2>1 DEF Inv, GoodRooms, Room
    <3>2. rs[code] = [room EXCEPT !.banned_members = barred]
      BY <2>3
    <3> HIDE DEF room, barred, rs
    <3> QED BY <3>1, <3>2 DEF SameRoom, Room, room
  <2>5. \A r \in DOMAIN rooms : SameRoom(rs[r], rooms[r])
    BY <2>3, <2>4, SameRooms
  <2> HIDE DEF rs
  <2>6. TakeOut(rs, id, Bare("BannedByHost"))
    BY <1>2 DEF rs
  <2> QED BY <2>2, <2>3, <2>5, <2>6, TakeOutTells
<1> QED BY <1>1, <1>2 DEF HandleBanMember

\* The end of a Session tells the others; the client itself is gone.
LEMMA SessionEndTells == ASSUME Inv, NEW c \in Id, SessionEnd(c) PROVE Tells
<1>1. /\ c \in sessions /\ rooms' = LeaveRoom(rooms, c) /\ connections' = Drop(connections, c)
      /\ sent' = LeaveRoomSends(c) /\ sessions' = sessions \ {c}
  BY DEF SessionEnd
<1>2. /\ c \in DOMAIN connections /\ sessions \subseteq DOMAIN connections
      /\ c \notin DOMAIN connections'
      /\ \A d \in DOMAIN connections : d # c => connections'[d] = connections[d]
  BY <1>1 DEF Drop, Inv, StateType
<1>3. ASSUME NEW d \in Id, d # c PROVE Told(d) /\ (d \notin DOMAIN connections => sent'[d] = <<>>)
  <2>1. d \in sessions => connections'[d] = connections[d]
    BY <1>2, <1>3
  <2> QED BY <1>1, <1>3, <2>1, SameRooms, StayTold
<1>4. Told(c)
  <2>1. sent'[c] = <<>>
    BY Zenon, ZenonT(60), <1>1, LeaveSends
  <2> QED BY <1>2, <2>1, TraceEmpty DEF Told
<1> QED BY <1>2, <1>3, <1>4 DEF Tells

\* What HandleJoinRoom sends the joiner adds up to the room it finds, and itself.
LEMMA HydrationTrace ==
    ASSUME Inv, NEW c, NEW code \in DOMAIN rooms, c \notin Range(rooms[code].members)
    PROVE  Trace(c, Outside(c), Hydration(code),
                 ViewOf(c, code, rooms[code].host, rooms[code].open,
                        rooms[code].password # Empty, {c} \cup Range(rooms[code].members),
                        rooms[code].data, rooms[code].member_data))
<1> DEFINE room == rooms[code]
           keys == Listing(DOMAIN room.data)
           pairs == {s \in Id \X Key : /\ s[1] \in DOMAIN room.member_data
                                       /\ s[2] \in DOMAIN room.member_data[s[1]]}
           slots == Listing(pairs)
           m == <<AssignRoomId(code)>>
           a == [i \in 1..Len(room.members) |-> AboutClient("PeerJoined", room.members[i])]
           b == <<AboutClient("HostChanged", room.host), RoomAccessChanged(room)>>
           d == [i \in 1..Len(keys) |-> RoomDataChanged(keys[i], room.data[keys[i]])]
           e == [i \in 1..Len(slots) |->
                   MemberDataChanged(slots[i][1], slots[i][2],
                                     room.member_data[slots[i][1]][slots[i][2]])]
           locked == room.password # Empty
           members == {c} \cup Range(room.members)
           v1 == ViewOf(c, code, 0, TRUE, FALSE, {c}, EmptyMap, EmptyMap)
           v2 == ViewOf(c, code, 0, TRUE, FALSE, members, EmptyMap, EmptyMap)
           v3 == ViewOf(c, code, room.host, room.open, locked, members, EmptyMap, EmptyMap)
           v4 == ViewOf(c, code, room.host, room.open, locked, members, room.data, EmptyMap)
           v5 == ViewOf(c, code, room.host, room.open, locked, members, room.data,
                        room.member_data)
<1>1. Hydration(code) = m \o a \o b \o d \o e
  BY DEF Hydration
<1>2. /\ m \in Seq(Fitting) /\ a \in Seq(Fitting) /\ b \in Seq(Fitting)
      /\ d \in Seq(Fitting) /\ e \in Seq(Fitting)
      /\ keys \in Seq(DOMAIN room.data) /\ Range(keys) = DOMAIN room.data
      /\ slots \in Seq(pairs) /\ Range(slots) = pairs
  BY Zenon, ZenonT(60), HydrationParts
<1>3. GoodRoom(room) /\ code # Empty
  BY Placed
<1>4. /\ room.members \in Seq(Id) /\ IsInjective(room.members)
      /\ room.host \in Range(room.members)
      /\ room.data \in Map(Key, Value) /\ room.member_data \in Map(Id, Map(Key, Value))
  BY <1>3 DEF GoodRoom, Room
<1>5. \A k \in DOMAIN room.data : room.data[k] # Empty
  BY <1>3, <1>4, StoredValue DEF GoodRoom
<1>6. \A id \in DOMAIN room.member_data :
         /\ id \in members /\ DOMAIN room.member_data[id] # {}
         /\ \A k \in DOMAIN room.member_data[id] : room.member_data[id][k] # Empty
  <2> TAKE id \in DOMAIN room.member_data
  <2>1. /\ id \in Range(room.members) /\ DOMAIN room.member_data[id] # {}
        /\ WellFormed(room.member_data[id], max_member_data_keys)
    BY <1>3 DEF GoodRoom
  <2>2. room.member_data[id] \in Map(Key, Value)
    BY <1>4, MapDef
  <2> QED BY <2>1, <2>2, StoredValue
<1>7. Trace(c, Outside(c), m, v1)
  <2>1. Legal(c, Outside(c), AssignRoomId(code)) /\ Apply(Outside(c), AssignRoomId(code)) = v1
    BY Zenon, ZenonT(60), OutsideFacts
  <2> HIDE DEF v1
  <2> QED BY <2>1, TraceOne
<1>8. Trace(c, v1, a, v2)
  BY Zenon, ZenonT(60), <1>3, <1>4, PeersTrace
<1>9. Trace(c, v2, b, v3)
  <2>1. room.host \in members
    BY <1>4
  <2> HIDE DEF room, members
  <2> QED BY Zenon, ZenonT(60), <1>3, <2>1, DoorTrace
<1>10. Trace(c, v3, d, v4)
  <2> HIDE DEF room, members, locked, keys
  <2> QED BY Zenon, ZenonT(60), <1>2, <1>3, <1>4, <1>5, DataTrace
<1>11. Trace(c, v4, e, v5)
  <2> DEFINE md == room.member_data
  <2>1. pairs = {s \in Id \X Key : s[1] \in DOMAIN md /\ s[2] \in DOMAIN md[s[1]]}
    OBVIOUS
  <2> HIDE DEF room, members, locked, slots, pairs
  <2> QED BY Zenon, ZenonT(60), <1>2, <1>4, <1>6, <2>1, SlotsTrace
<1> HIDE DEF m, a, b, d, e, v1, v2, v3, v4, v5
<1>12. m \o a \in Seq(Fitting) /\ Trace(c, Outside(c), m \o a, v2)
  BY <1>2, <1>7, <1>8, TraceConcat
<1>13. (m \o a) \o b \in Seq(Fitting) /\ Trace(c, Outside(c), (m \o a) \o b, v3)
  <2> DEFINE s == m \o a
  <2>1. s \in Seq(Fitting) /\ Trace(c, Outside(c), s, v2)
    BY <1>12
  <2> HIDE DEF s
  <2>2. s \o b \in Seq(Fitting) /\ Trace(c, Outside(c), s \o b, v3)
    BY <1>2, <1>9, <2>1, TraceConcat
  <2> QED BY <2>2 DEF s
<1>14. ((m \o a) \o b) \o d \in Seq(Fitting) /\ Trace(c, Outside(c), ((m \o a) \o b) \o d, v4)
  <2> DEFINE s == (m \o a) \o b
  <2>1. s \in Seq(Fitting) /\ Trace(c, Outside(c), s, v3)
    BY <1>13
  <2> HIDE DEF s
  <2>2. s \o d \in Seq(Fitting) /\ Trace(c, Outside(c), s \o d, v4)
    BY <1>2, <1>10, <2>1, TraceConcat
  <2> QED BY <2>2 DEF s
<1>15. Trace(c, Outside(c), (((m \o a) \o b) \o d) \o e, v5)
  <2> DEFINE s == ((m \o a) \o b) \o d
  <2>1. s \in Seq(Fitting) /\ Trace(c, Outside(c), s, v4)
    BY <1>14
  <2> HIDE DEF s
  <2>2. Trace(c, Outside(c), s \o e, v5)
    BY <1>2, <1>11, <2>1, TraceConcat
  <2> QED BY <2>2 DEF s
<1> QED BY <1>1, <1>15 DEF v5

\* HandleJoinRoom introduces the joiner to the members and the room to the joiner.
LEMMA JoinTells ==
    ASSUME Inv, NEW c \in sessions, NEW code \in RoomCode, NEW password,
           HandleJoinRoom(c, code, password)
    PROVE  Tells
<1> DEFINE refusal == JoinRefusal(c, code, password)
           room == rooms[code]
           msg == AboutClient("PeerJoined", c)
           ids == Range(room.members)
<1>1. CASE Fail(c, refusal)
  BY <1>1, RefusedTells
<1>2. ASSUME refusal = "none",
             rooms' = [rooms EXCEPT ![code].members = Append(@, c)],
             connections' = [connections EXCEPT ![c] = code],
             sent' = Then(SendToMany(ids, <<msg>>), SendTo(c, Hydration(code))),
             sessions' = sessions
      PROVE  Tells
  <2>1. connections[c] = Empty /\ code \in DOMAIN rooms
    BY <1>2 DEF JoinRefusal
  <2>2. /\ c \in DOMAIN connections /\ c \in Id /\ sessions \subseteq DOMAIN connections
        /\ code # Empty
    BY ConnectedIds, RoomCodeAssumption DEF Inv, StateType
  <2>3. GoodRoom(room) /\ c \notin ids
    BY <2>1, <2>2, Placed
  <2> DEFINE new == [room EXCEPT !.members = Append(@, c)]
  <2>4. /\ new.host = room.host /\ new.open = room.open /\ new.password = room.password
        /\ new.data = room.data /\ new.member_data = room.member_data
        /\ Range(new.members) = ids \cup {c}
    <3>1. room \in Room /\ room.members \in Seq(Id) /\ IsInjective(room.members)
      BY <2>3 DEF GoodRoom, Room
    <3>2. Range(Append(room.members, c)) = ids \cup {c}
      BY <2>2, <2>3, <3>1, AppendFacts
    <3> HIDE DEF room
    <3> QED BY <3>1, <3>2 DEF Room
  <2>5. /\ connections'[c] = code
        /\ \A d \in DOMAIN connections : d # c => connections'[d] = connections[d]
        /\ rooms'[code] = new
        /\ \A r \in DOMAIN rooms : r # code => rooms'[r] = rooms[r]
    BY <1>2, <2>1, <2>2 DEF Inv, StateType, GoodRooms
  <2>6. Told(c)
    <3>1. Truth(c) = Outside(c)
      BY <2>1, TruthFacts
    <3>2. Truth(c)' = Inside(c, code, new)
      BY <1>2, <2>2, <2>5 DEF Truth
    <3>3. Inside(c, code, new) =
             ViewOf(c, code, room.host, room.open, room.password # Empty, {c} \cup ids,
                    room.data, room.member_data)
      <4>1. Range(new.members) = {c} \cup ids
        BY <2>4
      <4> HIDE DEF new
      <4> QED BY <2>4, <4>1 DEF Inside
    <3>4. Trace(c, Outside(c), Hydration(code), Inside(c, code, new))
      BY Zenon, ZenonT(60), <2>1, <2>3, <3>3, HydrationTrace
    <3>5. sent'[c] = Hydration(code)
      <4>1. SendToMany(ids, <<msg>>)[c] = <<>>
        BY Zenon, ZenonT(60), <2>2, <2>3, SendFacts
      <4>2. SendTo(c, Hydration(code))[c] = Hydration(code)
        BY Zenon, ZenonT(60), <2>2, SendFacts
      <4>3. sent'[c] = SendToMany(ids, <<msg>>)[c] \o SendTo(c, Hydration(code))[c]
        BY Zenon, ZenonT(60), <1>2, <2>2 DEF Then
      <4>4. Hydration(code) \in Seq(Fitting)
        BY <2>1, HydrationType
      <4>5. sent'[c] = <<>> \o Hydration(code)
        BY Zenon, ZenonT(60), <4>1, <4>2, <4>3
      <4> QED BY <4>4, <4>5
    <3> QED BY <3>1, <3>2, <3>4, <3>5 DEF Told
  <2>7. ASSUME NEW d \in Id, d # c
        PROVE  /\ sent'[d] = SendToMany(ids, <<msg>>)[d] \o <<>>
               /\ sent'[d] = IF d \in ids THEN <<msg>> ELSE <<>>
    <3>1. sent'[d] = SendToMany(ids, <<msg>>)[d] \o SendTo(c, Hydration(code))[d]
      BY Zenon, ZenonT(60), <1>2 DEF Then
    <3>2. SendTo(c, Hydration(code))[d] = <<>>
      BY Zenon, ZenonT(60), <2>7, SendFacts
    <3>3. d \in ids => d \in DOMAIN connections
      BY <2>1, <2>2, Placed
    <3>4. SendToMany(ids, <<msg>>)[d] = IF d \in ids THEN <<msg>> ELSE <<>>
      BY <3>3 DEF SendToMany
    <3>5. sent'[d] = SendToMany(ids, <<msg>>)[d] \o <<>>
      BY Zenon, ZenonT(60), <3>1, <3>2
    <3> HIDE DEF ids, msg
    <3> QED BY <3>4, <3>5
  <2>8. ASSUME NEW d \in Id, d # c, d \in ids PROVE d \in DOMAIN connections /\ Told(d)
    <3>1. d \in sessions /\ connections[d] = code
      BY <2>1, <2>8, Placed
    <3>2. d \in DOMAIN connections /\ connections'[d] = code
      BY <2>2, <2>5, <2>8, <3>1
    <3>3. Truth(d) = Inside(d, code, room)
      BY <2>2, <3>1, TruthFacts
    <3>4. Truth(d)' = Inside(d, code, new)
      BY <1>2, <2>2, <2>5, <3>1, <3>2 DEF Truth
    <3>5. /\ Legal(d, Inside(d, code, room), msg)
          /\ Apply(Inside(d, code, room), msg) = Inside(d, code, new)
      <4> HIDE DEF room, new
      <4> QED BY <2>2, <2>3, <2>4, TellCome
    <3>7. sent'[d] = <<msg>>
      BY <2>7, <2>8
    <3> HIDE DEF msg, new, room
    <3>8. Trace(d, Truth(d), sent'[d], Truth(d)')
      <4>1. Trace(d, Inside(d, code, room), <<msg>>, Apply(Inside(d, code, room), msg))
        BY <3>5, TraceOne
      <4> QED BY <3>3, <3>4, <3>5, <3>7, <4>1
    <3> QED BY <3>2, <3>8 DEF Told
  <2>9. ASSUME NEW d \in Id, d # c, d \notin ids PROVE sent'[d] = <<>> /\ Told(d)
    <3>1. sent'[d] = <<>>
      BY <2>7, <2>9
    <3>2. d \in sessions => connections[d] # code
      BY <2>1, <2>9, Placed
    <3>3. Truth(d)' = Truth(d)
      BY <1>2, <2>2, <2>5, <2>9, <3>2, TruthKept, TruthFacts
    <3> QED BY <3>1, <3>3, QuietTold
  <2> QED BY <2>2, <2>6, <2>8, <2>9 DEF Tells
<1> QED BY <1>1, <1>2 DEF HandleJoinRoom

-----------------------------------------------------------------------------

\* Every handler tells every connection exactly what changes for it.
LEMMA HandleTells == ASSUME Inv, NEW c \in sessions, HandleMessage(c) PROVE Tells
<1>1. CASE Heartbeat(c)
  <2>1. ~Carved(Bare("Heartbeat"))
    BY DEF Bare, Carved
  <2> QED BY <1>1, <2>1, AnswerTells DEF Heartbeat
<1>2. CASE HandleCreateRoom(c)
  BY <1>2, CreateTells
<1>3. CASE \E code \in RoomCode, password \in Password : HandleJoinRoom(c, code, password)
  BY <1>3, JoinTells
<1>4. CASE HandleLeaveRoom(c)
  BY <1>4, LeaveTells
<1>5. CASE HandleRoomChat(c)
  BY <1>5, ChatTells
<1>6. CASE \E id \in Id : HandleP2PSignal(c, id)
  BY <1>6, SignalTells
<1>7. CASE \E key \in Key, value \in Value : HandleSetRoomData(c, key, value)
  BY <1>7, RoomDataTells
<1>8. CASE \E key \in Key, value \in Value : HandleSetMemberData(c, key, value)
  BY <1>8, MemberDataTells
<1>9. CASE \E id \in Id : HandleKickMember(c, id)
  BY <1>9, KickTells
<1>10. CASE \E id \in Id : HandleBanMember(c, id)
  BY <1>10, BanTells
<1>11. CASE \E id \in Id : HandleTransferHost(c, id)
  BY <1>11, TransferTells
<1>12. CASE \E open \in BOOLEAN : HandleSetRoomJoinable(c, open)
  BY <1>12, JoinableTells
<1>13. CASE \E password \in Password : HandleSetRoomPassword(c, password)
  BY <1>13, PasswordTells
<1> QED BY <1>1, <1>2, <1>3, <1>4, <1>5, <1>6, <1>7, <1>8, <1>9, <1>10, <1>11, <1>12, <1>13
        DEF HandleMessage

\* So does every step of the server.
LEMMA NextTells == ASSUME Inv, Next PROVE Tells
<1>1. CASE AcceptLoop
  BY <1>1, AcceptTells
<1>2. ASSUME NEW c \in Id, Session(c) PROVE Tells
  BY <1>2, SessionTells
<1>3. ASSUME NEW c \in Id, SessionEnd(c) PROVE Tells
  BY <1>3, SessionEndTells
<1>4. ASSUME NEW c \in Id, HandleMessage(c) PROVE Tells
  <2>1. c \in sessions
    BY <1>4 DEF HandleMessage
  <2> QED BY <1>4, <2>1, HandleTells
<1> QED BY <1>1, <1>2, <1>3, <1>4 DEF Next

=============================================================================
