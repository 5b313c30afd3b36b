-------------------------- MODULE RoomServerProofs --------------------------
(***************************************************************************)
(* Proofs about RoomServer, for every number of connections, every set of  *)
(* codes, keys, values and passwords and every limit: its invariant; that  *)
(* it implements Membership, each handler being a step of Membership on    *)
(* the rooms as Parties shows them, or changing nothing there; and who may *)
(* change a room.                                                          *)
(***************************************************************************)
EXTENDS MapProofs, FiniteSetTheorems

\* Who tries a leaf that names no prover: SMT, then Zenon, then SMT with more time.  Leaves whose
\* goal leads SMT astray name Zenon, with a second attempt that has more time.
USE SMTT(20), ZenonT(20), Z3T(60)

-----------------------------------------------------------------------------
(***************************************************************************)
(* One room.                                                               *)
(***************************************************************************)

\* What the invariants say of each room on its own.
GoodRoom(room) ==
    /\ room \in Room
    /\ room.host \in Range(room.members)
    /\ IsInjective(room.members)
    /\ room.banned_members \cap Range(room.members) = {}
    /\ \A c \in DOMAIN room.member_data :
          /\ c \in Range(room.members)
          /\ DOMAIN room.member_data[c] # {}
    /\ WellFormed(room.data, max_room_data_keys)
    /\ \A c \in DOMAIN room.member_data :
          WellFormed(room.member_data[c], max_member_data_keys)

\* The empty metadata of a new room is within every limit.
LEMMA EmptyWellFormed ==
    ASSUME NEW limit \in Nat
    PROVE  WellFormed(EmptyMap, limit)
BY FS_EmptySet DEF WellFormed, EmptyMap

\* A write that BadWrite lets through keeps a map within its caps.
LEMMA WriteFacts ==
    ASSUME NEW limit \in Nat, NEW data \in Map(Key, Value), WellFormed(data, limit),
           NEW key \in Key, NEW value \in Value, ~BadWrite(data, key, value, limit)
    PROVE  /\ Write(data, key, value) \in Map(Key, Value)
           /\ WellFormed(Write(data, key, value), limit)
<1>1. /\ DOMAIN data \subseteq Key
      /\ data \in [DOMAIN data -> Value]
  BY MapDef
<1>2. IsFiniteSet(DOMAIN data) /\ Cardinality(DOMAIN data) \in Nat
  BY <1>1, StringAssumption, FS_Subset, FS_CardinalityType
<1>5. Cardinality(DOMAIN data) <= limit
  BY DEF WellFormed
<1>3. CASE value = Empty
  <2>1. /\ DOMAIN Drop(data, key) = DOMAIN data \ {key}
        /\ \A k \in DOMAIN data \ {key} : Drop(data, key)[k] = data[k]
    BY DEF Drop
  <2>2. Cardinality(DOMAIN data \ {key})
           = IF key \in DOMAIN data THEN Cardinality(DOMAIN data) - 1
             ELSE Cardinality(DOMAIN data)
    BY <1>2, FS_RemoveElement, Zenon, ZenonT(60)
  <2>3. Cardinality(DOMAIN data \ {key}) <= limit
    BY <1>2, <1>5, <2>2
  <2>4. WellFormed(Drop(data, key), limit)
    BY <2>1, <2>3 DEF WellFormed
  <2> QED BY <1>3, <2>4, MapOps DEF Write
<1>4. CASE value # Empty
  <2>1. /\ DOMAIN Put(data, key, value) = DOMAIN data \cup {key}
        /\ Put(data, key, value)[key] = value
        /\ \A k \in DOMAIN data \ {key} : Put(data, key, value)[k] = data[k]
    BY DEF Put
  <2>2. Cardinality(DOMAIN data \cup {key})
           = IF key \in DOMAIN data THEN Cardinality(DOMAIN data)
             ELSE Cardinality(DOMAIN data) + 1
    BY <1>2, FS_AddElement, Zenon, ZenonT(60)
  <2>3. Cardinality(DOMAIN data \cup {key}) <= limit
    <3>1. key \in DOMAIN data \/ ~(Cardinality(DOMAIN data) + 1 > limit)
      BY <1>4, Zenon, ZenonT(60) DEF BadWrite
    <3> QED BY <1>2, <1>5, <2>2, <3>1
  <2>4. /\ Size[key] \in 1..max_room_data_key
        /\ Size[value] \in 1..max_room_data_value
    <3>1. ~(Size[key] > max_room_data_key) /\ ~(Size[value] > max_room_data_value)
      BY Zenon, ZenonT(60) DEF BadWrite
    <3>2. key # Empty
      BY Zenon, ZenonT(60) DEF BadWrite
    <3>3. Size[key] \in Nat \ {0} /\ Size[value] \in Nat \ {0}
      BY <1>4, <3>2, StringAssumption
    <3> QED BY <3>1, <3>3, LimitAssumption
  <2>5. WellFormed(Put(data, key, value), limit)
    BY <2>1, <2>3, <2>4 DEF WellFormed
  <2> QED BY <1>4, <2>5, MapOps DEF Write
<1> QED BY <1>3, <1>4

\* The room HandleCreateRoom makes is a good one, with its creator alone in it.
LEMMA NewRoomGood ==
    ASSUME NEW c \in Id
    PROVE  GoodRoom(NewRoom(c)) /\ Range(NewRoom(c).members) = {c}
<1> DEFINE room == NewRoom(c)
<1>1. Range(<<c>>) = {c} /\ IsInjective(<<c>>) /\ <<c>> \in Seq(Id)
  BY DEF Range, IsInjective
<1>2. \A S, T : EmptyMap \in Map(S, T)
  BY Zenon, ZenonT(60), MapDef DEF EmptyMap
<1>3. DOMAIN EmptyMap = {}
  BY DEF EmptyMap
<1>4. room \in Room
  BY <1>1, <1>2, StringAssumption DEF NewRoom, Room
<1>5. WellFormed(EmptyMap, max_room_data_keys)
  BY EmptyWellFormed, LimitAssumption
<1> QED BY <1>1, <1>3, <1>4, <1>5 DEF NewRoom, GoodRoom

\* push_back in HandleJoinRoom keeps a room good, when the joiner passed the
\* checks: it is not in the room yet and it is not barred.
LEMMA JoinedRoomGood ==
    ASSUME NEW room, GoodRoom(room), NEW c \in Id,
           c \notin Range(room.members), c \notin room.banned_members
    PROVE  /\ GoodRoom([room EXCEPT !.members = Append(@, c)])
           /\ Range([room EXCEPT !.members = Append(@, c)].members)
                = Range(room.members) \cup {c}
<1> DEFINE new == [room EXCEPT !.members = Append(@, c)]
<1>1. room \in Room
  BY DEF GoodRoom
<1>2. /\ Append(room.members, c) \in Seq(Id)
      /\ Range(Append(room.members, c)) = Range(room.members) \cup {c}
      /\ IsInjective(Append(room.members, c))
  BY <1>1, AppendFacts DEF GoodRoom, Room
<1>3. /\ new \in Room
      /\ new.members = Append(room.members, c)
      /\ new.host = room.host
      /\ new.banned_members = room.banned_members
      /\ new.data = room.data
      /\ new.member_data = room.member_data
  BY <1>1, <1>2 DEF Room
<1> HIDE DEF new
<1>4. GoodRoom(new)
  BY <1>2, <1>3 DEF GoodRoom
<1> QED BY <1>2, <1>3, <1>4 DEF new

\* A good room, except that c may be a member and banned: HandleBanMember bars
\* a member before LeaveRoom takes it out.
AlmostGoodRoom(room, c) ==
    /\ room \in Room
    /\ room.host \in Range(room.members)
    /\ IsInjective(room.members)
    /\ room.banned_members \cap Range(room.members) \subseteq {c}
    /\ \A m \in DOMAIN room.member_data :
          /\ m \in Range(room.members)
          /\ DOMAIN room.member_data[m] # {}
    /\ WellFormed(room.data, max_room_data_keys)
    /\ \A m \in DOMAIN room.member_data : WellFormed(room.member_data[m], max_member_data_keys)

\* Outside a ban, LeaveRoom starts from a good room.
LEMMA GoodIsAlmostGood ==
    ASSUME NEW room, GoodRoom(room), NEW c PROVE AlmostGoodRoom(room, c)
BY DEF GoodRoom, AlmostGoodRoom

\* c leaves a room that others stay in.
LEMMA LeftRoomGood ==
    ASSUME NEW room, NEW c, AlmostGoodRoom(room, c), Erase(room.members, c) # <<>>
    PROVE  /\ GoodRoom(WithoutMember(room, c))
           /\ WithoutMember(room, c).members = Erase(room.members, c)
<1> DEFINE left == Erase(room.members, c)
           heir == IF room.host = c THEN Head(left) ELSE room.host
           new == WithoutMember(room, c)
<1>1. room \in Room
  BY DEF AlmostGoodRoom
<1>2. /\ left \in Seq(Id)
      /\ Range(left) = Range(room.members) \ {c}
      /\ IsInjective(left)
  BY <1>1, EraseFacts DEF AlmostGoodRoom, Room
<1> HIDE DEF left
<1>3. Head(left) \in Range(left) /\ Head(left) \in Id
  <2>1. left # <<>>
    BY DEF left
  <2>2. 1 \in DOMAIN left /\ Head(left) = left[1] /\ left[1] \in Id
    BY <1>2, <2>1
  <2> QED BY <2>2 DEF Range
<1>4. heir \in Range(left) /\ heir \in Id
  BY <1>1, <1>2, <1>3 DEF AlmostGoodRoom, Room
<1>5. Drop(room.member_data, c) \in Map(Id, Map(Key, Value))
  BY <1>1, MapOps DEF Room
<1>6. /\ new \in Room
      /\ new.members = left
      /\ new.host = heir
      /\ new.banned_members = room.banned_members
      /\ new.data = room.data
      /\ new.member_data = Drop(room.member_data, c)
  BY Zenon, ZenonT(60), <1>1, <1>2, <1>4, <1>5 DEF Room, WithoutMember, left
<1> HIDE DEF new, heir
<1>7. \A m \in DOMAIN new.member_data :
         m \in DOMAIN room.member_data \ {c} /\ new.member_data[m] = room.member_data[m]
  BY <1>6 DEF Drop
<1>8. GoodRoom(new)
  BY <1>2, <1>4, <1>6, <1>7 DEF GoodRoom, AlmostGoodRoom
<1> QED BY <1>6, <1>8 DEF new, left

-----------------------------------------------------------------------------
(***************************************************************************)
(* All rooms.                                                              *)
(***************************************************************************)

GoodRooms(rs) ==
    /\ DOMAIN rs \subseteq RoomCode
    /\ rs \in [DOMAIN rs -> Room]
    /\ \A r \in DOMAIN rs : GoodRoom(rs[r])

\* A room opened or closed.
LEMMA RoomOpened ==
    ASSUME NEW rs, GoodRooms(rs), NEW r \in RoomCode, NEW room, GoodRoom(room)
    PROVE  GoodRooms(Put(rs, r, room))
<1>1. room \in Room
  BY DEF GoodRoom
<1> QED BY <1>1 DEF GoodRooms, Put

\* Closing a room in LeaveRoom leaves the other rooms as they are.
LEMMA RoomDropped ==
    ASSUME NEW rs, NEW r, DOMAIN rs \subseteq RoomCode, rs \in [DOMAIN rs -> Room],
           \A x \in DOMAIN rs : x # r => GoodRoom(rs[x])
    PROVE  /\ GoodRooms(Drop(rs, r))
           /\ DOMAIN Drop(rs, r) = DOMAIN rs \ {r}
           /\ \A x \in DOMAIN rs \ {r} : Drop(rs, r)[x] = rs[x]
BY DEF GoodRooms, Drop

\* The rooms from which LeaveRoom takes c out.
AlmostGoodRooms(rs, c) ==
    /\ DOMAIN rs \subseteq RoomCode
    /\ rs \in [DOMAIN rs -> Room]
    /\ \A r \in DOMAIN rs : IF r = connections[c] THEN AlmostGoodRoom(rs[r], c)
                                                  ELSE GoodRoom(rs[r])

\* The same for all rooms.
LEMMA GoodAreAlmostGood ==
    ASSUME NEW rs, GoodRooms(rs), NEW c PROVE AlmostGoodRooms(rs, c)
BY GoodIsAlmostGood DEF GoodRooms, AlmostGoodRooms

\* LeaveRoom removes c from its room, and the room with its last member.
LEMMA LeaveRoomFacts ==
    ASSUME NEW rs, NEW c, AlmostGoodRooms(rs, c)
    PROVE  /\ GoodRooms(LeaveRoom(rs, c))
           /\ DOMAIN LeaveRoom(rs, c) \subseteq DOMAIN rs
           /\ \A r \in DOMAIN rs : r # connections[c] =>
                 r \in DOMAIN LeaveRoom(rs, c) /\ LeaveRoom(rs, c)[r] = rs[r]
           /\ \A r \in DOMAIN LeaveRoom(rs, c) : r = connections[c] =>
                 Range(LeaveRoom(rs, c)[r].members) = Range(rs[r].members) \ {c}
           /\ \A r \in DOMAIN rs :
                 r \notin DOMAIN LeaveRoom(rs, c) => Range(rs[r].members) \subseteq {c}
<1> DEFINE new == LeaveRoom(rs, c)
           code == connections[c]
           room == rs[code]
           left == Erase(room.members, c)
           gone == WithoutMember(room, c)
<1>1. CASE code \notin DOMAIN rs
  <2>1. new = rs
    BY <1>1 DEF LeaveRoom
  <2>2. GoodRooms(rs)
    BY <1>1 DEF GoodRooms, AlmostGoodRooms
  <2> QED BY <1>1, <2>1, <2>2
<1>2. CASE code \in DOMAIN rs
  <2>1. AlmostGoodRoom(room, c)
    BY <1>2 DEF AlmostGoodRooms
  <2>2. left \in Seq(Id) /\ Range(left) = Range(room.members) \ {c}
    BY <2>1, EraseFacts DEF AlmostGoodRoom, Room
  <2>3. CASE left = <<>>
    <3>1. new = Drop(rs, code)
      BY <1>2, <2>3 DEF LeaveRoom
    <3>2. Range(room.members) \subseteq {c}
      BY <2>2, <2>3 DEF Range
    <3> HIDE DEF new
    <3>3. /\ GoodRooms(new)
          /\ DOMAIN new = DOMAIN rs \ {code}
          /\ \A x \in DOMAIN rs \ {code} : new[x] = rs[x]
      BY <3>1, RoomDropped DEF AlmostGoodRooms
    <3> QED BY <1>2, <3>2, <3>3 DEF new
  <2>4. CASE left # <<>>
    <3>1. new = [rs EXCEPT ![code] = gone]
      BY <1>2, <2>4 DEF LeaveRoom
    <3>2. GoodRoom(gone) /\ gone.members = left
      BY <2>1, <2>4, LeftRoomGood
    <3> HIDE DEF gone, new, left
    <3>3. /\ DOMAIN new = DOMAIN rs
          /\ new[code] = gone
          /\ \A x \in DOMAIN rs \ {code} : new[x] = rs[x]
      BY <1>2, <3>1 DEF AlmostGoodRooms
    <3>4. GoodRooms(new)
      BY <1>2, <3>1, <3>2, <3>3 DEF GoodRooms, AlmostGoodRooms, GoodRoom
    <3> QED BY <1>2, <2>2, <3>2, <3>3, <3>4 DEF new
  <2> QED BY Zenon, ZenonT(60), <2>3, <2>4
<1> QED BY <1>1, <1>2

-----------------------------------------------------------------------------
(***************************************************************************)
(* The inductive invariant.                                                *)
(***************************************************************************)

\* TypeOK without sent.
StateType ==
    /\ next_id \in 1..(MaxId + 1)
    /\ DOMAIN connections \subseteq 1..(next_id - 1)
    /\ connections \in [DOMAIN connections -> RoomCode \cup {Empty}]
    /\ sessions \subseteq DOMAIN connections

Inv == StateType /\ GoodRooms(rooms) /\ RoomsAgree

\* The server starts without connections and without rooms.
LEMMA InvInit == Init => Inv
<1> SUFFICES ASSUME Init PROVE Inv
  OBVIOUS
<1>1. DOMAIN connections = {} /\ DOMAIN rooms = {}
  BY DEF Init, EmptyMap
<1>2. connections \in [DOMAIN connections -> RoomCode \cup {Empty}]
  BY DEF Init, EmptyMap
<1>3. rooms \in [DOMAIN rooms -> Room]
  BY DEF Init, EmptyMap
<1>4. StateType
  BY <1>1, <1>2, MaxIdAssumption DEF Init, StateType
<1> QED BY <1>1, <1>3, <1>4 DEF Inv, GoodRooms, RoomsAgree

\* _connections holds ids that AcceptLoop handed out.
LEMMA ConnectedIds == StateType => DOMAIN connections \subseteq Id
<1> SUFFICES ASSUME StateType, NEW c \in DOMAIN connections PROVE c \in Id
  OBVIOUS
<1>1. next_id \in 1..(MaxId + 1) /\ c \in 1..(next_id - 1)
  BY Zenon, ZenonT(60) DEF StateType
<1> QED BY <1>1, MaxIdAssumption DEF Id

\* c is taken out of its room: by its own request, by the host or because its
\* session ended.  rs is the rooms up to changes of other fields than members.
LEMMA AgreeAfterLeave ==
    ASSUME Inv, NEW c \in DOMAIN connections, NEW rs, AlmostGoodRooms(rs, c),
           DOMAIN rs = DOMAIN rooms,
           \A r \in DOMAIN rs : rs[r].members = rooms[r].members,
           rooms' = LeaveRoom(rs, c),
           \/ /\ connections' = [connections EXCEPT ![c] = Empty]
              /\ sessions' = sessions
           \/ /\ connections' = Drop(connections, c)
              /\ sessions' = sessions \ {c},
           next_id' = next_id
    PROVE  Inv'
<1> DEFINE new == LeaveRoom(rs, c)
<1>0. /\ GoodRooms(new)
      /\ DOMAIN new \subseteq DOMAIN rs
      /\ \A r \in DOMAIN rs : r # connections[c] => r \in DOMAIN new /\ new[r] = rs[r]
      /\ \A r \in DOMAIN new : r = connections[c] =>
            Range(new[r].members) = Range(rs[r].members) \ {c}
      /\ \A r \in DOMAIN rs : r \notin DOMAIN new => Range(rs[r].members) \subseteq {c}
  BY LeaveRoomFacts, Zenon, ZenonT(60)
<1> HIDE DEF new
<1>1. GoodRooms(rooms)'
  BY <1>0 DEF GoodRooms, new
<1>2. StateType'
  BY DEF StateType, Inv, Drop
<1>3. /\ DOMAIN connections' \subseteq DOMAIN connections
      /\ \A x \in DOMAIN connections' \ {c} : connections'[x] = connections[x]
      /\ c \in DOMAIN connections' => connections'[c] = Empty
      /\ DOMAIN connections \ {c} \subseteq DOMAIN connections'
      /\ sessions \ {c} \subseteq sessions'
  BY DEF Inv, StateType, Drop
<1>4. /\ DOMAIN rooms' \subseteq DOMAIN rooms
      /\ \A r \in DOMAIN rooms : r # connections[c] => r \in DOMAIN rooms' /\ rooms'[r] = rs[r]
      /\ \A r \in DOMAIN rooms' : r = connections[c] =>
            Range(rooms'[r].members) = Range(rooms[r].members) \ {c}
      /\ \A r \in DOMAIN rooms : r \notin DOMAIN rooms' => Range(rooms[r].members) \subseteq {c}
  <2>1. rooms' = new
    BY DEF new
  <2> QED BY <1>0, <2>1
<1>5. \A r \in DOMAIN rooms' : Range(rooms'[r].members) = Range(rooms[r].members) \ {c}
  <2> SUFFICES ASSUME NEW r \in DOMAIN rooms'
               PROVE  Range(rooms'[r].members) = Range(rooms[r].members) \ {c}
    OBVIOUS
  <2>1. CASE r = connections[c]
    BY <1>4, <2>1
  <2>2. CASE r # connections[c]
    <3>1. rooms'[r].members = rooms[r].members /\ r \in DOMAIN rooms
      BY <1>4, <2>2
    <3>2. c \notin Range(rooms[r].members)
      BY <2>2, <3>1 DEF Inv, RoomsAgree
    <3> QED BY <3>1, <3>2
  <2> QED BY <2>1, <2>2
<1>6. ASSUME NEW x \in DOMAIN connections', connections'[x] # Empty
      PROVE  connections'[x] \in DOMAIN rooms' /\ x \in Range(rooms'[connections'[x]].members)
  <2>1. x # c /\ x \in DOMAIN connections /\ connections'[x] = connections[x]
    BY <1>3, <1>6
  <2>2. connections[x] \in DOMAIN rooms /\ x \in Range(rooms[connections[x]].members)
    BY <1>6, <2>1 DEF Inv, RoomsAgree
  <2>3. connections[x] \in DOMAIN rooms'
    BY Zenon, ZenonT(60), <1>4, <2>1, <2>2
  <2> QED BY <1>5, <2>1, <2>2, <2>3
<1>7. ASSUME NEW r \in DOMAIN rooms', NEW x \in Range(rooms'[r].members)
      PROVE  x \in sessions' /\ connections'[x] = r
  <2>1. x # c /\ x \in Range(rooms[r].members) /\ r \in DOMAIN rooms
    <3>1. Range(rooms'[r].members) = Range(rooms[r].members) \ {c}
      BY <1>5
    <3>2. r \in DOMAIN rooms
      BY <1>4
    <3> QED BY <1>7, <3>1, <3>2
  <2>2. x \in sessions /\ connections[x] = r
    BY <2>1 DEF Inv, RoomsAgree
  <2>3. x \in DOMAIN connections
    BY <2>2 DEF Inv, StateType
  <2> QED BY <1>3, <2>1, <2>2, <2>3
<1>8. RoomsAgree'
  BY <1>6, <1>7 DEF RoomsAgree
<1> QED BY <1>1, <1>2, <1>8 DEF Inv

\* A handler changes fields of the sender's room, and not its members.
LEMMA InvFieldChange ==
    ASSUME Inv, NEW c, InRoom(c), NEW room, GoodRoom(room),
           room.members = MyRoom(c).members,
           rooms' = [rooms EXCEPT ![connections[c]] = room],
           UNCHANGED <<next_id, connections, sessions>>
    PROVE  Inv'
<1> DEFINE code == connections[c]
<1>1. GoodRooms(rooms) /\ code \in DOMAIN rooms
  BY DEF Inv, InRoom
<1>2. room \in Room
  BY DEF GoodRoom
<1>3. /\ DOMAIN rooms' = DOMAIN rooms
      /\ rooms'[code] = room
      /\ \A r \in DOMAIN rooms \ {code} : rooms'[r] = rooms[r]
      /\ rooms' \in [DOMAIN rooms -> Room]
  BY <1>1, <1>2 DEF GoodRooms
<1>4. GoodRooms(rooms)'
  BY <1>1, <1>3 DEF GoodRooms
<1>5. \A r \in DOMAIN rooms : rooms'[r].members = rooms[r].members
  BY <1>1, <1>3 DEF MyRoom
<1>6. RoomsAgree'
  <2>1. ASSUME NEW x \in DOMAIN connections', connections'[x] # Empty
        PROVE  connections'[x] \in DOMAIN rooms' /\ x \in Range(rooms'[connections'[x]].members)
    <3>1. connections[x] \in DOMAIN rooms /\ x \in Range(rooms[connections[x]].members)
      BY <2>1 DEF Inv, RoomsAgree
    <3> QED BY <1>3, <1>5, <3>1
  <2>2. ASSUME NEW r \in DOMAIN rooms', NEW x \in Range(rooms'[r].members)
        PROVE  x \in sessions' /\ connections'[x] = r
    BY <1>3, <1>5, <2>2 DEF Inv, RoomsAgree
  <2> QED BY <2>1, <2>2 DEF RoomsAgree
<1>7. StateType'
  BY DEF Inv, StateType
<1> QED BY <1>4, <1>6, <1>7 DEF Inv

\* A handler that only answers preserves the invariant.
LEMMA InvUnchanged ==
    ASSUME Inv, UNCHANGED <<next_id, connections, sessions, rooms>>
    PROVE  Inv'
BY DEF Inv, StateType, GoodRooms, RoomsAgree

\* AcceptLoop adds a connection that is in no room.
LEMMA InvAcceptLoop == Inv /\ AcceptLoop => Inv'
<1> SUFFICES ASSUME Inv, AcceptLoop PROVE Inv'
  OBVIOUS
<1>1. /\ next_id \in 1..(MaxId + 1)
      /\ next_id <= MaxId
      /\ next_id' = next_id + 1
      /\ DOMAIN connections \subseteq 1..(next_id - 1)
  BY DEF AcceptLoop, Inv, StateType
<1>2. next_id \notin DOMAIN connections
  BY <1>1, MaxIdAssumption
<1>3. /\ DOMAIN connections' = DOMAIN connections \cup {next_id}
      /\ connections'[next_id] = Empty
      /\ \A c \in DOMAIN connections : connections'[c] = connections[c]
      /\ connections' \in [DOMAIN connections' -> RoomCode \cup {Empty}]
  BY <1>2 DEF AcceptLoop, Put, Inv, StateType
<1>4. next_id' \in 1..(MaxId + 1) /\ DOMAIN connections' \subseteq 1..(next_id' - 1)
  <2>1. DOMAIN connections' = DOMAIN connections \cup {next_id}
    BY <1>3
  <2>2. next_id \in 1..next_id /\ 1..(next_id - 1) \subseteq 1..next_id /\ next_id' - 1 = next_id
    BY <1>1, MaxIdAssumption
  <2>3. DOMAIN connections' \subseteq 1..(next_id' - 1)
    BY <1>1, <2>1, <2>2
  <2>4. next_id' \in 1..(MaxId + 1)
    BY <1>1, MaxIdAssumption
  <2> QED BY <2>3, <2>4
<1>5. StateType'
  BY <1>3, <1>4 DEF StateType, AcceptLoop, Inv
<1>6. RoomsAgree'
  <2>1. rooms' = rooms /\ sessions' = sessions
    BY DEF AcceptLoop
  <2>2. ASSUME NEW c \in DOMAIN connections', connections'[c] # Empty
        PROVE  connections'[c] \in DOMAIN rooms' /\ c \in Range(rooms'[connections'[c]].members)
    BY <1>3, <2>1, <2>2 DEF Inv, RoomsAgree
  <2>3. ASSUME NEW r \in DOMAIN rooms', NEW c \in Range(rooms'[r].members)
        PROVE  c \in sessions' /\ connections'[c] = r
    <3>1. c \in sessions /\ connections[c] = r /\ c \in DOMAIN connections
      BY <2>1, <2>3 DEF Inv, RoomsAgree, StateType
    <3> QED BY <1>3, <2>1, <3>1
  <2> QED BY <2>2, <2>3 DEF RoomsAgree
<1>7. GoodRooms(rooms)'
  BY DEF AcceptLoop, Inv, GoodRooms
<1> QED BY <1>5, <1>6, <1>7 DEF Inv

\* The start of Session changes only who is being read.
LEMMA InvSession == ASSUME Inv, NEW c, Session(c) PROVE Inv'
<1>1. /\ sessions' = sessions \cup {c}
      /\ c \in DOMAIN connections
      /\ UNCHANGED <<next_id, connections, rooms>>
  BY DEF Session
<1>2. StateType'
  BY <1>1 DEF Inv, StateType
<1>3. GoodRooms(rooms)'
  BY <1>1 DEF Inv, GoodRooms
<1>4. RoomsAgree'
  BY <1>1 DEF Inv, RoomsAgree
<1> QED BY <1>2, <1>3, <1>4 DEF Inv

\* The end of Session takes the connection out of its room before it is erased.
LEMMA InvSessionEnd == ASSUME Inv, NEW c, SessionEnd(c) PROVE Inv'
<1>1. c \in DOMAIN connections
  BY DEF SessionEnd, Inv, StateType
<1>2. AlmostGoodRooms(rooms, c)
  BY GoodAreAlmostGood DEF Inv
<1> QED BY <1>1, <1>2, AgreeAfterLeave DEF SessionEnd

\* HandleCreateRoom writes conn->room and the new room together.
LEMMA InvCreateRoom ==
    ASSUME Inv, NEW c \in sessions, HandleCreateRoom(c)
    PROVE  Inv'
<1>1. CASE connections[c] # Empty /\ Fail(c, "AlreadyInRoom")
  BY <1>1, InvUnchanged DEF Fail, Answer
<1>2. ASSUME connections[c] = Empty, NEW code \in RoomCode \ DOMAIN rooms,
             rooms' = Put(rooms, code, NewRoom(c)),
             connections' = [connections EXCEPT ![c] = code],
             UNCHANGED <<next_id, sessions>>
      PROVE  Inv'
  <2>1. c \in DOMAIN connections /\ c \in Id
    BY ConnectedIds DEF Inv, StateType
  <2>2. GoodRoom(NewRoom(c)) /\ Range(NewRoom(c).members) = {c}
    BY <2>1, NewRoomGood
  <2> DEFINE new == Put(rooms, code, NewRoom(c))
  <2>3. /\ GoodRooms(new)
        /\ DOMAIN new = DOMAIN rooms \cup {code}
        /\ new[code] = NewRoom(c)
        /\ \A x \in DOMAIN rooms \ {code} : new[x] = rooms[x]
    <3>1. GoodRooms(rooms) /\ code \in RoomCode
      BY <1>2 DEF Inv
    <3>2. GoodRooms(new)
      BY <2>2, <3>1, RoomOpened
    <3>3. /\ DOMAIN new = DOMAIN rooms \cup {code}
          /\ new[code] = NewRoom(c)
          /\ \A x \in DOMAIN rooms \ {code} : new[x] = rooms[x]
      BY DEF Put
    <3> QED BY <3>2, <3>3
  <2>4. rooms' = new
    BY <1>2
  <2> HIDE DEF new
  <2>5. StateType'
    BY <1>2, <2>1 DEF Inv, StateType
  <2>6. GoodRooms(rooms)'
    BY <2>3, <2>4 DEF GoodRooms
  <2>7. /\ DOMAIN connections' = DOMAIN connections
        /\ connections'[c] = code
        /\ \A x \in DOMAIN connections \ {c} : connections'[x] = connections[x]
    BY <1>2, <2>1 DEF Inv, StateType
  <2>8. ASSUME NEW x \in DOMAIN connections', connections'[x] # Empty
        PROVE  connections'[x] \in DOMAIN rooms' /\ x \in Range(rooms'[connections'[x]].members)
    <3>1. CASE x = c
      BY <2>2, <2>3, <2>4, <2>7, <3>1
    <3>2. CASE x # c
      <4>1. connections[x] \in DOMAIN rooms /\ x \in Range(rooms[connections[x]].members)
        BY <2>7, <2>8, <3>2 DEF Inv, RoomsAgree
      <4>2. connections[x] # code
        BY <1>2, <4>1
      <4> QED BY <2>3, <2>4, <2>7, <3>2, <4>1, <4>2
    <3> QED BY <3>1, <3>2
  <2>9. ASSUME NEW r \in DOMAIN rooms', NEW x \in Range(rooms'[r].members)
        PROVE  x \in sessions' /\ connections'[x] = r
    <3>1. CASE r = code
      BY <1>2, <2>2, <2>3, <2>4, <2>7, <2>9, <3>1
    <3>2. CASE r # code
      <4>1. r \in DOMAIN rooms /\ rooms'[r] = rooms[r]
        BY <2>3, <2>4, <3>2
      <4>2. x \in sessions /\ connections[x] = r /\ x \in DOMAIN connections
        BY <2>9, <4>1 DEF Inv, RoomsAgree, StateType
      <4>3. r # Empty
        BY <4>1, RoomCodeAssumption DEF Inv, GoodRooms
      <4>4. x # c
        BY <1>2, <4>2, <4>3
      <4> QED BY <1>2, <2>7, <4>2, <4>4
    <3> QED BY <3>1, <3>2
  <2>10. RoomsAgree'
    BY <2>8, <2>9 DEF RoomsAgree
  <2> QED BY <2>5, <2>6, <2>10 DEF Inv
<1> QED BY Zenon, ZenonT(60), <1>1, <1>2 DEF HandleCreateRoom

\* HandleJoinRoom writes conn->room and Room::members together.
LEMMA InvJoinRoom ==
    ASSUME Inv, NEW c \in sessions, NEW code \in RoomCode, NEW password \in Password,
           HandleJoinRoom(c, code, password)
    PROVE  Inv'
<1> DEFINE refusal == JoinRefusal(c, code, password)
<1>1. CASE refusal # "none" /\ Fail(c, refusal)
  BY <1>1, InvUnchanged DEF Fail, Answer
<1>2. ASSUME refusal = "none",
             rooms' = [rooms EXCEPT ![code].members = Append(@, c)],
             connections' = [connections EXCEPT ![c] = code],
             UNCHANGED <<next_id, sessions>>
      PROVE  Inv'
  <2>1. c \in DOMAIN connections /\ c \in Id
    BY ConnectedIds DEF Inv, StateType
  <2>2. connections[c] = Empty /\ code \in DOMAIN rooms /\ c \notin rooms[code].banned_members
    BY <1>2 DEF JoinRefusal
  <2>3. GoodRoom(rooms[code]) /\ rooms \in [DOMAIN rooms -> Room]
    BY <2>2 DEF Inv, GoodRooms
  <2>4. code # Empty
    BY RoomCodeAssumption
  <2>5. c \notin Range(rooms[code].members)
    BY <2>2, <2>4 DEF Inv, RoomsAgree
  <2> DEFINE room == [rooms[code] EXCEPT !.members = Append(@, c)]
  <2>6. /\ GoodRoom(room)
        /\ Range(room.members) = Range(rooms[code].members) \cup {c}
    BY <2>1, <2>2, <2>3, <2>5, JoinedRoomGood
  <2>7. rooms' = [rooms EXCEPT ![code] = room]
    BY <1>2
  <2> HIDE DEF room
  <2>8. /\ DOMAIN rooms' = DOMAIN rooms
        /\ rooms'[code] = room
        /\ \A r \in DOMAIN rooms \ {code} : rooms'[r] = rooms[r]
        /\ rooms' \in [DOMAIN rooms -> Room]
    BY <2>2, <2>3, <2>6, <2>7 DEF GoodRoom
  <2>9. GoodRooms(rooms)'
    BY <2>2, <2>6, <2>8 DEF Inv, GoodRooms
  <2>10. StateType'
    BY <1>2, <2>1 DEF Inv, StateType
  <2>11. /\ DOMAIN connections' = DOMAIN connections
         /\ connections'[c] = code
         /\ \A x \in DOMAIN connections \ {c} : connections'[x] = connections[x]
    BY <1>2, <2>1 DEF Inv, StateType
  <2>12. ASSUME NEW x \in DOMAIN connections', connections'[x] # Empty
         PROVE  connections'[x] \in DOMAIN rooms' /\ x \in Range(rooms'[connections'[x]].members)
    <3>1. CASE x = c
      BY <2>2, <2>6, <2>8, <2>11, <3>1
    <3>2. CASE x # c
      <4>1. connections[x] \in DOMAIN rooms /\ x \in Range(rooms[connections[x]].members)
        BY <2>11, <2>12, <3>2 DEF Inv, RoomsAgree
      <4> QED BY <2>6, <2>8, <2>11, <3>2, <4>1
    <3> QED BY <3>1, <3>2
  <2>13. ASSUME NEW r \in DOMAIN rooms', NEW x \in Range(rooms'[r].members)
         PROVE  x \in sessions' /\ connections'[x] = r
    <3>1. CASE x = c /\ r = code
      BY <1>2, <2>11, <3>1
    <3>2. CASE ~(x = c /\ r = code)
      <4>1. r \in DOMAIN rooms /\ x \in Range(rooms[r].members)
        BY <2>6, <2>8, <2>13, <3>2
      <4>2. x \in sessions /\ connections[x] = r /\ x \in DOMAIN connections
        BY <4>1 DEF Inv, RoomsAgree, StateType
      <4>3. r # Empty
        BY <4>1, RoomCodeAssumption DEF Inv, GoodRooms
      <4>4. x # c
        BY <2>2, <4>2, <4>3
      <4> QED BY <1>2, <2>11, <4>2, <4>4
    <3> QED BY <3>1, <3>2
  <2>14. RoomsAgree'
    BY <2>12, <2>13 DEF RoomsAgree
  <2> QED BY <2>9, <2>10, <2>14 DEF Inv
<1> QED BY <1>1, <1>2 DEF HandleJoinRoom

\* HandleLeaveRoom is a notice and LeaveRoom.
LEMMA InvLeaveRoom == ASSUME Inv, NEW c \in sessions, HandleLeaveRoom(c) PROVE Inv'
<1>1. CASE Fail(c, "NotInRoom")
  BY <1>1, InvUnchanged DEF Fail, Answer
<1>2. CASE /\ rooms' = LeaveRoom(rooms, c)
           /\ connections' = [connections EXCEPT ![c] = Empty]
           /\ UNCHANGED <<next_id, sessions>>
  <2>1. c \in DOMAIN connections /\ AlmostGoodRooms(rooms, c)
    BY GoodAreAlmostGood DEF Inv, StateType
  <2> QED BY Zenon, ZenonT(60), <1>2, <2>1, AgreeAfterLeave
<1> QED BY <1>1, <1>2 DEF HandleLeaveRoom, TakeOut

\* The room the handlers look up with conn->room is a good one.
LEMMA MyRoomGood == ASSUME Inv, NEW c, InRoom(c) PROVE GoodRoom(MyRoom(c))
BY DEF Inv, GoodRooms, InRoom, MyRoom

\* HandleSetRoomData keeps the metadata of the room within its limits.
LEMMA InvSetRoomData ==
    ASSUME Inv, NEW c \in sessions, NEW key \in Key, NEW value \in Value,
           HandleSetRoomData(c, key, value)
    PROVE  Inv'
<1>1. CASE \E code : Fail(c, code)
  BY <1>1, InvUnchanged DEF Fail, Answer
<1>2. CASE Ignore(c)
  BY <1>2, InvUnchanged DEF Ignore, Answer
<1>3. CASE /\ Hosts(c)
           /\ ~BadWrite(MyRoom(c).data, key, value, max_room_data_keys)
           /\ rooms' = [rooms EXCEPT ![connections[c]].data = Write(@, key, value)]
           /\ UNCHANGED <<next_id, connections, sessions>>
  <2> DEFINE old == MyRoom(c)
             data == Write(old.data, key, value)
             room == [old EXCEPT !.data = data]
  <2>1. InRoom(c) /\ GoodRoom(old)
    BY <1>3, MyRoomGood DEF Hosts
  <2>2. old \in Room /\ old.data \in Map(Key, Value) /\ WellFormed(old.data, max_room_data_keys)
    BY <2>1 DEF GoodRoom, Room
  <2>3. data \in Map(Key, Value) /\ WellFormed(data, max_room_data_keys)
    BY <1>3, <2>2, WriteFacts, LimitAssumption
  <2>4. rooms' = [rooms EXCEPT ![connections[c]] = room]
    BY <1>3 DEF MyRoom
  <2> HIDE DEF data, old
  <2>5. /\ room \in Room
        /\ room.data = data
        /\ room.members = old.members
        /\ room.host = old.host
        /\ room.member_data = old.member_data
        /\ room.banned_members = old.banned_members
    BY <2>2, <2>3 DEF Room
  <2> HIDE DEF room
  <2>6. GoodRoom(room)
    BY <2>1, <2>3, <2>5 DEF GoodRoom
  <2> QED BY Zenon, ZenonT(60), <1>3, <2>1, <2>4, <2>5, <2>6, InvFieldChange DEF old
<1> QED BY <1>1, <1>2, <1>3 DEF HandleSetRoomData

\* HandleSetMemberData keeps the sender's slot within its limits, and no empty slot.
LEMMA InvSetMemberData ==
    ASSUME Inv, NEW c \in sessions, NEW key \in Key, NEW value \in Value,
           HandleSetMemberData(c, key, value)
    PROVE  Inv'
<1>1. CASE \E code : Fail(c, code)
  BY <1>1, InvUnchanged DEF Fail, Answer
<1>2. CASE Ignore(c)
  BY <1>2, InvUnchanged DEF Ignore, Answer
<1>3. CASE /\ InRoom(c)
           /\ ~BadWrite(MemberData(c), key, value, max_member_data_keys)
           /\ rooms' = [rooms EXCEPT ![connections[c]].member_data =
                           WriteMemberData(@, c, Write(MemberData(c), key, value))]
           /\ UNCHANGED <<next_id, connections, sessions>>
  <2> DEFINE old == MyRoom(c)
             data == Write(MemberData(c), key, value)
             table == WriteMemberData(old.member_data, c, data)
             room == [old EXCEPT !.member_data = table]
  <2>1. GoodRoom(old) /\ old \in Room
    BY <1>3, MyRoomGood DEF GoodRoom
  <2>2. old.member_data \in Map(Id, Map(Key, Value)) /\ c \in Id
    BY <2>1, ConnectedIds DEF Room, Inv, StateType
  <2>3. c \in Range(old.members)
    <3>1. c \in DOMAIN connections /\ connections[c] # Empty
      BY <1>3, RoomCodeAssumption DEF Inv, StateType, InRoom, GoodRooms
    <3> QED BY <3>1 DEF Inv, RoomsAgree, MyRoom
  <2>4. /\ MemberData(c) \in Map(Key, Value)
        /\ WellFormed(MemberData(c), max_member_data_keys)
    <3>1. CASE c \in DOMAIN old.member_data
      <4>1. old.member_data[c] \in Map(Key, Value)
        BY <2>2, <3>1, MapDef
      <4> QED BY <2>1, <3>1, <4>1 DEF MemberData, GoodRoom
    <3>2. CASE c \notin DOMAIN old.member_data
      <4>1. EmptyMap \in Map(Key, Value)
        BY Zenon, ZenonT(60), MapDef DEF EmptyMap
      <4>2. WellFormed(EmptyMap, max_member_data_keys)
        BY EmptyWellFormed, LimitAssumption
      <4> QED BY <3>2, <4>1, <4>2 DEF MemberData
    <3> QED BY <3>1, <3>2
  <2>5. data \in Map(Key, Value) /\ WellFormed(data, max_member_data_keys)
    BY <1>3, <2>4, WriteFacts, LimitAssumption
  <2>6. rooms' = [rooms EXCEPT ![connections[c]] = room]
    BY <1>3 DEF MyRoom
  <2> HIDE DEF data, old
  <2>7. /\ table \in Map(Id, Map(Key, Value))
        /\ \A m \in DOMAIN table :
              \/ m = c /\ table[m] = data /\ DOMAIN data # {}
              \/ m \in DOMAIN old.member_data /\ table[m] = old.member_data[m]
    <3>1. CASE DOMAIN data = {}
      <4>1. table = Drop(old.member_data, c)
        BY <3>1 DEF WriteMemberData
      <4>2. table \in Map(Id, Map(Key, Value))
        BY <2>2, <4>1, MapOps
      <4>3. \A m \in DOMAIN table : m \in DOMAIN old.member_data /\ table[m] = old.member_data[m]
        BY <4>1 DEF Drop
      <4> QED BY <4>2, <4>3
    <3>2. CASE DOMAIN data # {}
      <4>1. table = Put(old.member_data, c, data)
        BY <3>2 DEF WriteMemberData
      <4>2. table \in Map(Id, Map(Key, Value))
        BY <2>2, <2>5, <4>1, MapOps
      <4>3. \A m \in DOMAIN table :
              \/ m = c /\ table[m] = data
              \/ m \in DOMAIN old.member_data /\ table[m] = old.member_data[m]
        BY <4>1 DEF Put
      <4> QED BY <3>2, <4>2, <4>3
    <3> QED BY Zenon, ZenonT(60), <3>1, <3>2
  <2> HIDE DEF table
  <2>8. /\ room \in Room
        /\ room.data = old.data
        /\ room.members = old.members
        /\ room.host = old.host
        /\ room.member_data = table
        /\ room.banned_members = old.banned_members
    BY <2>1, <2>7 DEF Room
  <2> HIDE DEF room
  <2>9. GoodRoom(room)
    BY <2>1, <2>3, <2>5, <2>7, <2>8 DEF GoodRoom
  <2> QED BY Zenon, ZenonT(60), <1>3, <2>6, <2>8, <2>9, InvFieldChange DEF old
<1> QED BY <1>1, <1>2, <1>3 DEF HandleSetMemberData

\* HandleKickMember is a notice and LeaveRoom of the target.
LEMMA InvKickMember ==
    ASSUME Inv, NEW c \in sessions, NEW id, HandleKickMember(c, id)
    PROVE  Inv'
<1>1. CASE \E code : Fail(c, code)
  BY <1>1, InvUnchanged DEF Fail, Answer
<1>2. CASE /\ Removable(c, id)
           /\ rooms' = LeaveRoom(rooms, id)
           /\ connections' = [connections EXCEPT ![id] = Empty]
           /\ UNCHANGED <<next_id, sessions>>
  <2>1. id \in DOMAIN connections /\ AlmostGoodRooms(rooms, id)
    BY <1>2, GoodAreAlmostGood DEF Inv, Removable
  <2> QED BY Zenon, ZenonT(60), <1>2, <2>1, AgreeAfterLeave
<1> QED BY <1>1, <1>2 DEF HandleKickMember, TakeOut

\* Between the insertion into banned_members and the LeaveRoom of
\* HandleBanMember, only the target is both a member and banned.
LEMMA BarredRooms ==
    ASSUME Inv, NEW c, NEW id \in DOMAIN connections,
           InRoom(c), connections[id] = connections[c]
    PROVE  /\ AlmostGoodRooms(Bar(c, id), id)
           /\ DOMAIN Bar(c, id) = DOMAIN rooms
           /\ \A r \in DOMAIN rooms : Bar(c, id)[r].members = rooms[r].members
<1> DEFINE code == connections[c]
           old == rooms[code]
           room == [old EXCEPT !.banned_members = @ \cup {id}]
           new == Bar(c, id)
<1>1. code \in DOMAIN rooms /\ GoodRooms(rooms) /\ id \in Id
  BY ConnectedIds DEF Inv, InRoom
<1>2. GoodRoom(old) /\ old \in Room
  BY <1>1 DEF GoodRooms, GoodRoom
<1>3. new = [rooms EXCEPT ![code] = room]
  BY DEF Bar
<1> HIDE DEF new, old
<1>4. /\ room \in Room
      /\ room.data = old.data
      /\ room.members = old.members
      /\ room.host = old.host
      /\ room.member_data = old.member_data
      /\ room.banned_members = old.banned_members \cup {id}
  BY <1>1, <1>2 DEF Room
<1> HIDE DEF room
<1>5. AlmostGoodRoom(room, id)
  BY <1>2, <1>4 DEF GoodRoom, AlmostGoodRoom
<1>6. /\ DOMAIN new = DOMAIN rooms
      /\ new[code] = room
      /\ \A r \in DOMAIN rooms \ {code} : new[r] = rooms[r]
      /\ new \in [DOMAIN rooms -> Room]
  BY <1>1, <1>3, <1>4 DEF GoodRooms
<1>7. AlmostGoodRooms(new, id)
  BY <1>1, <1>5, <1>6 DEF AlmostGoodRooms, GoodRooms
<1>8. \A r \in DOMAIN rooms : new[r].members = rooms[r].members
  BY <1>1, <1>4, <1>6 DEF old
<1> QED BY <1>6, <1>7, <1>8 DEF new

\* HandleBanMember bars the target first, while it is still a member.
LEMMA InvBanMember ==
    ASSUME Inv, NEW c \in sessions, NEW id, HandleBanMember(c, id)
    PROVE  Inv'
<1>1. CASE \E code : Fail(c, code)
  BY <1>1, InvUnchanged DEF Fail, Answer
<1>2. CASE /\ Hosts(c)
           /\ Removable(c, id)
           /\ rooms' = LeaveRoom(Bar(c, id), id)
           /\ connections' = [connections EXCEPT ![id] = Empty]
           /\ UNCHANGED <<next_id, sessions>>
  <2>1. InRoom(c) /\ id \in DOMAIN connections /\ connections[id] = connections[c]
    BY <1>2 DEF Hosts, Removable
  <2>2. /\ AlmostGoodRooms(Bar(c, id), id)
        /\ DOMAIN Bar(c, id) = DOMAIN rooms
        /\ \A r \in DOMAIN rooms : Bar(c, id)[r].members = rooms[r].members
    BY <2>1, BarredRooms, Zenon, ZenonT(60)
  <2> QED BY Zenon, ZenonT(60), <1>2, <2>1, <2>2, AgreeAfterLeave
<1> QED BY <1>1, <1>2 DEF HandleBanMember, TakeOut

\* HandleTransferHost makes a member the host.
LEMMA InvTransferHost ==
    ASSUME Inv, NEW c \in sessions, NEW id \in Id, HandleTransferHost(c, id)
    PROVE  Inv'
<1>1. CASE \E code : Fail(c, code)
  BY <1>1, InvUnchanged DEF Fail, Answer
<1>2. CASE Ignore(c)
  BY <1>2, InvUnchanged DEF Ignore, Answer
<1>3. CASE /\ Hosts(c)
           /\ id \in Range(MyRoom(c).members)
           /\ rooms' = [rooms EXCEPT ![connections[c]].host = id]
           /\ UNCHANGED <<next_id, connections, sessions>>
  <2> DEFINE old == MyRoom(c)
             room == [old EXCEPT !.host = id]
  <2>1. InRoom(c) /\ GoodRoom(old) /\ old \in Room
    BY <1>3, MyRoomGood DEF Hosts, GoodRoom
  <2>2. rooms' = [rooms EXCEPT ![connections[c]] = room]
    BY <1>3 DEF MyRoom
  <2> HIDE DEF old
  <2>3. /\ room \in Room
        /\ room.data = old.data
        /\ room.members = old.members
        /\ room.host = id
        /\ room.member_data = old.member_data
        /\ room.banned_members = old.banned_members
    BY <2>1 DEF Room
  <2> HIDE DEF room
  <2>4. GoodRoom(room)
    BY <1>3, <2>1, <2>3 DEF GoodRoom, old
  <2> QED BY Zenon, ZenonT(60), <1>3, <2>1, <2>2, <2>3, <2>4, InvFieldChange DEF old
<1> QED BY <1>1, <1>2, <1>3 DEF HandleTransferHost

\* HandleSetRoomJoinable changes the door only.
LEMMA InvSetRoomJoinable ==
    ASSUME Inv, NEW c \in sessions, NEW open \in BOOLEAN, HandleSetRoomJoinable(c, open)
    PROVE  Inv'
<1>1. CASE \E code : Fail(c, code)
  BY <1>1, InvUnchanged DEF Fail, Answer
<1>2. CASE Ignore(c)
  BY <1>2, InvUnchanged DEF Ignore, Answer
<1>3. CASE /\ Hosts(c)
           /\ rooms' = [rooms EXCEPT ![connections[c]].open = open]
           /\ UNCHANGED <<next_id, connections, sessions>>
  <2> DEFINE old == MyRoom(c)
             room == [old EXCEPT !.open = open]
  <2>1. InRoom(c) /\ GoodRoom(old) /\ old \in Room
    BY <1>3, MyRoomGood DEF Hosts, GoodRoom
  <2>2. rooms' = [rooms EXCEPT ![connections[c]] = room]
    BY <1>3 DEF MyRoom
  <2> HIDE DEF old
  <2>3. /\ room \in Room
        /\ room.data = old.data
        /\ room.members = old.members
        /\ room.host = old.host
        /\ room.member_data = old.member_data
        /\ room.banned_members = old.banned_members
    BY <2>1 DEF Room
  <2> HIDE DEF room
  <2>4. GoodRoom(room)
    BY <2>1, <2>3 DEF GoodRoom
  <2> QED BY Zenon, ZenonT(60), <1>3, <2>1, <2>2, <2>3, <2>4, InvFieldChange DEF old
<1> QED BY <1>1, <1>2, <1>3 DEF HandleSetRoomJoinable

\* HandleSetRoomPassword changes the password only.
LEMMA InvSetRoomPassword ==
    ASSUME Inv, NEW c \in sessions, NEW password \in Password,
           HandleSetRoomPassword(c, password)
    PROVE  Inv'
<1>1. CASE \E code : Fail(c, code)
  BY <1>1, InvUnchanged DEF Fail, Answer
<1>2. CASE /\ Hosts(c)
           /\ rooms' = [rooms EXCEPT ![connections[c]].password = password]
           /\ UNCHANGED <<next_id, connections, sessions>>
  <2> DEFINE old == MyRoom(c)
             room == [old EXCEPT !.password = password]
  <2>1. InRoom(c) /\ GoodRoom(old) /\ old \in Room
    BY <1>2, MyRoomGood DEF Hosts, GoodRoom
  <2>2. rooms' = [rooms EXCEPT ![connections[c]] = room]
    BY <1>2 DEF MyRoom
  <2> HIDE DEF old
  <2>3. /\ room \in Room
        /\ room.data = old.data
        /\ room.members = old.members
        /\ room.host = old.host
        /\ room.member_data = old.member_data
        /\ room.banned_members = old.banned_members
    BY <2>1 DEF Room
  <2> HIDE DEF room
  <2>4. GoodRoom(room)
    BY <2>1, <2>3 DEF GoodRoom
  <2> QED BY Zenon, ZenonT(60), <1>2, <2>1, <2>2, <2>3, <2>4, InvFieldChange DEF old
<1> QED BY <1>1, <1>2 DEF HandleSetRoomPassword

\* Every step of the server preserves the invariant.
LEMMA InvNext == Inv /\ [Next]_vars => Inv'
<1> SUFFICES ASSUME Inv, [Next]_vars PROVE Inv'
  OBVIOUS
<1>1. CASE UNCHANGED vars
  BY <1>1, InvUnchanged DEF vars
<1>2. CASE AcceptLoop
  BY <1>2, InvAcceptLoop
<1>3. ASSUME NEW c \in Id, Session(c) PROVE Inv'
  BY <1>3, InvSession
<1>4. ASSUME NEW c \in Id, SessionEnd(c) PROVE Inv'
  BY <1>4, InvSessionEnd
<1>5. ASSUME NEW c \in Id, HandleMessage(c) PROVE Inv'
  <2>1. c \in sessions
    BY <1>5 DEF HandleMessage
  <2>2. CASE Heartbeat(c)
    BY <2>2, InvUnchanged DEF Heartbeat, Answer
  <2>3. CASE HandleCreateRoom(c)
    BY <2>1, <2>3, InvCreateRoom
  <2>4. CASE \E code \in RoomCode, password \in Password : HandleJoinRoom(c, code, password)
    BY <2>1, <2>4, InvJoinRoom
  <2>5. CASE HandleLeaveRoom(c)
    BY <2>1, <2>5, InvLeaveRoom
  <2>6. CASE HandleRoomChat(c)
    BY <2>6, InvUnchanged DEF HandleRoomChat, Fail, Answer
  <2>7. CASE \E id \in Id : HandleP2PSignal(c, id)
    BY <2>7, InvUnchanged DEF HandleP2PSignal, Ignore, Answer
  <2>8. CASE \E key \in Key, value \in Value : HandleSetRoomData(c, key, value)
    BY <2>1, <2>8, InvSetRoomData
  <2>9. CASE \E key \in Key, value \in Value : HandleSetMemberData(c, key, value)
    BY <2>1, <2>9, InvSetMemberData
  <2>10. CASE \E id \in Id : HandleKickMember(c, id)
    BY <2>1, <2>10, InvKickMember
  <2>11. CASE \E id \in Id : HandleBanMember(c, id)
    BY <2>1, <2>11, InvBanMember
  <2>12. CASE \E id \in Id : HandleTransferHost(c, id)
    BY <2>1, <2>12, InvTransferHost
  <2>13. CASE \E open \in BOOLEAN : HandleSetRoomJoinable(c, open)
    BY <2>1, <2>13, InvSetRoomJoinable
  <2>14. CASE \E password \in Password : HandleSetRoomPassword(c, password)
    BY <2>1, <2>14, InvSetRoomPassword
  <2> QED BY <1>5, <2>2, <2>3, <2>4, <2>5, <2>6, <2>7, <2>8, <2>9, <2>10, <2>11, <2>12,
             <2>13, <2>14 DEF HandleMessage
<1> QED BY <1>1, <1>2, <1>3, <1>4, <1>5 DEF Next

-----------------------------------------------------------------------------
(***************************************************************************)
(* What follows from the inductive invariant.                              *)
(***************************************************************************)

\* Every room has a host of its own, and a client outside a room hosts none:
\* the rooms are fewer than the connections, and these no more than the codes.
LEMMA InvCodeFree == Inv => CodeAlwaysFree
<1> SUFFICES ASSUME Inv, NEW c \in DOMAIN connections, connections[c] = Empty,
                    RoomCode \subseteq DOMAIN rooms
             PROVE  FALSE
  BY DEF CodeAlwaysFree
<1> DEFINE others == Id \ {c}
           host == [r \in RoomCode |-> rooms[r].host]
<1>1. c \in Id
  BY ConnectedIds DEF Inv
<1>2. IsFiniteSet(Id) /\ Cardinality(Id) = MaxId
  <2>1. IsFiniteSet(1..MaxId) /\ Cardinality(1..MaxId) = IF 1 > MaxId THEN 0 ELSE MaxId - 1 + 1
    BY FS_Interval, MaxIdAssumption
  <2> QED BY <2>1, MaxIdAssumption DEF Id
<1>3. IsFiniteSet(others) /\ Cardinality(others) = MaxId - 1
  BY <1>1, <1>2, FS_RemoveElement
<1>4. Cardinality(RoomCode) \in Nat
  BY RoomCodeAssumption, FS_CardinalityType
<1>5. Cardinality(others) < Cardinality(RoomCode)
  BY <1>3, <1>4, MaxIdAssumption, RoomCodeAssumption
<1>6. \A r \in RoomCode : rooms[r].host \in Id /\ connections[rooms[r].host] = r
  BY DEF Inv, GoodRooms, GoodRoom, Room, RoomsAgree
<1>7. host \in [RoomCode -> others]
  BY <1>6, RoomCodeAssumption
<1> HIDE DEF host, others
<1>8. \E x, y \in RoomCode : x # y /\ host[x] = host[y]
  BY <1>3, <1>5, <1>7, RoomCodeAssumption, FS_PigeonHole
<1> QED BY <1>6, <1>8 DEF host

\* The inductive invariant holds in every reachable state of the room service.
THEOREM InvHolds == Spec => []Inv
<1>1. Init => Inv
  BY InvInit
<1>2. Inv /\ [Next]_vars => Inv'
  BY InvNext
<1> QED BY <1>1, <1>2, PTL DEF Spec

\* conn->room and Room::members never disagree, whatever the clients request,
\* in whatever order sessions start and end.
THEOREM RoomsAgreeHolds == Spec => []RoomsAgree
<1>1. Inv => RoomsAgree
  BY DEF Inv
<1> QED BY <1>1, InvHolds, PTL

\* Every room always has a host, and that host is one of its members.
THEOREM HostPresentHolds == Spec => []HostPresent
<1>1. Inv => HostPresent
  BY DEF Inv, GoodRooms, GoodRoom, HostPresent
<1> QED BY <1>1, InvHolds, PTL

\* Room::members never lists a connection twice.
THEOREM MembersDistinctHolds == Spec => []MembersDistinct
<1>1. Inv => MembersDistinct
  BY DEF Inv, GoodRooms, GoodRoom, MembersDistinct
<1> QED BY <1>1, InvHolds, PTL

\* A barred connection is never a member of the room it is barred from.
THEOREM BannedStayOutHolds == Spec => []BannedStayOut
<1>1. Inv => BannedStayOut
  BY DEF Inv, GoodRooms, GoodRoom, BannedStayOut
<1> QED BY <1>1, InvHolds, PTL

\* Member metadata is never kept for someone who is not a member.
THEOREM MemberDataOwnedHolds == Spec => []MemberDataOwned
<1>1. Inv => MemberDataOwned
  BY DEF Inv, GoodRooms, GoodRoom, MemberDataOwned
<1> QED BY <1>1, InvHolds, PTL

\* The caps on keys, values and numbers of keys hold in every reachable state.
THEOREM DataWithinLimitsHolds == Spec => []DataWithinLimits
<1>1. Inv => DataWithinLimits
  BY DEF Inv, GoodRooms, GoodRoom, DataWithinLimits
<1> QED BY <1>1, InvHolds, PTL

\* HandleCreateRoom always finds an unused code.
THEOREM CodeAlwaysFreeHolds == Spec => []CodeAlwaysFree
BY InvCodeFree, InvHolds, PTL

\* The Room that HandleKickMember and HandleBanMember go on using survives the
\* LeaveRoom they call, keeps its host and has lost the target.
THEOREM RemovalKeepsRoomHolds == Spec => RemovalKeepsRoom
<1> DEFINE Kept(c, id) ==
             /\ connections[id] \in DOMAIN rooms'
             /\ rooms'[connections[id]].host = c
             /\ id \notin Range(rooms'[connections[id]].members)
<1>1. ASSUME Inv, NEW c \in sessions, NEW id \in DOMAIN connections,
             Hosts(c), Removable(c, id), NEW rs, AlmostGoodRooms(rs, id),
             DOMAIN rs = DOMAIN rooms, rs[connections[id]].members = MyRoom(c).members,
             rs[connections[id]].host = c, rooms' = LeaveRoom(rs, id)
      PROVE  Kept(c, id)
  <2> DEFINE code == connections[id]
             room == rs[code]
  <2>1. code \in DOMAIN rs /\ c # id /\ MyRoom(c).host = c /\ InRoom(c)
    BY <1>1 DEF Hosts, Removable, InRoom
  <2>2. AlmostGoodRoom(room, id)
    BY <1>1, <2>1 DEF AlmostGoodRooms
  <2>3. c \in Range(room.members)
    BY <1>1, <2>2 DEF AlmostGoodRoom
  <2>4. /\ Erase(room.members, id) \in Seq(Id)
        /\ Range(Erase(room.members, id)) = Range(room.members) \ {id}
    BY <2>2, EraseFacts DEF AlmostGoodRoom, Room
  <2>5. Erase(room.members, id) # <<>>
    <3>1. Range(<<>>) = {}
      BY DEF Range
    <3> QED BY <2>1, <2>3, <2>4, <3>1
  <2>6. rooms' = [rs EXCEPT ![code] = WithoutMember(room, id)]
    BY <1>1, <2>1, <2>5 DEF LeaveRoom
  <2>7. WithoutMember(room, id).members = Erase(room.members, id)
    BY <2>2, <2>5, LeftRoomGood
  <2>8. WithoutMember(room, id).host = c
    BY <1>1, <2>1, <2>2 DEF WithoutMember, AlmostGoodRoom, Room
  <2>9. code \in DOMAIN rooms' /\ rooms'[code] = WithoutMember(room, id)
    BY <2>1, <2>6
  <2> QED BY <2>4, <2>7, <2>8, <2>9
<1>2. ASSUME Inv, NEW c \in sessions, NEW id \in DOMAIN connections,
             Hosts(c), Removable(c, id), HandleKickMember(c, id) \/ HandleBanMember(c, id)
      PROVE  Kept(c, id)
  <2>1. /\ InRoom(c) /\ connections[id] = connections[c] /\ MyRoom(c).host = c
        /\ MyRoom(c) = rooms[connections[id]]
    BY <1>2 DEF Hosts, Removable, MyRoom
  <2>2. CASE rooms' = LeaveRoom(rooms, id)
    <3>1. AlmostGoodRooms(rooms, id)
      BY <1>2, GoodAreAlmostGood DEF Inv
    <3> QED BY <1>1, <1>2, <2>1, <2>2, <3>1
  <2>3. CASE rooms' = LeaveRoom(Bar(c, id), id)
    <3>1. AlmostGoodRooms(Bar(c, id), id) /\ DOMAIN Bar(c, id) = DOMAIN rooms
      BY <1>2, <2>1, BarredRooms, Zenon, ZenonT(60)
    <3>2. Bar(c, id)[connections[id]].members = MyRoom(c).members
      BY ZenonT(60), ZenonT(90), <1>2, <2>1, BarredRooms DEF InRoom
    <3>3. Bar(c, id)[connections[id]].host = c
      BY <1>2, <2>1 DEF Bar, MyRoom, InRoom, Inv, GoodRooms, Room
    <3> QED BY <1>1, <1>2, <2>3, <3>1, <3>2, <3>3
  <2> QED BY <1>2, <2>2, <2>3 DEF HandleKickMember, HandleBanMember, TakeOut
<1>3. Inv /\ [Next]_vars =>
        [\A c \in sessions, id \in DOMAIN connections :
          /\ Hosts(c) /\ Removable(c, id)
          /\ HandleKickMember(c, id) \/ HandleBanMember(c, id)
          => Kept(c, id)]_vars
  BY <1>2
<1> QED BY <1>3, InvHolds, PTL DEF Spec, RemovalKeepsRoom

-----------------------------------------------------------------------------
(***************************************************************************)
(* What the server sends is made of the protocol's messages, and fits a    *)
(* frame where protocol.h says so.                                         *)
(***************************************************************************)

Fitting == {m \in ServerMessage : IsData(m) => EncodedSize(m) < max_message_size}

\* Key and value are within their caps.
Capped(key, value) == Size[key] <= max_room_data_key /\ Size[value] <= max_room_data_value

SentType(s) == s \in [Id -> Seq(Fitting)]

\* The constructors make messages of the protocol.
LEMMA MessageTypes ==
    /\ \A id \in Id :
          /\ AboutClient("AssignClientId", id) \in Fitting
          /\ AboutClient("PeerJoined", id) \in Fitting
          /\ AboutClient("PeerLeft", id) \in Fitting
          /\ AboutClient("HostChanged", id) \in Fitting
          /\ AboutClient("RoomChat", id) \in Fitting
          /\ AboutClient("P2PSignal", id) \in Fitting
    /\ Bare("IceServers") \in Fitting
    /\ Bare("Heartbeat") \in Fitting
    /\ Bare("KickedByHost") \in Fitting
    /\ Bare("BannedByHost") \in Fitting
    /\ \A code \in RoomCode : AssignRoomId(code) \in Fitting
    /\ \A code \in RoomErrorCode : RoomError(code) \in Fitting
    /\ \A room \in Room : RoomAccessChanged(room) \in Fitting
BY Zenon, ZenonT(60) DEF Fitting, ServerMessage, IsData, AboutClient, Bare, AssignRoomId, RoomError,
       RoomAccessChanged, Room

\* A data message whose key and value are within the caps fits a frame.
LEMMA DataMessageTypes ==
    ASSUME NEW key \in Key, NEW value \in Value, Capped(key, value)
    PROVE  /\ RoomDataChanged(key, value) \in Fitting
           /\ \A id \in Id : MemberDataChanged(id, key, value) \in Fitting
<1>1. Size[key] \in Nat /\ Size[value] \in Nat
  BY StringAssumption
<1>2. /\ 9 + Size[key] + Size[value] < max_message_size
      /\ 13 + Size[key] + Size[value] < max_message_size
  BY <1>1, LimitAssumption DEF Capped
<1>3. RoomDataChanged(key, value) \in Fitting
  <2>1. EncodedSize(RoomDataChanged(key, value)) = 9 + Size[key] + Size[value]
    BY <1>1 DEF EncodedSize, RoomDataChanged
  <2>2. RoomDataChanged(key, value) \in ServerMessage
    BY DEF ServerMessage, RoomDataChanged
  <2> QED BY <1>2, <2>1, <2>2 DEF Fitting
<1>4. ASSUME NEW id \in Id PROVE MemberDataChanged(id, key, value) \in Fitting
  <2>1. EncodedSize(MemberDataChanged(id, key, value)) = 13 + Size[key] + Size[value]
    BY <1>1 DEF EncodedSize, MemberDataChanged
  <2>2. MemberDataChanged(id, key, value) \in ServerMessage
    BY DEF ServerMessage, MemberDataChanged
  <2> QED BY <1>2, <2>1, <2>2 DEF Fitting
<1> QED BY <1>3, <1>4

\* What is stored is within the caps.
LEMMA StoredCapped ==
    ASSUME NEW data \in Map(Key, Value), NEW limit, WellFormed(data, limit), NEW k \in DOMAIN data
    PROVE  k \in Key /\ data[k] \in Value /\ Capped(k, data[k])
<1>1. k \in Key /\ data[k] \in Value
  BY MapDef
<1>2. Size[k] \in 1..max_room_data_key /\ Size[data[k]] \in 1..max_room_data_value
  BY DEF WellFormed
<1> QED BY <1>1, <1>2, LimitAssumption DEF Capped

\* What BadWrite lets through is within the caps.
LEMMA WrittenCapped ==
    ASSUME NEW data, NEW key \in Key, NEW value \in Value, NEW limit,
           ~BadWrite(data, key, value, limit)
    PROVE  Capped(key, value)
BY StringAssumption, LimitAssumption DEF BadWrite, Capped

\* SendToMany and two sends one after the other.
LEMMA SendTypes ==
    /\ \A ids : \A msgs \in Seq(Fitting) : SentType(SendToMany(ids, msgs))
    /\ \A id : \A msgs \in Seq(Fitting) : SentType(SendTo(id, msgs))
    /\ \A a, b : SentType(a) /\ SentType(b) => SentType(Then(a, b))
BY DEF SentType, SendToMany, SendTo, Then

\* Short sequences of messages.
LEMMA ShortSeqs ==
    /\ <<>> \in Seq(Fitting)
    /\ \A m \in Fitting : <<m>> \in Seq(Fitting)
    /\ \A m, n \in Fitting : <<m, n>> \in Seq(Fitting)
OBVIOUS

\* Listing lists a finite set, all of it.
LEMMA ListingFacts ==
    ASSUME NEW S, IsFiniteSet(S)
    PROVE  /\ Listing(S) \in Seq(S)
           /\ \A i \in 1..Len(Listing(S)) : Listing(S)[i] \in S
           /\ Range(Listing(S)) = S
<1> DEFINE n == Cardinality(S)
<1>1. n \in Nat /\ ExistsBijection(1..n, S)
  BY FS_CardinalityType
<1>2. Listing(S) \in Bijection(1..n, S)
  BY <1>1, Zenon, ZenonT(60) DEF Listing, ExistsBijection
<1>3. Listing(S) \in [1..n -> S] /\ \A x \in S : \E i \in 1..n : Listing(S)[i] = x
  BY <1>2 DEF Bijection, Injection, Surjection
<1> HIDE DEF n
<1>4. Listing(S) \in Seq(S)
  BY <1>1, <1>3
<1>5. Range(Listing(S)) = S
  BY <1>3 DEF Range
<1> QED BY <1>4, <1>5

\* The messages of a Hydration, loop by loop, and what the loops go over.
LEMMA HydrationParts ==
    ASSUME Inv, NEW code \in DOMAIN rooms
    PROVE  LET room == rooms[code]
               keys == Listing(DOMAIN room.data)
               pairs == {s \in Id \X Key : /\ s[1] \in DOMAIN room.member_data
                                           /\ s[2] \in DOMAIN room.member_data[s[1]]}
               slots == Listing(pairs)
           IN  /\ <<AssignRoomId(code)>> \in Seq(Fitting)
               /\ [i \in 1..Len(room.members) |-> AboutClient("PeerJoined", room.members[i])]
                     \in Seq(Fitting)
               /\ <<AboutClient("HostChanged", room.host), RoomAccessChanged(room)>>
                     \in Seq(Fitting)
               /\ [i \in 1..Len(keys) |-> RoomDataChanged(keys[i], room.data[keys[i]])]
                     \in Seq(Fitting)
               /\ [i \in 1..Len(slots) |->
                      MemberDataChanged(slots[i][1], slots[i][2],
                                        room.member_data[slots[i][1]][slots[i][2]])]
                     \in Seq(Fitting)
               /\ keys \in Seq(DOMAIN room.data) /\ Range(keys) = DOMAIN room.data
               /\ slots \in Seq(pairs) /\ Range(slots) = pairs
<1> DEFINE room == rooms[code]
           keys == Listing(DOMAIN room.data)
           pairs == {s \in Id \X Key : /\ s[1] \in DOMAIN room.member_data
                                       /\ s[2] \in DOMAIN room.member_data[s[1]]}
           slots == Listing(pairs)
           a == [i \in 1..Len(room.members) |-> AboutClient("PeerJoined", room.members[i])]
           b == <<AboutClient("HostChanged", room.host), RoomAccessChanged(room)>>
           d == [i \in 1..Len(keys) |-> RoomDataChanged(keys[i], room.data[keys[i]])]
           e == [i \in 1..Len(slots) |->
                   MemberDataChanged(slots[i][1], slots[i][2],
                                     room.member_data[slots[i][1]][slots[i][2]])]
<1>1. room \in Room /\ code \in RoomCode
  BY DEF Inv, GoodRooms
<1>2. /\ room.members \in Seq(Id)
      /\ room.host \in Id
      /\ room.data \in Map(Key, Value)
      /\ room.member_data \in Map(Id, Map(Key, Value))
  BY <1>1 DEF Room
<1>9. GoodRoom(room)
  BY DEF Inv, GoodRooms
<1> HIDE DEF room
<1>3. <<AssignRoomId(code)>> \in Seq(Fitting)
  BY <1>1, MessageTypes, ShortSeqs
<1>4. a \in Seq(Fitting)
  <2>1. \A i \in 1..Len(room.members) : room.members[i] \in Id
    BY <1>2
  <2>2. \A i \in 1..Len(room.members) :
           AboutClient("PeerJoined", room.members[i]) \in Fitting
    BY <2>1, MessageTypes
  <2>3. Len(room.members) \in Nat
    BY <1>2
  <2> QED BY <2>2, <2>3
<1>5. b \in Seq(Fitting)
  BY <1>1, <1>2, MessageTypes, ShortSeqs
<1>6. d \in Seq(Fitting) /\ keys \in Seq(DOMAIN room.data) /\ Range(keys) = DOMAIN room.data
  <2>1. DOMAIN room.data \subseteq Key /\ \A k \in DOMAIN room.data : room.data[k] \in Value
    BY <1>2, MapDef
  <2>2. IsFiniteSet(DOMAIN room.data)
    BY <2>1, StringAssumption, FS_Subset
  <2>3. /\ keys \in Seq(DOMAIN room.data) /\ Range(keys) = DOMAIN room.data
        /\ \A i \in 1..Len(keys) : keys[i] \in DOMAIN room.data
    BY <2>2, ListingFacts
  <2> HIDE DEF keys
  <2>4. \A i \in 1..Len(keys) : RoomDataChanged(keys[i], room.data[keys[i]]) \in Fitting
    BY <1>2, <1>9, <2>3, StoredCapped, DataMessageTypes DEF GoodRoom
  <2>5. Len(keys) \in Nat
    BY <2>3
  <2>6. d \in Seq(Fitting)
    BY <2>4, <2>5
  <2> QED BY <2>3, <2>6
<1>7. e \in Seq(Fitting) /\ slots \in Seq(pairs) /\ Range(slots) = pairs
  <2>1. IsFiniteSet(Id \X Key)
    <3>1. IsFiniteSet(Id)
      BY FS_Interval, MaxIdAssumption DEF Id
    <3> QED BY <3>1, StringAssumption, FS_Product
  <2>2. IsFiniteSet(pairs)
    BY <2>1, FS_Subset
  <2>3. /\ slots \in Seq(pairs) /\ Range(slots) = pairs
        /\ \A i \in 1..Len(slots) : slots[i] \in pairs
    BY Zenon, ZenonT(60), <2>2, ListingFacts
  <2>4. \A id \in DOMAIN room.member_data : room.member_data[id] \in Map(Key, Value)
    BY <1>2, MapDef
  <2>5. ASSUME NEW s \in pairs
        PROVE  MemberDataChanged(s[1], s[2], room.member_data[s[1]][s[2]]) \in Fitting
    <3>1. /\ s[1] \in Id /\ s[1] \in DOMAIN room.member_data
          /\ s[2] \in DOMAIN room.member_data[s[1]]
      OBVIOUS
    <3>2. WellFormed(room.member_data[s[1]], max_member_data_keys)
      BY <1>9, <3>1 DEF GoodRoom
    <3> QED BY <2>4, <3>1, <3>2, StoredCapped, DataMessageTypes
  <2> HIDE DEF slots, pairs
  <2>6. \A i \in 1..Len(slots) :
           MemberDataChanged(slots[i][1], slots[i][2],
                             room.member_data[slots[i][1]][slots[i][2]]) \in Fitting
    BY <2>3, <2>5
  <2>7. Len(slots) \in Nat
    BY <2>3
  <2>8. e \in Seq(Fitting)
    BY <2>6, <2>7
  <2> QED BY <2>3, <2>8
<1> HIDE DEF pairs, keys, slots, a, b, d, e
<1>8. /\ a \in Seq(Fitting) /\ b \in Seq(Fitting) /\ d \in Seq(Fitting) /\ e \in Seq(Fitting)
      /\ keys \in Seq(DOMAIN room.data) /\ Range(keys) = DOMAIN room.data
      /\ slots \in Seq(pairs) /\ Range(slots) = pairs
  BY <1>4, <1>5, <1>6, <1>7
<1> QED BY Zenon, ZenonT(60), <1>3, <1>8 DEF room, pairs, keys, slots, a, b, d, e

\* They are messages of the protocol.
LEMMA HydrationType ==
    ASSUME Inv, NEW code \in DOMAIN rooms
    PROVE  Hydration(code) \in Seq(Fitting)
<1> DEFINE room == rooms[code]
           keys == Listing(DOMAIN room.data)
           slots == Listing({s \in Id \X Key : /\ s[1] \in DOMAIN room.member_data
                                               /\ s[2] \in DOMAIN room.member_data[s[1]]})
           a == [i \in 1..Len(room.members) |-> AboutClient("PeerJoined", room.members[i])]
           b == <<AboutClient("HostChanged", room.host), RoomAccessChanged(room)>>
           d == [i \in 1..Len(keys) |-> RoomDataChanged(keys[i], room.data[keys[i]])]
           e == [i \in 1..Len(slots) |->
                   MemberDataChanged(slots[i][1], slots[i][2],
                                     room.member_data[slots[i][1]][slots[i][2]])]
<1>1. /\ <<AssignRoomId(code)>> \in Seq(Fitting) /\ a \in Seq(Fitting)
      /\ b \in Seq(Fitting) /\ d \in Seq(Fitting) /\ e \in Seq(Fitting)
  BY Zenon, ZenonT(60), HydrationParts
<1>2. Hydration(code) = <<AssignRoomId(code)>> \o a \o b \o d \o e
  BY DEF Hydration
<1> HIDE DEF a, b, d, e
<1> QED BY <1>1, <1>2

\* What LeaveRoom makes the server send.
LEMMA LeaveRoomSendsType ==
    ASSUME Inv, NEW c \in Id
    PROVE  SentType(LeaveRoomSends(c))
<1> DEFINE code == connections[c]
           left == Erase(rooms[code].members, c)
           gone == AboutClient("PeerLeft", c)
           heir == AboutClient("HostChanged", Head(left))
<1>1. CASE code \notin DOMAIN rooms
  BY Zenon, ZenonT(60), <1>1, SendTypes, ShortSeqs DEF LeaveRoomSends
<1>2. CASE code \in DOMAIN rooms
  <2>1. left \in Seq(Id)
    BY <1>2, EraseFacts DEF Inv, GoodRooms, GoodRoom, Room
  <2> HIDE DEF left
  <2>2. CASE left = <<>>
    <3>1. Range(left) = {}
      BY <2>2 DEF Range
    <3> QED BY <1>2, <3>1 DEF LeaveRoomSends, SendToMany, SentType, left
  <2>3. CASE left # <<>>
    <3>1. Head(left) \in Id
      BY <2>1, <2>3
    <3>2. gone \in Fitting /\ heir \in Fitting
      BY <3>1, MessageTypes
    <3> HIDE DEF gone, heir
    <3>3. /\ <<gone>> \o <<heir>> \in Seq(Fitting)
          /\ <<gone>> \o <<>> \in Seq(Fitting)
      BY <3>2
    <3> QED BY Zenon, ZenonT(60), <1>2, <3>3, SendTypes DEF LeaveRoomSends, left, gone, heir
  <2> QED BY <2>2, <2>3
<1> QED BY <1>1, <1>2

\* An error to the sender.
LEMMA FailType ==
    ASSUME NEW c, NEW code \in RoomErrorCode, Fail(c, code) PROVE SentType(sent')
BY Zenon, ZenonT(60), SendTypes, ShortSeqs, MessageTypes DEF Fail, Answer

\* A request that is ignored.
LEMMA IgnoreType == ASSUME NEW c, Ignore(c) PROVE SentType(sent')
BY Zenon, ZenonT(60), SendTypes, ShortSeqs DEF Ignore, Answer

\* A broadcast of one message of the protocol.
LEMMA BroadcastType ==
    ASSUME NEW c, NEW m \in Fitting, Broadcast(c, <<m>>)
    PROVE  SentType(sent')
BY Zenon, ZenonT(60), SendTypes, ShortSeqs DEF Broadcast

\* Only the room errors of the protocol are reported.
LEMMA ErrorCodes ==
    /\ \A c : HostError(c) \in RoomErrorCode
    /\ \A c, code, password :
          JoinRefusal(c, code, password) # "none" => JoinRefusal(c, code, password) \in RoomErrorCode
    /\ {"AlreadyInRoom", "NotInRoom", "BadRoomData", "NoSuchMember", "BadPassword"}
          \subseteq RoomErrorCode
BY DEF HostError, JoinRefusal, RoomErrorCode

\* Every message a handler sends is a message of the protocol.
LEMMA SentHandle ==
    ASSUME Inv, NEW c \in Id, HandleMessage(c)
    PROVE  SentType(sent')
<1>1. c \in sessions
  BY DEF HandleMessage
<1>2. CASE Heartbeat(c)
  BY Zenon, ZenonT(60), <1>2, SendTypes, ShortSeqs, MessageTypes DEF Heartbeat, Answer
<1>3. CASE HandleCreateRoom(c)
  <2>1. CASE Fail(c, "AlreadyInRoom")
    BY <2>1, FailType, ErrorCodes
  <2>2. CASE \E code \in RoomCode :
                sent' = SendTo(c, <<AssignRoomId(code), AboutClient("HostChanged", c)>>)
    BY Zenon, ZenonT(60), <2>2, SendTypes, ShortSeqs, MessageTypes
  <2> QED BY <1>3, <2>1, <2>2 DEF HandleCreateRoom
<1>4. ASSUME NEW code \in RoomCode, NEW password \in Password, HandleJoinRoom(c, code, password)
      PROVE  SentType(sent')
  <2>1. CASE JoinRefusal(c, code, password) # "none"
    BY <1>4, <2>1, FailType, ErrorCodes DEF HandleJoinRoom
  <2>2. CASE JoinRefusal(c, code, password) = "none"
    <3>1. code \in DOMAIN rooms
      BY <2>2 DEF JoinRefusal
    <3>2. SentType(SendTo(c, Hydration(code)))
      BY <3>1, HydrationType, SendTypes
    <3>3. SentType(SendToMany(Range(rooms[code].members), <<AboutClient("PeerJoined", c)>>))
      BY Zenon, ZenonT(60), SendTypes, ShortSeqs, MessageTypes
    <3> QED BY <1>4, <2>2, <3>2, <3>3, SendTypes DEF HandleJoinRoom
  <2> QED BY <2>1, <2>2
<1>5. CASE HandleLeaveRoom(c)
  <2>1. CASE Fail(c, "NotInRoom")
    BY <2>1, FailType, ErrorCodes
  <2>2. CASE sent' = Then(SendTo(c, <<AboutClient("PeerLeft", c)>>), LeaveRoomSends(c))
    <3>1. SentType(SendTo(c, <<AboutClient("PeerLeft", c)>>))
      BY Zenon, ZenonT(60), SendTypes, ShortSeqs, MessageTypes
    <3> QED BY <2>2, <3>1, LeaveRoomSendsType, SendTypes
  <2> QED BY <1>5, <2>1, <2>2 DEF HandleLeaveRoom, TakeOut
<1>6. CASE HandleRoomChat(c)
  BY <1>6, FailType, ErrorCodes, BroadcastType, MessageTypes DEF HandleRoomChat
<1>7. CASE \E id \in Id : HandleP2PSignal(c, id)
  BY Zenon, ZenonT(60), <1>7, IgnoreType, SendTypes, ShortSeqs, MessageTypes DEF HandleP2PSignal, Answer
<1>8. CASE \E key \in Key, value \in Value : HandleSetRoomData(c, key, value)
  BY <1>8, FailType, IgnoreType, ErrorCodes, BroadcastType, WrittenCapped, DataMessageTypes
     DEF HandleSetRoomData
<1>9. CASE \E key \in Key, value \in Value : HandleSetMemberData(c, key, value)
  BY <1>9, FailType, IgnoreType, ErrorCodes, BroadcastType, WrittenCapped, DataMessageTypes
     DEF HandleSetMemberData
<1>10. ASSUME NEW id \in Id, HandleKickMember(c, id) \/ HandleBanMember(c, id)
       PROVE  SentType(sent')
  <2>1. CASE \E code \in RoomErrorCode : Fail(c, code)
    BY <2>1, FailType
  <2>2. CASE \/ sent' = Then(SendTo(id, <<Bare("KickedByHost")>>), LeaveRoomSends(id))
             \/ sent' = Then(SendTo(id, <<Bare("BannedByHost")>>), LeaveRoomSends(id))
    <3>1. /\ SentType(SendTo(id, <<Bare("KickedByHost")>>))
          /\ SentType(SendTo(id, <<Bare("BannedByHost")>>))
      BY Zenon, ZenonT(60), SendTypes, ShortSeqs, MessageTypes
    <3> QED BY <2>2, <3>1, LeaveRoomSendsType, SendTypes
  <2> QED BY <1>10, <2>1, <2>2, ErrorCodes DEF HandleKickMember, HandleBanMember, TakeOut
<1>11. CASE \E id \in Id : HandleTransferHost(c, id)
  BY <1>11, FailType, IgnoreType, ErrorCodes, BroadcastType, MessageTypes DEF HandleTransferHost
<1>12. ASSUME NEW open \in BOOLEAN, HandleSetRoomJoinable(c, open)
       PROVE  SentType(sent')
  <2>1. CASE (\E code \in RoomErrorCode : Fail(c, code)) \/ Ignore(c)
    BY <2>1, FailType, IgnoreType
  <2>2. CASE /\ Hosts(c)
             /\ Broadcast(c, <<RoomAccessChanged([MyRoom(c) EXCEPT !.open = open])>>)
    <3>1. MyRoom(c) \in Room
      BY <2>2, MyRoomGood DEF Hosts, GoodRoom
    <3>2. [MyRoom(c) EXCEPT !.open = open] \in Room
      BY <3>1 DEF Room
    <3> QED BY <2>2, <3>2, BroadcastType, MessageTypes
  <2> QED BY <1>12, <2>1, <2>2, ErrorCodes DEF HandleSetRoomJoinable
<1>13. ASSUME NEW password \in Password, HandleSetRoomPassword(c, password)
       PROVE  SentType(sent')
  <2> DEFINE m == RoomAccessChanged([MyRoom(c) EXCEPT !.password = password])
             changed == (MyRoom(c).password # Empty) # (password # Empty)
  <2>1. CASE \E code \in RoomErrorCode : Fail(c, code)
    BY <2>1, FailType
  <2>2. CASE Hosts(c) /\ Broadcast(c, IF changed THEN <<m>> ELSE <<>>)
    <3>1. MyRoom(c) \in Room
      BY <2>2, MyRoomGood DEF Hosts, GoodRoom
    <3>2. [MyRoom(c) EXCEPT !.password = password] \in Room
      BY <3>1 DEF Room
    <3>3. m \in Fitting
      BY <3>2, MessageTypes
    <3> HIDE DEF m, changed
    <3> QED BY Zenon, ZenonT(60), <2>2, <3>3, SendTypes, ShortSeqs DEF Broadcast
  <2> QED BY <1>13, <2>1, <2>2, ErrorCodes DEF HandleSetRoomPassword
<1> QED BY <1>2, <1>3, <1>4, <1>5, <1>6, <1>7, <1>8, <1>9, <1>10, <1>11, <1>12, <1>13
        DEF HandleMessage

\* Every step sends messages of the protocol.
LEMMA SentNext == ASSUME Inv, Next PROVE SentType(sent')
<1>1. CASE AcceptLoop
  BY <1>1, ShortSeqs DEF AcceptLoop, SentType
<1>2. ASSUME NEW c \in Id, Session(c) PROVE SentType(sent')
  BY Zenon, ZenonT(60), <1>2, SendTypes, ShortSeqs, MessageTypes DEF Session
<1>3. ASSUME NEW c \in Id, SessionEnd(c) PROVE SentType(sent')
  BY <1>3, LeaveRoomSendsType DEF SessionEnd
<1> QED BY <1>1, <1>2, <1>3, SentHandle DEF Next

\* Every variable of the room service keeps its type; in particular no handler
\* names the head of an empty list of members as the new host.
THEOREM TypeOKHolds == Spec => []TypeOK
<1> DEFINE Typed == Inv /\ SentType(sent)
<1>1. Init => Typed
  BY InvInit, ShortSeqs DEF Init, SentType
<1>2. Typed /\ [Next]_vars => Typed'
  <2> SUFFICES ASSUME Inv, SentType(sent), [Next]_vars PROVE Inv' /\ SentType(sent')
    BY DEF SentType
  <2>1. Inv'
    BY InvNext
  <2>2. CASE UNCHANGED vars
    BY <2>1, <2>2 DEF vars
  <2> QED BY <2>1, <2>2, SentNext
<1>3. Typed => TypeOK
  <2>1. Fitting \subseteq ServerMessage
    BY DEF Fitting
  <2> HIDE DEF Fitting
  <2>2. SentType(sent) => sent \in [Id -> Seq(ServerMessage)]
    BY <2>1 DEF SentType
  <2> QED BY <2>2 DEF Inv, StateType, GoodRooms, TypeOK
<1> QED BY <1>1, <1>2, <1>3, PTL DEF Spec

\* No data message of HandleSetRoomData, HandleSetMemberData or of the
\* hydration in HandleJoinRoom needs a second frame.
THEOREM DataMessagesFitHolds == Spec => DataMessagesFit
<1> DEFINE Fit == \A c \in Id : \A i \in DOMAIN sent'[c] :
                     IsData(sent'[c][i]) => EncodedSize(sent'[c][i]) < max_message_size
<1>1. ASSUME Inv, Next PROVE Fit
  <2>1. SentType(sent')
    BY <1>1, SentNext
  <2>2. ASSUME NEW c \in Id, NEW i \in DOMAIN sent'[c] PROVE sent'[c][i] \in Fitting
    <3>1. sent'[c] \in Seq(Fitting)
      BY <2>1 DEF SentType
    <3> QED BY <3>1
  <2> QED BY <2>2 DEF Fitting
<1>2. Inv /\ [Next]_vars => [Fit]_vars
  BY <1>1
<1> QED BY <1>2, InvHolds, PTL DEF Spec, DataMessagesFit

-----------------------------------------------------------------------------
(***************************************************************************)
(* The order of joining.                                                   *)
(***************************************************************************)

\* std::erase keeps the order of those who stay.
LEMMA EldersErase ==
    ASSUME NEW S, NEW s \in Seq(S), IsInjective(s), NEW e \in Range(s)
    PROVE  Elders(Erase(s, e)) = Elders(s) \cap ((Range(s) \ {e}) \X (Range(s) \ {e}))
<1> DEFINE p == CHOOSE i \in DOMAIN s : s[i] = e
           t == Erase(s, e)
           left == Range(s) \ {e}
           Place(i) == IF i < p THEN i ELSE i - 1
<1>1. /\ p \in 1..Len(s)
      /\ s[p] = e
      /\ Len(s) \in Nat
      /\ DOMAIN s = 1..Len(s)
  BY DEF Range
<1>2. /\ DOMAIN t = 1..(Len(s) - 1)
      /\ \A j \in 1..(Len(s) - 1) : t[j] = IF j < p THEN s[j] ELSE s[j + 1]
  BY <1>1 DEF Erase
<1>3. Range(t) = left
  BY EraseFacts
<1> HIDE DEF p, t
<1>4. ASSUME NEW x \in left \X left, x \in Elders(t) PROVE x \in Elders(s)
  <2>1. PICK i, j \in 1..(Len(s) - 1) : i < j /\ x[1] = t[i] /\ x[2] = t[j]
    BY <1>2, <1>4 DEF Elders
  <2> DEFINE Back(k) == IF k < p THEN k ELSE k + 1
  <2>2. Back(i) \in 1..Len(s) /\ Back(j) \in 1..Len(s) /\ Back(i) < Back(j)
    BY <1>1, <2>1
  <2>3. x[1] = s[Back(i)] /\ x[2] = s[Back(j)]
    BY <1>1, <1>2, <2>1
  <2> HIDE DEF Back
  <2> QED BY <1>1, <2>2, <2>3 DEF Elders
<1>5. ASSUME NEW x \in left \X left, x \in Elders(s) PROVE x \in Elders(t)
  <2>1. PICK i, j \in 1..Len(s) : i < j /\ x[1] = s[i] /\ x[2] = s[j]
    BY <1>1, <1>5 DEF Elders
  <2>2. i # p /\ j # p
    BY <1>1, <2>1
  <2>3. /\ Place(i) \in 1..(Len(s) - 1)
        /\ Place(j) \in 1..(Len(s) - 1)
        /\ Place(i) < Place(j)
    BY <1>1, <2>1, <2>2
  <2>4. ASSUME NEW k \in 1..Len(s), k # p, Place(k) \in 1..(Len(s) - 1)
        PROVE  t[Place(k)] = s[k]
    <3>1. CASE k < p
      BY <1>1, <1>2, <2>4, <3>1
    <3>2. CASE k > p
      <4>1. Place(k) = k - 1 /\ ~(k - 1 < p) /\ (k - 1) + 1 = k
        BY <1>1, <2>4, <3>2
      <4> QED BY <1>2, <2>4, <4>1
    <3> QED BY <1>1, <2>4, <3>1, <3>2
  <2>5. t[Place(i)] = s[i] /\ t[Place(j)] = s[j]
    BY <2>2, <2>3, <2>4
  <2> HIDE DEF Place
  <2> QED BY <1>2, <1>3, <2>1, <2>3, <2>5 DEF Elders
<1>6. Elders(t) \subseteq left \X left
  BY <1>3 DEF Elders
<1> QED BY <1>4, <1>5, <1>6 DEF t

\* push_back puts the joiner after everyone else.
LEMMA EldersAppend ==
    ASSUME NEW S, NEW s \in Seq(S), IsInjective(s), NEW e \in S, e \notin Range(s)
    PROVE  Elders(Append(s, e)) = Elders(s) \cup (Range(s) \X {e})
<1> DEFINE t == Append(s, e)
<1>1. /\ Len(s) \in Nat
      /\ DOMAIN s = 1..Len(s)
      /\ DOMAIN t = 1..(Len(s) + 1)
      /\ t[Len(s) + 1] = e
      /\ \A i \in 1..Len(s) : t[i] = s[i]
  OBVIOUS
<1>2. Range(t) = Range(s) \cup {e}
  BY AppendFacts
<1> HIDE DEF t
<1>3. ASSUME NEW x \in Elders(t) PROVE x \in Elders(s) \cup (Range(s) \X {e})
  <2>1. PICK i, j \in 1..(Len(s) + 1) : i < j /\ x[1] = t[i] /\ x[2] = t[j]
    BY <1>1 DEF Elders
  <2>2. i \in 1..Len(s) /\ x[1] = s[i] /\ x[1] \in Range(s) /\ x = <<x[1], x[2]>>
    BY <1>1, <2>1 DEF Range, Elders
  <2>3. CASE j = Len(s) + 1
    BY <1>1, <2>1, <2>2, <2>3
  <2>4. CASE j \in 1..Len(s)
    <3>1. x[2] = s[j] /\ x[2] \in Range(s)
      BY <1>1, <2>1, <2>4 DEF Range
    <3> QED BY <1>1, <2>1, <2>2, <2>4, <3>1 DEF Elders
  <2> QED BY <1>1, <2>1, <2>3, <2>4
<1>4. ASSUME NEW x \in Elders(s) PROVE x \in Elders(t)
  BY <1>1, <1>2 DEF Elders
<1>5. ASSUME NEW x \in Range(s) \X {e} PROVE x \in Elders(t)
  <2>1. PICK i \in 1..Len(s) : x[1] = s[i]
    BY <1>1 DEF Range
  <2>2. i < Len(s) + 1 /\ i \in DOMAIN t /\ Len(s) + 1 \in DOMAIN t /\ x[1] = t[i] /\ x[2] = t[Len(s) + 1]
    BY <1>1, <2>1
  <2>3. x \in Range(t) \X Range(t)
    BY <1>2
  <2> QED BY <2>2, <2>3 DEF Elders
<1> QED BY <1>3, <1>4, <1>5 DEF t

\* members.front() joined before everyone else that stays.
LEMMA HeadEldest ==
    ASSUME NEW S, NEW s \in Seq(S), IsInjective(s), NEW e \in Range(s), Erase(s, e) # <<>>,
           NEW m \in Range(s) \ {e}
    PROVE  <<m, Head(Erase(s, e))>> \notin Elders(s)
<1> DEFINE t == Erase(s, e)
<1>1. t \in Seq(S) /\ IsInjective(t) /\ Range(t) = Range(s) \ {e} /\ t # <<>>
  BY EraseFacts
<1>2. Elders(t) = Elders(s) \cap (Range(t) \X Range(t))
  BY <1>1, EldersErase
<1> HIDE DEF t
<1>3. /\ Len(t) \in Nat
      /\ DOMAIN t = 1..Len(t)
      /\ 1 \in 1..Len(t)
      /\ Head(t) = t[1]
  BY <1>1
<1>4. Head(t) \in Range(t)
  BY <1>3 DEF Range
<1>5. ASSUME <<m, Head(t)>> \in Elders(t) PROVE FALSE
  <2>1. PICK i, j \in 1..Len(t) : i < j /\ Head(t) = t[j]
    BY <1>3, <1>5 DEF Elders
  <2>2. j = 1
    BY <1>1, <1>3, <2>1 DEF IsInjective
  <2> QED BY <1>3, <2>1, <2>2
<1> QED BY <1>1, <1>2, <1>4, <1>5 DEF t

-----------------------------------------------------------------------------
(***************************************************************************)
(* The rooms as Membership sees them.                                      *)
(***************************************************************************)

\* The parties before and after a step, code by code.
LEMMA PartiesFacts ==
    ASSUME NEW rs
    PROVE  /\ Parties(rs) = [r \in RoomCode |-> Parties(rs)[r]]
           /\ \A r \in RoomCode \cap DOMAIN rs :
                 /\ Parties(rs)[r] = Party(rs[r])
                 /\ Parties(rs)[r].members = Range(rs[r].members)
                 /\ Parties(rs)[r].elder = Elders(rs[r].members)
                 /\ Parties(rs)[r].host = rs[r].host
                 /\ Parties(rs)[r].barred = rs[r].banned_members
           /\ \A r \in RoomCode \ DOMAIN rs :
                 Parties(rs)[r] = NoParty /\ Parties(rs)[r].members = {}
BY Zenon, ZenonT(60) DEF Parties, Party, NoParty

\* A client whose conn->room is empty is in nobody's party.
LEMMA OutsideParties ==
    ASSUME Inv, NEW c, connections[c] = Empty PROVE Abstract!Outside(c)
<1> SUFFICES ASSUME NEW r \in RoomCode, c \in Parties(rooms)[r].members PROVE FALSE
  BY DEF Abstract!Outside
<1>1. r \in DOMAIN rooms /\ c \in Range(rooms[r].members)
  BY PartiesFacts
<1>2. connections[c] = r
  BY <1>1 DEF Inv, RoomsAgree
<1> QED BY <1>2, RoomCodeAssumption

\* Metadata, access and password are nothing Membership knows of.
LEMMA FieldChangeStutters ==
    ASSUME Inv, NEW code, NEW room, code \in DOMAIN rooms,
           room.members = rooms[code].members, room.host = rooms[code].host,
           room.banned_members = rooms[code].banned_members,
           rooms' = [rooms EXCEPT ![code] = room]
    PROVE  Parties(rooms)' = Parties(rooms)
<1>1. rooms = [r \in DOMAIN rooms |-> rooms[r]]
  BY DEF Inv, GoodRooms
<1>2. /\ DOMAIN rooms' = DOMAIN rooms
      /\ \A r \in DOMAIN rooms : Party(rooms'[r]) = Party(rooms[r])
  BY <1>1 DEF Party
<1> QED BY <1>2 DEF Parties

-----------------------------------------------------------------------------
(***************************************************************************)
(* The steps.                                                              *)
(***************************************************************************)

\* HandleCreateRoom opens a room.
LEMMA CreateOpens ==
    ASSUME Inv, NEW c \in sessions, connections[c] = Empty,
           NEW code \in RoomCode \ DOMAIN rooms, rooms' = Put(rooms, code, NewRoom(c))
    PROVE  Abstract!Open(c, code)
<1>1. Abstract!Outside(c)
  BY OutsideParties
<1>2. Parties(rooms)[code].members = {}
  BY PartiesFacts
<1>3. Elders(<<c>>) = {} /\ Range(<<c>>) = {c}
  BY DEF Elders, Range
<1>4. Party(NewRoom(c)) = [members |-> {c}, elder |-> {}, host |-> c, barred |-> {}]
  <2>1. /\ NewRoom(c).members = <<c>>
        /\ NewRoom(c).host = c
        /\ NewRoom(c).banned_members = {}
    BY DEF NewRoom
  <2> QED BY <1>3, <2>1 DEF Party
<1>5. Parties(rooms') = [Parties(rooms) EXCEPT ![code] = Party(NewRoom(c))]
  BY Zenon, ZenonT(60) DEF Parties, Put
<1> QED BY Zenon, ZenonT(60), <1>1, <1>2, <1>4, <1>5 DEF Abstract!Open, Abstract!NoParty, NoParty, Parties

\* HandleJoinRoom lets a client into a room, last in the order of joining.
LEMMA JoinEnters ==
    ASSUME Inv, NEW c \in sessions, NEW code \in RoomCode, NEW password,
           JoinRefusal(c, code, password) = "none",
           rooms' = [rooms EXCEPT ![code].members = Append(@, c)]
    PROVE  Abstract!Enter(c, code)
<1> DEFINE room == [rooms[code] EXCEPT !.members = Append(@, c)]
           old == Parties(rooms)[code]
<1>1. connections[c] = Empty /\ code \in DOMAIN rooms /\ c \notin rooms[code].banned_members
  BY DEF JoinRefusal
<1>2. Abstract!Outside(c)
  BY <1>1, OutsideParties
<1>3. c \notin Range(rooms[code].members) /\ c \in Id
  BY <1>1, ConnectedIds, RoomCodeAssumption DEF Inv, StateType, RoomsAgree
<1>4. GoodRoom(rooms[code]) /\ rooms[code] \in Room
  BY <1>1 DEF Inv, GoodRooms, GoodRoom
<1>5. rooms' = [rooms EXCEPT ![code] = room]
  OBVIOUS
<1>6. /\ room.members = Append(rooms[code].members, c)
      /\ room.host = rooms[code].host
      /\ room.banned_members = rooms[code].banned_members
  BY <1>4 DEF Room
<1>7. /\ Range(room.members) = Range(rooms[code].members) \cup {c}
      /\ Elders(room.members)
           = Elders(rooms[code].members) \cup (Range(rooms[code].members) \X {c})
  BY <1>3, <1>4, <1>6, AppendFacts, EldersAppend DEF GoodRoom, Room
<1> HIDE DEF room
<1>8. Party(room) = [members |-> old.members \cup {c}, elder |-> old.elder \cup (old.members \X {c}),
                     host |-> old.host, barred |-> old.barred]
  <2>1. /\ old.members = Range(rooms[code].members)
        /\ old.elder = Elders(rooms[code].members)
        /\ old.host = rooms[code].host
        /\ old.barred = rooms[code].banned_members
    BY <1>1, PartiesFacts
  <2> HIDE DEF old
  <2>2. Party(room) = [members |-> Range(room.members), elder |-> Elders(room.members),
                       host |-> room.host, barred |-> room.banned_members]
    BY DEF Party
  <2> QED BY <1>6, <1>7, <2>1, <2>2
<1>9. Parties(rooms)' = [Parties(rooms) EXCEPT ![code] = Party(room)]
  <2>1. /\ DOMAIN rooms' = DOMAIN rooms
        /\ \A r \in DOMAIN rooms : rooms'[r] = IF r = code THEN room ELSE rooms[r]
    BY <1>1, <1>5 DEF Inv, GoodRooms
  <2> QED BY Zenon, ZenonT(60), <1>1, <2>1 DEF Parties
<1>10. old.members # {} /\ c \notin old.barred
  BY <1>1, <1>4, PartiesFacts DEF GoodRoom
<1> QED BY <1>2, <1>8, <1>9, <1>10 DEF Abstract!Enter

\* LeaveRoom, for a leave, a removal or the end of a session: c departs, and a
\* host is succeeded by the oldest member left.  rs is the rooms up to who is
\* barred from c's.
LEMMA LeaveDeparts ==
    ASSUME Inv, NEW c, InRoom(c), c \in Range(MyRoom(c).members),
           NEW rs, AlmostGoodRooms(rs, c), DOMAIN rs = DOMAIN rooms,
           \A r \in DOMAIN rooms \ {connections[c]} : rs[r] = rooms[r],
           rs[connections[c]].members = MyRoom(c).members,
           rs[connections[c]].host = MyRoom(c).host,
           rooms' = LeaveRoom(rs, c)
    PROVE  Abstract!Depart(c, connections[c], rs[connections[c]].banned_members)
<1> DEFINE code == connections[c]
           room == rs[code]
           p == Parties(rooms)[code]
           t == Erase(room.members, c)
           left == p.members \ {c}
           gone == WithoutMember(room, c)
           heir == IF room.host = c THEN Head(t) ELSE room.host
<1>1. code \in DOMAIN rooms /\ code \in RoomCode
  BY DEF Inv, GoodRooms, InRoom
<1>2. /\ p.members = Range(room.members)
      /\ p.elder = Elders(room.members)
      /\ p.host = room.host
  BY <1>1, PartiesFacts DEF MyRoom
<1>3. AlmostGoodRoom(room, c) /\ room \in Room /\ c \in Range(room.members)
  BY <1>1 DEF AlmostGoodRooms, AlmostGoodRoom
<1>4. /\ room.members \in Seq(Id)
      /\ IsInjective(room.members)
      /\ room.host \in Range(room.members)
  BY Zenon, ZenonT(60), <1>3 DEF AlmostGoodRoom, Room
<1> DEFINE s == room.members
<1>5. /\ s \in Seq(Id) /\ IsInjective(s) /\ c \in Range(s) /\ t = Erase(s, c)
      /\ p.members = Range(s) /\ p.elder = Elders(s) /\ left = Range(s) \ {c}
  BY Zenon, ZenonT(60), <1>2, <1>3, <1>4
<1> HIDE DEF s, t, p, left
<1>6. t \in Seq(Id) /\ Range(t) = left
  BY ONLY SMTT(20), Z3T(60), <1>5, EraseFacts
<1>7. Elders(t) = p.elder \cap (left \X left)
  BY ONLY SMTT(20), Z3T(60), <1>5, EldersErase
<1>8. ASSUME t # <<>> PROVE \A m \in left : <<m, Head(t)>> \notin p.elder
  BY ONLY SMTT(20), Z3T(60), <1>5, <1>8, HeadEldest
<1> USE DEF t, left
<1>9. CASE t = <<>>
  <2>1. rooms' = Drop(rs, code)
    BY <1>1, <1>9 DEF LeaveRoom
  <2>2. left = {}
    BY <1>6, <1>9 DEF Range
  <2>3. Parties(rooms)' = [Parties(rooms) EXCEPT ![code] = NoParty]
    BY Zenon, ZenonT(60), <1>1, <2>1 DEF Parties, Drop
  <2> QED BY Zenon, ZenonT(60), <2>2, <2>3 DEF Abstract!Depart, Abstract!NoParty, NoParty, p
<1>10. CASE t # <<>>
  <2>1. rooms' = [rs EXCEPT ![code] = gone]
    BY <1>1, <1>10 DEF LeaveRoom
  <2>2. /\ gone.members = t
        /\ gone.host = heir
        /\ gone.banned_members = room.banned_members
    BY <1>3 DEF WithoutMember, Room
  <2>3. 1 \in DOMAIN t /\ Head(t) = t[1]
    BY <1>6, <1>10
  <2>4. Head(t) \in left
    BY <1>6, <2>3 DEF Range
  <2>5. \A m \in left : <<m, Head(t)>> \notin p.elder
    BY Zenon, ZenonT(60), <1>10, <1>8
  <2> HIDE DEF gone, t
  <2>6. heir \in left /\ Abstract!MayHost(p, left, heir)
    <3> HIDE DEF left
    <3>1. p.host = room.host /\ room.host \in p.members
      BY Zenon, ZenonT(60), <1>2, <1>4
    <3>2. room.host # c => room.host \in left
      BY Zenon, ZenonT(60), <1>2, <1>4 DEF left
    <3>3. c \notin left
      BY Zenon, ZenonT(60) DEF left
    <3>4. CASE room.host = c
      <4>1. heir = Head(t) /\ p.host \notin left
        BY Zenon, ZenonT(60), <3>1, <3>3, <3>4
      <4> QED BY Zenon, ZenonT(60), <2>4, <2>5, <4>1 DEF Abstract!MayHost
    <3>5. CASE room.host # c
      <4>1. heir = room.host /\ p.host \in left /\ p.host = room.host
        BY Zenon, ZenonT(60), <3>1, <3>2, <3>5
      <4> QED BY Zenon, ZenonT(60), <3>2, <3>5, <4>1 DEF Abstract!MayHost
    <3> QED BY Zenon, ZenonT(60), <3>4, <3>5
  <2>7. Party(gone) = [members |-> left, elder |-> p.elder \cap (left \X left),
                       host |-> heir, barred |-> room.banned_members]
    BY Zenon, ZenonT(60), <1>6, <1>7, <2>2 DEF Party
  <2>8. Parties(rooms)' = [Parties(rooms) EXCEPT ![code] = Party(gone)]
    <3>1. /\ DOMAIN rooms' = DOMAIN rooms
          /\ rooms'[code] = gone
          /\ \A r \in DOMAIN rooms \ {code} : rooms'[r] = rooms[r]
      BY <1>1, <2>1 DEF AlmostGoodRooms
    <3> QED BY Zenon, ZenonT(60), <1>1, <3>1 DEF Parties
  <2> HIDE DEF heir
  <2> QED BY Zenon, ZenonT(60), <2>6, <2>7, <2>8 DEF Abstract!Depart, p
<1> QED BY <1>9, <1>10

\* A leave, a kick or the end of a session is an exit, and changes nothing when
\* the client is in no room.
LEMMA LeaveExits ==
    ASSUME Inv, NEW c \in DOMAIN connections, rooms' = LeaveRoom(rooms, c)
    PROVE  Parties(rooms)' = Parties(rooms) \/ Abstract!Exit(c, connections[c])
<1>1. CASE ~InRoom(c)
  <2>1. rooms' = rooms
    BY <1>1 DEF LeaveRoom, InRoom
  <2> QED BY <2>1 DEF Parties
<1>2. CASE InRoom(c)
  <2>1. connections[c] \in DOMAIN rooms /\ connections[c] \in RoomCode
    BY <1>2 DEF Inv, GoodRooms, InRoom
  <2>2. c \in Range(MyRoom(c).members)
    BY <2>1, RoomCodeAssumption DEF Inv, RoomsAgree, MyRoom
  <2>3. AlmostGoodRooms(rooms, c)
    BY GoodAreAlmostGood DEF Inv
  <2>4. Abstract!Depart(c, connections[c], rooms[connections[c]].banned_members)
    BY <1>2, <2>2, <2>3, LeaveDeparts DEF MyRoom
  <2> QED BY <2>1, <2>2, <2>4, PartiesFacts DEF Abstract!Exit, MyRoom
<1> QED BY <1>1, <1>2

\* HandleBanMember is a ban, never of the host.
LEMMA BanBars ==
    ASSUME Inv, NEW c, NEW id, Hosts(c), Removable(c, id), rooms' = LeaveRoom(Bar(c, id), id)
    PROVE  Abstract!Ban(id, connections[id])
<1> DEFINE code == connections[id]
<1>1. /\ InRoom(c) /\ InRoom(id)
      /\ id \in DOMAIN connections
      /\ connections[id] = connections[c]
      /\ MyRoom(id) = MyRoom(c)
      /\ id # MyRoom(id).host
  BY DEF Hosts, Removable, InRoom, MyRoom
<1>2. code \in DOMAIN rooms /\ code \in RoomCode /\ MyRoom(id) \in Room
  BY <1>1 DEF Inv, GoodRooms, InRoom, MyRoom
<1>3. id \in Range(MyRoom(id).members)
  BY <1>1, <1>2, RoomCodeAssumption DEF Inv, RoomsAgree, MyRoom
<1>4. AlmostGoodRooms(Bar(c, id), id) /\ DOMAIN Bar(c, id) = DOMAIN rooms
  BY <1>1, BarredRooms
<1>5. /\ \A r \in DOMAIN rooms \ {code} : Bar(c, id)[r] = rooms[r]
      /\ Bar(c, id)[code] = [MyRoom(id) EXCEPT !.banned_members = @ \cup {id}]
  BY <1>1, <1>2 DEF Bar, MyRoom, Inv, GoodRooms
<1>6. /\ Bar(c, id)[code].members = MyRoom(id).members
      /\ Bar(c, id)[code].host = MyRoom(id).host
      /\ Bar(c, id)[code].banned_members = MyRoom(id).banned_members \cup {id}
  BY <1>2, <1>5 DEF Room
<1>7. Abstract!Depart(id, code, MyRoom(id).banned_members \cup {id})
  <2> DEFINE rs == Bar(c, id)
  <2>1. /\ AlmostGoodRooms(rs, id)
        /\ DOMAIN rs = DOMAIN rooms
        /\ \A r \in DOMAIN rooms \ {connections[id]} : rs[r] = rooms[r]
        /\ rs[connections[id]].members = MyRoom(id).members
        /\ rs[connections[id]].host = MyRoom(id).host
        /\ rooms' = LeaveRoom(rs, id)
    BY <1>4, <1>5, <1>6, Zenon, ZenonT(60)
  <2> HIDE DEF rs
  <2>2. Abstract!Depart(id, connections[id], rs[connections[id]].banned_members)
    BY <1>1, <1>3, <2>1, LeaveDeparts
  <2> QED BY <1>6, <2>2, Zenon, ZenonT(60) DEF rs
<1>8. /\ Parties(rooms)[code].members = Range(MyRoom(id).members)
      /\ Parties(rooms)[code].host = MyRoom(id).host
      /\ Parties(rooms)[code].barred = MyRoom(id).banned_members
  BY <1>2, PartiesFacts DEF MyRoom
<1> HIDE DEF code
<1> QED BY <1>1, <1>3, <1>7, <1>8 DEF Abstract!Ban, code

\* HandleTransferHost hands the room over to a member.
LEMMA TransferHandsOver ==
    ASSUME Inv, NEW c, NEW id, Hosts(c), id \in Range(MyRoom(c).members),
           rooms' = [rooms EXCEPT ![connections[c]].host = id]
    PROVE  Abstract!HandOver(id, connections[c])
<1> DEFINE code == connections[c]
           old == Parties(rooms)[code]
           room == [rooms[code] EXCEPT !.host = id]
<1>1. code \in DOMAIN rooms /\ code \in RoomCode /\ rooms[code] \in Room
  BY DEF Inv, GoodRooms, Hosts, InRoom
<1>2. /\ old.members = Range(rooms[code].members)
      /\ old.elder = Elders(rooms[code].members)
      /\ old.barred = rooms[code].banned_members
  BY <1>1, PartiesFacts
<1>3. /\ room.members = rooms[code].members
      /\ room.host = id
      /\ room.banned_members = rooms[code].banned_members
  BY <1>1 DEF Room
<1>4. rooms' = [rooms EXCEPT ![code] = room]
  OBVIOUS
<1> HIDE DEF room, old
<1>5. Party(room) = [members |-> old.members, elder |-> old.elder, host |-> id, barred |-> old.barred]
  BY <1>2, <1>3 DEF Party
<1>6. Parties(rooms)' = [Parties(rooms) EXCEPT ![code] = Party(room)]
  <2>1. /\ DOMAIN rooms' = DOMAIN rooms
        /\ \A r \in DOMAIN rooms : rooms'[r] = IF r = code THEN room ELSE rooms[r]
    BY <1>1, <1>4 DEF Inv, GoodRooms
  <2> QED BY Zenon, ZenonT(60), <1>1, <2>1 DEF Parties
<1> QED BY <1>2, <1>5, <1>6 DEF Abstract!HandOver, MyRoom, old

\* What a step of the server is to Membership.
Implements == Abstract!Next \/ Parties(rooms)' = Parties(rooms)

\* Setting metadata, the door or the password is nothing to Membership.
LEMMA SettingStutters ==
    ASSUME Inv, NEW c, InRoom(c), NEW room,
           room.members = MyRoom(c).members, room.host = MyRoom(c).host,
           room.banned_members = MyRoom(c).banned_members,
           rooms' = [rooms EXCEPT ![connections[c]] = room]
    PROVE  Implements
BY Zenon, ZenonT(60), FieldChangeStutters DEF Implements, InRoom, MyRoom

\* A handler that only answers is nothing to Membership.
LEMMA AnswerStutters == ASSUME rooms' = rooms PROVE Implements
BY DEF Implements, Parties

\* c is the member whose leave, kick or lost connection it is.
LEMMA LeaveImplements ==
    ASSUME Inv, NEW c \in DOMAIN connections, rooms' = LeaveRoom(rooms, c)
    PROVE  Implements
<1>1. CASE Parties(rooms)' = Parties(rooms)
  BY <1>1 DEF Implements
<1>2. CASE Abstract!Exit(c, connections[c])
  <2>1. c \in Id
    BY ConnectedIds DEF Inv
  <2>2. CASE connections[c] \in RoomCode
    BY <1>2, <2>1, <2>2 DEF Implements, Abstract!Next
  <2>3. CASE connections[c] = Empty
    <3>1. rooms' = rooms
      BY <2>3, RoomCodeAssumption DEF LeaveRoom, Inv, GoodRooms
    <3> QED BY <3>1, AnswerStutters
  <2> QED BY <2>2, <2>3 DEF Inv, StateType
<1> QED BY <1>1, <1>2, LeaveExits

\* Every message of a client is a step of Membership or nothing to it.
LEMMA MessageImplements ==
    ASSUME Inv, NEW c \in Id, HandleMessage(c)
    PROVE  Implements
<1>1. c \in sessions /\ c \in DOMAIN connections
  BY DEF HandleMessage, Inv, StateType
<1>2. ASSUME InRoom(c) PROVE connections[c] \in RoomCode /\ MyRoom(c) \in Room
  BY <1>2 DEF InRoom, MyRoom, Inv, GoodRooms
<1>3. CASE rooms' = rooms
  BY <1>3, AnswerStutters
<1>4. CASE HandleCreateRoom(c)
  <2>1. ASSUME connections[c] = Empty, NEW code \in RoomCode \ DOMAIN rooms,
               rooms' = Put(rooms, code, NewRoom(c))
        PROVE  Implements
    <3>1. Abstract!Open(c, code)
      BY <1>1, <2>1, CreateOpens
    <3> QED BY <3>1 DEF Implements, Abstract!Next
  <2> QED BY Zenon, ZenonT(60), <1>3, <1>4, <2>1 DEF HandleCreateRoom, Fail, Answer
<1>5. ASSUME NEW code \in RoomCode, NEW password \in Password, HandleJoinRoom(c, code, password)
      PROVE  Implements
  <2>1. CASE /\ JoinRefusal(c, code, password) = "none"
             /\ rooms' = [rooms EXCEPT ![code].members = Append(@, c)]
    <3>1. Abstract!Enter(c, code)
      BY Zenon, ZenonT(60), <1>1, <2>1, JoinEnters
    <3> QED BY <3>1 DEF Implements, Abstract!Next
  <2> QED BY <1>3, <1>5, <2>1 DEF HandleJoinRoom, Fail, Answer
<1>6. CASE HandleLeaveRoom(c)
  BY <1>1, <1>3, <1>6, LeaveImplements DEF HandleLeaveRoom, TakeOut, Fail, Answer
<1>7. ASSUME NEW key \in Key, NEW value \in Value, HandleSetRoomData(c, key, value)
      PROVE  Implements
  <2>1. CASE /\ InRoom(c)
             /\ rooms' = [rooms EXCEPT ![connections[c]].data = Write(@, key, value)]
    <3> DEFINE data == Write(MyRoom(c).data, key, value)
               room == [MyRoom(c) EXCEPT !.data = data]
    <3>1. rooms' = [rooms EXCEPT ![connections[c]] = room]
      BY <2>1 DEF MyRoom
    <3> HIDE DEF data
    <3>2. /\ room.members = MyRoom(c).members
          /\ room.host = MyRoom(c).host
          /\ room.banned_members = MyRoom(c).banned_members
      BY <1>2, <2>1 DEF Room
    <3> HIDE DEF room
    <3> QED BY Zenon, ZenonT(60), <2>1, <3>1, <3>2, SettingStutters
  <2> QED BY <1>3, <1>7, <2>1 DEF HandleSetRoomData, Hosts, Fail, Ignore, Answer
<1>8. ASSUME NEW key \in Key, NEW value \in Value, HandleSetMemberData(c, key, value)
      PROVE  Implements
  <2> DEFINE data == Write(MemberData(c), key, value)
  <2>1. CASE /\ InRoom(c)
             /\ rooms' = [rooms EXCEPT ![connections[c]].member_data = WriteMemberData(@, c, data)]
    <3> DEFINE slots == WriteMemberData(MyRoom(c).member_data, c, data)
               room == [MyRoom(c) EXCEPT !.member_data = slots]
    <3>1. rooms' = [rooms EXCEPT ![connections[c]] = room]
      BY <2>1 DEF MyRoom
    <3> HIDE DEF slots
    <3>2. /\ room.members = MyRoom(c).members
          /\ room.host = MyRoom(c).host
          /\ room.banned_members = MyRoom(c).banned_members
      BY <1>2, <2>1 DEF Room
    <3> HIDE DEF room
    <3> QED BY Zenon, ZenonT(60), <2>1, <3>1, <3>2, SettingStutters
  <2> QED BY <1>3, <1>8, <2>1 DEF HandleSetMemberData, Fail, Ignore, Answer
<1>9. ASSUME NEW id \in Id, HandleKickMember(c, id) PROVE Implements
  BY <1>3, <1>9, LeaveImplements DEF HandleKickMember, Removable, TakeOut, Fail, Answer
<1>10. ASSUME NEW id \in Id, HandleBanMember(c, id) PROVE Implements
  <2>1. CASE Hosts(c) /\ Removable(c, id) /\ rooms' = LeaveRoom(Bar(c, id), id)
    <3>1. Abstract!Ban(id, connections[id])
      BY <2>1, BanBars
    <3>2. connections[id] \in RoomCode
      BY <1>2, <2>1 DEF Hosts, Removable
    <3> QED BY <3>1, <3>2 DEF Implements, Abstract!Next
  <2> QED BY <1>3, <1>10, <2>1 DEF HandleBanMember, TakeOut, Fail, Answer
<1>11. ASSUME NEW id \in Id, HandleTransferHost(c, id) PROVE Implements
  <2>1. CASE /\ Hosts(c)
             /\ id \in Range(MyRoom(c).members)
             /\ rooms' = [rooms EXCEPT ![connections[c]].host = id]
    <3>1. Abstract!HandOver(id, connections[c])
      BY Zenon, ZenonT(60), <2>1, TransferHandsOver
    <3>2. connections[c] \in RoomCode
      BY <1>2, <2>1 DEF Hosts
    <3> QED BY <3>1, <3>2 DEF Implements, Abstract!Next
  <2> QED BY <1>3, <1>11, <2>1 DEF HandleTransferHost, Fail, Ignore, Answer
<1>12. ASSUME NEW open \in BOOLEAN, HandleSetRoomJoinable(c, open) PROVE Implements
  <2>1. CASE InRoom(c) /\ rooms' = [rooms EXCEPT ![connections[c]].open = open]
    <3> DEFINE room == [MyRoom(c) EXCEPT !.open = open]
    <3>1. rooms' = [rooms EXCEPT ![connections[c]] = room]
      BY <2>1 DEF MyRoom
    <3>2. /\ room.members = MyRoom(c).members
          /\ room.host = MyRoom(c).host
          /\ room.banned_members = MyRoom(c).banned_members
      BY <1>2, <2>1 DEF Room
    <3> HIDE DEF room
    <3> QED BY Zenon, ZenonT(60), <2>1, <3>1, <3>2, SettingStutters
  <2> QED BY <1>3, <1>12, <2>1 DEF HandleSetRoomJoinable, Hosts, Fail, Ignore, Answer
<1>13. ASSUME NEW password \in Password, HandleSetRoomPassword(c, password) PROVE Implements
  <2>1. CASE InRoom(c) /\ rooms' = [rooms EXCEPT ![connections[c]].password = password]
    <3> DEFINE room == [MyRoom(c) EXCEPT !.password = password]
    <3>1. rooms' = [rooms EXCEPT ![connections[c]] = room]
      BY <2>1 DEF MyRoom
    <3>2. /\ room.members = MyRoom(c).members
          /\ room.host = MyRoom(c).host
          /\ room.banned_members = MyRoom(c).banned_members
      BY <1>2, <2>1 DEF Room
    <3> HIDE DEF room
    <3> QED BY Zenon, ZenonT(60), <2>1, <3>1, <3>2, SettingStutters
  <2> QED BY <1>3, <1>13, <2>1 DEF HandleSetRoomPassword, Hosts, Fail, Answer
<1>14. CASE Heartbeat(c)
  BY <1>3, <1>14 DEF Heartbeat, Answer
<1>15. CASE HandleRoomChat(c)
  BY <1>3, <1>15 DEF HandleRoomChat, Fail, Answer
<1>16. ASSUME NEW id \in Id, HandleP2PSignal(c, id) PROVE Implements
  BY <1>3, <1>16 DEF HandleP2PSignal, Ignore, Answer
<1> QED BY <1>4, <1>5, <1>6, <1>7, <1>8, <1>9, <1>10, <1>11, <1>12, <1>13, <1>14, <1>15, <1>16
        DEF HandleMessage

\* The server without rooms is Membership without parties.
LEMMA InitImplements == Init => Abstract!Init
BY DEF Init, EmptyMap, Abstract!Init, Abstract!NoParty, Parties, NoParty

\* Every step of the server is a step of Membership or nothing to it.
LEMMA NextImplements == Inv /\ [Next]_vars => [Abstract!Next]_(Parties(rooms))
<1> SUFFICES ASSUME Inv, [Next]_vars PROVE Implements
  BY DEF Implements
<1>1. CASE UNCHANGED vars
  BY <1>1, AnswerStutters DEF vars
<1>2. CASE AcceptLoop
  BY <1>2, AnswerStutters DEF AcceptLoop
<1>3. ASSUME NEW c \in Id, Session(c) PROVE Implements
  BY <1>3, AnswerStutters DEF Session
<1>4. ASSUME NEW c \in Id, SessionEnd(c) PROVE Implements
  BY <1>4, LeaveImplements DEF SessionEnd, Inv, StateType
<1>5. ASSUME NEW c \in Id, HandleMessage(c) PROVE Implements
  BY <1>5, MessageImplements
<1> QED BY <1>1, <1>2, <1>3, <1>4, <1>5 DEF Next

\* The handlers of the room service implement Membership: whatever is
\* requested and whoever disconnects, nobody is in two rooms, a barred client
\* stays out, and a host is succeeded by the member who joined first.
THEOREM ImplementsMembershipHolds == Spec => ImplementsMembership
<1>1. Init => Abstract!Init
  BY InitImplements
<1>2. Inv /\ [Next]_vars => [Abstract!Next]_(Parties(rooms))
  BY NextImplements
<1> QED BY <1>1, <1>2, InvHolds, PTL DEF Spec, ImplementsMembership, Abstract!Spec

-----------------------------------------------------------------------------
(***************************************************************************)
(* Who changes a room.                                                     *)
(***************************************************************************)

Controls(room) == <<room.data, room.open, room.password, room.banned_members>>

\* The step leaves what the host of room r controls as it is, and its host
\* unless that host has left.
Held(r) ==
    /\ Controls(rooms'[r]) = Controls(rooms[r])
    /\ rooms'[r].host = rooms[r].host \/ rooms[r].host \notin Range(rooms'[r].members)

\* LeaveRoom replaces a host that leaves and changes nothing a host controls.
LEMMA LeaveHolds ==
    ASSUME Inv, NEW c, rooms' = LeaveRoom(rooms, c),
           NEW r \in DOMAIN rooms, r \in DOMAIN rooms'
    PROVE  Held(r)
<1> DEFINE code == connections[c]
           room == rooms[r]
           gone == WithoutMember(room, c)
<1>1. room \in Room /\ room.members \in Seq(Id) /\ IsInjective(room.members)
  BY DEF Inv, GoodRooms, GoodRoom, Room
<1>2. Range(Erase(room.members, c)) = Range(room.members) \ {c}
  BY <1>1, EraseFacts
<1>3. CASE rooms'[r] = room
  BY <1>3 DEF Held
<1>4. CASE rooms'[r] = gone
  <2> DEFINE left == Erase(room.members, c)
             heir == IF room.host = c THEN Head(left) ELSE room.host
             slots == Drop(room.member_data, c)
  <2>1. gone = [room EXCEPT !.members = left, !.member_data = slots, !.host = heir]
    BY DEF WithoutMember
  <2> HIDE DEF left, heir, slots, gone
  <2>2. /\ gone.members = left /\ gone.host = heir /\ gone.data = room.data
        /\ gone.password = room.password /\ gone.banned_members = room.banned_members
    BY <1>1, <2>1 DEF Room
  <2>3. gone.open = room.open
    BY <1>1, <2>1 DEF Room
  <2>4. Controls(gone) = Controls(room)
    BY <2>2, <2>3 DEF Controls
  <2>5. gone.host = room.host \/ room.host \notin Range(gone.members)
    BY <1>2, <2>2 DEF left, heir
  <2> QED BY <1>4, <2>4, <2>5 DEF Held
<1> QED BY <1>3, <1>4 DEF LeaveRoom, Drop

\* Only the host of a room changes what the host controls, or hands it over.
LEMMA HostOnly ==
    ASSUME Inv, NEW c \in sessions, HandleMessage(c), NEW r \in DOMAIN rooms, r \in DOMAIN rooms'
    PROVE  Held(r) \/ c = rooms[r].host
<1> DEFINE room == rooms[r]
           Goal == Held(r) \/ c = room.host
<1>1. room \in Room /\ rooms \in [DOMAIN rooms -> Room]
  BY DEF Inv, GoodRooms, GoodRoom
<1>2. ASSUME rooms'[r] = room PROVE Goal
  BY <1>2 DEF Held
<1>3. ASSUME NEW d, NEW msgs, Answer(d, msgs) PROVE Goal
  BY <1>2, <1>3 DEF Answer
<1>4. ASSUME NEW d, Ignore(d) PROVE Goal
  BY <1>3, <1>4 DEF Ignore
<1>5. ASSUME NEW d, NEW code, Fail(d, code) PROVE Goal
  BY <1>3, <1>5 DEF Fail
<1>6. Hosts(c) /\ r = connections[c] => Goal
  BY DEF Hosts, MyRoom
<1>7. ASSUME NEW d, NEW msg, TakeOut(rooms, d, msg) PROVE Goal
  BY Zenon, ZenonT(60), <1>7, LeaveHolds DEF TakeOut
<1>8. CASE Heartbeat(c)
  BY <1>3, <1>8 DEF Heartbeat
<1>9. CASE HandleCreateRoom(c)
  <2>1. CASE \E code \in RoomCode \ DOMAIN rooms : rooms' = Put(rooms, code, NewRoom(c))
    BY <1>2, <2>1 DEF Put
  <2> QED BY Zenon, ZenonT(60), <1>5, <1>9, <2>1 DEF HandleCreateRoom
<1>10. ASSUME NEW code \in RoomCode, NEW password \in Password, HandleJoinRoom(c, code, password)
       PROVE  Goal
  <2>1. CASE JoinRefusal(c, code, password) = "none"
                /\ rooms' = [rooms EXCEPT ![code].members = Append(@, c)]
    <3>1. CASE r = code
      <4> DEFINE more == Append(room.members, c)
      <4>1. rooms'[r] = [room EXCEPT !.members = more]
        BY <2>1, <3>1
      <4> HIDE DEF more
      <4>2. /\ rooms'[r].host = room.host /\ rooms'[r].data = room.data
            /\ rooms'[r].password = room.password
            /\ rooms'[r].banned_members = room.banned_members
        BY <1>1, <4>1 DEF Room
      <4>3. rooms'[r].open = room.open
        BY <1>1, <4>1 DEF Room
      <4> QED BY <4>2, <4>3 DEF Held, Controls
    <3>2. CASE r # code
      BY <1>2, <2>1, <3>2
    <3> QED BY <3>1, <3>2
  <2> QED BY <1>5, <1>10, <2>1 DEF HandleJoinRoom
<1>11. CASE HandleLeaveRoom(c)
  BY <1>5, <1>7, <1>11 DEF HandleLeaveRoom
<1>12. CASE HandleRoomChat(c)
  BY <1>2, <1>5, <1>12 DEF HandleRoomChat
<1>13. ASSUME NEW id \in Id, HandleP2PSignal(c, id) PROVE Goal
  BY <1>3, <1>4, <1>13 DEF HandleP2PSignal
<1>14. ASSUME NEW key \in Key, NEW value \in Value, HandleSetRoomData(c, key, value) PROVE Goal
  <2>1. CASE /\ Hosts(c)
             /\ rooms' = [rooms EXCEPT ![connections[c]].data = Write(@, key, value)]
    BY <1>2, <1>6, <2>1
  <2> QED BY <1>4, <1>5, <1>14, <2>1 DEF HandleSetRoomData
<1>15. ASSUME NEW key \in Key, NEW value \in Value, HandleSetMemberData(c, key, value) PROVE Goal
  <2> DEFINE slots == WriteMemberData(MyRoom(c).member_data, c, Write(MemberData(c), key, value))
  <2>1. CASE rooms' = [rooms EXCEPT ![connections[c]].member_data =
                          WriteMemberData(@, c, Write(MemberData(c), key, value))]
    <3>1. CASE r = connections[c]
      <4>1. rooms'[r] = [room EXCEPT !.member_data = slots]
        BY <2>1, <3>1 DEF MyRoom
      <4> HIDE DEF slots
      <4>2. /\ rooms'[r].host = room.host /\ rooms'[r].data = room.data
            /\ rooms'[r].password = room.password
            /\ rooms'[r].banned_members = room.banned_members
        BY <1>1, <4>1 DEF Room
      <4>3. rooms'[r].open = room.open
        BY <1>1, <4>1 DEF Room
      <4> QED BY <4>2, <4>3 DEF Held, Controls
    <3>2. CASE r # connections[c]
      BY <1>2, <2>1, <3>2
    <3> QED BY <3>1, <3>2
  <2> QED BY <1>4, <1>5, <1>15, <2>1 DEF HandleSetMemberData
<1>16. ASSUME NEW id \in Id, HandleKickMember(c, id) PROVE Goal
  BY <1>5, <1>7, <1>16 DEF HandleKickMember
<1>17. ASSUME NEW id \in Id, HandleBanMember(c, id) PROVE Goal
  <2>1. CASE Hosts(c) /\ Removable(c, id) /\ rooms' = LeaveRoom(Bar(c, id), id)
    <3>1. CASE r # connections[c]
      <4>1. connections[id] = connections[c] /\ DOMAIN Bar(c, id) = DOMAIN rooms
        BY <2>1 DEF Removable, Bar
      <4>2. Bar(c, id)[r] = room
        BY <3>1 DEF Bar
      <4>3. rooms'[r] = room
        BY <2>1, <3>1, <4>1, <4>2 DEF LeaveRoom, Drop
      <4> QED BY <1>2, <4>3
    <3> QED BY <1>6, <2>1, <3>1
  <2> QED BY <1>5, <1>17, <2>1 DEF HandleBanMember, TakeOut
<1>18. ASSUME NEW id \in Id, HandleTransferHost(c, id) PROVE Goal
  <2>1. CASE Hosts(c) /\ rooms' = [rooms EXCEPT ![connections[c]].host = id]
    BY <1>2, <1>6, <2>1
  <2> QED BY <1>4, <1>5, <1>18, <2>1 DEF HandleTransferHost
<1>19. ASSUME NEW open \in BOOLEAN, HandleSetRoomJoinable(c, open) PROVE Goal
  <2>1. CASE Hosts(c) /\ rooms' = [rooms EXCEPT ![connections[c]].open = open]
    BY <1>2, <1>6, <2>1
  <2> QED BY <1>4, <1>5, <1>19, <2>1 DEF HandleSetRoomJoinable
<1>20. ASSUME NEW password \in Password, HandleSetRoomPassword(c, password) PROVE Goal
  <2>1. CASE Hosts(c) /\ rooms' = [rooms EXCEPT ![connections[c]].password = password]
    BY <1>2, <1>6, <2>1
  <2> QED BY <1>5, <1>20, <2>1 DEF HandleSetRoomPassword
<1> QED BY Zenon, ZenonT(60), <1>8, <1>9, <1>10, <1>11, <1>12, <1>13, <1>14, <1>15, <1>16, <1>17, <1>18, <1>19,
           <1>20 DEF HandleMessage

\* Metadata, access, bans and a hand-over of the host are the host's: any step
\* that changes them is a message of the host of that room, and of nobody else.
THEOREM HostControlsRoomHolds == Spec => HostControlsRoom
<1> DEFINE Changed(r) ==
             \/ Controls(rooms'[r]) # Controls(rooms[r])
             \/ rooms[r].host \in Range(rooms'[r].members) \ {rooms'[r].host}
           Handling == {c \in sessions : HandleMessage(c)}
<1>1. ASSUME Inv, [Next]_vars, NEW r \in DOMAIN rooms, r \in DOMAIN rooms', Changed(r)
      PROVE  Handling = {rooms[r].host}
  <2>1. ~Held(r)
    BY <1>1 DEF Held
  <2>2. \A c \in Handling : c = rooms[r].host
    BY <1>1, <2>1, HostOnly
  <2>3. Handling # {}
    <3>1. rooms' # rooms
      BY <2>1 DEF Held
    <3>2. ASSUME NEW c \in Id, SessionEnd(c) PROVE FALSE
      BY <1>1, <2>1, <3>2, LeaveHolds DEF SessionEnd
    <3>3. PICK c \in Id : HandleMessage(c)
      BY Zenon, ZenonT(60), <1>1, <3>1, <3>2 DEF Next, vars, AcceptLoop, Session
    <3>4. c \in sessions
      BY <3>3 DEF HandleMessage
    <3> QED BY <3>3, <3>4
  <2> HIDE DEF Handling
  <2> QED BY <2>2, <2>3
<1>2. Inv /\ [Next]_vars =>
        \A r \in DOMAIN rooms \cap DOMAIN rooms' : Changed(r) => Handling = {rooms[r].host}
  BY <1>1
<1>3. Inv /\ [Next]_vars =>
        [\A r \in DOMAIN rooms \cap DOMAIN rooms' :
            LET Controlled(room) ==
                   <<room.data, room.open, room.password, room.banned_members>>
            IN  \/ Controlled(rooms'[r]) # Controlled(rooms[r])
                \/ rooms[r].host \in Range(rooms'[r].members) \ {rooms'[r].host}
                => {c \in sessions : HandleMessage(c)} = {rooms[r].host}]_vars
  BY <1>2 DEF Controls
<1> QED BY <1>3, InvHolds, PTL DEF HostControlsRoom, Spec

=============================================================================
