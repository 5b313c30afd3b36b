---------------------------- MODULE ViewProofs ------------------------------
(***************************************************************************)
(* Views: what a client makes of the events it is sent, one by one and in  *)
(* a row, and which events lead from one state of a room to another.       *)
(***************************************************************************)
EXTENDS ClientApi, MapProofs

\* Who tries a leaf that names no prover: SMT, then Zenon, then SMT with more time.  Leaves whose
\* goal leads SMT astray name Zenon, with a second attempt that has more time.
USE SMTT(20), ZenonT(20), Z3T(60)

(***************************************************************************)
(* Views.  What a client's cache says, apart from the order of members.    *)
(***************************************************************************)

ViewOf(id, room, host, open, passworded, members, data, member_data) ==
    [id |-> id, room |-> room, host |-> host, open |-> open, passworded |-> passworded,
     members |-> members, data |-> data, member_data |-> member_data]

\* In no room; 0 is the id before AssignClientId.
Outside(id) == ViewOf(id, Empty, 0, TRUE, FALSE, {}, EmptyMap, EmptyMap)

\* In a room as the server keeps it.
Inside(id, code, room) ==
    ViewOf(id, code, room.host, room.open, room.password # Empty, Range(room.members),
           room.data, room.member_data)

\* The view of a client's cache.
Cache(cl) ==
    ViewOf(cl.id, cl.room, cl.host, cl.open, cl.passworded, Range(cl.members), cl.data,
           cl.member_data)

\* CarveServer on views.
Apply(v, msg) ==
    CASE msg.type = "AssignClientId" ->
            ViewOf(msg.id, v.room, v.host, v.open, v.passworded, v.members, v.data,
                   v.member_data)
      [] msg.type = "AssignRoomId" ->
            ViewOf(v.id, msg.room, 0, TRUE, FALSE, {v.id}, EmptyMap, EmptyMap)
      [] msg.type = "PeerJoined" ->
            ViewOf(v.id, v.room, v.host, v.open, v.passworded, v.members \cup {msg.id},
                   v.data, v.member_data)
      [] msg.type = "PeerLeft" ->
            IF msg.id = v.id THEN Outside(v.id)
            ELSE ViewOf(v.id, v.room, v.host, v.open, v.passworded, v.members \ {msg.id},
                        v.data, Drop(v.member_data, msg.id))
      [] msg.type = "HostChanged" ->
            ViewOf(v.id, v.room, msg.id, v.open, v.passworded, v.members, v.data,
                   v.member_data)
      [] msg.type = "RoomDataChanged" ->
            ViewOf(v.id, v.room, v.host, v.open, v.passworded, v.members,
                   Write(v.data, msg.key, msg.value), v.member_data)
      [] msg.type = "MemberDataChanged" ->
            ViewOf(v.id, v.room, v.host, v.open, v.passworded, v.members, v.data,
                   StoreMemberData(v.member_data, msg.id, msg.key, msg.value))
      [] msg.type \in {"KickedByHost", "BannedByHost"} -> Outside(v.id)
      [] msg.type = "RoomAccessChanged" ->
            ViewOf(v.id, v.room, v.host, msg.open, msg.passworded, v.members, v.data,
                   v.member_data)
      [] OTHER -> v

\* The message finds client c in the state it is about.
Legal(c, v, msg) ==
    /\ msg.type = "AssignClientId" => v.members = {} /\ msg.id = c
    /\ msg.type = "AssignRoomId" => v.room = Empty /\ v.members = {} /\ v.id = c
    /\ msg.type = "PeerJoined" => v.room # Empty /\ msg.id \notin v.members
    /\ msg.type \in {"PeerLeft", "HostChanged", "RoomChat", "MemberDataChanged", "P2PSignal"} =>
          msg.id \in v.members
    /\ msg.type = "P2PSignal" => msg.id # v.id
    /\ msg.type \in {"KickedByHost", "BannedByHost", "RoomDataChanged", "RoomAccessChanged"} =>
          v.room # Empty

\* The fields of a view.
LEMMA ViewFields ==
    ASSUME NEW id, NEW room, NEW host, NEW open, NEW passworded, NEW members, NEW data,
           NEW member_data
    PROVE  LET v == ViewOf(id, room, host, open, passworded, members, data, member_data)
           IN  /\ v.id = id /\ v.room = room /\ v.host = host
               /\ v.open = open /\ v.passworded = passworded
               /\ v.members = members /\ v.data = data /\ v.member_data = member_data
BY DEF ViewOf

\* One message each, as the server makes them.
LEMMA ApplyClient ==
    ASSUME NEW v, NEW id
    PROVE  /\ Apply(v, AboutClient("AssignClientId", id)) =
                 ViewOf(id, v.room, v.host, v.open, v.passworded, v.members, v.data,
                        v.member_data)
           /\ Apply(v, AboutClient("PeerJoined", id)) =
                 ViewOf(v.id, v.room, v.host, v.open, v.passworded, v.members \cup {id},
                        v.data, v.member_data)
           /\ Apply(v, AboutClient("HostChanged", id)) =
                 ViewOf(v.id, v.room, id, v.open, v.passworded, v.members, v.data,
                        v.member_data)
           /\ id = v.id => Apply(v, AboutClient("PeerLeft", id)) = Outside(v.id)
           /\ id # v.id => Apply(v, AboutClient("PeerLeft", id)) =
                 ViewOf(v.id, v.room, v.host, v.open, v.passworded, v.members \ {id},
                        v.data, Drop(v.member_data, id))
           /\ Apply(v, AboutClient("RoomChat", id)) = v
           /\ Apply(v, AboutClient("P2PSignal", id)) = v
BY DEF Apply, AboutClient

\* The same for the messages that are not about one client.
LEMMA ApplyOther ==
    ASSUME NEW v
    PROVE  /\ \A code : Apply(v, AssignRoomId(code)) =
                 ViewOf(v.id, code, 0, TRUE, FALSE, {v.id}, EmptyMap, EmptyMap)
           /\ \A key, value : Apply(v, RoomDataChanged(key, value)) =
                 ViewOf(v.id, v.room, v.host, v.open, v.passworded, v.members,
                        Write(v.data, key, value), v.member_data)
           /\ \A id, key, value : Apply(v, MemberDataChanged(id, key, value)) =
                 ViewOf(v.id, v.room, v.host, v.open, v.passworded, v.members, v.data,
                        StoreMemberData(v.member_data, id, key, value))
           /\ \A room : Apply(v, RoomAccessChanged(room)) =
                 ViewOf(v.id, v.room, v.host, room.open, room.password # Empty, v.members,
                        v.data, v.member_data)
           /\ Apply(v, Bare("KickedByHost")) = Outside(v.id)
           /\ Apply(v, Bare("BannedByHost")) = Outside(v.id)
BY DEF Apply, AssignRoomId, RoomDataChanged, MemberDataChanged, RoomAccessChanged, Bare

\* One key of one member.
LEMMA ApplyStore ==
    ASSUME NEW v, NEW id, NEW key, NEW value
    PROVE  Apply(v, MemberDataChanged(id, key, value)) =
              ViewOf(v.id, v.room, v.host, v.open, v.passworded, v.members, v.data,
                     StoreMemberData(v.member_data, id, key, value))
BY Zenon, ZenonT(60), ApplyOther

\* What is left out of net changes no view, whenever it comes.
LEMMA ApplyUncarved ==
    ASSUME NEW c, NEW v, NEW msg, ~Carved(msg)
    PROVE  Legal(c, v, msg) /\ Apply(v, msg) = v
BY Zenon, ZenonT(60) DEF Legal, Apply, Carved

-----------------------------------------------------------------------------
(***************************************************************************)
(* Traces.                                                                 *)
(***************************************************************************)

\* The messages, in order and each of them legal, lead c from view a to view b.
Trace(c, a, msgs, b) ==
    \E run : /\ run[0] = a
             /\ run[Len(msgs)] = b
             /\ \A i \in 1..Len(msgs) :
                   Legal(c, run[i - 1], msgs[i]) /\ run[i] = Apply(run[i - 1], msgs[i])

\* Nothing is sent, nothing changes.
LEMMA TraceEmpty == \A c, a : Trace(c, a, <<>>, a)
<1> TAKE c, a
<1> DEFINE run == [i \in 0..0 |-> a]
<1>1. run[0] = a /\ Len(<<>>) = 0
  OBVIOUS
<1>2. \A i \in 1..0 : FALSE
  OBVIOUS
<1> HIDE DEF run
<1> QED BY Zenon, ZenonT(60), <1>1, <1>2 DEF Trace

\* One message.
LEMMA TraceOne ==
    ASSUME NEW c, NEW a, NEW msg, Legal(c, a, msg)
    PROVE  Trace(c, a, <<msg>>, Apply(a, msg))
<1> DEFINE b == Apply(a, msg)
           run == [i \in 0..1 |-> IF i = 0 THEN a ELSE b]
<1>1. run[0] = a /\ run[1] = b /\ Len(<<msg>>) = 1 /\ <<msg>>[1] = msg
  OBVIOUS
<1>2. \A i \in 1..1 : i = 1 /\ i - 1 = 0
  OBVIOUS
<1>3. \A i \in 1..1 : Legal(c, run[i - 1], <<msg>>[i]) /\ run[i] = Apply(run[i - 1], <<msg>>[i])
  <2> TAKE i \in 1..1
  <2>1. i = 1 /\ i - 1 = 0
    BY <1>2
  <2> HIDE DEF run
  <2> QED BY Zenon, ZenonT(60), <1>1, <2>1
<1> HIDE DEF run
<1> QED BY Zenon, ZenonT(60), <1>1, <1>3 DEF Trace

\* The sends of one loop after those of another.
LEMMA TraceConcat ==
    ASSUME NEW c, NEW a, NEW b, NEW d, NEW S, NEW s \in Seq(S), NEW t \in Seq(S),
           Trace(c, a, s, b), Trace(c, b, t, d)
    PROVE  Trace(c, a, s \o t, d)
<1>1. PICK f : /\ f[0] = a /\ f[Len(s)] = b
               /\ \A i \in 1..Len(s) : Legal(c, f[i - 1], s[i]) /\ f[i] = Apply(f[i - 1], s[i])
  BY Zenon, ZenonT(60) DEF Trace
<1>2. PICK g : /\ g[0] = b /\ g[Len(t)] = d
               /\ \A i \in 1..Len(t) : Legal(c, g[i - 1], t[i]) /\ g[i] = Apply(g[i - 1], t[i])
  BY Zenon, ZenonT(60) DEF Trace
<1> DEFINE m == Len(s)
           n == Len(t)
           run == [i \in 0..(m + n) |-> IF i <= m THEN f[i] ELSE g[i - m]]
<1>3. m \in Nat /\ n \in Nat /\ Len(s \o t) = m + n
  OBVIOUS
<1>4. /\ \A i \in 1..m : (s \o t)[i] = s[i]
      /\ \A i \in 1..n : (s \o t)[m + i] = t[i]
  OBVIOUS
<1> DEFINE u == s \o t
<1> HIDE DEF m, n, u
<1>5. /\ \A i \in 0..m : run[i] = f[i]
      /\ \A i \in 1..n : run[m + i] = g[i]
  BY <1>3
<1>6. run[m] = g[0]
  BY <1>1, <1>2, <1>3, <1>5 DEF m
<1>7. \A i \in 0..n : run[m + i] = g[i]
  <2> TAKE i \in 0..n
  <2>1. CASE i = 0
    BY <1>3, <1>6, <2>1
  <2>2. CASE i \in 1..n
    BY Zenon, ZenonT(60), <1>5, <2>2
  <2> QED BY <2>1, <2>2, <1>3
<1> HIDE DEF run
<1>8. run[0] = a /\ run[m + n] = d
  BY <1>1, <1>2, <1>3, <1>5, <1>7 DEF n
<1>9. ASSUME NEW i \in 1..(m + n)
      PROVE  Legal(c, run[i - 1], u[i]) /\ run[i] = Apply(run[i - 1], u[i])
  <2>1. CASE i <= m
    <3>1. i \in 1..m /\ i \in 0..m /\ i - 1 \in 0..m
      BY <1>3, <2>1
    <3>2. run[i - 1] = f[i - 1] /\ run[i] = f[i] /\ u[i] = s[i]
      BY Zenon, ZenonT(60), <1>4, <1>5, <3>1 DEF u
    <3> QED BY <1>1, <3>1, <3>2 DEF m
  <2>2. CASE i > m
    <3> DEFINE j == i - m
    <3>1. j \in 1..n /\ j \in 0..n /\ j - 1 \in 0..n /\ i = m + j /\ i - 1 = m + (j - 1)
      BY <1>3, <2>2
    <3> HIDE DEF j
    <3>2. run[i - 1] = g[j - 1] /\ run[i] = g[j] /\ u[i] = t[j]
      BY Zenon, ZenonT(60), <1>4, <1>7, <3>1 DEF u
    <3> QED BY <1>2, <3>1, <3>2 DEF n
  <2> QED BY <1>3, <2>1, <2>2
<1> QED BY Zenon, ZenonT(60), <1>3, <1>8, <1>9 DEF Trace, u

\* Poll carves the first message.
LEMMA TraceTail ==
    ASSUME NEW c, NEW a, NEW d, NEW S, NEW s \in Seq(S), s # <<>>, Trace(c, a, s, d)
    PROVE  Legal(c, a, Head(s)) /\ Trace(c, Apply(a, Head(s)), Tail(s), d)
<1>1. PICK f : /\ f[0] = a /\ f[Len(s)] = d
               /\ \A i \in 1..Len(s) : Legal(c, f[i - 1], s[i]) /\ f[i] = Apply(f[i - 1], s[i])
  BY Zenon, ZenonT(60) DEF Trace
<1> DEFINE n == Len(s)
           t == Tail(s)
           run == [i \in 0..(n - 1) |-> f[i + 1]]
<1>2. n \in Nat /\ n > 0 /\ Len(t) = n - 1 /\ Head(s) = s[1]
  OBVIOUS
<1>3. \A i \in 1..(n - 1) : t[i] = s[i + 1]
  OBVIOUS
<1> HIDE DEF n, t
<1>4. Legal(c, a, s[1]) /\ f[1] = Apply(a, s[1])
  <2>1. 1 \in 1..Len(s) /\ 1 - 1 = 0
    BY <1>2 DEF n
  <2>2. Legal(c, f[1 - 1], s[1]) /\ f[1] = Apply(f[1 - 1], s[1])
    BY <1>1, <2>1
  <2>3. f[1 - 1] = a
    BY <1>1, <2>1
  <2> HIDE <2>1
  <2> QED BY Zenon, ZenonT(60), <2>2, <2>3
<1>5. \A i \in 0..(n - 1) : run[i] = f[i + 1]
  OBVIOUS
<1>6. run[0] = f[1] /\ run[n - 1] = d
  BY <1>1, <1>2, <1>5 DEF n
<1> HIDE DEF run
<1>7. ASSUME NEW i \in 1..(n - 1)
      PROVE  Legal(c, run[i - 1], t[i]) /\ run[i] = Apply(run[i - 1], t[i])
  <2>1. i + 1 \in 1..n /\ (i + 1) - 1 = i /\ i - 1 \in 0..(n - 1) /\ (i - 1) + 1 = i
        /\ i \in 0..(n - 1)
    BY <1>2
  <2>2. run[i - 1] = f[i] /\ run[i] = f[i + 1] /\ t[i] = s[i + 1]
    BY <1>3, <1>5, <2>1
  <2>3. Legal(c, f[(i + 1) - 1], s[i + 1]) /\ f[i + 1] = Apply(f[(i + 1) - 1], s[i + 1])
    BY <1>1, <2>1 DEF n
  <2> QED BY <2>1, <2>2, <2>3
<1>8. Trace(c, f[1], t, d)
  BY Zenon, ZenonT(60), <1>2, <1>6, <1>7 DEF Trace
<1> QED BY Zenon, ZenonT(60), <1>2, <1>4, <1>8 DEF t

\* Two messages.
LEMMA TraceTwo ==
    ASSUME NEW c, NEW a, NEW m, NEW n, Legal(c, a, m), Legal(c, Apply(a, m), n)
    PROVE  Trace(c, a, <<m, n>>, Apply(Apply(a, m), n))
<1> DEFINE b == Apply(a, m)
           d == Apply(b, n)
           s == <<m, n>>
           run == [i \in 0..2 |-> IF i = 0 THEN a ELSE IF i = 1 THEN b ELSE d]
<1>1. run[0] = a /\ run[1] = b /\ run[2] = d /\ Len(s) = 2 /\ s[1] = m /\ s[2] = n
  OBVIOUS
<1>2. \A i \in 1..2 : (i = 1 /\ i - 1 = 0) \/ (i = 2 /\ i - 1 = 1)
  OBVIOUS
<1> HIDE DEF run, s
<1>3. \A i \in 1..2 : Legal(c, run[i - 1], s[i]) /\ run[i] = Apply(run[i - 1], s[i])
  <2> TAKE i \in 1..2
  <2> QED BY Zenon, ZenonT(60), <1>1, <1>2
<1> QED BY Zenon, ZenonT(60), <1>1, <1>3 DEF Trace, s

\* What net leaves out of a handler's messages changes nothing.
LEMMA TraceKept ==
    ASSUME NEW c, NEW a, NEW b, NEW S, NEW s \in Seq(S), Trace(c, a, s, b)
    PROVE  Kept(s) \in Seq(S) /\ Trace(c, a, Kept(s), b)
<1>1. CASE s = <<>> \/ Carved(s[Len(s)])
  BY <1>1 DEF Kept
<1>2. CASE s # <<>> /\ ~Carved(s[Len(s)])
  <2> DEFINE n == Len(s)
             t == SubSeq(s, 1, n - 1)
  <2>1. PICK f : /\ f[0] = a /\ f[n] = b
                 /\ \A i \in 1..n : Legal(c, f[i - 1], s[i]) /\ f[i] = Apply(f[i - 1], s[i])
    BY Zenon, ZenonT(60) DEF Trace
  <2>2. /\ n \in Nat /\ n > 0 /\ t \in Seq(S) /\ Len(t) = n - 1
        /\ \A i \in 1..(n - 1) : t[i] = s[i]
    BY <1>2
  <2>3. Kept(s) = t
    BY <1>2 DEF Kept
  <2> HIDE DEF n, t
  <2>4. n \in 1..n /\ \A i \in 1..(n - 1) : i \in 1..n
    BY <2>2
  <2>5. f[n] = Apply(f[n - 1], s[n])
    BY <2>1, <2>4
  <2>6. ~Carved(s[n])
    BY <1>2 DEF n
  <2>7. f[n - 1] = b
    BY <2>1, <2>5, <2>6, ApplyUncarved
  <2>8. \A i \in 1..(n - 1) : Legal(c, f[i - 1], t[i]) /\ f[i] = Apply(f[i - 1], t[i])
    BY <2>1, <2>2, <2>4
  <2>9. Trace(c, a, t, b)
    BY Zenon, ZenonT(60), <2>1, <2>2, <2>7, <2>8 DEF Trace
  <2> QED BY <2>2, <2>3, <2>9
<1> QED BY <1>1, <1>2

\* A trace by the views it goes through.
LEMMA TraceRun ==
    ASSUME NEW c, NEW msgs, NEW run,
           \A i \in 1..Len(msgs) :
              Legal(c, run[i - 1], msgs[i]) /\ run[i] = Apply(run[i - 1], msgs[i])
    PROVE  Trace(c, run[0], msgs, run[Len(msgs)])
BY Zenon, ZenonT(60) DEF Trace

-----------------------------------------------------------------------------
(***************************************************************************)
(* One client.                                                             *)
(***************************************************************************)

ClientState ==
    [is_open : BOOLEAN, id : Id \cup {0}, links : SUBSET Id, room : RoomCode \cup {Empty},
     host : Id \cup {0}, open : BOOLEAN, passworded : BOOLEAN, members : Seq(Id),
     data : Map(Key, Value), member_data : Map(Id, Map(Key, Value))]

\* No member is cached twice, and every link leads to another member.
GoodClient(cl) ==
    /\ cl \in ClientState
    /\ IsInjective(cl.members)
    /\ cl.links \subseteq Range(cl.members) \ {cl.id}

\* The fields of a cache's view.
LEMMA CacheFields ==
    ASSUME NEW cl
    PROVE  /\ Cache(cl).id = cl.id /\ Cache(cl).room = cl.room /\ Cache(cl).host = cl.host
           /\ Cache(cl).open = cl.open /\ Cache(cl).passworded = cl.passworded
           /\ Cache(cl).members = Range(cl.members) /\ Cache(cl).data = cl.data
           /\ Cache(cl).member_data = cl.member_data
BY ViewFields DEF Cache

\* A write into the cache keeps its types.
LEMMA StoreTypes ==
    ASSUME NEW key \in Key, NEW value \in Value
    PROVE  /\ \A data \in Map(Key, Value) : Write(data, key, value) \in Map(Key, Value)
           /\ \A id \in Id, member_data \in Map(Id, Map(Key, Value)) :
                 StoreMemberData(member_data, id, key, value) \in Map(Id, Map(Key, Value))
<1>1. \A data \in Map(Key, Value) : Write(data, key, value) \in Map(Key, Value)
  BY MapOps DEF Write
<1>2. ASSUME NEW id \in Id, NEW member_data \in Map(Id, Map(Key, Value))
      PROVE  StoreMemberData(member_data, id, key, value) \in Map(Id, Map(Key, Value))
  <2> DEFINE old == IF id \in DOMAIN member_data THEN member_data[id] ELSE EmptyMap
             new == Write(old, key, value)
  <2>1. EmptyMap \in Map(Key, Value)
    BY Zenon, ZenonT(60), MapDef DEF EmptyMap
  <2>2. old \in Map(Key, Value)
    BY <2>1, MapDef
  <2> HIDE DEF old
  <2>3. new \in Map(Key, Value)
    BY <1>1, <2>2
  <2> HIDE DEF new
  <2>4. WriteMemberData(member_data, id, new) \in Map(Id, Map(Key, Value))
    BY <2>3, MapOps DEF WriteMemberData
  <2> QED BY <2>4 DEF StoreMemberData, new, old
<1> QED BY <1>1, <1>2

\* ClearRoomState leaves a client outside any room.
LEMMA ClearedFacts ==
    ASSUME NEW cl, GoodClient(cl)
    PROVE  /\ GoodClient(Cleared(cl))
           /\ Cache(Cleared(cl)) = Outside(cl.id)
           /\ Cleared(cl).is_open = cl.is_open
<1> DEFINE new == Cleared(cl)
           none == <<>>
           e == EmptyMap
<1>1. /\ cl \in ClientState
      /\ e \in Map(Key, Value) /\ e \in Map(Id, Map(Key, Value))
      /\ none \in Seq(Id) /\ Range(none) = {} /\ IsInjective(none)
  <2>1. \A S, T : EmptyMap \in Map(S, T)
    BY Zenon, ZenonT(60), MapDef DEF EmptyMap
  <2> QED BY <2>1 DEF GoodClient, Range, IsInjective
<1>2. new = [cl EXCEPT !.links = {}, !.room = Empty, !.host = 0, !.open = TRUE,
                       !.passworded = FALSE, !.members = none, !.data = e, !.member_data = e]
  BY DEF Cleared
<1> HIDE DEF none, e, new
<1>3. /\ new \in ClientState
      /\ new.id = cl.id /\ new.links = {} /\ new.room = Empty /\ new.host = 0
      /\ new.members = none /\ new.data = e /\ new.member_data = e
  BY Zenon, ZenonT(60), <1>1, <1>2 DEF ClientState
<1>4. new.open = TRUE /\ new.passworded = FALSE /\ new.is_open = cl.is_open
  BY <1>1, <1>2 DEF ClientState
<1>5. Cache(new) = Outside(cl.id)
  BY Zenon, ZenonT(60), <1>1, <1>3, <1>4 DEF Cache, Outside, e
<1> QED BY <1>1, <1>3, <1>4, <1>5 DEF GoodClient, new

\* The fields of a message, by its type.
LEMMA MessageFields ==
    ASSUME NEW msg \in ServerMessage
    PROVE  /\ msg.type \in {"AssignClientId", "PeerJoined", "PeerLeft", "HostChanged", "RoomChat",
                            "P2PSignal", "MemberDataChanged"} => msg.id \in Id
           /\ msg.type = "AssignRoomId" => msg.room \in RoomCode
           /\ msg.type \in {"RoomDataChanged", "MemberDataChanged"} =>
                 msg.key \in Key /\ msg.value \in Value
           /\ msg.type = "RoomAccessChanged" => msg.open \in BOOLEAN /\ msg.passworded \in BOOLEAN
BY DEF ServerMessage

\* A new member is cached, by a client in that room.
LEMMA CarveJoin ==
    ASSUME NEW cl, GoodClient(cl), NEW id \in Id, id \notin Range(cl.members)
    PROVE  LET new == [cl EXCEPT !.members = Append(@, id)]
           IN  /\ GoodClient(new)
               /\ Cache(new) = ViewOf(cl.id, cl.room, cl.host, cl.open, cl.passworded,
                                      Range(cl.members) \cup {id}, cl.data, cl.member_data)
               /\ new.is_open = cl.is_open
<1> DEFINE more == Append(cl.members, id)
           new == [cl EXCEPT !.members = more]
<1>1. cl \in ClientState /\ cl.members \in Seq(Id) /\ cl.links \subseteq Range(cl.members) \ {cl.id}
  BY DEF GoodClient, ClientState
<1>2. more \in Seq(Id) /\ Range(more) = Range(cl.members) \cup {id} /\ IsInjective(more)
  BY <1>1, AppendFacts DEF GoodClient
<1> HIDE DEF more
<1>3. /\ new \in ClientState /\ new.members = more
      /\ new.id = cl.id /\ new.links = cl.links /\ new.room = cl.room /\ new.host = cl.host
      /\ new.data = cl.data /\ new.member_data = cl.member_data
  BY <1>1, <1>2 DEF ClientState
<1>4. new.open = cl.open /\ new.passworded = cl.passworded /\ new.is_open = cl.is_open
  BY <1>1 DEF ClientState
<1> HIDE DEF new
<1>5. GoodClient(new)
  BY <1>1, <1>2, <1>3 DEF GoodClient
<1>6. Cache(new) = ViewOf(cl.id, cl.room, cl.host, cl.open, cl.passworded,
                          Range(cl.members) \cup {id}, cl.data, cl.member_data)
  BY Zenon, ZenonT(60), <1>2, <1>3, <1>4 DEF Cache
<1> QED BY <1>4, <1>5, <1>6 DEF new, more

\* A member that left is forgotten, with its data and its link.
LEMMA CarveGone ==
    ASSUME NEW cl, GoodClient(cl), NEW id \in Id, id # cl.id
    PROVE  LET new == PeerGone(cl, id)
           IN  /\ GoodClient(new)
               /\ Cache(new) = ViewOf(cl.id, cl.room, cl.host, cl.open, cl.passworded,
                                      Range(cl.members) \ {id}, cl.data,
                                      Drop(cl.member_data, id))
               /\ new.is_open = cl.is_open
<1> DEFINE left == Erase(cl.members, id)
           kept == Drop(cl.member_data, id)
           linked == cl.links \ {id}
           new == [cl EXCEPT !.members = left, !.member_data = kept, !.links = linked]
<1>1. /\ cl \in ClientState /\ cl.members \in Seq(Id) /\ cl.links \in SUBSET Id
      /\ cl.member_data \in Map(Id, Map(Key, Value))
      /\ cl.links \subseteq Range(cl.members) \ {cl.id}
  BY DEF GoodClient, ClientState
<1>2. left \in Seq(Id) /\ Range(left) = Range(cl.members) \ {id} /\ IsInjective(left)
  BY <1>1, EraseFacts DEF GoodClient
<1>3. kept \in Map(Id, Map(Key, Value))
  BY <1>1, MapOps
<1>4. linked \in SUBSET Id /\ linked \subseteq (Range(cl.members) \ {id}) \ {cl.id}
  BY <1>1
<1>7. PeerGone(cl, id) = new
  BY DEF PeerGone
<1> HIDE DEF left, kept, linked
<1>5. /\ new \in ClientState /\ new.members = left /\ new.links = linked /\ new.member_data = kept
      /\ new.id = cl.id /\ new.room = cl.room /\ new.host = cl.host /\ new.data = cl.data
  BY Zenon, ZenonT(60), <1>1, <1>2, <1>3, <1>4 DEF ClientState
<1>6. new.open = cl.open /\ new.passworded = cl.passworded /\ new.is_open = cl.is_open
  BY <1>1 DEF ClientState
<1> HIDE DEF new
<1>8. GoodClient(new)
  BY <1>2, <1>4, <1>5 DEF GoodClient
<1>9. Cache(new) = ViewOf(cl.id, cl.room, cl.host, cl.open, cl.passworded,
                          Range(cl.members) \ {id}, cl.data, Drop(cl.member_data, id))
  BY Zenon, ZenonT(60), <1>2, <1>5, <1>6 DEF Cache, kept
<1> QED BY <1>6, <1>7, <1>8, <1>9

\* The room that a client outside any room enters.
LEMMA CarveRoom ==
    ASSUME NEW cl, GoodClient(cl), cl.id \in Id, cl.links = {}, NEW code \in RoomCode
    PROVE  LET new == AssignRoom(cl, code)
           IN  /\ GoodClient(new)
               /\ Cache(new) = ViewOf(cl.id, code, 0, TRUE, FALSE, {cl.id}, EmptyMap, EmptyMap)
               /\ new.is_open = cl.is_open
<1> DEFINE self == <<cl.id>>
           e == EmptyMap
           new == [cl EXCEPT !.room = code, !.host = 0, !.open = TRUE, !.passworded = FALSE,
                             !.members = self, !.data = e, !.member_data = e]
<1>1. /\ cl \in ClientState
      /\ e \in Map(Key, Value) /\ e \in Map(Id, Map(Key, Value))
      /\ self \in Seq(Id) /\ Range(self) = {cl.id} /\ IsInjective(self)
  <2>1. \A S, T : EmptyMap \in Map(S, T)
    BY Zenon, ZenonT(60), MapDef DEF EmptyMap
  <2> QED BY <2>1 DEF GoodClient, Range, IsInjective
<1>2. AssignRoom(cl, code) = new
  BY DEF AssignRoom
<1> HIDE DEF self, e
<1>3. /\ new \in ClientState
      /\ new.id = cl.id /\ new.links = {} /\ new.room = code /\ new.host = 0
      /\ new.members = self /\ new.data = e /\ new.member_data = e
  BY Zenon, ZenonT(60), <1>1 DEF ClientState
<1>4. new.open = TRUE /\ new.passworded = FALSE /\ new.is_open = cl.is_open
  BY <1>1 DEF ClientState
<1> HIDE DEF new
<1>5. GoodClient(new)
  BY <1>1, <1>3 DEF GoodClient
<1>6. Cache(new) = ViewOf(cl.id, code, 0, TRUE, FALSE, {cl.id}, EmptyMap, EmptyMap)
  BY Zenon, ZenonT(60), <1>1, <1>3, <1>4 DEF Cache, e
<1> QED BY <1>2, <1>4, <1>5, <1>6

\* The messages that set one field of the cache.
LEMMA CarveField ==
    ASSUME NEW cl, GoodClient(cl)
    PROVE  /\ \A id \in Id :
                 LET new == [cl EXCEPT !.host = id]
                 IN  /\ GoodClient(new) /\ new.is_open = cl.is_open
                     /\ Cache(new) = ViewOf(cl.id, cl.room, id, cl.open, cl.passworded,
                                            Range(cl.members), cl.data, cl.member_data)
           /\ \A data \in Map(Key, Value) :
                 LET new == [cl EXCEPT !.data = data]
                 IN  /\ GoodClient(new) /\ new.is_open = cl.is_open
                     /\ Cache(new) = ViewOf(cl.id, cl.room, cl.host, cl.open, cl.passworded,
                                            Range(cl.members), data, cl.member_data)
           /\ \A member_data \in Map(Id, Map(Key, Value)) :
                 LET new == [cl EXCEPT !.member_data = member_data]
                 IN  /\ GoodClient(new) /\ new.is_open = cl.is_open
                     /\ Cache(new) = ViewOf(cl.id, cl.room, cl.host, cl.open, cl.passworded,
                                            Range(cl.members), cl.data, member_data)
           /\ \A links \in SUBSET (Range(cl.members) \ {cl.id}) :
                 LET new == [cl EXCEPT !.links = links]
                 IN  /\ GoodClient(new) /\ new.is_open = cl.is_open
                     /\ Cache(new) = Cache(cl)
<1>1. cl \in ClientState
  BY DEF GoodClient
<1>2. ASSUME NEW id \in Id
      PROVE  LET new == [cl EXCEPT !.host = id]
             IN  /\ GoodClient(new) /\ new.is_open = cl.is_open
                 /\ Cache(new) = ViewOf(cl.id, cl.room, id, cl.open, cl.passworded,
                                        Range(cl.members), cl.data, cl.member_data)
  BY <1>1 DEF GoodClient, ClientState, Cache
<1>3. ASSUME NEW data \in Map(Key, Value)
      PROVE  LET new == [cl EXCEPT !.data = data]
             IN  /\ GoodClient(new) /\ new.is_open = cl.is_open
                 /\ Cache(new) = ViewOf(cl.id, cl.room, cl.host, cl.open, cl.passworded,
                                        Range(cl.members), data, cl.member_data)
  BY <1>1 DEF GoodClient, ClientState, Cache
<1>4. ASSUME NEW member_data \in Map(Id, Map(Key, Value))
      PROVE  LET new == [cl EXCEPT !.member_data = member_data]
             IN  /\ GoodClient(new) /\ new.is_open = cl.is_open
                 /\ Cache(new) = ViewOf(cl.id, cl.room, cl.host, cl.open, cl.passworded,
                                        Range(cl.members), cl.data, member_data)
  BY <1>1 DEF GoodClient, ClientState, Cache
<1>5. ASSUME NEW links \in SUBSET (Range(cl.members) \ {cl.id})
      PROVE  LET new == [cl EXCEPT !.links = links]
             IN  /\ GoodClient(new) /\ new.is_open = cl.is_open
                 /\ Cache(new) = Cache(cl)
  <2>1. cl.members \in Seq(Id)
    BY <1>1 DEF ClientState
  <2>2. links \in SUBSET Id
    BY <2>1 DEF Range
  <2> QED BY <1>1, <2>2 DEF GoodClient, ClientState, Cache
<1> QED BY <1>2, <1>3, <1>4, <1>5

\* The id a client is assigned, and the access of its room.
LEMMA CarveIdAccess ==
    ASSUME NEW cl, GoodClient(cl)
    PROVE  /\ \A id \in Id : cl.links = {} =>
                 LET new == [cl EXCEPT !.id = id]
                 IN  /\ GoodClient(new) /\ new.is_open = cl.is_open
                     /\ Cache(new) = ViewOf(id, cl.room, cl.host, cl.open, cl.passworded,
                                            Range(cl.members), cl.data, cl.member_data)
           /\ \A open, passworded \in BOOLEAN :
                 LET new == [cl EXCEPT !.open = open, !.passworded = passworded]
                 IN  /\ GoodClient(new) /\ new.is_open = cl.is_open
                     /\ Cache(new) = ViewOf(cl.id, cl.room, cl.host, open, passworded,
                                            Range(cl.members), cl.data, cl.member_data)
<1>1. cl \in ClientState
  BY DEF GoodClient
<1>2. ASSUME NEW id \in Id, cl.links = {}
      PROVE  LET new == [cl EXCEPT !.id = id]
             IN  /\ GoodClient(new) /\ new.is_open = cl.is_open
                 /\ Cache(new) = ViewOf(id, cl.room, cl.host, cl.open, cl.passworded,
                                        Range(cl.members), cl.data, cl.member_data)
  BY <1>1, <1>2 DEF GoodClient, ClientState, Cache
<1>3. ASSUME NEW open \in BOOLEAN, NEW passworded \in BOOLEAN
      PROVE  LET new == [cl EXCEPT !.open = open, !.passworded = passworded]
             IN  /\ GoodClient(new) /\ new.is_open = cl.is_open
                 /\ Cache(new) = ViewOf(cl.id, cl.room, cl.host, open, passworded,
                                        Range(cl.members), cl.data, cl.member_data)
  BY Zenon, ZenonT(60), <1>1 DEF GoodClient, ClientState, Cache
<1> QED BY Zenon, ZenonT(60), <1>2, <1>3

\* CarveServer makes of a legal message what Apply makes of the view.
LEMMA CarveFacts ==
    ASSUME NEW c \in Id, NEW cl, GoodClient(cl), NEW msg \in ServerMessage,
           Legal(c, Cache(cl), msg), NEW new \in CarveServer(cl, msg)
    PROVE  GoodClient(new) /\ Cache(new) = Apply(Cache(cl), msg) /\ new.is_open = cl.is_open
<1> DEFINE v == Cache(cl)
           Goal == GoodClient(new) /\ Cache(new) = Apply(v, msg) /\ new.is_open = cl.is_open
<1>1. /\ v.id = cl.id /\ v.room = cl.room /\ v.host = cl.host
      /\ v.open = cl.open /\ v.passworded = cl.passworded
      /\ v.members = Range(cl.members) /\ v.data = cl.data /\ v.member_data = cl.member_data
  BY CacheFields
<1>2. /\ cl \in ClientState /\ cl.members \in Seq(Id) /\ cl.data \in Map(Key, Value)
      /\ cl.member_data \in Map(Id, Map(Key, Value))
      /\ cl.links \subseteq Range(cl.members) \ {cl.id}
  BY DEF GoodClient, ClientState
<1> HIDE DEF v
<1>3. Legal(c, v, msg)
  BY DEF v
<1>4. CASE msg.type = "AssignClientId"
  <2>1. v.members = {} /\ msg.id \in Id
    BY <1>3, <1>4, MessageFields DEF Legal
  <2>2. cl.links = {}
    BY <1>1, <1>2, <2>1
  <2>3. new = [cl EXCEPT !.id = msg.id]
    BY <1>4 DEF CarveServer
  <2>4. Apply(v, msg) = ViewOf(msg.id, cl.room, cl.host, cl.open, cl.passworded,
                               Range(cl.members), cl.data, cl.member_data)
    BY <1>1, <1>4 DEF Apply
  <2> QED BY Zenon, ZenonT(60), <2>1, <2>2, <2>3, <2>4, CarveIdAccess DEF v
<1>5. CASE msg.type = "P2PSignal"
  <2>1. msg.id \in v.members /\ msg.id # v.id
    BY <1>3, <1>5 DEF Legal
  <2>2. new = cl \/ new = [cl EXCEPT !.links = cl.links \cup {msg.id}]
    BY <1>5 DEF CarveServer
  <2>3. cl.links \cup {msg.id} \in SUBSET (Range(cl.members) \ {cl.id})
    BY <1>1, <1>2, <2>1
  <2>4. Apply(v, msg) = v
    BY <1>5 DEF Apply
  <2>5. CASE new = cl
    BY <2>4, <2>5 DEF v
  <2>6. CASE new = [cl EXCEPT !.links = cl.links \cup {msg.id}]
    <3> DEFINE links == cl.links \cup {msg.id}
    <3>1. links \in SUBSET (Range(cl.members) \ {cl.id}) /\ new = [cl EXCEPT !.links = links]
      BY <2>3, <2>6
    <3> HIDE DEF links
    <3>2. GoodClient(new) /\ new.is_open = cl.is_open /\ Cache(new) = Cache(cl)
      BY Zenon, ZenonT(60), <3>1, CarveField
    <3> QED BY <2>4, <3>2 DEF v
  <2> QED BY <2>2, <2>5, <2>6
<1>6. CASE msg.type \notin {"AssignClientId", "P2PSignal"}
  <2>0. new = CacheRoomState(cl, msg)
    BY <1>6 DEF CarveServer
  <2>1. CASE msg.type = "AssignRoomId"
    <3>1. v.members = {} /\ v.id = c /\ msg.room \in RoomCode
      BY <1>3, <2>1, MessageFields DEF Legal
    <3>2. new = AssignRoom(cl, msg.room)
      BY <2>0, <2>1 DEF CacheRoomState
    <3>3. cl.links = {} /\ cl.id \in Id
      BY <1>1, <1>2, <3>1
    <3>4. Apply(v, msg) = ViewOf(cl.id, msg.room, 0, TRUE, FALSE, {cl.id}, EmptyMap, EmptyMap)
      BY <1>1, <2>1 DEF Apply
    <3> QED BY Zenon, ZenonT(60), <3>1, <3>2, <3>3, <3>4, CarveRoom DEF v
  <2>2. CASE msg.type = "PeerJoined"
    <3>1. msg.id \in Id /\ msg.id \notin v.members
      BY <1>3, <2>2, MessageFields DEF Legal
    <3>2. new = [cl EXCEPT !.members = Append(@, msg.id)]
      BY <2>0, <2>2 DEF CacheRoomState
    <3>3. Apply(v, msg) = ViewOf(cl.id, cl.room, cl.host, cl.open, cl.passworded,
                                 Range(cl.members) \cup {msg.id}, cl.data, cl.member_data)
      BY <1>1, <2>2 DEF Apply
    <3> QED BY Zenon, ZenonT(60), <1>1, <3>1, <3>2, <3>3, CarveJoin DEF v
  <2>3. CASE msg.type = "PeerLeft"
    <3>1. msg.id \in Id
      BY <2>3, MessageFields
    <3>2. new = IF msg.id = cl.id THEN Cleared(cl) ELSE PeerGone(cl, msg.id)
      BY <2>0, <2>3 DEF CacheRoomState
    <3>3. msg.id = cl.id => Apply(v, msg) = Outside(cl.id)
      BY <1>1, <2>3 DEF Apply
    <3>4. msg.id # cl.id =>
             Apply(v, msg) = ViewOf(cl.id, cl.room, cl.host, cl.open, cl.passworded,
                                    Range(cl.members) \ {msg.id}, cl.data,
                                    Drop(cl.member_data, msg.id))
      BY <1>1, <2>3 DEF Apply
    <3> QED BY Zenon, ZenonT(60), <3>1, <3>2, <3>3, <3>4, ClearedFacts, CarveGone DEF v
  <2>4. CASE msg.type = "HostChanged"
    <3>1. msg.id \in Id
      BY <2>4, MessageFields
    <3>2. new = [cl EXCEPT !.host = msg.id]
      BY <2>0, <2>4 DEF CacheRoomState
    <3>3. Apply(v, msg) = ViewOf(cl.id, cl.room, msg.id, cl.open, cl.passworded,
                                 Range(cl.members), cl.data, cl.member_data)
      BY <1>1, <2>4 DEF Apply
    <3> QED BY Zenon, ZenonT(60), <3>1, <3>2, <3>3, CarveField DEF v
  <2>5. CASE msg.type = "RoomDataChanged"
    <3>1. Write(cl.data, msg.key, msg.value) \in Map(Key, Value)
      BY <1>2, <2>5, MessageFields, StoreTypes
    <3>2. new = [cl EXCEPT !.data = Write(cl.data, msg.key, msg.value)]
      BY <2>0, <2>5 DEF CacheRoomState
    <3>3. Apply(v, msg) = ViewOf(cl.id, cl.room, cl.host, cl.open, cl.passworded,
                                 Range(cl.members), Write(cl.data, msg.key, msg.value),
                                 cl.member_data)
      BY <1>1, <2>5 DEF Apply
    <3> QED BY Zenon, ZenonT(60), <3>1, <3>2, <3>3, CarveField DEF v
  <2>6. CASE msg.type = "MemberDataChanged"
    <3>1. StoreMemberData(cl.member_data, msg.id, msg.key, msg.value) \in Map(Id, Map(Key, Value))
      BY <1>2, <2>6, MessageFields, StoreTypes
    <3>2. new = [cl EXCEPT !.member_data =
                               StoreMemberData(cl.member_data, msg.id, msg.key, msg.value)]
      BY <2>0, <2>6 DEF CacheRoomState
    <3>3. Apply(v, msg) =
             ViewOf(cl.id, cl.room, cl.host, cl.open, cl.passworded, Range(cl.members), cl.data,
                    StoreMemberData(cl.member_data, msg.id, msg.key, msg.value))
      BY <1>1, <2>6 DEF Apply
    <3> QED BY Zenon, ZenonT(60), <3>1, <3>2, <3>3, CarveField DEF v
  <2>7. CASE msg.type \in {"KickedByHost", "BannedByHost"}
    <3>1. new = Cleared(cl)
      BY <2>0, <2>7 DEF CacheRoomState
    <3>2. Apply(v, msg) = Outside(v.id)
      BY <2>7 DEF Apply
    <3> QED BY <1>1, <3>1, <3>2, ClearedFacts DEF v
  <2>8. CASE msg.type = "RoomAccessChanged"
    <3>1. msg.open \in BOOLEAN /\ msg.passworded \in BOOLEAN
      BY <2>8, MessageFields
    <3>2. new = [cl EXCEPT !.open = msg.open, !.passworded = msg.passworded]
      BY <2>0, <2>8 DEF CacheRoomState
    <3>3. Apply(v, msg) = ViewOf(cl.id, cl.room, cl.host, msg.open, msg.passworded,
                                 Range(cl.members), cl.data, cl.member_data)
      BY <1>1, <2>8 DEF Apply
    <3> QED BY Zenon, ZenonT(60), <3>1, <3>2, <3>3, CarveIdAccess DEF v
  <2>9. CASE msg.type \notin {"AssignRoomId", "PeerJoined", "PeerLeft", "HostChanged",
                              "RoomDataChanged", "MemberDataChanged", "KickedByHost",
                              "BannedByHost", "RoomAccessChanged"}
    <3>1. new = cl /\ Apply(v, msg) = v
      BY Zenon, ZenonT(60), <1>6, <2>0, <2>9 DEF CacheRoomState, Apply
    <3> QED BY <3>1 DEF v
  <2> QED BY <2>1, <2>2, <2>3, <2>4, <2>5, <2>6, <2>7, <2>8, <2>9
<1> QED BY <1>4, <1>5, <1>6 DEF v

\* A Client that has not called Connect.
LEMMA NewClientGood == GoodClient(NewClient) /\ Cache(NewClient) = Outside(0)
<1> DEFINE none == <<>>
           e == EmptyMap
<1>1. /\ e \in Map(Key, Value) /\ e \in Map(Id, Map(Key, Value))
      /\ none \in Seq(Id) /\ Range(none) = {} /\ IsInjective(none)
  <2>1. \A S, T : EmptyMap \in Map(S, T)
    BY Zenon, ZenonT(60), MapDef DEF EmptyMap
  <2> QED BY <2>1 DEF Range, IsInjective
<1>2. NewClient = [is_open |-> FALSE, id |-> 0, links |-> {}, room |-> Empty, host |-> 0,
                   open |-> TRUE, passworded |-> FALSE, members |-> none, data |-> e,
                   member_data |-> e]
  BY DEF NewClient
<1> HIDE DEF none, e
<1>3. NewClient \in ClientState
  BY <1>1, <1>2 DEF ClientState
<1>4. /\ NewClient.members = none /\ NewClient.links = {} /\ NewClient.id = 0
      /\ NewClient.room = Empty /\ NewClient.host = 0 /\ NewClient.data = e
      /\ NewClient.member_data = e /\ NewClient.open = TRUE /\ NewClient.passworded = FALSE
  BY <1>2
<1>5. Cache(NewClient) = Outside(0)
  BY Zenon, ZenonT(60), <1>1, <1>4 DEF Cache, Outside, e
<1> QED BY <1>1, <1>3, <1>4, <1>5 DEF GoodClient

\* Connecting and disconnecting, and the links, change nothing else.
LEMMA OpenLinks ==
    ASSUME NEW cl, GoodClient(cl)
    PROVE  /\ \A b \in BOOLEAN : LET new == [cl EXCEPT !.is_open = b]
                                 IN  /\ GoodClient(new) /\ Cache(new) = Cache(cl)
                                     /\ new.is_open = b
           /\ \A ids \in SUBSET (Range(cl.members) \ {cl.id}) :
                 LET new == [cl EXCEPT !.links = ids]
                 IN  /\ GoodClient(new) /\ Cache(new) = Cache(cl)
                     /\ new.is_open = cl.is_open
<1>1. cl \in ClientState /\ cl.members \in Seq(Id)
  BY DEF GoodClient, ClientState
<1>2. ASSUME NEW b \in BOOLEAN
      PROVE  LET new == [cl EXCEPT !.is_open = b]
             IN  GoodClient(new) /\ Cache(new) = Cache(cl) /\ new.is_open = b
  <2> DEFINE new == [cl EXCEPT !.is_open = b]
  <2>1. /\ new \in ClientState /\ new.id = cl.id /\ new.links = cl.links /\ new.room = cl.room
        /\ new.host = cl.host /\ new.members = cl.members /\ new.data = cl.data
        /\ new.member_data = cl.member_data
    BY <1>1 DEF ClientState
  <2>2. new.open = cl.open /\ new.passworded = cl.passworded /\ new.is_open = b
    BY <1>1 DEF ClientState
  <2> HIDE DEF new
  <2>3. GoodClient(new) /\ Cache(new) = Cache(cl)
    BY <2>1, <2>2 DEF GoodClient, Cache
  <2> QED BY <2>2, <2>3 DEF new
<1>3. ASSUME NEW ids \in SUBSET (Range(cl.members) \ {cl.id})
      PROVE  LET new == [cl EXCEPT !.links = ids]
             IN  GoodClient(new) /\ Cache(new) = Cache(cl) /\ new.is_open = cl.is_open
  <2> DEFINE new == [cl EXCEPT !.links = ids]
  <2>1. ids \in SUBSET Id
    BY <1>1 DEF Range
  <2>2. /\ new \in ClientState /\ new.id = cl.id /\ new.links = ids /\ new.room = cl.room
        /\ new.host = cl.host /\ new.members = cl.members /\ new.data = cl.data
        /\ new.member_data = cl.member_data
    BY <1>1, <2>1 DEF ClientState
  <2>3. new.open = cl.open /\ new.passworded = cl.passworded /\ new.is_open = cl.is_open
    BY <1>1 DEF ClientState
  <2> HIDE DEF new
  <2>4. GoodClient(new) /\ Cache(new) = Cache(cl)
    BY <2>2, <2>3 DEF GoodClient, Cache
  <2> QED BY <2>3, <2>4 DEF new
<1> QED BY <1>2, <1>3

-----------------------------------------------------------------------------
(***************************************************************************)
(* Replay, and what is left when everything in flight has been carved.     *)
(***************************************************************************)

\* One of the results of CarveServer, as Replay takes it.
Chosen(cl, msg) == CHOOSE new \in CarveServer(cl, msg) : TRUE

\* f is Replay's recursion for the messages msgs, up to n.
Replays(f, cl, msgs, n) ==
    f = [i \in 0..n |-> IF i = 0 THEN cl ELSE Chosen(f[i - 1], msgs[i])]

\* The recursion defines a function.
LEMMA ReplayExists ==
    ASSUME NEW cl, NEW msgs, NEW n \in Nat
    PROVE  \E f : Replays(f, cl, msgs, n)
<1> DEFINE T == {k \in Nat : \E f : Replays(f, cl, msgs, k)}
<1>1. 0 \in T
  <2> DEFINE f == [i \in 0..0 |-> cl]
  <2>1. f = [i \in 0..0 |-> IF i = 0 THEN cl ELSE Chosen(f[i - 1], msgs[i])]
    OBVIOUS
  <2> HIDE DEF f
  <2> QED BY Zenon, ZenonT(60), <2>1 DEF Replays
<1>2. ASSUME NEW k \in 1..n, k - 1 \in T PROVE k \in T
  <2>1. PICK f : f = [i \in 0..(k - 1) |-> IF i = 0 THEN cl ELSE Chosen(f[i - 1], msgs[i])]
    BY <1>2 DEF Replays
  <2> DEFINE last == Chosen(f[k - 1], msgs[k])
             g == [i \in 0..k |-> IF i = k THEN last ELSE f[i]]
  <2>2. /\ \A i \in 0..(k - 1) : f[i] = IF i = 0 THEN cl ELSE Chosen(f[i - 1], msgs[i])
    BY Zenon, ZenonT(60), <2>1
  <2>3. ASSUME NEW i \in 0..k PROVE g[i] = IF i = 0 THEN cl ELSE Chosen(g[i - 1], msgs[i])
    <3>1. CASE i = 0
      BY <2>2, <3>1
    <3>2. CASE i \in 1..(k - 1)
      <4>1. i \in 0..(k - 1) /\ i # 0 /\ g[i] = f[i] /\ g[i - 1] = f[i - 1]
        BY <3>2
      <4> QED BY <2>2, <4>1
    <3>3. CASE i = k
      <4>1. i # 0 /\ g[i] = last /\ g[i - 1] = f[k - 1]
        BY <3>3
      <4> QED BY <3>3, <4>1
    <3> QED BY <3>1, <3>2, <3>3
  <2>4. g = [i \in 0..k |-> g[i]]
    OBVIOUS
  <2> HIDE DEF g
  <2>5. g = [i \in 0..k |-> IF i = 0 THEN cl ELSE Chosen(g[i - 1], msgs[i])]
    BY <2>3, <2>4
  <2>6. \E h : Replays(h, cl, msgs, k)
    BY Zenon, ZenonT(60), <2>5 DEF Replays
  <2> QED BY <2>6
<1> HIDE DEF T
<1>3. 0..n \subseteq T
  BY <1>1, <1>2, UpTo
<1> QED BY <1>3 DEF T

\* What Replay is the last value of.
LEMMA ReplayFacts ==
    ASSUME NEW c, Len(net[c]) \in Nat
    PROVE  \E f : /\ Replay(c) = f[Len(net[c])]
                  /\ f[0] = client[c]
                  /\ \A i \in 1..Len(net[c]) : f[i] = Chosen(f[i - 1], net[c][i])
<1> DEFINE n == Len(net[c])
           f == CHOOSE g : Replays(g, client[c], net[c], n)
<1>1. Replay(c) = f[n]
  BY DEF Replay, Replays, Chosen
<1>2. Replays(f, client[c], net[c], n)
  BY Zenon, ZenonT(60), ReplayExists
<1> HIDE DEF f
<1>3. \A i \in 0..n : f[i] = IF i = 0 THEN client[c] ELSE Chosen(f[i - 1], net[c][i])
  BY Zenon, ZenonT(60), <1>2 DEF Replays
<1>4. f[0] = client[c] /\ \A i \in 1..n : f[i] = Chosen(f[i - 1], net[c][i])
  BY <1>3
<1> QED BY <1>1, <1>4

\* CarveServer makes something of every message.
LEMMA ChosenCarved == ASSUME NEW cl, NEW msg PROVE Chosen(cl, msg) \in CarveServer(cl, msg)
<1>1. CarveServer(cl, msg) # {}
  BY Zenon, ZenonT(60) DEF CarveServer
<1> QED BY <1>1 DEF Chosen

\* Replay follows the trace of what is in flight.
LEMMA ReplayTrace ==
    ASSUME NEW c \in Id, GoodClient(client[c]), net[c] \in Seq(ServerMessage), NEW w,
           Trace(c, Cache(client[c]), net[c], w)
    PROVE  GoodClient(Replay(c)) /\ Cache(Replay(c)) = w
<1> DEFINE n == Len(net[c])
<1>1. n \in Nat /\ \A i \in 1..n : net[c][i] \in ServerMessage
  OBVIOUS
<1>2. PICK f : /\ Replay(c) = f[n] /\ f[0] = client[c]
               /\ \A i \in 1..n : f[i] = Chosen(f[i - 1], net[c][i])
  BY <1>1, ReplayFacts
<1>3. PICK run : /\ run[0] = Cache(client[c]) /\ run[n] = w
                 /\ \A i \in 1..n : /\ Legal(c, run[i - 1], net[c][i])
                                    /\ run[i] = Apply(run[i - 1], net[c][i])
  BY Zenon, ZenonT(60) DEF Trace
<1> DEFINE T == {i \in Nat : GoodClient(f[i]) /\ Cache(f[i]) = run[i]}
<1>4. 0 \in T
  BY <1>2, <1>3
<1>5. ASSUME NEW i \in 1..n, i - 1 \in T PROVE i \in T
  <2>1. /\ GoodClient(f[i - 1]) /\ Cache(f[i - 1]) = run[i - 1] /\ net[c][i] \in ServerMessage
        /\ Legal(c, Cache(f[i - 1]), net[c][i]) /\ i \in Nat
    BY <1>1, <1>3, <1>5
  <2>2. f[i] \in CarveServer(f[i - 1], net[c][i])
    BY <1>2, ChosenCarved
  <2>3. GoodClient(f[i]) /\ Cache(f[i]) = Apply(Cache(f[i - 1]), net[c][i])
    BY <2>1, <2>2, CarveFacts
  <2> QED BY <1>3, <2>1, <2>3
<1> HIDE DEF T, n
<1>6. n \in T
  <2>1. n \in Nat /\ n \in 0..n
    BY <1>1
  <2>2. 0..n \subseteq T
    BY Zenon, ZenonT(60), <1>4, <1>5, <2>1, UpTo
  <2> QED BY <2>1, <2>2
<1> QED BY <1>2, <1>3, <1>6 DEF T

\* The cache of a client in no room.
LEMMA OutsideNoRoom ==
    ASSUME NEW cl, GoodClient(cl), NEW id, Cache(cl) = Outside(id)
    PROVE  NoRoom(cl)
<1>1. cl.members \in Seq(Id) /\ cl.open \in BOOLEAN /\ cl.passworded \in BOOLEAN
  BY DEF GoodClient, ClientState
<1> DEFINE v == Outside(id)
<1>2. /\ cl.room = v.room /\ cl.host = v.host /\ Range(cl.members) = v.members
      /\ cl.data = v.data /\ cl.member_data = v.member_data
      /\ cl.open = v.open /\ cl.passworded = v.passworded
  BY CacheFields
<1>3. /\ v.room = Empty /\ v.host = 0 /\ v.members = {} /\ v.data = EmptyMap
      /\ v.member_data = EmptyMap /\ v.open = TRUE /\ v.passworded = FALSE
  BY DEF Outside, ViewOf
<1> HIDE DEF v
<1>4. cl.members = <<>>
  <2> DEFINE s == cl.members
  <2>1. s \in Seq(Id) /\ Range(s) = {}
    BY <1>1, <1>2, <1>3
  <2> HIDE DEF s
  <2>2. 1 \notin DOMAIN s
    BY <2>1 DEF Range
  <2>3. Len(s) = 0
    BY <2>1, <2>2
  <2>4. s = <<>>
    BY <2>1, <2>3
  <2> QED BY <2>4 DEF s
<1>5. cl.open /\ ~cl.passworded
  BY Zenon, ZenonT(60), <1>2, <1>3
<1> QED BY <1>2, <1>3, <1>4, <1>5 DEF NoRoom

-----------------------------------------------------------------------------
(***************************************************************************)
(* Leaving a room takes an event that says so.                             *)
(***************************************************************************)

\* A client in a room has its id, and is a member.
Own(c, v) == v.room # Empty => v.id = c /\ c \in v.members

\* Events keep that, and only some of them take a client out.
LEMMA ApplyOwn ==
    ASSUME NEW c, NEW v, Own(c, v), NEW msg \in ServerMessage, Legal(c, v, msg)
    PROVE  /\ Own(c, Apply(v, msg))
           /\ v.room # Empty /\ ~TakesOut(c, msg) => Apply(v, msg).room = v.room
<1>1. msg.type \in {"AssignClientId", "PeerJoined", "PeerLeft", "HostChanged", "RoomChat",
                    "P2PSignal", "IceServers", "Heartbeat", "KickedByHost", "BannedByHost",
                    "AssignRoomId", "RoomError", "RoomAccessChanged", "RoomDataChanged",
                    "MemberDataChanged"}
  BY DEF ServerMessage
<1>2. CASE msg.type \in {"AssignClientId", "AssignRoomId", "PeerJoined", "PeerLeft"}
  BY <1>2 DEF Legal, Apply, ViewOf, Outside, Own, TakesOut
<1>3. CASE msg.type \in {"KickedByHost", "BannedByHost", "HostChanged", "RoomAccessChanged",
                         "RoomDataChanged", "MemberDataChanged"}
  BY <1>3 DEF Apply, ViewOf, Outside, Own, TakesOut
<1>4. CASE msg.type \in {"RoomChat", "P2PSignal", "IceServers", "Heartbeat", "RoomError"}
  BY Zenon, ZenonT(60), <1>4 DEF Apply, Own
<1> QED BY <1>1, <1>2, <1>3, <1>4

\* Without such an event, the client stays where it is.
LEMMA TraceStays ==
    ASSUME NEW c, NEW a, Own(c, a), a.room # Empty, NEW b,
           NEW msgs \in Seq(ServerMessage), Trace(c, a, msgs, b),
           \A i \in 1..Len(msgs) : ~TakesOut(c, msgs[i])
    PROVE  b.room = a.room
<1> DEFINE n == Len(msgs)
<1>1. n \in Nat /\ \A i \in 1..n : msgs[i] \in ServerMessage
  OBVIOUS
<1>2. PICK run : /\ run[0] = a /\ run[n] = b
                 /\ \A i \in 1..n : /\ Legal(c, run[i - 1], msgs[i])
                                    /\ run[i] = Apply(run[i - 1], msgs[i])
  BY Zenon, ZenonT(60) DEF Trace
<1> DEFINE T == {i \in Nat : Own(c, run[i]) /\ run[i].room = a.room}
<1>3. 0 \in T
  BY <1>2
<1>4. ASSUME NEW i \in 1..n, i - 1 \in T PROVE i \in T
  <2>1. /\ Own(c, run[i - 1]) /\ run[i - 1].room = a.room /\ i \in Nat
        /\ msgs[i] \in ServerMessage /\ Legal(c, run[i - 1], msgs[i]) /\ ~TakesOut(c, msgs[i])
    BY <1>1, <1>2, <1>4
  <2>2. Own(c, Apply(run[i - 1], msgs[i])) /\ Apply(run[i - 1], msgs[i]).room = a.room
    BY <2>1, ApplyOwn
  <2> QED BY <1>2, <2>1, <2>2
<1> HIDE DEF T, n
<1>5. n \in T
  <2>1. n \in 0..n
    BY <1>1
  <2>2. 0..n \subseteq T
    BY Zenon, ZenonT(60), <1>1, <1>3, <1>4, UpTo
  <2> QED BY <2>1, <2>2
<1> QED BY <1>2, <1>5 DEF T

-----------------------------------------------------------------------------
(***************************************************************************)
(* One member, told of one change.                                         *)
(***************************************************************************)

\* The fields of what a member of a room knows.
LEMMA InsideFields ==
    ASSUME NEW id, NEW code, NEW room
    PROVE  LET v == Inside(id, code, room)
           IN  /\ v.id = id /\ v.room = code /\ v.host = room.host /\ v.open = room.open
               /\ v.passworded = (room.password # Empty) /\ v.members = Range(room.members)
               /\ v.data = room.data /\ v.member_data = room.member_data
BY ViewFields DEF Inside

\* When a message may come to a member.
LEMMA LegalInside ==
    ASSUME NEW d, NEW code, code # Empty, NEW room
    PROVE  LET v == Inside(d, code, room)
           IN  /\ \A key, value : Legal(d, v, RoomDataChanged(key, value))
               /\ \A new : Legal(d, v, RoomAccessChanged(new))
               /\ Legal(d, v, Bare("KickedByHost")) /\ Legal(d, v, Bare("BannedByHost"))
               /\ \A id \in Range(room.members) :
                     /\ Legal(d, v, AboutClient("HostChanged", id))
                     /\ Legal(d, v, AboutClient("PeerLeft", id))
                     /\ Legal(d, v, AboutClient("RoomChat", id))
                     /\ id # d => Legal(d, v, AboutClient("P2PSignal", id))
                     /\ \A key, value : Legal(d, v, MemberDataChanged(id, key, value))
               /\ \A id : id \notin Range(room.members) =>
                     Legal(d, v, AboutClient("PeerJoined", id))
<1> DEFINE v == Inside(d, code, room)
<1>1. v.id = d /\ v.room = code /\ v.members = Range(room.members)
  BY InsideFields
<1> HIDE DEF v
<1>2. /\ \A key, value : Legal(d, v, RoomDataChanged(key, value))
      /\ \A new : Legal(d, v, RoomAccessChanged(new))
      /\ Legal(d, v, Bare("KickedByHost")) /\ Legal(d, v, Bare("BannedByHost"))
  BY <1>1 DEF Legal, RoomDataChanged, RoomAccessChanged, Bare
<1>3. ASSUME NEW id \in Range(room.members)
      PROVE  /\ Legal(d, v, AboutClient("HostChanged", id))
             /\ Legal(d, v, AboutClient("PeerLeft", id))
             /\ Legal(d, v, AboutClient("RoomChat", id))
             /\ id # d => Legal(d, v, AboutClient("P2PSignal", id))
             /\ \A key, value : Legal(d, v, MemberDataChanged(id, key, value))
  BY <1>1 DEF Legal, AboutClient, MemberDataChanged
<1>4. ASSUME NEW id, id \notin Range(room.members)
      PROVE  Legal(d, v, AboutClient("PeerJoined", id))
  BY <1>1, <1>4 DEF Legal, AboutClient
<1> QED BY <1>2, <1>3, <1>4 DEF v

\* A member is told of a write to the metadata of its room.
LEMMA TellRoomData ==
    ASSUME NEW d, NEW code, code # Empty, NEW old, NEW room, NEW key, NEW value,
           room.host = old.host, room.open = old.open,
           room.password = old.password, room.members = old.members,
           room.member_data = old.member_data,
           room.data = Write(old.data, key, value)
    PROVE  /\ Legal(d, Inside(d, code, old), RoomDataChanged(key, value))
           /\ Apply(Inside(d, code, old), RoomDataChanged(key, value)) = Inside(d, code, room)
<1> DEFINE v == Inside(d, code, old)
           locked == old.password # Empty
<1>1. /\ v.id = d /\ v.room = code /\ v.host = old.host /\ v.open = old.open
      /\ v.passworded = locked /\ v.members = Range(old.members)
      /\ v.data = old.data /\ v.member_data = old.member_data
  BY InsideFields
<1>2. Inside(d, code, room) = ViewOf(d, code, old.host, old.open, locked, Range(old.members),
                                       Write(old.data, key, value), old.member_data)
  BY DEF Inside
<1> HIDE DEF v, locked
<1>3. Legal(d, v, RoomDataChanged(key, value))
  BY <1>1 DEF Legal, RoomDataChanged
<1>4. Apply(v, RoomDataChanged(key, value)) =
         ViewOf(v.id, v.room, v.host, v.open, v.passworded, v.members,
                Write(v.data, key, value), v.member_data)
  BY Zenon, ZenonT(60), ApplyOther
<1> QED BY <1>1, <1>2, <1>3, <1>4 DEF v

\* A member is told of a write to the metadata of a member.
LEMMA TellMemberData ==
    ASSUME NEW d, NEW code, code # Empty, NEW old, NEW room, NEW id, NEW key, NEW value,
           id \in Range(old.members),
           room.host = old.host, room.open = old.open,
           room.password = old.password, room.members = old.members,
           room.data = old.data,
           room.member_data = StoreMemberData(old.member_data, id, key, value)
    PROVE  /\ Legal(d, Inside(d, code, old), MemberDataChanged(id, key, value))
           /\ Apply(Inside(d, code, old), MemberDataChanged(id, key, value)) = Inside(d, code, room)
<1> DEFINE v == Inside(d, code, old)
           locked == old.password # Empty
<1>1. /\ v.id = d /\ v.room = code /\ v.host = old.host /\ v.open = old.open
      /\ v.passworded = locked /\ v.members = Range(old.members)
      /\ v.data = old.data /\ v.member_data = old.member_data
  BY InsideFields
<1>2. Inside(d, code, room) = ViewOf(d, code, old.host, old.open, locked, Range(old.members),
                                       old.data,
                                       StoreMemberData(old.member_data, id, key, value))
  BY DEF Inside
<1> HIDE DEF v, locked
<1>3. Legal(d, v, MemberDataChanged(id, key, value))
  BY <1>1 DEF Legal, MemberDataChanged
<1>4. Apply(v, MemberDataChanged(id, key, value)) =
         ViewOf(v.id, v.room, v.host, v.open, v.passworded, v.members, v.data,
                StoreMemberData(v.member_data, id, key, value))
  BY Zenon, ZenonT(60), ApplyStore
<1> QED BY <1>1, <1>2, <1>3, <1>4 DEF v

\* A member is told who the host is.
LEMMA TellHost ==
    ASSUME NEW d, NEW code, code # Empty, NEW old, NEW room, NEW id,
           id \in Range(old.members),
           room.open = old.open, room.password = old.password,
           room.members = old.members, room.data = old.data,
           room.member_data = old.member_data,
           room.host = id
    PROVE  /\ Legal(d, Inside(d, code, old), AboutClient("HostChanged", id))
           /\ Apply(Inside(d, code, old), AboutClient("HostChanged", id)) = Inside(d, code, room)
<1> DEFINE v == Inside(d, code, old)
           locked == old.password # Empty
<1>1. /\ v.id = d /\ v.room = code /\ v.host = old.host /\ v.open = old.open
      /\ v.passworded = locked /\ v.members = Range(old.members)
      /\ v.data = old.data /\ v.member_data = old.member_data
  BY InsideFields
<1>2. Inside(d, code, room) = ViewOf(d, code, id, old.open, locked, Range(old.members),
                                       old.data, old.member_data)
  BY DEF Inside
<1> HIDE DEF v, locked
<1>3. Legal(d, v, AboutClient("HostChanged", id))
  BY <1>1 DEF Legal, AboutClient
<1>4. Apply(v, AboutClient("HostChanged", id)) =
         ViewOf(v.id, v.room, id, v.open, v.passworded, v.members, v.data, v.member_data)
  BY Zenon, ZenonT(60), ApplyClient
<1> QED BY <1>1, <1>2, <1>3, <1>4 DEF v

\* A member is told of an arrival.
LEMMA TellCome ==
    ASSUME NEW d, NEW code, code # Empty, NEW old, NEW room, NEW id,
           id \notin Range(old.members), Range(room.members) = Range(old.members) \cup {id},
           room.host = old.host, room.open = old.open,
           room.password = old.password, room.data = old.data,
           room.member_data = old.member_data
    PROVE  /\ Legal(d, Inside(d, code, old), AboutClient("PeerJoined", id))
           /\ Apply(Inside(d, code, old), AboutClient("PeerJoined", id)) = Inside(d, code, room)
<1> DEFINE v == Inside(d, code, old)
           locked == old.password # Empty
<1>1. /\ v.id = d /\ v.room = code /\ v.host = old.host /\ v.open = old.open
      /\ v.passworded = locked /\ v.members = Range(old.members)
      /\ v.data = old.data /\ v.member_data = old.member_data
  BY InsideFields
<1>2. Inside(d, code, room) = ViewOf(d, code, old.host, old.open, locked,
                                       Range(old.members) \cup {id}, old.data, old.member_data)
  BY DEF Inside
<1> HIDE DEF v, locked
<1>3. Legal(d, v, AboutClient("PeerJoined", id))
  BY <1>1 DEF Legal, AboutClient
<1>4. Apply(v, AboutClient("PeerJoined", id)) =
         ViewOf(v.id, v.room, v.host, v.open, v.passworded, v.members \cup {id}, v.data,
                v.member_data)
  BY Zenon, ZenonT(60), ApplyClient
<1> QED BY <1>1, <1>2, <1>3, <1>4 DEF v

\* A member is told how its room is entered.
LEMMA TellAccess ==
    ASSUME NEW d, NEW code, code # Empty, NEW old, NEW room,
           room.host = old.host, room.members = old.members,
           room.data = old.data, room.member_data = old.member_data
    PROVE  /\ Legal(d, Inside(d, code, old), RoomAccessChanged(room))
           /\ Apply(Inside(d, code, old), RoomAccessChanged(room)) = Inside(d, code, room)
<1> DEFINE v == Inside(d, code, old)
           locked == old.password # Empty
<1>1. /\ v.id = d /\ v.room = code /\ v.host = old.host /\ v.open = old.open
      /\ v.passworded = locked /\ v.members = Range(old.members)
      /\ v.data = old.data /\ v.member_data = old.member_data
  BY InsideFields
<1>2. Inside(d, code, room) = ViewOf(d, code, old.host, room.open, room.password # Empty,
                                       Range(old.members), old.data, old.member_data)
  BY DEF Inside
<1> HIDE DEF v, locked
<1>3. Legal(d, v, RoomAccessChanged(room))
  BY <1>1 DEF Legal, RoomAccessChanged
<1>4. Apply(v, RoomAccessChanged(room)) =
         ViewOf(v.id, v.room, v.host, room.open, room.password # Empty, v.members, v.data,
                v.member_data)
  BY Zenon, ZenonT(60), ApplyOther
<1> QED BY <1>1, <1>2, <1>3, <1>4 DEF v

\* What a departure makes of it.
LEMMA ApplyGone ==
    ASSUME NEW d, NEW code, NEW room, NEW id, id # d
    PROVE  Apply(Inside(d, code, room), AboutClient("PeerLeft", id)) =
              ViewOf(d, code, room.host, room.open, room.password # Empty,
                     Range(room.members) \ {id}, room.data, Drop(room.member_data, id))
<1> DEFINE v == Inside(d, code, room)
           locked == room.password # Empty
<1>1. /\ v.id = d /\ v.room = code /\ v.host = room.host /\ v.open = room.open
      /\ v.passworded = locked /\ v.members = Range(room.members)
      /\ v.data = room.data /\ v.member_data = room.member_data
  BY InsideFields
<1> HIDE DEF v, locked
<1>2. Apply(v, AboutClient("PeerLeft", id)) =
         ViewOf(v.id, v.room, v.host, v.open, v.passworded, v.members \ {id}, v.data,
                Drop(v.member_data, id))
  <2>1. id # v.id
    BY <1>1
  <2> QED BY Zenon, ZenonT(60), <2>1, ApplyClient
<1> QED BY <1>1, <1>2 DEF v, locked

\* When a message may come to a client that is in no room, and what it makes of
\* its view.
LEMMA OutsideFacts ==
    ASSUME NEW c
    PROVE  /\ Legal(c, Outside(0), AboutClient("AssignClientId", c))
           /\ Apply(Outside(0), AboutClient("AssignClientId", c)) = Outside(c)
           /\ \A code : /\ Legal(c, Outside(c), AssignRoomId(code))
                        /\ Apply(Outside(c), AssignRoomId(code)) =
                              ViewOf(c, code, 0, TRUE, FALSE, {c}, EmptyMap, EmptyMap)
<1>1. ASSUME NEW id
      PROVE  /\ Outside(id).id = id /\ Outside(id).room = Empty /\ Outside(id).host = 0
             /\ Outside(id).open = TRUE /\ Outside(id).passworded = FALSE
             /\ Outside(id).members = {} /\ Outside(id).data = EmptyMap
             /\ Outside(id).member_data = EmptyMap
  BY DEF Outside, ViewOf
<1>2. /\ Legal(c, Outside(0), AboutClient("AssignClientId", c))
      /\ \A code : Legal(c, Outside(c), AssignRoomId(code))
  BY Zenon, ZenonT(60), <1>1 DEF Legal, AboutClient, AssignRoomId
<1> DEFINE a == Outside(0)
           b == Outside(c)
<1>3. /\ a.room = Empty /\ a.host = 0 /\ a.open = TRUE /\ a.passworded = FALSE
      /\ a.members = {} /\ a.data = EmptyMap /\ a.member_data = EmptyMap /\ b.id = c
  BY Zenon, ZenonT(60), <1>1
<1> HIDE DEF a, b
<1>4. Apply(a, AboutClient("AssignClientId", c)) =
         ViewOf(c, Empty, 0, TRUE, FALSE, {}, EmptyMap, EmptyMap)
  <2>1. Apply(a, AboutClient("AssignClientId", c)) =
           ViewOf(c, a.room, a.host, a.open, a.passworded, a.members, a.data, a.member_data)
    BY Zenon, ZenonT(60), ApplyClient
  <2> QED BY Zenon, ZenonT(60), <1>3, <2>1
<1>5. ASSUME NEW code
      PROVE  Apply(b, AssignRoomId(code)) =
                ViewOf(c, code, 0, TRUE, FALSE, {c}, EmptyMap, EmptyMap)
  <2>1. Apply(b, AssignRoomId(code)) =
           ViewOf(b.id, code, 0, TRUE, FALSE, {b.id}, EmptyMap, EmptyMap)
    BY Zenon, ZenonT(60), ApplyOther
  <2> QED BY <1>3, <2>1
<1> QED BY Zenon, ZenonT(60), <1>2, <1>4, <1>5 DEF a, b, Outside

\* Rooms that differ in whom they bar and in nothing else.
SameRoom(room, old) ==
    /\ room \in Room
    /\ room.host = old.host /\ room.open = old.open /\ room.password = old.password
    /\ room.members = old.members /\ room.data = old.data
    /\ room.member_data = old.member_data

\* Barring changes nothing that a member knows.
LEMMA InsideSame ==
    ASSUME NEW d, NEW code, NEW old, NEW room, SameRoom(room, old)
    PROVE  Inside(d, code, room) = Inside(d, code, old)
BY DEF SameRoom, Inside

\* A member that stays when c leaves knows what WithoutMember keeps.
LEMMA InsideWithout ==
    ASSUME NEW d, NEW code, NEW c, NEW room \in Room, IsInjective(room.members)
    PROVE  Inside(d, code, WithoutMember(room, c)) =
              ViewOf(d, code, WithoutMember(room, c).host, room.open, room.password # Empty,
                     Range(room.members) \ {c}, room.data, Drop(room.member_data, c))
<1> DEFINE left == Erase(room.members, c)
           heir == IF room.host = c THEN Head(left) ELSE room.host
           kept == Drop(room.member_data, c)
           new == [room EXCEPT !.members = left, !.member_data = kept, !.host = heir]
<1>1. WithoutMember(room, c) = new
  BY DEF WithoutMember
<1>2. left \in Seq(Id) /\ Range(left) = Range(room.members) \ {c}
  <2>1. room.members \in Seq(Id)
    BY DEF Room
  <2> QED BY <2>1, EraseFacts
<1> HIDE DEF left, heir, kept
<1>3. /\ new.members = left /\ new.member_data = kept
      /\ new.data = room.data /\ new.open = room.open /\ new.password = room.password
  BY DEF Room
<1> HIDE DEF new
<1>4. Inside(d, code, new) = ViewOf(d, code, new.host, room.open, room.password # Empty,
                                    Range(room.members) \ {c}, room.data, kept)
  BY Zenon, ZenonT(60), <1>2, <1>3 DEF Inside
<1> QED BY <1>1, <1>4 DEF kept

\* The oldest of those that stay succeeds c, if c was the host.
LEMMA HostWithout ==
    ASSUME NEW c, NEW room \in Room
    PROVE  /\ room.host = c => WithoutMember(room, c).host = Head(Erase(room.members, c))
           /\ room.host # c => WithoutMember(room, c).host = room.host
<1> DEFINE left == Erase(room.members, c)
           heir == IF room.host = c THEN Head(left) ELSE room.host
           kept == Drop(room.member_data, c)
           new == [room EXCEPT !.members = left, !.member_data = kept, !.host = heir]
<1>1. WithoutMember(room, c) = new
  BY DEF WithoutMember
<1> HIDE DEF left, heir, kept
<1>2. new.host = heir
  BY DEF Room
<1> HIDE DEF new
<1> QED BY <1>1, <1>2 DEF heir, left

\* What a member that stays is told adds up.
LEMMA LeaveTrace ==
    ASSUME NEW d, NEW c, d # c, NEW code, code # Empty, NEW old \in Room,
           IsInjective(old.members), c \in Range(old.members),
           Erase(old.members, c) # <<>>, NEW room, SameRoom(room, old)
    PROVE  Trace(d, Inside(d, code, old),
                 <<AboutClient("PeerLeft", c)>>
                 \o IF old.host = c
                    THEN <<AboutClient("HostChanged", Head(Erase(old.members, c)))>>
                    ELSE <<>>,
                 Inside(d, code, WithoutMember(room, c)))
<1> DEFINE v == Inside(d, code, old)
           left == Erase(old.members, c)
           gone == AboutClient("PeerLeft", c)
           heir == AboutClient("HostChanged", Head(left))
           locked == old.password # Empty
           members == Range(old.members) \ {c}
           kept == Drop(old.member_data, c)
           w == ViewOf(d, code, old.host, old.open, locked, members, old.data, kept)
           new == Inside(d, code, WithoutMember(room, c))
<1>1. Legal(d, v, gone)
  BY Zenon, ZenonT(60), LegalInside
<1>2. Apply(v, gone) = w
  BY ONLY SMTT(20), Z3T(60), d # c, ApplyGone
<1>3. Head(left) \in members
  <2>1. old.members \in Seq(Id)
    BY DEF Room
  <2>2. left \in Seq(Id) /\ Range(left) = members
    BY <2>1, EraseFacts
  <2> HIDE DEF left, members
  <2>3. 1 \in DOMAIN left /\ Head(left) = left[1]
    BY <2>2 DEF left
  <2> QED BY <2>2, <2>3 DEF Range
<1>4. new = ViewOf(d, code, WithoutMember(room, c).host, old.open, locked, members, old.data,
                   kept)
  <2>1. /\ room \in Room /\ room.open = old.open /\ room.password = old.password
        /\ room.members = old.members /\ room.data = old.data
        /\ room.member_data = old.member_data
    BY DEF SameRoom
  <2>2. new = ViewOf(d, code, WithoutMember(room, c).host, room.open, room.password # Empty,
                     Range(room.members) \ {c}, room.data, Drop(room.member_data, c))
    BY Zenon, ZenonT(60), <2>1, InsideWithout
  <2> QED BY <2>1, <2>2
<1>8. /\ old.host = c => WithoutMember(room, c).host = Head(left)
      /\ old.host # c => WithoutMember(room, c).host = old.host
  BY HostWithout DEF SameRoom
<1>5. /\ w.id = d /\ w.room = code /\ w.open = old.open /\ w.passworded = locked
      /\ w.members = members /\ w.data = old.data /\ w.member_data = kept
  BY DEF ViewOf
<1> HIDE DEF new, v, gone
<1>6. CASE old.host = c
  <2>1. new = ViewOf(d, code, Head(left), old.open, locked, members, old.data, kept)
    BY <1>4, <1>6, <1>8
  <2> HIDE DEF w, locked, members, kept, left
  <2>2. Legal(d, w, heir)
    BY <1>3, <1>5 DEF Legal, AboutClient
  <2>3. Apply(w, heir) = new
    <3>1. Apply(w, heir) = ViewOf(w.id, w.room, Head(left), w.open, w.passworded, w.members,
                                  w.data, w.member_data)
      BY Zenon, ZenonT(60), ApplyClient
    <3> QED BY <1>5, <2>1, <3>1
  <2> HIDE DEF heir
  <2>4. Trace(d, v, <<gone>> \o <<heir>>, new)
    <3> DEFINE s == <<gone>>
               t == <<heir>>
               S == {gone, heir}
    <3>1. s \in Seq(S) /\ t \in Seq(S)
      OBVIOUS
    <3>2. Trace(d, v, s, w) /\ Trace(d, w, t, new)
      BY <1>1, <1>2, <2>2, <2>3, TraceOne
    <3> HIDE DEF s, t, S
    <3>3. Trace(d, v, s \o t, new)
      BY <3>1, <3>2, TraceConcat
    <3> QED BY <3>3 DEF s, t
  <2> QED BY <1>6, <2>4 DEF v, gone, heir, left, new
<1>7. CASE old.host # c
  <2>1. new = w
    BY <1>4, <1>7, <1>8
  <2>2. <<gone>> \o <<>> = <<gone>>
    OBVIOUS
  <2>3. Trace(d, v, <<gone>> \o <<>>, new)
    <3>1. Trace(d, v, <<gone>>, w)
      BY <1>1, <1>2, TraceOne
    <3> QED BY <2>1, <2>2, <3>1
  <2> QED BY <1>7, <2>3 DEF v, gone, new
<1> QED BY <1>6, <1>7

-----------------------------------------------------------------------------
(***************************************************************************)
(* A joiner is sent the room as the events that would have built it.       *)
(***************************************************************************)

\* The first elements of a sequence.
Firsts(s, i) == {s[j] : j \in 1..i}

\* A loop over a sequence takes its elements one by one.
LEMMA FirstsFacts ==
    ASSUME NEW S, NEW s \in Seq(S)
    PROVE  /\ Firsts(s, 0) = {} /\ Firsts(s, Len(s)) = Range(s)
           /\ \A i \in 1..Len(s) : /\ i - 1 \in 0..Len(s)
                                   /\ s[i] \in S
                                   /\ Firsts(s, i) = Firsts(s, i - 1) \cup {s[i]}
           /\ \A i \in 0..Len(s) : Firsts(s, i) \subseteq S
           /\ IsInjective(s) => \A i \in 1..Len(s) : s[i] \notin Firsts(s, i - 1)
<1>1. Firsts(s, 0) = {} /\ Firsts(s, Len(s)) = Range(s)
  BY DEF Firsts, Range
<1>2. ASSUME NEW i \in 1..Len(s)
      PROVE  /\ i - 1 \in 0..Len(s) /\ s[i] \in S
             /\ Firsts(s, i) = Firsts(s, i - 1) \cup {s[i]}
  <2>1. /\ i - 1 \in 0..Len(s) /\ s[i] \in S
        /\ \A j : j \in 1..i <=> j \in 1..(i - 1) \/ j = i
    OBVIOUS
  <2> QED BY <2>1 DEF Firsts
<1>3. ASSUME NEW i \in 0..Len(s) PROVE Firsts(s, i) \subseteq S
  <2>1. \A j \in 1..i : s[j] \in S
    OBVIOUS
  <2> QED BY <2>1 DEF Firsts
<1>4. ASSUME IsInjective(s), NEW i \in 1..Len(s) PROVE s[i] \notin Firsts(s, i - 1)
  <2>1. \A j \in 1..(i - 1) : j \in DOMAIN s /\ i \in DOMAIN s /\ j # i
    OBVIOUS
  <2> QED BY <1>4, <2>1 DEF Firsts, IsInjective
<1> QED BY <1>1, <1>2, <1>3, <1>4

\* The members are introduced.
LEMMA PeersTrace ==
    ASSUME NEW c, NEW code, code # Empty, NEW members \in Seq(Id), IsInjective(members),
           c \notin Range(members), NEW e
    PROVE  Trace(c, ViewOf(c, code, 0, TRUE, FALSE, {c}, e, e),
                 [i \in 1..Len(members) |-> AboutClient("PeerJoined", members[i])],
                 ViewOf(c, code, 0, TRUE, FALSE, {c} \cup Range(members), e, e))
<1> DEFINE n == Len(members)
           msgs == [i \in 1..n |-> AboutClient("PeerJoined", members[i])]
           V(T) == ViewOf(c, code, 0, TRUE, FALSE, {c} \cup T, e, e)
           run == [i \in 0..n |-> V(Firsts(members, i))]
<1>1. n \in Nat /\ Len(msgs) = n
  OBVIOUS
<1>2. Firsts(members, 0) = {} /\ Firsts(members, n) = Range(members)
  BY FirstsFacts
<1>3. run[0] = V(Firsts(members, 0)) /\ run[n] = V(Firsts(members, n))
  BY <1>1
<1>4. ASSUME NEW i \in 1..n
      PROVE  Legal(c, run[i - 1], msgs[i]) /\ run[i] = Apply(run[i - 1], msgs[i])
  <2> DEFINE T == Firsts(members, i - 1)
             id == members[i]
             v == V(T)
             msg == AboutClient("PeerJoined", id)
  <2>1. i - 1 \in 0..n /\ i \in 0..n /\ Firsts(members, i) = T \cup {id} /\ id \notin T
        /\ id # c
    <3>1. id \in Range(members)
      BY DEF Range
    <3> QED BY <1>1, <3>1, FirstsFacts
  <2>2. run[i - 1] = v /\ run[i] = V(T \cup {id}) /\ msgs[i] = msg
    BY Zenon, ZenonT(60), <2>1
  <2>3. /\ v.id = c /\ v.room = code /\ v.host = 0 /\ v.open = TRUE /\ v.passworded = FALSE
        /\ v.members = {c} \cup T /\ v.data = e /\ v.member_data = e
    BY DEF ViewOf
  <2> HIDE DEF v, T, id, run, msgs
  <2>4. Legal(c, v, msg)
    BY <2>1, <2>3 DEF Legal, AboutClient
  <2>5. Apply(v, msg) = V(T \cup {id})
    <3>1. Apply(v, msg) = ViewOf(v.id, v.room, v.host, v.open, v.passworded,
                                 v.members \cup {id}, v.data, v.member_data)
      BY Zenon, ZenonT(60), ApplyClient
    <3>2. v.members \cup {id} = {c} \cup (T \cup {id})
      BY <2>3
    <3> QED BY Zenon, ZenonT(60), <2>3, <3>1, <3>2
  <2> QED BY Zenon, ZenonT(60), <2>2, <2>4, <2>5
<1> HIDE DEF run, msgs
<1>5. Trace(c, run[0], msgs, run[n])
  <2>1. Trace(c, run[0], msgs, run[Len(msgs)])
    BY Zenon, ZenonT(60), <1>1, <1>4, TraceRun
  <2> QED BY <1>1, <2>1
<1>6. {c} \cup {} = {c}
  OBVIOUS
<1> HIDE DEF n
<1> QED BY Zenon, ZenonT(60), <1>2, <1>3, <1>5, <1>6 DEF n, msgs

\* Then who the host is, and how the room is entered.
LEMMA DoorTrace ==
    ASSUME NEW c, NEW code, code # Empty, NEW room, NEW members, room.host \in members, NEW e
    PROVE  Trace(c, ViewOf(c, code, 0, TRUE, FALSE, members, e, e),
                 <<AboutClient("HostChanged", room.host), RoomAccessChanged(room)>>,
                 ViewOf(c, code, room.host, room.open, room.password # Empty, members, e, e))
<1> DEFINE a == ViewOf(c, code, 0, TRUE, FALSE, members, e, e)
           b == ViewOf(c, code, room.host, TRUE, FALSE, members, e, e)
           locked == room.password # Empty
           d == ViewOf(c, code, room.host, room.open, locked, members, e, e)
           m == AboutClient("HostChanged", room.host)
           n == RoomAccessChanged(room)
<1>1. /\ a.id = c /\ a.room = code /\ a.open = TRUE /\ a.passworded = FALSE
      /\ a.members = members /\ a.data = e /\ a.member_data = e
  BY DEF ViewOf
<1>2. b.id = c /\ b.room = code /\ b.host = room.host /\ b.members = members
      /\ b.data = e /\ b.member_data = e
  BY DEF ViewOf
<1> HIDE DEF a
<1>3. Apply(a, m) = b
  <2>1. Apply(a, m) = ViewOf(a.id, a.room, room.host, a.open, a.passworded, a.members, a.data,
                             a.member_data)
    BY Zenon, ZenonT(60), ApplyClient
  <2> QED BY Zenon, ZenonT(60), <1>1, <2>1
<1> HIDE DEF b
<1>4. Apply(b, n) = d
  <2>1. Apply(b, n) = ViewOf(b.id, b.room, b.host, room.open, locked, b.members, b.data,
                             b.member_data)
    BY Zenon, ZenonT(60), ApplyOther
  <2> QED BY <1>2, <2>1
<1>5. Legal(c, a, m) /\ Legal(c, b, n)
  BY Zenon, ZenonT(60), <1>1, <1>2 DEF Legal, AboutClient, RoomAccessChanged
<1> HIDE DEF m, n, d
<1>6. Trace(c, a, <<m, n>>, Apply(Apply(a, m), n))
  BY <1>3, <1>5, TraceTwo
<1> QED BY Zenon, ZenonT(60), <1>3, <1>4, <1>6 DEF a, d, m, n

\* Then the metadata of the room, no value of which is empty.
LEMMA DataTrace ==
    ASSUME NEW c, NEW code, code # Empty, NEW host, NEW open, NEW locked, NEW members,
           NEW data \in Map(Key, Value), \A k \in DOMAIN data : data[k] # Empty,
           NEW keys \in Seq(DOMAIN data), Range(keys) = DOMAIN data, NEW e
    PROVE  Trace(c, ViewOf(c, code, host, open, locked, members, EmptyMap, e),
                 [i \in 1..Len(keys) |-> RoomDataChanged(keys[i], data[keys[i]])],
                 ViewOf(c, code, host, open, locked, members, data, e))
<1> DEFINE n == Len(keys)
           msgs == [i \in 1..n |-> RoomDataChanged(keys[i], data[keys[i]])]
           Part(T) == [k \in T |-> data[k]]
           V(T) == ViewOf(c, code, host, open, locked, members, Part(T), e)
           run == [i \in 0..n |-> V(Firsts(keys, i))]
<1>1. n \in Nat /\ Len(msgs) = n
  OBVIOUS
<1>2. Firsts(keys, 0) = {} /\ Firsts(keys, n) = DOMAIN data
  BY FirstsFacts
<1>3. run[0] = V(Firsts(keys, 0)) /\ run[n] = V(Firsts(keys, n))
  BY <1>1
<1>4. ASSUME NEW i \in 1..n
      PROVE  Legal(c, run[i - 1], msgs[i]) /\ run[i] = Apply(run[i - 1], msgs[i])
  <2> DEFINE T == Firsts(keys, i - 1)
             key == keys[i]
             v == V(T)
             msg == RoomDataChanged(key, data[key])
  <2>1. /\ i - 1 \in 0..n /\ i \in 0..n /\ Firsts(keys, i) = T \cup {key}
        /\ key \in DOMAIN data
    BY <1>1, FirstsFacts
  <2>2. run[i - 1] = v /\ run[i] = V(T \cup {key}) /\ msgs[i] = msg
    BY Zenon, ZenonT(60), <2>1
  <2>3. /\ v.id = c /\ v.room = code /\ v.host = host /\ v.open = open
        /\ v.passworded = locked /\ v.members = members /\ v.data = Part(T)
        /\ v.member_data = e
    BY DEF ViewOf
  <2>4. Write(Part(T), key, data[key]) = Part(T \cup {key})
    <3>1. data[key] # Empty
      BY <2>1
    <3> HIDE DEF T, key
    <3>2. Put(Part(T), key, data[key]) = Part(T \cup {key})
      BY DEF Put
    <3> QED BY <3>1, <3>2 DEF Write
  <2> HIDE DEF v, T, key, run, msgs, Part
  <2>5. Legal(c, v, msg)
    BY <2>3 DEF Legal, RoomDataChanged
  <2>6. Apply(v, msg) = V(T \cup {key})
    <3>1. Apply(v, msg) = ViewOf(v.id, v.room, v.host, v.open, v.passworded, v.members,
                                 Write(v.data, key, data[key]), v.member_data)
      BY Zenon, ZenonT(60), ApplyOther
    <3>2. Write(v.data, key, data[key]) = Part(T \cup {key})
      BY <2>3, <2>4
    <3> QED BY <2>3, <3>1, <3>2
  <2> QED BY <2>2, <2>5, <2>6
<1> HIDE DEF run, msgs
<1>5. Trace(c, run[0], msgs, run[n])
  <2>1. Trace(c, run[0], msgs, run[Len(msgs)])
    BY Zenon, ZenonT(60), <1>1, <1>4, TraceRun
  <2> QED BY <1>1, <2>1
<1>6. Part({}) = EmptyMap /\ Part(DOMAIN data) = data
  <2>1. Part({}) = EmptyMap
    BY DEF EmptyMap
  <2>2. data \in [DOMAIN data -> Value]
    BY MapDef
  <2> QED BY <2>1, <2>2
<1> HIDE DEF n, Part
<1> QED BY Zenon, ZenonT(60), <1>2, <1>3, <1>5, <1>6 DEF n, msgs

\* No value that is stored is empty.
LEMMA StoredValue ==
    ASSUME NEW data \in Map(Key, Value), NEW limit, WellFormed(data, limit), NEW k \in DOMAIN data
    PROVE  data[k] # Empty
<1>1. data[k] \in Value
  BY MapDef
<1>2. Size[data[k]] # 0
  BY LimitAssumption DEF WellFormed
<1> QED BY <1>1, <1>2, StringAssumption

\* The part of the members' metadata that a set of slots names.
Slots(md, T) ==
    [id \in {id \in Id : \E k \in Key : <<id, k>> \in T} |->
        [k \in {k \in Key : <<id, k>> \in T} |-> md[id][k]]]

\* One more slot.
LEMMA SlotStored ==
    ASSUME NEW md, NEW T, NEW id \in Id, NEW key \in Key, md[id][key] # Empty
    PROVE  StoreMemberData(Slots(md, T), id, key, md[id][key]) = Slots(md, T \cup {<<id, key>>})
<1> DEFINE part == Slots(md, T)
           U == T \cup {<<id, key>>}
           whole == Slots(md, U)
           old == IF id \in DOMAIN part THEN part[id] ELSE EmptyMap
           K(x, W) == {k \in Key : <<x, k>> \in W}
           new == Put(old, key, md[id][key])
<1>1. /\ DOMAIN part = {x \in Id : \E k \in Key : <<x, k>> \in T}
      /\ \A x \in DOMAIN part : part[x] = [k \in K(x, T) |-> md[x][k]]
  BY DEF Slots
<1>2. /\ DOMAIN whole = {x \in Id : \E k \in Key : <<x, k>> \in U}
      /\ \A x \in DOMAIN whole : whole[x] = [k \in K(x, U) |-> md[x][k]]
  BY DEF Slots
<1>3. DOMAIN whole = DOMAIN part \cup {id}
  BY Zenon, ZenonT(60), <1>1, <1>2
<1>4. K(id, U) = K(id, T) \cup {key} /\ \A x : x # id => K(x, U) = K(x, T)
  OBVIOUS
<1>5. old = [k \in K(id, T) |-> md[id][k]]
  <2>1. CASE id \in DOMAIN part
    BY <1>1, <2>1
  <2>2. CASE id \notin DOMAIN part
    <3>1. K(id, T) = {}
      BY <1>1, <2>2
    <3> QED BY <2>2, <3>1 DEF EmptyMap
  <2> QED BY <2>1, <2>2
<1> HIDE DEF part, whole, old, U
<1>6. new = [k \in K(id, T) \cup {key} |-> md[id][k]]
  BY <1>5 DEF Put
<1>7. DOMAIN new # {}
  BY Zenon, ZenonT(60), <1>6
<1>8. whole[id] = new
  <2>1. id \in DOMAIN whole
    BY <1>3
  <2>2. whole[id] = [k \in K(id, U) |-> md[id][k]]
    BY <1>2, <2>1
  <2> QED BY <1>4, <1>6, <2>2
<1>9. \A x \in DOMAIN part : x # id => whole[x] = part[x]
  BY Zenon, ZenonT(60), <1>1, <1>2, <1>3, <1>4
<1>10. StoreMemberData(part, id, key, md[id][key]) = Put(part, id, new)
  <2>1. Write(old, key, md[id][key]) = new
    BY DEF Write
  <2>2. StoreMemberData(part, id, key, md[id][key]) =
           WriteMemberData(part, id, Write(old, key, md[id][key]))
    BY Zenon, ZenonT(60) DEF StoreMemberData, old
  <2> HIDE DEF new
  <2> QED BY <1>7, <2>1, <2>2 DEF WriteMemberData
<1>11. Put(part, id, new) = whole
  <2> HIDE DEF new
  <2>1. whole = [x \in DOMAIN whole |-> whole[x]]
    BY DEF whole, Slots
  <2>2. Put(part, id, new) = [x \in DOMAIN whole |-> IF x = id THEN new ELSE part[x]]
    BY <1>3 DEF Put
  <2> QED BY <1>3, <1>8, <1>9, <2>1, <2>2
<1> QED BY <1>10, <1>11 DEF part, whole, U

\* Then the metadata of every member.
LEMMA SlotsTrace ==
    ASSUME NEW c, NEW code, NEW host, NEW open, NEW locked, NEW members, NEW data,
           NEW md \in Map(Id, Map(Key, Value)),
           \A id \in DOMAIN md : /\ id \in members /\ DOMAIN md[id] # {}
                                 /\ \A k \in DOMAIN md[id] : md[id][k] # Empty,
           NEW pairs,
           pairs = {s \in Id \X Key : s[1] \in DOMAIN md /\ s[2] \in DOMAIN md[s[1]]},
           NEW slots \in Seq(pairs), Range(slots) = pairs
    PROVE  Trace(c, ViewOf(c, code, host, open, locked, members, data, EmptyMap),
                 [i \in 1..Len(slots) |->
                     MemberDataChanged(slots[i][1], slots[i][2], md[slots[i][1]][slots[i][2]])],
                 ViewOf(c, code, host, open, locked, members, data, md))
<1> DEFINE n == Len(slots)
           Msg(s) == MemberDataChanged(s[1], s[2], md[s[1]][s[2]])
           msgs == [i \in 1..n |-> Msg(slots[i])]
           V(T) == ViewOf(c, code, host, open, locked, members, data, Slots(md, T))
           run == [i \in 0..n |-> V(Firsts(slots, i))]
<1>1. n \in Nat /\ Len(msgs) = n
  OBVIOUS
<1>2. Firsts(slots, 0) = {} /\ Firsts(slots, n) = pairs
  BY FirstsFacts
<1>3. run[0] = V(Firsts(slots, 0)) /\ run[n] = V(Firsts(slots, n))
  <2>1. 0 \in 0..n /\ n \in 0..n
    BY <1>1
  <2> HIDE DEF n
  <2> QED BY <2>1
<1>4. ASSUME NEW i \in 1..n
      PROVE  Legal(c, run[i - 1], msgs[i]) /\ run[i] = Apply(run[i - 1], msgs[i])
  <2> DEFINE T == Firsts(slots, i - 1)
             s == slots[i]
             id == s[1]
             key == s[2]
             v == V(T)
             msg == MemberDataChanged(id, key, md[id][key])
  <2>1. i - 1 \in 0..n /\ i \in 0..n /\ Firsts(slots, i) = T \cup {s} /\ s \in pairs
    BY <1>1, FirstsFacts
  <2>2. run[i - 1] = v /\ run[i] = V(T \cup {s}) /\ msgs[i] = msg
    BY Zenon, ZenonT(60), <2>1
  <2>3. s = <<id, key>> /\ id \in Id /\ key \in Key /\ id \in DOMAIN md /\ key \in DOMAIN md[id]
    BY <2>1
  <2>4. md[id][key] # Empty /\ id \in members
    BY <2>3
  <2>5. /\ v.id = c /\ v.room = code /\ v.host = host /\ v.open = open
        /\ v.passworded = locked /\ v.members = members /\ v.data = data
        /\ v.member_data = Slots(md, T)
    BY Zenon, ZenonT(60) DEF ViewOf
  <2> HIDE DEF v, T, id, key, s, run, msgs
  <2>6. StoreMemberData(Slots(md, T), id, key, md[id][key]) = Slots(md, T \cup {s})
    BY <2>3, <2>4, SlotStored
  <2>7. Legal(c, v, msg)
    BY <2>4, <2>5 DEF Legal, MemberDataChanged
  <2>8. Apply(v, msg) = V(T \cup {s})
    <3> DEFINE value == md[id][key]
               part == Slots(md, T \cup {s})
    <3>1. StoreMemberData(v.member_data, id, key, value) = part
      BY <2>5, <2>6
    <3> HIDE DEF value, part
    <3>2. Apply(v, MemberDataChanged(id, key, value)) =
             ViewOf(v.id, v.room, v.host, v.open, v.passworded, v.members, v.data,
                    StoreMemberData(v.member_data, id, key, value))
      BY ApplyStore
    <3> QED BY Zenon, ZenonT(60), <2>5, <3>1, <3>2 DEF value, part
  <2> QED BY Zenon, ZenonT(60), <2>2, <2>7, <2>8
<1> HIDE DEF run, msgs
<1>5. Trace(c, run[0], msgs, run[n])
  <2>1. Trace(c, run[0], msgs, run[Len(msgs)])
    BY Zenon, ZenonT(60), <1>1, <1>4, TraceRun
  <2> QED BY <1>1, <2>1
<1>6. Slots(md, {}) = EmptyMap
  <2>1. {id \in Id : \E k \in Key : <<id, k>> \in {}} = {}
    OBVIOUS
  <2> QED BY <2>1 DEF Slots, EmptyMap
<1>7. Slots(md, pairs) = md
  <2>1. /\ DOMAIN md \subseteq Id /\ md \in [DOMAIN md -> Map(Key, Value)]
        /\ \A id \in DOMAIN md : DOMAIN md[id] \subseteq Key
                                 /\ md[id] = [k \in DOMAIN md[id] |-> md[id][k]]
    BY MapDef
  <2>2. \A id \in Id, k \in Key : <<id, k>> \in pairs <=> id \in DOMAIN md /\ k \in DOMAIN md[id]
    OBVIOUS
  <2>3. {id \in Id : \E k \in Key : <<id, k>> \in pairs} = DOMAIN md
    <3>1. ASSUME NEW id \in DOMAIN md PROVE \E k \in Key : <<id, k>> \in pairs
      <4>1. PICK k : k \in DOMAIN md[id]
        OBVIOUS
      <4> QED BY <2>1, <2>2, <4>1
    <3> QED BY Zenon, ZenonT(60), <2>1, <2>2, <3>1
  <2>4. \A id \in DOMAIN md : {k \in Key : <<id, k>> \in pairs} = DOMAIN md[id]
    BY Zenon, ZenonT(60), <2>1, <2>2
  <2>5. md = [id \in DOMAIN md |-> md[id]]
    BY <2>1
  <2>6. \A id \in DOMAIN md : [k \in {k \in Key : <<id, k>> \in pairs} |-> md[id][k]] = md[id]
    BY Zenon, ZenonT(60), <2>1, <2>4
  <2>7. Slots(md, pairs) = [id \in DOMAIN md |->
                               [k \in {k \in Key : <<id, k>> \in pairs} |-> md[id][k]]]
    BY <2>3 DEF Slots
  <2> QED BY Zenon, ZenonT(60), <2>5, <2>6, <2>7
<1> HIDE DEF n
<1> QED BY Zenon, ZenonT(60), <1>2, <1>3, <1>5, <1>6, <1>7 DEF n, msgs

=============================================================================
