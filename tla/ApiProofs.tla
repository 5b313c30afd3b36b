----------------------------- MODULE ApiProofs ------------------------------
(***************************************************************************)
(* The C interface, for any sequence of calls: what its pointers point     *)
(* into, what a program makes of its events, and whose datagrams it is     *)
(* handed.                                                                 *)
(***************************************************************************)
EXTENDS ViewProofs

\* Who tries a leaf that names no prover: SMT, then Zenon, then SMT with more time.  Leaves whose
\* goal leads SMT astray name Zenon, with a second attempt that has more time.
USE SMTT(20), ZenonT(20), Z3T(60)

-----------------------------------------------------------------------------
(***************************************************************************)
(* ClientApi: what the accessors point into.                               *)
(***************************************************************************)

\* What the mirror's invariant says of App's client.
AppFacts ==
    /\ App \in DOMAIN client /\ GoodClient(client[App])
    /\ next_id \in Nat
    /\ App >= next_id => client[App] = NewClient

\* App's client carves the head of its queue, which it is in the state for.
AppCarves ==
    LET msg == Head(net[App])
    IN  /\ msg \in ServerMessage
        /\ Legal(App, Cache(client[App]), msg)
        /\ Cache(client'[App]) = Apply(Cache(client[App]), msg)
        /\ client'[App].is_open

\* App's cache is left alone, and only a new client's connection opens.
AppKept ==
    /\ api' = api
    /\ Cache(client'[App]) = Cache(client[App])
    /\ client'[App].members = client[App].members
    /\ client'[App].is_open => client[App].is_open \/ App >= next_id
    /\ next_id' >= next_id /\ next_id' \in Nat

\* The fields of WeyveClient.
ApiFields == {"inbox", "event", "p2p_inbox", "p2p", "loan", "view"}

\* The program holds pointers of the calls that hand them out, and they read as
\* they did.
LoansHold ==
    /\ DOMAIN api = ApiFields
    /\ \A loan \in api.loan :
          /\ loan.place \in AccessorPlace \cup {<<"event">>, <<"p2p">>}
          /\ Content(loan.place) = loan.content

\* An accessor reads these parts of the cache.
LEMMA AccessorSame ==
    ASSUME NEW cl, NEW new, Cache(new) = Cache(cl), new.members = cl.members, NEW place
    PROVE  Accessor(new, place) = Accessor(cl, place)
<1>1. new.room = cl.room /\ new.data = cl.data /\ new.member_data = cl.member_data
  BY CacheFields
<1>2. \A id : MemberDataOf(new, id) = MemberDataOf(cl, id)
  BY <1>1 DEF MemberDataOf
<1> QED BY <1>1, <1>2 DEF Accessor

\* The places that pointers point into are told apart.
LEMMA PlacesDiffer ==
    /\ <<"event">> \notin AccessorPlace /\ <<"p2p">> \notin AccessorPlace
    /\ <<"event">> # <<"p2p">>
BY DEF AccessorPlace

\* What they hold, before and after a step.
LEMMA ContentFacts ==
    /\ Content(<<"event">>) = <<api.event>> /\ Content(<<"event">>)' = <<api'.event>>
    /\ Content(<<"p2p">>) = <<api.p2p>> /\ Content(<<"p2p">>)' = <<api'.p2p>>
    /\ \A place \in AccessorPlace :
          /\ Content(place) = Accessor(client[App], place)
          /\ Content(place)' = Accessor(client'[App], place)
BY PlacesDiffer DEF Content

\* A step that ends some loans and changes nothing at the places of the others.
LEMMA LoansKept ==
    ASSUME LoansHold, DOMAIN api' = ApiFields, NEW places, api'.loan = Expire(places),
           <<"event">> \in places \/ api'.event = api.event,
           api'.p2p = api.p2p,
           \/ AccessorPlace \subseteq places
           \/ Cache(client'[App]) = Cache(client[App]) /\ client'[App].members = client[App].members
    PROVE  LoansHold'
<1>1. ASSUME NEW loan \in api'.loan
      PROVE  /\ loan.place \in AccessorPlace \cup {<<"event">>, <<"p2p">>}
             /\ Content(loan.place)' = loan.content
  <2> DEFINE place == loan.place
  <2>1. /\ loan \in api.loan /\ place \notin places
        /\ place \in AccessorPlace \cup {<<"event">>, <<"p2p">>}
        /\ Content(place) = loan.content
    BY DEF Expire, LoansHold
  <2> HIDE DEF place
  <2>2. Content(place)' = Content(place)
    <3>1. CASE place = <<"event">>
      BY Zenon, ZenonT(60), <2>1, <3>1, ContentFacts
    <3>2. CASE place = <<"p2p">>
      BY Zenon, ZenonT(60), <3>2, ContentFacts
    <3>3. CASE place \in AccessorPlace
      <4>1. Cache(client'[App]) = Cache(client[App]) /\ client'[App].members = client[App].members
        BY <2>1, <3>3
      <4> QED BY <3>3, <4>1, ContentFacts, AccessorSame
    <3> QED BY <2>1, <3>1, <3>2, <3>3
  <2> QED BY <2>1, <2>2 DEF place
<1> QED BY <1>1 DEF LoansHold

\* A step that hands out a pointer.
LEMMA LoanTaken ==
    ASSUME NEW place \in AccessorPlace \cup {<<"event">>, <<"p2p">>}, NEW content,
           DOMAIN api' = ApiFields, api'.loan = Loan(place, content),
           Content(place)' = content
    PROVE  LoansHold'
BY DEF LoansHold, Loan

\* No call of the program, and nothing that arrives, breaks a loan.
LEMMA LoansNext ==
    ASSUME LoansHold, [ApiNext]_apivars, Others => AppKept
    PROVE  LoansHold'
<1>1. DOMAIN api = ApiFields
  BY DEF LoansHold
<1>2. CASE UNCHANGED apivars
  BY <1>2 DEF LoansHold, Content, apivars, allvars
<1>3. CASE weyve_next
  <2> DEFINE filled == {n \in DOMAIN api.inbox : Fills(api.inbox[n])}
             first == CHOOSE n \in filled : \A i \in filled : n <= i
             rest(n) == SubSeq(api.inbox, n + 1, Len(api.inbox))
             view == Follow(api.view, api.inbox[first], client[App].id)
  <2>1. client' = client
    BY <1>3 DEF weyve_next, allvars
  <2>2. CASE filled = {}
    <3> DEFINE n == Len(api.inbox)
    <3>1. api' = [api EXCEPT !.inbox = rest(n), !.event = api.inbox[n],
                             !.loan = Expire({<<"event">>})]
      BY <1>1, <1>3, <2>2 DEF weyve_next, PopEvents, ApiFields
    <3> HIDE DEF n, rest
    <3>2. /\ DOMAIN api' = ApiFields /\ api'.loan = Expire({<<"event">>})
          /\ api'.p2p = api.p2p
      BY <1>1, <3>1 DEF ApiFields
    <3> QED BY <2>1, <3>2, LoansKept
  <2>3. CASE filled # {}
    <3> DEFINE msg == api.inbox[first]
    <3>1. api' = [api EXCEPT !.inbox = rest(first), !.event = msg,
                             !.loan = Loan(<<"event">>, <<msg>>), !.view = view]
      BY <1>1, <1>3, <2>3 DEF weyve_next, PopEvents, ApiFields
    <3> HIDE DEF rest, msg, view
    <3>2. /\ DOMAIN api' = ApiFields /\ api'.loan = Loan(<<"event">>, <<msg>>)
          /\ api'.event = msg
      BY <1>1, <3>1 DEF ApiFields
    <3>3. Content(<<"event">>)' = <<msg>>
      BY Zenon, ZenonT(60), <3>2, ContentFacts
    <3> QED BY <3>2, <3>3, LoanTaken
  <2> QED BY <2>2, <2>3
<1>4. CASE weyve_next_p2p
  <2> DEFINE msg == Head(api.p2p_inbox)
  <2>1. api' = [api EXCEPT !.p2p_inbox = Tail(@), !.p2p = msg,
                           !.loan = Loan(<<"p2p">>, <<msg>>)]
    BY <1>1, <1>4 DEF weyve_next_p2p, NextP2P, ApiFields
  <2> HIDE DEF msg
  <2>2. DOMAIN api' = ApiFields /\ api'.loan = Loan(<<"p2p">>, <<msg>>) /\ api'.p2p = msg
    BY <1>1, <2>1 DEF ApiFields
  <2>3. Content(<<"p2p">>)' = <<msg>>
    BY Zenon, ZenonT(60), <2>2, ContentFacts
  <2> QED BY <2>2, <2>3, LoanTaken
<1>5. ASSUME NEW place \in AccessorPlace, Borrow(place) PROVE LoansHold'
  <2> DEFINE content == Accessor(client[App], place)
  <2>1. /\ DOMAIN api' = ApiFields /\ api'.loan = Loan(place, content)
        /\ client' = client
    BY <1>1, <1>5 DEF Borrow, ApiFields, allvars
  <2>2. Content(place)' = content
    BY <2>1, ContentFacts
  <2> QED BY <2>1, <2>2, LoanTaken
<1>6. ASSUME DOMAIN api' = ApiFields, api'.loan = PollLoan, api'.p2p = api.p2p
      PROVE  LoansHold'
  BY <1>6, LoansKept DEF PollLoan
<1>7. CASE weyve_poll
  BY <1>1, <1>6, <1>7 DEF weyve_poll, ApiFields
<1>8. ASSUME NEW id \in Id, Recv(id) PROVE LoansHold'
  BY <1>1, <1>6, <1>8 DEF Recv, ApiFields
<1>9. CASE PollLost
  BY <1>1, <1>6, <1>9 DEF PollLost, ApiFields
<1>10. CASE weyve_client_destroy
  BY <1>10 DEF weyve_client_destroy, NewApi, LoansHold, ApiFields
<1>11. CASE Others
  <2>1. /\ api' = api /\ Cache(client'[App]) = Cache(client[App])
        /\ client'[App].members = client[App].members
    BY <1>11 DEF AppKept
  <2>2. api'.loan = Expire({})
    BY <2>1 DEF Expire
  <2> QED BY <1>1, <2>1, <2>2, LoansKept
<1> QED BY <1>2, <1>3, <1>4, <1>5, <1>7, <1>8, <1>9, <1>10, <1>11 DEF ApiNext

-----------------------------------------------------------------------------
(***************************************************************************)
(* ClientApi: what the program makes of its events.                        *)
(***************************************************************************)

\* The events of the messages that are handed out.
LEMMA FillFacts ==
    /\ DOMAIN FillEvent = {"Heartbeat", "AssignRoomId", "RoomError", "RoomChat", "PeerJoined",
                           "PeerLeft", "HostChanged", "RoomDataChanged", "MemberDataChanged",
                           "KickedByHost", "BannedByHost", "RoomAccessChanged"}
    /\ FillEvent["Heartbeat"] = "HEARTBEAT" /\ FillEvent["AssignRoomId"] = "ROOM_ID_ASSIGNED"
    /\ FillEvent["RoomError"] = "ROOM_ERROR" /\ FillEvent["RoomChat"] = "CHAT"
    /\ FillEvent["PeerJoined"] = "PEER_JOINED" /\ FillEvent["PeerLeft"] = "PEER_LEFT"
    /\ FillEvent["HostChanged"] = "HOST_CHANGED"
    /\ FillEvent["RoomDataChanged"] = "ROOM_DATA_CHANGED"
    /\ FillEvent["MemberDataChanged"] = "MEMBER_DATA_CHANGED"
    /\ FillEvent["KickedByHost"] = "KICKED" /\ FillEvent["BannedByHost"] = "BANNED"
    /\ FillEvent["RoomAccessChanged"] = "ROOM_ACCESS_CHANGED"
BY DEF FillEvent

\* What CarveServer queues, FillEvent has a case for.
LEMMA SurfacesFills == ASSUME NEW msg \in ServerMessage, Surfaces(msg) PROVE Fills(msg)
BY FillFacts DEF ServerMessage, Surfaces, Fills

\* The program's view says of the room what v says.
Matches(view, v) ==
    view = [room |-> v.room, members |-> v.members, host |-> v.host, open |-> v.open,
            passworded |-> v.passworded, data |-> v.data, member_data |-> v.member_data,
            met |-> view.met]

\* The fields of the program's view.
ViewNames == {"room", "members", "host", "open", "passworded", "data", "member_data", "met"}

\* Following an event keeps the view's fields, and the ids the program was told
\* of; PEER_JOINED adds one.
LEMMA FollowMet ==
    ASSUME NEW view, DOMAIN view = ViewNames, NEW msg, Fills(msg), NEW self
    PROVE  /\ DOMAIN Follow(view, msg, self) = ViewNames
           /\ msg.type = "PeerJoined" => Follow(view, msg, self).met = view.met \cup {msg.id}
           /\ msg.type # "PeerJoined" => Follow(view, msg, self).met = view.met
<1>1. DOMAIN NewView = ViewNames
  BY DEF NewView, ViewNames
<1>2. msg.type \in {"Heartbeat", "AssignRoomId", "RoomError", "RoomChat", "PeerJoined",
                    "PeerLeft", "HostChanged", "RoomDataChanged", "MemberDataChanged",
                    "KickedByHost", "BannedByHost", "RoomAccessChanged"}
  BY FillFacts DEF Fills
<1>3. CASE msg.type = "AssignRoomId"
  BY Zenon, ZenonT(60), <1>1, <1>3, FillFacts DEF Follow, ViewNames
<1>4. CASE msg.type = "PeerLeft"
  BY <1>1, <1>4, FillFacts DEF Follow, ViewNames
<1>5. CASE msg.type = "KickedByHost"
  BY <1>1, <1>5, FillFacts DEF Follow, ViewNames
<1>6. CASE msg.type = "BannedByHost"
  BY <1>1, <1>6, FillFacts DEF Follow, ViewNames
<1>7. CASE msg.type = "PeerJoined"
  BY Zenon, ZenonT(60), <1>1, <1>7, FillFacts DEF Follow, ViewNames
<1>8. CASE msg.type = "HostChanged"
  BY <1>1, <1>8, FillFacts DEF Follow, ViewNames
<1>9. CASE msg.type = "RoomDataChanged"
  BY <1>1, <1>9, FillFacts DEF Follow, ViewNames
<1>10. CASE msg.type = "MemberDataChanged"
  BY <1>1, <1>10, FillFacts DEF Follow, ViewNames
<1>11. CASE msg.type = "RoomAccessChanged"
  BY Zenon, ZenonT(60), <1>1, <1>11, FillFacts DEF Follow, ViewNames
<1>12. CASE msg.type \in {"Heartbeat", "RoomError", "RoomChat"}
  BY <1>12, FillFacts DEF Follow
<1> QED BY <1>2, <1>3, <1>4, <1>5, <1>6, <1>7, <1>8, <1>9, <1>10, <1>11, <1>12

\* The program makes of an event what CacheRoomState makes of its message.
LEMMA FollowApply ==
    ASSUME NEW view, NEW v, Matches(view, v), NEW msg, Fills(msg)
    PROVE  Matches(Follow(view, msg, v.id), Apply(v, msg))
<1> DEFINE new == Follow(view, msg, v.id)
<1>1. PICK met : view = [room |-> v.room, members |-> v.members, host |-> v.host,
                         open |-> v.open, passworded |-> v.passworded, data |-> v.data,
                         member_data |-> v.member_data, met |-> met]
  BY DEF Matches
<1>2. msg.type \in {"Heartbeat", "AssignRoomId", "RoomError", "RoomChat", "PeerJoined",
                    "PeerLeft", "HostChanged", "RoomDataChanged", "MemberDataChanged",
                    "KickedByHost", "BannedByHost", "RoomAccessChanged"}
  BY FillFacts DEF Fills
<1>3. CASE msg.type = "AssignRoomId"
  <2>1. new = [NewView EXCEPT !.room = msg.room, !.members = {v.id}, !.met = view.met]
    BY <1>3, FillFacts DEF Follow
  <2>2. Apply(v, msg) = ViewOf(v.id, msg.room, 0, TRUE, FALSE, {v.id}, EmptyMap, EmptyMap)
    BY <1>3 DEF Apply
  <2> HIDE DEF new
  <2>3. new = [room |-> msg.room, members |-> {v.id}, host |-> 0, open |-> TRUE,
               passworded |-> FALSE, data |-> EmptyMap, member_data |-> EmptyMap,
               met |-> view.met]
    BY Zenon, ZenonT(60), <2>1 DEF NewView
  <2> QED BY <2>2, <2>3 DEF Matches, ViewOf, new
<1>4. CASE msg.type = "PeerJoined"
  <2> DEFINE x == view.members \cup {msg.id}
             y == view.met \cup {msg.id}
  <2>1. new = [view EXCEPT !.members = x, !.met = y]
    BY <1>4, FillFacts DEF Follow
  <2>2. Apply(v, msg) = ViewOf(v.id, v.room, v.host, v.open, v.passworded,
                               v.members \cup {msg.id}, v.data, v.member_data)
    BY <1>4 DEF Apply
  <2>3. x = v.members \cup {msg.id} /\ y = met \cup {msg.id}
    BY <1>1
  <2> HIDE DEF new, x, y
  <2>4. new = [room |-> v.room, members |-> x, host |-> v.host, open |-> v.open,
               passworded |-> v.passworded, data |-> v.data,
               member_data |-> v.member_data, met |-> y]
    BY Zenon, ZenonT(60), <1>1, <2>1
  <2>5. Matches(new, Apply(v, msg))
    BY <2>2, <2>3, <2>4 DEF Matches, ViewOf
  <2> QED BY <2>5 DEF new
<1>5. CASE msg.type = "PeerLeft" /\ msg.id # v.id
  <2> DEFINE x == view.members \ {msg.id}
             y == Drop(view.member_data, msg.id)
  <2>1. new = [view EXCEPT !.members = x, !.member_data = y]
    BY <1>5, FillFacts DEF Follow
  <2>2. Apply(v, msg) = ViewOf(v.id, v.room, v.host, v.open, v.passworded,
                               v.members \ {msg.id}, v.data, Drop(v.member_data, msg.id))
    BY <1>5 DEF Apply
  <2>3. x = v.members \ {msg.id} /\ y = Drop(v.member_data, msg.id)
    BY <1>1
  <2> HIDE DEF new, x, y
  <2>4. new = [room |-> v.room, members |-> x, host |-> v.host, open |-> v.open,
               passworded |-> v.passworded, data |-> v.data, member_data |-> y, met |-> met]
    BY Zenon, ZenonT(60), <1>1, <2>1
  <2>5. Matches(new, Apply(v, msg))
    BY <2>2, <2>3, <2>4 DEF Matches, ViewOf
  <2> QED BY <2>5 DEF new
<1>6. CASE \/ msg.type \in {"KickedByHost", "BannedByHost"}
           \/ msg.type = "PeerLeft" /\ msg.id = v.id
  <2>1. new = [NewView EXCEPT !.met = view.met]
    BY <1>6, FillFacts DEF Follow
  <2>2. Apply(v, msg) = Outside(v.id)
    BY Zenon, ZenonT(60), <1>6 DEF Apply
  <2> HIDE DEF new
  <2>3. new = [room |-> Empty, members |-> {}, host |-> 0, open |-> TRUE,
               passworded |-> FALSE, data |-> EmptyMap,
               member_data |-> EmptyMap, met |-> view.met]
    BY Zenon, ZenonT(60), <2>1 DEF NewView
  <2>4. Matches(new, Apply(v, msg))
    BY <2>2, <2>3 DEF Matches, ViewOf, Outside
  <2> QED BY <2>4 DEF new
<1>7. CASE msg.type = "HostChanged"
  <2>1. new = [view EXCEPT !.host = msg.id]
    BY <1>7, FillFacts DEF Follow
  <2>2. Apply(v, msg) = ViewOf(v.id, v.room, msg.id, v.open, v.passworded, v.members, v.data,
                               v.member_data)
    BY <1>7 DEF Apply
  <2> HIDE DEF new
  <2> QED BY <1>1, <2>1, <2>2 DEF Matches, ViewOf, new
<1>8. CASE msg.type = "RoomAccessChanged"
  <2> DEFINE x == msg.open
             y == msg.passworded
  <2>1. new = [view EXCEPT !.open = x, !.passworded = y]
    BY <1>8, FillFacts DEF Follow
  <2>2. Apply(v, msg) = ViewOf(v.id, v.room, v.host, msg.open, msg.passworded, v.members,
                               v.data, v.member_data)
    BY <1>8 DEF Apply
  <2>3. x = msg.open /\ y = msg.passworded
    BY <1>1
  <2> HIDE DEF new, x, y
  <2>4. new = [room |-> v.room, members |-> v.members, host |-> v.host, open |-> x,
               passworded |-> y, data |-> v.data, member_data |-> v.member_data, met |-> met]
    BY Zenon, ZenonT(60), <1>1, <2>1
  <2>5. Matches(new, Apply(v, msg))
    BY <2>2, <2>3, <2>4 DEF Matches, ViewOf
  <2> QED BY <2>5 DEF new
<1>9. CASE msg.type = "RoomDataChanged"
  <2>1. new = [view EXCEPT !.data = Write(@, msg.key, msg.value)]
    BY <1>9, FillFacts DEF Follow
  <2>2. Apply(v, msg) = ViewOf(v.id, v.room, v.host, v.open, v.passworded, v.members,
                               Write(v.data, msg.key, msg.value), v.member_data)
    BY <1>9 DEF Apply
  <2> HIDE DEF new
  <2> QED BY <1>1, <2>1, <2>2 DEF Matches, ViewOf, new
<1>10. CASE msg.type = "MemberDataChanged"
  <2>1. new = [view EXCEPT !.member_data = StoreMemberData(@, msg.id, msg.key, msg.value)]
    BY <1>10, FillFacts DEF Follow
  <2>2. Apply(v, msg) = ViewOf(v.id, v.room, v.host, v.open, v.passworded, v.members, v.data,
                               StoreMemberData(v.member_data, msg.id, msg.key, msg.value))
    BY <1>10 DEF Apply
  <2> HIDE DEF new
  <2> QED BY <1>1, <2>1, <2>2 DEF Matches, ViewOf, new
<1>11. CASE msg.type \in {"Heartbeat", "RoomError", "RoomChat"}
  <2>1. new = view /\ Apply(v, msg) = v
    BY Zenon, ZenonT(60), <1>11, FillFacts DEF Follow, Apply
  <2> QED BY <2>1
<1> QED BY <1>2, <1>3, <1>4, <1>5, <1>6, <1>7, <1>8, <1>9, <1>10, <1>11

\* An error or an echo changes nothing of the view.
LEMMA FollowUncarved ==
    ASSUME NEW view, NEW msg, Fills(msg), ~Carved(msg), NEW self
    PROVE  Follow(view, msg, self) = view
BY FillFacts DEF Follow, Fills, Carved

\* The events msgs, in order, lead the program from view to w.
Follows(view, msgs, self, w) ==
    \E run : /\ run[0] = view
             /\ run[Len(msgs)] = w
             /\ \A i \in 1..Len(msgs) : run[i] = Follow(run[i - 1], msgs[i], self)

\* No event.
LEMMA FollowsEmpty == \A view, self : Follows(view, <<>>, self, view)
<1> TAKE view, self
<1> DEFINE run == [i \in 0..0 |-> view]
<1>1. run[0] = view /\ Len(<<>>) = 0 /\ \A i \in 1..0 : FALSE
  OBVIOUS
<1> HIDE DEF run
<1> QED BY Zenon, ZenonT(60), <1>1 DEF Follows

\* One more event is queued.
LEMMA FollowsAppend ==
    ASSUME NEW S, NEW view, NEW msgs \in Seq(S), NEW self, NEW w, NEW msg \in S,
           Follows(view, msgs, self, w)
    PROVE  Follows(view, Append(msgs, msg), self, Follow(w, msg, self))
<1> DEFINE n == Len(msgs)
           more == Append(msgs, msg)
           last == Follow(w, msg, self)
<1>1. PICK f : /\ f[0] = view /\ f[n] = w
               /\ \A i \in 1..n : f[i] = Follow(f[i - 1], msgs[i], self)
  BY Zenon, ZenonT(60) DEF Follows
<1> DEFINE run == [i \in 0..(n + 1) |-> IF i = n + 1 THEN last ELSE f[i]]
<1>2. /\ n \in Nat /\ Len(more) = n + 1 /\ more[n + 1] = msg
      /\ \A i \in 1..n : more[i] = msgs[i]
  OBVIOUS
<1> HIDE DEF n, more, last
<1>3. run[0] = view /\ run[n] = w /\ run[n + 1] = last
  BY <1>1, <1>2
<1>4. ASSUME NEW i \in 1..(n + 1) PROVE run[i] = Follow(run[i - 1], more[i], self)
  <2>1. CASE i = n + 1
    <3>1. i - 1 = n
      BY <1>2, <2>1
    <3> HIDE DEF run
    <3> QED BY <1>2, <1>3, <2>1, <3>1 DEF last
  <2>2. CASE i \in 1..n
    <3>1. run[i] = f[i] /\ run[i - 1] = f[i - 1]
      BY <1>2, <2>2
    <3> QED BY <1>1, <1>2, <2>2, <3>1
  <2> QED BY <1>2, <2>1, <2>2
<1> HIDE DEF run
<1>5. Follows(view, more, self, last)
  BY Zenon, ZenonT(60), <1>2, <1>3, <1>4 DEF Follows
<1> QED BY <1>5 DEF more, last

\* weyve_next hands out the first.
LEMMA FollowsTail ==
    ASSUME NEW S, NEW view, NEW msgs \in Seq(S), msgs # <<>>, NEW self, NEW w,
           Follows(view, msgs, self, w)
    PROVE  Follows(Follow(view, Head(msgs), self), Tail(msgs), self, w)
<1> DEFINE n == Len(msgs)
           rest == Tail(msgs)
<1>1. PICK f : /\ f[0] = view /\ f[n] = w
               /\ \A i \in 1..n : f[i] = Follow(f[i - 1], msgs[i], self)
  BY Zenon, ZenonT(60) DEF Follows
<1> DEFINE run == [i \in 0..(n - 1) |-> f[i + 1]]
<1>2. /\ n \in Nat /\ n > 0 /\ Len(rest) = n - 1 /\ Head(msgs) = msgs[1]
      /\ \A i \in 1..(n - 1) : rest[i] = msgs[i + 1]
  OBVIOUS
<1> HIDE DEF n, rest
<1>3. run[0] = f[1] /\ run[n - 1] = w
  BY <1>1, <1>2
<1>4. f[1] = Follow(view, Head(msgs), self)
  BY <1>1, <1>2
<1>5. ASSUME NEW i \in 1..(n - 1) PROVE run[i] = Follow(run[i - 1], rest[i], self)
  <2>1. run[i] = f[i + 1] /\ run[i - 1] = f[i] /\ i + 1 \in 1..n /\ (i + 1) - 1 = i
    BY <1>2
  <2>2. f[i + 1] = Follow(f[i], msgs[i + 1], self)
    BY <1>1, <2>1
  <2> QED BY <1>2, <2>1, <2>2
<1> HIDE DEF run
<1> QED BY Zenon, ZenonT(60), <1>2, <1>3, <1>4, <1>5 DEF Follows, rest

\* Errors and echoes read the same under any id.
LEMMA FollowsSelf ==
    ASSUME NEW view, NEW msgs, NEW self, NEW w, Follows(view, msgs, self, w), NEW other,
           \A i \in 1..Len(msgs) : Fills(msgs[i]) /\ ~Carved(msgs[i])
    PROVE  Follows(view, msgs, other, w)
<1>1. PICK run : /\ run[0] = view /\ run[Len(msgs)] = w
                 /\ \A i \in 1..Len(msgs) : run[i] = Follow(run[i - 1], msgs[i], self)
  BY Zenon, ZenonT(60) DEF Follows
<1>2. \A i \in 1..Len(msgs) : run[i] = Follow(run[i - 1], msgs[i], other)
  BY <1>1, FollowUncarved
<1> QED BY Zenon, ZenonT(60), <1>1, <1>2 DEF Follows

\* What the inbox holds, and what the program makes of it: with every event
\* taken it has App's cache.  Before App has its id only errors and echoes came.
Filling == {msg \in ServerMessage : Fills(msg)}

FollowInv ==
    /\ api.inbox \in Seq(Filling)
    /\ DOMAIN api.view = ViewNames
    /\ client[App].id \in {0, App}
    /\ client[App].id = 0 => /\ Cache(client[App]) = Outside(0)
                             /\ \A i \in 1..Len(api.inbox) : ~Carved(api.inbox[i])
    /\ App >= next_id => api.inbox = <<>> /\ api.view = NewView
    /\ client[App].is_open =>
          \E w : /\ Follows(api.view, api.inbox, client[App].id, w)
                 /\ Matches(w, Cache(client[App]))

\* Whom the program was told of, or will be before its inbox is empty.
Known == api.view.met \cup {msg.id : msg \in {m \in Range(api.inbox) : m.type = "PeerJoined"}}

\* Every other member, and so every sender, is among them.
SenderInv ==
    /\ api.p2p_inbox \in Seq([from : Id, sent : Nat])
    /\ \A datagram \in Range(api.p2p_inbox) : datagram.from \in Known
    /\ Range(client[App].members) \ {client[App].id} \subseteq Known

\* The invariant of the program and what it holds.
AppInv == LoansHold /\ FollowInv /\ SenderInv /\ events \in Nat

\* A program that was handed nothing is in no room.
LEMMA NewViewMatches == \A id : Matches(NewView, Outside(id))
<1> TAKE id
<1> QED BY DEF Matches, NewView, Outside, ViewOf

\* A call or a step of the others that leaves the inbox and App's cache alone.
LEMMA FollowKept ==
    ASSUME AppFacts, FollowInv, api'.inbox = api.inbox, api'.view = api.view,
           Cache(client'[App]) = Cache(client[App]),
           client'[App].is_open => client[App].is_open \/ App >= next_id,
           next_id' \in Nat, next_id' >= next_id
    PROVE  FollowInv'
<1>1. client'[App].id = client[App].id
  BY CacheFields
<1>2. App >= next_id' => App >= next_id
  BY AppAssumption DEF Id, AppFacts
<1>3. ASSUME client'[App].is_open
      PROVE  \E w : /\ Follows(api.view, api.inbox, client[App].id, w)
                    /\ Matches(w, Cache(client[App]))
  <2>1. CASE client[App].is_open
    BY <2>1 DEF FollowInv
  <2>2. CASE App >= next_id
    <3>1. client[App] = NewClient /\ api.inbox = <<>> /\ api.view = NewView
      BY <2>2 DEF AppFacts, FollowInv
    <3>2. Matches(NewView, Cache(client[App]))
      BY <3>1, NewClientGood, NewViewMatches
    <3> QED BY <3>1, <3>2, FollowsEmpty
  <2> QED BY <1>3, <2>1, <2>2
<1> QED BY <1>1, <1>2, <1>3 DEF FollowInv

\* weyve_next takes the first event: FillEvent has a case for each.
LEMMA NextTakesFirst ==
    ASSUME DOMAIN api = ApiFields, api.inbox \in Seq(Filling), weyve_next
    PROVE  /\ api.inbox # <<>>
           /\ api'.inbox = Tail(api.inbox)
           /\ api'.view = Follow(api.view, Head(api.inbox), client[App].id)
           /\ api'.p2p_inbox = api.p2p_inbox
           /\ UNCHANGED allvars
<1> DEFINE s == api.inbox
           filled == {n \in DOMAIN s : Fills(s[n])}
           first == CHOOSE n \in filled : \A i \in filled : n <= i
           rest(n) == SubSeq(s, n + 1, Len(s))
<1>1. s # <<>> /\ UNCHANGED allvars
  BY DEF weyve_next
<1>2. filled = 1..Len(s) /\ Len(s) \in Nat /\ Len(s) >= 1
  BY <1>1 DEF Filling
<1>3. first = 1
  <2>1. 1 \in filled /\ \A i \in filled : 1 <= i /\ i \in Nat
    BY <1>2
  <2> HIDE DEF filled
  <2>2. first \in filled /\ \A i \in filled : first <= i
    BY <2>1
  <2> HIDE DEF first
  <2>3. first <= 1 /\ 1 <= first /\ first \in Nat
    BY <2>1, <2>2
  <2> QED BY <2>3
<1>4. rest(1) = Tail(s) /\ s[1] = Head(s)
  BY <1>1
<1>5. filled # {}
  BY <1>2
<1> DEFINE msg == s[first]
           view == Follow(api.view, msg, client[App].id)
<1>6. api' = [api EXCEPT !.inbox = rest(first), !.event = msg,
                         !.loan = Loan(<<"event">>, <<msg>>), !.view = view]
  BY <1>5 DEF weyve_next, PopEvents, ApiFields
<1> HIDE DEF first, rest, msg, view
<1>7. api'.inbox = rest(first) /\ api'.view = view /\ api'.p2p_inbox = api.p2p_inbox
  BY <1>6 DEF ApiFields
<1>8. api'.inbox = Tail(s)
  BY Zenon, ZenonT(60), <1>3, <1>4, <1>7
<1>9. msg = Head(s)
  BY Zenon, ZenonT(60), <1>3, <1>4 DEF msg
<1> QED BY <1>1, <1>7, <1>8, <1>9 DEF view

\* weyve_next.
LEMMA FollowNext ==
    ASSUME LoansHold, FollowInv, weyve_next
    PROVE  FollowInv'
<1> DEFINE s == api.inbox
           cl == client[App]
<1>1. /\ s # <<>> /\ api'.inbox = Tail(s) /\ UNCHANGED allvars /\ s \in Seq(Filling)
      /\ api'.view = Follow(api.view, Head(s), cl.id)
  BY NextTakesFirst DEF LoansHold, FollowInv
<1>2. client' = client /\ next_id' = next_id
  BY <1>1 DEF allvars, vars
<1>3. /\ Tail(s) \in Seq(Filling) /\ Head(s) \in Filling
      /\ Len(Tail(s)) = Len(s) - 1 /\ Len(s) \in Nat
      /\ \A i \in 1..(Len(s) - 1) : Tail(s)[i] = s[i + 1] /\ i + 1 \in 1..Len(s)
  BY <1>1
<1>4. DOMAIN api'.view = ViewNames
  <2>1. DOMAIN api.view = ViewNames /\ Fills(Head(s))
    BY <1>3 DEF FollowInv, Filling
  <2>2. DOMAIN Follow(api.view, Head(s), cl.id) = ViewNames
    BY Zenon, ZenonT(60), <2>1, FollowMet
  <2> QED BY <1>1, <2>2
<1>5. ~(App >= next_id)
  BY <1>1 DEF FollowInv
<1>6. cl.id = 0 => \A i \in 1..Len(Tail(s)) : ~Carved(Tail(s)[i])
  BY <1>3 DEF FollowInv
<1>7. ASSUME cl.is_open
      PROVE  \E w : Follows(api'.view, api'.inbox, cl.id, w) /\ Matches(w, Cache(cl))
  <2>1. PICK w : Follows(api.view, s, cl.id, w) /\ Matches(w, Cache(cl))
    BY <1>7 DEF FollowInv
  <2>2. Follows(api'.view, Tail(s), cl.id, w)
    BY <1>1, <2>1, FollowsTail
  <2> QED BY <1>1, <2>1, <2>2
<1> HIDE DEF s
<1> QED BY <1>1, <1>2, <1>3, <1>4, <1>5, <1>6, <1>7 DEF FollowInv

\* What a legal message does to the id: AssignClientId gives it, and before it
\* only errors and echoes come.
LEMMA ApplyId ==
    ASSUME NEW c, NEW v, NEW msg \in ServerMessage, Legal(c, v, msg)
    PROVE  /\ Surfaces(msg) => Apply(v, msg).id = v.id
           /\ msg.type = "AssignClientId" =>
                 /\ msg.id = c
                 /\ Apply(v, msg) = ViewOf(c, v.room, v.host, v.open, v.passworded, v.members,
                                           v.data, v.member_data)
           /\ ~Surfaces(msg) /\ msg.type # "AssignClientId" => Apply(v, msg) = v
           /\ v = Outside(0) /\ c # 0 => ~Carved(msg) \/ msg.type = "AssignClientId"
<1>1. msg.type \in {"AssignClientId", "PeerJoined", "PeerLeft", "HostChanged", "RoomChat",
                    "P2PSignal", "IceServers", "Heartbeat", "KickedByHost", "BannedByHost",
                    "AssignRoomId", "RoomError", "RoomAccessChanged", "RoomDataChanged",
                    "MemberDataChanged"}
  BY DEF ServerMessage
<1>2. Surfaces(msg) => Apply(v, msg).id = v.id
  BY <1>1 DEF Surfaces, Apply, Outside, ViewOf
<1>3. msg.type = "AssignClientId" =>
        /\ msg.id = c
        /\ Apply(v, msg) = ViewOf(c, v.room, v.host, v.open, v.passworded, v.members,
                                  v.data, v.member_data)
  BY DEF Legal, Apply
<1>4. ~Surfaces(msg) /\ msg.type # "AssignClientId" => Apply(v, msg) = v
  BY Zenon, ZenonT(60) DEF Surfaces, Apply
<1>5. ASSUME v = Outside(0), c # 0 PROVE ~Carved(msg) \/ msg.type = "AssignClientId"
  <2>1. v.id = 0 /\ v.room = Empty /\ v.members = {}
    BY <1>5 DEF Outside, ViewOf
  <2> QED BY <1>1, <1>5, <2>1 DEF Legal, Carved
<1> QED BY <1>2, <1>3, <1>4, <1>5

\* weyve_poll carves a message, and queues it unless it is consumed inside.
LEMMA FollowPoll ==
    ASSUME AppFacts, LoansHold, FollowInv, weyve_poll, AppCarves
    PROVE  FollowInv'
<1> DEFINE s == api.inbox
           v == Cache(client[App])
           u == Cache(client'[App])
           msg == Head(net[App])
<1>1. /\ App \in Id /\ Poll(App) /\ client[App].is_open /\ UNCHANGED vars
      /\ DOMAIN api = ApiFields
  BY Zenon, ZenonT(60), AppAssumption DEF weyve_poll, Poll, LoansHold
<1>2. /\ msg \in ServerMessage /\ Legal(App, v, msg) /\ u = Apply(v, msg)
      /\ client'[App].is_open
  BY DEF AppCarves
<1>3. /\ api'.view = api.view
      /\ api'.inbox = IF Surfaces(msg) THEN Append(s, msg) ELSE s
  BY <1>1 DEF weyve_poll, ApiFields
<1>4. next_id' = next_id /\ ~(App >= next_id)
  <2>1. client[App] # NewClient
    BY <1>1 DEF NewClient
  <2> QED BY <1>1, <2>1 DEF vars, AppFacts
<1>5. /\ s \in Seq(Filling) /\ DOMAIN api.view = ViewNames /\ v.id \in {0, App}
      /\ v.id = client[App].id /\ u.id = client'[App].id
      /\ v.id = 0 => v = Outside(0) /\ \A i \in 1..Len(s) : ~Carved(s[i])
      /\ App # 0
  <2>1. v.id = client[App].id /\ u.id = client'[App].id
    BY CacheFields
  <2>2. App # 0
    BY <1>1 DEF Id
  <2> QED BY <2>1, <2>2 DEF FollowInv
<1>6. PICK w : Follows(api.view, s, v.id, w) /\ Matches(w, v)
  BY <1>1, <1>5 DEF FollowInv
<1> HIDE DEF v, u, msg, s
<1>7. SUFFICES /\ api'.inbox \in Seq(Filling)
               /\ u.id \in {0, App}
               /\ u.id = 0 => /\ u = Outside(0)
                              /\ \A i \in 1..Len(api'.inbox) : ~Carved(api'.inbox[i])
               /\ \E x : Follows(api.view, api'.inbox, u.id, x) /\ Matches(x, u)
  BY <1>3, <1>4, <1>5 DEF FollowInv, u
<1>8. CASE Surfaces(msg)
  <2>1. Fills(msg) /\ u.id = v.id /\ api'.inbox = Append(s, msg)
    BY <1>2, <1>3, <1>8, SurfacesFills, ApplyId
  <2>2. msg \in Filling
    BY <1>2, <2>1 DEF Filling
  <2>3. Append(s, msg) \in Seq(Filling)
    BY <1>5, <2>2
  <2>4. ASSUME v.id = 0
        PROVE  u = Outside(0) /\ \A i \in 1..Len(Append(s, msg)) : ~Carved(Append(s, msg)[i])
    <3>1. v = Outside(0) /\ \A i \in 1..Len(s) : ~Carved(s[i])
      BY <1>5, <2>4
    <3>2. ~Carved(msg)
      BY <1>2, <1>5, <1>8, <3>1, ApplyId DEF Surfaces
    <3>3. u = v
      BY <1>2, <3>2, ApplyUncarved
    <3>4. /\ Len(Append(s, msg)) = Len(s) + 1 /\ Len(s) \in Nat
          /\ Append(s, msg)[Len(s) + 1] = msg
          /\ \A i \in 1..Len(s) : Append(s, msg)[i] = s[i]
      BY <1>5
    <3>5. \A i \in 1..(Len(s) + 1) : i \in 1..Len(s) \/ i = Len(s) + 1
      BY <3>4
    <3> QED BY <3>1, <3>2, <3>3, <3>4, <3>5
  <2>5. Follows(api.view, Append(s, msg), v.id, Follow(w, msg, v.id))
    BY <1>5, <1>6, <2>2, FollowsAppend
  <2>6. Matches(Follow(w, msg, v.id), u)
    BY <1>2, <1>6, <2>1, FollowApply
  <2> QED BY <1>5, <2>1, <2>3, <2>4, <2>5, <2>6
<1>9. CASE msg.type = "AssignClientId"
  <2>1. /\ ~Surfaces(msg) /\ api'.inbox = s
        /\ u = ViewOf(App, v.room, v.host, v.open, v.passworded, v.members, v.data,
                      v.member_data)
    BY <1>2, <1>3, <1>9, ApplyId DEF Surfaces
  <2>2. u.id = App
    BY <2>1 DEF ViewOf
  <2>3. Matches(w, u)
    BY <1>6, <2>1 DEF Matches, ViewOf
  <2>4. Follows(api.view, s, App, w)
    <3>1. CASE v.id = App
      BY <1>6, <3>1
    <3>2. CASE v.id = 0
      <4>1. \A i \in 1..Len(s) : Fills(s[i]) /\ ~Carved(s[i])
        BY <1>5, <3>2 DEF Filling
      <4> QED BY <1>6, <4>1, FollowsSelf
    <3> QED BY <1>5, <3>1, <3>2
  <2> QED BY <1>5, <2>1, <2>2, <2>3, <2>4
<1>10. CASE ~Surfaces(msg) /\ msg.type # "AssignClientId"
  <2>1. u = v /\ api'.inbox = s
    BY <1>2, <1>3, <1>10, ApplyId
  <2> QED BY <1>5, <1>6, <2>1
<1> QED BY <1>8, <1>9, <1>10

\* A client that has lost its connection follows nothing.
LEMMA FollowLost ==
    ASSUME AppFacts, FollowInv, DisconnectServer(App),
           api' = NewApi \/ (api'.inbox = api.inbox /\ api'.view = api.view)
    PROVE  FollowInv' /\ client'[App].members = <<>>
<1> DEFINE cl == client[App]
           new == [Cleared(cl) EXCEPT !.is_open = FALSE]
<1>1. /\ App \in DOMAIN client /\ GoodClient(cl) /\ cl.is_open
      /\ client' = [client EXCEPT ![App] = new]
  BY DEF AppFacts, DisconnectServer
<1>2. next_id' = next_id /\ ~(App >= next_id)
  <2>1. client[App] # NewClient
    BY <1>1 DEF NewClient
  <2> QED BY <2>1 DEF vars, AppFacts, DisconnectServer
<1>3. GoodClient(Cleared(cl)) /\ Cache(Cleared(cl)) = Outside(cl.id)
  BY <1>1, ClearedFacts
<1>4. Cache(new) = Outside(cl.id) /\ new.is_open = FALSE /\ GoodClient(new)
  BY Zenon, ZenonT(60), <1>3, OpenLinks
<1>5. client'[App] = new
  BY <1>1
<1>6. new.id = cl.id
  <2>1. Outside(cl.id).id = cl.id
    BY DEF Outside, ViewOf
  <2> HIDE DEF new
  <2> QED BY <1>4, <2>1, CacheFields
<1>7. new.members = <<>>
  <2> HIDE DEF new
  <2> QED BY <1>4, OutsideNoRoom DEF NoRoom
<1>8. /\ NewApi.inbox = <<>> /\ NewApi.view = NewView /\ DOMAIN NewView = ViewNames
      /\ <<>> \in Seq(Filling) /\ \A i \in 1..Len(<<>>) : FALSE
  BY DEF NewApi, NewView, ViewNames
<1> HIDE DEF new
<1>9. CASE api' = NewApi
  BY Zenon, ZenonT(60), <1>2, <1>4, <1>5, <1>6, <1>7, <1>8, <1>9 DEF FollowInv
<1>10. CASE api'.inbox = api.inbox /\ api'.view = api.view
  BY <1>2, <1>4, <1>5, <1>6, <1>7, <1>10 DEF FollowInv
<1> QED BY <1>9, <1>10

\* Followed is where the events in the inbox lead.
LEMMA FollowedFacts ==
    ASSUME api.inbox \in Seq(Filling), NEW w, Follows(api.view, api.inbox, client[App].id, w)
    PROVE  Followed = w
<1> DEFINE s == api.inbox
           n == Len(s)
           self == client[App].id
           Rec(f) == f = [i \in 0..n |-> IF i = 0 THEN api.view
                                         ELSE IF Fills(s[i]) THEN Follow(f[i - 1], s[i], self)
                                         ELSE f[i - 1]]
           seen == CHOOSE f : Rec(f)
<1>1. Followed = seen[n]
  BY DEF Followed
<1>2. n \in Nat /\ \A i \in 1..n : Fills(s[i])
  BY DEF Filling
<1>3. PICK run : /\ run[0] = api.view /\ run[n] = w
                 /\ \A i \in 1..n : run[i] = Follow(run[i - 1], s[i], self)
  BY Zenon, ZenonT(60) DEF Follows
<1> HIDE DEF s, n, self
<1>4. Rec(seen)
  <2> DEFINE f == [i \in 0..n |-> run[i]]
  <2>1. ASSUME NEW i \in 0..n
        PROVE  f[i] = IF i = 0 THEN api.view
                      ELSE IF Fills(s[i]) THEN Follow(f[i - 1], s[i], self) ELSE f[i - 1]
    <3>1. CASE i = 0
      BY <1>3, <3>1
    <3>2. CASE i # 0
      <4>1. i \in 1..n /\ f[i] = run[i] /\ f[i - 1] = run[i - 1]
        BY <1>2, <3>2
      <4> QED BY <1>2, <1>3, <3>2, <4>1
    <3> QED BY <3>1, <3>2
  <2>2. f = [i \in 0..n |-> f[i]]
    OBVIOUS
  <2> HIDE DEF f
  <2>3. Rec(f)
    BY <2>1, <2>2
  <2> HIDE DEF Rec
  <2> QED BY <2>3
<1>5. \A i \in 0..n : seen[i] = IF i = 0 THEN api.view
                                ELSE IF Fills(s[i]) THEN Follow(seen[i - 1], s[i], self)
                                ELSE seen[i - 1]
  <2> HIDE DEF seen
  <2> QED BY Zenon, ZenonT(60), <1>4
<1> HIDE DEF seen, Rec
<1> DEFINE T == {i \in Nat : seen[i] = run[i]}
<1>6. 0 \in T
  <2>1. 0 \in 0..n
    BY <1>2
  <2> QED BY <1>3, <1>5, <2>1
<1>7. ASSUME NEW i \in 1..n, i - 1 \in T PROVE i \in T
  <2>1. i \in 0..n /\ i # 0 /\ i \in Nat /\ Fills(s[i]) /\ seen[i - 1] = run[i - 1]
    BY <1>2, <1>7
  <2> QED BY <1>3, <1>5, <2>1
<1> HIDE DEF T
<1>8. n \in T
  <2>1. 0..n \subseteq T
    BY Zenon, ZenonT(60), <1>2, <1>6, <1>7, UpTo
  <2> QED BY <1>2, <2>1
<1> QED BY <1>1, <1>3, <1>8 DEF T

\* Nothing new in the inbox, no new member, and no datagram but of a member.
LEMMA SendersKept ==
    ASSUME SenderInv, api'.inbox = api.inbox, api'.view = api.view,
           client'[App].members = client[App].members, client'[App].id = client[App].id,
           api'.p2p_inbox \in Seq([from : Id, sent : Nat]),
           \A datagram \in Range(api'.p2p_inbox) :
              \/ datagram \in Range(api.p2p_inbox)
              \/ datagram.from \in Range(client[App].members) \ {client[App].id}
    PROVE  SenderInv'
<1>1. Known' = Known
  BY DEF Known
<1> QED BY <1>1 DEF SenderInv

\* weyve_next: what it takes out of the inbox, the program was told.
LEMMA SendersNext ==
    ASSUME LoansHold, FollowInv, SenderInv, weyve_next
    PROVE  SenderInv'
<1> DEFINE s == api.inbox
<1>1. /\ s # <<>> /\ api'.inbox = Tail(s) /\ UNCHANGED allvars /\ s \in Seq(Filling)
      /\ api'.view = Follow(api.view, Head(s), client[App].id)
      /\ api'.p2p_inbox = api.p2p_inbox
  BY NextTakesFirst DEF LoansHold, FollowInv
<1>2. Head(s) \in Filling /\ Range(s) = {Head(s)} \cup Range(Tail(s))
  <2>1. /\ Head(s) \in Filling /\ Head(s) = s[1] /\ Len(s) \in Nat /\ Len(s) >= 1
        /\ DOMAIN s = 1..Len(s) /\ DOMAIN Tail(s) = 1..(Len(s) - 1)
        /\ \A i \in 1..(Len(s) - 1) : Tail(s)[i] = s[i + 1]
    BY <1>1
  <2>2. \A i \in 1..Len(s) : i = 1 \/ (i - 1 \in 1..(Len(s) - 1) /\ (i - 1) + 1 = i)
    BY <2>1
  <2>3. \A i \in 1..(Len(s) - 1) : i + 1 \in 1..Len(s)
    BY <2>1
  <2>4. ASSUME NEW x \in Range(s) PROVE x \in {Head(s)} \cup Range(Tail(s))
    <3>1. PICK i \in 1..Len(s) : x = s[i]
      BY <2>1 DEF Range
    <3>2. CASE i = 1
      BY <2>1, <3>1, <3>2
    <3>3. CASE i # 1
      <4>1. i - 1 \in DOMAIN Tail(s) /\ Tail(s)[i - 1] = x
        BY <2>1, <2>2, <3>1, <3>3
      <4> QED BY Zenon, ZenonT(60), <4>1 DEF Range
    <3> QED BY <3>2, <3>3
  <2>5. ASSUME NEW x \in Range(Tail(s)) PROVE x \in Range(s)
    BY <2>1, <2>3 DEF Range
  <2>6. Head(s) \in Range(s)
    BY <2>1 DEF Range
  <2> QED BY <2>1, <2>4, <2>5, <2>6
<1>3. DOMAIN api.view = ViewNames /\ Fills(Head(s))
  BY <1>2 DEF FollowInv, Filling
<1>4. /\ Head(s).type = "PeerJoined" => api'.view.met = api.view.met \cup {Head(s).id}
      /\ Head(s).type # "PeerJoined" => api'.view.met = api.view.met
  BY <1>1, <1>3, FollowMet
<1> DEFINE ids(S) == {msg.id : msg \in {m \in S : m.type = "PeerJoined"}}
           h == Head(s)
           rest == Range(Tail(s))
<1>5. Known = api.view.met \cup ids({h} \cup rest) /\ Known' = api'.view.met \cup ids(rest)
  BY <1>1, <1>2 DEF Known
<1> HIDE DEF h, rest
<1>6. ids({h} \cup rest) = (IF h.type = "PeerJoined" THEN {h.id} ELSE {}) \cup ids(rest)
  OBVIOUS
<1> HIDE DEF ids
<1>7. Known' = Known
  BY <1>4, <1>5, <1>6 DEF h
<1>8. client' = client
  BY <1>1 DEF allvars
<1> QED BY <1>1, <1>7, <1>8 DEF SenderInv

\* Nobody becomes a member without a PeerJoined, but the client itself.
LEMMA ApplyMembers ==
    ASSUME NEW c, NEW v, NEW msg \in ServerMessage, Legal(c, v, msg)
    PROVE  \A id \in Apply(v, msg).members \ {Apply(v, msg).id} :
              id \in v.members \ {v.id} \/ (msg.type = "PeerJoined" /\ msg.id = id)
<1>1. msg.type \in {"AssignClientId", "PeerJoined", "PeerLeft", "HostChanged", "RoomChat",
                    "P2PSignal", "IceServers", "Heartbeat", "KickedByHost", "BannedByHost",
                    "AssignRoomId", "RoomError", "RoomAccessChanged", "RoomDataChanged",
                    "MemberDataChanged"}
  BY DEF ServerMessage
<1>2. CASE msg.type \in {"AssignClientId", "AssignRoomId", "PeerJoined", "PeerLeft"}
  BY <1>2 DEF Legal, Apply, ViewOf, Outside
<1>3. CASE msg.type \in {"KickedByHost", "BannedByHost", "HostChanged", "RoomAccessChanged",
                         "RoomDataChanged", "MemberDataChanged"}
  BY <1>3 DEF Apply, ViewOf, Outside
<1>4. CASE msg.type \in {"RoomChat", "P2PSignal", "IceServers", "Heartbeat", "RoomError"}
  BY Zenon, ZenonT(60), <1>4 DEF Apply
<1> QED BY <1>1, <1>2, <1>3, <1>4

\* weyve_poll: a member that is new to the cache is announced in the inbox.
LEMMA SendersPoll ==
    ASSUME LoansHold, FollowInv, SenderInv, weyve_poll, AppCarves
    PROVE  SenderInv'
<1> DEFINE s == api.inbox
           v == Cache(client[App])
           u == Cache(client'[App])
           msg == Head(net[App])
<1>1. App \in Id /\ Poll(App) /\ DOMAIN api = ApiFields /\ s \in Seq(Filling)
  BY AppAssumption DEF weyve_poll, LoansHold, FollowInv
<1>2. msg \in ServerMessage /\ Legal(App, v, msg) /\ u = Apply(v, msg)
  BY DEF AppCarves
<1>3. /\ api'.view = api.view /\ api'.p2p_inbox = api.p2p_inbox
      /\ api'.inbox = IF Surfaces(msg) THEN Append(s, msg) ELSE s
  BY <1>1 DEF weyve_poll, ApiFields
<1>4. /\ v.id = client[App].id /\ u.id = client'[App].id
      /\ v.members = Range(client[App].members) /\ u.members = Range(client'[App].members)
  BY CacheFields
<1> HIDE DEF v, u, msg
<1>5. /\ Range(s) \subseteq Range(api'.inbox)
      /\ msg.type = "PeerJoined" => msg \in Range(api'.inbox)
  <2>1. CASE Surfaces(msg)
    <3>1. Fills(msg) /\ msg \in Filling
      BY <1>2, <2>1, SurfacesFills DEF Filling
    <3>2. /\ DOMAIN s = 1..Len(s) /\ Len(s) \in Nat
          /\ DOMAIN Append(s, msg) = 1..(Len(s) + 1)
          /\ Append(s, msg)[Len(s) + 1] = msg
          /\ \A i \in 1..Len(s) : Append(s, msg)[i] = s[i] /\ i \in 1..(Len(s) + 1)
          /\ Len(s) + 1 \in 1..(Len(s) + 1)
      BY <1>1, <3>1
    <3>3. Range(s) \subseteq Range(Append(s, msg)) /\ msg \in Range(Append(s, msg))
      BY <3>2 DEF Range
    <3> QED BY <1>3, <2>1, <3>3
  <2>2. CASE ~Surfaces(msg)
    BY <1>3, <2>2 DEF Surfaces
  <2> QED BY <2>1, <2>2
<1> HIDE DEF s
<1>6. Known \subseteq Known' /\ (msg.type = "PeerJoined" => msg.id \in Known')
  BY <1>3, <1>5 DEF Known, s
<1>7. \A id \in u.members \ {u.id} : id \in Known'
  <2> TAKE id \in u.members \ {u.id}
  <2>1. id \in v.members \ {v.id} \/ (msg.type = "PeerJoined" /\ msg.id = id)
    BY <1>2, ApplyMembers
  <2>2. v.members \ {v.id} \subseteq Known
    BY <1>4 DEF SenderInv
  <2> QED BY <1>6, <2>1, <2>2
<1> QED BY <1>3, <1>4, <1>6, <1>7 DEF SenderInv

\* Every step keeps the program's invariant, if its client carves what it is in
\* the state for, and if the others leave its cache alone.
LEMMA AppInvNext ==
    ASSUME AppFacts, AppInv, [ApiNext]_apivars, Poll(App) => AppCarves, Others => AppKept
    PROVE  AppInv'
<1> DEFINE cl == client[App]
           Packet == [from : Id, sent : Nat]
<1>1. /\ LoansHold /\ FollowInv /\ SenderInv /\ events \in Nat
      /\ DOMAIN api = ApiFields /\ App \in Id /\ GoodClient(cl) /\ api.p2p_inbox \in Seq(Packet)
  BY AppAssumption DEF AppInv, LoansHold, AppFacts, SenderInv
<1>2. LoansHold'
  BY <1>1, LoansNext
<1>3. next_id \in Nat
  BY DEF AppFacts
<1>4. ASSUME UNCHANGED <<vars, net, client>>, events' \in Nat, api'.inbox = api.inbox,
             api'.view = api.view, api'.p2p_inbox \in Seq(Packet),
             \A datagram \in Range(api'.p2p_inbox) :
                datagram \in Range(api.p2p_inbox) \/ datagram.from \in Range(cl.members) \ {cl.id}
      PROVE  AppInv'
  <2>1. client' = client /\ next_id' = next_id
    BY <1>4 DEF vars
  <2>2. FollowInv'
    BY <1>1, <1>3, <1>4, <2>1, FollowKept
  <2>3. SenderInv'
    BY <1>1, <1>4, <2>1, SendersKept
  <2> QED BY <1>2, <1>4, <2>2, <2>3 DEF AppInv
<1>5. CASE UNCHANGED apivars
  BY <1>1, <1>4, <1>5 DEF apivars, allvars
<1>6. CASE weyve_next
  <2>1. UNCHANGED allvars
    BY <1>6 DEF weyve_next
  <2>2. events' \in Nat
    BY <1>1, <2>1 DEF allvars
  <2> QED BY <1>1, <1>2, <1>6, <2>2, FollowNext, SendersNext DEF AppInv
<1>7. CASE weyve_next_p2p
  <2> DEFINE s == api.p2p_inbox
             d == Head(s)
             loan == Loan(<<"p2p">>, <<d>>)
  <2>1. /\ s # <<>> /\ UNCHANGED allvars
        /\ api' = [api EXCEPT !.p2p_inbox = Tail(s), !.p2p = d, !.loan = loan]
    BY <1>1, <1>7 DEF weyve_next_p2p, NextP2P, ApiFields
  <2> HIDE DEF d, loan
  <2>2. api'.inbox = api.inbox /\ api'.view = api.view /\ api'.p2p_inbox = Tail(s)
    BY <1>1, <2>1 DEF ApiFields
  <2>3. Tail(s) \in Seq(Packet) /\ Range(Tail(s)) \subseteq Range(s)
    <3>1. /\ DOMAIN s = 1..Len(s) /\ Len(s) \in Nat /\ DOMAIN Tail(s) = 1..(Len(s) - 1)
          /\ \A i \in 1..(Len(s) - 1) : Tail(s)[i] = s[i + 1] /\ i + 1 \in 1..Len(s)
      BY <1>1, <2>1
    <3>2. Range(Tail(s)) \subseteq Range(s)
      BY <3>1 DEF Range
    <3> QED BY <1>1, <2>1, <3>2
  <2> QED BY <1>1, <1>4, <2>1, <2>2, <2>3 DEF allvars
<1>8. ASSUME NEW place \in AccessorPlace, Borrow(place) PROVE AppInv'
  <2>1. /\ UNCHANGED allvars /\ api'.inbox = api.inbox /\ api'.view = api.view
        /\ api'.p2p_inbox = api.p2p_inbox
    BY <1>1, <1>8 DEF Borrow, ApiFields
  <2> QED BY <1>1, <1>4, <2>1 DEF allvars
<1>9. CASE weyve_poll
  <2>1. Poll(App) /\ events' = events
    BY Zenon, ZenonT(60), <1>9 DEF weyve_poll, Poll
  <2>2. AppCarves
    BY <2>1
  <2> QED BY <1>1, <1>2, <1>9, <2>1, <2>2, FollowPoll, SendersPoll DEF AppInv
<1>10. ASSUME NEW id \in Id, Recv(id) PROVE AppInv'
  <2> DEFINE s == api.p2p_inbox
             d == Datagram(id)
  <2>1. /\ UNCHANGED <<vars, net, client>> /\ id \in cl.links /\ events' \in Nat
        /\ api'.inbox = api.inbox /\ api'.view = api.view /\ api'.p2p_inbox = Append(s, d)
    BY <1>1, <1>10 DEF Recv, Count, ApiFields
  <2>2. d \in Packet /\ d.from = id /\ id \in Range(cl.members) \ {cl.id}
    BY <1>1, <2>1 DEF Datagram, GoodClient
  <2> HIDE DEF d
  <2>3. Append(s, d) \in Seq(Packet) /\ Range(Append(s, d)) \subseteq Range(s) \cup {d}
    <3>1. /\ DOMAIN s = 1..Len(s) /\ Len(s) \in Nat /\ DOMAIN Append(s, d) = 1..(Len(s) + 1)
          /\ Append(s, d)[Len(s) + 1] = d
          /\ \A i \in 1..Len(s) : Append(s, d)[i] = s[i]
      BY <1>1, <2>2
    <3>2. \A i \in 1..(Len(s) + 1) : i \in 1..Len(s) \/ i = Len(s) + 1
      BY <3>1
    <3>3. Range(Append(s, d)) \subseteq Range(s) \cup {d}
      BY <3>1, <3>2 DEF Range
    <3> QED BY <1>1, <2>2, <3>3
  <2> QED BY <1>4, <2>1, <2>2, <2>3
<1>11. CASE PollLost \/ weyve_client_destroy
  <2>1. DisconnectServer(App) /\ events' \in Nat
    BY <1>1, <1>11 DEF PollLost, weyve_client_destroy, DisconnectServer, Count
  <2>3. \/ api' = NewApi
        \/ /\ api'.inbox = api.inbox /\ api'.view = api.view
           /\ api'.p2p_inbox = api.p2p_inbox
    BY <1>1, <1>11 DEF PollLost, weyve_client_destroy, ApiFields
  <2>4. FollowInv' /\ client'[App].members = <<>>
    BY <1>1, <2>1, <2>3, FollowLost
  <2>5. Range(client'[App].members) = {}
    BY <2>4 DEF Range
  <2>6. SenderInv'
    <3>1. CASE api' = NewApi
      <4>1. api'.p2p_inbox = <<>>
        BY <3>1 DEF NewApi
      <4>2. <<>> \in Seq(Packet) /\ Range(<<>>) = {}
        BY DEF Range
      <4> QED BY <2>5, <4>1, <4>2 DEF SenderInv
    <3>2. CASE /\ api'.inbox = api.inbox /\ api'.view = api.view
               /\ api'.p2p_inbox = api.p2p_inbox
      <4>1. Known' = Known
        BY <3>2 DEF Known
      <4> QED BY <1>1, <2>5, <3>2, <4>1 DEF SenderInv
    <3> QED BY <2>3, <3>1, <3>2
  <2> QED BY <1>2, <2>1, <2>4, <2>6 DEF AppInv
<1>12. CASE Others
  <2>1. /\ api' = api /\ Cache(client'[App]) = Cache(cl)
        /\ client'[App].members = cl.members
        /\ client'[App].is_open => cl.is_open \/ App >= next_id
        /\ next_id' >= next_id /\ next_id' \in Nat
    BY <1>12 DEF AppKept
  <2>2. FollowInv'
    BY <1>1, <1>3, <2>1, FollowKept
  <2>3. client'[App].id = cl.id
    BY <2>1, CacheFields
  <2>4. SenderInv'
    BY <1>1, <2>1, <2>3, SendersKept
  <2>5. events' \in Nat
    BY <1>1, <1>12 DEF Others, ConnectStep, RequestStep, Poll, DisconnectServer, SendP2P,
                       LinkFailed, Count
  <2> QED BY <1>2, <2>1, <2>2, <2>4, <2>5 DEF AppInv
<1> QED BY <1>5, <1>6, <1>7, <1>8, <1>9, <1>10, <1>11, <1>12 DEF ApiNext

\* weyve_client_create, before anyone has connected.
LEMMA AppInvInit == ASSUME ApiInit PROVE AppInv
<1>1. events \in Nat /\ client[App] = NewClient
  BY AppAssumption DEF ApiInit, MirrorInit
<1>2. /\ api.inbox = <<>> /\ api.p2p_inbox = <<>> /\ api.loan = {} /\ api.view = NewView
      /\ DOMAIN api = ApiFields
  BY DEF ApiInit, NewApi, ApiFields
<1>3. LoansHold
  BY <1>2 DEF LoansHold
<1>4. /\ NewClient.id = 0 /\ NewClient.is_open = FALSE /\ NewClient.members = <<>>
      /\ DOMAIN NewView = ViewNames
  BY DEF NewClient, NewView, ViewNames
<1>5. <<>> \in Seq(Filling) /\ \A i \in 1..Len(<<>>) : FALSE
  OBVIOUS
<1>6. FollowInv
  BY <1>1, <1>2, <1>4, <1>5, NewClientGood DEF FollowInv
<1>7. <<>> \in Seq([from : Id, sent : Nat]) /\ Range(<<>>) = {}
  BY DEF Range
<1>8. SenderInv
  BY <1>1, <1>2, <1>4, <1>7 DEF SenderInv
<1> QED BY <1>1, <1>3, <1>6, <1>8 DEF AppInv

\* What the program makes of the events it has not taken yet.
LEMMA AppInvSuffices == ASSUME AppInv PROVE EventsSuffice
<1> SUFFICES ASSUME client[App].is_open
             PROVE  LET cl == client[App]
                    IN  Followed = [room |-> cl.room, members |-> Range(cl.members),
                                    host |-> cl.host, open |-> cl.open,
                                    passworded |-> cl.passworded, data |-> cl.data,
                                    member_data |-> cl.member_data, met |-> Followed.met]
  BY DEF EventsSuffice
<1>1. PICK w : /\ Follows(api.view, api.inbox, client[App].id, w)
               /\ Matches(w, Cache(client[App]))
  BY DEF AppInv, FollowInv
<1>2. Followed = w
  BY <1>1, FollowedFacts DEF AppInv, FollowInv
<1> QED BY <1>1, <1>2, CacheFields DEF Matches

=============================================================================
