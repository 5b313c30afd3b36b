------------------------------ MODULE ClientApi ------------------------------
(***************************************************************************)
(* The C interface of Client/src/weyvelength.cpp, used by the program of   *)
(* one client, App, of the system in RoomMirror: the queues behind         *)
(* weyve_next and weyve_next_p2p, the scratch storage the pointers they    *)
(* return point into, and the pointers of the accessors into the cache.    *)
(*                                                                         *)
(* The program is a loop over weyve_poll and the other calls, in any order *)
(* and as often as it likes.  Its requests are the ones of RequestStep: no *)
(* request touches what is modelled here.  As in RoomMirror, a step of     *)
(* weyve_poll handles one message or one libjuice event.                   *)
(***************************************************************************)
EXTENDS RoomMirror

CONSTANT App   \* the client whose program is modelled

ASSUME AppAssumption == App \in Id

VARIABLE api   \* WeyveClient, without its cache, and what its program holds

apivars == <<allvars, api>>

-----------------------------------------------------------------------------

None == [type |-> "none"]

\* What the program makes of the events it is handed.  met: the clients it was
\* ever told of.
NewView ==
    [room |-> Empty, members |-> {}, host |-> 0, open |-> TRUE, passworded |-> FALSE,
     data |-> EmptyMap, member_data |-> EmptyMap, met |-> {}]

\* weyve_client_create
NewApi ==
    [inbox |-> <<>>, event |-> None, p2p_inbox |-> <<>>, p2p |-> None,
     loan |-> {}, view |-> NewView]

\* Mutant: RoomAccessChanged has no case in FillEvent.
FillEventNoAccess ==
    [Heartbeat |-> "HEARTBEAT", AssignRoomId |-> "ROOM_ID_ASSIGNED",
     RoomError |-> "ROOM_ERROR", RoomChat |-> "CHAT", PeerJoined |-> "PEER_JOINED",
     PeerLeft |-> "PEER_LEFT", HostChanged |-> "HOST_CHANGED",
     RoomDataChanged |-> "ROOM_DATA_CHANGED", MemberDataChanged |-> "MEMBER_DATA_CHANGED",
     KickedByHost |-> "KICKED", BannedByHost |-> "BANNED"]

\* The event a message becomes; false, and skipped, for any other.
FillEvent ==
    [Heartbeat |-> "HEARTBEAT", AssignRoomId |-> "ROOM_ID_ASSIGNED",
     RoomError |-> "ROOM_ERROR", RoomChat |-> "CHAT", PeerJoined |-> "PEER_JOINED",
     PeerLeft |-> "PEER_LEFT", HostChanged |-> "HOST_CHANGED",
     RoomDataChanged |-> "ROOM_DATA_CHANGED", MemberDataChanged |-> "MEMBER_DATA_CHANGED",
     KickedByHost |-> "KICKED", BannedByHost |-> "BANNED",
     RoomAccessChanged |-> "ROOM_ACCESS_CHANGED"]

Fills(msg) == msg.type \in DOMAIN FillEvent

\* A program that follows the room by the comments on WeyveEventType alone; it
\* knows its own id from weyve_id.
Follow(view, msg, self) ==
    LET event == FillEvent[msg.type]
    IN  CASE event = "ROOM_ID_ASSIGNED" ->
                [NewView EXCEPT !.room = msg.room, !.members = {self}, !.met = view.met]
          [] event = "PEER_JOINED" ->
                [view EXCEPT !.members = @ \cup {msg.id}, !.met = @ \cup {msg.id}]
          [] event = "PEER_LEFT" /\ msg.id # self ->
                [view EXCEPT !.members = @ \ {msg.id}, !.member_data = Drop(@, msg.id)]
          [] event = "HOST_CHANGED" -> [view EXCEPT !.host = msg.id]
          [] event = "ROOM_ACCESS_CHANGED" ->
                [view EXCEPT !.open = msg.open, !.passworded = msg.passworded]
          [] event = "ROOM_DATA_CHANGED" ->
                [view EXCEPT !.data = Write(@, msg.key, msg.value)]
          [] event = "MEMBER_DATA_CHANGED" ->
                [view EXCEPT !.member_data = StoreMemberData(@, msg.id, msg.key, msg.value)]
          [] event \in {"KICKED", "BANNED"} \/ (event = "PEER_LEFT" /\ msg.id = self) ->
                [NewView EXCEPT !.met = view.met]
          [] OTHER -> view

-----------------------------------------------------------------------------
(***************************************************************************)
(* Borrowed storage.  A loan is what a pointer that the program holds      *)
(* points into, and what it read there.  One is enough to follow.          *)
(***************************************************************************)

\* map.find(k): the value, or nothing.
Find(f, k) == IF k \in DOMAIN f THEN <<f[k]>> ELSE <<>>

\* The key at an index, or nothing beyond the last.
KeyAt(f, index) ==
    IF index >= Cardinality(DOMAIN f) THEN <<>> ELSE <<Listing(DOMAIN f)[index + 1]>>

\* MemberData(id): a member without data has none of the keys.
MemberDataOf(cl, id) ==
    IF id \in DOMAIN cl.member_data THEN cl.member_data[id] ELSE EmptyMap

\* The accessors: what is at a place of the cache; nothing for a null pointer.
Accessor(cl, place) ==
    CASE place[1] = "room_id" -> <<cl.room>>
      [] place[1] = "members" -> cl.members
      [] place[1] = "room_data" -> Find(cl.data, place[2])
      [] place[1] = "room_data_key_at" -> KeyAt(cl.data, place[2])
      [] place[1] = "member_data" -> Find(MemberDataOf(cl, place[2]), place[3])
      [] place[1] = "member_data_key_at" -> KeyAt(MemberDataOf(cl, place[2]), place[3])

AccessorPlace ==
    {<<"room_id">>, <<"members">>}
    \cup ({"room_data"} \X Key) \cup ({"member_data"} \X Id \X Key)
    \cup ({"room_data_key_at"} \X (0 .. max_room_data_keys - 1))
    \cup ({"member_data_key_at"} \X Id \X (0 .. max_member_data_keys - 1))

\* What a pointer reads.
Content(place) ==
    CASE place = <<"event">> -> <<api.event>>
      [] place = <<"p2p">> -> <<api.p2p>>
      [] OTHER -> Accessor(client[App], place)

Loan(place, content) == {[place |-> place, content |-> content]}

\* The loan that is left when the pointers into some places expire.
Expire(places) == {loan \in api.loan : loan.place \notin places}

-----------------------------------------------------------------------------
(***************************************************************************)
(* The calls.                                                              *)
(***************************************************************************)

\* Client::Next, n times.
PopEvents(a, n) ==
    [a EXCEPT !.inbox = SubSeq(@, n + 1, Len(@)), !.event = a.inbox[n]]

\* Next until FillEvent succeeds or the inbox is empty.
weyve_next ==
    LET filled == {n \in DOMAIN api.inbox : Fills(api.inbox[n])}
        first == CHOOSE n \in filled : \A i \in filled : n <= i
    IN  /\ api.inbox # <<>>
        /\ api' = IF filled = {}
                  THEN [PopEvents(api, Len(api.inbox)) EXCEPT !.loan = Expire({<<"event">>})]
                  ELSE [PopEvents(api, first) EXCEPT
                           !.loan = Loan(<<"event">>, <<api.inbox[first]>>),
                           !.view = Follow(@, api.inbox[first], client[App].id)]
        /\ UNCHANGED allvars

NextP2P(a) == [a EXCEPT !.p2p_inbox = Tail(@), !.p2p = Head(a.p2p_inbox)]

weyve_next_p2p ==
    /\ api.p2p_inbox # <<>>
    /\ api' = [NextP2P(api) EXCEPT !.loan = Loan(<<"p2p">>, <<Head(api.p2p_inbox)>>)]
    /\ UNCHANGED allvars

\* weyve_room_id, weyve_members, weyve_room_data, weyve_member_data, the keys.
Borrow(place) ==
    /\ Accessor(client[App], place) # <<>>
    /\ api' = [api EXCEPT !.loan = Loan(place, Accessor(client[App], place))]
    /\ UNCHANGED allvars

\* weyve_poll ends the loans of the accessors and of the last event.
PollLoan == Expire(AccessorPlace \cup {<<"event">>})

\* CarveServer: what is not consumed inside is queued, after it was cached.
Surfaces(msg) == msg.type \notin {"AssignClientId", "IceServers", "P2PSignal"}

weyve_poll ==
    /\ Poll(App)
    /\ api' = [api EXCEPT !.loan = PollLoan,
                          !.inbox = IF Surfaces(Head(net[App])) THEN Append(@, Head(net[App]))
                                    ELSE @]

\* Datagrams differ: one is told from another by when it came.
Datagram(id) == [from |-> id, sent |-> events]

\* Mutant: PollPeers puts the datagram where weyve_next_p2p hands it out.
RecvInPlace(id) ==
    /\ client[App].is_open
    /\ id \in client[App].links
    /\ api' = [api EXCEPT !.loan = PollLoan, !.p2p_inbox = Append(@, Datagram(id)),
                          !.p2p = Datagram(id)]
    /\ Count
    /\ UNCHANGED <<vars, net, client>>

\* weyve_poll, its PollPeers: a datagram that a link received.
Recv(id) ==
    /\ client[App].is_open
    /\ id \in client[App].links
    /\ api' = [api EXCEPT !.loan = PollLoan, !.p2p_inbox = Append(@, Datagram(id))]
    /\ Count
    /\ UNCHANGED <<vars, net, client>>

\* weyve_poll, when the connection is found lost.
PollLost ==
    /\ DisconnectServer(App)
    /\ api' = [api EXCEPT !.loan = PollLoan]

weyve_client_destroy ==
    /\ DisconnectServer(App)
    /\ api' = NewApi

ApiInit ==
    /\ MirrorInit
    /\ api = NewApi

\* Everything else: the server, and the other clients.
Others ==
    /\ \/ ConnectStep
       \/ RequestStep
       \/ \E c \in Id \ {App} : Poll(c) \/ DisconnectServer(c)
       \/ \E c, id \in Id : SendP2P(c, id) \/ LinkFailed(c, id)
    /\ UNCHANGED api

ApiNext ==
    \/ weyve_next
    \/ weyve_next_p2p
    \/ \E place \in AccessorPlace : Borrow(place)
    \/ weyve_poll
    \/ \E id \in Id : Recv(id)
    \/ PollLost
    \/ weyve_client_destroy
    \/ Others

ApiSpec == ApiInit /\ [][ApiNext]_apivars

-----------------------------------------------------------------------------
(***************************************************************************)
(* Properties.                                                             *)
(***************************************************************************)

\* weyvelength.h on every pointer it hands out, "valid until the next ...":
\* until the call that ends its loan, what a pointer points into reads as it
\* did, whatever other calls the program makes and whatever arrives.
BorrowedIntact ==
    \A loan \in api.loan : Content(loan.place) = loan.content

\* The program's view once it has taken every event in the inbox.
Followed ==
    LET seen[i \in 0..Len(api.inbox)] ==
            IF i = 0 THEN api.view
            ELSE IF Fills(api.inbox[i])
                 THEN Follow(seen[i - 1], api.inbox[i], client[App].id)
                 ELSE seen[i - 1]
    IN  seen[Len(api.inbox)]

\* CacheRoomState's "the accessors are already current when Next() hands the
\* event to the app", and "exactly the server messages the client surfaces":
\* a program that follows the room by its events alone arrives, when
\* weyve_next returns false, at exactly what the accessors say.
EventsSuffice ==
    client[App].is_open =>
        LET cl == client[App]
        IN  Followed = [room |-> cl.room, members |-> Range(cl.members), host |-> cl.host,
                        open |-> cl.open, passworded |-> cl.passworded, data |-> cl.data,
                        member_data |-> cl.member_data, met |-> Followed.met]

\* A program that takes its events before its datagrams is never handed a
\* datagram of someone it was not told of: what waits in the two queues keeps
\* the order of joining and sending, though they come by different routes.
SendersAnnounced ==
    {datagram.from : datagram \in Range(api.p2p_inbox)} \subseteq
        api.view.met \cup {msg.id : msg \in {m \in Range(api.inbox) : m.type = "PeerJoined"}}

=============================================================================
