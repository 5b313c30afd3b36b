# Verification of Weyvelength

TLA+ models of the Weyvelength room server, its client library and the
peer-to-peer mesh between clients, with TLC runs and TLAPS proofs.
`PROJECT.json` holds the machine-readable index: which definition models which
lines, the runs, the mutants that show each property can fail, the hazards and
the theorems.

## The system

| part | code | state | operations |
|---|---|---|---|
| room service | `Server/src/weyvelength_server.cpp` | `_next_id`, `_connections` (with `conn->room`), `_rooms` | accept, end of a session, thirteen requests, `LeaveRoom` |
| connection | `Shared/framing.h`, `ReadLoop`/`WriteLoop`/`Enqueue`, `DrainServer`/`CarveServer`/`FlushServer` | `out`, `wake`, `closing`, `body`; `rx`, `rx_msg`, `tx` | frame, write, wake, drain, carve, flush, close |
| client mirror | `Client/src/client.cpp` | `_id`, `_room`, `_host`, `_members`, `_data`, `_member_data`, access flags | `CacheRoomState`, `ClearRoomState`, `DisconnectServer` |
| mesh | `Client/src/p2p_mesh.cpp` | `links` (agent, `remote_set`, `connected`, `outbox`), `attempts`, `events`, `scratch` | `SendP2P`, `HandleP2PSignal`, `PollPeers`, libjuice's callbacks |
| C interface | `Client/src/weyvelength.cpp`, `marshal.h`, `Next`, `NextP2P` | `_inbox`, `_p2p_inbox`, the last event and datagram handed out, and the pointers a program holds | `weyve_poll`, `weyve_next`, `weyve_next_p2p`, the accessors |
| server start | `Server/src/main.cpp`, `Init`, `Run`, `Stop` | none | |

Clients talk to the server over one TCP connection each.  The server keeps the
rooms and tells members about every change; a client mirrors its room from
these events alone.  Members may also open direct links (ICE, by libjuice),
whose signalling the server relays.  The server is one thread: handlers run to
completion and the coroutines of a session suspend only on the socket and on
the `wake` timer.  A client is driven by its program, which calls requests and
`Poll`; libjuice calls back on a thread of its own and only queues events.

What is hard here, and hard to test: two records of who is in a room that every
exit has to keep equal; a host that leaves, hands over and is succeeded; a join
whose replay of the room shares a queue with live events; descriptions that
cross each other, a departure or a redial; events of agents that no longer
exist; links whose peer lost the server; pointers into storage that the next call
may overwrite; a byte stream cut anywhere; a wakeup that could be lost.  `PROJECT.json`
lists each of these at its line.

## Modules

| module | models | composes |
|---|---|---|
| `Membership` | what the room service promises about membership | |
| `RoomServer` | the room service, every request handler | implements `Membership` |
| `MapProofs` | what the containers do, proved: vectors without repetitions, maps | `RoomServer` |
| `RoomServerProofs` | its invariants, the types and sizes of what it sends, the refinement and who changes a room, proved | `MapProofs` |
| `RoomMirror` | the clients' caches and the events in flight | `RoomServer` |
| `ClientApi` | the C interface, used by the program of one client | `RoomMirror` |
| `ViewProofs` | what `CacheRoomState` makes of events, one by one and in a row, proved | `ClientApi`, `MapProofs` |
| `ApiProofs` | what the calls of the C interface preserve, proved | `ViewProofs` |
| `EventProofs` | that what each handler sends adds up to what it did, proved | `ViewProofs`, `RoomServerProofs` |
| `MirrorProofs` | the safety properties of the mirror and of the C interface, proved | `EventProofs`, `ApiProofs` |
| `P2PMesh` | the mesh between two members, with the relay | |
| `P2PMeshProofs` | its safety properties, proved | `P2PMesh` |
| `FifoChannel` | what one direction of a connection promises | |
| `Connection` | one connection in bytes | implements `FifoChannel` |
| `ConnectionProofs` | what `FrameMessage` makes of a message and a reader of the stream; its safety properties and the refinement, proved | `Connection` |
| `MCRoomServer`, `MCRoomMirror`, `MCClientApi`, `MCP2PMesh` | instances for TLC | |

**RoomServer.**  An action is a whole handler with every send and `LeaveRoom` it
makes.  `connections` maps an id to `conn->room`; `rooms` maps a code to the
fields of `Room`; `sent` is what the step appends to each connection's queue.
`AcceptLoop` and the start of `Session` are two steps, as `co_spawn` posts the
coroutine.  Requests are inputs: any client may send any request whenever its
session is reading.  Strings are members of small sets with a size; the caps of
`protocol.h` are constants.  `sent` is a function of the step, so two messages to
one client keep their order, and two clients' queues are independent, as in the
code.  `Erase` is `std::erase` on a vector without repetitions; `MCRoomServer`
compares it with the library's `Remove`.  `Listing` is the order in which a map is
walked, any one.  `EncodedSize` is what zpp_bits makes of a
data message: a byte for the variant, four for an id, four before each string.

**Membership.**  Who is in which room, who joined before whom, who hosts and who is
barred, in one variable and five actions.  It knows neither requests nor errors nor the
second record in `conn->room`.  The refinement mapping `Parties` reads it off `_rooms`:
the order of the vector `members` is the order of joining, and a room without an entry
is empty.

**RoomMirror.**  Extends `RoomServer` with a queue `net[c]` per client (all of
`conn->out`, the socket and `rx`) and the client's cache.  That a connection is
such a queue is what `Connection` shows.  A `Poll` here handles one message, so
that requests of others fall between any two messages.  Links are reduced to the
set of peers; their life is `P2PMesh`'s subject.  Errors, echoes and `IceServers` are not
queued (`Kept`): they change no cache, and a handler sends them last.

**ClientApi.**  Adds, for the client `App`, the two queues behind `weyve_next` and
`weyve_next_p2p` and the scratch of `WeyveClient`.  A *loan* is a pointer the program
holds: the place it points into and what it read there.  It ends with the call that the
comment in `weyvelength.h` names.  The model follows one loan at a time, any one, which is enough
because loans do not affect each other.  `view` is a program that follows the room by
events alone.  Places are fields: a call that writes a field ends what was borrowed from
it, and storage that moves without changing is not seen.

**P2PMesh.**  Two clients in a room and the server's relay.  `Poll` has three
parts: carve messages, swap the queued callbacks into `scratch`, handle them; the
program's own calls happen only outside `Poll`.  libjuice is external: an agent may
report CONNECTED when it and its counterpart hold each other's descriptions, and
may fail in the ways named in `Faults`.  Two ghosts, which no action reads, give
agents an identity (`gen`) and say whether a description answers another
(`answer`); the code has neither.  CONNECTED and COMPLETED are one state: the
code treats them alike.  Candidates carry nothing: the code only passes them on.
A connection to the server may break: each end reads some of what is on the way, then
the end of the stream; the server takes the member out of the room, the client forgets
its room and its links.  The direct link itself is not affected.

**Connection.**  Bytes are tagged with the message and position they come from,
so a mixture does not decode.  The socket holds `SocketBuffer` bytes, which makes
writes partial and reads arbitrary.  `DrainServer`, each round of
`CarveServer` and `FlushServer` are separate steps, which lets the server act
between them.  The refinement maps `sent` and `got` of `FifoChannel` to the messages
framed and handed on, and `open` to the receiver's end.

## Runs

| run | instance | checks |
|---|---|---|
| `room_members` | 3 clients, 3 codes, no metadata | `TypeOK`, `RoomsAgree`, `HostPresent`, `MembersDistinct`, `BannedStayOut`, `ImplementsMembership`, `RemovalKeepsRoom` |
| `room_data` | 2 clients, keys and values at and above every cap, a password | `MemberDataOwned`, `DataWithinLimits`, `CodeAlwaysFree`, `HostControlsRoom`, `DataMessagesFit` |
| `mirror_members` | 3 clients that share a room, 3 requests | `MirrorExact`, `EventsApply`, `NoMemberNoLink` |
| `mirror_start` | 2 clients from nothing, metadata and passwords, 4 requests, fair | `MirrorExact`, `EventsApply`, `DepartureInFlight`, `DepartureNoticed` |
| `client_api` | 2 clients, from nothing or from a room, 3 requests or datagrams | `BorrowedIntact`, `EventsSuffice`, `SendersAnnounced` |
| `mesh_faults` | every failure of libjuice, 2 agents and 2 datagrams each | `TypeOK`, `SentInOrder`, `NothingWaitsWhenUp`, `RemoteSetOnce` |
| `mesh_room` | no failures of libjuice, 2 requests to leave or join or lost connections, fair | `LinkOnlyToMember`, `LinkEndInFlight`, `DialConnects`, `LinkEndsWithMember` |
| `connection` | 2 messages of 1 to 5 bytes, either way or one each, fair | `TypeOK`, `ClosedForCause`, `NoLostWake`, `UpFifo`, `DownFifo`, `DownDelivered`, `UpDelivered`, `SessionReleased` |

Four runs end in a violation: the code does something other than one of its
comments says.

- `room_replies`: a `SetRoomData` that changes nothing gets no answer, where
  `client.h` says "server replies RoomDataChanged or RoomError".
- `mesh_redial`: a peer leaves and joins again while a description is on its way.
  The answer to it then meets a link that has a description and is taken for a
  redial; `p2p_mesh.cpp` says such a description "is the peer redialing".
- `mesh_strays`: a link fails and is rebuilt, `juice_create` returns the address
  of the old agent, and an event the old one left is taken for the new one's;
  `p2p_mesh.h` says "a rebuilt link ignores strays".
- `mesh_queue`: a link fails and its outbox goes with it; `p2p_mesh.h` says
  "datagrams queued until the link connects".

### Bounds

*Clients.*  Three are needed for a host, an heir and a bystander, and for a ban by
someone who is not the creator; metadata is per client, so two do.  Codes are as many
as clients, the least `RoomCodeAssumption` allows; they are alike, hence the
symmetry.  The caps on strings are those of `protocol.h`; strings are empty, exactly at
their cap, or longer than any.  The caps on the number of keys are 1, so that two keys exceed them.

*Requests in the mirror runs.*  Room state without a bound on requests is covered by
`room_members`; with queues the number of requests bounds how much is in flight.
Three requests after everyone is in the room cover a departure, a succession and a
rejoin that cross; `mirror_start` covers the way there.  `client_api` starts from both,
with two clients: a program and someone it hears of.

*Mesh.*  Two agents per client, with `max_connection_attempts` 1 in `mesh_faults`, allow
a dial that spends the budget, a refusal, and an answer that restores it; or a link, its
loss and a redial.  Failures and moves are checked in separate runs, and two moves are
a departure and a return, or a departure and a lost connection.  One unhandled callback at a time suffices for the properties
of `mesh_faults`; `mesh_strays` uses two.

*Bytes.*  A header of 2, fragments of 2 and a cap of 4 make 1 to 5 bytes cover less than
a fragment, exactly one, more than one, the cap and beyond it; a socket of 3 bytes cuts
headers and fragments.  Two messages are enough for one to follow another, or to
cross it in the other direction.

Deadlock checking is off because every instance is bounded: when the requests, agents
and messages are used up, the model stops.

### Fairness

- Polls (`RoomMirror`, `P2PMesh`, `Connection`): the program is expected to call
  `Poll` in its loop; nothing in the library works otherwise.
- `WriteLoop`, `AsyncWrite`, `ReadLoop`, `ReadEof`, `Relay`: the `io_context` runs what
  is ready, and TCP delivers or fails.
- `OnJuiceState(p, "connected")`: only in `mesh_room`, for agents that hold each
  other's descriptions.  That they can reach each other is an assumption on the network.

No request is assumed to be made and no failure to happen or to be absent, except that
`mesh_room` is about the protocol when libjuice works, and `DialConnects` promises nothing
once someone has asked to leave or was cut off (`mesh_redial` shows why).
`LinkEndsWithMember` rests on `CarveServer`, `PollPeers` and `Relay` alone: a member that keeps polling
is told of every departure.

## Proofs

The theorems about `RoomServer` are for every number of connections, every finite set of
codes and keys and all limits: all its invariants, the action properties
`RemovalKeepsRoom`, `DataMessagesFit` and `HostControlsRoom`, and that it implements `Membership`.  The assumptions are
those the module names: ids do not wrap, no code is empty and there are as many as
connections, only the empty string has size 0, a member may hold at least one key, and
a key and a value at their caps leave 13 bytes of a frame (`LimitAssumption`; 128 + 512 of 1024 in
`protocol.h`).

The inductive invariant is

    Inv == StateType /\ GoodRooms(rooms) /\ RoomsAgree

None of the invariants is inductive alone.  That a kick leaves the room standing needs
the host to be a member other than the target (`HostPresent`) and the target to be listed
(`RoomsAgree`); that `RoomsAgree` survives `std::erase` needs the list to have no
repetitions (`MembersDistinct`); that no repetition appears on a join needs `RoomsAgree`
again.  `GoodRoom` collects what holds of a single room, so most handlers reduce to one
lemma, `InvFieldChange`: a handler that replaces one room by a good one with the same
members preserves `Inv`.  A ban bars its target before it takes it out, so `LeaveRoom` there starts from a room
in which one member is barred: `AlmostGoodRoom`.  `CodeAlwaysFreeHolds` counts: the rooms inject into the connections that are in one.

Every step sends sequences of `Fitting` messages (`SentNext`): of the
protocol's types and, for data messages, of a size below `max_message_size`.  A value in a message is one
that passed `BadWrite` in this step (`WrittenCapped`) or one that is stored, which `Inv` caps
(`StoredCapped`): this is what the replay to a joiner needs.  `TypeOKHolds` and
`DataMessagesFitHolds` follow.

The refinement of `Membership` is step simulation under `Inv`.  `EldersErase` and `EldersAppend` say what
`std::erase` and `push_back` do to the order of joining, and `HeadEldest` that
`members.front()` is the member nobody joined before.  From these, each handler that changes members,
host or bans is one action of `Membership` (`CreateOpens`, `JoinEnters`, `LeaveExits`, `BanBars`,
`TransferHandsOver`), and every other handler leaves `Parties` unchanged.  `Inv` is needed because a
client in no room by `conn->room` must be `Outside` by `_rooms`.

`HostControlsRoom` compares what different clients could do in one step.  `HostOnly` goes through the
handlers: one that changes what the host controls is the host's, and one that replaces the host is the
host's or takes the host out.  As this holds of every client whose message the step could be, the step
is a message of the host and of nobody else.

### The mirror

The theorems about `RoomMirror` are for any number of clients, requests and events in flight, under
the assumptions of `RoomServer`.  They rest on two notions of `ViewProofs`.  A *view* is what a cache says,
apart from the order of members; `Apply` is what an event makes of it and `Legal` when it fits, which is
what `EventsApply` asks.  `Trace(c, a, msgs, b)` says that the events `msgs`, in order and each of them legal,
lead client `c` from view `a` to view `b`.  Traces concatenate (`TraceConcat`) and lose their first event when it is carved
(`TraceTail`).

- *The client.*  `CarveFacts`: `CacheRoomState` does to a cache what `Apply` does to its view, for every
  type of event, and keeps members distinct and links within them.
- *The server.*  `Truth(c)` is the view the server has of what `c` should know.  `NextTells`: whatever
  handler runs, what it sends `c` is a trace from `Truth(c)` before the step, and to `Truth(c)` after it if `c` is still connected.
  Each handler has a lemma (`...Tells`).  The long ones are the departures, where those who stay are told
  of the member and of the new host (`LeaveTrace`), and the join, whose replay is three loops over
  peers, room data and member data (`PeersTrace`, `DataTrace`, `SlotsTrace`).
- *Both.*  The inductive invariant

      MirrorInv == Inv /\ types /\ \A c : client[c].is_open => InTransit(c) ...

  where `InTransit(c)` says that `net[c]` is a trace from the view of the cache, and that it ends in `Truth(c)` as long
  as the server has the connection.  The second half alone would not be inductive, because a client goes on
  carving what a connection the server has dropped left behind; `MirrorExact` and `EventsApply` alone are
  not either, because each says nothing of the caches in the middle of the queue.

`EventsApplyHolds` is the first event of a trace, `MirrorExactHolds` its end.  For the latter, `Replay` is a
recursive function; the induction over its argument is done on sets (`UpTo`, from the well-ordering of
the naturals) for the one function at hand, as the induction theorems of the library cannot be instantiated.
`DepartureInFlightHolds` reads a trace the other way: only some events change the room of a client that is in one
(`ApplyOwn`), so a trace without any of them ends where it began (`TraceStays`).  It needs one more invariant,
`OwnInv`: a client in a room has its id and is among its own members, or the `PeerLeft` that takes it out would not.
`NoMemberNoLinkHolds` is part of the types: a link is made for a member or by a signal, and a legal signal is a member's.

### The C interface

`ApiInv == MirrorInv /\ AppInv`, with `AppInv == LoansHold /\ FollowInv /\ SenderInv /\ ...`, is inductive for any number of
clients and any order of calls.  `ApiProofs` shows that every call keeps `AppInv` (`AppInvNext`), from two facts about the
rest of the system that `MirrorInv` gives: a message that `weyve_poll` carves is legal (`AppCarves`), and the steps of the
server and of the other clients leave the program's cache alone (`AppKept`).

- `LoansHold` is `BorrowedIntact` with the places a loan may have.  The proof shows, action by action, that the
  place it writes is not the place of the loan that outlives it.
- `FollowInv`: the program's view, led on by the events in the inbox (`Follows`), matches the view of the cache.
  It needs `MirrorInv`, because a program's `Follow` and the client's `CacheRoomState` agree on legal events
  only (`FollowApply`), and that the inbox holds only events `FillEvent` fills, so that `weyve_next` never skips one that counts.
- `SenderInv`: every member but the client itself, and every sender of a datagram that waits, is `Known` to the
  program, from an event it took or one in the inbox.  `SendersAnnounced` alone does not say that
  a new datagram's sender, a peer with a link, was ever announced.

### The mesh

The theorems about `P2PMesh` are for any number of agents, datagrams, redials, moves and
queued callbacks, and any mixture of faults; `FaultAssumption` only says that the bounds are
numbers.  Four invariants, the last three on top of the first:

- `MeshInv` is the shape of the state, with `GoodMesh`: an absent link is `NoLink`, nobody is
  dialled above the budget, and a link that is up has an empty outbox.  It gives `TypeCorrect` and
  `OutboxFlushed`.  `DescriptionSetOnce` is one case per action under it: the only step that
  gives a link a description gives it to a link without one, or to a new agent.
- `OrderInv`: what was handed to libjuice and what waits in the outbox are increasing, the
  former before the latter, and all of it already numbered.  `SentInOrder` alone is not
  inductive, since a flush appends the outbox to the wire.
- `MemberInv`: every description in flight is carved while the client knows its peer, or
  after an end of file.  `KnownAt` says, for a position in the queue, whether the client will know its
  peer there: this is what makes the argument about the order of the server's sends.
  `NoLinkToStrangers` follows, as a link is only made for a member or by a description.
- `EndInv`: while the two are not both in the room, the last word on its way to each of them is a departure
  or an end of file (`Ends`), and a connection whose end the server is still to read has its end of file on the
  way down too.  With `LinkOnlyToMember` it gives `LinkEndComes`.  `LinkEndInFlight` alone is not inductive: a
  `PeerJoined` behind the departure would let a client dial again.

### The connection

The theorems about `Connection` are for every size of header, fragment, cap and socket buffer and
every length of message, under `FramingAssumption`: the flag bit lies above every fragment
length, and sizes are positive.  `FrameMessage` is given in closed form, byte by byte, so
that nothing about it needs an induction: `FrameFacts` and `FramePlace` say which byte of which frame is at a
position.

A reader and the bytes it has not read are related by `Reading(s, sent, m, g, body, extra,
whole)`: there are positions `start[j]` at which the messages begin in the stream, and `s` is the
part of the stream after some position `used`, which is `c` whole frames and `extra` bytes
into message `g + 1`, of which `body` holds the fragments.  Writing appends bytes at the end of
the stream and reading takes them from its front, wherever the socket cuts it
(`ReadingAppend`, `ReadOn`).  `HeaderRead` says that the header a reader decodes is the one
`FrameMessage` put there, and `FragmentRead`, `FragmentReadNext` that a fragment extends
`body` or completes the message.  The inductive invariant

    ConnInv == Inv /\ Bounds /\ NoLostWake /\ ClosedForCause
    Inv == ConnType /\ UpInv /\ DownInv

says `Reading` of what `ReadLoop` has not read (`UpInv`) and of what `CarveServer` has not
carved, with the frames in the queue as the messages after them (`DownInv`).  Every action keeps it (`...Inv`), and
is a `Send`, `Receive`, `Close` or nothing to each of the two channels (`...Step`): `UpIsFifo` and `DownIsFifo`.
A reader only gives up over a message that does not fit, so `NoClosingWithoutCause` follows; `Outcome` is
that case distinction.  `NoWakeLost` is the safety core of `DownDelivered`: whenever `WriteLoop` waits for
`wake`, nothing is queued and its session has not ended.

### Provers

Each proof module begins with a `USE` that says who tries its leaves: SMT, then Zenon, then SMT
again with more time.  A leaf that SMT does not find names Zenon, with a second, longer attempt, so
that only the temporal steps (LS4) depend on a single attempt within a time limit.

### Left to TLC

Liveness (`DepartureNoticed`, `DialConnects`, `LinkEndsWithMember`, `DownDelivered`, `UpDelivered`,
`SessionReleased`) is out of the prover's reach; `DepartureInFlight` and `LinkEndInFlight`
are the safety cores of the first and the third.
Every safety and action property of a passing run has a theorem.
The invariants of the proofs that quantify over runs and positions (`Trace`, `Reading`) are not invariants of a run:
TLC cannot enumerate them, and checks the properties they imply.

## Not modelled

- The libraries vendored under `Shared/thirdparty` (asio, spdlog, zpp_bits, doctest) and
  libjuice, beyond how the code uses them.  They are nearly all lines of the source tree;
  this project is about the repository's own code, some two thousand lines.
- `Init`, `Run`, `Stop` and `main.cpp`: sockets and logging, no state of interest.
- The example client and the unit tests: `ClientApi`'s program makes any calls in any order.
- `_next_id` after 2^32 connections, and a `Client` that connects a second time: the code
  does nothing about either, and nothing says what it should do.
- Encodings other than the sizes of data messages: which bytes a message becomes.
- A mesh of more than two: links to different peers share nothing but the queues.

## Plan

Most important first:

1. A mesh of any number of members in the proofs: `NoLinkToStrangers` and `LinkEndComes` per pair.
2. A client that connects to the server a second time, once the code says what it keeps.
