---------------------------- MODULE MCRoomMirror ----------------------------
(***************************************************************************)
(* Instances of RoomMirror for TLC.                                        *)
(***************************************************************************)
EXTENDS RoomMirror, TLC

\* Every string is within its limits.
MCSize == [s \in Key \cup Value \cup Password |-> IF s = "" THEN 0 ELSE 1]

\* Codes are only compared with each other.
CodeSymmetry == Permutations(RoomCode)

\* Everyone has connected and joined one room in the order of the ids, and has
\* seen it: the state after as many requests as there are clients.
FullRoom ==
    LET all == [i \in Id |-> i]
        others(c) == SelectSeq(all, LAMBDA i : i # c)
    IN  /\ next_id = MaxId + 1
        /\ sessions = Id
        /\ sent = [c \in Id |-> <<>>]
        /\ events = 0
        /\ net = [c \in Id |-> <<>>]
        /\ \E code \in RoomCode :
              /\ connections = [c \in Id |-> code]
              /\ rooms = Put(EmptyMap, code, [NewRoom(1) EXCEPT !.members = all])
              /\ client = [c \in Id |->
                    [NewClient EXCEPT !.is_open = TRUE, !.id = c, !.room = code, !.host = 1,
                                      !.members = <<c>> \o others(c)]]

FullRoomSpec == FullRoom /\ [][MirrorNext]_allvars

\* From the beginning, for programs that keep calling Poll.
FairMirrorSpec == MirrorSpec /\ \A c \in Id : WF_allvars(Poll(c))

\* sent is an output, already appended to net.
MirrorState == <<next_id, connections, sessions, rooms, events, net, client>>

=============================================================================
