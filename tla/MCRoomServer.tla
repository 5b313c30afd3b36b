---------------------------- MODULE MCRoomServer ----------------------------
(***************************************************************************)
(* Instances of RoomServer for TLC.                                        *)
(***************************************************************************)
EXTENDS RoomServer, SequencesExt

\* Strings of exactly the length allowed, and one that is too long for any use.
MCSize ==
    [s \in Key \cup Value \cup Password |->
        CASE s = "" -> 0
          [] s = "long" -> max_message_size
          [] s \in Key -> max_room_data_key
          [] s \in Value -> max_room_data_value
          [] s \in Password -> max_room_password]

\* Codes are only compared with each other.
CodeSymmetry == Permutations(RoomCode)

\* Erase is what std::erase does to a vector without repetitions.
ASSUME EraseRemovesAll ==
    \A n \in 0..4 : \A s \in [1..n -> 1..4], e \in 1..4 :
        IsInjective(s) => Erase(s, e) = Remove(s, e)

\* sent is an output: no guard reads it, and of the invariants only TypeOK does.
ServerState == <<next_id, connections, sessions, rooms>>

=============================================================================
