---------------------------- MODULE MCClientApi ----------------------------
(***************************************************************************)
(* ClientApi for TLC.                                                      *)
(***************************************************************************)
EXTENDS ClientApi, MCRoomMirror

\* From the beginning, or from a full room whose events App has been handed.
StartOrRoom ==
    \/ ApiInit
    \/ /\ FullRoom
       /\ api = [NewApi EXCEPT
                   !.view = [NewView EXCEPT !.room = client[App].room, !.members = Id,
                                            !.host = 1, !.met = Id \ {App}]]

StartOrRoomSpec == StartOrRoom /\ [][ApiNext]_apivars

\* sent is an output, already appended to net.
ApiState == <<next_id, connections, sessions, rooms, events, net, client, api>>

=============================================================================
