----------------------------- MODULE Membership -----------------------------
(***************************************************************************)
(* What the room service promises about membership, whatever requests are  *)
(* made and whoever disconnects: who may be in a room, who hosts it, who   *)
(* succeeds a host and who stays out.  RoomServer implements it.           *)
(*                                                                         *)
(* Membership is recorded once, as a set per room with the order of        *)
(* joining; the server has two records of it and keeps the order in a      *)
(* vector.  A room nobody is in does not exist.                            *)
(***************************************************************************)

CONSTANTS Client, RoomCode

\* Per code: the members, the pairs <<a, b>> of which a joined before b, the
\* host, and the clients barred until the room closes.
VARIABLE party

NoParty == [members |-> {}, elder |-> {}, host |-> 0, barred |-> {}]

Init == party = [r \in RoomCode |-> NoParty]

\* A client is in one room at most.
Outside(c) == \A r \in RoomCode : c \notin party[r].members

Open(c, r) ==
    /\ Outside(c)
    /\ party[r].members = {}
    /\ party' = [party EXCEPT ![r] = [members |-> {c}, elder |-> {}, host |-> c, barred |-> {}]]

Enter(c, r) ==
    /\ Outside(c)
    /\ party[r].members # {}
    /\ c \notin party[r].barred
    /\ party' = [party EXCEPT ![r] =
                    [members |-> @.members \cup {c}, elder |-> @.elder \cup (@.members \X {c}),
                     host |-> @.host, barred |-> @.barred]]

\* The host stays, or is succeeded by the one who joined before all others.
MayHost(p, left, heir) ==
    IF p.host \in left THEN heir = p.host
                       ELSE \A m \in left : <<m, heir>> \notin p.elder

\* c goes, barred from coming back or not.
Depart(c, r, barred) ==
    LET p == party[r]
        left == p.members \ {c}
    IN  \/ /\ left = {}
           /\ party' = [party EXCEPT ![r] = NoParty]
        \/ \E heir \in left :
              /\ MayHost(p, left, heir)
              /\ party' = [party EXCEPT ![r] =
                              [members |-> left, elder |-> p.elder \cap (left \X left),
                               host |-> heir, barred |-> barred]]

Exit(c, r) ==
    /\ c \in party[r].members
    /\ Depart(c, r, party[r].barred)

\* A host is never barred from its own room.
Ban(c, r) ==
    /\ c \in party[r].members \ {party[r].host}
    /\ Depart(c, r, party[r].barred \cup {c})

HandOver(c, r) ==
    /\ c \in party[r].members
    /\ party' = [party EXCEPT ![r] =
                    [members |-> @.members, elder |-> @.elder, host |-> c, barred |-> @.barred]]

Next ==
    \E c \in Client, r \in RoomCode :
        Open(c, r) \/ Enter(c, r) \/ Exit(c, r) \/ Ban(c, r) \/ HandOver(c, r)

Spec == Init /\ [][Next]_party

=============================================================================
