---------------------------- MODULE MCDhcpLeases ----------------------------
(* Instances of DhcpLeases for TLC. *)
EXTENDS DhcpLeases, TLC

CONSTANTS c1, c2, n1

\* c1 and c2 have the same name; c1 does not always send it.
SameName == c1 :> {n1, NoName} @@ c2 :> {n1}

\* c2 has a reservation out of the range, or nobody has one.
ReserveOne == c2 :> 2
ReserveNone == [c \in {} |-> 0]
=============================================================================
