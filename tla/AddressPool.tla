---------------------------- MODULE AddressPool ----------------------------
(***************************************************************************)
(* What a DHCP service promises the network: an address is given to a      *)
(* client only while nobody else uses it, and a client that is given one   *)
(* leaves the others of its family.  The promise ends where the service    *)
(* loses track of what it gave: a lease deleted by hand, or a restart      *)
(* before the lease was saved.                                             *)
(***************************************************************************)
CONSTANTS PoolClients, PoolFamilies   \* a family is a set of addresses

PoolAddresses == UNION PoolFamilies

VARIABLES
  users,   \* address -> the clients using it
  sound    \* the service has kept track so far

PoolInit ==
  /\ users = [a \in PoolAddresses |-> {}]
  /\ sound = TRUE

Give(c, family, a) ==
  /\ sound /\ users[a] \subseteq {c}
  /\ users' = [b \in PoolAddresses |->
                 IF b = a THEN {c} ELSE IF b \in family THEN users[b] \ {c} ELSE users[b]]
  /\ UNCHANGED sound

\* Clients leave, or their time runs out.
Leave ==
  /\ sound
  /\ DOMAIN users' = PoolAddresses /\ \A a \in PoolAddresses : users'[a] \subseteq users[a]
  /\ UNCHANGED sound

LoseTrack ==
  /\ sound' = FALSE
  /\ sound => users' = users

PoolNext ==
  \/ \E c \in PoolClients, family \in PoolFamilies : \E a \in family : Give(c, family, a)
  \/ Leave
  \/ LoseTrack

PoolSpec == PoolInit /\ [][PoolNext]_<<users, sound>>
=============================================================================
