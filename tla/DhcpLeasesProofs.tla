-------------------------- MODULE DhcpLeasesProofs --------------------------
(***************************************************************************)
(* No address is used by two clients, for every set of clients, addresses  *)
(* and reservations and every length of leases and offers.                 *)
(***************************************************************************)
EXTENDS DhcpLeases, WellFoundedInduction, TLAPS

\* The lease at hand in a sweep is the one in the table, but for its DNS record:
\* a sweep holds the state lock until it has put the lease back.
WorkerInv ==
  worker.step = "save" =>
    /\ worker.addr \in Addresses
    /\ worker.lease \in Lease
    /\ worker.lease.client = lease[worker.addr].client
    /\ worker.lease.state = lease[worker.addr].state
    /\ worker.lease.expires = lease[worker.addr].expires

IndInv == TypeOK /\ WorkerInv /\ HeldIsLeased
----------------------------------------------------------------------------
(* Addresses *)

\* The least of a non-empty set of natural numbers is one of them.
LEMMA MinIn ==
  ASSUME NEW S, S \subseteq Nat, S # {}
  PROVE  Min(S) \in S
<1> DEFINE R == {ss \in Nat \X Nat : ss[1] < ss[2]}
<1>1. IsWellFoundedOn(R, Nat)
  BY NatLessThanWellFounded DEF OpToRel
<1>2. PICK x \in S : \A y \in S : <<y, x>> \notin R
  <2> HIDE DEF R
  <2>1. QED
    BY <1>1, WFMin
<1>3. \A y \in S : <<y, x>> \in Nat \X Nat
  OBVIOUS
<1>4. \A y \in S : ~(y < x)
  BY <1>2, <1>3
<1>5. \E z \in S : \A y \in S : z =< y
  BY <1>4
<1>6. QED
  <2> HIDE DEF R
  <2>1. QED
    BY <1>5, Zenon DEF Min

\* The addresses of a scope are addresses, and addresses are numbers but not 0.
LEMMA AddressFacts ==
  /\ Addresses \subseteq Nat /\ 0 \notin Addresses
  /\ Addresses4 \subseteq Addresses /\ Addresses6 \subseteq Addresses
  /\ Addresses4 = AddressesOf("v4") /\ Addresses6 = AddressesOf("v6")
  /\ \A f \in Families : /\ AddressesOf(f) \subseteq Addresses
                         /\ ScopeRange(f) \subseteq AddressesOf(f)
  /\ \A f \in Families, c \in Clients : ReservedTo(f, c) \subseteq AddressesOf(f)
BY AddressAssumption DEF Addresses, Addresses4, Addresses6, AddressesOf, Families, ScopeRange,
   ReservedTo, Reservations

\* What Leases::of_client finds is a lease of the client that has not run out.
LEMMA OfClientFacts ==
  ASSUME NEW f \in Families, NEW c \in Clients, NEW a \in OfClient(f, c)
  PROVE  /\ a \in AddressesOf(f) /\ a \in Addresses
         /\ lease[a].client = c
         /\ lease[a].state \in {"offered", "bound"}
         /\ lease[a].expires > now
<1> DEFINE mine == {b \in AddressesOf(f) : /\ lease[b].client = c
                                           /\ lease[b].state \in {"offered", "bound"}
                                           /\ lease[b].expires > now}
<1>1. mine # {} /\ a = Min(mine)
  BY DEF OfClient
<1>2. mine \subseteq Nat /\ AddressesOf(f) \subseteq Addresses
  BY AddressFacts
<1>3. a \in mine
  BY <1>1, <1>2, MinIn
<1>4. QED
  BY <1>2, <1>3

\* What choose finds is usable by the client, and an address of the scope.
LEMMA CandidateFacts ==
  ASSUME NEW f \in Families, NEW c \in Clients, NEW asked, NEW a \in Candidates(f, c, asked)
  PROVE  Usable(f, a, c) /\ a \in AddressesOf(f) /\ a \in Addresses
<1>1. Usable(f, a, c)
  BY DEF Candidates
<1>2. QED
  BY <1>1, AddressFacts DEF Usable

\* An address that is free for one client is used by no other.
LEMMA FreeForNobodyElse ==
  ASSUME TypeOK, HeldIsLeased, deletes = 0, crashes = 0,
         NEW c \in Clients, NEW d \in Clients, NEW a \in Addresses,
         FreeFor(a, c), Holds(d, a)
  PROVE  d = c
<1>1. lease[a].client = d /\ lease[a].state = "bound" /\ lease[a].expires >= held[d][a]
  BY DEF HeldIsLeased
<1>2. lease[a].expires \in Nat /\ held[d][a] \in Nat /\ now \in Nat
  BY DEF TypeOK, Lease, NoLease
<1>3. lease[a].expires > now
  BY <1>1, <1>2 DEF Holds
<1>4. lease[a] # NoLease
  BY <1>1 DEF NoLease
<1>5. QED
  BY <1>1, <1>2, <1>3, <1>4 DEF FreeFor, Present

\* A granted lease is the client's, and runs as long as the client is told.
LEMMA BoundFacts ==
  ASSUME TypeOK, NEW a \in Addresses, NEW c \in Clients, NEW name \in Names \cup {NoName}
  PROVE  /\ Bound(a, c, name) \in Lease
         /\ Bound(a, c, name).client = c
         /\ Bound(a, c, name).state = "bound"
         /\ Bound(a, c, name).expires = now + LeaseSecs
<1>1. lease[a] \in Lease \cup {NoLease} /\ now \in Nat /\ LeaseSecs \in Nat
  BY TimesAssumption DEF TypeOK
<1>2. CASE lease[a].client = c /\ lease[a].state = "bound" /\ lease[a].name = name
  <2>1. lease[a] \in Lease
    BY <1>1, <1>2 DEF NoLease
  <2>2. Bound(a, c, name) = [lease[a] EXCEPT !.expires = now + LeaseSecs]
    BY <1>2 DEF Bound
  <2>3. QED
    BY <1>1, <1>2, <2>1, <2>2 DEF Lease
<1>3. CASE ~(lease[a].client = c /\ lease[a].state = "bound" /\ lease[a].name = name)
  <2>1. /\ lease[a].dns_name \in Names \cup {NoName}
        /\ lease[a].rec \in 0 .. MaxRecords
    BY <1>1, BoundsAssumption DEF Lease, NoLease
  <2>2. Bound(a, c, name) =
          [client |-> c, name |-> name, state |-> "bound", expires |-> now + LeaseSecs,
           dns_name |-> IF lease[a].client = c THEN lease[a].dns_name ELSE NoName,
           rec |-> IF lease[a].client = c THEN lease[a].rec ELSE 0]
    BY <1>3 DEF Bound, NewLease
  <2>3. 0 \in 0 .. MaxRecords
    BY BoundsAssumption
  <2>4. QED
    BY <1>1, <2>1, <2>2, <2>3 DEF Lease
<1>4. QED
  BY <1>2, <1>3

\* The leases DISCOVER, DECLINE and RELEASE leave.
LEMMA LeaseFacts ==
  ASSUME TypeOK, NEW c \in Clients
  PROVE  /\ NewLease(c, NoName, "offered", OfferSecs) \in Lease
         /\ \A l \in Lease : SetDeclined(l) \in Lease /\ SetReleased(l) \in Lease
         /\ \A a \in Addresses : lease[a].client \in Clients => lease[a] \in Lease
<1>1. /\ now \in Nat /\ now + OfferSecs \in Nat /\ now + DeclineSecs \in Nat
      /\ 0 \in 0 .. MaxRecords
  BY TimesAssumption, BoundsAssumption DEF TypeOK
<1>2. NewLease(c, NoName, "offered", OfferSecs) \in Lease
  BY <1>1 DEF NewLease, Lease
<1>3. \A l \in Lease : SetDeclined(l) \in Lease /\ SetReleased(l) \in Lease
  BY <1>1 DEF Lease, SetDeclined, SetReleased
<1>4. \A a \in Addresses : lease[a].client \in Clients => lease[a] \in Lease
  BY NamesAssumption DEF TypeOK, NoLease
<1>5. QED
  BY <1>2, <1>3, <1>4
----------------------------------------------------------------------------
(* Messages *)

\* A message changes the lease table and what its client uses, and nothing else.
LEMMA MessageStep ==
  ASSUME IndInv, messages < MaxMessages, Handled,
         Unlocked \/ lease' = lease,
         lease' \in [Addresses -> Lease \cup {NoLease}],
         changed' \subseteq Addresses,
         held' \in [Clients -> [Addresses -> Nat]],
         deletes = 0 /\ crashes = 0 =>
           \A d \in Clients, b \in Addresses : held'[d][b] > now =>
             /\ lease'[b].client = d /\ lease'[b].state = "bound"
             /\ lease'[b].expires >= held'[d][b]
  PROVE  IndInv'
<1>1. TypeOK'
  BY BoundsAssumption DEF IndInv, TypeOK, Handled, counts
<1>2. WorkerInv'
  BY DEF IndInv, WorkerInv, Handled, Unlocked
<1>3. HeldIsLeased'
  BY DEF HeldIsLeased, Handled, counts, Holds
<1>4. QED
  BY <1>1, <1>2, <1>3 DEF IndInv

\* DISCOVER makes an offer on an address nobody else uses, and takes back offers only.
LEMMA DiscoverStep ==
  ASSUME IndInv, NEW c \in Clients, NEW asked, Discover(c, asked)
  PROVE  IndInv'
<1> DEFINE fit == Candidates("v4", c, asked)
           a == Min(fit)
           older == {b \in OfClient("v4", c) : b # a /\ lease[b].state = "offered"}
           bound == lease[a].state = "bound" /\ lease[a].client = c /\ lease[a].expires > now
<1>1. /\ Unlocked /\ messages < MaxMessages /\ Handled /\ fit # {} /\ held' = held
      /\ changed' = changed \cup (older \cup (IF bound THEN {} ELSE {a}))
      /\ lease' = [b \in Addresses |->
                     IF b \in older THEN NoLease
                     ELSE IF b = a /\ ~bound THEN NewLease(c, NoName, "offered", OfferSecs)
                     ELSE lease[b]]
  BY DEF Discover, Receives, Change
<1>2. "v4" \in Families /\ fit \subseteq Nat
  BY CandidateFacts, AddressFacts DEF Families
<1>3. a \in fit
  BY <1>1, <1>2, MinIn
<1>4. a \in Addresses /\ FreeFor(a, c)
  BY <1>2, <1>3, CandidateFacts DEF Usable
<1>5. older \subseteq Addresses
  BY <1>2, OfClientFacts
<1>6. TypeOK
  BY DEF IndInv
<1>7. lease' \in [Addresses -> Lease \cup {NoLease}]
  <2>1. lease \in [Addresses -> Lease \cup {NoLease}]
    BY <1>6 DEF TypeOK
  <2>2. NewLease(c, NoName, "offered", OfferSecs) \in Lease
    BY <1>6, LeaseFacts
  <2> HIDE DEF a, older, bound
  <2>3. QED
    BY <1>1, <2>1, <2>2
<1>8. changed' \subseteq Addresses
  <2> HIDE DEF a, older, bound
  <2>1. QED
    BY <1>1, <1>4, <1>5, <1>6 DEF TypeOK
<1>9. held' \in [Clients -> [Addresses -> Nat]]
  BY <1>1, <1>6 DEF TypeOK
<1>10. ASSUME deletes = 0, crashes = 0, NEW d \in Clients, NEW b \in Addresses, held'[d][b] > now
       PROVE  /\ lease'[b].client = d /\ lease'[b].state = "bound"
              /\ lease'[b].expires >= held'[d][b]
  <2>1. Holds(d, b)
    BY <1>1, <1>10 DEF Holds
  <2>2. lease[b].client = d /\ lease[b].state = "bound" /\ lease[b].expires >= held[d][b]
    BY <1>10, <2>1 DEF IndInv, HeldIsLeased
  <2>3. b \notin older
    BY <2>2
  <2>4. ASSUME b = a PROVE bound
    <3>1. d = c
      BY <1>4, <1>6, <1>10, <2>1, <2>4, FreeForNobodyElse DEF IndInv
    <3>2. lease[b].expires > now
      BY <1>6, <1>1, <1>10, <2>2 DEF TypeOK, Lease, NoLease
    <3>3. QED
      BY <2>2, <2>4, <3>1, <3>2
  <2>5. lease'[b] = lease[b]
    <3> HIDE DEF older, a, bound
    <3>1. QED
      BY <1>1, <2>3, <2>4
  <2>6. QED
    BY <1>1, <2>2, <2>5
<1>11. QED
  BY <1>1, <1>7, <1>8, <1>9, <1>10, MessageStep

\* A REQUEST for another server withdraws an offer, which nobody uses.
LEMMA RequestElsewhereStep ==
  ASSUME IndInv, NEW c \in Clients, RequestElsewhere(c)
  PROVE  IndInv'
<1>1. PICK a \in OfClient("v4", c) :
        /\ lease[a].state = "offered"
        /\ lease' = [lease EXCEPT ![a] = NoLease] /\ changed' = changed \cup {a}
  BY DEF RequestElsewhere, Change
<1>2. Unlocked /\ messages < MaxMessages /\ Handled /\ held' = held
  BY DEF RequestElsewhere, Receives
<1>3. a \in Addresses
  BY OfClientFacts DEF Families
<1>4. /\ lease' \in [Addresses -> Lease \cup {NoLease}]
      /\ changed' \subseteq Addresses
      /\ held' \in [Clients -> [Addresses -> Nat]]
  BY <1>1, <1>2, <1>3 DEF IndInv, TypeOK
<1>5. deletes = 0 /\ crashes = 0 =>
        \A d \in Clients, b \in Addresses : held'[d][b] > now =>
          /\ lease'[b].client = d /\ lease'[b].state = "bound"
          /\ lease'[b].expires >= held'[d][b]
  BY <1>1, <1>2, <1>3 DEF IndInv, TypeOK, HeldIsLeased, Holds
<1>6. QED
  BY <1>2, <1>4, <1>5, MessageStep

\* A lease is granted on a, which was free for the client, and other leases keep
\* their place, but for the client's own in the same family.
LEMMA GrantStep ==
  ASSUME IndInv, NEW c \in Clients, NEW f \in Families, NEW a \in Addresses, FreeFor(a, c),
         NEW name \in Names \cup {NoName},
         Unlocked, messages < MaxMessages, Handled, changed' \subseteq Addresses,
         lease' \in [Addresses -> Lease \cup {NoLease}],
         lease'[a] = Bound(a, c, name),
         \A b \in Addresses \ {a} : lease'[b] # lease[b]
                                    => b \in AddressesOf(f) /\ lease[b].client = c,
         Uses(c, f, a, now + LeaseSecs)
  PROVE  IndInv'
<1>1. TypeOK /\ now + LeaseSecs \in Nat
  BY TimesAssumption DEF IndInv, TypeOK
<1>2. held' = [held EXCEPT ![c] = [b \in Addresses |->
                 IF b = a THEN now + LeaseSecs
                 ELSE IF b \in AddressesOf(f) THEN 0 ELSE held[c][b]]]
  BY DEF Uses
<1>3. held' \in [Clients -> [Addresses -> Nat]]
  BY <1>1, <1>2 DEF TypeOK
<1>4. ASSUME deletes = 0, crashes = 0, NEW d \in Clients, NEW b \in Addresses, held'[d][b] > now
      PROVE  /\ lease'[b].client = d /\ lease'[b].state = "bound"
             /\ lease'[b].expires >= held'[d][b]
  <2>0. now \in Nat
    BY <1>1 DEF TypeOK
  <2>1. CASE d = c /\ b = a
    <3>1. held'[d][b] = now + LeaseSecs
      BY <1>1, <1>2, <2>1 DEF TypeOK
    <3>2. QED
      BY <1>1, <2>1, <3>1, BoundFacts
  <2>2. CASE d = c /\ b # a
    <3>1. b \notin AddressesOf(f) /\ held'[d][b] = held[d][b]
      BY <1>1, <1>2, <1>4, <2>0, <2>2 DEF TypeOK
    <3>2. lease'[b] = lease[b]
      BY <2>2, <3>1
    <3>3. QED
      BY <1>4, <3>1, <3>2 DEF IndInv, HeldIsLeased, Holds
  <2>3. CASE d # c
    <3>1. held'[d][b] = held[d][b]
      BY <1>1, <1>2, <2>3 DEF TypeOK
    <3>2. Holds(d, b)
      BY <1>4, <3>1 DEF Holds
    <3>3. b # a
      BY <1>1, <1>4, <2>3, <3>2, FreeForNobodyElse DEF IndInv
    <3>4. lease[b].client = d /\ lease[b].state = "bound" /\ lease[b].expires >= held[d][b]
      BY <1>4, <3>2 DEF IndInv, HeldIsLeased
    <3>5. lease'[b] = lease[b]
      BY <2>3, <3>3, <3>4
    <3>6. QED
      BY <3>1, <3>4, <3>5
  <2>4. QED
    BY <2>1, <2>2, <2>3
<1>5. QED
  BY <1>3, <1>4, MessageStep

\* REQUEST with an ACK grants a lease on an address that is free for the client.
LEMMA RequestStep ==
  ASSUME IndInv, NEW c \in Clients, NEW a, NEW name \in HostNames[c], Request(c, a, name)
  PROVE  IndInv'
<1>1. /\ Unlocked /\ messages < MaxMessages /\ Handled
      /\ a \in Addresses4 /\ FreeFor(a, c)
      /\ lease' = [lease EXCEPT ![a] = Bound(a, c, name)] /\ changed' = changed \cup {a}
      /\ Uses(c, "v4", a, now + LeaseSecs)
  BY DEF Request, Receives, Usable, Change
<1>2. a \in Addresses /\ "v4" \in Families
  BY <1>1, AddressFacts DEF Families
<1>3. TypeOK /\ name \in Names \cup {NoName}
  BY NamesAssumption DEF IndInv
<1>4. Bound(a, c, name) \in Lease
  BY <1>2, <1>3, BoundFacts
<1>5. /\ lease' \in [Addresses -> Lease \cup {NoLease}]
      /\ lease'[a] = Bound(a, c, name)
      /\ \A b \in Addresses \ {a} : lease'[b] = lease[b]
      /\ changed' \subseteq Addresses
  BY <1>1, <1>2, <1>3, <1>4 DEF TypeOK
<1>6. QED
  BY <1>1, <1>2, <1>3, <1>5, GrantStep

\* A client stops using an address, whose lease alone may change.
LEMMA StopStep ==
  ASSUME IndInv, NEW c \in Clients, NEW a \in Addresses,
         Unlocked, messages < MaxMessages, Handled, changed' \subseteq Addresses,
         lease' \in [Addresses -> Lease \cup {NoLease}],
         \A b \in Addresses \ {a} : lease'[b] = lease[b],
         lease'[a] = lease[a] \/ lease[a].client = c,
         Stops(c, a)
  PROVE  IndInv'
<1>1. TypeOK
  BY DEF IndInv
<1>2. held' = [held EXCEPT ![c] = [held[c] EXCEPT ![a] = 0]]
  BY DEF Stops
<1>3. held' \in [Clients -> [Addresses -> Nat]]
  BY <1>1, <1>2 DEF TypeOK
<1>4. ASSUME deletes = 0, crashes = 0, NEW d \in Clients, NEW b \in Addresses, held'[d][b] > now
      PROVE  /\ lease'[b].client = d /\ lease'[b].state = "bound"
             /\ lease'[b].expires >= held'[d][b]
  <2>1. ~(d = c /\ b = a) /\ held'[d][b] = held[d][b]
    BY <1>1, <1>2, <1>4 DEF TypeOK
  <2>2. lease[b].client = d /\ lease[b].state = "bound" /\ lease[b].expires >= held[d][b]
    BY <1>4, <2>1 DEF IndInv, HeldIsLeased, Holds
  <2>3. lease'[b] = lease[b]
    BY <2>1, <2>2
  <2>4. QED
    BY <2>1, <2>2, <2>3
<1>5. QED
  BY <1>3, <1>4, MessageStep
\* A NAK changes no lease, and its client stops.
LEMMA NakStep ==
  ASSUME IndInv, NEW c \in Clients, NEW a, RequestNak(c, a)
  PROVE  IndInv'
<1>1. a \in Addresses
  BY AddressFacts DEF RequestNak
<1>2. /\ lease' \in [Addresses -> Lease \cup {NoLease}] /\ changed' \subseteq Addresses
      /\ lease' = lease
  BY DEF IndInv, TypeOK, RequestNak
<1>3. QED
  BY <1>1, <1>2, StopStep DEF RequestNak, Receives

\* RELEASE and DECLINE, in either family.
LEMMA GiveUpStep ==
  ASSUME IndInv, NEW c \in Clients, NEW a \in Addresses, lease[a].client = c,
         Receives, Handled, Stops(c, a),
         NEW l \in {SetDeclined(lease[a]), SetReleased(lease[a])},
         Change({a}, [lease EXCEPT ![a] = l])
  PROVE  IndInv'
<1>1. l \in Lease
  BY LeaseFacts DEF IndInv
<1>2. /\ lease' \in [Addresses -> Lease \cup {NoLease}] /\ changed' \subseteq Addresses
      /\ \A b \in Addresses \ {a} : lease'[b] = lease[b]
  BY <1>1 DEF IndInv, TypeOK, Change
<1>3. QED
  BY <1>2, StopStep DEF Receives

\* A DHCPv4 DECLINE is by the client that has the lease.
LEMMA DeclineStep ==
  ASSUME IndInv, NEW c \in Clients, NEW a, Decline(c, a)
  PROVE  IndInv'
<1>1. a \in Addresses
  BY AddressFacts DEF Decline
<1>2. Change({a}, [lease EXCEPT ![a] = SetDeclined(lease[a])])
  BY DEF Decline
<1>3. QED
  BY <1>1, <1>2, GiveUpStep DEF Decline

\* A DHCPv4 RELEASE is by the client that has the lease.
LEMMA ReleaseStep ==
  ASSUME IndInv, NEW c \in Clients, NEW a, Release(c, a)
  PROVE  IndInv'
<1>1. a \in Addresses
  BY AddressFacts DEF Release
<1>2. Change({a}, [lease EXCEPT ![a] = SetReleased(lease[a])])
  BY DEF Release
<1>3. QED
  BY <1>1, <1>2, GiveUpStep DEF Release

\* A DHCPv6 RELEASE or DECLINE is by the client that has the lease.
LEMMA GiveBackStep ==
  ASSUME IndInv, NEW c \in Clients, NEW a, NEW decline \in BOOLEAN, GiveBack(c, a, decline)
  PROVE  IndInv'
<1>1. a \in Addresses
  BY AddressFacts DEF GiveBack
<1>2. CASE decline
  <2>1. Change({a}, [lease EXCEPT ![a] = SetDeclined(lease[a])])
    BY <1>2 DEF GiveBack
  <2>2. QED
    BY <1>1, <2>1, GiveUpStep DEF GiveBack
<1>3. CASE ~decline
  <2>1. Change({a}, [lease EXCEPT ![a] = SetReleased(lease[a])])
    BY <1>3 DEF GiveBack
  <2>2. QED
    BY <1>1, <2>1, GiveUpStep DEF GiveBack
<1>4. QED
  BY <1>2, <1>3

\* assign, when it binds (by a client that may use other addresses already) and
\* when it offers (to a client that uses none).
LEMMA AssignStep ==
  ASSUME IndInv, NEW c \in Clients, NEW asked, NEW name \in Names \cup {NoName},
         NEW bind \in BOOLEAN, Receives, Assign(c, asked, name, bind),
         bind \/ \A a \in Addresses6 : ~Holds(c, a)
  PROVE  IndInv'
<1> DEFINE older(a) == OfClient("v6", c) \ {a}
           keep(a) == lease[a].client = c /\ lease[a].state = "bound" /\ lease[a].expires > now
           given(a) == IF bind THEN Bound(a, c, name)
                       ELSE IF keep(a) THEN lease[a]
                       ELSE NewLease(c, NoName, "offered", OfferSecs)
<1>1. PICK a \in Candidates("v6", c, asked) :
        /\ changed' = changed \cup (older(a) \cup (IF ~bind /\ keep(a) THEN {} ELSE {a}))
        /\ lease' = [b \in Addresses |-> IF b = a THEN given(a)
                                         ELSE IF b \in older(a) THEN SetReleased(lease[b])
                                         ELSE lease[b]]
        /\ IF bind THEN Uses(c, "v6", a, now + LeaseSecs) ELSE held' = held
  BY DEF Assign, Change
<1>2. /\ Unlocked /\ messages < MaxMessages /\ Handled
      /\ "v6" \in Families /\ TypeOK
      /\ now \in Nat
  BY DEF Receives, Assign, Families, IndInv, TypeOK
<1>3. a \in AddressesOf("v6") /\ a \in Addresses /\ FreeFor(a, c)
  BY <1>2, CandidateFacts DEF Usable
<1>4. \A b \in older(a) : /\ b \in AddressesOf("v6") /\ b \in Addresses /\ b # a
                          /\ lease[b].client = c
  BY <1>2, OfClientFacts
<1>5. changed' \subseteq Addresses
  <2> HIDE DEF keep, older
  <2>1. QED
    BY <1>1, <1>2, <1>3, <1>4 DEF TypeOK
<1>6. lease' \in [Addresses -> Lease \cup {NoLease}]
  <2>1. given(a) \in Lease \cup {NoLease}
    BY <1>2, <1>3, BoundFacts, LeaseFacts DEF TypeOK
  <2>2. \A b \in older(a) : SetReleased(lease[b]) \in Lease
    BY <1>2, <1>4, LeaseFacts
  <2> HIDE DEF given, older
  <2>3. QED
    BY <1>1, <1>2, <2>1, <2>2 DEF TypeOK
<1>7. CASE bind
  <2>1. lease'[a] = Bound(a, c, name)
    BY <1>1, <1>3, <1>7
  <2>2. \A b \in Addresses \ {a} : lease'[b] # lease[b]
                                   => b \in AddressesOf("v6") /\ lease[b].client = c
    <3> HIDE DEF given, older
    <3>1. QED
      BY <1>1, <1>4
  <2>3. Uses(c, "v6", a, now + LeaseSecs)
    BY <1>1, <1>7
  <2> HIDE DEF given, older, keep
  <2>4. QED
    BY <1>2, <1>3, <1>5, <1>6, <2>1, <2>2, <2>3, GrantStep
<1>8. CASE ~bind
  <2>1. held' = held /\ \A b \in AddressesOf("v6") : ~Holds(c, b)
    BY <1>1, <1>8, AddressFacts
  <2>2. ASSUME deletes = 0, crashes = 0, NEW d \in Clients, NEW b \in Addresses,
               held'[d][b] > now
        PROVE  /\ lease'[b].client = d /\ lease'[b].state = "bound"
               /\ lease'[b].expires >= held'[d][b]
    <3>1. Holds(d, b)
      BY <2>1, <2>2 DEF Holds
    <3>2. lease[b].client = d /\ lease[b].state = "bound" /\ lease[b].expires >= held[d][b]
      BY <2>2, <3>1 DEF IndInv, HeldIsLeased
    <3>3. b \notin older(a)
      BY <1>4, <2>1, <3>1, <3>2
    <3>4. b # a
      BY <1>2, <1>3, <2>1, <2>2, <3>1, FreeForNobodyElse DEF IndInv
    <3>5. lease'[b] = lease[b]
      <4> HIDE DEF given, older
      <4>1. QED
        BY <1>1, <3>3, <3>4
    <3>6. QED
      BY <2>1, <3>2, <3>5
  <2>3. held' \in [Clients -> [Addresses -> Nat]]
    BY <1>2, <2>1 DEF TypeOK
  <2> HIDE DEF given, older, keep
  <2>4. QED
    BY <1>2, <1>5, <1>6, <2>2, <2>3, MessageStep
<1>9. QED
  BY <1>7, <1>8

\* A client that starts again uses no address, and no lease changes.
LEMMA ClientRestartStep ==
  ASSUME IndInv, NEW c \in Clients, ClientRestarts(c)
  PROVE  IndInv'
<1>1. /\ messages < MaxMessages /\ Handled /\ lease' = lease /\ changed' = changed
      /\ held' = [held EXCEPT ![c] = [a \in Addresses |-> 0]]
  BY DEF ClientRestarts
<1>2. TypeOK
  BY DEF IndInv
<1>3. /\ lease' \in [Addresses -> Lease \cup {NoLease}] /\ changed' \subseteq Addresses
      /\ held' \in [Clients -> [Addresses -> Nat]]
  BY <1>1, <1>2 DEF TypeOK
<1>4. ASSUME NEW d \in Clients, NEW b \in Addresses, held'[d][b] > now
      PROVE  held'[d][b] = held[d][b]
  BY <1>1, <1>2, <1>4 DEF TypeOK
<1>5. deletes = 0 /\ crashes = 0 =>
        \A d \in Clients, b \in Addresses : held'[d][b] > now =>
          /\ lease'[b].client = d /\ lease'[b].state = "bound"
          /\ lease'[b].expires >= held'[d][b]
  BY <1>1, <1>4 DEF IndInv, HeldIsLeased, Holds
<1>6. QED
  BY <1>1, <1>3, <1>5, MessageStep

\* Every message keeps the inductive invariant.
LEMMA MessageInv ==
  ASSUME IndInv, NEW c \in Clients, Message(c)
  PROVE  IndInv'
<1>1. \A n \in HostNames[c] : n \in Names \cup {NoName}
  BY NamesAssumption
<1>2. CASE Message4(c)
  BY <1>2, DiscoverStep, RequestElsewhereStep, RequestStep, NakStep, DeclineStep, ReleaseStep
     DEF Message4
<1>3. CASE \E asked \in {{}} \cup {{a} : a \in Addresses6} : Solicit(c, asked)
  BY <1>3, AssignStep DEF Solicit
<1>4. CASE \E asked \in {{}} \cup {{a} : a \in Addresses6}, n \in HostNames[c] :
             Renew(c, asked, n)
  BY <1>1, <1>4, AssignStep DEF Renew
<1>5. CASE \E a \in Addresses6, decline \in BOOLEAN : GiveBack(c, a, decline)
  BY <1>5, GiveBackStep
<1>6. CASE ClientRestarts(c)
  BY <1>6, ClientRestartStep
<1>7. QED
  BY <1>2, <1>3, <1>4, <1>5, <1>6 DEF Message, Message6
----------------------------------------------------------------------------
(* The worker *)

\* Once the worker goes on, it has no lease at hand.
LEMMA ProceedFacts ==
  ASSUME TypeOK, NEW left \in SUBSET Addresses, Proceed(left)
  PROVE  /\ worker' \in [step : {"idle", "dns", "save"}, look : SUBSET Addresses,
                         saving : SUBSET Addresses, addr : Addresses \cup {0},
                         lease : Lease \cup {NoLease}]
         /\ worker'.step # "save"
BY DEF TypeOK, Proceed, Idle

\* A sweep changes leases that have run out only: nobody uses their addresses.
LEMMA SweepStartStep ==
  ASSUME IndInv, SweepStart
  PROVE  IndInv'
<1>1. /\ TypeOK /\ lease' = Expired(lease) /\ changed' = {}
      /\ worker'.step = "dns"
      /\ worker' \in [step : {"idle", "dns", "save"}, look : SUBSET Addresses,
                      saving : SUBSET Addresses, addr : Addresses \cup {0},
                      lease : Lease \cup {NoLease}]
      /\ UNCHANGED <<saved, dns, ids, zone, now, del, held, messages, counts>>
  BY DEF IndInv, TypeOK, SweepStart, Idle, ExpiredChanges
<1>2. \A a \in Addresses : lease'[a] \in Lease \cup {NoLease}
  <2>1. TAKE a \in Addresses
  <2>2. lease[a] \in Lease \cup {NoLease}
    BY <1>1 DEF TypeOK
  <2>3. \/ lease'[a] = NoLease \/ lease'[a] = lease[a]
        \/ lease[a].state = "bound" /\ lease'[a] = [lease[a] EXCEPT !.state = "released"]
    BY <1>1 DEF Expired
  <2>4. ASSUME lease[a].state = "bound" PROVE [lease[a] EXCEPT !.state = "released"] \in Lease
    <3>1. lease[a] \in Lease
      BY <2>2, <2>4 DEF NoLease
    <3>2. QED
      BY <3>1 DEF Lease
  <2>5. QED
    BY <2>2, <2>3, <2>4
<1>3. TypeOK'
  BY <1>1, <1>2 DEF TypeOK, counts, Expired
<1>4. WorkerInv'
  BY <1>1 DEF WorkerInv
<1>5. HeldIsLeased'
  <2>1. SUFFICES ASSUME deletes = 0, crashes = 0, NEW c \in Clients, NEW a \in Addresses,
                        Holds(c, a)
                 PROVE  lease'[a].client = c /\ lease'[a].state = "bound"
                          /\ lease'[a].expires >= held[c][a]
    BY <1>1 DEF HeldIsLeased, counts, Holds
  <2>2. lease[a].client = c /\ lease[a].state = "bound" /\ lease[a].expires >= held[c][a]
    BY <2>1 DEF IndInv, HeldIsLeased
  <2>3. lease[a].expires \in Nat /\ held[c][a] \in Nat /\ now \in Nat /\ KeepSecs \in Nat
    BY <1>1, TimesAssumption DEF TypeOK, Lease, NoLease
  <2>4. lease[a].expires > now
    BY <2>1, <2>2, <2>3 DEF Holds
  <2>5. ~(lease[a].expires <= now) /\ ~(lease[a].expires + KeepSecs <= now)
    BY <2>3, <2>4
  <2>6. lease'[a] = lease[a]
    BY <1>1, <2>2, <2>5 DEF Expired
  <2>7. QED
    BY <2>2, <2>6
<1>6. QED
  BY <1>3, <1>4, <1>5 DEF IndInv

\* Deleting rows of removed leases leaves the table as it is.
LEMMA SweepGoneStep ==
  ASSUME IndInv, NEW a \in Addresses, SweepGone(a)
  PROVE  IndInv'
<1>1. /\ TypeOK /\ Proceed(worker.look \ {a}) /\ worker.look \ {a} \in SUBSET Addresses
      /\ saved' \in [Addresses -> Lease \cup {NoLease}] /\ errors' \in Nat
      /\ UNCHANGED <<lease, changed, dns, ids, zone, now, del, held, messages, settings,
                     deletes, crashes>>
  BY DEF IndInv, TypeOK, SweepGone
<1>2. TypeOK' /\ WorkerInv'
  BY <1>1, ProceedFacts DEF TypeOK, WorkerInv
<1>3. HeldIsLeased'
  BY <1>1 DEF IndInv, HeldIsLeased, Holds
<1>4. QED
  BY <1>2, <1>3 DEF IndInv

\* The worker changes the DNS record of the lease at hand, and nothing else of it.
LEMMA SweepDnsStep ==
  ASSUME IndInv, NEW a \in Addresses, SweepDns(a)
  PROVE  IndInv'
<1> DEFINE l == lease[a]
           want == WantedName(l)
           inPlace == want # NoName /\ want = l.dns_name /\ \E r \in dns : r.id = l.rec
           rest == {r \in dns : r.id # l.rec}
           bare == [l EXCEPT !.dns_name = NoName, !.rec = 0]
           register == ~inPlace /\ want # NoName /\ CanRegister(want, a, rest)
           modified == ~inPlace /\ (l.rec # 0 \/ register)
           next == IF inPlace THEN l
                   ELSE IF register THEN [l EXCEPT !.dns_name = want, !.rec = ids + 1]
                   ELSE bare
<1>1. /\ TypeOK /\ l # NoLease /\ l \in Lease
      /\ register => ids < MaxRecords
      /\ ids' = IF register THEN ids + 1 ELSE ids
      /\ dns' = IF inPlace THEN dns
                ELSE IF register THEN rest \cup {[id |-> ids + 1, name |-> want, addr |-> a]}
                ELSE rest
      /\ IF modified \/ a \in worker.saving
         THEN worker' = [worker EXCEPT !.step = "save", !.addr = a, !.lease = next]
         ELSE Proceed(worker.look \ {a})
      /\ UNCHANGED <<lease, changed, saved, zone, now, del, held, messages, counts>>
  BY DEF IndInv, TypeOK, SweepDns, Present
<1>2. want \in Names \cup {NoName}
  BY <1>1 DEF WantedName, Lease
<1> HIDE DEF inPlace, register, modified, want
<1>3. ids \in 0 .. MaxRecords /\ MaxRecords \in Nat
  BY <1>1, BoundsAssumption DEF TypeOK
<1>4. ids' \in 0 .. MaxRecords /\ (register => ids + 1 \in 1 .. MaxRecords /\ want \in Names)
  BY <1>1, <1>2, <1>3 DEF register
<1>5. dns' \subseteq [id : 1 .. MaxRecords, name : Names, addr : Addresses]
  BY <1>1, <1>4 DEF TypeOK
<1>6. /\ next \in Lease
      /\ next.client = l.client /\ next.state = l.state /\ next.expires = l.expires
  <2>1. 0 \in 0 .. MaxRecords /\ (register => ids + 1 \in 0 .. MaxRecords)
    BY <1>3, <1>4
  <2>2. QED
    BY <1>1, <1>2, <2>1 DEF Lease
<1> HIDE DEF next
<1>7. /\ worker' \in [step : {"idle", "dns", "save"}, look : SUBSET Addresses,
                      saving : SUBSET Addresses, addr : Addresses \cup {0},
                      lease : Lease \cup {NoLease}]
      /\ worker'.step = "save" => worker'.addr = a /\ worker'.lease = next
  <2>1. CASE modified \/ a \in worker.saving
    BY <1>1, <1>6, <2>1 DEF TypeOK
  <2>2. CASE ~(modified \/ a \in worker.saving)
    <3>1. Proceed(worker.look \ {a}) /\ worker.look \ {a} \in SUBSET Addresses
      BY <1>1, <2>2 DEF TypeOK
    <3>2. QED
      BY <1>1, <3>1, ProceedFacts
  <2>3. QED
    BY <2>1, <2>2
<1>8. TypeOK'
  BY <1>1, <1>4, <1>5, <1>7 DEF TypeOK, counts
<1>9. WorkerInv'
  BY <1>1, <1>6, <1>7 DEF WorkerInv
<1>10. HeldIsLeased'
  BY <1>1 DEF IndInv, HeldIsLeased, Holds, counts
<1>11. QED
  BY <1>8, <1>9, <1>10 DEF IndInv

\* The lease put back is the one in the table, with another DNS record.
LEMMA SweepSaveStep ==
  ASSUME IndInv, SweepSave
  PROVE  IndInv'
<1> DEFINE a == worker.addr
<1>1. /\ TypeOK /\ a \in Addresses /\ worker.lease \in Lease
      /\ worker.lease.client = lease[a].client
      /\ worker.lease.state = lease[a].state
      /\ worker.lease.expires = lease[a].expires
  BY DEF IndInv, WorkerInv, SweepSave
<1>2. /\ lease' = [lease EXCEPT ![a] = worker.lease]
      /\ Proceed(worker.look \ {a}) /\ worker.look \ {a} \in SUBSET Addresses
      /\ UNCHANGED <<changed, dns, ids, zone, now, del, held, messages, settings, deletes, crashes>>
  BY <1>1 DEF SweepSave, TypeOK
<1>3. saved' \in [Addresses -> Lease \cup {NoLease}] /\ errors' \in Nat
  BY <1>1 DEF SweepSave, TypeOK
<1>4. TypeOK' /\ WorkerInv'
  BY <1>1, <1>2, <1>3, ProceedFacts DEF TypeOK, WorkerInv
<1>5. \A b \in Addresses : /\ lease'[b].client = lease[b].client
                           /\ lease'[b].state = lease[b].state
                           /\ lease'[b].expires = lease[b].expires
  BY <1>1, <1>2 DEF TypeOK
<1>6. HeldIsLeased'
  BY <1>2, <1>5 DEF IndInv, HeldIsLeased, Holds
<1>7. QED
  BY <1>4, <1>6 DEF IndInv
----------------------------------------------------------------------------
(* The console, the clock and restarts *)

\* A deletion in the console (after which nothing is promised of its address).
LEMMA DeleteStep ==
  ASSUME IndInv, Delete
  PROVE  IndInv'
<1>1. TypeOK /\ WorkerInv /\ HeldIsLeased
  BY DEF IndInv
<1>2. CASE \E a \in Addresses : DeleteRemove(a)
  <2>1. PICK a \in Addresses : DeleteRemove(a)
    BY <1>2
  <2>2. lease[a].rec \in 0 .. MaxRecords /\ deletes' = deletes + 1 /\ deletes' # 0
    BY <1>1, <2>1, BoundsAssumption DEF DeleteRemove, TypeOK, Lease, NoLease
  <2>3. TypeOK'
    BY <1>1, <2>1, <2>2 DEF DeleteRemove, Change, TypeOK
  <2>4. WorkerInv' /\ HeldIsLeased'
    BY <2>1, <2>2 DEF DeleteRemove, Unlocked, WorkerInv, HeldIsLeased
  <2>5. QED
    BY <2>3, <2>4 DEF IndInv
<1>3. CASE DeleteStore
  <2>1. TypeOK'
    BY <1>1, <1>3 DEF DeleteStore, TypeOK, counts
  <2>2. WorkerInv' /\ HeldIsLeased'
    BY <1>1, <1>3 DEF DeleteStore, WorkerInv, HeldIsLeased, Holds, counts
  <2>3. QED
    BY <2>1, <2>2 DEF IndInv
<1>4. CASE DeleteForget
  <2>1. TypeOK'
    BY <1>1, <1>4, BoundsAssumption DEF DeleteForget, NoDelete, TypeOK, counts
  <2>2. WorkerInv' /\ HeldIsLeased'
    BY <1>1, <1>4 DEF DeleteForget, WorkerInv, HeldIsLeased, Holds, counts
  <2>3. QED
    BY <2>1, <2>2 DEF IndInv
<1>5. QED
  BY <1>2, <1>3, <1>4 DEF Delete

\* Another dns_zone changes no lease.
LEMMA ApplyStep ==
  ASSUME IndInv, Apply
  PROVE  IndInv'
<1>1. TypeOK'
  BY DEF IndInv, Apply, TypeOK
<1>2. WorkerInv' /\ HeldIsLeased'
  BY DEF IndInv, Apply, WorkerInv, HeldIsLeased, Holds
<1>3. QED
  BY <1>1, <1>2 DEF IndInv

\* As time goes by a client uses no address it did not use before.
LEMMA TickStep ==
  ASSUME IndInv, Tick
  PROVE  IndInv'
<1>1. TypeOK'
  BY BoundsAssumption DEF IndInv, Tick, TypeOK, counts
<1>2. \A c \in Clients, a \in Addresses : Holds(c, a)' => Holds(c, a)
  BY DEF IndInv, Tick, TypeOK, Holds
<1>3. WorkerInv' /\ HeldIsLeased'
  BY <1>2 DEF IndInv, Tick, WorkerInv, HeldIsLeased, counts
<1>4. QED
  BY <1>1, <1>3 DEF IndInv

\* A restart (after which nothing is promised of leases that were not saved).
LEMMA RestartStep ==
  ASSUME IndInv, Restart
  PROVE  IndInv'
<1>1. crashes' # 0 /\ worker' = Idle /\ del' = NoDelete
  BY DEF IndInv, TypeOK, Restart
<1>2. TypeOK'
  BY <1>1, BoundsAssumption DEF IndInv, Restart, TypeOK, Idle, NoDelete
<1>3. WorkerInv' /\ HeldIsLeased'
  BY <1>1 DEF WorkerInv, HeldIsLeased, Idle
<1>4. QED
  BY <1>2, <1>3 DEF IndInv
----------------------------------------------------------------------------
(* What the network relies on *)

UsersOf(a) == {c \in Clients : Holds(c, a)}

\* A step after which nobody uses an address that did not use it before.
LEMMA LeavePool ==
  ASSUME deletes' = deletes, crashes' = crashes,
         \A c \in Clients, a \in Addresses : Holds(c, a)' => Holds(c, a)
  PROVE  Pool!PoolNext
<1>1. Addresses = Pool!PoolAddresses
  BY DEF Addresses, Pool!PoolAddresses
<1>2. CASE deletes = 0 /\ crashes = 0
  <2>1. Pool!Leave
    BY <1>1, <1>2 DEF Pool!Leave
  <2>2. QED
    BY <2>1 DEF Pool!PoolNext
<1>3. CASE ~(deletes = 0 /\ crashes = 0)
  <2>1. Pool!LoseTrack
    BY <1>3 DEF Pool!LoseTrack
  <2>2. QED
    BY <2>1 DEF Pool!PoolNext
<1>4. QED
  BY <1>2, <1>3

\* A client is given an address that was free for it.
LEMMA GivePool ==
  ASSUME TypeOK, HeldIsLeased, NEW c \in Clients, NEW f \in Families,
         NEW a \in AddressesOf(f), FreeFor(a, c), Handled,
         Uses(c, f, a, now + LeaseSecs)
  PROVE  Pool!PoolNext
<1>1. /\ AddressesOf(f) \in {Addresses4, Addresses6} /\ a \in Addresses
      /\ Addresses = Pool!PoolAddresses
  BY AddressFacts DEF AddressesOf, Addresses, Pool!PoolAddresses
<1>2. now' = now /\ deletes' = deletes /\ crashes' = crashes
  BY DEF Handled, counts
<1>3. now \in Nat /\ now + LeaseSecs > now
  BY TimesAssumption DEF TypeOK
<1>4. CASE deletes = 0 /\ crashes = 0
  <2>1. UsersOf(a) \subseteq {c}
    BY <1>1, <1>4, FreeForNobodyElse DEF UsersOf
  <2>2. ASSUME NEW b \in Addresses
        PROVE  UsersOf(b)' = IF b = a THEN {c}
                             ELSE IF b \in AddressesOf(f) THEN UsersOf(b) \ {c} ELSE UsersOf(b)
    <3>1. \A d \in Clients \ {c} : held'[d] = held[d]
      BY DEF Uses, TypeOK
    <3>2. held'[c][b] = IF b = a THEN now + LeaseSecs
                        ELSE IF b \in AddressesOf(f) THEN 0 ELSE held[c][b]
      BY DEF Uses, TypeOK
    <3>3. \A d \in Clients \ {c} : Holds(d, b)' <=> Holds(d, b)
      BY <1>2, <3>1 DEF Holds
    <3>4. Holds(c, b)' <=> (b = a \/ (b \notin AddressesOf(f) /\ Holds(c, b)))
      BY <1>2, <1>3, <3>2 DEF Holds
    <3>5. CASE b = a
      <4>1. \A d \in Clients \ {c} : ~Holds(d, b)
        BY <2>1, <3>5 DEF UsersOf
      <4>2. QED
        BY <3>3, <3>4, <3>5, <4>1 DEF UsersOf
    <3>6. CASE b # a
      BY <3>3, <3>4, <3>6 DEF UsersOf
    <3>7. QED
      BY <3>5, <3>6
  <2>3. Pool!Give(c, AddressesOf(f), a)
    BY <1>1, <1>2, <1>4, <2>1, <2>2 DEF Pool!Give, UsersOf
  <2>4. QED
    BY <1>1, <2>3 DEF Pool!PoolNext
<1>5. CASE ~(deletes = 0 /\ crashes = 0)
  <2>1. Pool!LoseTrack
    BY <1>2, <1>5 DEF Pool!LoseTrack
  <2>2. QED
    BY <2>1 DEF Pool!PoolNext
<1>6. QED
  BY <1>4, <1>5

\* A client that stops using an address, or all of them, leaves.
LEMMA StopPool ==
  ASSUME TypeOK, NEW c \in Clients, NEW a \in Addresses, Handled,
         Stops(c, a) \/ held' = [held EXCEPT ![c] = [b \in Addresses |-> 0]]
  PROVE  Pool!PoolNext
<1>1. now' = now /\ deletes' = deletes /\ crashes' = crashes /\ now \in Nat
  BY DEF Handled, counts, TypeOK
<1>2. \A d \in Clients, b \in Addresses : held'[d][b] = held[d][b] \/ held'[d][b] = 0
  BY DEF Stops, TypeOK
<1>3. \A d \in Clients, b \in Addresses : Holds(d, b)' => Holds(d, b)
  BY <1>1, <1>2 DEF Holds
<1>4. QED
  BY <1>1, <1>3, LeavePool

\* A message gives one client one address, or takes addresses from its sender.
LEMMA MessagePool ==
  ASSUME TypeOK, HeldIsLeased, NEW c \in Clients, Message(c)
  PROVE  Pool!PoolNext
<1>1. "v4" \in Families /\ "v6" \in Families
  BY DEF Families
<1>2. ASSUME held' = held, Handled PROVE Pool!PoolNext
  BY <1>2, LeavePool DEF Handled, counts, Holds
<1>3. ASSUME NEW asked, Discover(c, asked) PROVE Pool!PoolNext
  BY <1>2, <1>3 DEF Discover
<1>4. CASE RequestElsewhere(c)
  BY <1>2, <1>4 DEF RequestElsewhere
<1>5. ASSUME NEW a, NEW name, Request(c, a, name) PROVE Pool!PoolNext
  <2>1. a \in AddressesOf("v4") /\ FreeFor(a, c)
    BY <1>5, AddressFacts DEF Request, Usable
  <2>2. QED
    BY <1>1, <1>5, <2>1, GivePool DEF Request
<1>6. ASSUME NEW a, RequestNak(c, a) \/ Decline(c, a) \/ Release(c, a) PROVE Pool!PoolNext
  <2>1. a \in Addresses /\ Handled /\ Stops(c, a)
    BY <1>6, AddressFacts DEF RequestNak, Decline, Release
  <2>2. QED
    BY <2>1, StopPool
<1>7. ASSUME NEW a \in Addresses6, NEW decline, GiveBack(c, a, decline) PROVE Pool!PoolNext
  <2>1. a \in Addresses /\ Handled /\ Stops(c, a)
    BY <1>7, AddressFacts DEF GiveBack
  <2>2. QED
    BY <2>1, StopPool
<1>8. ASSUME NEW asked, Solicit(c, asked) PROVE Pool!PoolNext
  BY <1>2, <1>8 DEF Solicit, Assign
<1>9. ASSUME NEW asked, NEW name, Renew(c, asked, name) PROVE Pool!PoolNext
  <2>1. PICK a \in Candidates("v6", c, asked) : Uses(c, "v6", a, now + LeaseSecs)
    BY <1>9 DEF Renew, Assign
  <2>2. Handled
    BY <1>9 DEF Renew, Assign
  <2>3. a \in AddressesOf("v6") /\ FreeFor(a, c)
    BY <1>1, <2>1, CandidateFacts DEF Usable
  <2>4. QED
    BY <1>1, <2>1, <2>2, <2>3, GivePool
<1>10. CASE ClientRestarts(c)
  <2>1. PICK a \in Addresses : Holds(c, a)
    BY <1>10 DEF ClientRestarts
  <2>2. QED
    BY <1>10, StopPool DEF ClientRestarts
<1>11. QED
  BY <1>3, <1>4, <1>5, <1>6, <1>7, <1>8, <1>9, <1>10 DEF Message, Message4, Message6

\* Sweeps, settings and the clock take addresses from clients at most; a deletion
\* or a restart is where the service loses track.
LEMMA OtherPool ==
  ASSUME TypeOK, Sweep \/ Delete \/ Apply \/ Tick \/ Restart
  PROVE  Pool!PoolNext
<1>1. ASSUME held' = held, now' \in {now, now + 1}, deletes' = deletes, crashes' = crashes
      PROVE  Pool!PoolNext
  <2>1. \A c \in Clients, a \in Addresses : held[c][a] \in Nat /\ now \in Nat
    BY DEF TypeOK
  <2>2. \A c \in Clients, a \in Addresses : Holds(c, a)' => Holds(c, a)
    BY <1>1, <2>1 DEF Holds
  <2>3. QED
    BY <1>1, <2>2, LeavePool
<1>2. ASSUME held' = held, now' = now, deletes' # 0 \/ crashes' # 0
      PROVE  Pool!PoolNext
  <2>1. Pool!LoseTrack
    BY <1>2 DEF Pool!LoseTrack, Holds
  <2>2. QED
    BY <2>1 DEF Pool!PoolNext
<1>3. CASE Sweep
  BY <1>1, <1>3 DEF Sweep, SweepStart, SweepGone, SweepDns, SweepSave, counts
<1>4. CASE \E a \in Addresses : DeleteRemove(a)
  <2>1. held' = held /\ now' = now /\ deletes' # 0
    BY <1>4 DEF DeleteRemove, TypeOK
  <2>2. QED
    BY <1>2, <2>1
<1>5. CASE DeleteStore \/ DeleteForget \/ Apply \/ Tick
  BY <1>1, <1>5 DEF DeleteStore, DeleteForget, Apply, Tick, counts
<1>6. CASE Restart
  <2>1. held' = held /\ now' = now /\ crashes' # 0
    BY <1>6 DEF Restart, TypeOK
  <2>2. QED
    BY <1>2, <2>1
<1>7. QED
  BY <1>3, <1>4, <1>5, <1>6 DEF Delete
----------------------------------------------------------------------------
(* The store, the names and the table *)

\* A lease that lists a DNS record is bound, and the record has its present name.
RecordInStep(l) == l.rec # 0 => zone /\ l.state = "bound" /\ l.dns_name = l.name

\* The worker's list: a deletion in progress was counted, a sweep saves a lease it
\* still has to look at, and has nothing to look at between two sweeps.
ListInv ==
  /\ del.step # "idle" => deletes > 0
  /\ worker.step = "save" => worker.addr \in worker.look
  /\ Unlocked => worker.look = {}

\* A lease whose row in the store differs is one the worker still has to save.
SaveInv ==
  deletes = 0 /\ errors = 0 =>
    \A a \in Addresses : saved[a] # lease[a] =>
      a \in changed \/ a \in worker.look \cap worker.saving

\* A lease whose record is out of step is one the worker still has to look at, and
\* the one it is about to put back is in step.
NameInv ==
  deletes = 0 /\ (zone \/ crashes = 0) =>
    /\ \A a \in Addresses \ (changed \cup worker.look) : RecordInStep(lease[a])
    /\ worker.step = "save" => RecordInStep(worker.lease)

BookInv == ListInv /\ SaveInv /\ NameInv
----------------------------------------------------------------------------
(* The store and the names follow the table *)

\* A step by the handlers or the console: every lease it changes is listed.
LEMMA ListedStep ==
  ASSUME BookInv, Unlocked, UNCHANGED <<saved, zone, worker, del, counts>>,
         changed \subseteq changed',
         \A a \in Addresses : lease'[a] # lease[a] => a \in changed'
  PROVE  BookInv'
<1>1. ListInv'
  BY DEF BookInv, ListInv, Unlocked, counts
<1>2. SaveInv'
  BY DEF BookInv, SaveInv, counts
<1>3. NameInv'
  BY DEF BookInv, NameInv, RecordInStep, Unlocked, counts
<1>4. QED
  BY <1>1, <1>2, <1>3 DEF BookInv

\* Every message lists the leases it changes.
LEMMA MessageBook ==
  ASSUME IndInv, BookInv, NEW c \in Clients, Message(c)
  PROVE  BookInv'
<1>1. TypeOK /\ lease \in [Addresses -> Lease \cup {NoLease}]
  BY DEF IndInv, TypeOK
<1>2. ASSUME Receives, Handled, NEW S, NEW l, Change(S, l),
             \A a \in Addresses : l[a] # lease[a] => a \in S
      PROVE  BookInv'
  BY <1>2, ListedStep DEF Receives, Handled, Change
<1>3. ASSUME Receives, Handled, NEW a, NEW v, Change({a}, [lease EXCEPT ![a] = v])
      PROVE  BookInv'
  <2>1. \A b \in Addresses : [lease EXCEPT ![a] = v][b] # lease[b] => b \in {a}
    BY <1>1
  <2>2. QED
    BY <1>2, <1>3, <2>1
<1>4. ASSUME NEW asked, Discover(c, asked) PROVE BookInv'
  BY <1>1, <1>2, <1>4 DEF Discover
<1>5. CASE RequestElsewhere(c)
  BY <1>3, <1>5 DEF RequestElsewhere
<1>6. ASSUME NEW a, NEW name, Request(c, a, name) PROVE BookInv'
  BY <1>3, <1>6 DEF Request
<1>7. ASSUME NEW a, RequestNak(c, a) PROVE BookInv'
  BY <1>7, ListedStep DEF RequestNak, Receives, Handled
<1>8. ASSUME NEW a, Decline(c, a) \/ Release(c, a) PROVE BookInv'
  BY <1>3, <1>8 DEF Decline, Release
<1>9. ASSUME NEW a, NEW decline, GiveBack(c, a, decline) PROVE BookInv'
  BY <1>3, <1>9 DEF GiveBack
<1>10. ASSUME NEW asked, NEW name, NEW bind, Receives, Assign(c, asked, name, bind)
      PROVE BookInv'
  BY <1>1, <1>2, <1>10 DEF Assign
<1>11. ASSUME NEW asked, Solicit(c, asked) PROVE BookInv'
  BY <1>10, <1>11 DEF Solicit
<1>12. ASSUME NEW asked, NEW name, Renew(c, asked, name) PROVE BookInv'
  BY <1>10, <1>12 DEF Renew
<1>13. CASE ClientRestarts(c)
  <2>1. UNCHANGED <<lease, changed, saved, zone, worker, del, counts>>
    BY <1>13 DEF ClientRestarts, Handled
  <2>2. QED
    BY <2>1 DEF BookInv, ListInv, SaveInv, NameInv, RecordInStep, Unlocked, counts
<1>14. QED
  BY <1>4, <1>5, <1>6, <1>7, <1>8, <1>9, <1>11, <1>12, <1>13 DEF Message, Message4, Message6

\* A sweep takes over the list of changes, with the leases that expire.
LEMMA SweepStartBook ==
  ASSUME IndInv, BookInv, SweepStart
  PROVE  BookInv'
<1> DEFINE l == Expired(lease)
           changes == changed \cup ExpiredChanges(lease)
           waiting == {a \in Addresses : WantedName(l[a]) \notin {NoName, l[a].dns_name}}
<1>1. /\ lease' = l /\ changed' = {} /\ Unlocked
      /\ worker'.step = "dns" /\ worker'.look = changes \cup waiting /\ worker'.saving = changes
      /\ UNCHANGED <<saved, zone, del, counts>>
  BY DEF SweepStart, Idle, counts
<1>2. \A a \in Addresses : l[a] # lease[a] => a \in changes
  <2>1. ASSUME NEW a \in Addresses, l[a] # lease[a] PROVE a \in ExpiredChanges(lease)
    <3>1. lease[a].expires \in Nat /\ KeepSecs \in Nat /\ now \in Nat
      BY TimesAssumption DEF IndInv, TypeOK, Lease, NoLease
    <3>2. lease[a].expires + KeepSecs <= now => lease[a].expires <= now
      BY <3>1
    <3>3. lease[a].state \in {"offered", "declined", "bound", "released"} /\ lease[a] # NoLease
      BY <2>1 DEF Expired, NoLease
    <3>4. lease[a].expires <= now
      BY <2>1, <3>2 DEF Expired
    <3>5. lease[a].state = "released" => lease[a].expires + KeepSecs <= now
      BY <2>1 DEF Expired
    <3>6. QED
      BY <3>3, <3>4, <3>5 DEF ExpiredChanges
  <2>2. QED
    BY <2>1
<1> HIDE DEF l, changes, waiting
<1>3. ListInv'
  BY <1>1 DEF BookInv, ListInv, Unlocked, counts
<1>4. changed \subseteq changes
  BY DEF changes
<1>5. worker.look = {} /\ worker.step # "save"
  BY <1>1 DEF BookInv, ListInv, Unlocked
<1>6. SaveInv'
  BY <1>1, <1>2, <1>4, <1>5 DEF BookInv, SaveInv, counts
<1>7. NameInv'
  <2>1. SUFFICES ASSUME deletes = 0, zone \/ crashes = 0
                 PROVE  \A a \in Addresses \ (changed' \cup worker'.look) : RecordInStep(lease[a]) /\ lease'[a] = lease[a]
    BY <1>1 DEF NameInv, RecordInStep, counts
  <2>2. QED
    BY <1>1, <1>2, <1>4, <1>5, <2>1 DEF BookInv, NameInv
<1>8. QED
  BY <1>3, <1>6, <1>7 DEF BookInv

\* The rest of a sweep goes through its list: what leaves it is saved and in step.
LEMMA SweepGoneBook ==
  ASSUME IndInv, BookInv, NEW a \in Addresses, SweepGone(a)
  PROVE  BookInv'
<1>1. /\ worker.step = "dns" /\ a \in worker.look /\ lease[a] = NoLease
      /\ UNCHANGED <<lease, changed, zone, del, deletes, crashes>>
      /\ \/ saved' = [saved EXCEPT ![a] = NoLease] /\ errors' = errors
         \/ errors' = errors + 1 /\ saved' = saved
      /\ worker'.look = worker.look \ {a} /\ worker'.step # "save"
      /\ worker'.step = "idle" => worker'.look = {}
      /\ worker'.look # {} => worker'.saving = worker.saving
  BY DEF SweepGone, Proceed, Present, Idle, IndInv, TypeOK
<1>2. ListInv'
  BY <1>1 DEF BookInv, ListInv, Unlocked
<1>3. SaveInv'
  <2>1. SUFFICES ASSUME deletes = 0, errors' = 0, NEW b \in Addresses, saved'[b] # lease[b]
                 PROVE  b \in changed \/ b \in worker'.look \cap worker'.saving
    BY <1>1 DEF SaveInv
  <2>2. errors = 0 /\ saved' = [saved EXCEPT ![a] = NoLease]
    BY <1>1, <2>1 DEF IndInv, TypeOK
  <2>3. b # a /\ saved'[b] = saved[b]
    BY <1>1, <2>1, <2>2 DEF IndInv, TypeOK
  <2>4. b \in changed \/ b \in worker.look \cap worker.saving
    BY <2>1, <2>2, <2>3 DEF BookInv, SaveInv
  <2>5. QED
    BY <1>1, <2>3, <2>4
<1>4. NameInv'
  <2>1. RecordInStep(lease[a])
    BY <1>1 DEF RecordInStep, NoLease
  <2>2. QED
    BY <1>1, <2>1 DEF BookInv, NameInv, RecordInStep
<1>5. QED
  BY <1>2, <1>3, <1>4 DEF BookInv

\* The DNS record of the lease at hand: what the worker will put back is in step.
LEMMA SweepDnsBook ==
  ASSUME IndInv, BookInv, NEW a \in Addresses, SweepDns(a)
  PROVE  BookInv'
<1> DEFINE l == lease[a]
           want == WantedName(l)
           inPlace == want # NoName /\ want = l.dns_name /\ \E r \in dns : r.id = l.rec
           rest == {r \in dns : r.id # l.rec}
           bare == [l EXCEPT !.dns_name = NoName, !.rec = 0]
           register == ~inPlace /\ want # NoName /\ CanRegister(want, a, rest)
           modified == ~inPlace /\ (l.rec # 0 \/ register)
           next == IF inPlace THEN l
                   ELSE IF register THEN [l EXCEPT !.dns_name = want, !.rec = ids + 1]
                   ELSE bare
<1>1. /\ worker.step = "dns" /\ a \in worker.look /\ l \in Lease
      /\ IF modified \/ a \in worker.saving
         THEN worker' = [worker EXCEPT !.step = "save", !.addr = a, !.lease = next]
         ELSE Proceed(worker.look \ {a})
      /\ UNCHANGED <<lease, changed, saved, zone, del, counts>>
  BY DEF SweepDns, Present, IndInv, TypeOK, counts
<1>2. want # NoName => zone /\ l.state = "bound" /\ want = l.name
  BY DEF WantedName
<1>3. inPlace => RecordInStep(l)
  BY <1>2 DEF RecordInStep
<1>4. RecordInStep(next)
  <2>1. CASE inPlace
    BY <1>3, <2>1
  <2>2. CASE register
    <3>1. next = [l EXCEPT !.dns_name = want, !.rec = ids + 1] /\ want # NoName
      BY <2>2
    <3>2. next.state = l.state /\ next.name = l.name /\ next.dns_name = want
      BY <1>1, <3>1 DEF Lease
    <3>3. QED
      BY <1>2, <3>1, <3>2 DEF RecordInStep
  <2>3. CASE ~inPlace /\ ~register
    <3>1. next.rec = 0
      BY <1>1, <2>3 DEF Lease
    <3>2. QED
      BY <3>1 DEF RecordInStep
  <2>4. QED
    BY <2>1, <2>2, <2>3
<1>5. ~modified => RecordInStep(l)
  BY <1>3 DEF RecordInStep
<1> HIDE DEF inPlace, register, modified, next
<1>6. \/ /\ worker'.step = "save" /\ worker'.addr = a /\ worker'.lease = next
         /\ worker'.look = worker.look /\ worker'.saving = worker.saving
      \/ /\ ~modified /\ a \notin worker.saving
         /\ worker'.step # "save" /\ worker'.look = worker.look \ {a}
         /\ worker'.step = "idle" => worker'.look = {}
         /\ worker'.look # {} => worker'.saving = worker.saving
  <2>1. worker \in [step : {"idle", "dns", "save"}, look : SUBSET Addresses,
                    saving : SUBSET Addresses, addr : Addresses \cup {0},
                    lease : Lease \cup {NoLease}]
    BY DEF IndInv, TypeOK
  <2>2. CASE modified \/ a \in worker.saving
    <3>1. worker' = [worker EXCEPT !.step = "save", !.addr = a, !.lease = next]
      BY <1>1, <2>2
    <3>2. QED
      BY <2>1, <3>1
  <2>3. CASE ~modified /\ a \notin worker.saving
    <3>1. Proceed(worker.look \ {a})
      BY <1>1, <2>3
    <3>2. QED
      BY <2>1, <2>3, <3>1 DEF Proceed, Idle
  <2>4. QED
    BY <2>2, <2>3
<1>7. ListInv'
  BY <1>1, <1>6 DEF BookInv, ListInv, Unlocked, counts
<1>8. SaveInv'
  BY <1>1, <1>6 DEF BookInv, SaveInv, counts
<1>9. NameInv'
  BY <1>1, <1>4, <1>5, <1>6 DEF BookInv, NameInv, RecordInStep, counts
<1>10. QED
  BY <1>7, <1>8, <1>9 DEF BookInv

\* The lease at hand is put back: from here on it is saved and in step.
LEMMA SweepSaveBook ==
  ASSUME IndInv, BookInv, SweepSave
  PROVE  BookInv'
<1> DEFINE a == worker.addr
<1>1. /\ worker.step = "save" /\ a \in worker.look /\ a \in Addresses
      /\ lease' = [lease EXCEPT ![a] = worker.lease]
      /\ UNCHANGED <<changed, zone, del, deletes, crashes>>
      /\ \/ saved' = [saved EXCEPT ![a] = worker.lease] /\ errors' = errors
         \/ errors' = errors + 1 /\ saved' = saved
      /\ worker'.look = worker.look \ {a} /\ worker'.step # "save"
      /\ worker'.step = "idle" => worker'.look = {}
      /\ worker'.look # {} => worker'.saving = worker.saving
  BY DEF SweepSave, Proceed, Idle, IndInv, TypeOK, WorkerInv, BookInv, ListInv
<1>2. ListInv'
  BY <1>1 DEF BookInv, ListInv, Unlocked
<1>3. SaveInv'
  <2>1. SUFFICES ASSUME deletes = 0, errors' = 0, NEW b \in Addresses, saved'[b] # lease'[b]
                 PROVE  b \in changed \/ b \in worker'.look \cap worker'.saving
    BY <1>1 DEF SaveInv
  <2>2. errors = 0 /\ saved' = [saved EXCEPT ![a] = worker.lease]
    BY <1>1, <2>1 DEF IndInv, TypeOK
  <2>3. b # a /\ saved'[b] = saved[b] /\ lease'[b] = lease[b]
    BY <1>1, <2>1, <2>2 DEF IndInv, TypeOK
  <2>4. b \in changed \/ b \in worker.look \cap worker.saving
    BY <2>1, <2>2, <2>3 DEF BookInv, SaveInv
  <2>5. QED
    BY <1>1, <2>3, <2>4
<1>4. NameInv'
  <2>1. SUFFICES ASSUME deletes = 0, zone \/ crashes = 0,
                        NEW b \in Addresses \ (changed \cup worker'.look)
                 PROVE  RecordInStep(lease'[b])
    BY <1>1 DEF NameInv, RecordInStep
  <2>2. CASE b = a
    BY <1>1, <2>1, <2>2 DEF BookInv, NameInv, IndInv, TypeOK
  <2>3. CASE b # a
    BY <1>1, <2>1, <2>3 DEF BookInv, NameInv, IndInv, TypeOK
  <2>4. QED
    BY <2>2, <2>3
<1>5. QED
  BY <1>2, <1>3, <1>4 DEF BookInv

\* Deletions (after which nothing is promised), settings, time and restarts.
LEMMA OtherBook ==
  ASSUME IndInv, BookInv, Delete \/ Apply \/ Tick \/ Restart
  PROVE  BookInv'
<1> USE DEF counts
<1>1. CASE \E a \in Addresses : DeleteRemove(a)
  <2>1. deletes' # 0 /\ deletes' > 0 /\ worker' = worker /\ Unlocked
    BY <1>1 DEF DeleteRemove, IndInv, TypeOK
  <2>2. QED
    BY <2>1 DEF BookInv, ListInv, SaveInv, NameInv, Unlocked
<1>2. CASE DeleteStore
  <2>1. deletes' = deletes /\ deletes # 0 /\ deletes > 0 /\ worker' = worker
    BY <1>2 DEF DeleteStore, BookInv, ListInv
  <2>2. QED
    BY <2>1 DEF BookInv, ListInv, SaveInv, NameInv, Unlocked
<1>3. CASE DeleteForget
  <2>1. deletes' = deletes /\ deletes # 0 /\ deletes > 0 /\ worker' = worker /\ Unlocked
    BY <1>3 DEF DeleteForget, BookInv, ListInv
  <2>2. QED
    BY <2>1 DEF BookInv, ListInv, SaveInv, NameInv, Unlocked
<1>4. CASE Apply
  <2>1. /\ worker' = worker /\ Unlocked /\ changed' = changed \cup {a \in Addresses : Present(a)}
        /\ UNCHANGED <<lease, saved, del, deletes, errors, crashes>>
    BY <1>4 DEF Apply
  <2>2. \A a \in Addresses \ changed' : lease[a].rec = 0
    BY <2>1 DEF Present, NoLease
  <2>3. ListInv' /\ SaveInv'
    BY <2>1 DEF BookInv, ListInv, SaveInv, Unlocked
  <2>4. NameInv'
    BY <2>1, <2>2 DEF NameInv, RecordInStep, Unlocked
  <2>5. QED
    BY <2>3, <2>4 DEF BookInv
<1>5. CASE Tick
  <2>1. UNCHANGED <<lease, saved, changed, zone, worker, del, deletes, errors, crashes>>
    BY <1>5 DEF Tick
  <2>2. QED
    BY <2>1 DEF BookInv, ListInv, SaveInv, NameInv, RecordInStep, Unlocked
<1>6. CASE Restart
  <2>1. /\ lease' = saved /\ saved' = saved /\ zone' = zone
        /\ changed' = {a \in Addresses : zone /\ saved[a] # NoLease}
        /\ worker' = Idle /\ del' = NoDelete /\ crashes' # 0
    BY <1>6 DEF Restart, IndInv, TypeOK
  <2>2. ListInv' /\ SaveInv'
    BY <2>1 DEF ListInv, SaveInv, Unlocked, Idle, NoDelete
  <2>3. NameInv'
    BY <2>1 DEF NameInv, RecordInStep, NoLease, Idle
  <2>4. QED
    BY <2>2, <2>3 DEF BookInv
<1>7. QED
  BY <1>1, <1>2, <1>3, <1>4, <1>5, <1>6 DEF Delete
----------------------------------------------------------------------------
(* The theorems *)

\* The inductive invariant holds: with it, what a client was acknowledged is in
\* the table as its bound lease for as long as the client uses it.
THEOREM IndCorrect == Spec => []IndInv
<1>1. Init => IndInv
  <2>1. SUFFICES ASSUME Init PROVE IndInv
    OBVIOUS
  <2>2. TypeOK
    BY <2>1, BoundsAssumption DEF Init, TypeOK, Idle, NoDelete
  <2>3. WorkerInv /\ HeldIsLeased
    BY <2>1 DEF Init, WorkerInv, Idle, HeldIsLeased, Holds
  <2>4. QED
    BY <2>2, <2>3 DEF IndInv
<1>2. IndInv /\ [Next]_vars => IndInv'
  <2>1. SUFFICES ASSUME IndInv, [Next]_vars PROVE IndInv'
    OBVIOUS
  <2>2. CASE \E c \in Clients : Message(c)
    BY <2>1, <2>2, MessageInv
  <2>3. CASE Sweep
    BY <2>1, <2>3, SweepStartStep, SweepGoneStep, SweepDnsStep, SweepSaveStep DEF Sweep
  <2>4. CASE Delete \/ Apply \/ Tick \/ Restart
    BY <2>1, <2>4, DeleteStep, ApplyStep, TickStep, RestartStep
  <2>5. CASE UNCHANGED vars
    BY <2>1, <2>5 DEF IndInv, vars, counts, TypeOK, WorkerInv, HeldIsLeased, Holds
  <2>6. QED
    BY <2>1, <2>2, <2>3, <2>4, <2>5 DEF Next
<1>3. QED
  BY <1>1, <1>2, PTL DEF Spec

\* Type correctness of the DHCP service's state.
THEOREM TypeCorrect == Spec => []TypeOK
<1>1. IndInv => TypeOK
  BY DEF IndInv
<1>2. QED
  BY <1>1, IndCorrect, PTL

\* No address is used by two clients (as long as no lease is deleted in the console
\* and the server does not restart): both would have the one bound lease that the
\* address has.
THEOREM NoTwoHoldersCorrect == Spec => []NoTwoHolders
<1>1. IndInv => NoTwoHolders
  BY DEF IndInv, HeldIsLeased, NoTwoHolders
<1>2. QED
  BY <1>1, IndCorrect, PTL

\* The leases, seen from the network, are an AddressPool: every message, sweep,
\* setting and tick gives one client one address that nobody else uses, or takes
\* addresses away; only a deletion or a restart loses track.
THEOREM PoolImplementedCorrect == Spec => PoolImplemented
<1>1. Init => Pool!PoolInit
  <2>1. SUFFICES ASSUME Init PROVE Pool!PoolInit
    OBVIOUS
  <2>2. \A c \in Clients, a \in Addresses : ~Holds(c, a)
    BY <2>1 DEF Init, Holds
  <2>3. Addresses = Pool!PoolAddresses
    BY DEF Addresses, Pool!PoolAddresses
  <2>4. QED
    BY <2>1, <2>2, <2>3 DEF Init, Pool!PoolInit
<1>2. IndInv /\ [Next]_vars =>
        [Pool!PoolNext]_<<[a \in Addresses |-> {c \in Clients : Holds(c, a)}],
                          deletes = 0 /\ crashes = 0>>
  <2>1. SUFFICES ASSUME IndInv, [Next]_vars, ~UNCHANGED vars PROVE Pool!PoolNext
    BY DEF vars, counts, Holds
  <2>2. QED
    BY <2>1, MessagePool, OtherPool DEF Next, IndInv
<1>3. QED
  BY <1>1, <1>2, IndCorrect, PTL DEF Spec, PoolImplemented, Pool!PoolSpec

\* The worker's list covers what is not saved, or out of step.
THEOREM BookCorrect == Spec => []BookInv
<1>1. Init => BookInv
  BY DEF Init, BookInv, ListInv, SaveInv, NameInv, RecordInStep, NoLease, Idle, NoDelete, Unlocked
<1>2. IndInv /\ BookInv /\ [Next]_vars => BookInv'
  <2>1. SUFFICES ASSUME IndInv, BookInv, [Next]_vars PROVE BookInv'
    OBVIOUS
  <2>2. CASE UNCHANGED vars
    BY <2>1, <2>2 DEF vars, counts, BookInv, ListInv, SaveInv, NameInv, RecordInStep, Unlocked
  <2>3. CASE Sweep
    BY <2>1, <2>3, SweepStartBook, SweepGoneBook, SweepDnsBook, SweepSaveBook DEF Sweep
  <2>4. QED
    BY <2>1, <2>2, <2>3, MessageBook, OtherBook DEF Next
<1>3. QED
  BY <1>1, <1>2, IndCorrect, PTL DEF Spec

\* At rest, with nothing left for the worker, the store holds the lease table.
THEOREM SavedInStepCorrect == Spec => []SavedInStep
<1>1. IndInv /\ BookInv => SavedInStep
  BY DEF IndInv, TypeOK, BookInv, ListInv, SaveInv, SavedInStep
<1>2. QED
  BY <1>1, IndCorrect, BookCorrect, PTL

\* At rest, no record is kept for a lease that was released, ran out or was renamed.
THEOREM NamesInStepCorrect == Spec => []NamesInStep
<1>1. BookInv => NamesInStep
  BY DEF BookInv, ListInv, NameInv, RecordInStep, NamesInStep
<1>2. QED
  BY <1>1, BookCorrect, PTL
=============================================================================
