----------------------------- MODULE DhcpLeases -----------------------------
(***************************************************************************)
(* The DHCP service: the lease table in memory, the DHCPv4 and DHCPv6      *)
(* handlers that change it, the worker that expires leases, saves them in  *)
(* the store and keeps their DNS records in step, and the console's        *)
(* deletion of a lease.  A message is handled in one step, under the       *)
(* service's state lock; the worker holds that lock through a sweep, but   *)
(* the server may stop between two of its store calls; a deletion holds it *)
(* only to take the lease out of the table and at its end.                 *)
(*                                                                         *)
(* An address record and the PTR record made with it are one DNS record.   *)
(***************************************************************************)
EXTENDS Integers, FiniteSets, FiniteSetsExt

CONSTANTS
  Clients,       \* client identities (client identifier or MAC, DUID and IAID)
  Range4,        \* the addresses of the DHCPv4 scope's range: numbers
  Range6,        \* the addresses of the DHCPv6 scope's range
  Reserved4,     \* [client -> address] reservations, in or out of the range
  Reserved6,
  Names,         \* host names
  HostNames,     \* [client -> names it may send], NoName if it sends none
  OfferSecs,     \* how long an offer holds its address
  LeaseSecs,     \* the length of a lease
  DeclineSecs,   \* how long a declined address is skipped
  KeepSecs,      \* how long a released lease is kept
  MaxTime,       \* bound on the clock
  MaxRecords,    \* bound on the DNS records registered
  MaxMessages,   \* bound on the messages handled
  MaxTroubles    \* bound on changes of dns_zone, deletions in the console, store
                 \* calls that fail and restarts, together

Families == {"v4", "v6"}
NoName == "none"
Declined == "declined"

\* The addresses a scope can hand out, in its range or by a reservation.
ScopeRange(f) == IF f = "v4" THEN Range4 ELSE Range6
Reservations(f) == IF f = "v4" THEN Reserved4 ELSE Reserved6
ReservedTo(f, c) == {Reservations(f)[d] : d \in DOMAIN Reservations(f) \cap {c}}
ReservedForOther(f, a, c) ==
  \E d \in DOMAIN Reservations(f) \ {c} : Reservations(f)[d] = a
Addresses4 == Range4 \cup {Reserved4[c] : c \in DOMAIN Reserved4}
Addresses6 == Range6 \cup {Reserved6[c] : c \in DOMAIN Reserved6}
AddressesOf(f) == IF f = "v4" THEN Addresses4 ELSE Addresses6
Addresses == Addresses4 \cup Addresses6
FamilyOf(a) == IF a \in Addresses4 THEN "v4" ELSE "v6"

ASSUME AddressAssumption ==
  /\ Addresses \subseteq Nat \ {0}
  /\ Addresses4 \cap Addresses6 = {}
ASSUME ReservedAssumption ==
  \A f \in Families : \A c, d \in DOMAIN Reservations(f) :
    c \in Clients /\ (Reservations(f)[c] = Reservations(f)[d] => c = d)
ASSUME TimesAssumption ==
  /\ OfferSecs \in Nat \ {0} /\ LeaseSecs \in Nat \ {0}
  /\ DeclineSecs \in Nat \ {0} /\ KeepSecs \in Nat
ASSUME BoundsAssumption ==
  MaxTime \in Nat /\ MaxRecords \in Nat /\ MaxMessages \in Nat /\ MaxTroubles \in Nat
ASSUME NamesAssumption ==
  /\ NoName \notin Names /\ Declined \notin Clients
  /\ HostNames \in [Clients -> SUBSET (Names \cup {NoName})]

VARIABLES
  lease,     \* Leases.by_address
  changed,   \* Leases.changed: not yet looked at by the worker
  saved,     \* the dhcp_leases table
  dns,       \* the DNS records that leases registered, by id
  ids,       \* number of records registered so far: the next record's id
  zone,      \* is the dns_zone setting a hosted zone?
  now,       \* the clock
  worker,    \* the sweep: its step, the addresses left and the lease at hand
  del,       \* the deletion in progress: its step, address and record
  held,      \* until when each client may use each address (0: it may not)
  messages,  \* number of messages handled
  settings, deletes, errors, crashes  \* how often each has happened

vars == <<lease, changed, saved, dns, ids, zone, now, worker, del, held,
          messages, settings, deletes, errors, crashes>>
counts == <<settings, deletes, errors, crashes>>

\* A DhcpLease.  dns_name and rec are the name and the record it registered.
Lease == [client : Clients \cup {Declined}, name : Names \cup {NoName},
          state : {"offered", "bound", "declined", "released"},
          expires : Nat, dns_name : Names \cup {NoName}, rec : 0 .. MaxRecords]
NoLease == [client |-> Declined, name |-> NoName, state |-> "none", expires |-> 0,
            dns_name |-> NoName, rec |-> 0]

Idle == [step |-> "idle", look |-> {}, saving |-> {}, addr |-> 0, lease |-> NoLease]
NoDelete == [step |-> "idle", addr |-> 0, rec |-> 0]

TypeOK ==
  /\ lease \in [Addresses -> Lease \cup {NoLease}]
  /\ saved \in [Addresses -> Lease \cup {NoLease}]
  /\ changed \subseteq Addresses
  /\ dns \subseteq [id : 1 .. MaxRecords, name : Names, addr : Addresses]
  /\ ids \in 0 .. MaxRecords
  /\ zone \in BOOLEAN
  /\ now \in 0 .. MaxTime
  /\ worker \in [step : {"idle", "dns", "save"}, look : SUBSET Addresses,
                 saving : SUBSET Addresses, addr : Addresses \cup {0},
                 lease : Lease \cup {NoLease}]
  /\ del \in [step : {"idle", "store", "forget"}, addr : Addresses \cup {0},
              rec : 0 .. MaxRecords]
  /\ held \in [Clients -> [Addresses -> Nat]]
  /\ messages \in 0 .. MaxMessages
  /\ settings \in Nat /\ deletes \in Nat /\ errors \in Nat /\ crashes \in Nat

Init ==
  /\ lease = [a \in Addresses |-> NoLease]
  /\ saved = lease
  /\ changed = {} /\ dns = {} /\ ids = 0
  /\ zone = TRUE /\ now = 0
  /\ worker = Idle /\ del = NoDelete
  /\ held = [c \in Clients |-> [a \in Addresses |-> 0]]
  /\ messages = 0 /\ settings = 0 /\ deletes = 0 /\ errors = 0 /\ crashes = 0
Trouble == settings + deletes + errors + crashes < MaxTroubles
----------------------------------------------------------------------------
(* Which address a client gets *)

Present(a) == lease[a] # NoLease

\* (mutant: an address is free as soon as its holder's offer or lease is not
\* bound, whatever its expiry)
FreeForOffered(a, c) ==
  \/ ~Present(a)
  \/ lease[a].client = c /\ lease[a].state # "declined"
  \/ lease[a].expires <= now \/ lease[a].state # "declined"

\* Leases::free_for
FreeFor(a, c) ==
  \/ ~Present(a)
  \/ lease[a].client = c /\ lease[a].state # "declined"
  \/ lease[a].expires <= now \/ lease[a].state = "released"

Usable(f, a, c) ==
  /\ a \in ScopeRange(f) \/ a \in ReservedTo(f, c)
  /\ FreeFor(a, c)
  /\ ~ReservedForOther(f, a, c)

\* Leases::of_client: at most one address, the first of the client's.
OfClient(f, c) ==
  LET mine == {a \in AddressesOf(f) :
                 /\ lease[a].client = c
                 /\ lease[a].state \in {"offered", "bound"}
                 /\ lease[a].expires > now}
  IN IF mine = {} THEN {} ELSE {Min(mine)}

\* choose: the reservation, the current lease, an address asked for, the range.
\* The first of these that has a usable address decides; its usable addresses.
Candidates(f, c, asked) ==
  LET prefer == <<ReservedTo(f, c), OfClient(f, c), asked, ScopeRange(f)>>
      fit(i) == {a \in prefer[i] : Usable(f, a, c)}
      some == {i \in 1 .. 4 : fit(i) # {}}
  IN IF some = {} THEN {} ELSE fit(Min(some))

NewLease(c, name, state, secs) ==
  [client |-> c, name |-> name, state |-> state, expires |-> now + secs,
   dns_name |-> NoName, rec |-> 0]

\* A handler runs under the state lock, which a sweep holds to its end.
Unlocked == worker.step = "idle"
Receives == Unlocked /\ messages < MaxMessages

\* Leases::put, update and remove, for one or several addresses.
Change(as, l) ==
  /\ lease' = l
  /\ changed' = changed \cup as

Handled ==
  /\ messages' = messages + 1
  /\ UNCHANGED <<saved, dns, ids, zone, now, worker, del, counts>>

\* What a client uses: it uses an address it was given until then, and no
\* other address of that family any more.
Uses(c, f, a, until) ==
  held' = [held EXCEPT ![c] =
    [b \in Addresses |-> IF b = a THEN until
                         ELSE IF b \in AddressesOf(f) THEN 0 ELSE held[c][b]]]
Stops(c, a) == held' = [held EXCEPT ![c][a] = 0]
Holds(c, a) == held[c][a] > now
----------------------------------------------------------------------------
(* DHCPv4 *)

\* DISCOVER: offer an address; an older offer of another address goes.  (The name
\* in an offer is never looked at: the REQUEST brings its own.)
Discover(c, asked) ==
  LET fit == Candidates("v4", c, asked)
      a == Min(fit)
      older == {b \in OfClient("v4", c) : b # a /\ lease[b].state = "offered"}
      bound == lease[a].state = "bound" /\ lease[a].client = c /\ lease[a].expires > now
  IN /\ Receives
     /\ fit # {}
     /\ Change(older \cup (IF bound THEN {} ELSE {a}),
               [b \in Addresses |->
                  IF b \in older THEN NoLease
                  ELSE IF b = a /\ ~bound THEN NewLease(c, NoName, "offered", OfferSecs)
                  ELSE lease[b]])
     /\ UNCHANGED held /\ Handled

\* REQUEST for another server: our offer is withdrawn.
RequestElsewhere(c) ==
  /\ Receives
  /\ \E a \in OfClient("v4", c) :
       /\ lease[a].state = "offered"
       /\ Change({a}, [lease EXCEPT ![a] = NoLease])
  /\ UNCHANGED held /\ Handled

\* The lease REQUEST and the DHCPv6 assignment leave on a: a renewal, or a new
\* lease that keeps the DNS record of the client's old one.
Bound(a, c, name) ==
  LET old == lease[a]
      mine == old.client = c
  IN IF mine /\ old.state = "bound" /\ old.name = name
     THEN [old EXCEPT !.expires = now + LeaseSecs]
     ELSE [NewLease(c, name, "bound", LeaseSecs) EXCEPT
             !.dns_name = IF mine THEN old.dns_name ELSE NoName,
             !.rec = IF mine THEN old.rec ELSE 0]

\* REQUEST for an address the client may have: ACK.
Request(c, a, name) ==
  /\ Receives
  /\ a \in Addresses4 /\ Usable("v4", a, c)
  /\ Change({a}, [lease EXCEPT ![a] = Bound(a, c, name)])
  /\ Uses(c, "v4", a, now + LeaseSecs)
  /\ Handled

\* REQUEST for an address the client may not have: NAK, and the client stops.
RequestNak(c, a) ==
  /\ Receives
  /\ a \in Addresses4 /\ ~Usable("v4", a, c)
  /\ Holds(c, a) /\ Stops(c, a)
  /\ UNCHANGED <<lease, changed>> /\ Handled

\* The lease a DECLINE and a RELEASE leave, in either family.
SetDeclined(l) ==
  [l EXCEPT !.state = "declined", !.client = Declined, !.expires = now + DeclineSecs]

SetReleased(l) == [l EXCEPT !.state = "released", !.expires = now]

\* DECLINE of an address somebody else is found to use.
Decline(c, a) ==
  /\ Receives
  /\ a \in Addresses4 /\ lease[a].client = c
  /\ Change({a}, [lease EXCEPT ![a] = SetDeclined(@)])
  /\ Stops(c, a)
  /\ Handled

\* RELEASE of an address.
Release(c, a) ==
  /\ Receives
  /\ a \in Addresses4 /\ lease[a].client = c
  /\ Change({a}, [lease EXCEPT ![a] = SetReleased(@)])
  /\ Stops(c, a)
  /\ Handled
----------------------------------------------------------------------------
(* DHCPv6 *)

\* assign, for one association: the client's lease on another address is
\* released; the chosen address is bound, or offered unless it is bound already.
Assign(c, asked, name, bind) ==
  /\ \E a \in Candidates("v6", c, asked) :
       LET older == OfClient("v6", c) \ {a}
           keep == lease[a].client = c /\ lease[a].state = "bound" /\ lease[a].expires > now
           given == IF bind THEN Bound(a, c, name)
                    ELSE IF keep THEN lease[a]
                    ELSE NewLease(c, NoName, "offered", OfferSecs)
       IN /\ Change(older \cup (IF ~bind /\ keep THEN {} ELSE {a}),
                    [b \in Addresses |-> IF b = a THEN given
                                         ELSE IF b \in older THEN SetReleased(lease[b])
                                         ELSE lease[b]])
          /\ IF bind THEN Uses(c, "v6", a, now + LeaseSecs) ELSE UNCHANGED held
  /\ Handled

\* SOLICIT by a client without an address: an advertisement.
Solicit(c, asked) ==
  /\ Receives
  /\ \A a \in Addresses6 : ~Holds(c, a)
  /\ Assign(c, asked, NoName, FALSE)

\* REQUEST, RENEW, REBIND, and SOLICIT with rapid commit: a client that uses
\* addresses names them, another one may ask for any.
Renew(c, asked, name) ==
  /\ Receives
  /\ {a \in Addresses6 : Holds(c, a)} \subseteq asked
  /\ Assign(c, asked, name, TRUE)

\* RELEASE and DECLINE of an address of an association.
GiveBack(c, a, decline) ==
  /\ Receives
  /\ a \in Addresses6 /\ lease[a].client = c
  /\ Change({a}, [lease EXCEPT ![a] = IF decline THEN SetDeclined(@) ELSE SetReleased(@)])
  /\ Stops(c, a)
  /\ Handled

\* A client that starts again has forgotten its addresses.
ClientRestarts(c) ==
  /\ messages < MaxMessages
  /\ \E a \in Addresses : Holds(c, a)
  /\ held' = [held EXCEPT ![c] = [a \in Addresses |-> 0]]
  /\ UNCHANGED <<lease, changed>> /\ Handled
----------------------------------------------------------------------------
(* The worker *)

\* The addresses Leases::expire changes, and the table it leaves.
ExpiredChanges(l) ==
  {a \in Addresses : l[a] # NoLease /\ l[a].expires <= now
                     /\ (l[a].state # "released" \/ l[a].expires + KeepSecs <= now)}

\* Mutant of Expired: a bound lease is let go a second early.
ExpiredEarly(l) ==
  [a \in Addresses |->
     IF l[a].state \in {"offered", "declined"} /\ l[a].expires <= now THEN NoLease
     ELSE IF l[a].state \in {"bound", "released"} /\ l[a].expires + KeepSecs <= now THEN NoLease
     ELSE IF l[a].state = "bound" /\ l[a].expires <= now + 1 THEN [l[a] EXCEPT !.state = "released"]
     ELSE l[a]]

Expired(l) ==
  [a \in Addresses |->
     IF l[a].state \in {"offered", "declined"} /\ l[a].expires <= now THEN NoLease
     ELSE IF l[a].state \in {"bound", "released"} /\ l[a].expires + KeepSecs <= now THEN NoLease
     ELSE IF l[a].state = "bound" /\ l[a].expires <= now THEN [l[a] EXCEPT !.state = "released"]
     ELSE l[a]]

\* ddns::wanted_name
WantedName(l) == IF l.state = "bound" /\ zone THEN l.name ELSE NoName

\* sweep: expire leases; look at those changed and at those without their name.
SweepStart ==
  /\ Unlocked
  /\ LET l == Expired(lease)
         changes == changed \cup ExpiredChanges(lease)
         waiting == {a \in Addresses : WantedName(l[a]) \notin {NoName, l[a].dns_name}}
     IN /\ changes \cup waiting # {}
        /\ lease' = l
        /\ changed' = {}
        /\ worker' = [Idle EXCEPT !.step = "dns", !.look = changes \cup waiting,
                                  !.saving = changes]
  /\ UNCHANGED <<saved, dns, ids, zone, now, del, held, messages, counts>>

\* The worker goes on with the addresses left, and then gives up the lock.
Proceed(left) ==
  worker' = IF left = {} THEN Idle
            ELSE [worker EXCEPT !.step = "dns", !.look = left, !.addr = 0, !.lease = NoLease]

\* (mutant: the row of a lease that was removed is left in the store)
SweepGoneKept(a) ==
  /\ worker.step = "dns" /\ a \in worker.look /\ ~Present(a)
  /\ Proceed(worker.look \ {a})
  /\ UNCHANGED <<lease, changed, saved, dns, ids, zone, now, del, held, messages, counts>>

\* A lease that was removed is deleted in the store (or that fails).
SweepGone(a) ==
  /\ worker.step = "dns" /\ a \in worker.look /\ ~Present(a)
  /\ \/ saved' = [saved EXCEPT ![a] = NoLease] /\ UNCHANGED errors
     \/ Trouble /\ errors' = errors + 1 /\ UNCHANGED saved
  /\ Proceed(worker.look \ {a})
  /\ UNCHANGED <<lease, changed, dns, ids, zone, now, del, held, messages, settings, deletes, crashes>>

\* ddns::register refuses a name that has a record no lease lists, or one of the
\* same type.  ours: the records of the leases, without the lease at hand's.
CanRegister(name, a, records) ==
  LET ours == {lease[b].rec : b \in Addresses \ {a}}
      at == {r \in records : r.name = name}
  IN /\ \A r \in at : r.id \in ours
     /\ \A r \in at : FamilyOf(r.addr) # FamilyOf(a)

\* The DNS records of the next lease are brought in line: the old record goes,
\* and the name the lease should have is registered if it can be.
SweepDns(a) ==
  LET l == lease[a]
      want == WantedName(l)
      inPlace == /\ want # NoName /\ want = l.dns_name
                 /\ \E r \in dns : r.id = l.rec
      rest == {r \in dns : r.id # l.rec}
      bare == [l EXCEPT !.dns_name = NoName, !.rec = 0]
      register == ~inPlace /\ want # NoName /\ CanRegister(want, a, rest)
      modified == ~inPlace /\ (l.rec # 0 \/ register)
  IN /\ worker.step = "dns" /\ a \in worker.look /\ Present(a)
     /\ register => ids < MaxRecords
     /\ ids' = IF register THEN ids + 1 ELSE ids
     /\ dns' = IF inPlace THEN dns
               ELSE IF register THEN rest \cup {[id |-> ids + 1, name |-> want, addr |-> a]}
               ELSE rest
     /\ IF modified \/ a \in worker.saving
        THEN worker' = [worker EXCEPT !.step = "save", !.addr = a, !.lease =
               IF inPlace THEN l
               ELSE IF register THEN [l EXCEPT !.dns_name = want, !.rec = ids + 1]
               ELSE bare]
        ELSE Proceed(worker.look \ {a})
     /\ UNCHANGED <<lease, changed, saved, zone, now, del, held, messages, counts>>

\* The lease is saved (or that fails), and put back in the table.
SweepSave ==
  LET a == worker.addr
  IN /\ worker.step = "save"
     /\ \/ saved' = [saved EXCEPT ![a] = worker.lease] /\ UNCHANGED errors
        \/ Trouble /\ errors' = errors + 1 /\ UNCHANGED saved
     /\ lease' = [lease EXCEPT ![a] = worker.lease]
     /\ Proceed(worker.look \ {a})
     /\ UNCHANGED <<changed, dns, ids, zone, now, del, held, messages, settings, deletes, crashes>>
----------------------------------------------------------------------------
(* The console, the clock and restarts *)

\* (mutant: a new dns_zone is used for leases that change from now on)
ApplyUntouched ==
  /\ Unlocked
  /\ Trouble
  /\ settings' = settings + 1
  /\ zone' = ~zone
  /\ UNCHANGED <<lease, changed, saved, dns, ids, now, worker, del, held, messages, deletes, errors, crashes>>

\* apply with another dns_zone: every lease is looked at again.
Apply ==
  /\ Unlocked
  /\ Trouble
  /\ settings' = settings + 1
  /\ zone' = ~zone
  /\ changed' = changed \cup {a \in Addresses : Present(a)}
  /\ UNCHANGED <<lease, saved, dns, ids, now, worker, del, held, messages, deletes, errors, crashes>>

\* delete_lease: the lease is taken out of the table under the lock,
DeleteRemove(a) ==
  /\ Unlocked
  /\ del.step = "idle" /\ Present(a)
  /\ Trouble /\ deletes' = deletes + 1
  /\ Change({a}, [lease EXCEPT ![a] = NoLease])
  /\ del' = [step |-> "store", addr |-> a, rec |-> lease[a].rec]
  /\ UNCHANGED <<saved, dns, ids, zone, now, worker, held, messages, settings, errors, crashes>>

\* its DNS record and its row are deleted without it,
DeleteStore ==
  /\ del.step = "store"
  /\ dns' = {r \in dns : r.id # del.rec}
  /\ saved' = [saved EXCEPT ![del.addr] = NoLease]
  /\ del' = [del EXCEPT !.step = "forget"]
  /\ UNCHANGED <<lease, changed, ids, zone, now, worker, held, messages, counts>>

\* and the change is dropped, as it was written out.
DeleteForget ==
  /\ Unlocked
  /\ del.step = "forget"
  /\ changed' = changed \ {del.addr}
  /\ del' = NoDelete
  /\ UNCHANGED <<lease, saved, dns, ids, zone, now, worker, held, messages, counts>>

\* The clock: it is read at the start of a sweep, so it may as well stand still
\* until the sweep has ended.
Tick ==
  /\ Unlocked
  /\ now < MaxTime
  /\ now' = now + 1
  /\ UNCHANGED <<lease, changed, saved, dns, ids, zone, worker, del, held, messages, counts>>

\* The server stops anywhere and starts again with the leases in the store.  Its
\* first apply finds another dns_zone than the default (none), if there is one.
Restart ==
  /\ Trouble /\ crashes' = crashes + 1
  /\ lease' = saved
  /\ changed' = {a \in Addresses : zone /\ saved[a] # NoLease}
  /\ worker' = Idle /\ del' = NoDelete
  /\ UNCHANGED <<saved, dns, ids, zone, now, held, messages, settings, deletes, errors>>
----------------------------------------------------------------------------
Message4(c) ==
  \/ \E asked \in {{}} \cup {{a} : a \in Addresses4} : Discover(c, asked)
  \/ RequestElsewhere(c)
  \/ \E a \in Addresses4 :
       \/ \E n \in HostNames[c] : Request(c, a, n)
       \/ RequestNak(c, a) \/ Decline(c, a) \/ Release(c, a)

Message6(c) ==
  \/ \E asked \in {{}} \cup {{a} : a \in Addresses6} :
       Solicit(c, asked) \/ \E n \in HostNames[c] : Renew(c, asked, n)
  \/ \E a \in Addresses6, decline \in BOOLEAN : GiveBack(c, a, decline)

Message(c) == Message4(c) \/ Message6(c) \/ ClientRestarts(c)

Sweep == SweepStart \/ (\E a \in Addresses : SweepGone(a) \/ SweepDns(a)) \/ SweepSave

Delete == (\E a \in Addresses : DeleteRemove(a)) \/ DeleteStore \/ DeleteForget

Next == (\E c \in Clients : Message(c)) \/ Sweep \/ Delete \/ Apply \/ Tick \/ Restart

Spec == Init /\ [][Next]_vars
----------------------------------------------------------------------------
(* Properties *)

\* No address is used by two clients at a time, whatever they ask for and in
\* which order, as long as no lease is deleted in the console and no restart
\* loses one: an address is not handed out again before the lease that was
\* acknowledged for it has run out, was released or was declined.
NoTwoHolders ==
  deletes = 0 /\ crashes = 0 =>
    \A c, d \in Clients, a \in Addresses : Holds(c, a) /\ Holds(d, a) => c = d

\* At rest, with nothing left for the worker, the store holds the lease table:
\* a restart would change nothing.
SavedInStep ==
  Unlocked /\ changed = {} /\ deletes = 0 /\ errors = 0 => saved = lease

\* At rest, a lease that lists a DNS record is bound and the record has its
\* present name: no record is kept for a lease that was released, ran out or was
\* renamed, nor after the zone for lease names was taken away (unless the server
\* stopped before it had acted on that).
NamesInStep ==
  Unlocked /\ changed = {} /\ deletes = 0 /\ (zone \/ crashes = 0) =>
    \A a \in Addresses : lease[a].rec # 0 =>
      zone /\ lease[a].state = "bound" /\ lease[a].dns_name = lease[a].name

\* "The lease keeps their ids so they can be removed again": every record that
\* was registered is listed by a lease, or is being worked on.
RecordsKept ==
  Unlocked /\ del.step = "idle" =>
    \A r \in dns : \E a \in Addresses : lease[a].rec = r.id

\* A bound lease a client relies on is in the table, for that client.
HeldIsLeased ==
  deletes = 0 /\ crashes = 0 =>
    \A c \in Clients, a \in Addresses : Holds(c, a) =>
      lease[a].client = c /\ lease[a].state = "bound" /\ lease[a].expires >= held[c][a]

\* The leases, seen from the network, are an AddressPool: the addresses a client
\* relies on are given to it one at a time, each while nobody else relies on it,
\* through offers, renewals, releases, declines, expiry, sweeps and changes of
\* settings, for as long as no lease is deleted and no restart loses one.
Pool == INSTANCE AddressPool WITH
          PoolClients <- Clients,
          PoolFamilies <- {Addresses4, Addresses6},
          users <- [a \in Addresses |-> {c \in Clients : Holds(c, a)}],
          sound <- (deletes = 0 /\ crashes = 0)
PoolImplemented == Pool!PoolSpec
=============================================================================
