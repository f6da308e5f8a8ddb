# Daygle DNS: a verification development in TLA+

Daygle DNS (`src/`, Rust, ten crates) is a DNS server in one process: it answers
authoritatively for the zones in its SQLite store, resolves and caches other
names, filters both with policies, serves DHCP, and is administered over an HTTP
API. This directory holds TLA+ modules that model its stateful parts, the TLC
configurations that check them on small instances and TLAPS proofs of most of them.
`PROJECT.json` lists the components, the runs, the mutants that show each
property can fail, the source lines behind every definition, the findings and
the hazards the properties are aimed at.

## The parts of the system

| Part | State it keeps | Operations | What makes it hard | What makes it correct |
|---|---|---|---|---|
| Zone store (`daygle-dns-authoritative/src/store.rs`) | zones, records, keys, accounts, sessions, leases in SQLite | one transaction per call; handlers combine calls without a common transaction | a handler reads in one transaction and writes in another | a change of the records is a change of the serial, which only moves forward (RFC 1982) |
| Catalog and NOTIFY (`catalog.rs`, `notify.rs`) | published zones, `reload_lock`, changed zones, wake-up permit | `reload`, lookups, transfers, announcements | rows and records are read separately, reloads overlap and fail half-way | what is served is never older than its serial says, never goes back, is in the end what the store holds, and is announced |
| Secondaries (`secondary.rs`) and catalog zones (`catalog_zone.rs`) | lists of zones, `refreshing` lock, members owned by a catalog | poll, transfer, store in several commits, reconcile | masters lag and fail, stops between commits, the console changes the lists | data belongs to its serial, catches up; zones made by hand are left alone |
| DNSSEC maintenance (`dnssec.rs`) | keys with states and times | renew signatures, roll keys over | restarts, one zone of several failing | a validator finds a chain at every moment |
| Health checks (`health.rs`) | hysteresis per record, set of failing ones | probe, publish | a rebuild fails, checks and records change | no dead address is answered while a live one is there |
| Query path (`dispatcher.rs`, `daygle-dns-policy`) | snapshots of policy, groups, response policy zones, resolver, configuration | one pass per query through some twenty stages | each snapshot is swapped by itself while a query waits | one policy per query, trust respected, every query logged once |
| Resolver (`daygle-dns-recursive`) | last good answers, failures, popular names, snapshot file | route, look up, prefetch, serve stale, persist | answers come late, resolvers are rebuilt | an answer stays on its route, and not for ever |
| Limits and listeners (`rate_limit.rs`, `rrl.rs`, `cookies.rs`, `dot.rs`, `doh.rs`, `doq.rs`) | buckets, accounts, permits, queues | charge, sweep; accept, read, answer, let go | full tables, silent clients | limits hold, and what is taken is given back |
| Lists (`blocklist_source.rs`, `feeds.rs`, `rpz.rs`, `safe_browsing.rs`, `root_zone.rs`) | what was fetched, from where, when | fetch, check, merge, publish | a fetch ends after its source has changed | what is applied is what the present source gave and proved |
| AI scanner (`daygle-dns-ml`) | verdicts, overrides, three snapshots | scan, relabel, exempt | two publishers, settings that change meanwhile | the operator's decision wins |
| DHCP (`daygle-dns-dhcp`) | leases in memory and in the store, their DNS names | DISCOVER/REQUEST/DECLINE/RELEASE, sweep, delete | retransmissions, a crash between ACK and save | no address for two clients |
| Console access (`daygle-dns-api`) | users, sessions, tokens, two-factor, throttle | log in, confirm, revoke, change | steps of requests interleave | no access without every factor, none after revocation |
| Control plane (`handlers.rs`, `reload.rs`, `web.rs`) | file, overlay, live configuration, listeners, rebuild queue | save, reload, rebind | one step of several failing | what was accepted is kept and in force |
| Jobs (`update.rs`, `acme.rs`, `backup.rs`, the query logs) | state files, staged files, challenges, queues | update, renew, back up, restore, log | processes die in between | a job that ends leaves things whole |

## Modules

| Module | Models | Run | Proofs |
|---|---|---|---|
| `SerialArith` | wrapping increment and RFC 1982 comparison | (used by the next two and `PolicyZones`) | `ZonePublishProofs` |
| `ZonePublish` | the primary side: rows, writers, reload, NOTIFY, outbound transfers, restarts | `publish_*` | `ZonePublishProofs` |
| `SecondaryRefresh` | the refresh loop, inbound NOTIFY, masters, storing a transfer | `secondary_*` | `SecondaryRefreshProofs` |
| `DhcpLeases`, `AddressPool` | the lease table and its messages; what it promises | `dhcp_*` | `DhcpLeasesProofs` |
| `ConsoleAccess` | accounts, login, sessions, tokens | `console_access`, `session_outlives_change` | `ConsoleAccessProofs` |
| `PolicyRules`, `QueryPath` | decisions as operators; a query's way through the dispatcher | `serving` | `QueryPathProofs` |
| `ControlPlane` | settings from the form to the listeners | `serving` | `ServingProofs` |
| `ClientSessions`, `ClientThrottles` | encrypted connections; cookies, query and response limits | `serving` | `ServingProofs` |
| `AiScanner` | scan cycle, snapshots, overrides | `serving` | `ServingProofs` |
| `ResolverCache` | routes, cache assistant, snapshot file | `upkeep`, `policy_answers_cross` | `ServingProofs` |
| `DnssecRollover`, `CatalogMembers`, `HealthFailover` | background jobs of the authoritative side | `upkeep` | `UpkeepProofs` |
| `BlocklistFeeds`, `SafeBrowsing`, `RootCopy` | what is fetched and applied | `upkeep` | `UpkeepProofs` |
| `SelfUpdate`, `AcmeCerts`, `BackupRestore` | jobs around the server | `upkeep` | `UpkeepProofs` |
| `PolicyZones`, `QueryLogs` | response policy zones; the four sinks of the query log | `upkeep` | `SiftingProofs` |
| `Sifting` | what a filter keeps of a list | (used by the two before) | `SiftingProofs` |

Each `MC...` module instantiates the modules it extends for TLC. `MCServing` and
`MCUpkeep` hold several components that share no state at this level of detail: a
variable `part`, chosen at the start, says which of them takes steps, so the state
space of the run is the sum of theirs, and each property is about one of them. The
variables and bounds of those modules carry a two-letter prefix for that reason.
What components see of each other is part of their modules: a query sees a change
of settings as one `Republish`, a query's arrival is one step of `ClientSessions`
and `ClientThrottles`, the members of `CatalogMembers` are the list of zones of
`SecondaryRefresh`, and the reload every writer ends with is that of `ZonePublish`.

### ZonePublish

State: `row` (one row of the zone table per name), `served`, `serials`,
`changed` (fields of `AuthorityCatalog`), the locks `reload_lock`, `update_lock`
and the configuration write lock, `permit` (the stored permit of the
`zones_changed` `Notify`), one program counter and job per thread, the NOTIFY
task, and for each zone the last copy an outbound transfer handed out. The data
of a zone is the number of the commit that made it; serials are exact.

Threads run the code's sequences of transactions: `Edit` (record edits,
enabling, deletion, creation: one commit and a reload), `Import` (creation and
records in two commits), `EditSoa` (`update_zone_soa`: read, write, bump) and
`Update` (RFC 2136: check under `update_lock`, read, apply). Every one of them
ends in `Reload`: rows, then records, then publish, then report to the NOTIFY
task, under `reload_lock`, with failures before and after publishing. `Restart`
drops everything in memory and re-imports zone files. `Half = 8` makes the serials
wrap inside the bound (`FirstSerial = 14`). At the start a zone is in the store or is
still to be made.

### SecondaryRefresh

State: the primary's version and each master's, the stored row (serial, records,
kept transfer, touched: four commits), what is served, the refresher's list, the
loop and the NOTIFY tasks with their snapshots, the `refreshing` lock and the
console handler. A version stands for the data, `SerialAt` gives its serial.

### DhcpLeases and AddressPool

State: `lease`, `changed` (the `Leases` struct), `saved` (the table), `dns` (the
records leases registered, with their ids), the worker and the deletion in
progress. `held` is what the clients believe: until when each may use which
address. A client may send any message at any time; what it was acknowledged it
uses until it gives it back, is refused or it runs out.

`AddressPool` is the promise without the table: an address is given only while
nobody else uses it, a client that is given one leaves the others of its family,
and the promise ends when the service loses track (a deletion by hand, a restart).
`PoolImplemented` is the refinement, with `users` read off `held`.

### ConsoleAccess

State: `user`, `twofactor`, `tokens` (the tables), `session` (each session in
memory and in `console_sessions`), `failures` (the throttle of the one client
address), the permits of `PASSWORD_WORK`, the two locks `SETUP_LOCK` and
`config_write`, and one program counter and job per request. Every store call is
one step; anything may happen between two of them. What a client sends is chosen
where the handler first looks at it. The clock stands still for one-time codes;
`Lapse` ends the throttle's window and `Expire` a session's life.

Ghost variables: `state` of a session (`fresh`, `old`: its account has changed
since, `late`: had changed when it was made, `out`: logged out), `used`/`reused`
codes, `guesses`, `unrevoked` (accounts whose sessions were left by an
`update_user` refused half-way, an overwriting `create_user` or a restart) and
`overwritten` (a second `create_user` wrote over the first). The last two are
exemptions of the properties, because the code does leave those sessions; they
are listed among the hazards.

### PolicyRules and QueryPath

`PolicyRules` has the decisions of the base policy, the filtering groups and the
response policy zones as operators over the published settings, each with the
`explain` view the console computes by other code. Names are sequences of labels,
networks sets of clients.

`QueryPath` is `handle_request` stage by stage: gates, identification of the
account, policy, groups, response policy zones, local data, aliases, the recursion
gate, the lookup (which may outlive its query), response policy, CNAME inspection,
response filters, DNS64, and the log. At every stage that awaits, `Republish` may
swap any of the snapshots. `seenPolicy`, `seenGroups` and `seenResolver` record what
was published during the query's life, which is what the properties compare with.

What the AI plugin blocks (`plugin`, swapped by `PublishPlugin`) is not in the policy
snapshot: every policy engine shares one set of plugins, and each evaluation reads their
live state. A query may meet two states of it, one for the name it asks for and one for
the targets of the answer's aliases. `seenPlugin` has the states published during its
life, and `OneSnapshot` asks for one policy engine throughout and, of the plugin, that
each name was judged by a state it had while the query ran.

### ControlPlane

A configuration gives each section one of two values. State: the file and its
watcher, the overlay in the database, `live`, what each component was last built
from, the web and DNS listeners with the last good ones, the rebuild queue and the
supervisor, the certificate. Every handler is split where it awaits or may fail;
handlers that take `config_write` do so in the model. Ghosts: `accepted` (what a
handler answered OK to) and `behind` (what a failure after the publication left
behind: components, and the addresses of the listeners). Such a failure may have been
reported to the caller or only warned of in the log: the policy, the published catalog
zone, the re-signing and the networks of groups and zones are rebuilt after the
publication, and a save whose rebuild failed still answers 200 (`RebuildOrWarn`). The
next change of the same section builds the component again and takes it out of `behind`.

### ClientSessions and ClientThrottles

`ClientSessions` models one listener (`csKind`: DoT, DoH or DoQ) with session
permits, per-client slots, the PROXY header of a balancer, handshake, worker
permits, the bounded write queue and DoQ's stream permits. What the client does and
what the connection can do by itself (time out, fail a write) are separate actions;
`SilentClientsLetGo` says the second kind is always there. It leaves out the two
connections that the code lets a client keep: the HTTP/2 preface of DoH, which nothing
bounds, and a DoQ connection whose client sends packets (`pings`) and takes none of the
answers being written (`stuck`), for which neither the stream's write nor QUIC's idle
timeout ever ends (`KeptByClient`). What holds even then is `StreamsLeftForOthers`: such a
client has its session permit and its own streams, and leaves stream permits to every
connection below the limit of its own.

`ClientThrottles` has the dispatcher's order: cookie, client window, domain window,
then response credits with `slip` and log-only, the caps and sweeps of the tables,
and changes of settings. Histories of what was let through are the reference.

### AiScanner

Two channels of verdicts with lifetimes, the operator's exemptions and labels, and
three snapshots published one after the other under the `publishing` lock, by the
scan cycle and by the console. A cycle works with the settings it began with. A
query reads the snapshots in the plugin's order, one step each.

### ResolverCache

Routing (policies, conditional and stub zones, default), then the cache assistant:
snapshots of answers for serve-stale, cached failures, popularity and prefetches in
flight, beside Hickory's cache (external). `RcReload` and `RcRestart` carry entries
through the snapshot file with the lifetime that remains; `RcSwap` does not. The run
has a table of one entry, so that two clients' answers push each other out.

### The background jobs

- `DnssecRollover`: one pass renews or rolls, stores, and reloads at its end unless a
  later zone fails. `dkSeen` is what validators may hold: every answer and key set
  served in the last `DkCached` intervals.
- `CatalogMembers`: serial, member list, one commit per zone created, marked or
  removed; ids tell a zone from another of the same name.
- `HealthFailover`: a tick probes what is due, counts failures and successes, gives
  the catalog the failing set and has it rebuilt; `delete_health_check` reads and
  writes in two steps.
- `BlocklistFeeds`: the loop and the forced refresh with the sources they started
  from, rows matched by name, URL and format, three publications; and the feed of a
  security category with its first fetch. Lists are sets of lines by shape.
- `PolicyZones`: a round of loads without the lock on the list; results are applied to
  the zone that still has the same source.
- `SafeBrowsing`: full and partial updates against numbered versions, the index,
  positive and negative caches with their lifetimes.
- `RootCopy`: sources that lag, alter or forge the zone, ZONEMD and signature as
  outcomes, the cache file, expiry, and the questions put to the loopback responder.
- `SelfUpdate`: server, helper and root step with the state file and markers they
  share; a release that does or does not come up; rollback; the daily schedule.
  `clear_state` reads the state and removes the file in two steps outside the launch
  lock (`SuClearReads`, `SuClearRemoves`), so it may take away the state a start has
  written in between: then two helpers run, with nothing else amiss, and `UpdatesEndWell`
  counts that among the faults it leaves out. One dismissal at a time.
- `AcmeCerts`: two certificates, HTTP and DNS answers, the CA told once all are in
  place, clean-up on every way out.
- `QueryLogs`: one sink at a time out of four. What the syslog worker has handed to the
  kernel may never arrive (UDP to a server that is down, TCP to a peer that is gone), and
  so may its note of what was dropped: `gone` and `unsaid` count them, as nothing in the
  code does. A line met while logging is off or while the target cannot be read is
  thrown away.
- `BackupRestore`: staging by two jobs that share one partial file, and the start that
  checks, moves aside, places, opens and finishes.

## Runs

Passing runs:

| Run | Shows | Bounds |
|---|---|---|
| `publish_edits` | a copy is never behind its serial; a change a copy lacks shows in the serial; every serial served is announced or overtaken | two editors, one exported zone, 3 commits across the serial's wrap, one reload that fails, one restart |
| `publish_all` | the catalog never goes back; at rest the store is served | one thread of every kind, 3 commits, one reload that fails before and one after publishing |
| `secondary_refresh` | serial, record table and kept transfer agree between refreshes; the stored version never goes back; the last version is served in the end | two masters, one of which may lag, 2 versions across the wrap, a NOTIFY, a network error, a store error, a restart, a console change |
| `dhcp_leases` | no address has two users; at rest the table is saved and the DNS names follow it; the table implements the pool | two clients with one host name, a DHCPv4 range of one and a reservation, one DHCPv6 address, 3 messages, a tick that ends offers and leases, one deletion, store error, change of settings or restart |
| `console_access` | an enabled administrator remains; a change revokes the sessions made before it and no restart revives one; codes work once; guesses and API tokens are bounded | two users, three requests at once, two hashing slots, one restart or failed session write |
| `serving` | `OneSnapshot`, `GroupsHold`, `TrustedUntouched`, `NotOpenResolver`, `LoggedOnce`, `ExplainAgrees` of the query path; `AcceptedKept`, `SettingsInForce` of the control plane; `SessionsHold`; `ThrottlesHold`; `OperatorDecides` | one query of each kind and two republications; two changes, a fault and a restart; two connections; four queries in four seconds; two scan cycles, one edit, one query, one fault |
| `upkeep` | `AnswersStayInScope`, `StaleWithinWindow`; `SignedAnswersVerify`; `CatalogInStep`; `NoDeadAnswers`; `FeedsInStep`; `PolicyZonesInStep`; `ThreatListsInStep`; `AnswersFromProvenRoot`; `UpdatesEndWell`; `ChallengesInStep`; `LogsAccounted`; `RestoresHold` | in `Upkeep.cfg`, by prefix: two or three operator changes, one or two faults and one or two rounds of each job |

Violations, each a finding: `update_serial_race`, `secondary_half_stored`,
`dhcp_orphan`, `session_outlives_change`, `policy_answers_cross`.

Why the bounds are enough: the races these parts have are between two actors, and
three where a third has to see the result, so two of each (three requests in
`console_access`) and one fault between any two of their steps reach them; times are
a few units long so that every limit, window and overlap is passed inside the bound;
tables and queues are one or two long so that they are full. Every property has a
mutant of the modelled code that breaks it under the same bounds. Deadlock checking
is off because the bounds stop the models.

Fairness (`publish_edits` and the `secondary_*` runs; the others check safety only):
a thread that has started a sequence goes on (weak fairness on its steps: a lock it
queues for is held for a bounded number of steps, and the bound on commits keeps
others from taking it for ever), and the NOTIFY task runs. In `SecondaryRefresh` the
loop, running refreshes and the handler go on, masters catch up with their primary,
and a task that waits for the `refreshing` lock gets it (tokio's mutex is first come,
first served). Nothing has to be changed, fail or be asked for.

Exemptions. Several properties leave out a situation in which the code does not keep
them: each is a named ghost (`unrevoked`, `overwritten`, `dkSkipped`, `cmDisturbed`,
`hfMissed`, `bfRaced`, `suBroken`, `acLeft`, `behind`, `brErred`, `aiErred`, `carried`),
set only by the steps its comment names, and the situations are listed under
*Disagreements* or among the hazards.

## What is proved

`ZonePublishProofs` proves for every set of zones and threads, every serial
space with `Half >= 2` and every bound:

- `BumpSerialNewer`, `SerialNewerAsymmetric`: the two ends of the serial protocol
  fit together, the wrap included;
- `TypeCorrect`: `Spec => []TypeOK`;
- `ContentNotBehindSerialCorrect`, `QuiescentFreshCorrect`: the safety
  invariants of the reload;
- `PublishMonotoneCorrect`: the action property that no publication goes back;
- `ChangeIsDetectableCorrect`: a copy that lacks a zone's last change has an older serial,
  for zones that are changed in one way only (`OneKindOfChange`: the console's changes in
  one transaction, or dynamic updates that leave the serial to the server) and fewer
  than `Half` commits.

The argument is one inductive invariant, `IndInv`, the conjunction of: `LockInv`
(the thread between reading rows and reporting holds `reload_lock`), `RowInv`
(rows are no newer than the commit counter), `ReadInv` (what a reload or transfer
has read is no newer than the store, equal to it if nothing was committed since,
and not older than what is served), `ServedInv` (the same of what is published)
and `FreshInv` (a zone whose served copy is old has a thread that will still
publish it, or a reload for it has failed). None of the properties is inductive
by itself: `PublishMonotone` needs to know that only the lock's holder publishes
and that what it read is not older than what it replaces, and `QuiescentFresh`
needs the thread that still owes a reload. `ChangeIsDetectable` has two invariants of its
own: `DetectInv` (what is served, handed out or read is a row the zone has had, and its
serial is behind by no more than the commits since, `Ahead`) and `WriterInv` (no writer
puts an old serial back). Its hypothesis is what the code needs: a copy that is half the
serial space behind looks new (RFC 1982), and an update beside an edit gives two
contents one serial (`update_serial_race`). The assumptions are the named
`ASSUME`s of the two modules: they type the constants and keep the threads apart.

`DhcpLeasesProofs` proves for all clients, ranges, reservations and lengths of
offers and leases:

- `TypeCorrect`: `Spec => []TypeOK`;
- `NoTwoHoldersCorrect`: no address has two users;
- `PoolImplementedCorrect`: the table implements `AddressPool`, step by step;
- `BookCorrect`, `SavedInStepCorrect`, `NamesInStepCorrect`: at rest the store holds
  the table and the DNS names follow it.

`NoTwoHolders` says nothing of the lease table, so it is not inductive. `IndInv` adds
`HeldIsLeased` (an address a client uses is bound to that client in the table, at
least until the client's time is up) and `WorkerInv` (the lease a sweep is about to
put back is the one in the table but for its DNS record: the state lock is held
through the sweep). The core of the argument is the lemma `FreeForNobodyElse`: an
address `free_for` lets a client have is used by no other. The same invariant gives
the refinement: every step gives one client one address nobody else uses or takes
addresses away, and only a deletion or a restart loses track. `BookInv` says that
whatever differs between table, store and names is on the worker's list, or in the
hands of the sweep.

`ConsoleAccessProofs` proves for all users, numbers of
requests at a time and limits:

- `AdminRemainsCorrect`: an enabled administrator remains;
- `TypeCorrect`: `Spec => []TypeOK`;
- `RevocationHoldsCorrect`, `CodesOnceCorrect`, `LimitsHoldCorrect` (its two halves are
  `GuessesBoundedCorrect` and `TokensCappedCorrect`).

`AdminRemains` needs to know that a request that changes accounts was let in by one
that is still there (`AccountInv`); the checks of `last_admin_guard` do not matter
to the proof, those inside the store's transactions do. The token cap needs the lock
between count and insertion (`TokenInv`). `RevocationHolds` needs for each session
whose account changed the request that will still revoke it, and at which of its steps
(`RevokeInv`); `CodesOnce` that the store's row rules out the codes used up so far, and
that no secret is made twice (`CodesInv`, `SecretsDiffer`); `GuessesBounded` counts the
logins between the check of the throttle and its update among the holders of
`PASSWORD_WORK` (`GuessInv`). The assumptions are the named `ASSUME`s that type the
constants; `UpdatesAssumption` says that an update asks for some change.

`SecondaryRefreshProofs` proves for all zones, masters and tasks:

- `StoredWholeCorrect`: between refreshes a zone's serial, records and kept transfer
  are of one version;
- `StoredForwardCorrect`, an action property: a stored version never goes back, if the
  versions span less than half the serial space (`MaxVersion < Half`; without it
  RFC 1982 comparison takes an old serial for a new one).

The invariant (`InvCorrect`) says for each step of a refresh how far the row of its
zone has got (`DataInv`), that only the holder of `refreshing` is at such a step, and
that what a refresh carries is not older than what it replaces (`OrderInv`).

`QueryPathProofs` proves for all policies, groups, response policy zones, resolvers and
queries: `OneSnapshotCorrect`, `GroupsHoldCorrect`, `TrustedUntouchedCorrect`,
`NotOpenResolverCorrect`, `LoggedOnceCorrect` and `ExplainAgreesCorrect`. `QInv`
(`QueryInvCorrect`) says of a
query at each stage what the stages behind it have established about the snapshots
they read (`Path`), that what is published now is among what the query has seen
(`Current`), and of a query that has ended what its answer and its log rest on.

`ExplainAgrees` compares the console's explanation, a sequence of checks of any length,
with a decision that stops at the first rule to apply. `FirstOf` is the check an
explanation decides by; that of two explanations one after the other is that of the
first which has one (`Joined`), and so for a sequence of them (`FlattenedFirst`, by the
least position where it would fail rather than by an induction). From that,
`RulesExplained` and `GroupsAgreed` find the deciding check at the rule and at the group
the engine stops at, `PolicyExplained` puts the eight parts of a policy's explanation
together, and `PolicyAgrees` compares them with `EvaluateWith`. That a query which has
passed the filters is one its verdict lets through is `VerdictLets`, for which `ZonesLet`
keeps what the zones said of it. `SettingsAssumption` says that rules, groups and the
labels of a name are sequences.

`UpkeepProofs` proves the properties of nine jobs, each from one invariant:

- `NoDeadAnswersCorrect` from `HfInv`: at rest the catalog's failing set is the
  monitor's, and what is served was computed from it;
- `AnswersFromProvenRootCorrect` from `RzInv`: every copy in memory, in the file or in a
  refresh's hands is genuine and some source stood by it at the time written beside it
  or later. `RzAssumption` is the cryptographic assumption: a copy that passes both
  checks is the publisher's;
- `ChallengesInStepCorrect` from `AcInv`: what each task has placed and has still to
  place at each of its steps, and `in_progress`;
- `CatalogInStepCorrect` from `CmInv`: zones by id, which of them are the catalog's,
  marked, half-made, published and followed, and how far a reconciliation has got with
  the list it read;
- `RestoresHoldCorrect` from `BrInv`: who writes the partial file, that nothing is staged
  that was not checked whole, and what lies where between two renames;
- `UpdatesEndWellCorrect` from `SuInv`: which of helper and root step owns the state
  file, and that a copy to go back to is one that comes up;
- `SignedAnswersVerifyCorrect` from `DkInv`: some active key has signed everything a
  validator still holds (the anchor), and signatures are younger than half the validity
  plus the renewals that failed. When the anchor is retired its successor has signed
  for the whole overlap, so it takes over; hence the hypothesis `DkCached < DkOverlap`,
  which `config.rs` does not enforce: a zone whose TTLs are longer than the overlap is
  outside the theorem. `RenewalsInTime` bounds the failures by the second half of the
  validity;
- `ThreatListsInStepCorrect` from `SbInv`: an update that applies leaves the list whose
  checksum the service gave, one that does not empties it and its state, and the index
  is made anew from both; lists come with a key;
- `FeedsInStepCorrect` from `BfInv`: a row has what its own URL serves in its own format
  (`RowsFit`), and unless a forced refresh was raced, a refresh under way goes by the
  sources configured now and will publish what they have fetched (`Unraced`,
  `ForcedOfNow`).

The assumptions are the `ASSUME`s of the modules (`HfAssumption`, `AcAssumption`,
`BrAssumption`, `SuAssumption`, `DkAssumption`, `BfAssumption`), which type the constants;
`BrAssumption` says that a file which is no backup of this server is not a whole
database, which the check of a staged file tells apart.

`ServingProofs` proves what stands around the query path:

- `AcceptedKeptCorrect` and `SettingsInForceCorrect` from `CpInv`: what the change that
  holds `config_write` starts from is published until it publishes and what it wants
  after that (`CpChange`); between the write of the overlay and the publication a crash
  would bring back a save nobody was told of, so there the overlay is the change's
  (`Storing`, `CpKept`); a component runs what the change started from until its rebuild
  (`CpRunning`); and the listeners serve what is published, or a request is queued, the
  supervisor has the settings still to read, or the change at work will ask for a rebind
  (`Serves`, `Owed`). This last part is why a request dropped by a full queue is not
  missed: another one is ahead of it and has not read the settings yet;
- `StaleWithinWindowCorrect` from `RcInv`: an answer in the assistant's snapshots or in
  Hickory's cache that no file has carried is kept until its lifetime's end at most
  (`Dated`), and a lookup knows the resolver it was made by (`RcLooks`);
- `AnswersStayInScopeCorrect` from `ScInv`, for settings that fulfil `RoutesKept`: what is
  kept under a key, in memory or in a file some resolver may still read, came from where
  the key's scope sends a lookup of the name (`RouteUp`, `KeyAlong`), Hickory's answers
  are of the upstream they are filed under, and a lookup goes where the resolver it was
  made by sends its client (`LooksAlong`). `RoutesKept` asks that settings under which a
  snapshot file is written or read agree on mode, upstreams, policies, zones and the
  top-level domains of the local root: a scope is a position in the list of policies, and
  `policy_answers_cross` shows what happens when the list changes. Settings that keep no
  file may differ in all of these. `upkeep` evaluates `RoutesKept` on its instance;
- `OperatorDecidesCorrect` from `AiInv` (a confirmed exemption is stored and published,
  and so is the one a call is about to confirm or a query counts on) and `SnInv` (with
  nothing under way each snapshot is the one a refresh at some earlier time would make
  of what is stored now: `CatsAsOf`, `BlocksAsOf`);
- `ThrottlesHoldCorrect` from `ThInv`: what a tracked network was let through since its
  window began is what its bucket counts (`Metered`), and what an account was sent over
  any stretch of time leaves it no more credit than that time has earned (`Paid`). Two
  windows of the code's overlap one stretch of a window's length at most, hence the 2 in
  the property;
- `SessionsHoldCorrect` from `CsInv`: free permits, slots and stream permits count the
  connections and streams that have not given theirs back (`SessionsAccounted`), with the
  flags a connection can have at each stage (`Sound`). The sets are finite, so a step that
  changes one connection moves each count by one at most. That a silent client cannot
  hold its connection is stated by the guards of the connection's own steps
  (`OwnStepDue`) and is proved too (`OwnStepFollows`), with the two exceptions named
  above. `StreamsLeft` counts streams: a connection below its limit makes those held
  fewer than `CsMax * CsStreams`, whoever holds the others for ever.

Its assumptions type the constants (`RcAssumption`, `AiAssumption`, `ThAssumption`,
`CsAssumption`) and say that the queue of rebuild requests, permits, limits and windows
are one at least, and that networks and blocklist sources are edited by handlers of their
own (`CpAssumption`).

`SiftingProofs` proves the two components that filter lists. `rpz.rs` and the loggers
filter vectors; `SelectSeq` is a recursive definition, of which nothing can be proved
here, so `Sifted` defines the outcome by positions, and `SiftedIs` (over `RanksNumber`, an
induction on the least position that fails) says that it keeps the elements at the
chosen positions, once each and in their order.

- `PolicyZonesInStepCorrect` from `PzInv`: rules are of the source their zone has now,
  what a load brings is of the source it was made for, and the published set is the one
  the list gives. `PzAssumption`: configured lists are sequences;
- `LogsAccountedCorrect` from `QlInv`, sink by sink: in the database the queue, the batch
  and the table follow each other in the order asked and retention takes an end of the
  table (`DbInv`); syslog keeps a balance (`SyslogInv`): what was asked is what arrived,
  what waits, what is counted as dropped or was told to the server, and the three kinds
  the code does not count (thrown away, gone after the kernel took it, counted in a note
  that was lost), each of which takes a fault or a change of settings; the export counts
  as sent no more than the numbers that were delivered and are not being sent again
  (`ExportInv`); the file logger has a writer, a queue or a thread that still holds what
  is not in a file (`FileInv`). `QlAssumption` types the
  bounds and takes finitely many threads.

Each invariant was checked with TLC, with larger bounds where one fault may follow
another, before it was proved. That found two things the runs had not. After two failed
changes of the networks with a rebind between them the listeners are behind although no
component is, so `ListenersInStep` was false with three changes and two faults: `behind`
now says apart that the listeners' addresses were left. And with
`CmMaxFaults = 1` a catalog that was taken out of the settings never came back, and with
2 it does, under a serial the consumer still takes for applied (see *Catalog zones*
below). `Upkeep.cfg` now has 2, and the exemption `cmDisturbed` covers the case.

Only model-checked are the liveness properties `EverySerialAnnounced` and `CatchesUp`,
out of the prover's reach, and the violations that show the findings. Every invariant and
every action property of a passing run is a theorem.

The types of `ZonePublish`, `DhcpLeases` and `ConsoleAccess` are proved and need no run.

## Findings

`PROJECT.json` quotes the source for each: the shared serial of an update and an
edit, the half-stored transfer, the orphaned DNS record of a lease, the session that
outlives a change of its account, and the answers of one forwarding policy given to
the clients of another after a change of the list of policies.

### Disagreements without a run

Met while modelling, between the code and what it or the docs say, or likely to
surprise an operator. The models contain these behaviours unless noted; the
properties leave them out as said above.

*Zones.* `update_zone_soa` with `bump_serial` writes back the serial it read
(`handlers.rs:2600`); zone files re-imported at a start keep the zone's serial
(`daygle-dns/src/lib.rs:1628`); a secondary whose master is gone is served for ever
although the alert says "until it expires" (`secondary.rs:137`); `set_zone` wakes the
refresh loop with `notify_waiters`, which keeps no permit, so a zone added during a
refresh waits a whole interval (`secondary.rs:163`; `secondary.rs:72` says it will
"wake the refresh loop", `docs/API.md:755` "immediately").
*DNSSEC.* Key changes do not bump the serial; after a later zone's error the overlap
counts from the stored time, not from the publication.
*Catalog zones.* A member deleted by hand is not made again until the serial changes;
a stop between `create_zone` and `add_catalog_member` leaves a zone nobody owns; an
error half-way leaves created zones unpublished; a catalog taken out of the settings
and configured again under the same serial finds its members gone and does not make
them again until the serial changes, a NOTIFY comes or the server restarts
(`catalog_zone.rs:222`, whose comment says "still make sure every member is being
served"); the end of a refresh overwrites the
removal of state a NOTIFY made meanwhile.
*Health checks.* A reload that fails after `set_unhealthy` is not tried again;
failover does not bump the serial; `delete_health_check` is a read and a write.

*Query path.* DNS64 sends its synthesized AAAA uninspected (`dispatcher.rs:2403`
against the comment at `:1714` and `docs/API.md:429`); a per-client rule with an
empty client list becomes 0.0.0.0/0 and never matches IPv6 clients, where `rule.rs`
says it matches all; `explain_blocking` counts a response policy zone's `tcp-only` as a
block over TCP as well; the names the AI plugin blocks are read at each evaluation, not
with the policy snapshot the query took (the plugins are one `Arc` of all engines,
`engine.rs:283`), so the asked name (`dispatcher.rs:1110`) and the alias targets checked
after the lookup (`dispatcher.rs:2613`) may be judged by two states of it.
*Resolver.* A hit overwrites `fetched_at`, on which the prefetch threshold is measured
(comment at `cache_assist.rs:190`); an export takes an expired deadline for "now", so
each reload or restart renews the stale window (`README.md:131` says "bounded
staleness"); snapshots that hold a failure only are offered to serve-stale; `clear()`
forgets the refreshes in flight while they run. A forwarding policy's client that asks
below a top-level domain the local root lacks gets the default scope; under a
recursive default, that is the scope of the recursor's answers, which a restored or a
stale entry may then give it (`RoutesKept` leaves this out).
*Limits and listeners.* A swept bucket's client is untracked when it comes back to a
full table; `rrl.rs` says forgetting an account "changes nothing", which is not so
after `window_secs` shrinks; DoH's `h2::server::handshake` has no timeout although the
comment at `doh.rs:67` bounds the wait; the write of an answer on a DoQ stream has no
timeout (`doq.rs:371`) and any packet puts off QUIC's idle timeout, so a client that takes
nothing and stays in touch keeps its streams and its session permit, where the read of the
query is bounded lest a client "hold stream slots ... open forever" (`doq.rs:247`) and DoT
bounds every write for the same reason (`dot.rs:328`); the PROXY front may leave
`register_client` entries at shutdown.
*Logs.* A disabled file logger tries to open its file on every query, contrary to its
comments; syslog lines are lost uncounted, although "lines are dropped and counted, and
the count is reported" (`syslog.rs:7`): those the kernel took for a UDP server that is down
or a TCP peer that is gone (`syslog.rs:194`), those met under a target that cannot be read
(`syslog.rs:227`), and those counted in a note that failed (`syslog.rs:262`); an export
batch is posted under the settings read at its start; the database log does not drain its queue
at shutdown, nor count failed batches.
*AI scanner.* The block snapshot is empty in train mode (`scanner.rs:405`), so a group
with `ai_mode: enforce` blocks nothing while the server trains, where
`docs/API.md:1571` says "even while the server records only"; a cycle publishes by the
settings it began with, so a save may be undone until the woken cycle ends, and an
override call beside a save can do so with no cycle to follow; `set_allow_override`
answers OK although its refresh failed; a label on a domain with a fresh verdict goes
out with that verdict's expiry (`scanner.rs:43` says it "has no TTL"); after a restart
nothing is blocked before the first cycle ends.

*Settings.* The comment at `handlers.rs:6572` has it that the published settings and the
live resolver "can never diverge"; for the policy they can: its rebuild comes after the
publication, and when it fails the save logs a warning and answers 200
(`handlers.rs:6682`), as it does when the catalog zone cannot be published or the zones
cannot be signed again (`handlers.rs:6646`); a change of the networks and a reload of the
file warn in the same way (`networks.rs:205`, `reload.rs:140`). A refused save may have
moved the web listener already (`docs/API.md:394`);
clearing a certificate name is not stored, and the file's name returns at a restart
(`docs/API.md:446`); a web fallback at the start lets an unrelated save overwrite the
saved web settings; `delete_certificate` can delete one that is being selected;
`install_certificate` applies web settings from an old snapshot; `last_good` may be a
configuration that never bound; a rebuild that fails in a reload or a network change is
not tried again; `set_networks` returns before rebuilding when it fails;
`upsert_blocking_group` does not take `config_write`.
*Lists.* A forced refresh does not compare the sources before and after its fetch, and
when it fails can overwrite the loop's newer merge; a policy zone whose source changes
and changes back during a load stays without rules until the next refresh, and
`refresh_now` during a load is lost; Safe Browsing files every prefix it asked for as
negative when the match is another's, where the field is documented "known to match no
threat", and a lookup in flight fills the caches after a reset.
*Local root.* A source that lags confirms its older copy, which resets the expiry clock;
the serial may go back; signatures are not checked again while the zone is served; a
refresh in flight makes the cache file again after the feature was switched off.

*Self-update.* `clear_state` (`update.rs:1735`) does not take the `LAUNCH` lock that makes
a start's check and its state "one step" (`update.rs:1602`), and removes the file some time
after it has looked at it: a dismissal beside a start can remove the state of the run that
has just begun, where its comment says that it "refuses while a run is in progress"
(`update.rs:1732`), and a second start then launches a second helper. A partial
installation of model files leaves a mixture; a helper that gives
up at its limit just as the root step claims the request makes two runs, and the
first one's clean-up removes the second one's files.
*ACME.* A TXT record whose reload fails loses its id (`acme.rs:299`); a restart leaves
records and "pending" behind; a certificate deleted during an issue is stored again; a
result recorded after `in_progress` was left can overwrite a later status; two first
issues may make two accounts.
*Backup.* `finish_restore` runs only in the start that applied the restore
(`lib.rs:549`): if that fails, the overrides in the backup are never moved back
(`docs/API.md:2132`), and every later backup fails because `backup_ai_overrides`
exists; a stop between the renames puts the database and its `-wal` under different
names; a rename that fails after the database was moved aside starts on an empty one;
two stagings share `.restore.partial`, one may be told of an error although its file is
staged, and if one of them still writes when the start checks, what is placed may be a
mixture (`brErred` has "late" then).
*Console.* `create_user` looks a name up before it hashes and then overwrites;
`update_user` stops at the first refused change, before it revokes; `two_factor_enable`
may turn on a secret that a second setup has put in place since the code was checked
(`handlers.rs:4813`); `update_user` panics if a `delete_user` comes before its last read
(`handlers.rs:5406`, not modelled).

## Plan

1. An abstract specification of zone publication (a zone's content is a sequence of
   versions, what is served only moves forward), which `ZonePublish` implements.
2. Larger instances of `SecondaryRefresh` (two zones) and of `ClientSessions`.

## Not modelled

Wire formats, TSIG and DNSSEC signatures, cookies and password hashes (their outcome
is a choice), TLS, QUIC and HTTP, Hickory's recursive algorithm, the classification
models and their training, the validation of single configuration fields, the parsing
of list formats beyond the shape of a line, audit records, reports, alerts, statistics,
the block page and the web console: these are data, input and output, or records
nothing reads back, and have no order of steps of their own. `components` in
`PROJECT.json` gives the reason for each part.
