-------------------------- MODULE SecondaryRefresh --------------------------
(***************************************************************************)
(* The secondary side: SecondaryRefresher pulls zones from their masters,  *)
(* from its refresh loop and from a task spawned for every NOTIFY, while   *)
(* the console (or a followed catalog zone) adds and removes secondary     *)
(* zones and the process may stop between any two commits.                 *)
(*                                                                         *)
(* The data of a zone is the number of the primary's version it is.  A     *)
(* reload of the catalog is one step here: module ZonePublish has its      *)
(* parts.                                                                  *)
(***************************************************************************)
EXTENDS SerialArith, Sequences, FiniteSets

CONSTANTS
  Free,           \* the holder of a lock no task holds
  Zones,          \* zone names
  FileZones,      \* secondary zones listed in the configuration file
  Loop,           \* the refresh loop
  Notified,       \* tasks spawned for inbound NOTIFYs
  MasterOrder,    \* the masters of every zone, in the order they are asked
  FirstSerial,    \* the serial of the primary's first version
  MaxVersion,     \* bound on the versions of a zone
  MaxAdmin,       \* bound on the zones added and removed
  MaxNetErrors,   \* bound on the queries and transfers that fail
  MaxStoreErrors, \* bound on the store calls and reloads that fail
  MaxCrashes      \* bound on the restarts of this server

Tasks   == {Loop} \cup Notified
Masters == {MasterOrder[i] : i \in DOMAIN MasterOrder}

ASSUME ZonesAssumption == FileZones \subseteq Zones
ASSUME TasksAssumption == Loop \notin Notified /\ Free \notin Tasks
ASSUME MastersAssumption == MasterOrder \in Seq(Masters) \ {<<>>}
ASSUME SerialAssumption == FirstSerial \in Serial
ASSUME BoundsAssumption ==
  /\ MaxVersion \in Nat \ {0} /\ MaxAdmin \in Nat /\ MaxNetErrors \in Nat
  /\ MaxStoreErrors \in Nat /\ MaxCrashes \in Nat
ASSUME FiniteAssumption == IsFiniteSet(Zones)

\* Rows that can be created: each removal makes room for one more.
MaxRows == Cardinality(Zones) + MaxAdmin

VARIABLES
  primary,    \* the primary's version of each zone
  master,     \* the version each master has of each zone
  row,        \* this server's store: zones, records, zone_transfers, secondary_zones
  rows,       \* rows created so far
  served,     \* the version this server answers with (0: none)
  configured, \* SecondaryRefresher.zones
  snapshot,   \* the zones of the refresh_all that is running, or ran last
  todo,       \* those it has not come to yet
  loop,       \* where run_forever is
  refreshing, \* holder of SecondaryRefresher.refreshing
  pc,         \* where each refresh_zone is
  job,        \* what each refresh_zone works on and has read
  admin,      \* the handler that adds or removes a zone
  changes,    \* zones added and removed so far
  neterrors, storeerrors, crashes   \* failures so far

linkVars  == <<primary, master>>
storeVars == <<row, rows, served>>
loopVars  == <<snapshot, todo, loop>>
countVars == <<changes, neterrors, storeerrors, crashes>>
vars == <<primary, master, row, rows, served, configured, snapshot, todo, loop,
          refreshing, pc, job, admin, changes, neterrors, storeerrors, crashes>>

Version == 0 .. MaxVersion

\* The serial the primary gives its versions: each change bumps it.
SerialAt[v \in 1 .. MaxVersion] ==
  IF v = 1 THEN FirstSerial ELSE BumpSerial(SerialAt[v - 1])

DefaultSerial == 1

\* A zone's row: its id, the SOA serial, the version in the record table and the
\* one kept as received (0: none), and whether a transfer ever completed.
Row == [exists : BOOLEAN, id : 0 .. MaxRows, serial : Serial, records : Version,
        wire : Version, touched : BOOLEAN]

NoRow == [exists |-> FALSE, id |-> 0, serial |-> 0, records |-> 0, wire |-> 0,
          touched |-> FALSE]

NewRow == [exists |-> TRUE, id |-> rows + 1, serial |-> DefaultSerial, records |-> 0,
           wire |-> 0, touched |-> FALSE]

\* build_catalog: a secondary zone is served from the transfer kept, else from
\* the record table.
Answers(r) == IF ~r.exists THEN 0 ELSE IF r.wire # 0 THEN r.wire ELSE r.records

Job == [zone : Zones \cup {Free}, id : 0 .. MaxRows, serial : Serial,
        asked : 0 .. Len(MasterOrder) + 1, master : Serial, full : BOOLEAN, got : Version]

NoJob == [zone |-> Free, id |-> 0, serial |-> 0, asked |-> 0, master |-> 0,
          full |-> FALSE, got |-> 0]

TypeOK ==
  /\ primary \in [Zones -> 1 .. MaxVersion]
  /\ master \in [Masters -> [Zones -> 1 .. MaxVersion]]
  /\ row \in [Zones -> Row]
  /\ rows \in 0 .. MaxRows
  /\ served \in [Zones -> Version]
  /\ configured \subseteq Zones
  /\ snapshot \subseteq Zones /\ todo \subseteq snapshot
  /\ loop \in {"snapshot", "each", "sleep"}
  /\ refreshing \in Tasks \cup {Free}
  /\ pc \in [Tasks -> {"idle", "lock", "soa", "transfer", "set_soa", "records", "wire",
                       "touch", "reload"}]
  /\ job \in [Tasks -> Job]
  /\ admin \in [step : {"idle", "add", "remove", "added", "removed"},
                zone : Zones \cup {Free}]
  /\ changes \in 0 .. MaxAdmin
  /\ neterrors \in 0 .. MaxNetErrors
  /\ storeerrors \in 0 .. MaxStoreErrors
  /\ crashes \in 0 .. MaxCrashes

\* A server started for the first time, with the zones of its configuration file.
Init ==
  /\ primary = [z \in Zones |-> 1]
  /\ master = [m \in Masters |-> [z \in Zones |-> 1]]
  /\ row = [z \in Zones |-> NoRow]
  /\ rows = 0
  /\ served = [z \in Zones |-> 0]
  /\ configured = FileZones
  /\ snapshot = {} /\ todo = {}
  /\ loop = "snapshot"
  /\ refreshing = Free
  /\ pc = [t \in Tasks |-> "idle"]
  /\ job = [t \in Tasks |-> NoJob]
  /\ admin = [step |-> "idle", zone |-> Free]
  /\ changes = 0 /\ neterrors = 0 /\ storeerrors = 0 /\ crashes = 0
----------------------------------------------------------------------------
(* The other servers *)

PrimaryChange(z) ==
  /\ primary[z] < MaxVersion
  /\ primary' = [primary EXCEPT ![z] = @ + 1]
  /\ UNCHANGED <<master, storeVars, configured, loopVars, refreshing, pc, job, admin, countVars>>

\* A master catches up with the primary.
MasterSync(m, z) ==
  /\ master[m][z] # primary[z]
  /\ master' = [master EXCEPT ![m][z] = primary[z]]
  /\ UNCHANGED <<primary, storeVars, configured, loopVars, refreshing, pc, job, admin, countVars>>
----------------------------------------------------------------------------
(* SecondaryRefresher::run_forever *)

\* refresh_all: zones_snapshot
LoopSnapshot ==
  /\ loop = "snapshot"
  /\ snapshot' = configured
  /\ todo' = configured
  /\ loop' = "each"
  /\ UNCHANGED <<linkVars, storeVars, configured, refreshing, pc, job, admin, countVars>>

\* refresh_all: the next zone; the outcome of the last one does not matter.
LoopNext(z) ==
  /\ loop = "each"
  /\ pc[Loop] = "idle"
  /\ z \in todo
  /\ todo' = todo \ {z}
  /\ pc' = [pc EXCEPT ![Loop] = "lock"]
  /\ job' = [job EXCEPT ![Loop] = [NoJob EXCEPT !.zone = z]]
  /\ UNCHANGED <<linkVars, storeVars, configured, snapshot, loop, refreshing, admin, countVars>>

\* All zones done: from here on the loop listens to changed, and the timer runs.
LoopSleep ==
  /\ loop = "each"
  /\ pc[Loop] = "idle"
  /\ todo = {}
  /\ loop' = "sleep"
  /\ UNCHANGED <<linkVars, storeVars, configured, snapshot, todo, refreshing, pc, job, admin,
                 countVars>>

LoopTimer ==
  /\ loop = "sleep"
  /\ loop' = "snapshot"
  /\ UNCHANGED <<linkVars, storeVars, configured, snapshot, todo, refreshing, pc, job, admin,
                 countVars>>

\* changed.notify_waiters(): only a loop that is listening hears it.
Woken == IF loop = "sleep" THEN "snapshot" ELSE loop
----------------------------------------------------------------------------
(* NotifyInbound::handle: a task of its own refreshes the zone. *)

\* The zones a NOTIFY is taken for: those the listener was started with and
\* those the refresher has now.
NotifyReceived(t, z) ==
  /\ t \in Notified
  /\ pc[t] = "idle"
  /\ z \in FileZones \cup configured
  /\ pc' = [pc EXCEPT ![t] = "lock"]
  /\ job' = [job EXCEPT ![t] = [NoJob EXCEPT !.zone = z]]
  /\ UNCHANGED <<linkVars, storeVars, configured, loopVars, refreshing, admin, countVars>>
----------------------------------------------------------------------------
(* SecondaryRefresher::refresh_zone *)

GoTo(t, step) == pc' = [pc EXCEPT ![t] = step]

\* refresh_zone returns.
Finish(t) ==
  /\ GoTo(t, "idle")
  /\ job' = [job EXCEPT ![t] = NoJob]
  /\ refreshing' = IF refreshing = t THEN Free ELSE refreshing

\* ensure_zone: the zone's row, made when there is none.
EnsureZone(t) ==
  LET z == job[t].zone IN
  /\ \/ row[z].exists /\ UNCHANGED <<row, rows>>
     \/ /\ ~row[z].exists
        /\ row' = [row EXCEPT ![z] = NewRow]
        /\ rows' = rows + 1
  /\ job' = [job EXCEPT ![t].id = row'[z].id, ![t].serial = row'[z].serial, ![t].asked = 1]

\* Mutant of RefreshStart: refreshes run side by side.
RefreshStartUnlocked(t) ==
  /\ pc[t] = "lock"
  /\ EnsureZone(t)
  /\ GoTo(t, "soa")
  /\ UNCHANGED <<linkVars, served, configured, loopVars, refreshing, admin, countVars>>

\* Take the lock, find the zone and remember its serial.
RefreshStart(t) ==
  /\ pc[t] = "lock"
  /\ refreshing = Free
  /\ refreshing' = t
  /\ EnsureZone(t)
  /\ GoTo(t, "soa")
  /\ UNCHANGED <<linkVars, served, configured, loopVars, admin, countVars>>

Asked(t) == MasterOrder[job[t].asked]

\* The row this refresh works on is still there.
Present(t) == row[job[t].zone].exists /\ row[job[t].zone].id = job[t].id

\* The zone must be pulled whatever the serials: no transfer completed, no
\* records, or no transfer kept.
Incomplete(t) ==
  LET r == row[job[t].zone] IN
  ~Present(t) \/ ~r.touched \/ r.records = 0 \/ r.wire = 0

\* query_soa answers: no transfer is needed, or one is begun.
QuerySoa(t) ==
  /\ pc[t] = "soa"
  /\ LET serial == SerialAt[master[Asked(t)][job[t].zone]] IN
       \/ /\ ~Incomplete(t) /\ ~SerialNewer(serial, job[t].serial)
          /\ Finish(t)
       \/ /\ Incomplete(t) \/ SerialNewer(serial, job[t].serial)
          /\ job' = [job EXCEPT ![t].master = serial, ![t].full = Incomplete(t)]
          /\ GoTo(t, "transfer")
          /\ UNCHANGED refreshing
  /\ UNCHANGED <<linkVars, storeVars, configured, loopVars, admin, countVars>>

\* query_soa fails, or finds no SOA: the next master is asked, if there is one.
QuerySoaFails(t) ==
  /\ pc[t] = "soa"
  /\ neterrors < MaxNetErrors
  /\ neterrors' = neterrors + 1
  /\ \/ /\ job[t].asked < Len(MasterOrder)
        /\ job' = [job EXCEPT ![t].asked = @ + 1]
        /\ UNCHANGED <<pc, refreshing>>
     \/ job[t].asked = Len(MasterOrder) /\ Finish(t)
  /\ UNCHANGED <<linkVars, storeVars, configured, loopVars, admin, changes, storeerrors, crashes>>

\* axfr, or ixfr_or_axfr, which may find that nothing is newer: the zone as the
\* master has it now.
Transfer(t) ==
  /\ pc[t] = "transfer"
  /\ LET v == master[Asked(t)][job[t].zone] IN
       \/ /\ ~job[t].full /\ ~SerialNewer(SerialAt[v], job[t].serial)
          /\ Finish(t)
       \/ /\ job[t].full \/ SerialNewer(SerialAt[v], job[t].serial)
          /\ job' = [job EXCEPT ![t].got = v]
          /\ GoTo(t, "set_soa")
          /\ UNCHANGED refreshing
  /\ UNCHANGED <<linkVars, storeVars, configured, loopVars, admin, countVars>>

\* The transfer fails or is incomplete: nothing is stored, no other master is
\* asked.
TransferFails(t) ==
  /\ pc[t] = "transfer"
  /\ neterrors < MaxNetErrors
  /\ neterrors' = neterrors + 1
  /\ Finish(t)
  /\ UNCHANGED <<linkVars, storeVars, configured, loopVars, admin, changes, storeerrors, crashes>>

\* A store call of transfer_from: the row becomes r and the refresh goes on, or
\* the row is gone and the call fails.
Store(t, r, next) ==
  /\ \/ /\ Present(t)
        /\ row' = [row EXCEPT ![job[t].zone] = r]
        /\ GoTo(t, next)
        /\ UNCHANGED <<refreshing, job>>
     \/ ~Present(t) /\ Finish(t) /\ UNCHANGED row
  /\ UNCHANGED <<linkVars, rows, served, configured, loopVars, admin, countVars>>

\* Mutant of SetSoa: the serial the SOA query answered.
SetSoaOfQuery(t) ==
  pc[t] = "set_soa" /\ Store(t, [row[job[t].zone] EXCEPT !.serial = job[t].master], "records")

\* set_zone_soa with the transfer's own SOA
SetSoa(t) ==
  pc[t] = "set_soa" /\ Store(t, [row[job[t].zone] EXCEPT !.serial = SerialAt[job[t].got]], "records")

\* replace_records
SetRecords(t) ==
  pc[t] = "records" /\ Store(t, [row[job[t].zone] EXCEPT !.records = job[t].got], "wire")

\* set_transfer_data
SetWire(t) ==
  pc[t] = "wire" /\ Store(t, [row[job[t].zone] EXCEPT !.wire = job[t].got], "touch")

\* touch_secondary: an UPDATE, so no error when the zone is gone.
Touch(t) ==
  /\ pc[t] = "touch"
  /\ row' = IF Present(t) THEN [row EXCEPT ![job[t].zone].touched = TRUE] ELSE row
  /\ GoTo(t, "reload")
  /\ UNCHANGED <<linkVars, rows, served, configured, loopVars, refreshing, job, admin, countVars>>

\* catalog.reload, and refresh_zone returns.
RefreshReload(t) ==
  /\ pc[t] = "reload"
  /\ served' = [z \in Zones |-> Answers(row[z])]
  /\ Finish(t)
  /\ UNCHANGED <<linkVars, row, rows, configured, loopVars, admin, countVars>>

\* A store call or the reload fails (the ? operator): what was stored stays.
StoreFails(t) ==
  /\ pc[t] \in {"set_soa", "records", "wire", "touch", "reload"}
  /\ storeerrors < MaxStoreErrors
  /\ storeerrors' = storeerrors + 1
  /\ Finish(t)
  /\ UNCHANGED <<linkVars, storeVars, configured, loopVars, admin, changes, neterrors, crashes>>

Refresh(t) ==
  \/ RefreshStart(t) \/ QuerySoa(t) \/ Transfer(t) \/ SetSoa(t) \/ SetRecords(t)
  \/ SetWire(t) \/ Touch(t) \/ RefreshReload(t)
----------------------------------------------------------------------------
(* Adding and removing secondary zones: the create_zone and delete_zone      *)
(* handlers and CatalogConsumer::reconcile.                                  *)

AdminGoTo(step, z) == admin' = [step |-> step, zone |-> z]

AdminBegins ==
  /\ admin.step = "idle"
  /\ changes < MaxAdmin
  /\ changes' = changes + 1
  /\ UNCHANGED <<neterrors, storeerrors, crashes>>

\* create_zone and set_secondary
AdminCreate(z) ==
  /\ ~row[z].exists
  /\ AdminBegins
  /\ row' = [row EXCEPT ![z] = NewRow]
  /\ rows' = rows + 1
  /\ AdminGoTo("add", z)
  /\ UNCHANGED <<linkVars, served, configured, loopVars, refreshing, pc, job>>

\* SecondaryRefresher::set_zone
SetZone ==
  /\ admin.step = "add"
  /\ configured' = configured \cup {admin.zone}
  /\ loop' = Woken
  /\ AdminGoTo("added", admin.zone)
  /\ UNCHANGED <<linkVars, storeVars, snapshot, todo, refreshing, pc, job, countVars>>

\* delete_zone
AdminDelete(z) ==
  /\ row[z].exists
  /\ AdminBegins
  /\ row' = [row EXCEPT ![z] = NoRow]
  /\ AdminGoTo("remove", z)
  /\ UNCHANGED <<linkVars, rows, served, configured, loopVars, refreshing, pc, job>>

\* SecondaryRefresher::remove_zone
RemoveZone ==
  /\ admin.step = "remove"
  /\ configured' = configured \ {admin.zone}
  /\ loop' = Woken
  /\ AdminGoTo("removed", admin.zone)
  /\ UNCHANGED <<linkVars, storeVars, snapshot, todo, refreshing, pc, job, countVars>>

\* The handler's reload, and it returns.
AdminReload ==
  /\ admin.step \in {"added", "removed"}
  /\ served' = [z \in Zones |-> Answers(row[z])]
  /\ AdminGoTo("idle", Free)
  /\ UNCHANGED <<linkVars, row, rows, configured, loopVars, refreshing, pc, job, countVars>>

\* The reload fails: create_zone deletes the row again (the refresher keeps the
\* zone), delete_zone carries on.
AdminReloadFails ==
  /\ admin.step \in {"added", "removed"}
  /\ storeerrors < MaxStoreErrors
  /\ storeerrors' = storeerrors + 1
  /\ row' = IF admin.step = "added" THEN [row EXCEPT ![admin.zone] = NoRow] ELSE row
  /\ AdminGoTo("idle", Free)
  /\ UNCHANGED <<linkVars, rows, served, configured, loopVars, refreshing, pc, job, changes,
                 neterrors, crashes>>

\* The process stops between two commits and starts again: the refresher has the
\* zones of the configuration file and those stored as secondary.
Crash ==
  /\ crashes < MaxCrashes
  /\ crashes' = crashes + 1
  /\ configured' = FileZones \cup {z \in Zones : row[z].exists}
  /\ served' = [z \in Zones |-> Answers(row[z])]
  /\ snapshot' = {} /\ todo' = {}
  /\ loop' = "snapshot"
  /\ refreshing' = Free
  /\ pc' = [t \in Tasks |-> "idle"]
  /\ job' = [t \in Tasks |-> NoJob]
  /\ AdminGoTo("idle", Free)
  /\ UNCHANGED <<linkVars, row, rows, changes, neterrors, storeerrors>>

Admin == (\E z \in Zones : AdminCreate(z) \/ AdminDelete(z)) \/ SetZone \/ RemoveZone
           \/ AdminReload \/ AdminReloadFails

LoopStep == LoopSnapshot \/ (\E z \in Zones : LoopNext(z)) \/ LoopSleep \/ LoopTimer

Next ==
  \/ \E z \in Zones : PrimaryChange(z) \/ \E m \in Masters : MasterSync(m, z)
  \/ LoopStep
  \/ \E t \in Tasks : Refresh(t) \/ QuerySoaFails(t) \/ TransferFails(t) \/ StoreFails(t)
  \/ \E t \in Notified, z \in Zones : NotifyReceived(t, z)
  \/ Admin
  \/ Crash

Spec == Init /\ [][Next]_vars

\* The runtime keeps the loop, every refresh that has begun and every handler
\* running, timers fire, and masters catch up with their primary.  Nothing has
\* to change, to fail or to be asked for.
Fairness ==
  /\ WF_vars(LoopStep)
  /\ \A t \in Tasks : WF_vars(Refresh(t)) /\ SF_vars(RefreshStart(t))
  /\ WF_vars(SetZone \/ RemoveZone \/ AdminReload)
  /\ \A m \in Masters, z \in Zones : WF_vars(MasterSync(m, z))

FairSpec == Spec /\ Fairness
----------------------------------------------------------------------------
(* Properties *)

\* The refreshing lock keeps a NOTIFY's refresh that races the periodic one from
\* storing an older transfer last: once a zone was transferred whole and as long
\* as its row lives, the version in the store only moves forward, whichever
\* master it came from.  (A first transfer that was stored in part is repeated
\* from whichever master answers.)
StoredForward ==
  [][\A z \in Zones :
       row[z].exists /\ row[z].touched /\ row'[z].exists /\ row'[z].id = row[z].id
         => row'[z].records >= row[z].records /\ row'[z].wire >= row[z].wire]_vars

\* Unless a store call failed or the server stopped in the middle, the serial of
\* a zone that was transferred is between refreshes that of the data stored with
\* it, in both places it is stored.
StoredWhole ==
  storeerrors = 0 /\ crashes = 0 => \A z \in Zones :
    refreshing = Free /\ row[z].exists /\ row[z].touched =>
      /\ row[z].serial = SerialAt[row[z].wire]
      /\ row[z].records = row[z].wire

\* Every zone the refresher has is in the end answered with the primary's last
\* version, by a NOTIFY or when the refresh interval comes round, if no store call
\* failed and the server was not stopped in the middle.
CatchesUp ==
  \A z \in Zones : <>[](storeerrors = 0 /\ crashes = 0 /\ z \in configured
                           => served[z] = primary[z])

\* "The refresh interval remains the fallback" (docs/API.md:797): the same whatever
\* was lost or stopped on the way.
FallbackCatchesUp == \A z \in Zones : <>[](z \in configured => served[z] = primary[z])

=============================================================================
