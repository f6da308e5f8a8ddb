---------------------------- MODULE ZonePublish ----------------------------
(***************************************************************************)
(* The primary side of the authoritative server: the zone table in SQLite, *)
(* the threads that change it, AuthorityCatalog::reload, which reads the   *)
(* tables in several separate reads and publishes what it read, and the    *)
(* task that sends a NOTIFY for every zone served with a new serial.       *)
(*                                                                         *)
(* The data of a zone is abstracted to the version of its last change: the *)
(* number of the commit that made it.  Serials are kept exactly.           *)
(***************************************************************************)
EXTENDS SerialArith, FiniteSets

CONSTANTS
  Free,         \* the holder of a lock no thread holds
  Zones,        \* zone names
  Editors,      \* threads that run the console's one-transaction changes
  SoaEditors,   \* threads that run update_zone_soa
  Importers,    \* threads that import a zone file (import_zone, create_zone)
  Updaters,     \* threads that run RFC 2136 dynamic updates
  SoaBumps,     \* the values of bump_serial in update_zone_soa requests
  GivenSerials, \* the serials requests set explicitly
  Exported,     \* zones that are transferred to secondaries
  ZoneFiles,    \* zones imported from zones_dir at every start
  FirstSerial,  \* the serial a zone is created with
  MaxCommits,   \* bound on the commits to one zone
  MaxFailures,  \* bound on the reloads that fail before they publish
  MaxLate,      \* bound on the reloads that fail after they publish
  MaxRestarts   \* bound on the restarts

Threads == Editors \cup SoaEditors \cup Importers \cup Updaters

ASSUME ZonesAssumption == ZoneFiles \subseteq Zones /\ Exported \subseteq Zones
ASSUME SerialAssumption == FirstSerial \in Serial /\ GivenSerials \subseteq Serial
ASSUME BumpsAssumption == SoaBumps \subseteq BOOLEAN
ASSUME BoundsAssumption ==
  MaxCommits \in Nat \ {0} /\ MaxFailures \in Nat /\ MaxLate \in Nat /\ MaxRestarts \in Nat
ASSUME ThreadsAssumption ==
  \A S, T \in {Editors, SoaEditors, Importers, Updaters} :
    S = T \/ S \cap T = {}

ASSUME FreeAssumption == Free \notin Threads

VARIABLES
  row,          \* the zone table: one row for each zone name
  ver,          \* the number of commits to each zone so far
  served,       \* AuthorityCatalog.catalog: what queries are answered from
  serials,      \* AuthorityCatalog.serials: serial last served (-1: none)
  changed,      \* AuthorityCatalog.changed_zones
  permit,       \* the permit stored in the zones_changed Notify
  reload_lock,  \* holder of AuthorityCatalog.reload_lock
  update_lock,  \* holder of AuthorityCatalog.update_lock
  config_write, \* holder of the configuration write lock
  build,        \* what the reload of each thread has read so far
  pc,           \* where each thread is
  job,          \* what each thread works on and has read
  npc,          \* where the NOTIFY task is
  sending,      \* zones the NOTIFY task still has to announce
  announced,    \* serial served when the last NOTIFY was sent (-1: none)
  spawned,      \* zones that dynamic updates spawned a NOTIFY of their own for
  xfer,         \* the outbound transfer of each zone: the row it has read
  copy,         \* the last copy of each zone handed to a secondary
  stale,        \* zones whose last change no reload has yet to pick up
  failures,     \* reloads that failed before they published, so far
  late,         \* reloads that failed after they published, so far
  restarts      \* restarts so far

storeVars  == <<row, ver>>
notifyVars == <<npc, sending, announced, spawned>>
copyVars   == <<xfer, copy>>
lockVars   == <<reload_lock, update_lock, config_write>>
countVars  == <<failures, late, restarts>>
vars == <<row, ver, served, serials, changed, permit, reload_lock, update_lock,
          config_write, build, pc, job, npc, sending, announced, spawned, xfer, copy, stale, failures,
          late, restarts>>

NoSerial == -1
Version  == 0 .. MaxCommits

\* A zone row.  born is the commit that created it (the row's id), content the
\* commit that last changed its records or SOA.
Row == [exists : BOOLEAN, enabled : BOOLEAN, serial : Serial,
        born : Version, content : Version]

NoRow == [exists |-> FALSE, enabled |-> FALSE, serial |-> 0, born |-> 0, content |-> 0]

\* A zone as built: the row read first (at commit rowver, when its content was
\* since) and the version of the records read afterwards.
Built == [live : BOOLEAN, serial : Serial, born : Version, rowver : Version,
          since : Version, content : Version]

NothingRead ==
  [z \in Zones |->
     [live |-> FALSE, serial |-> 0, born |-> 0, rowver |-> 0, since |-> 0,
      content |-> 0]]

Copy == [serial : Serial, born : Version, since : Version, content : Version]

Steps == {"idle", "import", "soa_set", "soa_bump", "upd_read", "upd_apply",
          "reload", "records", "publish", "report", "undo"}

\* What a thread works on: the zone, the row's id and serial and the content's
\* version when it read them, and whether it deletes the zone if its reload fails.
Job == [zone : Zones \cup {Free}, born : Version, serial : Serial, content : Version,
        undo : BOOLEAN]

NoJob == [zone |-> Free, born |-> 0, serial |-> 0, content |-> 0, undo |-> FALSE]

\* list_zones: the row of a zone, before its records are read.
ReadRow(r, v) ==
  [live |-> r.exists /\ r.enabled, serial |-> r.serial, born |-> r.born,
   rowver |-> v, since |-> r.content, content |-> 0]

\* Mutant of ReadRecords: the records are read before the rows.
ReadRecordsFirst(b, r) ==
  [b EXCEPT !.live = r.exists /\ r.enabled, !.serial = r.serial, !.born = r.born,
            !.since = r.content, !.content = b.since]

\* list_all_records: the records filed under the id of the row read before;
\* none when that row is gone.
ReadRecords(b, r) ==
  [b EXCEPT !.content = IF r.exists /\ r.born = b.born THEN r.content ELSE 0]

FromStore(r, v) == ReadRecords(ReadRow(r, v), r)

SerialOf(b) == IF b.live THEN b.serial ELSE NoSerial

TypeOK ==
  /\ row \in [Zones -> Row]
  /\ ver \in [Zones -> Version]
  /\ served \in [Zones -> Built]
  /\ serials \in [Zones -> Serial \cup {NoSerial}]
  /\ changed \subseteq Zones
  /\ permit \in BOOLEAN
  /\ reload_lock \in Threads \cup {Free}
  /\ update_lock \in Threads \cup {Free}
  /\ config_write \in Threads \cup {Free}
  /\ build \in [Threads -> [Zones -> Built]]
  /\ pc \in [Threads -> Steps]
  /\ job \in [Threads -> Job]
  /\ \A t \in Threads : pc[t] # "idle" => job[t].zone \in Zones
  /\ npc \in {"wait", "take", "send"}
  /\ sending \subseteq Zones
  /\ announced \in [Zones -> Serial \cup {NoSerial}]
  /\ spawned \subseteq Zones
  /\ xfer \in [Zones -> Built]
  /\ copy \in [Zones -> Copy]
  /\ stale \subseteq Zones
  /\ failures \in 0 .. MaxFailures
  /\ late \in 0 .. MaxLate
  /\ restarts \in 0 .. MaxRestarts

CopyOf(b) == [serial |-> b.serial, born |-> b.born, since |-> b.since,
              content |-> b.content]

FirstRow == [exists |-> TRUE, enabled |-> TRUE, serial |-> FirstSerial,
             born |-> 1, content |-> 1]

\* A server that has just started, its secondaries in step with it; a zone is in
\* the store or is still to be made.
Init ==
  /\ row \in [Zones -> {FirstRow, NoRow}]
  /\ ver = [z \in Zones |-> 1]
  /\ served = [z \in Zones |-> FromStore(row[z], 1)]
  /\ serials = [z \in Zones |-> SerialOf(served[z])]
  /\ changed = {}
  /\ permit = FALSE
  /\ reload_lock = Free
  /\ update_lock = Free
  /\ config_write = Free
  /\ build = [t \in Threads |-> NothingRead]
  /\ pc = [t \in Threads |-> "idle"]
  /\ job = [t \in Threads |-> NoJob]
  /\ npc = "wait"
  /\ sending = {}
  /\ announced = serials
  /\ spawned = {}
  /\ xfer = NothingRead
  /\ copy = [z \in Zones |-> CopyOf(served[z])]
  /\ stale = {}
  /\ failures = 0
  /\ late = 0
  /\ restarts = 0
----------------------------------------------------------------------------
(* Changes to the store.  Each is one SQLite transaction. *)

\* The commit of a transaction that leaves zone z with row r.
Commit(z, r) ==
  /\ ver[z] < MaxCommits
  /\ ver' = [ver EXCEPT ![z] = @ + 1]
  /\ row' = [row EXCEPT ![z] = r]

serveVars == <<served, serials, changed, permit, build>>

GoTo(t, step) == pc' = [pc EXCEPT ![t] = step]

Released(lock, t) == IF lock = t THEN Free ELSE lock

\* A thread that is done: what it had read is forgotten, the locks it held are
\* released.
Finish(t) ==
  /\ GoTo(t, "idle")
  /\ job' = [job EXCEPT ![t] = NoJob]
  /\ update_lock' = Released(update_lock, t)
  /\ config_write' = Released(config_write, t)

\* The row thread t read before is still there.
Present(t) == row[job[t].zone].exists /\ row[job[t].zone].born = job[t].born

\* A row with its records or its SOA changed by the next commit.
Changed(z, serial) == [row[z] EXCEPT !.serial = serial, !.content = ver[z] + 1]

NewRow(z) == [exists |-> TRUE, enabled |-> TRUE, serial |-> FirstSerial,
              born |-> ver[z] + 1, content |-> ver[z] + 1]

\* Thread t turns to zone z; born is the id of the row it works on.
TakeJob(t, z, born, undo) ==
  job' = [job EXCEPT ![t].zone = z, ![t].born = born, ![t].serial = row[z].serial,
                     ![t].content = row[z].content, ![t].undo = undo]

\* Mutant of EditRecords: the serial is left alone.
EditRecordsNoBump(t, z) ==
  /\ row[z].exists
  /\ Commit(z, Changed(z, row[z].serial))
  /\ TakeJob(t, z, row[z].born, FALSE)
  /\ UNCHANGED config_write

\* upsert_record, replace_record, delete_record, set_record_disabled,
\* bump_serial: the change and the new serial in one transaction.
EditRecords(t, z) ==
  /\ row[z].exists
  /\ Commit(z, Changed(z, BumpSerial(row[z].serial)))
  /\ TakeJob(t, z, row[z].born, FALSE)
  /\ UNCHANGED config_write

\* set_zone_enabled: the serial stays; nothing is written when the zone is as
\* asked already, but the catalog is reloaded.
SetZoneEnabled(t, z) ==
  /\ row[z].exists
  /\ \/ Commit(z, [row[z] EXCEPT !.enabled = ~@])
     \/ UNCHANGED storeVars
  /\ TakeJob(t, z, row[z].born, FALSE)
  /\ UNCHANGED config_write

\* delete_zone: the row goes, its records with it.
DeleteZone(t, z) ==
  /\ row[z].exists
  /\ config_write = Free
  /\ config_write' = t
  /\ Commit(z, NoRow)
  /\ TakeJob(t, z, row[z].born, FALSE)

\* create_zone without imported records: the zone is deleted again when the
\* reload fails.
CreateZone(t, z) ==
  /\ ~row[z].exists
  /\ config_write = Free
  /\ config_write' = t
  /\ Commit(z, NewRow(z))
  /\ TakeJob(t, z, ver[z] + 1, TRUE)

\* The console's handlers: one transaction, then a reload.
Edit(t) ==
  /\ t \in Editors
  /\ pc[t] = "idle"
  /\ \E z \in Zones : \/ EditRecords(t, z) \/ SetZoneEnabled(t, z)
                      \/ DeleteZone(t, z) \/ CreateZone(t, z)
  /\ GoTo(t, "reload")
  /\ UNCHANGED <<serveVars, reload_lock, update_lock, notifyVars, copyVars, stale, countVars>>

\* Importing a zone file: create_zone in one transaction.  The create_zone
\* handler (undo) takes config_write, the import_zone handler does not.
ImportCreate(t, z) ==
  /\ t \in Importers
  /\ pc[t] = "idle"
  /\ ~row[z].exists
  /\ Commit(z, NewRow(z))
  /\ \/ TakeJob(t, z, ver[z] + 1, FALSE) /\ UNCHANGED config_write
     \/ /\ config_write = Free
        /\ config_write' = t
        /\ TakeJob(t, z, ver[z] + 1, TRUE)
  /\ GoTo(t, "import")
  /\ UNCHANGED <<serveVars, reload_lock, update_lock, notifyVars, copyVars, stale, countVars>>

\* ... replace_records in another, with the serial left as it is ...
ImportRecords(t) ==
  LET z == job[t].zone IN
  /\ pc[t] = "import"
  /\ Present(t)
  /\ Commit(z, Changed(z, row[z].serial))
  /\ GoTo(t, "reload")
  /\ UNCHANGED <<serveVars, lockVars, notifyVars, copyVars, stale, countVars, job>>

\* ... or, when a record is refused or the zone is gone, delete_zone and no
\* reload.
ImportFails(t) ==
  LET z == job[t].zone IN
  /\ pc[t] = "import"
  /\ IF Present(t)
       THEN Commit(z, NoRow) /\ stale' = stale \cup {z}
       ELSE UNCHANGED <<storeVars, stale>>
  /\ Finish(t)
  /\ UNCHANGED <<serveVars, reload_lock, notifyVars, copyVars, countVars>>

\* update_zone_soa: get_zone, in a read of its own.
SoaRead(t, z) ==
  /\ t \in SoaEditors
  /\ pc[t] = "idle"
  /\ row[z].exists
  /\ TakeJob(t, z, row[z].born, FALSE)
  /\ GoTo(t, "soa_set")
  /\ UNCHANGED <<storeVars, serveVars, lockVars, notifyVars, copyVars, stale, countVars>>

\* update_zone_soa: set_zone_soa writes the serial that was read (bump_serial,
\* or no serial given) or the one given.
SoaSet(t) ==
  LET z == job[t].zone IN
  /\ pc[t] = "soa_set"
  /\ Present(t)
  /\ \E bump \in SoaBumps :
       /\ \E serial \in {job[t].serial} \cup (IF bump THEN {} ELSE GivenSerials) :
            Commit(z, Changed(z, serial))
       /\ GoTo(t, IF bump THEN "soa_bump" ELSE "reload")
  /\ UNCHANGED <<serveVars, lockVars, notifyVars, copyVars, stale, countVars, job>>

\* update_zone_soa with bump_serial: a second transaction moves the serial on.
SoaBump(t) ==
  LET z == job[t].zone IN
  /\ pc[t] = "soa_bump"
  /\ Present(t)
  /\ Commit(z, Changed(z, BumpSerial(row[z].serial)))
  /\ GoTo(t, "reload")
  /\ UNCHANGED <<serveVars, lockVars, notifyVars, copyVars, stale, countVars, job>>

\* update_zone_soa: the zone was deleted meanwhile (NotFound, no reload).
SoaNotFound(t) ==
  /\ pc[t] \in {"soa_set", "soa_bump"}
  /\ ~Present(t)
  /\ Finish(t)
  /\ UNCHANGED <<storeVars, serveVars, reload_lock, notifyVars, copyVars, stale, countVars>>

\* handle_update: take update_lock, read the zone and its records, check the
\* prerequisites and the last apex NS against them.
UpdateCheck(t, z) ==
  /\ t \in Updaters
  /\ pc[t] = "idle"
  /\ update_lock = Free
  /\ row[z].exists /\ row[z].enabled
  /\ update_lock' = t
  /\ TakeJob(t, z, row[z].born, FALSE)
  /\ GoTo(t, "upd_read")
  /\ UNCHANGED <<storeVars, serveVars, reload_lock, config_write, notifyVars, copyVars,
                 stale, countVars>>

\* apply_dynamic_updates: get_zone, before the transaction is opened.
UpdateRead(t) ==
  /\ pc[t] = "upd_read"
  /\ \/ /\ Present(t)
        /\ job' = [job EXCEPT ![t].serial = row[job[t].zone].serial]
        /\ GoTo(t, "upd_apply")
        /\ UNCHANGED lockVars
     \/ /\ ~Present(t)
        /\ Finish(t)
        /\ UNCHANGED reload_lock
  /\ UNCHANGED <<storeVars, serveVars, notifyVars, copyVars, stale, countVars>>

\* apply_dynamic_updates: the transaction.  The serial is the one that was
\* read plus one, or a newer one the update's SOA gives.
UpdateApply(t) ==
  LET z == job[t].zone IN
  /\ pc[t] = "upd_apply"
  /\ Present(t)
  /\ \E serial \in {BumpSerial(job[t].serial)} \cup
                    {s \in GivenSerials : SerialNewer(s, job[t].serial)} :
       Commit(z, Changed(z, serial))
  /\ GoTo(t, "reload")
  /\ UNCHANGED <<serveVars, lockVars, notifyVars, copyVars, stale, countVars, job>>

\* The zone was deleted meanwhile: records to add fail (their foreign key), an
\* update that only deletes changes nothing and succeeds.
UpdateNotFound(t) ==
  /\ pc[t] = "upd_apply"
  /\ ~Present(t)
  /\ \/ Finish(t) /\ UNCHANGED reload_lock
     \/ GoTo(t, "reload") /\ UNCHANGED <<lockVars, job>>
  /\ UNCHANGED <<storeVars, serveVars, notifyVars, copyVars, stale, countVars>>
----------------------------------------------------------------------------
(* AuthorityCatalog::reload *)

\* Mutant of ReloadRows: the lock is not taken.
ReloadRowsUnlocked(t) ==
  /\ pc[t] = "reload"
  /\ build' = [build EXCEPT ![t] = [z \in Zones |-> ReadRow(row[z], ver[z])]]
  /\ GoTo(t, "records")
  /\ UNCHANGED <<storeVars, served, serials, changed, permit, lockVars, job, notifyVars,
                 copyVars, stale, countVars>>

\* Mutant of ReloadRows: no reload when one is running already.
ReloadRowsTryLock(t) ==
  /\ pc[t] = "reload"
  /\ \/ /\ reload_lock = Free
        /\ reload_lock' = t
        /\ build' = [build EXCEPT ![t] = [z \in Zones |-> ReadRow(row[z], ver[z])]]
        /\ GoTo(t, "records")
        /\ UNCHANGED <<update_lock, config_write, job>>
     \/ /\ reload_lock # Free
        /\ Finish(t)
        /\ UNCHANGED <<reload_lock, build>>
  /\ UNCHANGED <<storeVars, served, serials, changed, permit, notifyVars, copyVars, stale,
                 countVars>>

\* Take reload_lock and read the zone rows (list_zones).
ReloadRows(t) ==
  /\ pc[t] = "reload"
  /\ reload_lock = Free
  /\ reload_lock' = t
  /\ build' = [build EXCEPT ![t] = [z \in Zones |-> ReadRow(row[z], ver[z])]]
  /\ GoTo(t, "records")
  /\ UNCHANGED <<storeVars, served, serials, changed, permit, update_lock, config_write, job,
                 notifyVars, copyVars, stale, countVars>>

\* Read the records (list_all_records) and build the catalog from both.
ReloadRecords(t) ==
  /\ pc[t] = "records"
  /\ build' = [build EXCEPT ![t] = [z \in Zones |-> ReadRecords(build[t][z], row[z])]]
  /\ GoTo(t, "publish")
  /\ UNCHANGED <<storeVars, served, serials, changed, permit, lockVars, job,
                 notifyVars, copyVars, stale, countVars>>

\* Swap in the catalog.
ReloadPublish(t) ==
  /\ pc[t] = "publish"
  /\ served' = build[t]
  /\ GoTo(t, "report")
  /\ UNCHANGED <<storeVars, serials, changed, permit, build, lockVars, job,
                 notifyVars, copyVars, stale, countVars>>

\* Mutant of ReloadReport: notify_waiters, which stores no permit.
ReloadReportWaiters(t) ==
  LET built == build[t]
      news  == {z \in Zones : built[z].live /\ serials[z] # built[z].serial} IN
  /\ pc[t] = "report"
  /\ serials' = [z \in Zones |-> SerialOf(built[z])]
  /\ changed' = changed \cup news
  /\ permit' = (permit \/ (news # {} /\ npc = "wait"))
  /\ reload_lock' = Free
  /\ stale' = {z \in stale : built[z].rowver # ver[z]}
  /\ spawned' = IF t \in Updaters THEN spawned \cup {job[t].zone} ELSE spawned
  /\ Finish(t)
  /\ build' = [build EXCEPT ![t] = NothingRead]
  /\ UNCHANGED <<storeVars, served, npc, sending, announced, copyVars, countVars>>

\* Report the zones now served with another serial, release the lock.  A
\* dynamic update also spawns a NOTIFY of its own.
ReloadReport(t) ==
  LET built == build[t]
      news  == {z \in Zones : built[z].live /\ serials[z] # built[z].serial} IN
  /\ pc[t] = "report"
  /\ serials' = [z \in Zones |-> SerialOf(built[z])]
  /\ changed' = changed \cup news
  /\ permit' = (permit \/ news # {})
  /\ reload_lock' = Free
  /\ stale' = {z \in stale : built[z].rowver # ver[z]}
  /\ spawned' = IF t \in Updaters THEN spawned \cup {job[t].zone} ELSE spawned
  /\ Finish(t)
  /\ build' = [build EXCEPT ![t] = NothingRead]
  /\ UNCHANGED <<storeVars, served, npc, sending, announced, copyVars, countVars>>

\* The reload of thread t returns an error: the lock is released and the
\* caller goes on.  create_zone deletes the zone it made; every other caller
\* ignores or reports the error.
ReloadError(t) ==
  /\ reload_lock' = Free
  /\ build' = [build EXCEPT ![t] = NothingRead]
  /\ stale' = stale \cup {z \in Zones : served[z].rowver # ver[z]}
  /\ \/ /\ job[t].undo
        /\ GoTo(t, "undo")
        /\ UNCHANGED <<update_lock, config_write, job>>
     \/ ~job[t].undo /\ Finish(t)
  /\ UNCHANGED <<storeVars, served, serials, changed, permit, notifyVars, copyVars, restarts>>

\* build_catalog fails: nothing is published.
BuildFails(t) ==
  /\ pc[t] \in {"records", "publish"}
  /\ failures < MaxFailures
  /\ failures' = failures + 1
  /\ ReloadError(t)
  /\ UNCHANGED late

\* build_split_horizon fails: the catalog is swapped, serials are not reported.
SplitHorizonFails(t) ==
  /\ pc[t] = "report"
  /\ late < MaxLate
  /\ late' = late + 1
  /\ ReloadError(t)
  /\ UNCHANGED failures

\* create_zone after a failed reload: delete_zone, without another reload.
UndoCreate(t) ==
  LET z == job[t].zone IN
  /\ pc[t] = "undo"
  /\ IF Present(t)
       THEN Commit(z, NoRow) /\ stale' = stale \cup {z}
       ELSE UNCHANGED <<storeVars, stale>>
  /\ Finish(t)
  /\ UNCHANGED <<serveVars, reload_lock, notifyVars, copyVars, countVars>>
----------------------------------------------------------------------------
(* The NOTIFY task *)

\* changed.notified() returns, consuming the permit.
NotifierWake ==
  /\ npc = "wait"
  /\ permit
  /\ permit' = FALSE
  /\ npc' = "take"
  /\ UNCHANGED <<storeVars, served, serials, changed, build, lockVars, pc, job,
                 sending, announced, spawned, copyVars, stale, countVars>>

\* take_changed_zones
NotifierTake ==
  /\ npc = "take"
  /\ sending' = changed
  /\ changed' = {}
  /\ npc' = "send"
  /\ UNCHANGED <<storeVars, served, serials, permit, build, lockVars, pc, job,
                 announced, spawned, copyVars, stale, countVars>>

\* notify_zone, one zone after the other: the secondary asks for the SOA
\* served at that moment.
NotifierSend ==
  /\ npc = "send"
  /\ \/ \E z \in sending :
          /\ sending' = sending \ {z}
          /\ announced' = [announced EXCEPT ![z] = IF served[z].live THEN served[z].serial ELSE @]
          /\ UNCHANGED npc
     \/ /\ sending = {}
        /\ npc' = "wait"
        /\ UNCHANGED <<sending, announced>>
  /\ UNCHANGED <<storeVars, serveVars, lockVars, pc, job, spawned, copyVars, stale, countVars>>

\* The NOTIFY a dynamic update spawned.
SpawnedNotify(z) ==
  /\ z \in spawned
  /\ spawned' = spawned \ {z}
  /\ announced' = [announced EXCEPT ![z] = IF served[z].live THEN served[z].serial ELSE @]
  /\ UNCHANGED <<storeVars, serveVars, lockVars, pc, job, npc, sending, copyVars, stale,
                 countVars>>
----------------------------------------------------------------------------
(* Outbound transfers *)

\* transfer_records of an unsigned zone: find_zone_by_name ...
TransferRow(z) ==
  /\ z \in Exported
  /\ row[z].exists /\ row[z].enabled
  /\ xfer' = [xfer EXCEPT ![z] = ReadRow(row[z], ver[z])]
  /\ UNCHANGED <<storeVars, serveVars, lockVars, pc, job, notifyVars, copy, stale, countVars>>

\* ... then list_records; the answer holds both.
TransferRecords(z) ==
  /\ xfer[z].live
  /\ copy' = [copy EXCEPT ![z] = CopyOf(ReadRecords(xfer[z], row[z]))]
  /\ xfer' = [xfer EXCEPT ![z] = NothingRead[z]]
  /\ UNCHANGED <<storeVars, serveVars, lockVars, pc, job, notifyVars, stale, countVars>>

\* transfer_records of a signed zone: what is served.
TransferServed(z) ==
  /\ z \in Exported
  /\ served[z].live
  /\ copy' = [copy EXCEPT ![z] = CopyOf(served[z])]
  /\ UNCHANGED <<storeVars, serveVars, lockVars, pc, job, notifyVars, xfer, stale, countVars>>
----------------------------------------------------------------------------
\* The process stops and starts again: AuthorityCatalog::new and reload build
\* from the store, then import_zone_files replaces the records of the zones in
\* zones_dir (files says which of those files changed) and reloads.  NOTIFYs
\* that were due are lost with the process: the refresh interval of the
\* secondaries is their fallback, and announced starts anew.
Restart ==
  /\ restarts < MaxRestarts
  /\ restarts' = restarts + 1
  /\ \E files \in SUBSET {z \in ZoneFiles : row[z].exists} :
       /\ \A z \in files : ver[z] < MaxCommits
       /\ ver' = [z \in Zones |-> IF z \in files THEN ver[z] + 1 ELSE ver[z]]
       /\ row' = [z \in Zones |-> IF z \in files
                                    THEN [row[z] EXCEPT !.content = ver[z] + 1]
                                    ELSE row[z]]
  /\ served' = [z \in Zones |-> FromStore(row[z], ver[z])']
  /\ serials' = [z \in Zones |-> SerialOf(served[z])']
  /\ changed' = {}
  /\ permit' = FALSE
  /\ reload_lock' = Free
  /\ update_lock' = Free
  /\ config_write' = Free
  /\ pc' = [t \in Threads |-> "idle"]
  /\ npc' = "wait"
  /\ sending' = {}
  /\ spawned' = {}
  /\ announced' = serials'
  /\ stale' = {}
  /\ xfer' = NothingRead
  /\ build' = [t \in Threads |-> NothingRead]
  /\ job' = [t \in Threads |-> NoJob]
  /\ UNCHANGED <<copy, failures, late>>

Import(t) == (\E z \in Zones : ImportCreate(t, z)) \/ ImportRecords(t) \/ ImportFails(t)

EditSoa(t) == (\E z \in Zones : SoaRead(t, z)) \/ SoaSet(t) \/ SoaBump(t) \/ SoaNotFound(t)

Update(t) == (\E z \in Zones : UpdateCheck(t, z)) \/ UpdateRead(t) \/ UpdateApply(t)
               \/ UpdateNotFound(t)

Reload(t) == ReloadRows(t) \/ ReloadRecords(t) \/ ReloadPublish(t) \/ ReloadReport(t)
               \/ BuildFails(t) \/ SplitHorizonFails(t) \/ UndoCreate(t)

Notifier == NotifierWake \/ NotifierTake \/ NotifierSend
              \/ \E z \in Zones : SpawnedNotify(z)

Transfer(z) == TransferRow(z) \/ TransferRecords(z) \/ TransferServed(z)

Next ==
  \/ \E t \in Threads : Edit(t) \/ Import(t) \/ EditSoa(t) \/ Update(t) \/ Reload(t)
  \/ Notifier
  \/ \E z \in Zones : Transfer(z)
  \/ Restart

Spec == Init /\ [][Next]_vars

\* What the runtime keeps running: a handler that has begun goes on to its end
\* (it never waits for anything but a lock that is held for a bounded time),
\* and so does the NOTIFY task.  No request ever has to arrive.
Fairness ==
  /\ \A t \in Threads :
       WF_vars(ImportRecords(t) \/ SoaSet(t) \/ SoaBump(t) \/ SoaNotFound(t)
                 \/ UpdateRead(t) \/ UpdateApply(t) \/ UpdateNotFound(t) \/ ReloadRows(t)
                 \/ ReloadRecords(t) \/ ReloadPublish(t) \/ ReloadReport(t) \/ UndoCreate(t))
  /\ WF_vars(NotifierWake \/ NotifierTake \/ NotifierSend)

FairSpec == Spec /\ Fairness
----------------------------------------------------------------------------
(* Properties *)

\* reload reads the zone rows before the records, so the records it serves, and
\* those of every copy handed out, are never older than the serial they carry:
\* a secondary that holds a serial holds at least what that serial stands for
\* (0: the zone was deleted between the two reads).
ContentNotBehindSerial ==
  \A z \in Zones : \A c \in {served[z], copy[z]} :
    c.content = 0 \/ c.content >= c.since

\* The lock taken by AuthorityCatalog::reload keeps a slow rebuild that read the
\* database first from replacing a newer one: no step serves an older row.
PublishMonotone ==
  [][\A z \in Zones : served'[z].rowver >= served[z].rowver]_vars

\* Once every handler has returned, the catalog serves exactly the store, except
\* for the zones left behind by a reload that failed or by a handler that
\* deleted a zone without reloading.
QuiescentFresh ==
  (\A t \in Threads : pc[t] = "idle") =>
    \A z \in Zones \ stale : served[z] = FromStore(row[z], ver[z])

\* A copy of a zone that lacks the zone's last change has an older serial, so
\* its holder finds out on its next SOA query.
ChangeIsDetectable ==
  \A z \in Zones :
    row[z].exists /\ copy[z].born = row[z].born /\ copy[z].content # row[z].content
      => SerialNewer(row[z].serial, copy[z].serial)

\* The same once every handler has returned: what a handler of several
\* transactions (update_zone_soa, import_zone) leaves behind.
LastingChangeIsDetectable ==
  (\A t \in Threads : pc[t] = "idle") => ChangeIsDetectable

\* The serial a zone is served with has, time and again, been announced to its
\* secondaries (so the last one is, and one that is not was overtaken): the report
\* that reload leaves in changed_zones always reaches the NOTIFY task.
EverySerialAnnounced ==
  \A z \in Zones : []<>(announced[z] = served[z].serial \/ ~served[z].live \/ late > 0)
----------------------------------------------------------------------------
(* The inductive invariant behind ContentNotBehindSerial, PublishMonotone and *)
(* QuiescentFresh                                                             *)

\* The lock is held exactly by the thread that reads and publishes.
LockInv ==
  \A t \in Threads : pc[t] \in {"records", "publish", "report"} <=> reload_lock = t

\* A row that was read is no newer than the store's; if it is still there, its
\* content has only moved on, and if nothing was committed since, it is equal.
Seen(b, z) ==
  /\ b.born <= ver[z] /\ b.since <= ver[z] /\ b.rowver <= ver[z]
  /\ row[z].exists /\ row[z].born = b.born => b.since <= row[z].content

NotBehind(b) == b.content = 0 \/ b.content >= b.since

RowInv == \A z \in Zones : row[z].content <= ver[z] /\ row[z].born <= ver[z]

\* What thread t has read of zone z so far.
ReadOk(t, z) ==
  /\ Seen(build[t][z], z)
  /\ pc[t] = "records" /\ build[t][z].rowver = ver[z]
       => build[t][z] = ReadRow(row[z], ver[z])
  /\ pc[t] \in {"publish", "report"} =>
       /\ NotBehind(build[t][z])
       /\ build[t][z].rowver = ver[z] => build[t][z] = FromStore(row[z], ver[z])
  /\ pc[t] \in {"records", "publish"} => build[t][z].rowver >= served[z].rowver
  /\ pc[t] = "report" => build[t][z] = served[z]

ReadInv == \A z \in Zones : Seen(xfer[z], z) /\ \A t \in Threads : ReadOk(t, z)

ServedInv ==
  \A z \in Zones :
    /\ served[z].rowver <= ver[z]
    /\ served[z].rowver = ver[z] => served[z] = FromStore(row[z], ver[z])
    /\ NotBehind(served[z])
    /\ NotBehind(copy[z])

\* Thread t will still publish the last change of zone z, or fail trying.
WillPublish(t, z) ==
  \/ pc[t] = "reload"
  \/ pc[t] \in {"import", "soa_bump"} /\ job[t].zone = z /\ Present(t)
  \/ pc[t] \in {"records", "publish"} /\ build[t][z].rowver = ver[z]

FreshInv ==
  \A z \in Zones \ stale :
    served[z].rowver = ver[z] \/ \E t \in Threads : WillPublish(t, z)

IndInv == LockInv /\ RowInv /\ ReadInv /\ ServedInv /\ FreshInv
----------------------------------------------------------------------------
(* The inductive invariant behind ChangeIsDetectable, where the zones are     *)
(* changed in one way only: by the console's one-transaction changes, or by   *)
(* dynamic updates that leave the serial to the server.                       *)

\* Every change of a zone's content moves its serial on, and a copy lags behind by
\* less than half the serial space (RFC 1982).
OneKindOfChange ==
  /\ SoaEditors = {} /\ Importers = {} /\ ZoneFiles = {}
  /\ Updaters = {} \/ (Editors = {} /\ GivenSerials = {})
  /\ MaxCommits < Half

\* Serial r is ahead of serial s after n commits at most, as far as that many
\* bumps can take it: 0 is left out once on the way round.
Ahead(r, s, n) ==
  /\ n = 0 => r = s
  /\ n > 0 => r # s /\ WrappingSub(r, s) <= IF r > s THEN n ELSE n + 1

\* The row of b, read before, is one row r of the zone has been.
Follows(b, r, v) ==
  /\ b.born <= v
  /\ r.exists /\ r.born = b.born =>
       1 <= b.since /\ b.since <= r.content /\ Ahead(r.serial, b.serial, r.content - b.since)

\* The records of b are no older than its row and no newer than the store's.
Complete(b, r) ==
  r.exists /\ r.born = b.born => b.since <= b.content /\ b.content <= r.content

RowSound(r, v) ==
  r.content <= v /\ r.born <= v /\ (r.exists => 1 <= r.born /\ 1 <= r.content)

\* What is served, was handed out or has been read are rows the zone has had.
DetectInv ==
  \A z \in Zones :
    /\ RowSound(row[z], ver[z])
    /\ Follows(served[z], row[z], ver[z]) /\ Complete(served[z], row[z])
    /\ Follows(copy[z], row[z], ver[z]) /\ Complete(copy[z], row[z])
    /\ Follows(xfer[z], row[z], ver[z])
    /\ \A t \in Threads : /\ Follows(build[t][z], row[z], ver[z])
                          /\ pc[t] = "publish" => Complete(build[t][z], row[z])

\* No thread writes back a serial that is not the zone's: updates have
\* update_lock from the read of the serial to the end of the reload.
WriterInv ==
  /\ \A t \in Threads : /\ pc[t] \notin {"import", "soa_set", "soa_bump"}
                        /\ Updaters = {} => pc[t] \notin {"upd_read", "upd_apply"}
  /\ Updaters # {} =>
       \A t \in Threads :
         /\ pc[t] # "idle" => update_lock = t
         /\ pc[t] = "upd_apply" /\ Present(t) => job[t].serial = row[job[t].zone].serial
=============================================================================
