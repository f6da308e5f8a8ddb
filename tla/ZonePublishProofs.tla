------------------------- MODULE ZonePublishProofs -------------------------
(***************************************************************************)
(* Proofs about ZonePublish, for every set of zones and threads, every     *)
(* size of the serial space and every bound.                               *)
(***************************************************************************)
EXTENDS ZonePublish, TLAPS

\* The next serial is a serial.
LEMMA BumpSerialType ==
  ASSUME NEW s \in Serial
  PROVE  BumpSerial(s) \in Serial
BY HalfAssumption DEF BumpSerial, WrappingInc, Serial, Space

\* The serial a change is given is newer than the one before it, also where the
\* number space wraps and 0 is left out (bump_serial_in, serial_newer).
THEOREM BumpSerialNewer ==
  ASSUME NEW s \in Serial
  PROVE  SerialNewer(BumpSerial(s), s)
BY HalfAssumption DEF SerialNewer, WrappingSub, BumpSerial, WrappingInc, Serial, Space

\* Of two serials at most one is newer than the other (serial_newer).
THEOREM SerialNewerAsymmetric ==
  ASSUME NEW a \in Serial, NEW b \in Serial, SerialNewer(a, b)
  PROVE  ~SerialNewer(b, a)
BY HalfAssumption DEF SerialNewer, WrappingSub, Serial, Space

\* What is read from the store has the type of what is served.
LEMMA ReadType ==
  ASSUME NEW r \in Row, NEW v \in Version
  PROVE  /\ ReadRow(r, v) \in Built
         /\ FromStore(r, v) \in Built
BY BoundsAssumption DEF Row, Version, ReadRow, Built, FromStore, ReadRecords

LEMMA ReadRecordsType ==
  ASSUME NEW b \in Built, NEW r \in Row
  PROVE  ReadRecords(b, r) \in Built
BY BoundsAssumption DEF Row, Version, Built, ReadRecords

LEMMA NothingReadType == NothingRead \in [Zones -> Built]
BY HalfAssumption, BoundsAssumption DEF NothingRead, Built, Serial, Space, Version

LEMMA NewRowTypes ==
  ASSUME TypeOK, NEW z \in Zones, ver[z] < MaxCommits, NEW s \in Serial
  PROVE  /\ Changed(z, s) \in Row
         /\ NewRow(z) \in Row
         /\ NoRow \in Row
         /\ ver[z] + 1 \in Version
<1>1. row[z] \in Row /\ ver[z] \in Version
  BY DEF TypeOK
<1>2. ver[z] + 1 \in Version /\ 0 \in Version
  BY <1>1, BoundsAssumption DEF Version
<1>3. Changed(z, s) \in Row
  BY <1>1, <1>2 DEF Changed, Row
<1>4. NewRow(z) \in Row
  BY <1>2, SerialAssumption DEF NewRow, Row
<1>5. NoRow \in Row
  BY <1>2, HalfAssumption DEF NoRow, Row, Serial, Space
<1>6. QED
  BY <1>2, <1>3, <1>4, <1>5

LEMMA CommitType ==
  ASSUME TypeOK, NEW z \in Zones, NEW r \in Row, Commit(z, r)
  PROVE  row' \in [Zones -> Row] /\ ver' \in [Zones -> Version]
BY BoundsAssumption DEF TypeOK, Commit, Version

LEMMA InitType == Init => TypeOK
<1> SUFFICES ASSUME Init PROVE TypeOK
  OBVIOUS
<1>1. FirstRow \in Row /\ NoRow \in Row /\ 1 \in Version
  BY SerialAssumption, BoundsAssumption, HalfAssumption
     DEF FirstRow, NoRow, Row, Version, Serial, Space
<1>2. \A z \in Zones : row[z] \in Row /\ served[z] \in Built
  BY <1>1, ReadType DEF Init
<1>3. \A z \in Zones : CopyOf(served[z]) \in Copy /\ SerialOf(served[z]) \in Serial \cup {NoSerial}
  BY <1>2 DEF CopyOf, Copy, Built, SerialOf
<1>4. NoJob \in Job
  BY HalfAssumption, BoundsAssumption DEF NoJob, Job, Serial, Space, Version
<1>5. /\ row \in [Zones -> Row]
      /\ ver \in [Zones -> Version]
      /\ served \in [Zones -> Built]
      /\ build \in [Threads -> [Zones -> Built]]
      /\ xfer \in [Zones -> Built]
      /\ copy \in [Zones -> Copy]
      /\ job \in [Threads -> Job]
  BY <1>1, <1>2, <1>3, <1>4, NothingReadType DEF Init
<1>6. /\ serials \in [Zones -> Serial \cup {NoSerial}]
      /\ announced \in [Zones -> Serial \cup {NoSerial}]
  BY <1>3 DEF Init
<1>7. /\ pc \in [Threads -> Steps]
      /\ \A t \in Threads : pc[t] # "idle" => job[t].zone \in Zones
  BY DEF Init, Steps
<1>8. /\ failures \in 0 .. MaxFailures
      /\ late \in 0 .. MaxLate
      /\ restarts \in 0 .. MaxRestarts
  BY BoundsAssumption DEF Init
<1>9. QED
  BY <1>5, <1>6, <1>7, <1>8 DEF Init, TypeOK

\* The step of one thread that commits a row and turns to a job keeps the types.
LEMMA JobType ==
  ASSUME TypeOK, NEW t \in Threads, NEW z \in Zones, NEW born \in Version,
         NEW undo \in BOOLEAN, TakeJob(t, z, born, undo)
  PROVE  job' \in [Threads -> Job] /\ job'[t].zone = z
                /\ \A u \in Threads \ {t} : job'[u] = job[u]
<1>1. row[z] \in Row /\ job[t] \in Job /\ job \in [Threads -> Job]
  BY DEF TypeOK
<1>2. QED
  BY <1>1 DEF TakeJob, Job, Row

LEMMA FinishType ==
  ASSUME TypeOK, NEW t \in Threads, Finish(t)
  PROVE  /\ pc' \in [Threads -> Steps]
         /\ job' \in [Threads -> Job]
         /\ \A u \in Threads : pc'[u] # "idle" => job'[u].zone \in Zones
         /\ update_lock' \in Threads \cup {Free}
         /\ config_write' \in Threads \cup {Free}
<1>1. NoJob \in Job
  BY HalfAssumption, BoundsAssumption DEF NoJob, Job, Serial, Space, Version
<1>2. QED
  BY <1>1 DEF TypeOK, Finish, GoTo, Released, Steps

\* A step that moves one thread on, with its job kept or set.
LEMMA GoToType ==
  ASSUME TypeOK, NEW t \in Threads, NEW s \in Steps, GoTo(t, s),
         job' \in [Threads -> Job], job'[t].zone \in Zones,
         \A u \in Threads \ {t} : job'[u] = job[u]
  PROVE  /\ pc' \in [Threads -> Steps]
         /\ \A u \in Threads : pc'[u] # "idle" => job'[u].zone \in Zones
BY DEF TypeOK, GoTo

LEMMA EditType ==
  ASSUME TypeOK, NEW t \in Threads, Edit(t)
  PROVE  TypeOK'
<1>1. PICK z \in Zones : EditRecords(t, z) \/ SetZoneEnabled(t, z)
                            \/ DeleteZone(t, z) \/ CreateZone(t, z)
  BY DEF Edit
<1>2. row[z] \in Row /\ ver[z] \in Version /\ row[z].born \in Version
  BY DEF TypeOK, Row
<1>3. BumpSerial(row[z].serial) \in Serial
  BY <1>2, BumpSerialType DEF Row
<1>4. [row[z] EXCEPT !.enabled = ~@] \in Row
  BY <1>2 DEF Row
<1>5. /\ row' \in [Zones -> Row]
      /\ ver' \in [Zones -> Version]
      /\ job' \in [Threads -> Job]
      /\ job'[t].zone = z
      /\ \A u \in Threads \ {t} : job'[u] = job[u]
      /\ config_write' \in Threads \cup {Free}
  <2>1. CASE EditRecords(t, z)
    <3>1. Changed(z, BumpSerial(row[z].serial)) \in Row
      BY <2>1, <1>3, NewRowTypes DEF EditRecords, Commit
    <3>2. row' \in [Zones -> Row] /\ ver' \in [Zones -> Version]
      BY <2>1, <3>1, CommitType DEF EditRecords
    <3>3. QED
      BY <2>1, <1>2, <3>2, JobType DEF EditRecords, TypeOK
  <2>2. CASE SetZoneEnabled(t, z)
    <3>1. row' \in [Zones -> Row] /\ ver' \in [Zones -> Version]
      BY <2>2, <1>4, CommitType DEF SetZoneEnabled, storeVars, TypeOK
    <3>2. QED
      BY <2>2, <1>2, <3>1, JobType DEF SetZoneEnabled, TypeOK
  <2>3. CASE DeleteZone(t, z)
    <3>1. NoRow \in Row
      BY <2>3, <1>3, NewRowTypes DEF DeleteZone, Commit
    <3>2. row' \in [Zones -> Row] /\ ver' \in [Zones -> Version]
      BY <2>3, <3>1, CommitType DEF DeleteZone
    <3>3. QED
      BY <2>3, <1>2, <3>2, JobType DEF DeleteZone, TypeOK
  <2>4. CASE CreateZone(t, z)
    <3>1. NewRow(z) \in Row /\ ver[z] + 1 \in Version
      BY <2>4, <1>3, NewRowTypes DEF CreateZone, Commit
    <3>2. row' \in [Zones -> Row] /\ ver' \in [Zones -> Version]
      BY <2>4, <3>1, CommitType DEF CreateZone
    <3>3. QED
      BY <2>4, <3>1, <3>2, JobType DEF CreateZone, TypeOK
  <2>5. QED
    BY <1>1, <2>1, <2>2, <2>3, <2>4
<1>6. /\ pc' \in [Threads -> Steps]
      /\ \A u \in Threads : pc'[u] # "idle" => job'[u].zone \in Zones
  BY <1>5, GoToType DEF Edit, Steps
<1>7. QED
  BY <1>5, <1>6 DEF TypeOK, Edit, serveVars, notifyVars, copyVars, countVars

\* A step of a thread on the zone of its job that commits the next content.
LEMMA ChangeType ==
  ASSUME TypeOK, NEW t \in Threads, pc[t] # "idle", NEW s \in Serial,
         Commit(job[t].zone, Changed(job[t].zone, s))
  PROVE  row' \in [Zones -> Row] /\ ver' \in [Zones -> Version]
<1>1. job[t].zone \in Zones
  BY DEF TypeOK
<1>2. Changed(job[t].zone, s) \in Row
  BY <1>1, NewRowTypes DEF Commit
<1>3. QED
  BY <1>1, <1>2, CommitType

LEMMA DropType ==
  ASSUME TypeOK, NEW t \in Threads, pc[t] # "idle", Commit(job[t].zone, NoRow)
  PROVE  row' \in [Zones -> Row] /\ ver' \in [Zones -> Version]
<1>1. job[t].zone \in Zones /\ 0 \in Serial
  BY HalfAssumption DEF TypeOK, Serial, Space
<1>2. NoRow \in Row
  BY <1>1, NewRowTypes DEF Commit
<1>3. QED
  BY <1>1, <1>2, CommitType

LEMMA JobFacts ==
  ASSUME TypeOK, NEW t \in Threads, pc[t] # "idle"
  PROVE  /\ job[t] \in Job
         /\ job[t].zone \in Zones
         /\ job[t].serial \in Serial
         /\ row[job[t].zone] \in Row
         /\ row[job[t].zone].serial \in Serial
<1>1. job[t] \in Job /\ job[t].zone \in Zones
  BY DEF TypeOK
<1>2. row[job[t].zone] \in Row
  BY <1>1 DEF TypeOK
<1>3. QED
  BY <1>1, <1>2 DEF Job, Row

LEMMA ImportType ==
  ASSUME TypeOK, NEW t \in Threads, Import(t)
  PROVE  TypeOK'
<1>1. CASE \E z \in Zones : ImportCreate(t, z)
  <2>1. PICK z \in Zones : ImportCreate(t, z)
    BY <1>1
  <2>2. NewRow(z) \in Row /\ ver[z] + 1 \in Version
    BY <2>1, SerialAssumption, NewRowTypes DEF ImportCreate, Commit
  <2>3. row' \in [Zones -> Row] /\ ver' \in [Zones -> Version]
    BY <2>1, <2>2, CommitType DEF ImportCreate
  <2>4. /\ job' \in [Threads -> Job]
        /\ job'[t].zone = z
        /\ \A u \in Threads \ {t} : job'[u] = job[u]
    BY <2>1, <2>2, JobType DEF ImportCreate
  <2>5. /\ pc' \in [Threads -> Steps]
        /\ \A u \in Threads : pc'[u] # "idle" => job'[u].zone \in Zones
    BY <2>1, <2>4, GoToType DEF ImportCreate, Steps
  <2>6. QED
    BY <2>1, <2>3, <2>4, <2>5
    DEF TypeOK, ImportCreate, serveVars, notifyVars, copyVars, countVars
<1>2. CASE ImportRecords(t)
  <2>1. row' \in [Zones -> Row] /\ ver' \in [Zones -> Version]
    BY <1>2, JobFacts, ChangeType DEF ImportRecords
  <2>2. pc' \in [Threads -> Steps]
        /\ \A u \in Threads : pc'[u] # "idle" => job'[u].zone \in Zones
    BY <1>2 DEF ImportRecords, GoTo, Steps, TypeOK
  <2>3. QED
    BY <1>2, <2>1, <2>2
    DEF TypeOK, ImportRecords, serveVars, lockVars, notifyVars, copyVars, countVars
<1>3. CASE ImportFails(t)
  <2>1. row' \in [Zones -> Row] /\ ver' \in [Zones -> Version] /\ stale' \subseteq Zones
    BY <1>3, JobFacts, DropType DEF ImportFails, storeVars, TypeOK
  <2>2. QED
    BY <1>3, <2>1, FinishType
    DEF TypeOK, ImportFails, serveVars, notifyVars, copyVars, countVars
<1>4. QED
  BY <1>1, <1>2, <1>3 DEF Import

LEMMA EditSoaType ==
  ASSUME TypeOK, NEW t \in Threads, EditSoa(t)
  PROVE  TypeOK'
<1>1. CASE \E z \in Zones : SoaRead(t, z)
  <2>1. PICK z \in Zones : SoaRead(t, z)
    BY <1>1
  <2>2. row[z].born \in Version
    BY DEF TypeOK, Row
  <2>3. /\ job' \in [Threads -> Job]
        /\ job'[t].zone = z
        /\ \A u \in Threads \ {t} : job'[u] = job[u]
    BY <2>1, <2>2, JobType DEF SoaRead
  <2>4. /\ pc' \in [Threads -> Steps]
        /\ \A u \in Threads : pc'[u] # "idle" => job'[u].zone \in Zones
    BY <2>1, <2>3, GoToType DEF SoaRead, Steps
  <2>5. QED
    BY <2>1, <2>3, <2>4
    DEF TypeOK, SoaRead, storeVars, serveVars, lockVars, notifyVars, copyVars, countVars
<1>2. CASE SoaSet(t)
  <2>1. row' \in [Zones -> Row] /\ ver' \in [Zones -> Version]
    BY <1>2, JobFacts, ChangeType, SerialAssumption DEF SoaSet
  <2>2. pc' \in [Threads -> Steps]
        /\ \A u \in Threads : pc'[u] # "idle" => job'[u].zone \in Zones
    BY <1>2 DEF SoaSet, GoTo, Steps, TypeOK
  <2>3. QED
    BY <1>2, <2>1, <2>2
    DEF TypeOK, SoaSet, serveVars, lockVars, notifyVars, copyVars, countVars
<1>3. CASE SoaBump(t)
  <2>1. row' \in [Zones -> Row] /\ ver' \in [Zones -> Version]
    BY <1>3, JobFacts, BumpSerialType, ChangeType DEF SoaBump
  <2>2. pc' \in [Threads -> Steps]
        /\ \A u \in Threads : pc'[u] # "idle" => job'[u].zone \in Zones
    BY <1>3 DEF SoaBump, GoTo, Steps, TypeOK
  <2>3. QED
    BY <1>3, <2>1, <2>2
    DEF TypeOK, SoaBump, serveVars, lockVars, notifyVars, copyVars, countVars
<1>4. CASE SoaNotFound(t)
  BY <1>4, FinishType
  DEF TypeOK, SoaNotFound, storeVars, serveVars, notifyVars, copyVars, countVars
<1>5. QED
  BY <1>1, <1>2, <1>3, <1>4 DEF EditSoa

LEMMA UpdateType ==
  ASSUME TypeOK, NEW t \in Threads, Update(t)
  PROVE  TypeOK'
<1>1. CASE \E z \in Zones : UpdateCheck(t, z)
  <2>1. PICK z \in Zones : UpdateCheck(t, z)
    BY <1>1
  <2>2. row[z].born \in Version
    BY DEF TypeOK, Row
  <2>3. /\ job' \in [Threads -> Job]
        /\ job'[t].zone = z
        /\ \A u \in Threads \ {t} : job'[u] = job[u]
    BY <2>1, <2>2, JobType DEF UpdateCheck
  <2>4. /\ pc' \in [Threads -> Steps]
        /\ \A u \in Threads : pc'[u] # "idle" => job'[u].zone \in Zones
    BY <2>1, <2>3, GoToType DEF UpdateCheck, Steps
  <2>5. QED
    BY <2>1, <2>3, <2>4
    DEF TypeOK, UpdateCheck, storeVars, serveVars, notifyVars, copyVars, countVars
<1>2. CASE UpdateRead(t)
  <2>1. CASE Present(t) /\ GoTo(t, "upd_apply") /\ UNCHANGED lockVars
               /\ job' = [job EXCEPT ![t].serial = row[job[t].zone].serial]
    <3>1. /\ job' \in [Threads -> Job]
          /\ job'[t].zone \in Zones
          /\ \A u \in Threads \ {t} : job'[u] = job[u]
      BY SMTT(30), <1>2, <2>1, JobFacts DEF UpdateRead, Job, TypeOK
    <3>2. /\ pc' \in [Threads -> Steps]
          /\ \A u \in Threads : pc'[u] # "idle" => job'[u].zone \in Zones
      BY <2>1, <3>1, GoToType DEF Steps
    <3>3. QED
      BY <1>2, <2>1, <3>1, <3>2
      DEF TypeOK, UpdateRead, storeVars, serveVars, lockVars, notifyVars, copyVars, countVars
  <2>2. CASE Finish(t) /\ UNCHANGED reload_lock
    BY <1>2, <2>2, FinishType
    DEF TypeOK, UpdateRead, storeVars, serveVars, notifyVars, copyVars, countVars
  <2>3. QED
    BY <1>2, <2>1, <2>2 DEF UpdateRead
<1>3. CASE UpdateApply(t)
  <2>1. row' \in [Zones -> Row] /\ ver' \in [Zones -> Version]
    BY <1>3, JobFacts, BumpSerialType, ChangeType, SerialAssumption DEF UpdateApply
  <2>2. pc' \in [Threads -> Steps]
        /\ \A u \in Threads : pc'[u] # "idle" => job'[u].zone \in Zones
    BY <1>3 DEF UpdateApply, GoTo, Steps, TypeOK
  <2>3. QED
    BY <1>3, <2>1, <2>2
    DEF TypeOK, UpdateApply, serveVars, lockVars, notifyVars, copyVars, countVars
<1>4. CASE UpdateNotFound(t)
  <2>1. CASE Finish(t) /\ UNCHANGED reload_lock
    BY <1>4, <2>1, FinishType
    DEF TypeOK, UpdateNotFound, storeVars, serveVars, notifyVars, copyVars, countVars
  <2>2. CASE GoTo(t, "reload") /\ UNCHANGED <<lockVars, job>>
    <3>1. /\ pc' \in [Threads -> Steps]
          /\ \A u \in Threads : pc'[u] # "idle" => job'[u].zone \in Zones
      BY <1>4, <2>2 DEF UpdateNotFound, GoTo, Steps, TypeOK
    <3>2. QED
      BY <1>4, <2>2, <3>1
      DEF TypeOK, UpdateNotFound, storeVars, serveVars, lockVars, notifyVars, copyVars, countVars
  <2>3. QED
    BY <1>4, <2>1, <2>2 DEF UpdateNotFound
<1>5. QED
  BY <1>1, <1>2, <1>3, <1>4 DEF Update

\* Dropping what a thread has read keeps the types.
LEMMA DropBuildType ==
  ASSUME TypeOK, NEW t \in Threads, build' = [build EXCEPT ![t] = NothingRead]
  PROVE  build' \in [Threads -> [Zones -> Built]]
BY NothingReadType DEF TypeOK

LEMMA StepType ==
  ASSUME TypeOK, NEW t \in Threads, NEW s \in Steps, pc[t] # "idle", GoTo(t, s), job' = job
  PROVE  /\ pc' \in [Threads -> Steps]
         /\ \A u \in Threads : pc'[u] # "idle" => job'[u].zone \in Zones
BY DEF TypeOK, GoTo

LEMMA ReloadErrorType ==
  ASSUME TypeOK, NEW t \in Threads, pc[t] # "idle", ReloadError(t),
         failures' \in 0 .. MaxFailures, late' \in 0 .. MaxLate
  PROVE  TypeOK'
<1>1. build' \in [Threads -> [Zones -> Built]]
  BY DropBuildType DEF ReloadError
<1>2. CASE GoTo(t, "undo") /\ UNCHANGED <<update_lock, config_write, job>>
  <2>1. /\ pc' \in [Threads -> Steps]
        /\ \A u \in Threads : pc'[u] # "idle" => job'[u].zone \in Zones
    BY <1>2, StepType DEF Steps
  <2>2. QED
    BY <1>1, <1>2, <2>1 DEF TypeOK, ReloadError, storeVars, notifyVars, copyVars
<1>3. CASE Finish(t)
  BY <1>1, <1>3, FinishType DEF TypeOK, ReloadError, storeVars, notifyVars, copyVars
<1>4. QED
  BY <1>2, <1>3 DEF ReloadError

LEMMA ReloadType ==
  ASSUME TypeOK, NEW t \in Threads, Reload(t)
  PROVE  TypeOK'
<1>1. CASE ReloadRows(t)
  <2>1. \A z \in Zones : ReadRow(row[z], ver[z]) \in Built
    BY ReadType DEF TypeOK
  <2>2. build' \in [Threads -> [Zones -> Built]]
    BY <1>1, <2>1 DEF ReloadRows, TypeOK
  <2>3. /\ pc' \in [Threads -> Steps]
        /\ \A u \in Threads : pc'[u] # "idle" => job'[u].zone \in Zones
    BY <1>1, StepType DEF ReloadRows, Steps
  <2>4. QED
    BY <1>1, <2>2, <2>3
    DEF TypeOK, ReloadRows, storeVars, notifyVars, copyVars, countVars
<1>2. CASE ReloadRecords(t)
  <2>1. \A z \in Zones : ReadRecords(build[t][z], row[z]) \in Built
    BY ReadRecordsType DEF TypeOK
  <2>2. build' \in [Threads -> [Zones -> Built]]
    BY <1>2, <2>1 DEF ReloadRecords, TypeOK
  <2>3. /\ pc' \in [Threads -> Steps]
        /\ \A u \in Threads : pc'[u] # "idle" => job'[u].zone \in Zones
    BY <1>2, StepType DEF ReloadRecords, Steps
  <2>4. QED
    BY <1>2, <2>2, <2>3
    DEF TypeOK, ReloadRecords, storeVars, lockVars, notifyVars, copyVars, countVars
<1>3. CASE ReloadPublish(t)
  <2>1. /\ pc' \in [Threads -> Steps]
        /\ \A u \in Threads : pc'[u] # "idle" => job'[u].zone \in Zones
    BY <1>3, StepType DEF ReloadPublish, Steps
  <2>2. QED
    BY <1>3, <2>1
    DEF TypeOK, ReloadPublish, storeVars, lockVars, notifyVars, copyVars, countVars
<1>4. CASE ReloadReport(t)
  <2>1. \A z \in Zones : SerialOf(build[t][z]) \in Serial \cup {NoSerial}
    BY DEF TypeOK, SerialOf, Built
  <2>2. serials' \in [Zones -> Serial \cup {NoSerial}]
    BY <1>4, <2>1 DEF ReloadReport
  <2>3. build' \in [Threads -> [Zones -> Built]]
    BY <1>4, DropBuildType DEF ReloadReport
  <2>4. spawned' \subseteq Zones
    BY <1>4, JobFacts DEF ReloadReport, TypeOK
  <2>5. permit' \in BOOLEAN /\ changed' \subseteq Zones /\ stale' \subseteq Zones
    BY <1>4 DEF ReloadReport, TypeOK
  <2>6. QED
    BY <1>4, <2>2, <2>3, <2>4, <2>5, FinishType
    DEF TypeOK, ReloadReport, storeVars, copyVars, countVars
<1>5. CASE BuildFails(t)
  BY <1>5, ReloadErrorType, BoundsAssumption DEF BuildFails, TypeOK
<1>6. CASE SplitHorizonFails(t)
  BY <1>6, ReloadErrorType, BoundsAssumption DEF SplitHorizonFails, TypeOK
<1>7. CASE UndoCreate(t)
  <2>1. row' \in [Zones -> Row] /\ ver' \in [Zones -> Version] /\ stale' \subseteq Zones
    BY <1>7, JobFacts, DropType DEF UndoCreate, storeVars, TypeOK
  <2>2. QED
    BY <1>7, <2>1, FinishType
    DEF TypeOK, UndoCreate, serveVars, notifyVars, copyVars, countVars
<1>8. QED
  BY <1>1, <1>2, <1>3, <1>4, <1>5, <1>6, <1>7 DEF Reload

LEMMA NotifierType ==
  ASSUME TypeOK, Notifier
  PROVE  TypeOK'
<1> USE DEF storeVars, serveVars, lockVars, copyVars, countVars
<1>1. CASE NotifierWake
  BY <1>1 DEF TypeOK, NotifierWake
<1>2. CASE NotifierTake
  BY <1>2 DEF TypeOK, NotifierTake
<1>3. \A z \in Zones : IF served[z].live THEN served[z].serial \in Serial ELSE TRUE
  BY DEF TypeOK, Built
<1>4. CASE NotifierSend
  <2>1. announced' \in [Zones -> Serial \cup {NoSerial}] /\ sending' \subseteq Zones
        /\ npc' \in {"wait", "take", "send"}
    BY <1>3, <1>4 DEF TypeOK, NotifierSend
  <2>2. QED
    BY <1>4, <2>1 DEF TypeOK, NotifierSend
<1>5. CASE \E z \in Zones : SpawnedNotify(z)
  <2>1. PICK z \in Zones : SpawnedNotify(z)
    BY <1>5
  <2>2. announced' \in [Zones -> Serial \cup {NoSerial}] /\ spawned' \subseteq Zones
    BY <1>3, <2>1 DEF TypeOK, SpawnedNotify
  <2>3. QED
    BY <2>1, <2>2 DEF TypeOK, SpawnedNotify
<1>6. QED
  BY <1>1, <1>2, <1>4, <1>5 DEF Notifier

LEMMA TransferType ==
  ASSUME TypeOK, NEW z \in Zones, Transfer(z)
  PROVE  TypeOK'
<1> USE DEF storeVars, serveVars, lockVars, notifyVars, countVars
<1>1. ReadRow(row[z], ver[z]) \in Built /\ ReadRecords(xfer[z], row[z]) \in Built
  BY ReadType, ReadRecordsType DEF TypeOK
<1>2. \A b \in Built : CopyOf(b) \in Copy
  BY DEF CopyOf, Copy, Built
<1>3. CASE TransferRow(z)
  <2>1. xfer' \in [Zones -> Built]
    BY <1>1, <1>3 DEF TransferRow, TypeOK
  <2>2. QED
    BY <1>3, <2>1 DEF TypeOK, TransferRow
<1>4. CASE TransferRecords(z)
  <2>1. xfer' \in [Zones -> Built] /\ copy' \in [Zones -> Copy]
    BY <1>1, <1>2, <1>4, NothingReadType DEF TransferRecords, TypeOK
  <2>2. QED
    BY <1>4, <2>1 DEF TypeOK, TransferRecords
<1>5. CASE TransferServed(z)
  <2>1. copy' \in [Zones -> Copy]
    BY <1>2, <1>5 DEF TransferServed, TypeOK
  <2>2. QED
    BY <1>5, <2>1 DEF TypeOK, TransferServed
<1>6. QED
  BY <1>3, <1>4, <1>5 DEF Transfer

LEMMA RestartType ==
  ASSUME TypeOK, Restart
  PROVE  TypeOK'
<1>1. PICK files \in SUBSET {z \in ZoneFiles : row[z].exists} :
        /\ \A z \in files : ver[z] < MaxCommits
        /\ ver' = [z \in Zones |-> IF z \in files THEN ver[z] + 1 ELSE ver[z]]
        /\ row' = [z \in Zones |-> IF z \in files
                                     THEN [row[z] EXCEPT !.content = ver[z] + 1]
                                     ELSE row[z]]
  BY DEF Restart
<1>2. \A z \in Zones : row[z] \in Row /\ ver[z] \in Version
  BY DEF TypeOK
<1>3. \A z \in files : ver[z] + 1 \in Version
  BY <1>1, <1>2, ZonesAssumption, BoundsAssumption DEF Version
<1>4. \A z \in files : [row[z] EXCEPT !.content = ver[z] + 1] \in Row
  BY <1>2, <1>3, ZonesAssumption DEF Row
<1>5. row' \in [Zones -> Row] /\ ver' \in [Zones -> Version]
  BY <1>1, <1>2, <1>3, <1>4
<1>6. \A z \in Zones : FromStore(row'[z], ver'[z]) \in Built
  BY <1>5, ReadType
<1>7. served' \in [Zones -> Built]
  BY <1>6 DEF Restart
<1>8. \A z \in Zones : SerialOf(served'[z]) \in Serial \cup {NoSerial}
  BY <1>7 DEF SerialOf, Built
<1>9. serials' \in [Zones -> Serial \cup {NoSerial}]
  BY <1>8 DEF Restart
<1>10. NoJob \in Job
  BY HalfAssumption, BoundsAssumption DEF NoJob, Job, Serial, Space, Version
<1>11. /\ build' \in [Threads -> [Zones -> Built]]
       /\ xfer' \in [Zones -> Built]
       /\ job' \in [Threads -> Job]
  BY <1>10, NothingReadType DEF Restart
<1>12. /\ pc' \in [Threads -> Steps]
       /\ \A u \in Threads : pc'[u] # "idle" => job'[u].zone \in Zones
  BY DEF Restart, Steps
<1>13. restarts' \in 0 .. MaxRestarts
  BY BoundsAssumption DEF Restart, TypeOK
<1>14. QED
  BY <1>5, <1>7, <1>9, <1>11, <1>12, <1>13 DEF Restart, TypeOK

\* Every state of the publication machinery has the types the code gives it; in
\* particular a serial never leaves the number space.
THEOREM TypeCorrect == Spec => []TypeOK
<1>1. TypeOK /\ [Next]_vars => TypeOK'
  <2> SUFFICES ASSUME TypeOK, [Next]_vars PROVE TypeOK'
    OBVIOUS
  <2>1. CASE \E t \in Threads : Edit(t) \/ Import(t) \/ EditSoa(t) \/ Update(t) \/ Reload(t)
    BY <2>1, EditType, ImportType, EditSoaType, UpdateType, ReloadType
  <2>2. CASE Notifier
    BY <2>2, NotifierType
  <2>3. CASE \E z \in Zones : Transfer(z)
    BY <2>3, TransferType
  <2>4. CASE Restart
    BY <2>4, RestartType
  <2>5. CASE UNCHANGED vars
    BY <2>5 DEF vars, TypeOK
  <2>6. QED
    BY <2>1, <2>2, <2>3, <2>4, <2>5 DEF Next
<1>2. QED
  BY <1>1, InitType, PTL DEF Spec

----------------------------------------------------------------------------
(* The inductive invariant *)

ReloadSteps == {"records", "publish", "report"}

\* The rows a commit may leave: gone, new, or the same row moved on.
NextRow(z, r) ==
  /\ r \in Row
  /\ r.content <= ver[z] + 1 /\ r.born <= ver[z] + 1
  /\ r.exists => \/ r.born = ver[z] + 1
                 \/ row[z].exists /\ r.born = row[z].born /\ r.content >= row[z].content

\* The version and row types, one zone at a time.
LEMMA StoreFacts ==
  ASSUME TypeOK, NEW z \in Zones
  PROVE  /\ row[z] \in Row
         /\ ver[z] \in Nat
         /\ row[z].content \in Nat /\ row[z].born \in Nat
         /\ served[z] \in Built
         /\ served[z].rowver \in Nat /\ served[z].content \in Nat /\ served[z].since \in Nat
         /\ xfer[z].since \in Nat /\ xfer[z].born \in Nat /\ xfer[z].rowver \in Nat
         /\ \A t \in Threads :
              build[t][z] \in Built /\ build[t][z].rowver \in Nat /\ build[t][z].since \in Nat
              /\ build[t][z].born \in Nat /\ build[t][z].content \in Nat
<1>1. \A v \in Version : v \in Nat
  BY BoundsAssumption DEF Version
<1>2. row[z] \in Row /\ ver[z] \in Version /\ served[z] \in Built /\ xfer[z] \in Built
  BY DEF TypeOK
<1>3. \A t \in Threads : build[t][z] \in Built
  BY DEF TypeOK
<1>4. QED
  BY <1>1, <1>2, <1>3 DEF Row, Built

LEMMA InitInd == Init => IndInv
<1> SUFFICES ASSUME Init PROVE IndInv
  OBVIOUS
<1>1. \A z \in Zones :
        /\ row[z].born = row[z].content /\ row[z].content = (IF row[z].exists THEN 1 ELSE 0)
        /\ served[z].rowver = 1
        /\ served[z].since = row[z].content /\ served[z].content = row[z].content
        /\ copy[z].since = row[z].content /\ copy[z].content = row[z].content
  BY DEF Init, FirstRow, NoRow, FromStore, ReadRow, ReadRecords, CopyOf
<1>2. LockInv
  BY FreeAssumption DEF Init, LockInv
<1>3. RowInv
  BY <1>1 DEF Init, RowInv
<1>4. \A z \in Zones : Seen(NothingRead[z], z)
  BY <1>1 DEF Init, Seen, NothingRead
<1>5. ReadInv
  BY <1>4 DEF Init, ReadInv, ReadOk
<1>6. ServedInv /\ FreshInv
  BY <1>1 DEF Init, ServedInv, FreshInv, NotBehind
<1>7. QED
  BY <1>2, <1>3, <1>5, <1>6 DEF IndInv

\* A commit by a thread that is not reloading keeps every part of the invariant
\* but FreshInv.
LEMMA CommitKeeps ==
  ASSUME TypeOK, TypeOK', IndInv, NEW z \in Zones, NEW r, NextRow(z, r), Commit(z, r),
         NEW t \in Threads, NEW s \in Steps \ ReloadSteps,
         pc[t] \notin ReloadSteps, GoTo(t, s),
         UNCHANGED <<served, build, xfer, copy, reload_lock>>
  PROVE  LockInv' /\ RowInv' /\ ReadInv' /\ ServedInv'
<1>1. /\ row' = [row EXCEPT ![z] = r]
      /\ ver' = [ver EXCEPT ![z] = @ + 1]
      /\ row \in [Zones -> Row] /\ ver \in [Zones -> Version]
      /\ pc' = [pc EXCEPT ![t] = s] /\ pc \in [Threads -> Steps]
  BY DEF Commit, GoTo, TypeOK
<1>2. LockInv'
  BY <1>1 DEF IndInv, LockInv, ReloadSteps
<1>3. RowInv'
  <2> SUFFICES ASSUME NEW x \in Zones
               PROVE  row'[x].content <= ver'[x] /\ row'[x].born <= ver'[x]
    BY DEF RowInv
  <2>1. QED
    BY <1>1, StoreFacts DEF IndInv, RowInv, NextRow, Row
<1>4. ASSUME NEW x \in Zones, NEW b \in Built, b.since \in Nat, b.born \in Nat,
             b.rowver \in Nat, Seen(b, x)
      PROVE  Seen(b, x)'
  <2>1. CASE x = z
    <3>1. row'[z] = r /\ ver'[z] = ver[z] + 1 /\ ver[z] \in Nat
      BY <1>1, StoreFacts
    <3>2. r.content \in Nat /\ r.born \in Nat /\ row[z].content \in Nat
      BY <1>1, StoreFacts, BoundsAssumption DEF NextRow, Row, Version
    <3>3. b.since <= ver[z] /\ b.born <= ver[z] /\ b.rowver <= ver[z]
      BY <1>4, <2>1 DEF Seen
    <3>4. r.exists /\ r.born = b.born => b.since <= r.content
      BY <1>4, <2>1, <3>1, <3>2, <3>3 DEF Seen, NextRow
    <3>5. QED
      BY <1>4, <2>1, <3>1, <3>3, <3>4 DEF Seen
  <2>2. CASE x # z
    BY <1>1, <1>4, <2>2 DEF Seen
  <2>3. QED
    BY <2>1, <2>2
<1>5. ReadInv'
  <2> SUFFICES ASSUME NEW x \in Zones
               PROVE  /\ Seen(xfer[x], x)'
                      /\ \A u \in Threads :
                           /\ Seen(build[u][x], x)'
                           /\ pc'[u] = "records" /\ build[u][x].rowver = ver'[x]
                                => build[u][x] = ReadRow(row'[x], ver'[x])
                           /\ pc'[u] \in {"publish", "report"} =>
                                /\ NotBehind(build[u][x])
                                /\ build[u][x].rowver = ver'[x]
                                     => build[u][x] = FromStore(row'[x], ver'[x])
                           /\ pc'[u] \in {"records", "publish"}
                                => build[u][x].rowver >= served[x].rowver
                           /\ pc'[u] = "report" => build[u][x] = served[x]
    BY DEF ReadInv, ReadOk, NotBehind
  <2>1. Seen(xfer[x], x)'
    <3>1. xfer[x] \in Built /\ Seen(xfer[x], x)
      BY DEF TypeOK, IndInv, ReadInv, ReadOk
    <3>2. QED
      BY <3>1, <1>4, StoreFacts DEF Seen
  <2> SUFFICES ASSUME NEW u \in Threads
               PROVE  /\ Seen(build[u][x], x)'
                      /\ pc'[u] = "records" /\ build[u][x].rowver = ver'[x]
                           => build[u][x] = ReadRow(row'[x], ver'[x])
                      /\ pc'[u] \in {"publish", "report"} =>
                           /\ NotBehind(build[u][x])
                           /\ build[u][x].rowver = ver'[x]
                                => build[u][x] = FromStore(row'[x], ver'[x])
                      /\ pc'[u] \in {"records", "publish"}
                           => build[u][x].rowver >= served[x].rowver
                      /\ pc'[u] = "report" => build[u][x] = served[x]
    BY <2>1
  <2>2. Seen(build[u][x], x)'
    <3>1. build[u][x] \in Built /\ Seen(build[u][x], x)
      BY DEF TypeOK, IndInv, ReadInv, ReadOk
    <3>2. QED
      BY <3>1, <1>4, StoreFacts DEF Seen
  <2>3. pc'[u] \in ReloadSteps => pc'[u] = pc[u]
    BY <1>1 DEF ReloadSteps
  <2>4. (ver'[x] = ver[x] /\ row'[x] = row[x]) \/ build[u][x].rowver # ver'[x]
    BY <1>1, StoreFacts DEF IndInv, ReadInv, ReadOk, Seen
  <2>5. QED
    BY <2>2, <2>3, <2>4 DEF IndInv, ReadInv, ReadOk, ReloadSteps
<1>6. ServedInv'
  <2> SUFFICES ASSUME NEW x \in Zones
               PROVE  /\ served[x].rowver <= ver'[x]
                      /\ served[x].rowver = ver'[x] => served[x] = FromStore(row'[x], ver'[x])
                      /\ NotBehind(served[x])
                      /\ NotBehind(copy[x])
    BY DEF ServedInv, NotBehind
  <2>1. served[x].rowver <= ver[x] /\ NotBehind(served[x]) /\ NotBehind(copy[x])
    BY DEF IndInv, ServedInv
  <2>2. CASE x = z
    BY <1>1, <2>1, <2>2, StoreFacts
  <2>3. CASE x # z
    BY <1>1, <2>1, <2>3 DEF IndInv, ServedInv
  <2>4. QED
    BY <2>2, <2>3
<1>7. QED
  BY <1>2, <1>3, <1>5, <1>6

\* A commit keeps FreshInv when the thread goes on to reload, or the zone is
\* counted among the stale ones.
LEMMA CommitFresh ==
  ASSUME TypeOK, TypeOK', IndInv, NEW z \in Zones, NEW r, Commit(z, r),
         NEW t \in Threads, NEW s \in Steps, GoTo(t, s),
         pc[t] \notin ReloadSteps, pc[t] # "reload",
         pc[t] \in {"import", "soa_bump"} => job[t].zone = z,
         s = "reload" \/ WillPublish(t, z)' \/ z \in stale',
         stale \subseteq stale',
         \A u \in Threads \ {t} : job'[u] = job[u],
         UNCHANGED <<served, build>>
  PROVE  FreshInv'
<1>1. /\ row' = [row EXCEPT ![z] = r]
      /\ ver' = [ver EXCEPT ![z] = @ + 1]
      /\ row \in [Zones -> Row] /\ ver \in [Zones -> Version]
      /\ pc' = [pc EXCEPT ![t] = s] /\ pc \in [Threads -> Steps]
  BY DEF Commit, GoTo, TypeOK
<1> SUFFICES ASSUME NEW x \in Zones \ stale'
             PROVE  served[x].rowver = ver'[x] \/ \E u \in Threads : WillPublish(u, x)'
  BY DEF FreshInv
<1>2. CASE x = z
  <2>1. WillPublish(t, z)'
    BY <1>1, <1>2 DEF WillPublish
  <2>2. QED
    BY <1>2, <2>1
<1>3. CASE x # z
  <2>1. served[x].rowver = ver[x] \/ \E u \in Threads : WillPublish(u, x)
    BY DEF IndInv, FreshInv
  <2>2. ASSUME NEW u \in Threads, WillPublish(u, x)
        PROVE  WillPublish(u, x)'
    <3>1. u # t
      BY <1>3, <2>2 DEF WillPublish, ReloadSteps
    <3>2. QED
      BY <1>1, <1>3, <2>2, <3>1 DEF WillPublish, Present
  <2>3. QED
    BY <1>1, <1>3, <2>1, <2>2
<1>4. QED
  BY <1>2, <1>3

\* Rows that the operations of the store leave are next rows.
LEMMA NextRows ==
  ASSUME TypeOK, RowInv, NEW z \in Zones, ver[z] < MaxCommits
  PROVE  /\ \A s \in Serial : row[z].exists => NextRow(z, Changed(z, s))
         /\ NextRow(z, NewRow(z))
         /\ NextRow(z, NoRow)
         /\ row[z].exists => NextRow(z, [row[z] EXCEPT !.enabled = ~@])
<1>1. row[z].content <= ver[z] /\ row[z].born <= ver[z]
  BY DEF RowInv
<1>2. row[z] \in Row /\ ver[z] \in Nat /\ row[z].content \in Nat /\ row[z].born \in Nat
  BY StoreFacts
<1>3. FirstSerial \in Serial
  BY SerialAssumption
<1>4. \A s \in Serial : row[z].exists => NextRow(z, Changed(z, s))
  <2> SUFFICES ASSUME NEW s \in Serial, row[z].exists PROVE NextRow(z, Changed(z, s))
    OBVIOUS
  <2>1. Changed(z, s) \in Row
    BY NewRowTypes
  <2>2. QED
    BY <1>1, <1>2, <2>1 DEF Changed, NextRow, Row
<1>5. NextRow(z, NewRow(z))
  BY <1>2, <1>3, NewRowTypes DEF NewRow, NextRow
<1>6. NextRow(z, NoRow)
  BY <1>2, <1>3, NewRowTypes DEF NoRow, NextRow
<1>7. row[z].exists => NextRow(z, [row[z] EXCEPT !.enabled = ~@])
  <2>1. [row[z] EXCEPT !.enabled = ~@] \in Row
    BY <1>2 DEF Row
  <2>2. /\ [row[z] EXCEPT !.enabled = ~@].content = row[z].content
        /\ [row[z] EXCEPT !.enabled = ~@].born = row[z].born
    BY <1>2 DEF Row
  <2>3. QED
    BY <1>1, <1>2, <2>1, <2>2 DEF NextRow
<1>8. QED
  BY <1>4, <1>5, <1>6, <1>7

\* Steps that leave the store, the served catalog and the reloads alone keep
\* the invariant, whatever else they do.
LEMMA QuietKeeps ==
  ASSUME IndInv, UNCHANGED <<row, ver, served, build, xfer, copy, reload_lock, stale, pc, job>>
  PROVE  IndInv'
<1>1. LockInv' /\ RowInv'
  BY DEF IndInv, LockInv, RowInv
<1>2. ReadInv' /\ ServedInv'
  BY DEF IndInv, ReadInv, ReadOk, ServedInv, Seen
<1>3. \A t \in Threads : \A z \in Zones : WillPublish(t, z)' <=> WillPublish(t, z)
  BY DEF WillPublish, Present
<1>4. FreshInv'
  BY <1>3 DEF IndInv, FreshInv
<1>5. QED
  BY <1>1, <1>2, <1>4 DEF IndInv

\* A thread that moves on outside a reload, without a commit.
LEMMA MoveKeeps ==
  ASSUME TypeOK, TypeOK', IndInv, NEW t \in Threads, NEW s \in Steps \ ReloadSteps, GoTo(t, s),
         pc[t] \notin ReloadSteps,
         s = "reload" \/ \A z \in Zones : ~WillPublish(t, z),
         \A u \in Threads \ {t} : job'[u] = job[u],
         UNCHANGED <<row, ver, served, build, xfer, copy, reload_lock, stale>>
  PROVE  IndInv'
<1>1. pc' = [pc EXCEPT ![t] = s] /\ pc \in [Threads -> Steps]
  BY DEF GoTo, TypeOK
<1>2. LockInv' /\ RowInv'
  BY <1>1 DEF IndInv, LockInv, RowInv, ReloadSteps
<1>3. \A u \in Threads : pc'[u] \in ReloadSteps => pc'[u] = pc[u]
  BY <1>1 DEF ReloadSteps
<1>4. ReadInv' /\ ServedInv'
  BY <1>3 DEF IndInv, ReadInv, ReadOk, ServedInv, Seen, ReloadSteps
<1>5. \A u \in Threads : \A z \in Zones : WillPublish(u, z) => WillPublish(u, z)'
  BY <1>1 DEF WillPublish, Present
<1>6. FreshInv'
  BY <1>5 DEF IndInv, FreshInv
<1>7. QED
  BY <1>2, <1>4, <1>6 DEF IndInv

LEMMA EditKeeps ==
  ASSUME TypeOK, TypeOK', IndInv, NEW t \in Threads, Edit(t)
  PROVE  IndInv'
<1>1. PICK z \in Zones : EditRecords(t, z) \/ SetZoneEnabled(t, z)
                            \/ DeleteZone(t, z) \/ CreateZone(t, z)
  BY DEF Edit
<1>2. /\ pc[t] = "idle" /\ GoTo(t, "reload")
      /\ UNCHANGED <<served, build, xfer, copy, reload_lock, stale>>
  BY DEF Edit, serveVars, copyVars
<1>3. "reload" \in Steps \ ReloadSteps /\ "idle" \notin ReloadSteps
  BY DEF Steps, ReloadSteps
<1>4. \A u \in Threads \ {t} : job'[u] = job[u]
  BY <1>1 DEF EditRecords, SetZoneEnabled, DeleteZone, CreateZone, TakeJob, TypeOK
<1>5. CASE UNCHANGED <<row, ver>>
  BY <1>2, <1>3, <1>4, <1>5, MoveKeeps
<1>6. CASE \E r : NextRow(z, r) /\ Commit(z, r)
  <2>1. PICK r : NextRow(z, r) /\ Commit(z, r)
    BY <1>6
  <2>2. LockInv' /\ RowInv' /\ ReadInv' /\ ServedInv'
    BY <1>2, <1>3, <2>1, CommitKeeps
  <2>3. FreshInv'
    BY <1>2, <1>3, <1>4, <2>1, CommitFresh
  <2>4. QED
    BY <2>2, <2>3 DEF IndInv
<1>7. UNCHANGED <<row, ver>> \/ \E r : NextRow(z, r) /\ Commit(z, r)
  <2>1. RowInv /\ BumpSerial(row[z].serial) \in Serial
    BY BumpSerialType DEF IndInv, TypeOK, Row
  <2>2. CASE EditRecords(t, z)
    BY <2>1, <2>2, NextRows DEF EditRecords, Commit
  <2>3. CASE SetZoneEnabled(t, z)
    BY <2>1, <2>3, NextRows DEF SetZoneEnabled, Commit, storeVars
  <2>4. CASE DeleteZone(t, z)
    BY <2>1, <2>4, NextRows DEF DeleteZone, Commit
  <2>5. CASE CreateZone(t, z)
    BY <2>1, <2>5, NextRows DEF CreateZone, Commit
  <2>6. QED
    BY <1>1, <2>2, <2>3, <2>4, <2>5
<1>8. QED
  BY <1>5, <1>6, <1>7

\* A later commit of a handler of several transactions: the zone's content moves
\* on and the thread is still bound to publish it.
LEMMA ChangeKeeps ==
  ASSUME TypeOK, TypeOK', IndInv, NEW t \in Threads, NEW x \in Serial,
         NEW s \in Steps \ ReloadSteps,
         pc[t] \in {"import", "soa_set", "soa_bump", "upd_apply"}, Present(t),
         Commit(job[t].zone, Changed(job[t].zone, x)), GoTo(t, s),
         s \in {"reload", "soa_bump"}, job' = job,
         UNCHANGED <<served, build, xfer, copy, reload_lock, stale>>
  PROVE  IndInv'
<1> DEFINE z == job[t].zone
<1>1. z \in Zones /\ row[z].exists
  BY DEF TypeOK, Present
<1>2. NextRow(z, Changed(z, x))
  BY <1>1, NextRows DEF IndInv, Commit
<1>3. pc[t] \notin ReloadSteps /\ pc[t] # "reload"
  BY DEF ReloadSteps
<1>4. LockInv' /\ RowInv' /\ ReadInv' /\ ServedInv'
  BY <1>1, <1>2, <1>3, CommitKeeps
<1>5. row'[z].exists /\ row'[z].born = row[z].born
  BY <1>1 DEF Commit, Changed, TypeOK, Row
<1>6. pc'[t] = s
  BY DEF GoTo, TypeOK
<1>7. WillPublish(t, z)'
  BY <1>5, <1>6 DEF WillPublish, Present
<1>8. FreshInv'
  BY <1>1, <1>3, <1>7, CommitFresh
<1>9. QED
  BY <1>4, <1>8 DEF IndInv

\* Deleting the zone of a failed handler: the zone is stale from then on.
LEMMA DropKeeps ==
  ASSUME TypeOK, TypeOK', IndInv, NEW t \in Threads, pc[t] \in {"import", "undo"},
         Commit(job[t].zone, NoRow), Finish(t), stale' = stale \cup {job[t].zone},
         UNCHANGED <<served, build, xfer, copy, reload_lock>>
  PROVE  IndInv'
<1> DEFINE z == job[t].zone
<1>1. z \in Zones
  BY DEF TypeOK
<1>2. NextRow(z, NoRow)
  BY <1>1, NextRows DEF IndInv, Commit
<1>3. /\ pc[t] \notin ReloadSteps /\ pc[t] # "reload" /\ GoTo(t, "idle")
      /\ "idle" \in Steps \ ReloadSteps
      /\ \A u \in Threads \ {t} : job'[u] = job[u]
  BY DEF ReloadSteps, Finish, Steps, TypeOK
<1>4. LockInv' /\ RowInv' /\ ReadInv' /\ ServedInv'
  BY <1>1, <1>2, <1>3, CommitKeeps
<1>5. FreshInv'
  BY <1>1, <1>3, CommitFresh
<1>6. QED
  BY <1>4, <1>5 DEF IndInv

\* A handler that gives up without having changed anything it must publish.
LEMMA FinishKeeps ==
  ASSUME TypeOK, TypeOK', IndInv, NEW t \in Threads, Finish(t),
         pc[t] \in {"upd_read", "upd_apply", "soa_set", "undo"}
           \/ (pc[t] \in {"import", "soa_bump"} /\ ~Present(t)),
         UNCHANGED <<row, ver, served, build, xfer, copy, reload_lock, stale>>
  PROVE  IndInv'
<1>1. /\ pc[t] \notin ReloadSteps /\ GoTo(t, "idle")
      /\ "idle" \in Steps \ ReloadSteps
      /\ \A u \in Threads \ {t} : job'[u] = job[u]
  BY DEF ReloadSteps, Finish, Steps, TypeOK
<1>2. \A z \in Zones : ~WillPublish(t, z)
  BY DEF WillPublish
<1>3. QED
  BY <1>1, <1>2, MoveKeeps

LEMMA ImportKeeps ==
  ASSUME TypeOK, TypeOK', IndInv, NEW t \in Threads, Import(t)
  PROVE  IndInv'
<1>1. CASE \E z \in Zones : ImportCreate(t, z)
  <2>1. PICK z \in Zones : ImportCreate(t, z)
    BY <1>1
  <2>2. NextRow(z, NewRow(z)) /\ Commit(z, NewRow(z))
    BY <2>1, NextRows DEF IndInv, ImportCreate, Commit
  <2>3. /\ pc[t] \notin ReloadSteps /\ pc[t] \notin {"reload", "import", "soa_bump"}
        /\ GoTo(t, "import") /\ "import" \in Steps \ ReloadSteps
        /\ UNCHANGED <<served, build, xfer, copy, reload_lock, stale>>
    BY <2>1 DEF ImportCreate, ReloadSteps, Steps, serveVars, copyVars
  <2>4. LockInv' /\ RowInv' /\ ReadInv' /\ ServedInv'
    BY <2>2, <2>3, CommitKeeps
  <2>5. /\ \A u \in Threads \ {t} : job'[u] = job[u]
        /\ job'[t].zone = z /\ job'[t].born = ver[z] + 1
    BY <2>1 DEF ImportCreate, TakeJob, TypeOK, Job
  <2>6. row'[z].exists /\ row'[z].born = ver[z] + 1 /\ pc'[t] = "import"
    BY <2>2, <2>3 DEF Commit, NewRow, GoTo, TypeOK
  <2>7. WillPublish(t, z)'
    BY <2>5, <2>6 DEF WillPublish, Present
  <2>8. FreshInv'
    BY <2>2, <2>3, <2>5, <2>7, CommitFresh
  <2>9. QED
    BY <2>4, <2>8 DEF IndInv
<1>2. CASE ImportRecords(t)
  <2>1. row[job[t].zone].serial \in Serial /\ "reload" \in Steps \ ReloadSteps
    BY <1>2, JobFacts DEF ImportRecords, Steps, ReloadSteps
  <2>2. QED
    BY <1>2, <2>1, ChangeKeeps DEF ImportRecords, serveVars, lockVars, copyVars
<1>3. CASE ImportFails(t)
  <2>1. CASE Present(t)
    BY <1>3, <2>1, DropKeeps DEF ImportFails, serveVars, copyVars
  <2>2. CASE ~Present(t)
    BY <1>3, <2>2, FinishKeeps DEF ImportFails, serveVars, copyVars, storeVars
  <2>3. QED
    BY <2>1, <2>2
<1>4. QED
  BY <1>1, <1>2, <1>3 DEF Import

LEMMA EditSoaKeeps ==
  ASSUME TypeOK, TypeOK', IndInv, NEW t \in Threads, EditSoa(t)
  PROVE  IndInv'
<1>1. CASE \E z \in Zones : SoaRead(t, z)
  <2>1. PICK z \in Zones : SoaRead(t, z)
    BY <1>1
  <2>2. /\ \A u \in Threads \ {t} : job'[u] = job[u]
        /\ "soa_set" \in Steps \ ReloadSteps /\ pc[t] \notin ReloadSteps
        /\ \A x \in Zones : ~WillPublish(t, x)
    BY <2>1 DEF SoaRead, TakeJob, TypeOK, Steps, ReloadSteps, WillPublish
  <2>3. QED
    BY <2>1, <2>2, MoveKeeps DEF SoaRead, storeVars, serveVars, lockVars, copyVars
<1>2. CASE SoaSet(t)
  <2>1. PICK bump \in SoaBumps :
          /\ \E serial \in {job[t].serial} \cup (IF bump THEN {} ELSE GivenSerials) :
               Commit(job[t].zone, Changed(job[t].zone, serial))
          /\ GoTo(t, IF bump THEN "soa_bump" ELSE "reload")
    BY <1>2 DEF SoaSet
  <2>2. PICK serial \in Serial : Commit(job[t].zone, Changed(job[t].zone, serial))
    BY <1>2, <2>1, JobFacts, SerialAssumption DEF SoaSet
  <2>3. PICK s \in {"reload", "soa_bump"} : GoTo(t, s)
    BY <2>1
  <2>4. s \in Steps \ ReloadSteps
    BY DEF Steps, ReloadSteps
  <2>5. QED
    BY <1>2, <2>2, <2>3, <2>4, ChangeKeeps DEF SoaSet, serveVars, lockVars, copyVars
<1>3. CASE SoaBump(t)
  <2>1. BumpSerial(row[job[t].zone].serial) \in Serial /\ "reload" \in Steps \ ReloadSteps
    BY <1>3, JobFacts, BumpSerialType DEF SoaBump, Steps, ReloadSteps
  <2>2. QED
    BY <1>3, <2>1, ChangeKeeps DEF SoaBump, serveVars, lockVars, copyVars
<1>4. CASE SoaNotFound(t)
  BY <1>4, FinishKeeps DEF SoaNotFound, storeVars, serveVars, copyVars
<1>5. QED
  BY <1>1, <1>2, <1>3, <1>4 DEF EditSoa

LEMMA UpdateKeeps ==
  ASSUME TypeOK, TypeOK', IndInv, NEW t \in Threads, Update(t)
  PROVE  IndInv'
<1>1. CASE \E z \in Zones : UpdateCheck(t, z)
  <2>1. PICK z \in Zones : UpdateCheck(t, z)
    BY <1>1
  <2>2. /\ \A u \in Threads \ {t} : job'[u] = job[u]
        /\ "upd_read" \in Steps \ ReloadSteps /\ pc[t] \notin ReloadSteps
        /\ \A x \in Zones : ~WillPublish(t, x)
    BY <2>1 DEF UpdateCheck, TakeJob, TypeOK, Steps, ReloadSteps, WillPublish
  <2>3. QED
    BY <2>1, <2>2, MoveKeeps DEF UpdateCheck, storeVars, serveVars, copyVars
<1>2. CASE UpdateRead(t)
  <2>1. CASE GoTo(t, "upd_apply") /\ UNCHANGED lockVars
               /\ job' = [job EXCEPT ![t].serial = row[job[t].zone].serial]
    <3>1. /\ \A u \in Threads \ {t} : job'[u] = job[u]
          /\ "upd_apply" \in Steps \ ReloadSteps /\ pc[t] \notin ReloadSteps
          /\ \A x \in Zones : ~WillPublish(t, x)
      BY <1>2, <2>1 DEF UpdateRead, TypeOK, Steps, ReloadSteps, WillPublish
    <3>2. QED
      BY <1>2, <2>1, <3>1, MoveKeeps DEF UpdateRead, storeVars, serveVars, lockVars, copyVars
  <2>2. CASE Finish(t) /\ UNCHANGED reload_lock
    <3>1. pc[t] = "upd_read" /\ UNCHANGED <<row, ver, served, build, xfer, copy, stale>>
      BY <1>2 DEF UpdateRead, storeVars, serveVars, copyVars
    <3>2. QED
      BY <2>2, <3>1, FinishKeeps
  <2>3. QED
    BY <1>2, <2>1, <2>2 DEF UpdateRead
<1>3. CASE UpdateApply(t)
  <2>1. PICK serial \in Serial : Commit(job[t].zone, Changed(job[t].zone, serial))
    BY <1>3, JobFacts, BumpSerialType, SerialAssumption DEF UpdateApply
  <2>2. "reload" \in Steps \ ReloadSteps
    BY DEF Steps, ReloadSteps
  <2>3. QED
    BY <1>3, <2>1, <2>2, ChangeKeeps DEF UpdateApply, serveVars, lockVars, copyVars
<1>4. CASE UpdateNotFound(t)
  <2>1. CASE Finish(t) /\ UNCHANGED reload_lock
    BY <1>4, <2>1, FinishKeeps DEF UpdateNotFound, storeVars, serveVars, copyVars
  <2>2. CASE GoTo(t, "reload") /\ UNCHANGED <<lockVars, job>>
    <3>1. "reload" \in Steps \ ReloadSteps /\ pc[t] \notin ReloadSteps
      BY <1>4 DEF UpdateNotFound, Steps, ReloadSteps
    <3>2. QED
      BY <1>4, <2>2, <3>1, MoveKeeps DEF UpdateNotFound, storeVars, serveVars, lockVars, copyVars
  <2>3. QED
    BY <1>4, <2>1, <2>2 DEF UpdateNotFound
<1>5. QED
  BY <1>1, <1>2, <1>3, <1>4 DEF Update

\* A row read from the store has been seen, and what is built from the store is
\* not behind the serial.
LEMMA ReadSeen ==
  ASSUME TypeOK, RowInv, NEW z \in Zones
  PROVE  /\ Seen(ReadRow(row[z], ver[z]), z)
         /\ ReadRow(row[z], ver[z]).rowver = ver[z]
         /\ FromStore(row[z], ver[z]).rowver = ver[z]
         /\ NotBehind(FromStore(row[z], ver[z]))
         /\ Seen(NothingRead[z], z)
<1>1. row[z].content <= ver[z] /\ row[z].born <= ver[z]
  BY DEF RowInv
<1>2. ver[z] \in Nat /\ row[z].content \in Nat /\ row[z].born \in Nat
  BY StoreFacts
<1>3. Seen(ReadRow(row[z], ver[z]), z)
  BY <1>1, <1>2 DEF ReadRow, Seen
<1>4. /\ ReadRow(row[z], ver[z]).rowver = ver[z]
      /\ FromStore(row[z], ver[z]).rowver = ver[z]
      /\ FromStore(row[z], ver[z]).since = row[z].content
      /\ FromStore(row[z], ver[z]).content \in {0, row[z].content}
  BY DEF ReadRow, FromStore, ReadRecords
<1>5. NotBehind(FromStore(row[z], ver[z]))
  BY <1>2, <1>4 DEF NotBehind
<1>6. Seen(NothingRead[z], z)
  BY <1>2 DEF Seen, NothingRead
<1>7. QED
  BY <1>3, <1>4, <1>5, <1>6

\* The records read after a row are not behind it.
LEMMA RecordsNotBehind ==
  ASSUME TypeOK, NEW z \in Zones, NEW b \in Built, Seen(b, z)
  PROVE  /\ NotBehind(ReadRecords(b, row[z]))
         /\ ReadRecords(b, row[z]).rowver = b.rowver
         /\ Seen(ReadRecords(b, row[z]), z)
<1>1. /\ ReadRecords(b, row[z]).since = b.since
      /\ ReadRecords(b, row[z]).rowver = b.rowver
      /\ ReadRecords(b, row[z]).born = b.born
      /\ ReadRecords(b, row[z]).content
           = IF row[z].exists /\ row[z].born = b.born THEN row[z].content ELSE 0
  BY DEF ReadRecords, Built
<1>2. QED
  BY <1>1 DEF Seen, NotBehind

\* At most one thread is between list_zones and the report.
LEMMA OneReloader ==
  ASSUME LockInv, NEW t \in Threads, NEW u \in Threads,
         pc[t] \in ReloadSteps, pc[u] \in ReloadSteps
  PROVE  t = u
  BY DEF LockInv, ReloadSteps

LEMMA RowsKeep ==
  ASSUME TypeOK, TypeOK', IndInv, NEW t \in Threads, ReloadRows(t)
  PROVE  IndInv'
<1>1. /\ pc' = [pc EXCEPT ![t] = "records"] /\ pc \in [Threads -> Steps]
      /\ build' = [build EXCEPT ![t] = [z \in Zones |-> ReadRow(row[z], ver[z])]]
      /\ build \in [Threads -> [Zones -> Built]]
      /\ pc[t] = "reload" /\ reload_lock = Free /\ reload_lock' = t
      /\ UNCHANGED <<row, ver, served, xfer, copy, stale, job>>
  BY DEF ReloadRows, GoTo, TypeOK, storeVars, copyVars
<1>2. LockInv'
  BY <1>1, FreeAssumption DEF IndInv, LockInv
<1>3. RowInv' /\ ServedInv'
  BY <1>1 DEF IndInv, RowInv, ServedInv
<1>4. \A z \in Zones : /\ build'[t][z] = ReadRow(row[z], ver[z])
                       /\ build'[t][z].rowver = ver[z]
                       /\ Seen(build'[t][z], z)
                       /\ served[z].rowver <= ver[z]
  BY <1>1, ReadSeen DEF IndInv, ServedInv
<1>5. \A u \in Threads : u # t => pc'[u] = pc[u] /\ build'[u] = build[u]
  BY <1>1
<1>6. ReadInv'
  <2> SUFFICES ASSUME NEW z \in Zones
               PROVE  Seen(xfer[z], z)' /\ \A u \in Threads : ReadOk(u, z)'
    BY DEF ReadInv
  <2>1. Seen(xfer[z], z)'
    BY <1>1 DEF IndInv, ReadInv, Seen
  <2>2. ASSUME NEW u \in Threads, u # t
        PROVE  ReadOk(u, z)'
    BY <1>1, <1>5, <2>2 DEF IndInv, ReadInv, ReadOk, Seen, NotBehind
  <2>3. ver[z] \in Nat /\ served[z].rowver \in Nat
    BY StoreFacts
  <2>4. QED
    BY <1>1, <1>4, <2>1, <2>2, <2>3 DEF ReadOk, Seen
<1>7. FreshInv'
  BY <1>1, <1>4 DEF FreshInv, WillPublish
<1>8. QED
  BY <1>2, <1>3, <1>6, <1>7 DEF IndInv

LEMMA RecordsKeep ==
  ASSUME TypeOK, TypeOK', IndInv, NEW t \in Threads, ReloadRecords(t)
  PROVE  IndInv'
<1>1. /\ pc' = [pc EXCEPT ![t] = "publish"] /\ pc \in [Threads -> Steps]
      /\ build' = [build EXCEPT ![t] = [z \in Zones |-> ReadRecords(build[t][z], row[z])]]
      /\ build \in [Threads -> [Zones -> Built]]
      /\ pc[t] = "records"
      /\ UNCHANGED <<row, ver, served, xfer, copy, stale, job, reload_lock>>
  BY DEF ReloadRecords, GoTo, TypeOK, storeVars, copyVars, lockVars
<1>2. LockInv'
  BY <1>1 DEF IndInv, LockInv
<1>3. RowInv' /\ ServedInv'
  BY <1>1 DEF IndInv, RowInv, ServedInv
<1>4. \A z \in Zones : /\ build'[t][z] = ReadRecords(build[t][z], row[z])
                       /\ build'[t][z].rowver = build[t][z].rowver
                       /\ NotBehind(build'[t][z])
                       /\ Seen(build'[t][z], z)
                       /\ build[t][z].rowver >= served[z].rowver
                       /\ build[t][z].rowver = ver[z]
                            => build'[t][z] = FromStore(row[z], ver[z])
  BY <1>1, RecordsNotBehind DEF IndInv, ReadInv, ReadOk, FromStore
<1>5. \A u \in Threads : u # t => pc'[u] = pc[u] /\ build'[u] = build[u]
  BY <1>1
<1>6. ReadInv'
  <2> SUFFICES ASSUME NEW z \in Zones
               PROVE  Seen(xfer[z], z)' /\ \A u \in Threads : ReadOk(u, z)'
    BY DEF ReadInv
  <2>1. Seen(xfer[z], z)'
    BY <1>1 DEF IndInv, ReadInv, Seen
  <2>2. ASSUME NEW u \in Threads, u # t
        PROVE  ReadOk(u, z)'
    BY <1>1, <1>5, <2>2 DEF IndInv, ReadInv, ReadOk, Seen, NotBehind
  <2>3. QED
    BY <1>1, <1>4, <2>1, <2>2 DEF ReadOk, Seen, NotBehind
<1>7. \A u \in Threads : \A z \in Zones : WillPublish(u, z) => WillPublish(u, z)'
  BY <1>1, <1>4, <1>5 DEF WillPublish, Present
<1>8. FreshInv'
  BY <1>1, <1>7 DEF IndInv, FreshInv
<1>9. QED
  BY <1>2, <1>3, <1>6, <1>8 DEF IndInv

\* The swap: the zones whose last change thread t had read are served fresh now;
\* the change of every other zone is still some other thread's to publish.
LEMMA PublishKeeps ==
  ASSUME TypeOK, TypeOK', IndInv, NEW t \in Threads, ReloadPublish(t)
  PROVE  IndInv'
<1>1. /\ pc' = [pc EXCEPT ![t] = "report"] /\ pc \in [Threads -> Steps]
      /\ pc[t] = "publish"
      /\ served' = build[t]
      /\ UNCHANGED <<row, ver, build, xfer, copy, stale, job, reload_lock>>
  BY DEF ReloadPublish, GoTo, TypeOK, storeVars, copyVars, lockVars
<1>2. LockInv'
  BY <1>1 DEF IndInv, LockInv
<1>3. RowInv'
  BY <1>1 DEF IndInv, RowInv
<1>4. \A z \in Zones : /\ Seen(build[t][z], z)
                       /\ NotBehind(build[t][z])
                       /\ build[t][z].rowver = ver[z]
                            => build[t][z] = FromStore(row[z], ver[z])
                       /\ NotBehind(copy[z])
                       /\ build[t][z].rowver >= served[z].rowver
                       /\ served[z].rowver <= ver[z]
  BY <1>1 DEF IndInv, ReadInv, ReadOk, ServedInv
<1>5. ServedInv'
  BY <1>1, <1>4 DEF ServedInv, Seen, NotBehind
<1>6. \A u \in Threads : u # t => pc'[u] = pc[u] /\ pc[u] \notin ReloadSteps
  BY <1>1, OneReloader DEF IndInv, ReloadSteps
<1>7. ReadInv'
  <2> SUFFICES ASSUME NEW z \in Zones
               PROVE  Seen(xfer[z], z)' /\ \A u \in Threads : ReadOk(u, z)'
    BY DEF ReadInv
  <2>1. Seen(xfer[z], z)'
    BY <1>1 DEF IndInv, ReadInv, Seen
  <2>2. ASSUME NEW u \in Threads, u # t
        PROVE  ReadOk(u, z)'
    BY <1>1, <1>6, <2>2 DEF IndInv, ReadInv, ReadOk, Seen, ReloadSteps
  <2>3. ReadOk(t, z)'
    BY <1>1, <1>4 DEF ReadOk, Seen, NotBehind
  <2>4. QED
    BY <2>1, <2>2, <2>3
<1>8. FreshInv'
  <2> SUFFICES ASSUME NEW z \in Zones \ stale
               PROVE  build[t][z].rowver = ver[z] \/ \E u \in Threads : WillPublish(u, z)'
    BY <1>1 DEF FreshInv
  <2>1. CASE build[t][z].rowver = ver[z]
    BY <2>1
  <2>2. CASE build[t][z].rowver # ver[z]
    <3>1. build[t][z].rowver < ver[z]
      BY <1>4, <2>2, StoreFacts DEF Seen
    <3>2. served[z].rowver # ver[z]
      BY <1>4, <3>1, StoreFacts
    <3>3. PICK u \in Threads : WillPublish(u, z)
      BY <3>2 DEF IndInv, FreshInv
    <3>4. u # t
      BY <1>1, <2>2, <3>3 DEF WillPublish
    <3>5. WillPublish(u, z)'
      BY <1>1, <3>3, <3>4 DEF WillPublish, Present
    <3>6. QED
      BY <3>5
  <2>3. QED
    BY <2>1, <2>2
<1>9. QED
  BY <1>2, <1>3, <1>5, <1>7, <1>8 DEF IndInv

\* The end of a reload, by success or by an error: the lock is released and the
\* build dropped.  Every part of the invariant but FreshInv is kept.
LEMMA EndKeeps ==
  ASSUME TypeOK, TypeOK', IndInv, NEW t \in Threads, NEW s \in Steps \ ReloadSteps,
         pc[t] \in ReloadSteps, GoTo(t, s), reload_lock' = Free,
         build' = [build EXCEPT ![t] = NothingRead],
         UNCHANGED <<row, ver, served, xfer, copy>>
  PROVE  LockInv' /\ RowInv' /\ ReadInv' /\ ServedInv'
<1>1. /\ pc' = [pc EXCEPT ![t] = s] /\ pc \in [Threads -> Steps]
      /\ build \in [Threads -> [Zones -> Built]]
  BY DEF GoTo, TypeOK
<1>2. \A u \in Threads : u # t => /\ pc'[u] = pc[u] /\ pc[u] \notin ReloadSteps
                                  /\ build'[u] = build[u]
  BY <1>1, OneReloader DEF IndInv
<1>3. \A u \in Threads : pc'[u] \notin ReloadSteps
  BY <1>1, <1>2
<1>4. LockInv'
  BY <1>3, FreeAssumption DEF LockInv, ReloadSteps
<1>5. RowInv' /\ ServedInv'
  BY DEF IndInv, RowInv, ServedInv
<1>6. ReadInv'
  <2> SUFFICES ASSUME NEW z \in Zones
               PROVE  Seen(xfer[z], z)' /\ \A u \in Threads : Seen(build[u][z], z)'
    BY <1>3 DEF ReadInv, ReadOk, ReloadSteps
  <2>1. Seen(xfer[z], z)'
    BY DEF IndInv, ReadInv, Seen
  <2>2. ASSUME NEW u \in Threads, u # t
        PROVE  Seen(build[u][z], z)'
    BY <1>2, <2>2 DEF IndInv, ReadInv, ReadOk, Seen
  <2>3. Seen(NothingRead[z], z) /\ build'[t][z] = NothingRead[z]
    BY <1>1, ReadSeen DEF IndInv
  <2>4. QED
    BY <2>1, <2>2, <2>3 DEF Seen
<1>7. QED
  BY <1>4, <1>5, <1>6

LEMMA ReportKeeps ==
  ASSUME TypeOK, TypeOK', IndInv, NEW t \in Threads, ReloadReport(t)
  PROVE  IndInv'
<1>1. /\ pc[t] = "report" /\ GoTo(t, "idle") /\ reload_lock' = Free
      /\ build' = [build EXCEPT ![t] = NothingRead]
      /\ stale' = {z \in stale : build[t][z].rowver # ver[z]}
      /\ job' = [job EXCEPT ![t] = NoJob]
      /\ UNCHANGED <<row, ver, served, xfer, copy>>
  BY DEF ReloadReport, Finish, storeVars, copyVars
<1>2. "idle" \in Steps \ ReloadSteps /\ "report" \in ReloadSteps
  BY DEF Steps, ReloadSteps
<1>3. LockInv' /\ RowInv' /\ ReadInv' /\ ServedInv'
  BY <1>1, <1>2, EndKeeps
<1>4. FreshInv'
  <2> SUFFICES ASSUME NEW z \in Zones \ stale'
               PROVE  served[z].rowver = ver[z] \/ \E u \in Threads : WillPublish(u, z)'
    BY <1>1 DEF FreshInv
  <2>1. CASE z \in stale
    BY <1>1, <2>1 DEF IndInv, ReadInv, ReadOk
  <2>2. CASE z \notin stale
    <3>1. served[z].rowver = ver[z] \/ \E u \in Threads : WillPublish(u, z)
      BY <2>2 DEF IndInv, FreshInv
    <3>2. ASSUME NEW u \in Threads, WillPublish(u, z)
          PROVE  WillPublish(u, z)'
      <4>1. u # t
        BY <1>1, <3>2 DEF WillPublish
      <4>2. pc'[u] = pc[u] /\ job'[u] = job[u] /\ build'[u] = build[u]
        BY <1>1, <4>1 DEF GoTo, TypeOK
      <4>3. QED
        BY <1>1, <3>2, <4>2 DEF WillPublish, Present
    <3>3. QED
      BY <3>1, <3>2
  <2>3. QED
    BY <2>1, <2>2
<1>5. QED
  BY <1>3, <1>4 DEF IndInv

LEMMA ErrorKeeps ==
  ASSUME TypeOK, TypeOK', IndInv, NEW t \in Threads, ReloadError(t), pc[t] \in ReloadSteps
  PROVE  IndInv'
<1>1. /\ reload_lock' = Free
      /\ build' = [build EXCEPT ![t] = NothingRead]
      /\ stale' = stale \cup {z \in Zones : served[z].rowver # ver[z]}
      /\ UNCHANGED <<row, ver, served, xfer, copy>>
  BY DEF ReloadError, storeVars, copyVars
<1>2. PICK s \in Steps \ ReloadSteps : GoTo(t, s)
  <2>1. "idle" \in Steps \ ReloadSteps /\ "undo" \in Steps \ ReloadSteps
    BY DEF Steps, ReloadSteps
  <2>2. QED
    BY <2>1 DEF ReloadError, Finish
<1>3. LockInv' /\ RowInv' /\ ReadInv' /\ ServedInv'
  BY <1>1, <1>2, EndKeeps
<1>4. FreshInv'
  BY <1>1 DEF FreshInv
<1>5. QED
  BY <1>3, <1>4 DEF IndInv

LEMMA ReloadKeeps ==
  ASSUME TypeOK, TypeOK', IndInv, NEW t \in Threads, Reload(t)
  PROVE  IndInv'
<1>1. CASE ReloadRows(t) \/ ReloadRecords(t) \/ ReloadPublish(t) \/ ReloadReport(t)
  BY <1>1, RowsKeep, RecordsKeep, PublishKeeps, ReportKeeps
<1>2. CASE BuildFails(t) \/ SplitHorizonFails(t)
  BY <1>2, ErrorKeeps DEF BuildFails, SplitHorizonFails, ReloadSteps
<1>3. CASE UndoCreate(t)
  <2>1. CASE Present(t)
    BY <1>3, <2>1, DropKeeps DEF UndoCreate, serveVars, copyVars
  <2>2. CASE ~Present(t)
    BY <1>3, <2>2, FinishKeeps DEF UndoCreate, serveVars, copyVars, storeVars
  <2>3. QED
    BY <2>1, <2>2
<1>4. QED
  BY <1>1, <1>2, <1>3 DEF Reload

LEMMA NotifierKeeps ==
  ASSUME IndInv, Notifier
  PROVE  IndInv'
  BY QuietKeeps DEF Notifier, NotifierWake, NotifierTake, NotifierSend, SpawnedNotify,
                    storeVars, serveVars, copyVars, lockVars

\* A transfer hands out what is served, or records read after the row.
LEMMA TransferKeeps ==
  ASSUME TypeOK, TypeOK', IndInv, NEW z \in Zones, Transfer(z)
  PROVE  IndInv'
<1>1. /\ UNCHANGED <<row, ver, served, build, pc, job, reload_lock, stale>>
      /\ xfer \in [Zones -> Built] /\ copy \in [Zones -> Copy]
  BY DEF Transfer, TransferRow, TransferRecords, TransferServed, storeVars, serveVars, lockVars,
         TypeOK
<1>2. \A x \in Zones : Seen(xfer'[x], x)
  <2>1. \A x \in Zones : Seen(xfer[x], x)
    BY DEF IndInv, ReadInv
  <2>2. Seen(ReadRow(row[z], ver[z]), z) /\ Seen(NothingRead[z], z)
    BY ReadSeen DEF IndInv
  <2>3. xfer' \in {xfer, [xfer EXCEPT ![z] = ReadRow(row[z], ver[z])],
                   [xfer EXCEPT ![z] = NothingRead[z]]}
    BY DEF Transfer, TransferRow, TransferRecords, TransferServed
  <2>4. QED
    BY <1>1, <2>1, <2>2, <2>3
<1>3. \A x \in Zones : NotBehind(copy'[x])
  <2>1. \A x \in Zones : NotBehind(copy[x]) /\ NotBehind(served[x]) /\ Seen(xfer[x], x)
    BY DEF IndInv, ServedInv, ReadInv
  <2>2. NotBehind(ReadRecords(xfer[z], row[z]))
    BY <1>1, <2>1, RecordsNotBehind
  <2>3. copy' \in {copy, [copy EXCEPT ![z] = CopyOf(served[z])],
                   [copy EXCEPT ![z] = CopyOf(ReadRecords(xfer[z], row[z]))]}
    BY DEF Transfer, TransferRow, TransferRecords, TransferServed
  <2>4. \A b : NotBehind(b) => NotBehind(CopyOf(b))
    BY DEF NotBehind, CopyOf
  <2>5. QED
    BY <1>1, <2>1, <2>2, <2>3, <2>4
<1>4. LockInv' /\ RowInv'
  BY <1>1 DEF IndInv, LockInv, RowInv
<1>5. ReadInv'
  BY <1>1, <1>2 DEF IndInv, ReadInv, ReadOk, Seen
<1>6. ServedInv'
  BY <1>1, <1>3 DEF IndInv, ServedInv
<1>7. FreshInv'
  <2>1. \A u \in Threads : \A x \in Zones : WillPublish(u, x)' <=> WillPublish(u, x)
    BY <1>1 DEF WillPublish, Present
  <2>2. QED
    BY <1>1, <2>1 DEF IndInv, FreshInv
<1>8. QED
  BY <1>4, <1>5, <1>6, <1>7 DEF IndInv

\* A restart serves the store as it then is, whatever was going on before.
LEMMA RestartKeeps ==
  ASSUME TypeOK, TypeOK', IndInv, Restart
  PROVE  IndInv'
<1>1. /\ \A t \in Threads : pc'[t] = "idle" /\ build'[t] = NothingRead
      /\ reload_lock' = Free /\ stale' = {} /\ xfer' = NothingRead /\ copy' = copy
      /\ \A z \in Zones : served'[z] = FromStore(row[z], ver[z])'
  BY DEF Restart
<1>2. LockInv'
  BY <1>1, FreeAssumption DEF LockInv
<1>3. RowInv'
  <2> SUFFICES ASSUME NEW z \in Zones
               PROVE  row'[z].content <= ver'[z] /\ row'[z].born <= ver'[z]
    BY DEF RowInv
  <2>1. PICK files \in SUBSET Zones :
          /\ ver' = [x \in Zones |-> IF x \in files THEN ver[x] + 1 ELSE ver[x]]
          /\ row' = [x \in Zones |-> IF x \in files
                                       THEN [row[x] EXCEPT !.content = ver[x] + 1]
                                       ELSE row[x]]
    BY ZonesAssumption DEF Restart
  <2>2. row[z].content <= ver[z] /\ row[z].born <= ver[z]
    BY DEF IndInv, RowInv
  <2>3. QED
    BY <2>1, <2>2, StoreFacts DEF Row
<1>4. \A z \in Zones : /\ FromStore(row[z], ver[z])'.rowver = ver'[z]
                       /\ NotBehind(FromStore(row[z], ver[z])')
                       /\ Seen(NothingRead[z], z)'
  <2> SUFFICES ASSUME NEW z \in Zones
               PROVE  /\ FromStore(row[z], ver[z])'.rowver = ver'[z]
                      /\ NotBehind(FromStore(row[z], ver[z])')
                      /\ Seen(NothingRead[z], z)'
    OBVIOUS
  <2>1. /\ ver'[z] \in Nat /\ row'[z].content \in Nat /\ row'[z].born \in Nat
    BY BoundsAssumption DEF TypeOK, Version, Row
  <2>2. /\ FromStore(row[z], ver[z])'.rowver = ver'[z]
        /\ FromStore(row[z], ver[z])'.since = row'[z].content
        /\ FromStore(row[z], ver[z])'.content \in {0, row'[z].content}
    BY DEF FromStore, ReadRow, ReadRecords
  <2>3. QED
    BY <2>1, <2>2 DEF NotBehind, Seen, NothingRead
<1>5. ReadInv'
  BY <1>1, <1>4 DEF ReadInv, ReadOk, Seen
<1>6. ServedInv'
  <2>1. \A z \in Zones : NotBehind(copy[z]) /\ ver'[z] \in Nat
    BY BoundsAssumption DEF IndInv, ServedInv, TypeOK, Version
  <2>2. QED
    BY <1>1, <1>4, <2>1 DEF ServedInv, NotBehind
<1>7. FreshInv'
  BY <1>1, <1>4 DEF FreshInv
<1>8. QED
  BY <1>2, <1>3, <1>5, <1>6, <1>7 DEF IndInv

\* Every reachable state satisfies the inductive invariant: reload_lock is held by
\* exactly the thread that reads and publishes, what a reload has read is never
\* behind what is served, and every change that is not served yet is still some
\* handler's to publish.
THEOREM IndCorrect == Spec => []IndInv
<1>1. TypeOK /\ TypeOK' /\ IndInv /\ [Next]_vars => IndInv'
  <2> SUFFICES ASSUME TypeOK, TypeOK', IndInv, [Next]_vars PROVE IndInv'
    OBVIOUS
  <2>1. CASE \E t \in Threads : Edit(t) \/ Import(t) \/ EditSoa(t) \/ Update(t) \/ Reload(t)
    BY <2>1, EditKeeps, ImportKeeps, EditSoaKeeps, UpdateKeeps, ReloadKeeps
  <2>2. CASE Notifier
    BY <2>2, NotifierKeeps
  <2>3. CASE \E z \in Zones : Transfer(z)
    BY <2>3, TransferKeeps
  <2>4. CASE Restart
    BY <2>4, RestartKeeps
  <2>5. CASE UNCHANGED vars
    BY <2>5, QuietKeeps DEF vars
  <2>6. QED
    BY <2>1, <2>2, <2>3, <2>4, <2>5 DEF Next
<1>2. QED
  BY <1>1, InitInd, TypeCorrect, PTL DEF Spec

\* The records served, and those of every copy handed to a secondary, are never
\* older than the serial they carry (reload and transfer_records read the zone
\* row before the records).
THEOREM ContentNotBehindSerialCorrect == Spec => []ContentNotBehindSerial
<1>1. IndInv => ContentNotBehindSerial
  BY DEF IndInv, ServedInv, NotBehind, ContentNotBehindSerial
<1>2. QED
  BY <1>1, IndCorrect, PTL

\* Once every handler has returned, AuthorityCatalog serves exactly the store, but
\* for the zones a failed reload or an undone create left behind.
THEOREM QuiescentFreshCorrect == Spec => []QuiescentFresh
<1>1. IndInv => QuiescentFresh
  <2> SUFFICES ASSUME IndInv, \A t \in Threads : pc[t] = "idle", NEW z \in Zones \ stale
               PROVE  served[z] = FromStore(row[z], ver[z])
    BY DEF QuiescentFresh
  <2>1. \A t \in Threads : ~WillPublish(t, z)
    BY DEF WillPublish
  <2>2. QED
    BY <2>1 DEF IndInv, FreshInv, ServedInv
<1>2. QED
  BY <1>1, IndCorrect, PTL

\* No step of any thread, of a restart neither, replaces a zone the catalog serves
\* by one read from the store earlier: reload_lock orders the rebuilds.
THEOREM PublishMonotoneCorrect == Spec => PublishMonotone
<1>1. TypeOK /\ TypeOK' /\ IndInv /\ [Next]_vars
        => [\A z \in Zones : served'[z].rowver >= served[z].rowver]_vars
  <2> SUFFICES ASSUME TypeOK, TypeOK', IndInv, [Next]_vars, NEW z \in Zones
               PROVE  served'[z].rowver >= served[z].rowver
    OBVIOUS
  <2>1. served[z].rowver \in Nat /\ ver[z] \in Nat /\ served[z].rowver <= ver[z]
    BY StoreFacts DEF IndInv, ServedInv
  <2>2. ASSUME NEW t \in Threads,
               Edit(t) \/ Import(t) \/ EditSoa(t) \/ Update(t) \/ Reload(t)
        PROVE  served'[z].rowver >= served[z].rowver
    <3>1. CASE ReloadPublish(t)
      BY <3>1 DEF ReloadPublish, IndInv, ReadInv, ReadOk
    <3>2. CASE ~ReloadPublish(t)
      <4>1. served' = served
        BY <2>2, <3>2
        DEF Edit, Import, ImportCreate, ImportRecords, ImportFails, EditSoa, SoaRead, SoaSet,
            SoaBump, SoaNotFound, Update, UpdateCheck, UpdateRead, UpdateApply, UpdateNotFound,
            Reload, ReloadRows, ReloadRecords, ReloadReport, BuildFails, SplitHorizonFails,
            ReloadError, UndoCreate, serveVars
      <4>2. QED
        BY <2>1, <4>1
    <3>3. QED
      BY <3>1, <3>2
  <2>3. CASE Notifier \/ (\E x \in Zones : Transfer(x)) \/ UNCHANGED vars
    <3>1. served' = served
      BY <2>3 DEF Notifier, NotifierWake, NotifierTake, NotifierSend, SpawnedNotify, Transfer,
                  TransferRow, TransferRecords, TransferServed, serveVars, vars
    <3>2. QED
      BY <2>1, <3>1
  <2>4. CASE Restart
    <3>1. served'[z].rowver = ver'[z]
      BY <2>4 DEF Restart, FromStore, ReadRow, ReadRecords
    <3>2. ver'[z] \in {ver[z], ver[z] + 1}
      BY <2>4 DEF Restart
    <3>3. QED
      BY <2>1, <3>1, <3>2
  <2>5. QED
    BY <2>2, <2>3, <2>4 DEF Next
<1>2. QED
  BY <1>1, IndCorrect, TypeCorrect, PTL DEF Spec, PublishMonotone

----------------------------------------------------------------------------
(* A change that a copy lacks shows in the serial *)

\* A bump takes the serial one commit further ahead, past the end of the serial
\* space too.
LEMMA BumpAhead ==
  ASSUME NEW r \in Serial, NEW s \in Serial, NEW m \in Nat, NEW n \in Nat, m < n, n + 1 < Half,
         Ahead(r, s, m)
  PROVE  Ahead(BumpSerial(r), s, n)
BY HalfAssumption DEF Ahead, WrappingSub, BumpSerial, WrappingInc, Serial, Space

\* A serial that is ahead by less than half the serial space is newer.
LEMMA AheadNewer ==
  ASSUME NEW r \in Serial, NEW s \in Serial, NEW n \in Nat \ {0}, n + 1 < Half, Ahead(r, s, n)
  PROVE  SerialNewer(r, s)
BY HalfAssumption DEF Ahead, SerialNewer, WrappingSub, Serial, Space

\* What one kind of change may do to a zone's row: switch the zone on or off,
\* remove it, make it, or change it and bump its serial.
MovesOn(r, v, r2, v2) ==
  /\ v <= v2
  /\ \/ /\ r2.exists = r.exists /\ r2.serial = r.serial
        /\ r2.born = r.born /\ r2.content = r.content
     \/ ~r2.exists /\ r2.born = 0 /\ r2.content = 0
     \/ r2.exists /\ v2 = v + 1 /\ r2.born = v + 1 /\ r2.content = v + 1
     \/ /\ r.exists /\ r2.exists /\ v2 = v + 1 /\ r2.born = r.born /\ r2.content = v + 1
        /\ r2.serial = BumpSerial(r.serial)

\* What was read of a zone stays a row the zone has had.
LEMMA MovesOnFollows ==
  ASSUME NEW r \in Row, NEW r2 \in Row, NEW v \in Version, NEW v2 \in Version,
         RowSound(r, v), MovesOn(r, v, r2, v2), MaxCommits < Half,
         NEW b, b.serial \in Serial, b.born \in Version, b.since \in Version, Follows(b, r, v)
  PROVE  Follows(b, r2, v2)
<1>1. /\ {v, v2, r.born, r.content, r2.born, r2.content, b.born, b.since, MaxCommits, Half} \subseteq Nat
      /\ r.serial \in Serial /\ r2.serial \in Serial /\ v2 <= MaxCommits
  BY BoundsAssumption, HalfAssumption DEF Row, Version
<1>2. b.born <= v /\ v <= v2
  BY DEF Follows, MovesOn
<1>3. b.born <= v2
  BY <1>1, <1>2
<1> SUFFICES ASSUME r2.exists, r2.born = b.born
             PROVE  1 <= b.since /\ b.since <= r2.content /\ Ahead(r2.serial, b.serial, r2.content - b.since)
  BY <1>3 DEF Follows
<1>4. r2.born # v + 1
  BY <1>1, <1>2
<1>5. CASE r2.exists = r.exists /\ r2.serial = r.serial /\ r2.born = r.born /\ r2.content = r.content
  BY <1>5 DEF Follows
<1>6. CASE /\ r.exists /\ v2 = v + 1 /\ r2.born = r.born /\ r2.content = v + 1
           /\ r2.serial = BumpSerial(r.serial)
  <2> DEFINE m == r.content - b.since
             n == r2.content - b.since
  <2>1. 1 <= b.since /\ b.since <= r.content /\ Ahead(r.serial, b.serial, m)
    BY <1>6 DEF Follows
  <2>2. r.content <= v
    BY DEF RowSound
  <2>3. m \in Nat /\ n \in Nat /\ m < n /\ n + 1 < Half /\ b.since <= r2.content
    BY <1>1, <1>6, <2>1, <2>2
  <2> HIDE DEF m, n
  <2>4. Ahead(BumpSerial(r.serial), b.serial, n)
    BY <1>1, <2>1, <2>3, BumpAhead
  <2>5. QED
    BY <1>6, <2>1, <2>3, <2>4 DEF n
<1>7. QED
  BY <1>4, <1>5, <1>6 DEF MovesOn

\* ... the store stays sound ...
LEMMA MovesOnSound ==
  ASSUME NEW r \in Row, NEW r2 \in Row, NEW v \in Version, NEW v2 \in Version,
         RowSound(r, v), MovesOn(r, v, r2, v2)
  PROVE  RowSound(r2, v2)
<1>1. {v, v2, r.born, r.content, r2.born, r2.content} \subseteq Nat
  BY BoundsAssumption DEF Row, Version
<1>2. QED
  BY <1>1 DEF RowSound, MovesOn

\* ... and records that were read stay no newer than the store's.
LEMMA MovesOnComplete ==
  ASSUME NEW r \in Row, NEW r2 \in Row, NEW v \in Version, NEW v2 \in Version,
         RowSound(r, v), MovesOn(r, v, r2, v2),
         NEW c, c.born \in Version, c.content \in Version, c.born <= v, Complete(c, r)
  PROVE  Complete(c, r2)
<1>1. {v, v2, r.born, r.content, r2.born, r2.content, c.born, c.content} \subseteq Nat
  BY BoundsAssumption DEF Row, Version
<1> SUFFICES ASSUME r2.exists, r2.born = c.born PROVE c.since <= c.content /\ c.content <= r2.content
  BY DEF Complete
<1>2. r2.born # v + 1
  BY <1>1
<1>3. r.exists /\ r.born = c.born /\ r.content <= r2.content
  <2>1. CASE r2.exists = r.exists /\ r2.serial = r.serial /\ r2.born = r.born /\ r2.content = r.content
    BY <1>1, <2>1
  <2>2. CASE /\ r.exists /\ v2 = v + 1 /\ r2.born = r.born /\ r2.content = v + 1
             /\ r2.serial = BumpSerial(r.serial)
    <3>1. r.content <= v
      BY DEF RowSound
    <3>2. QED
      BY <1>1, <2>2, <3>1
  <2>3. QED
    BY <1>2, <2>1, <2>2 DEF MovesOn
<1>4. c.since <= c.content /\ c.content <= r.content
  BY <1>3 DEF Complete
<1>5. QED
  BY <1>1, <1>3, <1>4

\* What one commit does, whatever zone it is of.
LEMMA CommitMovesOn ==
  ASSUME TypeOK, NEW y \in Zones, NEW r, Commit(y, r), MovesOn(row[y], ver[y], r, ver[y] + 1),
         NEW z \in Zones
  PROVE  MovesOn(row[z], ver[z], row'[z], ver'[z])
<1>1. ver[z] \in Nat
  BY StoreFacts
<1>2. CASE y = z
  BY <1>2 DEF Commit, TypeOK
<1>3. CASE y # z
  <2>1. row'[z] = row[z] /\ ver'[z] = ver[z]
    BY <1>3 DEF Commit, TypeOK
  <2>2. QED
    BY <1>1, <2>1 DEF MovesOn
<1>4. QED
  BY <1>2, <1>3

\* A step without a commit.
LEMMA StillMovesOn ==
  ASSUME TypeOK, NEW z \in Zones, row'[z] = row[z], ver'[z] = ver[z]
  PROVE  MovesOn(row[z], ver[z], row'[z], ver'[z])
BY StoreFacts DEF MovesOn

\* The commits of one kind of change.
LEMMA CommitsMoveOn ==
  ASSUME TypeOK, NEW y \in Zones
  PROVE  /\ row[y].exists => MovesOn(row[y], ver[y], Changed(y, BumpSerial(row[y].serial)), ver[y] + 1)
         /\ MovesOn(row[y], ver[y], [row[y] EXCEPT !.enabled = ~@], ver[y] + 1)
         /\ MovesOn(row[y], ver[y], NoRow, ver[y] + 1)
         /\ MovesOn(row[y], ver[y], NewRow(y), ver[y] + 1)
<1>1. row[y] \in Row /\ ver[y] \in Nat /\ ver[y] <= ver[y] + 1
  BY StoreFacts
<1>2. row[y].exists => MovesOn(row[y], ver[y], Changed(y, BumpSerial(row[y].serial)), ver[y] + 1)
  <2> DEFINE r == Changed(y, BumpSerial(row[y].serial))
  <2>1. /\ r.exists = row[y].exists /\ r.born = row[y].born /\ r.content = ver[y] + 1
        /\ r.serial = BumpSerial(row[y].serial)
    BY <1>1 DEF Changed, Row
  <2> HIDE DEF r
  <2>2. row[y].exists => MovesOn(row[y], ver[y], r, ver[y] + 1)
    BY <1>1, <2>1 DEF MovesOn
  <2>3. QED
    BY <2>2 DEF r
<1>3. MovesOn(row[y], ver[y], [row[y] EXCEPT !.enabled = ~@], ver[y] + 1)
  <2> DEFINE r == [row[y] EXCEPT !.enabled = ~@]
  <2>1. r.exists = row[y].exists /\ r.born = row[y].born /\ r.content = row[y].content /\ r.serial = row[y].serial
    BY <1>1 DEF Row
  <2> HIDE DEF r
  <2>2. MovesOn(row[y], ver[y], r, ver[y] + 1)
    BY <1>1, <2>1 DEF MovesOn
  <2>3. QED
    BY <2>2 DEF r
<1>4. MovesOn(row[y], ver[y], NoRow, ver[y] + 1)
  BY <1>1 DEF MovesOn, NoRow
<1>5. MovesOn(row[y], ver[y], NewRow(y), ver[y] + 1)
  BY <1>1 DEF MovesOn, NewRow
<1>6. QED
  BY <1>2, <1>3, <1>4, <1>5

\* Every step moves every zone's row on as one kind of change does: no thread
\* writes back a serial it read before another change.
LEMMA StepMovesOn ==
  ASSUME OneKindOfChange, TypeOK, WriterInv, [Next]_vars, NEW z \in Zones
  PROVE  MovesOn(row[z], ver[z], row'[z], ver'[z])
<1>1. ASSUME NEW t \in Threads, Edit(t)
      PROVE  MovesOn(row[z], ver[z], row'[z], ver'[z])
  <2>1. PICK y \in Zones : \/ EditRecords(t, y) \/ SetZoneEnabled(t, y)
                           \/ DeleteZone(t, y) \/ CreateZone(t, y)
    BY <1>1 DEF Edit
  <2>2. CASE UNCHANGED storeVars
    BY <2>2, StillMovesOn DEF storeVars
  <2>3. CASE EditRecords(t, y)
    BY <2>3, CommitsMoveOn, CommitMovesOn DEF EditRecords
  <2>4. CASE SetZoneEnabled(t, y) /\ ~UNCHANGED storeVars
    BY <2>4, CommitsMoveOn, CommitMovesOn DEF SetZoneEnabled
  <2>5. CASE DeleteZone(t, y)
    BY <2>5, CommitsMoveOn, CommitMovesOn DEF DeleteZone
  <2>6. CASE CreateZone(t, y)
    BY <2>6, CommitsMoveOn, CommitMovesOn DEF CreateZone
  <2>7. QED
    BY <2>1, <2>2, <2>3, <2>4, <2>5, <2>6
<1>2. ASSUME NEW t \in Threads, Import(t) \/ EditSoa(t)
      PROVE  FALSE
  BY <1>2 DEF Import, ImportCreate, ImportRecords, ImportFails, EditSoa, SoaRead, SoaSet, SoaBump,
              SoaNotFound, WriterInv, OneKindOfChange
<1>3. ASSUME NEW t \in Threads, Update(t)
      PROVE  MovesOn(row[z], ver[z], row'[z], ver'[z])
  <2>1. CASE UpdateApply(t)
    <3> DEFINE y == job[t].zone
    <3>1. pc[t] = "upd_apply" /\ Present(t) /\ y \in Zones
      BY <2>1, JobFacts DEF UpdateApply
    <3>2. Updaters # {} /\ GivenSerials = {} /\ job[t].serial = row[y].serial
      BY <3>1 DEF WriterInv, OneKindOfChange
    <3>3. Commit(y, Changed(y, BumpSerial(row[y].serial))) /\ row[y].exists
      BY <2>1, <3>1, <3>2 DEF UpdateApply, Present
    <3>4. QED
      BY <3>1, <3>3, CommitsMoveOn, CommitMovesOn
  <2>2. CASE ~UpdateApply(t)
    BY <1>3, <2>2, StillMovesOn DEF Update, UpdateCheck, UpdateRead, UpdateNotFound, storeVars
  <2>3. QED
    BY <2>1, <2>2
<1>4. ASSUME NEW t \in Threads, Reload(t)
      PROVE  MovesOn(row[z], ver[z], row'[z], ver'[z])
  <2>1. CASE UndoCreate(t) /\ ~UNCHANGED storeVars
    <3>1. Commit(job[t].zone, NoRow) /\ job[t].zone \in Zones
      BY <2>1, JobFacts DEF UndoCreate, storeVars
    <3>2. QED
      BY <3>1, CommitsMoveOn, CommitMovesOn
  <2>2. CASE UNCHANGED storeVars
    BY <2>2, StillMovesOn DEF storeVars
  <2>3. QED
    BY <1>4, <2>1, <2>2 DEF Reload, ReloadRows, ReloadRecords, ReloadPublish, ReloadReport, BuildFails,
                            SplitHorizonFails, ReloadError
<1>5. CASE Restart
  <2>1. row'[z] = row[z] /\ ver'[z] = ver[z]
    BY <1>5 DEF Restart, OneKindOfChange
  <2>2. QED
    BY <2>1, StillMovesOn
<1>6. CASE Notifier \/ (\E x \in Zones : Transfer(x)) \/ UNCHANGED vars
  BY <1>6, StillMovesOn DEF Notifier, NotifierWake, NotifierTake, NotifierSend, SpawnedNotify, Transfer,
                            TransferRow, TransferRecords, TransferServed, storeVars, vars
<1>7. QED
  BY <1>1, <1>2, <1>3, <1>4, <1>5, <1>6 DEF Next

\* Every step leaves the threads so.
LEMMA WriterKeeps ==
  ASSUME OneKindOfChange, TypeOK, WriterInv, [Next]_vars
  PROVE  WriterInv'
<1> DEFINE Others(t) == \A u \in Threads \ {t} : pc'[u] = pc[u] /\ job'[u] = job[u]
           Busy == {"reload", "records", "publish", "report", "undo"}
<1>0. pc \in [Threads -> Steps] /\ job \in [Threads -> Job]
  BY DEF TypeOK
<1>1. ASSUME NEW t \in Threads, Others(t), pc'[t] \in Busy \cup {"idle"},
             pc'[t] = "idle" \/ update_lock' = update_lock, pc'[t] = "idle" => update_lock' = Released(update_lock, t),
             Updaters # {} => pc[t] # "idle"
      PROVE  WriterInv'
  <2>1. \A u \in Threads : /\ pc'[u] \notin {"import", "soa_set", "soa_bump"}
                           /\ Updaters = {} => pc'[u] \notin {"upd_read", "upd_apply"}
    BY <1>1 DEF WriterInv
  <2>2. ASSUME Updaters # {}, NEW u \in Threads
        PROVE  /\ pc'[u] # "idle" => update_lock' = u
               /\ pc'[u] # "upd_apply"
    <3>1. update_lock = t /\ t # Free
      BY <1>1, <2>2, FreeAssumption DEF WriterInv
    <3>2. CASE u = t
      BY <1>1, <2>2, <3>1, <3>2
    <3>3. CASE u # t
      <4>1. pc[u] = "idle" /\ pc'[u] = pc[u]
        BY <1>1, <2>2, <3>1, <3>3 DEF WriterInv
      <4>2. QED
        BY <4>1
    <3>4. QED
      BY <3>2, <3>3
  <2>3. QED
    BY <2>1, <2>2 DEF WriterInv
<1>2. ASSUME UNCHANGED <<row, pc, job, update_lock>> \/ \A t \in Threads : pc'[t] = "idle"
      PROVE  WriterInv'
  <2>1. CASE UNCHANGED <<row, pc, job, update_lock>>
    BY <2>1 DEF WriterInv, Present
  <2>2. CASE \A t \in Threads : pc'[t] = "idle"
    BY <2>2 DEF WriterInv
  <2>3. QED
    BY <1>2, <2>1, <2>2
<1>3. ASSUME NEW t \in Threads, Edit(t)
      PROVE  WriterInv'
  <2>1. Others(t) /\ pc'[t] = "reload" /\ update_lock' = update_lock
    BY <1>0, <1>3 DEF Edit, EditRecords, SetZoneEnabled, DeleteZone, CreateZone, TakeJob, GoTo
  <2>2. Updaters = {}
    BY <1>3 DEF Edit, OneKindOfChange
  <2>3. QED
    BY <1>1, <2>1, <2>2
<1>4. ASSUME NEW t \in Threads, Import(t) \/ EditSoa(t)
      PROVE  FALSE
  BY <1>4 DEF Import, ImportCreate, ImportRecords, ImportFails, EditSoa, SoaRead, SoaSet, SoaBump,
              SoaNotFound, WriterInv, OneKindOfChange
<1>5. ASSUME NEW t \in Threads, Update(t)
      PROVE  WriterInv'
  <2>1. CASE \E z \in Zones : UpdateCheck(t, z)
    <3>1. Others(t) /\ pc'[t] = "upd_read" /\ update_lock = Free /\ update_lock' = t /\ Updaters # {}
      BY <1>0, <2>1 DEF UpdateCheck, TakeJob, GoTo
    <3>2. \A u \in Threads : pc[u] = "idle"
      BY <3>1, FreeAssumption DEF WriterInv
    <3>3. QED
      BY <3>1, <3>2 DEF WriterInv
  <2>2. CASE UpdateRead(t) /\ Present(t)
    <3>1. /\ Others(t) /\ pc[t] = "upd_read" /\ pc'[t] = "upd_apply"
          /\ update_lock' = update_lock /\ row' = row
          /\ job'[t].zone = job[t].zone /\ job'[t].serial = row[job[t].zone].serial
      BY <1>0, <2>2 DEF UpdateRead, GoTo, lockVars, storeVars, Job
    <3>2. Updaters # {} /\ update_lock = t
      BY <3>1 DEF WriterInv
    <3>3. \A u \in Threads \ {t} : pc'[u] = "idle"
      BY <3>1, <3>2 DEF WriterInv
    <3>4. job'[t].serial = row'[job'[t].zone].serial
      BY <3>1
    <3>5. QED
      BY <3>1, <3>2, <3>3, <3>4 DEF WriterInv
  <2>3. CASE UpdateRead(t) /\ ~Present(t)
    <3>1. Others(t) /\ pc[t] = "upd_read" /\ pc'[t] = "idle" /\ update_lock' = Released(update_lock, t)
      BY <1>0, <2>3 DEF UpdateRead, Finish, GoTo
    <3>2. QED
      BY <1>1, <3>1
  <2>4. CASE UpdateApply(t) \/ UpdateNotFound(t)
    <3>1. /\ Others(t) /\ pc[t] = "upd_apply"
          /\ \/ pc'[t] = "idle" /\ update_lock' = Released(update_lock, t)
             \/ pc'[t] = "reload" /\ update_lock' = update_lock
      BY <1>0, <2>4 DEF UpdateApply, UpdateNotFound, Finish, GoTo, lockVars
    <3>2. QED
      BY <1>1, <3>1
  <2>5. QED
    BY <1>5, <2>1, <2>2, <2>3, <2>4 DEF Update
<1>6. ASSUME NEW t \in Threads, Reload(t)
      PROVE  WriterInv'
  <2>1. /\ Others(t) /\ pc[t] # "idle" /\ pc'[t] \in Busy \cup {"idle"}
        /\ pc'[t] = "idle" \/ update_lock' = update_lock
        /\ pc'[t] = "idle" => update_lock' = Released(update_lock, t)
    BY <1>0, <1>6 DEF Reload, ReloadRows, ReloadRecords, ReloadPublish, ReloadReport, BuildFails,
                      SplitHorizonFails, ReloadError, UndoCreate, Finish, GoTo, lockVars
  <2>2. QED
    BY <1>1, <2>1
<1>7. CASE Restart
  BY <1>2, <1>7 DEF Restart
<1>8. CASE Notifier \/ (\E x \in Zones : Transfer(x)) \/ UNCHANGED vars
  BY <1>2, <1>8 DEF Notifier, NotifierWake, NotifierTake, NotifierSend, SpawnedNotify, Transfer,
                    TransferRow, TransferRecords, TransferServed, storeVars, lockVars, vars
<1>9. QED
  BY <1>3, <1>4, <1>5, <1>6, <1>7, <1>8 DEF Next

\* A row just read, with the records read after it, and what is copied of it.
LEMMA ReadFollows ==
  ASSUME NEW r \in Row, NEW v \in Version, RowSound(r, v)
  PROVE  /\ Follows(ReadRow(r, v), r, v) /\ Follows(FromStore(r, v), r, v)
         /\ Complete(FromStore(r, v), r)
         /\ \A z \in Zones : Follows(NothingRead[z], r, v)
<1>1. /\ {v, r.born, r.content} \subseteq Nat /\ r.serial \in Serial
      /\ r.born <= v /\ (r.exists => 1 <= r.born /\ 1 <= r.content)
  BY BoundsAssumption DEF Row, Version, RowSound
<1>2. Ahead(r.serial, r.serial, r.content - r.content)
  BY <1>1 DEF Ahead
<1>3. Follows(ReadRow(r, v), r, v)
  BY <1>1, <1>2 DEF Follows, ReadRow
<1>4. Follows(FromStore(r, v), r, v) /\ Complete(FromStore(r, v), r)
  BY <1>1, <1>2 DEF Follows, Complete, FromStore, ReadRow, ReadRecords
<1>5. \A z \in Zones : Follows(NothingRead[z], r, v)
  BY <1>1 DEF Follows, NothingRead
<1>6. QED
  BY <1>3, <1>4, <1>5

LEMMA RecordsFollow ==
  ASSUME NEW b \in Built, NEW r \in Row, NEW v, Follows(b, r, v)
  PROVE  Follows(ReadRecords(b, r), r, v) /\ Complete(ReadRecords(b, r), r)
<1>1. /\ ReadRecords(b, r).born = b.born /\ ReadRecords(b, r).since = b.since
      /\ ReadRecords(b, r).serial = b.serial
      /\ r.exists /\ r.born = b.born => ReadRecords(b, r).content = r.content
  BY DEF ReadRecords, Built
<1>2. r.content <= r.content
  BY BoundsAssumption DEF Row, Version
<1>3. QED
  BY <1>1, <1>2 DEF Follows, Complete

LEMMA CopyFollows ==
  ASSUME NEW b \in Built, NEW r, NEW v, Follows(b, r, v)
  PROVE  Follows(CopyOf(b), r, v) /\ (Complete(b, r) => Complete(CopyOf(b), r))
BY DEF Follows, Complete, CopyOf

\* What is served, handed out or read of a zone before a step follows its row after it.
LEMMA DetectMovesOn ==
  ASSUME OneKindOfChange, TypeOK, TypeOK', WriterInv, DetectInv, [Next]_vars, NEW z \in Zones
  PROVE  /\ RowSound(row'[z], ver'[z])
         /\ Follows(served[z], row'[z], ver'[z]) /\ Complete(served[z], row'[z])
         /\ Follows(copy[z], row'[z], ver'[z]) /\ Complete(copy[z], row'[z])
         /\ Follows(xfer[z], row'[z], ver'[z])
         /\ \A t \in Threads : /\ Follows(build[t][z], row'[z], ver'[z])
                               /\ pc[t] = "publish" => Complete(build[t][z], row'[z])
<1>1. /\ row[z] \in Row /\ row'[z] \in Row /\ ver[z] \in Version /\ ver'[z] \in Version
      /\ served[z] \in Built /\ xfer[z] \in Built /\ copy[z] \in Copy /\ \A t \in Threads : build[t][z] \in Built
  BY DEF TypeOK
<1>2. MovesOn(row[z], ver[z], row'[z], ver'[z]) /\ RowSound(row[z], ver[z]) /\ MaxCommits < Half
  BY StepMovesOn DEF DetectInv, OneKindOfChange
<1>3. RowSound(row'[z], ver'[z])
  BY <1>1, <1>2, MovesOnSound
<1>4. ASSUME NEW b \in Built \cup Copy, Follows(b, row[z], ver[z])
      PROVE  /\ Follows(b, row'[z], ver'[z])
             /\ Complete(b, row[z]) => Complete(b, row'[z])
  <2>1. b.serial \in Serial /\ b.born \in Version /\ b.since \in Version /\ b.content \in Version
    BY DEF Built, Copy
  <2>2. b.born <= ver[z]
    BY <1>4 DEF Follows
  <2>3. Follows(b, row'[z], ver'[z])
    BY <1>1, <1>2, <1>4, <2>1, MovesOnFollows
  <2>4. Complete(b, row[z]) => Complete(b, row'[z])
    BY <1>1, <1>2, <2>1, <2>2, MovesOnComplete
  <2>5. QED
    BY <2>3, <2>4
<1>5. QED
  BY <1>1, <1>3, <1>4 DEF DetectInv

\* Every step leaves what is served, handed out and read rows the zones have had.
LEMMA DetectKeeps ==
  ASSUME OneKindOfChange, TypeOK, TypeOK', WriterInv, DetectInv, [Next]_vars
  PROVE  DetectInv'
<1> DEFINE
     Good(z) == /\ RowSound(row'[z], ver'[z])
                /\ Follows(served'[z], row'[z], ver'[z]) /\ Complete(served'[z], row'[z])
                /\ Follows(copy'[z], row'[z], ver'[z]) /\ Complete(copy'[z], row'[z])
                /\ Follows(xfer'[z], row'[z], ver'[z])
                /\ \A u \in Threads : /\ Follows(build'[u][z], row'[z], ver'[z])
                                      /\ pc'[u] = "publish" => Complete(build'[u][z], row'[z])
<1> SUFFICES ASSUME NEW z \in Zones PROVE Good(z)
  BY DEF DetectInv
<1>1. /\ RowSound(row'[z], ver'[z])
      /\ Follows(served[z], row'[z], ver'[z]) /\ Complete(served[z], row'[z])
      /\ Follows(copy[z], row'[z], ver'[z]) /\ Complete(copy[z], row'[z])
      /\ Follows(xfer[z], row'[z], ver'[z])
      /\ \A t \in Threads : /\ Follows(build[t][z], row'[z], ver'[z])
                            /\ pc[t] = "publish" => Complete(build[t][z], row'[z])
  BY DetectMovesOn
<1>2. /\ row'[z] \in Row /\ ver'[z] \in Version /\ served[z] \in Built /\ xfer[z] \in Built
      /\ \A t \in Threads : build[t][z] \in Built
      /\ pc \in [Threads -> Steps] /\ build \in [Threads -> [Zones -> Built]]
      /\ xfer \in [Zones -> Built] /\ copy \in [Zones -> Copy]
  BY DEF TypeOK
<1>3. /\ Follows(ReadRow(row'[z], ver'[z]), row'[z], ver'[z])
      /\ Follows(FromStore(row'[z], ver'[z]), row'[z], ver'[z])
      /\ Complete(FromStore(row'[z], ver'[z]), row'[z])
      /\ Follows(NothingRead[z], row'[z], ver'[z])
  BY <1>1, <1>2, ReadFollows
<1>4. ASSUME NEW t \in Threads, UNCHANGED <<served, copy, xfer>>,
             \A u \in Threads \ {t} : pc'[u] = pc[u] /\ build'[u] = build[u],
             pc'[t] # "publish", build'[t] \in {build[t], NothingRead}
      PROVE  Good(z)
  <2>1. Follows(build'[t][z], row'[z], ver'[z])
    BY <1>1, <1>3, <1>4
  <2>2. QED
    BY <1>1, <1>4, <2>1
<1>5. ASSUME NEW t \in Threads, Edit(t) \/ Import(t) \/ EditSoa(t) \/ Update(t)
      PROVE  Good(z)
  <2>1. /\ UNCHANGED <<served, copy, xfer, build>> /\ pc'[t] # "publish"
        /\ \A u \in Threads \ {t} : pc'[u] = pc[u]
    BY <1>2, <1>5 DEF Edit, EditRecords, SetZoneEnabled, DeleteZone, CreateZone, Import, ImportCreate,
       ImportRecords, ImportFails, EditSoa, SoaRead, SoaSet, SoaBump, SoaNotFound, Update, UpdateCheck,
       UpdateRead, UpdateApply, UpdateNotFound, Finish, GoTo, serveVars, copyVars
  <2>2. QED
    BY <1>4, <2>1
<1>6. ASSUME NEW t \in Threads, Reload(t)
      PROVE  Good(z)
  <2>1. CASE ReloadRows(t)
    <3>1. /\ UNCHANGED <<served, copy, xfer>> /\ pc'[t] # "publish"
          /\ build'[t][z] = ReadRow(row'[z], ver'[z])
          /\ \A u \in Threads \ {t} : pc'[u] = pc[u] /\ build'[u] = build[u]
      BY <1>2, <2>1 DEF ReloadRows, GoTo, storeVars, copyVars
    <3>2. QED
      BY <1>1, <1>3, <3>1
  <2>2. CASE ReloadRecords(t)
    <3>1. /\ UNCHANGED <<served, copy, xfer>>
          /\ build'[t][z] = ReadRecords(build[t][z], row'[z])
          /\ \A u \in Threads \ {t} : pc'[u] = pc[u] /\ build'[u] = build[u]
      BY <1>2, <2>2 DEF ReloadRecords, GoTo, storeVars, copyVars
    <3>2. Follows(build'[t][z], row'[z], ver'[z]) /\ Complete(build'[t][z], row'[z])
      BY <1>1, <1>2, <3>1, RecordsFollow
    <3>3. QED
      BY <1>1, <3>1, <3>2
  <2>3. CASE ReloadPublish(t)
    <3>1. /\ UNCHANGED <<copy, xfer, build>> /\ pc[t] = "publish" /\ pc'[t] # "publish"
          /\ served'[z] = build[t][z] /\ \A u \in Threads \ {t} : pc'[u] = pc[u]
      BY <1>2, <2>3 DEF ReloadPublish, GoTo, copyVars
    <3>2. \A u \in Threads : pc'[u] = "publish" => pc[u] = "publish"
      BY <3>1
    <3>3. QED
      BY <1>1, <3>1, <3>2
  <2>4. CASE ReloadReport(t) \/ BuildFails(t) \/ SplitHorizonFails(t) \/ UndoCreate(t)
    <3>1. /\ UNCHANGED <<served, copy, xfer>> /\ pc'[t] # "publish"
          /\ build'[t] \in {build[t], NothingRead}
          /\ \A u \in Threads \ {t} : pc'[u] = pc[u] /\ build'[u] = build[u]
      BY <1>2, <2>4 DEF ReloadReport, BuildFails, SplitHorizonFails, ReloadError, UndoCreate, Finish,
                        GoTo, serveVars, copyVars
    <3>2. QED
      BY <1>4, <3>1
  <2>5. QED
    BY <1>6, <2>1, <2>2, <2>3, <2>4 DEF Reload
<1>7. ASSUME NEW x \in Zones, Transfer(x)
      PROVE  Good(z)
  <2>1. UNCHANGED <<row, ver, served, build, pc>>
    BY <1>7 DEF Transfer, TransferRow, TransferRecords, TransferServed, storeVars, serveVars
  <2>2. xfer'[z] \in {xfer[z], ReadRow(row'[z], ver'[z]), NothingRead[z]}
    BY <1>2, <1>7, <2>1 DEF Transfer, TransferRow, TransferRecords, TransferServed
  <2>3. copy'[z] \in {copy[z], CopyOf(served[z]), CopyOf(ReadRecords(xfer[z], row'[z]))}
    BY <1>2, <1>7, <2>1 DEF Transfer, TransferRow, TransferRecords, TransferServed
  <2>4. /\ Follows(CopyOf(served[z]), row'[z], ver'[z])
        /\ Complete(CopyOf(served[z]), row'[z])
    BY <1>1, <1>2, CopyFollows
  <2>5. /\ Follows(CopyOf(ReadRecords(xfer[z], row'[z])), row'[z], ver'[z])
        /\ Complete(CopyOf(ReadRecords(xfer[z], row'[z])), row'[z])
    BY <1>1, <1>2, ReadRecordsType, RecordsFollow, CopyFollows
  <2>6. Follows(copy'[z], row'[z], ver'[z]) /\ Complete(copy'[z], row'[z])
    BY <1>1, <2>3, <2>4, <2>5
  <2>7. Follows(xfer'[z], row'[z], ver'[z])
    BY <1>1, <1>3, <2>2
  <2>8. QED
    BY <1>1, <2>1, <2>6, <2>7
<1>8. CASE Restart
  <2>1. /\ served'[z] = FromStore(row'[z], ver'[z]) /\ copy' = copy /\ xfer'[z] = NothingRead[z]
        /\ \A u \in Threads : pc'[u] = "idle" /\ build'[u] = NothingRead
    BY <1>8 DEF Restart
  <2>2. QED
    BY <1>1, <1>3, <2>1
<1>9. CASE Notifier \/ UNCHANGED vars
  <2>1. UNCHANGED <<served, copy, xfer, build, pc>>
    BY <1>9 DEF Notifier, NotifierWake, NotifierTake, NotifierSend, SpawnedNotify, serveVars, copyVars, vars
  <2>2. QED
    BY <1>1, <2>1
<1>10. QED
  BY <1>5, <1>6, <1>7, <1>8, <1>9 DEF Next

\* A zone starts out served and copied as it is in the store.
LEMMA DetectFirst ==
  ASSUME Init
  PROVE  DetectInv /\ WriterInv
<1>1. /\ \A t \in Threads : pc[t] = "idle" /\ build[t] = NothingRead
      /\ xfer = NothingRead
      /\ \A z \in Zones : /\ row[z] \in {FirstRow, NoRow} /\ ver[z] = 1
                          /\ served[z] = FromStore(row[z], ver[z]) /\ copy[z] = CopyOf(served[z])
  BY DEF Init
<1>2. TypeOK
  BY InitType
<1>3. ASSUME NEW z \in Zones
      PROVE  /\ RowSound(row[z], ver[z])
             /\ Follows(served[z], row[z], ver[z]) /\ Complete(served[z], row[z])
             /\ Follows(copy[z], row[z], ver[z]) /\ Complete(copy[z], row[z])
             /\ Follows(NothingRead[z], row[z], ver[z])
  <2>1. row[z] \in Row /\ ver[z] \in Version /\ served[z] \in Built
    BY <1>2 DEF TypeOK
  <2>2. RowSound(row[z], ver[z])
    BY <1>1 DEF RowSound, FirstRow, NoRow
  <2>3. QED
    BY <1>1, <2>1, <2>2, ReadFollows, CopyFollows
<1>4. DetectInv
  BY <1>1, <1>3 DEF DetectInv
<1>5. WriterInv
  BY <1>1 DEF WriterInv
<1>6. QED
  BY <1>4, <1>5

\* Where zones are changed in one way only, a copy of a zone that lacks its last
\* change has an older serial, wherever in the serial space and whatever reloads,
\* transfers, failures and restarts come between, so its holder finds out on its
\* next SOA query (bump_serial_in, serial_newer; an update and an edit at once
\* break it, handle_update in dispatcher.rs).
THEOREM ChangeIsDetectableCorrect ==
  ASSUME OneKindOfChange
  PROVE  Spec => []ChangeIsDetectable
<1>1. TypeOK /\ DetectInv => ChangeIsDetectable
  <2> SUFFICES ASSUME TypeOK, DetectInv, NEW z \in Zones, row[z].exists, copy[z].born = row[z].born,
                      copy[z].content # row[z].content
               PROVE  SerialNewer(row[z].serial, copy[z].serial)
    BY DEF ChangeIsDetectable
  <2> DEFINE n == row[z].content - copy[z].since
  <2>1. /\ 1 <= copy[z].since /\ copy[z].since <= copy[z].content /\ copy[z].content <= row[z].content
        /\ Ahead(row[z].serial, copy[z].serial, n)
    BY DEF DetectInv, Follows, Complete
  <2>2. row[z] \in Row /\ copy[z] \in Copy
    BY DEF TypeOK
  <2>3. /\ row[z].serial \in Serial /\ copy[z].serial \in Serial
        /\ row[z].content \in Version /\ copy[z].since \in Version /\ copy[z].content \in Version
    BY <2>2 DEF Row, Copy
  <2>4. n \in Nat \ {0} /\ n + 1 < Half
    BY <2>1, <2>3, BoundsAssumption, HalfAssumption DEF Version, OneKindOfChange
  <2> HIDE DEF n
  <2>5. QED
    BY <2>1, <2>3, <2>4, AheadNewer
<1>2. TypeOK /\ TypeOK' /\ WriterInv /\ DetectInv /\ [Next]_vars => WriterInv' /\ DetectInv'
  BY WriterKeeps, DetectKeeps
<1>3. Init => WriterInv /\ DetectInv
  BY DetectFirst
<1>4. QED
  BY <1>1, <1>2, <1>3, TypeCorrect, PTL DEF Spec
=============================================================================
