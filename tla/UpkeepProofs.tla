---------------------------- MODULE UpkeepProofs ----------------------------
(* Proofs about the maintenance tasks: failover, the local root zone, ACME,   *)
(* catalog members, backup and restore, self-update, DNSSEC maintenance, the  *)
(* threat lists and the blocklists.                                           *)
(* Each section has the inductive invariant of one component, a lemma for     *)
(* each of its actions, and the theorem that its safety property always holds.*)
EXTENDS HealthFailover, RootCopy, AcmeCerts, CatalogMembers, BackupRestore,
        DnssecRollover, SelfUpdate, BlocklistFeeds, SafeBrowsing,
        FiniteSetTheorems, SequenceTheorems, WellFoundedInduction, TLAPS

\* A set of naturals has a least element (the well-foundedness of <).
LEMMA LeastOf ==
  ASSUME NEW S, S \subseteq Nat, S # {}
  PROVE  \E n \in S : \A m \in S : n <= m
<1> DEFINE R == {ss \in Nat \X Nat : ss[1] < ss[2]}
<1>1. IsWellFoundedOn(R, Nat)
  BY NatLessThanWellFounded DEF OpToRel
<1>2. PICK x \in S : \A y \in S : <<y, x>> \notin R
  <2> HIDE DEF R
  <2>1. QED
    BY <1>1, WFMin
<1>3. \A y \in S : <<y, x>> \in Nat \X Nat
  OBVIOUS
<1>4. \A y \in S : ~(y < x)
  BY <1>2, <1>3
<1>5. QED
  BY <1>4
----------------------------------------------------------------------------
(* Health checks and failover *)

\* What the monitor keeps of a check, and the states of the checks it knows.
HfEntry == [healthy : BOOLEAN, fails : Nat, passes : Nat, due : BOOLEAN]
HfTable(f) == DOMAIN f \subseteq HfRecords /\ f \in [DOMAIN f -> HfEntry]
Failing(f) == {r \in DOMAIN f : ~f[r].healthy}

\* The records there are and the checks among them.
HfTyped ==
  /\ hfRows \subseteq HfRecords /\ hfRows # {} /\ hfChecks \subseteq hfRows
  /\ HfTable(hfState)
  /\ hfTask \in [pc : {"rest", "probing"}, due : SUBSET HfRecords, ok : SUBSET HfRecords]
  /\ {hfMissed, hfTouched} \subseteq BOOLEAN
  /\ hfServed # {}

\* The monitor and the catalog agree between ticks unless a handler wrote meanwhile; what
\* is published was computed from what the catalog has been given unless a reload failed
\* or a deleted check is still to be taken out of the set.
HfInv ==
  /\ HfTyped
  /\ hfTask.pc = "rest" /\ ~hfTouched => hfUnhealthy = Failing(hfState)
  /\ ~hfMissed /\ hfDelete = {} => hfServed = Failover(hfRows, hfChecks, hfUnhealthy)

\* Something is always left to answer with (catalog.rs: all the records when none is
\* healthy).
LEMMA FailoverLeavesSome ==
  ASSUME NEW rows, rows \subseteq HfRecords, rows # {}, NEW checks, NEW unhealthy
  PROVE  Failover(rows, checks, unhealthy) # {}
<1> DEFINE healthy == rows \ unhealthy
<1>1. CASE rows \cap checks = {} \/ healthy = {}
  BY <1>1 DEF Failover
<1>2. CASE ~(rows \cap checks = {} \/ healthy = {})
  <2>1. healthy \subseteq Nat /\ healthy # {}
    BY <1>2, HfAssumption
  <2>2. PICK n \in healthy : \A m \in healthy : n <= m
    <3> HIDE DEF healthy
    <3>1. QED
      BY <2>1, LeastOf
  <2>3. Failover(rows, checks, unhealthy) = {r \in healthy : \A q \in healthy : r <= q}
    BY <1>2 DEF Failover
  <2>4. QED
    BY <2>2, <2>3
<1>3. QED
  BY <1>1, <1>2

\* A reload publishes the records Failover leaves, or counts as missed.
LEMMA ReloadPublishes ==
  ASSUME NEW rows, rows \subseteq HfRecords, rows # {}, NEW checks, NEW unhealthy, NEW fails \in BOOLEAN,
         hfServed # {}, HfReload(rows, checks, unhealthy, fails)
  PROVE  /\ hfServed' # {} /\ hfMissed' \in BOOLEAN
         /\ ~hfMissed' => hfServed' = Failover(rows, checks, unhealthy)
BY FailoverLeavesSome DEF HfReload

\* The first states.
LEMMA HfInitInv == HfInit => HfInv
<1> SUFFICES ASSUME HfInit PROVE HfInv
  OBVIOUS
<1>1. HfTable(<<>>) /\ Failing(<<>>) = {}
  BY DEF HfTable, Failing
<1>2. Failover(HfRecords, hfChecks, {}) # {}
  BY HfAssumption, FailoverLeavesSome
<1>3. HfTyped
  BY <1>1, <1>2, HfAssumption DEF HfInit, HfTyped, HfRest
<1>4. QED
  BY <1>1, <1>3 DEF HfInit, HfInv, HfRest

\* A tick meets the new checks as healthy ones.
LEMMA TickKeeps == HfInv /\ HfTick => HfInv'
<1> SUFFICES ASSUME HfInv, HfTick PROVE HfInv'
  OBVIOUS
<1> DEFINE known == [r \in hfChecks |-> IF r \in DOMAIN hfState THEN hfState[r] ELSE HealthNew]
<1>1. HealthNew \in HfEntry
  BY DEF HealthNew, HfEntry
<1>2. HfTable(known)
  BY <1>1 DEF HfInv, HfTyped, HfTable
<1>3. hfState' = known /\ hfTask' = [pc |-> "probing", due |-> {r \in hfChecks : known[r].due}, ok |-> {}]
  BY DEF HfTick
<1>4. UNCHANGED <<hfRows, hfChecks, hfUnhealthy, hfServed, hfMissed, hfDelete, hfTouched>>
  BY DEF HfTick, hfCatalog
<1>5. HfTable(hfState')
  BY <1>2, <1>3
<1>6. /\ hfTask' \in [pc : {"rest", "probing"}, due : SUBSET HfRecords, ok : SUBSET HfRecords]
      /\ hfTask'.pc = "probing"
  <2> HIDE DEF known
  <2>1. {r \in hfChecks : known[r].due} \subseteq HfRecords
    BY DEF HfInv, HfTyped
  <2>2. QED
    BY <1>3, <2>1
<1>7. HfTyped'
  <2> HIDE DEF known
  <2>1. QED
    BY <1>4, <1>5, <1>6 DEF HfInv, HfTyped, HfTable
<1>8. QED
  <2> HIDE DEF known
  <2>1. QED
    BY <1>4, <1>6, <1>7 DEF HfInv

\* The results of a tick reach the states and the catalog together.
LEMMA ResultsKeep ==
  ASSUME NEW a \in SUBSET HfRecords, NEW fails \in BOOLEAN, HfInv, HfResults(a, fails)
  PROVE  HfInv'
<1> DEFINE state == [r \in DOMAIN hfState |->
                       IF r \in hfTask.due THEN HfProbed(hfState[r], r \in a) ELSE hfState[r]]
<1>1. \A s \in HfEntry, r \in HfRecords : HfProbed(s, r \in a) \in HfEntry
  BY DEF HfProbed, HfEntry
<1>2. HfTable(hfState) /\ \A r \in DOMAIN hfState : hfState[r] \in HfEntry
  BY DEF HfInv, HfTyped, HfTable
<1>3. HfTable(state)
  BY <1>1, <1>2 DEF HfTable
<1>4. /\ hfState' = state /\ hfTask' = HfRest /\ hfTouched' = FALSE
      /\ SetUnhealthy(hfRows, hfChecks, Failing(state), fails)
      /\ UNCHANGED <<hfRows, hfChecks, hfDelete>>
  BY DEF HfResults, Failing
<1> HIDE DEF state
<1>5. hfUnhealthy' = Failing(hfState')
  BY <1>4 DEF SetUnhealthy
<1>6. /\ hfServed' # {} /\ hfMissed' \in BOOLEAN
      /\ ~hfMissed' /\ hfDelete = {} => hfServed' = Failover(hfRows, hfChecks, hfUnhealthy')
  <2>1. CASE Failing(state) = hfUnhealthy
    BY <1>4, <2>1 DEF SetUnhealthy, HfInv, HfTyped
  <2>2. CASE Failing(state) # hfUnhealthy
    <3>1. HfReload(hfRows, hfChecks, Failing(state), fails) /\ hfUnhealthy' = Failing(state)
      BY <1>4, <2>2 DEF SetUnhealthy
    <3>2. QED
      BY <3>1, ReloadPublishes DEF HfInv, HfTyped
  <2>3. QED
    BY <2>1, <2>2
<1>7. HfTable(hfState')
  BY <1>3, <1>4
<1>8. HfTyped'
  BY <1>4, <1>6, <1>7 DEF HfInv, HfTyped, HfTable, HfRest
<1>9. QED
  BY <1>4, <1>5, <1>6, <1>8 DEF HfInv, Failing

\* A probe that is back before the others, or an address that comes up or goes down.
LEMMA ProbeKeeps ==
  ASSUME NEW r \in HfRecords, HfInv, HfProbe(r) \/ HfFlip(r)
  PROVE  HfInv'
<1>1. CASE HfProbe(r)
  <2>1. /\ hfTask' \in [pc : {"rest", "probing"}, due : SUBSET HfRecords, ok : SUBSET HfRecords]
        /\ hfTask'.pc = hfTask.pc
    BY <1>1 DEF HfProbe, HfInv, HfTyped
  <2>2. UNCHANGED <<hfRows, hfChecks, hfState, hfDelete, hfUnhealthy, hfServed, hfMissed, hfTouched>>
    BY <1>1 DEF HfProbe, hfCatalog
  <2>3. QED
    BY <2>1, <2>2 DEF HfInv, HfTyped, HfTable, Failing
<1>2. CASE HfFlip(r)
  BY <1>2 DEF HfFlip, hfCatalog, HfInv, HfTyped, HfTable, Failing
<1>3. QED
  BY <1>1, <1>2

\* A check becomes due: what is known of its health stays.
LEMMA DueKeeps ==
  ASSUME HfTable(hfState), NEW r \in DOMAIN hfState, hfState' = [hfState EXCEPT ![r].due = TRUE]
  PROVE  HfTable(hfState') /\ Failing(hfState') = Failing(hfState)
<1>1. \A s \in DOMAIN hfState : hfState[s] \in HfEntry
  BY DEF HfTable
<1>2. DOMAIN hfState' = DOMAIN hfState
  OBVIOUS
<1>3. \A s \in DOMAIN hfState : hfState'[s] \in HfEntry /\ hfState'[s].healthy = hfState[s].healthy
  BY <1>1 DEF HfEntry, HfTable
<1>4. hfState' \in [DOMAIN hfState' -> HfEntry]
  BY <1>2, <1>3 DEF HfTable
<1>5. QED
  BY <1>2, <1>3, <1>4 DEF HfTable, Failing

\* A check that comes due changes no verdict.
LEMMA IntervalKeeps ==
  ASSUME NEW r \in HfRecords, HfInv, HfIntervalPasses(r)
  PROVE  HfInv'
<1>1. HfTable(hfState') /\ Failing(hfState') = Failing(hfState)
  BY DueKeeps DEF HfIntervalPasses, HfInv, HfTyped
<1>2. UNCHANGED <<hfRows, hfChecks, hfTask, hfDelete, hfUnhealthy, hfServed, hfMissed, hfTouched>>
  BY DEF HfIntervalPasses, hfCatalog
<1>3. QED
  BY <1>1, <1>2 DEF HfInv, HfTyped, HfTable, Failing

\* A new check: the catalog is reloaded with the set it has.
LEMMA SetCheckKeeps ==
  ASSUME NEW r \in HfRecords, NEW fails \in BOOLEAN, HfInv, HfSetCheck(r, fails)
  PROVE  HfInv'
<1>1. HfTable(hfState')
  <2>1. CASE r \in DOMAIN hfState
    BY <2>1, DueKeeps DEF HfSetCheck, HfInv, HfTyped
  <2>2. CASE r \notin DOMAIN hfState
    BY <2>2 DEF HfSetCheck, HfInv, HfTyped, HfTable
  <2>3. QED
    BY <2>1, <2>2
<1>2. /\ hfChecks' = hfChecks \cup {r} /\ hfTouched' = TRUE /\ r \in hfRows
      /\ HfReload(hfRows, hfChecks', hfUnhealthy, fails)
      /\ UNCHANGED <<hfRows, hfTask, hfDelete, hfUnhealthy>>
  BY DEF HfSetCheck
<1>3. /\ hfServed' # {} /\ hfMissed' \in BOOLEAN
      /\ ~hfMissed' => hfServed' = Failover(hfRows, hfChecks', hfUnhealthy)
  BY <1>2, ReloadPublishes DEF HfInv, HfTyped
<1>4. HfTyped'
  BY <1>1, <1>2, <1>3 DEF HfInv, HfTyped, HfTable
<1>5. QED
  BY <1>2, <1>3, <1>4 DEF HfInv

\* A deleted check: the row, then the set written from what was read before.
LEMMA DeleteCheckKeeps ==
  ASSUME NEW r \in HfRecords, HfInv, HfDeleteCheck(r)
  PROVE  HfInv'
<1>1. /\ hfChecks' = hfChecks \ {r} /\ hfDelete' # {}
      /\ UNCHANGED <<hfRows, hfState, hfTask, hfUnhealthy, hfServed, hfMissed, hfTouched>>
  BY DEF HfDeleteCheck, hfCatalog
<1>2. QED
  BY <1>1 DEF HfInv, HfTyped, HfTable, Failing

\* Deleting a check writes the unhealthy set back and reloads.
LEMMA DeleteWritesKeeps ==
  ASSUME NEW fails \in BOOLEAN, HfInv, HfDeleteCheckWrites(fails)
  PROVE  HfInv'
<1>1. PICK u : /\ hfDelete' = {} /\ hfTouched' = TRUE /\ hfUnhealthy' = u
               /\ HfReload(hfRows, hfChecks, u, fails)
               /\ UNCHANGED <<hfRows, hfChecks, hfState, hfTask>>
  BY DEF HfDeleteCheckWrites
<1>2. /\ hfServed' # {} /\ hfMissed' \in BOOLEAN
      /\ ~hfMissed' => hfServed' = Failover(hfRows, hfChecks, u)
  BY <1>1, ReloadPublishes DEF HfInv, HfTyped
<1>3. HfTyped'
  BY <1>1, <1>2 DEF HfInv, HfTyped, HfTable
<1>4. QED
  BY <1>1, <1>2, <1>3 DEF HfInv

\* A record comes or goes.
LEMMA EditRecordKeeps ==
  ASSUME NEW r \in HfRecords, NEW fails \in BOOLEAN, HfInv, HfEditRecord(r, fails)
  PROVE  HfInv'
<1> DEFINE rows == IF r \in hfRows THEN hfRows \ {r} ELSE hfRows \cup {r}
<1>1. /\ rows # {} /\ hfRows' = rows /\ hfChecks' = hfChecks \cap rows /\ hfTouched' = TRUE
      /\ HfReload(rows, hfChecks \cap rows, hfUnhealthy, fails)
      /\ UNCHANGED <<hfState, hfTask, hfDelete, hfUnhealthy>>
  BY DEF HfEditRecord
<1>2. rows \subseteq HfRecords
  BY DEF HfInv, HfTyped
<1> HIDE DEF rows
<1>3. /\ hfServed' # {} /\ hfMissed' \in BOOLEAN
      /\ ~hfMissed' => hfServed' = Failover(rows, hfChecks \cap rows, hfUnhealthy)
  BY <1>1, <1>2, ReloadPublishes DEF HfInv, HfTyped
<1>4. HfTyped'
  BY <1>1, <1>2, <1>3 DEF HfInv, HfTyped, HfTable
<1>5. QED
  BY <1>1, <1>3, <1>4 DEF HfInv

\* A restart: unknown counts as healthy.
LEMMA HfRestartKeeps == HfInv /\ HfRestart => HfInv'
<1> SUFFICES ASSUME HfInv, HfRestart PROVE HfInv'
  OBVIOUS
<1>1. HfTable(<<>>) /\ Failing(<<>>) = {}
  BY DEF HfTable, Failing
<1>2. /\ hfState' = <<>> /\ hfTask' = HfRest /\ hfDelete' = {} /\ hfUnhealthy' = {} /\ hfTouched' = TRUE
      /\ HfReload(hfRows, hfChecks, {}, FALSE) /\ UNCHANGED <<hfRows, hfChecks>>
  BY DEF HfRestart
<1>3. /\ hfServed' # {} /\ hfMissed' \in BOOLEAN
      /\ ~hfMissed' => hfServed' = Failover(hfRows, hfChecks, {})
  BY <1>2, ReloadPublishes DEF HfInv, HfTyped
<1>4. HfTable(hfState')
  BY <1>1, <1>2
<1>5. HfTyped'
  BY <1>2, <1>3, <1>4 DEF HfInv, HfTyped, HfTable, HfRest
<1>6. QED
  BY <1>2, <1>3, <1>5 DEF HfInv

\* Every step of the monitor, the handlers, the addresses and a restart keeps it.
LEMMA HfStep == HfInv /\ [HfNext]_hfVars => HfInv'
<1> SUFFICES ASSUME HfInv, [HfNext]_hfVars PROVE HfInv'
  OBVIOUS
<1>1. CASE HfTick
  BY <1>1, TickKeeps
<1>2. CASE \E a \in SUBSET HfRecords, f \in BOOLEAN : HfResults(a, f)
  BY <1>2, ResultsKeep
<1>3. CASE HfRestart
  BY <1>3, HfRestartKeeps
<1>4. CASE \E f \in BOOLEAN : HfDeleteCheckWrites(f)
  BY <1>4, DeleteWritesKeeps
<1>5. ASSUME NEW r \in HfRecords, HfProbe(r) \/ HfFlip(r) PROVE HfInv'
  BY <1>5, ProbeKeeps
<1>6. ASSUME NEW r \in HfRecords, HfIntervalPasses(r) PROVE HfInv'
  BY <1>6, IntervalKeeps
<1>7. ASSUME NEW r \in HfRecords, HfDeleteCheck(r) PROVE HfInv'
  BY <1>7, DeleteCheckKeeps
<1>8. ASSUME NEW r \in HfRecords, NEW f \in BOOLEAN, HfSetCheck(r, f) \/ HfEditRecord(r, f) PROVE HfInv'
  BY <1>8, SetCheckKeeps, EditRecordKeeps
<1>9. CASE UNCHANGED hfVars
  BY <1>9 DEF hfVars, HfInv, HfTyped, HfTable, Failing
<1>10. QED
  BY <1>1, <1>2, <1>3, <1>4, <1>5, <1>6, <1>7, <1>8, <1>9 DEF HfNext

\* The invariant gives the property.
LEMMA HfInvAnswers == HfInv => NoDeadAnswers
<1> SUFFICES ASSUME HfInv, hfTask.pc = "rest", ~hfTouched, ~hfMissed, hfDelete = {}, hfChecks # {}
             PROVE  \/ hfServed = hfRows /\ hfRows \subseteq Failing(hfState)
                    \/ \A r \in hfServed : /\ r \notin Failing(hfState)
                                           /\ \A q \in hfRows \ Failing(hfState) : r <= q
  BY DEF NoDeadAnswers, Failing, HfInv, HfTyped
<1>1. hfServed = Failover(hfRows, hfChecks, Failing(hfState))
  BY DEF HfInv
<1>2. hfRows \cap hfChecks # {}
  BY DEF HfInv, HfTyped
<1>3. QED
  BY <1>1, <1>2 DEF Failover

\* No answer leads to a record the monitor finds dead while a live one is there, and there
\* is always an answer: for any records, thresholds and number of ticks, edits, failed
\* reloads and restarts.
THEOREM NoDeadAnswersCorrect == HfSpec => []NoDeadAnswers
<1>1. HfSpec => []HfInv
  BY HfInitInv, HfStep, PTL DEF HfSpec
<1>2. QED
  BY <1>1, HfInvAnswers, PTL
----------------------------------------------------------------------------
(* The local root zone *)

\* A copy kept in memory, in the file or by a refresh is a genuine one, and some source
\* stood by its serial no earlier than the time written beside it.
Backed(z, confirmed) ==
  z # None => /\ z \in [copy : RzCopies, checked : Nat]
              /\ z.copy.genuine
              /\ z.checked <= confirmed[z.copy.serial]

\* What was answered came from such a copy.
SeenBacked(seen, now, confirmed) ==
  seen.kind \notin {"none", "servfail"} =>
    /\ seen.copy \in RzCopies /\ seen.copy.genuine
    /\ seen.at = now => now < confirmed[seen.copy.serial] + RzExpire

\* The clock only goes on, and no source has spoken in the future.
RzClock ==
  /\ rzNow \in Nat
  /\ rzConfirmed \in [Serials -> Nat] /\ \A s \in Serials : rzConfirmed[s] <= rzNow
  /\ rzSeen.at \in Nat /\ rzSeen.at <= rzNow

\* The task is at one of the sources.
RzTasked ==
  /\ DOMAIN rzTask = {"stage", "source", "zone"}
  /\ rzTask.source \in 1 .. Len(RzSources)

RzInv ==
  /\ RzClock
  /\ rzHas \in [ToSet(RzSources) -> RzCopies]
  /\ RzTasked
  /\ Backed(rzZone, rzConfirmed) /\ Backed(rzFile, rzConfirmed) /\ Backed(rzTask.zone, rzConfirmed)
  /\ SeenBacked(rzSeen, rzNow, rzConfirmed)

\* What a source's copy is, if it verifies (verify_zone).
LEMMA VerifiedGenuine ==
  ASSUME NEW c \in RzCopies, VerifyZone(c)
  PROVE  c.genuine
BY RzAssumption DEF VerifyZone, SignatureValid, ZoneDigest

\* The source asked holds a copy.
LEMMA SourceHolds ==
  ASSUME RzInv
  PROVE  rzHas[RzSources[rzTask.source]] \in RzCopies
<1>1. rzTask.source \in DOMAIN RzSources
  BY RzAssumption DEF RzInv, RzTasked
<1>2. RzSources[rzTask.source] \in ToSet(RzSources)
  BY <1>1 DEF ToSet
<1>3. QED
  BY <1>2 DEF RzInv

\* The next source is one of the list.
LEMMA NextSourceListed ==
  ASSUME RzInv
  PROVE  /\ DOMAIN NextSource = {"stage", "source", "zone"} /\ NextSource.source \in 1 .. Len(RzSources)
         /\ Backed(NextSource.zone, rzConfirmed)
<1>1. Len(RzSources) \in Nat /\ Len(RzSources) >= 1
  BY RzAssumption
<1>2. Backed(None, rzConfirmed)
  BY DEF Backed
<1>3. QED
  BY <1>1, <1>2 DEF NextSource, Resting, RzInv, RzTasked

\* A source stands by a serial: nothing that was backed is less so.
LEMMA ConfirmKeeps ==
  ASSUME RzInv, NEW s \in Serials, Confirm(s), UNCHANGED rzNow
  PROVE  /\ rzConfirmed' \in [Serials -> Nat] /\ \A t \in Serials : rzConfirmed'[t] <= rzNow
         /\ rzConfirmed'[s] = rzNow
         /\ \A t \in Serials : rzConfirmed[t] <= rzConfirmed'[t]
BY DEF RzInv, RzClock, Confirm

\* What a source stands by later is no reason to doubt what was kept earlier.
LEMMA BackedStays ==
  ASSUME RzInv, rzConfirmed' \in [Serials -> Nat], \A t \in Serials : rzConfirmed[t] <= rzConfirmed'[t]
  PROVE  /\ \A z : Backed(z, rzConfirmed) => Backed(z, rzConfirmed')
         /\ SeenBacked(rzSeen, rzNow, rzConfirmed) => SeenBacked(rzSeen, rzNow, rzConfirmed')
<1>1. \A c \in RzCopies : c.serial \in Serials
  BY DEF Serials
<1>2. \A s \in Serials : rzConfirmed[s] \in Nat /\ rzConfirmed'[s] \in Nat
  BY DEF RzInv, RzClock
<1>3. ASSUME NEW z, Backed(z, rzConfirmed) PROVE Backed(z, rzConfirmed')
  <2>1. CASE z = None
    BY <2>1 DEF Backed
  <2>2. CASE z # None
    <3>1. /\ z \in [copy : RzCopies, checked : Nat] /\ z.copy.genuine
          /\ z.checked <= rzConfirmed[z.copy.serial]
      BY <1>3, <2>2 DEF Backed
    <3>2. z.copy \in RzCopies /\ z.checked \in Nat
      BY <3>1
    <3>3. z.copy.serial \in Serials
      BY <1>1, <3>2
    <3>4. z.checked <= rzConfirmed'[z.copy.serial]
      BY <1>2, <3>1, <3>2, <3>3
    <3>5. QED
      BY <3>1, <3>4 DEF Backed
  <2>3. QED
    BY <2>1, <2>2
<1>4. ASSUME SeenBacked(rzSeen, rzNow, rzConfirmed) PROVE SeenBacked(rzSeen, rzNow, rzConfirmed')
  BY <1>1, <1>2, <1>4, RzAssumption DEF SeenBacked, RzInv, RzClock
<1>5. QED
  BY <1>3, <1>4

\* A copy just confirmed is backed.
LEMMA JustConfirmed ==
  ASSUME RzInv, NEW c \in RzCopies, c.genuine, NEW confirmed, confirmed[c.serial] = rzNow
  PROVE  Backed([copy |-> c, checked |-> rzNow], confirmed)
<1> DEFINE z == [copy |-> c, checked |-> rzNow]
<1>1. z \in [copy : RzCopies, checked : Nat] /\ z.copy = c /\ z.checked = rzNow
  BY DEF RzInv, RzClock
<1> HIDE DEF z
<1>2. z.checked <= confirmed[z.copy.serial]
  BY <1>1 DEF RzInv, RzClock
<1>3. Backed(z, confirmed)
  BY <1>1, <1>2 DEF Backed
<1>4. QED
  BY <1>3 DEF z

\* The first states.
LEMMA RzInitInv == RzInit => RzInv
<1> SUFFICES ASSUME RzInit PROVE RzInv
  OBVIOUS
<1>1. Len(RzSources) \in Nat /\ Len(RzSources) >= 1
  BY RzAssumption
<1>2. RzTasked
  BY <1>1 DEF RzInit, RzTasked, Resting
<1>3. RzClock
  BY DEF RzInit, RzClock, Unasked
<1>4. rzHas \in [ToSet(RzSources) -> RzCopies]
  BY DEF RzInit
<1>5. /\ Backed(rzZone, rzConfirmed) /\ Backed(rzFile, rzConfirmed) /\ Backed(rzTask.zone, rzConfirmed)
      /\ SeenBacked(rzSeen, rzNow, rzConfirmed)
  BY DEF RzInit, Backed, SeenBacked, Unasked, Resting
<1>6. QED
  BY <1>2, <1>3, <1>4, <1>5 DEF RzInv

\* Steps after which no source has spoken and the clock is where it was.
LEMMA QuietStep ==
  ASSUME RzInv, UNCHANGED <<rzNow, rzConfirmed>>, rzHas' \in [ToSet(RzSources) -> RzCopies], RzTasked',
         Backed(rzZone', rzConfirmed), Backed(rzFile', rzConfirmed), Backed(rzTask'.zone, rzConfirmed),
         rzSeen'.at \in Nat, rzSeen'.at <= rzNow, SeenBacked(rzSeen', rzNow, rzConfirmed)
  PROVE  RzInv'
BY DEF RzInv, RzClock

\* A refresh begins, with the copy of the file if there is none in memory and it is good.
LEMMA BeginKeeps == RzInv /\ RzBegin => RzInv'
<1> SUFFICES ASSUME RzInv, RzBegin PROVE RzInv'
  OBVIOUS
<1>1. Backed(Loaded, rzConfirmed)
  BY DEF Loaded, RzInv
<1>2. rzZone' = Loaded /\ rzTask' = [stage |-> "ask", source |-> 1, zone |-> rzZone']
  BY DEF RzBegin
<1>3. UNCHANGED <<rzNow, rzHas, rzFile, rzSeen, rzConfirmed>>
  BY DEF RzBegin
<1>4. Len(RzSources) \in Nat /\ Len(RzSources) >= 1
  BY RzAssumption
<1>5. RzTasked'
  BY <1>2, <1>4 DEF RzTasked
<1>6. rzTask'.zone = Loaded
  BY <1>2
<1>7. QED
  BY <1>1, <1>2, <1>3, <1>5, <1>6, QuietStep DEF RzInv, RzClock

\* A source is asked for its serial.
LEMMA AskSoaKeeps ==
  ASSUME NEW written \in BOOLEAN, RzInv, RzAskSoa(written)
  PROVE  RzInv'
<1> DEFINE has == rzHas[RzSources[rzTask.source]]
           zone == [rzTask.zone EXCEPT !.checked = rzNow]
<1>1. UNCHANGED <<rzNow, rzHas, rzSeen>> /\ rzTask.zone # None
  BY DEF RzAskSoa
<1>2. CASE has.serial <= rzTask.zone.copy.serial
           /\ rzZone' = (IF rzZone = None THEN None ELSE zone)
           /\ WriteCache(zone, written) /\ Confirm(rzTask.zone.copy.serial) /\ rzTask' = Resting
  <2>1. /\ rzTask.zone \in [copy : RzCopies, checked : Nat] /\ rzTask.zone.copy \in RzCopies
        /\ rzTask.zone.copy.genuine
    BY <1>1 DEF RzInv, Backed
  <2>2. zone = [copy |-> rzTask.zone.copy, checked |-> rzNow]
    BY <2>1
  <2>3. rzTask.zone.copy.serial \in Serials
    BY <2>1 DEF Serials
  <2>4. /\ rzConfirmed' \in [Serials -> Nat] /\ \A t \in Serials : rzConfirmed'[t] <= rzNow
        /\ rzConfirmed'[rzTask.zone.copy.serial] = rzNow
        /\ \A t \in Serials : rzConfirmed[t] <= rzConfirmed'[t]
    BY <1>1, <1>2, <2>3, ConfirmKeeps
  <2>5. Backed(zone, rzConfirmed')
    <3> HIDE DEF zone
    <3>1. QED
      BY <2>1, <2>2, <2>4, JustConfirmed
  <2>6. \A z : Backed(z, rzConfirmed) => Backed(z, rzConfirmed')
    BY <2>4, BackedStays
  <2>7. SeenBacked(rzSeen, rzNow, rzConfirmed')
    BY <2>4, BackedStays DEF RzInv
  <2>8. Backed(None, rzConfirmed')
    BY DEF Backed
  <2> HIDE DEF zone, has
  <2>9. rzZone' \in {None, zone} /\ rzFile' \in {zone, rzFile} /\ rzTask'.zone = None
    BY <1>2 DEF WriteCache, Resting
  <2>10. Backed(rzZone', rzConfirmed') /\ Backed(rzFile', rzConfirmed') /\ Backed(rzTask'.zone, rzConfirmed')
    BY <2>5, <2>6, <2>8, <2>9 DEF RzInv
  <2>11. RzTasked'
    BY <1>2, RzAssumption DEF RzTasked, Resting
  <2>12. RzClock'
    BY <1>1, <2>4 DEF RzClock, RzInv
  <2>13. QED
    BY <1>1, <2>7, <2>10, <2>11, <2>12 DEF RzInv
<1>3. CASE rzTask' = [rzTask EXCEPT !.stage = "transfer"] /\ UNCHANGED <<rzZone, rzFile, rzConfirmed>>
  <2>1. RzTasked' /\ rzTask'.zone = rzTask.zone
    BY <1>3 DEF RzTasked, RzInv
  <2>2. QED
    BY <1>1, <1>3, <2>1, QuietStep DEF RzInv, RzClock
<1>4. QED
  BY <1>2, <1>3 DEF RzAskSoa

\* Nothing to ask about: the zone is transferred.
LEMMA AskNothingKeeps == RzInv /\ RzAskNothing => RzInv'
<1> SUFFICES ASSUME RzInv, RzAskNothing PROVE RzInv'
  OBVIOUS
<1>1. RzTasked' /\ rzTask'.zone = rzTask.zone
  BY DEF RzAskNothing, RzTasked, RzInv
<1>2. UNCHANGED <<rzNow, rzHas, rzZone, rzFile, rzSeen, rzConfirmed>>
  BY DEF RzAskNothing
<1>3. QED
  BY <1>1, <1>2, QuietStep DEF RzInv, RzClock

\* The next source is tried.
LEMMA UnreachableKeeps ==
  ASSUME RzInv, rzTask' = NextSource, UNCHANGED <<rzNow, rzHas, rzZone, rzFile, rzSeen, rzConfirmed>>
  PROVE  RzInv'
<1>1. RzTasked' /\ Backed(rzTask'.zone, rzConfirmed)
  BY NextSourceListed DEF RzTasked
<1>2. QED
  BY <1>1, QuietStep DEF RzInv, RzClock

\* A zone arrives.
LEMMA TransferKeeps ==
  ASSUME NEW written \in BOOLEAN, RzInv, RzTransfer(written)
  PROVE  RzInv'
<1> DEFINE has == rzHas[RzSources[rzTask.source]]
           zone == [copy |-> has, checked |-> rzNow]
<1>1. UNCHANGED <<rzNow, rzHas, rzSeen>>
  BY DEF RzTransfer
<1>2. CASE VerifyZone(has) /\ WriteCache(zone, written) /\ rzZone' = zone /\ Confirm(has.serial) /\ rzTask' = Resting
  <2>1. has \in RzCopies
    BY SourceHolds
  <2>2. has.genuine
    BY <1>2, <2>1, VerifiedGenuine
  <2>3. has.serial \in Serials
    BY <2>1 DEF Serials
  <2> HIDE DEF has
  <2>4. /\ rzConfirmed' \in [Serials -> Nat] /\ \A t \in Serials : rzConfirmed'[t] <= rzNow
        /\ rzConfirmed'[has.serial] = rzNow
        /\ \A t \in Serials : rzConfirmed[t] <= rzConfirmed'[t]
    BY <1>1, <1>2, <2>3, ConfirmKeeps
  <2>5. Backed(zone, rzConfirmed')
    BY <2>1, <2>2, <2>4, JustConfirmed
  <2>6. \A z : Backed(z, rzConfirmed) => Backed(z, rzConfirmed')
    BY <2>4, BackedStays
  <2>7. SeenBacked(rzSeen, rzNow, rzConfirmed')
    BY <2>4, BackedStays DEF RzInv
  <2>8. Backed(None, rzConfirmed')
    BY DEF Backed
  <2> HIDE DEF zone
  <2>9. rzZone' = zone /\ rzFile' \in {zone, rzFile} /\ rzTask'.zone = None
    BY <1>2 DEF WriteCache, Resting
  <2>10. Backed(rzZone', rzConfirmed') /\ Backed(rzFile', rzConfirmed') /\ Backed(rzTask'.zone, rzConfirmed')
    BY <2>5, <2>6, <2>8, <2>9 DEF RzInv
  <2>11. RzTasked'
    BY <1>2, RzAssumption DEF RzTasked, Resting
  <2>12. RzClock'
    BY <1>1, <2>4 DEF RzClock, RzInv
  <2>13. QED
    BY <1>1, <2>7, <2>10, <2>11, <2>12 DEF RzInv
<1>3. CASE rzTask' = NextSource /\ UNCHANGED <<rzZone, rzFile, rzConfirmed>>
  BY <1>1, <1>3, UnreachableKeeps
<1>4. QED
  BY <1>2, <1>3 DEF RzTransfer

\* The switch, a restart, a source that publishes another copy, and the resolver's look.
LEMMA OthersKeep ==
  ASSUME RzInv,
         RzSwitch \/ RzRestart \/ RzLook \/ \E s \in DOMAIN rzHas, copy \in RzCopies : RzPublish(s, copy)
  PROVE  RzInv'
<1>0. Backed(None, rzConfirmed)
  BY DEF Backed
<1>1. CASE RzSwitch
  <2>1. rzZone' \in {rzZone, None} /\ rzFile' \in {rzFile, None}
    BY <1>1 DEF RzSwitch
  <2>2. UNCHANGED <<rzNow, rzHas, rzTask, rzSeen, rzConfirmed>>
    BY <1>1 DEF RzSwitch
  <2>3. Backed(rzZone', rzConfirmed) /\ Backed(rzFile', rzConfirmed)
    BY <1>0, <2>1 DEF RzInv
  <2>4. QED
    BY <2>2, <2>3, QuietStep DEF RzInv, RzClock, RzTasked
<1>2. CASE RzRestart
  <2>1. rzZone' = None /\ rzTask' = Resting /\ rzTask'.zone = None
    BY <1>2 DEF RzRestart, Resting
  <2>2. UNCHANGED <<rzNow, rzHas, rzFile, rzSeen, rzConfirmed>>
    BY <1>2 DEF RzRestart
  <2>3. RzTasked'
    BY <2>1, RzAssumption DEF RzTasked, Resting
  <2>4. Backed(rzZone', rzConfirmed) /\ Backed(rzTask'.zone, rzConfirmed)
    BY <1>0, <2>1
  <2>5. QED
    BY <2>2, <2>3, <2>4, QuietStep DEF RzInv, RzClock
<1>3. CASE RzLook
  BY <1>3, QuietStep DEF RzLook, RzInv, RzClock, RzTasked
<1>4. CASE \E s \in DOMAIN rzHas, copy \in RzCopies : RzPublish(s, copy)
  <2>1. rzHas' \in [ToSet(RzSources) -> RzCopies]
    BY <1>4 DEF RzPublish, RzInv
  <2>2. UNCHANGED <<rzNow, rzZone, rzFile, rzTask, rzSeen, rzConfirmed>>
    BY <1>4 DEF RzPublish
  <2>3. QED
    BY <2>1, <2>2, QuietStep DEF RzInv, RzClock, RzTasked
<1>5. QED
  BY <1>1, <1>2, <1>3, <1>4

\* A query is answered from the copy in memory, if that is current now.
LEMMA QueryKeeps ==
  ASSUME NEW q \in RzQuestions, RzInv, RzQuery(q)
  PROVE  RzInv'
<1>1. UNCHANGED <<rzNow, rzHas, rzZone, rzFile, rzTask, rzConfirmed>>
  BY DEF RzQuery
<1>2. rzSeen'.at = rzNow
  BY DEF RzQuery
<1>3. SeenBacked(rzSeen', rzNow, rzConfirmed)
  <2>1. CASE CurrentZone = None
    <3>1. rzSeen'.kind = "servfail"
      BY <2>1 DEF RzQuery
    <3>2. QED
      BY <3>1 DEF SeenBacked
  <2>2. CASE CurrentZone # None
    <3>1. CurrentZone = rzZone /\ rzZone # None /\ rzNow < rzZone.checked + RzExpire
      BY <2>2 DEF CurrentZone, Current
    <3>2. rzSeen'.copy = rzZone.copy
      BY <2>2, <3>1 DEF RzQuery
    <3>3. /\ rzZone \in [copy : RzCopies, checked : Nat] /\ rzZone.copy.genuine
          /\ rzZone.checked <= rzConfirmed[rzZone.copy.serial]
      BY <3>1 DEF RzInv, Backed
    <3>4. rzZone.copy \in RzCopies /\ rzZone.checked \in Nat /\ rzZone.copy.serial \in Serials
      BY <3>3 DEF Serials
    <3>5. rzConfirmed[rzZone.copy.serial] \in Nat /\ rzNow \in Nat /\ RzExpire \in Nat
      BY <3>4, RzAssumption DEF RzInv, RzClock
    <3>6. rzNow < rzConfirmed[rzZone.copy.serial] + RzExpire
      BY <3>1, <3>3, <3>4, <3>5
    <3>7. QED
      BY <3>2, <3>3, <3>4, <3>6 DEF SeenBacked
  <2>3. QED
    BY <2>1, <2>2
<1>4. QED
  BY <1>1, <1>2, <1>3, QuietStep DEF RzInv, RzClock, RzTasked

\* Time passes: an answer given before is no longer one given now.
LEMMA RzTickKeeps == RzInv /\ RzTick => RzInv'
<1> SUFFICES ASSUME RzInv, RzTick PROVE RzInv'
  OBVIOUS
<1>1. rzNow' = rzNow + 1 /\ UNCHANGED <<rzHas, rzZone, rzFile, rzTask, rzSeen, rzConfirmed>>
  BY DEF RzTick
<1>2. RzClock'
  BY <1>1 DEF RzInv, RzClock
<1>3. rzSeen.at # rzNow'
  BY <1>1 DEF RzInv, RzClock
<1>4. SeenBacked(rzSeen, rzNow', rzConfirmed)
  BY <1>3 DEF RzInv, SeenBacked
<1>5. QED
  BY <1>1, <1>2, <1>4 DEF RzInv, RzTasked

\* Every step keeps the invariant.
LEMMA RzStep == RzInv /\ [RzNext]_rzVars => RzInv'
<1> SUFFICES ASSUME RzInv, [RzNext]_rzVars PROVE RzInv'
  OBVIOUS
<1>1. CASE RzBegin
  BY <1>1, BeginKeeps
<1>2. CASE RzAskNothing
  BY <1>2, AskNothingKeeps
<1>3. CASE RzUnreachable
  BY <1>3, UnreachableKeeps DEF RzUnreachable
<1>4. CASE \E written \in BOOLEAN : RzAskSoa(written) \/ RzTransfer(written)
  BY <1>4, AskSoaKeeps, TransferKeeps
<1>5. CASE RzSwitch \/ RzRestart \/ RzLook \/ \E s \in DOMAIN rzHas, copy \in RzCopies : RzPublish(s, copy)
  BY <1>5, OthersKeep
<1>6. CASE RzTick
  BY <1>6, RzTickKeeps
<1>7. CASE \E q \in RzQuestions : RzQuery(q)
  BY <1>7, QueryKeeps
<1>8. CASE UNCHANGED rzVars
  BY <1>8, QuietStep DEF rzVars, RzInv, RzClock, RzTasked
<1>9. QED
  BY <1>1, <1>2, <1>3, <1>4, <1>5, <1>6, <1>7, <1>8 DEF RzNext

\* Whatever the sources hand out, however they lag or lie, and wherever a restart or the
\* switch falls into a refresh, the resolver is answered only from a zone the publisher
\* signed that some source stood by less than SOA expire ago: for any set of copies and
\* any list of sources.
THEOREM AnswersFromProvenRootCorrect == RzSpec => []AnswersFromProvenRoot
<1>1. RzSpec => []RzInv
  BY RzInitInv, RzStep, PTL DEF RzSpec
<1>2. RzInv => AnswersFromProvenRoot
  BY DEF RzInv, SeenBacked, AnswersFromProvenRoot
<1>3. QED
  BY <1>1, <1>2, PTL
----------------------------------------------------------------------------
(* Certificates *)

AcPcs == {"none", "spawned", "read", "account", "prove", "finish", "clean", "install", "release", "recording"}
AcAllDomains == UNION {AcDomains[n] : n \in AcCerts}
AcTask == [pc : AcPcs, name : AcCerts \cup {""}, todo : SUBSET AcAllDomains, placed : SUBSET AcAllDomains,
           told : BOOLEAN, ok : BOOLEAN]

\* A task that holds the mark of its certificate.
Marked(k) == k.pc \notin {"none", "spawned", "recording"}

\* A task has its answers placed while it proves control and until it has cleaned up; the
\* CA is told only when no answer is still to come.
Orderly(k) ==
  /\ k.pc # "none" => k.name \in AcCerts
  /\ k.told => k.pc \in {"finish", "clean"} /\ k.todo = {}
  /\ k.placed # {} => k.pc \in {"prove", "finish", "clean"}

\* Every answer a task has placed is there, and every answer is some task's or is left over.
Placed(f, answers) == \A t \in AcTasks : \A d \in f[t].placed : <<t, d>> \in answers
Accounted(f, answers, left) ==
  \A a \in answers : a \in left \/ \E t \in AcTasks : \E d \in f[t].placed : a = <<t, d>>

\* One task per certificate holds the mark.
Alone(f, issuing) ==
  \A t \in AcTasks : Marked(f[t]) =>
    /\ f[t].name \in issuing
    /\ \A u \in AcTasks : Marked(f[u]) /\ f[u].name = f[t].name => u = t

AcInv ==
  /\ acUsed \in Nat
  /\ acTasks \in [AcTasks -> AcTask]
  /\ \A t \in AcTasks : Orderly(acTasks[t]) /\ (t > acUsed => acTasks[t] = AcNoTask)
  /\ Placed(acTasks, acAnswers)
  /\ Accounted(acTasks, acAnswers, acLeft)
  /\ Alone(acTasks, acIssuing)

\* A slot that is empty holds nothing.
LEMMA EmptySlot ==
  /\ AcNoTask \in AcTask /\ Orderly(AcNoTask) /\ AcNoTask.placed = {} /\ ~Marked(AcNoTask)
  /\ AcNoTask.pc = "none"
BY DEF AcNoTask, AcTask, AcPcs, Orderly, Marked

\* A step of one task that leaves the answers alone and neither takes nor gives the mark.
LEMMA TaskGoesOn ==
  ASSUME AcInv, NEW t \in AcTasks, NEW k \in AcTask, Orderly(k),
         acTasks' = [acTasks EXCEPT ![t] = k], acTasks[t].pc # "none" /\ acUsed' = acUsed,
         k.placed = acTasks[t].placed,
         Marked(k) => Marked(acTasks[t]) /\ k.name = acTasks[t].name,
         UNCHANGED <<acAnswers, acLeft, acIssuing>>
  PROVE  AcInv'
<1>1. t <= acUsed
  BY EmptySlot DEF AcInv, AcTasks
<1>2. acTasks' \in [AcTasks -> AcTask] /\ acTasks'[t] = k /\ \A u \in AcTasks \ {t} : acTasks'[u] = acTasks[u]
  BY DEF AcInv
<1>3. \A u \in AcTasks : Orderly(acTasks'[u]) /\ (u > acUsed' => acTasks'[u] = AcNoTask)
  BY <1>1, <1>2 DEF AcInv, AcTasks
<1>4. \A u \in AcTasks : acTasks'[u].placed = acTasks[u].placed
  BY <1>2
<1>5. Placed(acTasks', acAnswers') /\ Accounted(acTasks', acAnswers', acLeft')
  BY <1>4 DEF AcInv, Placed, Accounted
<1>6. \A u \in AcTasks : Marked(acTasks'[u]) => Marked(acTasks[u]) /\ acTasks'[u].name = acTasks[u].name
  BY <1>2
<1>7. Alone(acTasks', acIssuing')
  BY <1>6 DEF AcInv, Alone
<1>8. QED
  BY <1>2, <1>3, <1>5, <1>7 DEF AcInv

\* A task is started in a slot never used before.
LEMMA SpawnKeeps ==
  ASSUME AcInv, NEW n \in AcCerts, AcSpawn(n), UNCHANGED <<acAnswers, acLeft, acIssuing>>
  PROVE  AcInv'
<1> DEFINE s == acUsed + 1
           k == [AcNoTask EXCEPT !.pc = "spawned", !.name = n]
<1>1. s \in AcTasks /\ acUsed' = s /\ acTasks' = [acTasks EXCEPT ![s] = k]
  BY AcAssumption DEF AcSpawn, AcTasks, AcInv
<1>2. k \in AcTask /\ Orderly(k) /\ k.placed = {} /\ ~Marked(k)
  BY DEF AcNoTask, AcTask, AcPcs, Orderly, Marked
<1>3. acTasks[s] = AcNoTask
  BY <1>1 DEF AcInv
<1> HIDE DEF k
<1>4. /\ acTasks' \in [AcTasks -> AcTask] /\ acTasks'[s] = k
      /\ \A u \in AcTasks : u # s => acTasks'[u] = acTasks[u]
  BY <1>1, <1>2 DEF AcInv
<1>5. acUsed' \in Nat /\ \A u \in AcTasks : u > acUsed' => u # s /\ u > acUsed
  BY <1>1 DEF AcInv, AcTasks
<1>6. \A u \in AcTasks : u > acUsed' => acTasks'[u] = AcNoTask
  BY <1>4, <1>5 DEF AcInv
<1>7. \A u \in AcTasks : Orderly(acTasks'[u])
  BY <1>2, <1>4 DEF AcInv
<1>8. \A u \in AcTasks : acTasks'[u].placed = acTasks[u].placed
  BY <1>2, <1>3, <1>4, EmptySlot
<1>9. Placed(acTasks', acAnswers') /\ Accounted(acTasks', acAnswers', acLeft')
  BY <1>8 DEF AcInv, Placed, Accounted
<1>10. \A u \in AcTasks : Marked(acTasks'[u]) => Marked(acTasks[u]) /\ acTasks'[u].name = acTasks[u].name
  BY <1>2, <1>4
<1>11. Alone(acTasks', acIssuing')
  BY <1>10 DEF AcInv, Alone
<1>12. QED
  BY <1>4, <1>5, <1>6, <1>7, <1>9, <1>11 DEF AcInv

\* A task that has returned, having placed nothing that is still there.
LEMMA ReturnKeeps ==
  ASSUME AcInv, NEW t \in AcTasks, acTasks[t].pc \in {"spawned", "recording"}, AcReturn(t),
         UNCHANGED <<acAnswers, acLeft, acIssuing, acUsed>>
  PROVE  AcInv'
<1>1. acTasks' = [acTasks EXCEPT ![t] = AcNoTask]
  BY DEF AcReturn
<1>2. acTasks[t].placed = {}
  BY DEF AcInv, Orderly
<1>3. QED
  BY <1>1, <1>2, EmptySlot, TaskGoesOn

\* The steps that only move a task on: what it becomes.
LEMMA MovesOn ==
  ASSUME AcInv, NEW t \in AcTasks, NEW k \in AcTask, Orderly(k), acTasks[t].pc # "none",
         k.placed = acTasks[t].placed, k.name = acTasks[t].name, Marked(k) => Marked(acTasks[t]),
         acTasks' = [acTasks EXCEPT ![t] = k],
         UNCHANGED <<acAnswers, acLeft, acIssuing, acUsed>>
  PROVE  AcInv'
BY TaskGoesOn

\* issue: the mark is taken, or the task is refused.
LEMMA IssueKeeps ==
  ASSUME AcInv, NEW t \in AcTasks, AcIssue(t)
  PROVE  AcInv'
<1> DEFINE n == acTasks[t].name
<1>1. acTasks[t].pc = "spawned" /\ UNCHANGED <<acAnswers, acLeft, acUsed>>
  BY DEF AcIssue, acPlaced
<1>2. CASE n \in acIssuing
  BY <1>1, <1>2, ReturnKeeps DEF AcIssue
<1>3. CASE n \notin acIssuing
  <2> DEFINE k == [acTasks[t] EXCEPT !.pc = "read"]
  <2>1. acIssuing' = acIssuing \cup {n} /\ acTasks' = [acTasks EXCEPT ![t] = k]
    BY <1>3 DEF AcIssue, AcTo
  <2>2. acTasks[t] \in AcTask
    BY DEF AcInv
  <2>3. k \in AcTask /\ Orderly(k) /\ k.placed = acTasks[t].placed /\ k.name = n
    BY <1>1, <2>2 DEF AcTask, AcPcs, AcInv, Orderly
  <2>4. ~Marked(acTasks[t])
    BY <1>1 DEF Marked
  <2> HIDE DEF k
  <2>5. /\ acTasks' \in [AcTasks -> AcTask] /\ acTasks'[t] = k
        /\ \A u \in AcTasks \ {t} : acTasks'[u] = acTasks[u]
    BY <2>1, <2>3 DEF AcInv
  <2>6. t <= acUsed
    BY <1>1, EmptySlot DEF AcInv, AcTasks
  <2>7. \A u \in AcTasks : Orderly(acTasks'[u]) /\ (u > acUsed' => acTasks'[u] = AcNoTask)
    BY <1>1, <2>3, <2>5, <2>6 DEF AcInv, AcTasks
  <2>8. \A u \in AcTasks : acTasks'[u].placed = acTasks[u].placed
    BY <2>3, <2>5
  <2>9. Placed(acTasks', acAnswers') /\ Accounted(acTasks', acAnswers', acLeft')
    BY <1>1, <2>8 DEF AcInv, Placed, Accounted
  <2>10. \A u \in AcTasks \ {t} : Marked(acTasks'[u]) => acTasks'[u].name \in acIssuing
    BY <2>5 DEF AcInv, Alone
  <2>11. Alone(acTasks', acIssuing')
    BY <1>3, <2>1, <2>3, <2>5, <2>10 DEF AcInv, Alone
  <2>12. QED
    BY <1>1, <2>5, <2>7, <2>9, <2>11 DEF AcInv
<1>4. QED
  BY <1>2, <1>3

\* The row and the terms are read, the account and the order are made.
LEMMA OpenKeeps ==
  ASSUME AcInv, NEW t \in AcTasks, AcOpen(t)
  PROVE  AcInv'
<1> DEFINE pc == IF acRows[acTasks[t].name] = "none" \/ ~acTerms THEN "release" ELSE "account"
           k == [acTasks[t] EXCEPT !.pc = pc]
<1>1. acTasks' = [acTasks EXCEPT ![t] = k] /\ acTasks[t].pc = "read" /\ UNCHANGED <<acAnswers, acLeft, acIssuing, acUsed>>
  BY DEF AcOpen, AcTo, acPlaced, acStart
<1>2. acTasks[t] \in AcTask /\ Orderly(acTasks[t])
  BY DEF AcInv
<1>3. pc \in {"release", "account"}
  OBVIOUS
<1> HIDE DEF pc
<1>4. k \in AcTask /\ Orderly(k) /\ k.placed = acTasks[t].placed /\ k.name = acTasks[t].name /\ Marked(acTasks[t])
  BY <1>1, <1>2, <1>3 DEF AcTask, AcPcs, Orderly, Marked
<1> HIDE DEF k
<1>5. QED
  BY <1>1, <1>4, MovesOn

\* The ACME account is got, or the run ends before it placed anything.
LEMMA GetAccountKeeps ==
  ASSUME AcInv, NEW t \in AcTasks, AcGetAccount(t)
  PROVE  AcInv'
<1>1. acTasks[t].pc = "account" /\ UNCHANGED <<acAnswers, acLeft, acIssuing, acUsed>>
  BY DEF AcGetAccount, acPlaced, acStart
<1>2. acTasks[t] \in AcTask /\ Orderly(acTasks[t]) /\ acTasks \in [AcTasks -> AcTask]
  BY DEF AcInv
<1>3. AcDomains[acTasks[t].name] \subseteq AcAllDomains
  BY <1>1, <1>2 DEF Orderly, AcAllDomains
<1>4. CASE acTasks' = [acTasks EXCEPT ![t].pc = "prove", ![t].todo = AcDomains[acTasks[t].name]]
  <2> DEFINE k == [acTasks[t] EXCEPT !.pc = "prove", !.todo = AcDomains[acTasks[t].name]]
  <2>1. acTasks' = [acTasks EXCEPT ![t] = k]
    BY <1>2, <1>4
  <2>2. k \in AcTask /\ Orderly(k) /\ k.placed = acTasks[t].placed /\ k.name = acTasks[t].name /\ Marked(acTasks[t])
    BY <1>1, <1>2, <1>3 DEF AcTask, AcPcs, Orderly, Marked
  <2> HIDE DEF k
  <2>3. QED
    BY <1>1, <2>1, <2>2, MovesOn
<1>5. CASE AcTo(t, "release")
  <2> DEFINE k == [acTasks[t] EXCEPT !.pc = "release"]
  <2>1. acTasks' = [acTasks EXCEPT ![t] = k]
    BY <1>5 DEF AcTo
  <2>2. k \in AcTask /\ Orderly(k) /\ k.placed = acTasks[t].placed /\ k.name = acTasks[t].name /\ Marked(acTasks[t])
    BY <1>1, <1>2 DEF AcTask, AcPcs, Orderly, Marked
  <2> HIDE DEF k
  <2>3. QED
    BY <1>1, <2>1, <2>2, MovesOn
<1>6. QED
  BY <1>4, <1>5 DEF AcGetAccount

\* The CA is told, or asked for the certificate.
LEMMA TellKeeps ==
  ASSUME AcInv, NEW t \in AcTasks, AcTell(t)
  PROVE  AcInv'
<1>1. acTasks[t].pc = "prove" /\ acTasks[t].todo = {} /\ UNCHANGED <<acAnswers, acLeft, acIssuing, acUsed>>
  BY DEF AcTell, acPlaced, acStart
<1>2. acTasks[t] \in AcTask /\ Orderly(acTasks[t]) /\ acTasks \in [AcTasks -> AcTask]
  BY DEF AcInv
<1>3. PICK pc \in {"finish", "clean"} : acTasks' = [acTasks EXCEPT ![t].pc = pc, ![t].told = TRUE]
  BY DEF AcTell
<1> DEFINE k == [acTasks[t] EXCEPT !.pc = pc, !.told = TRUE]
<1>4. acTasks' = [acTasks EXCEPT ![t] = k]
  BY <1>2, <1>3
<1>5. k \in AcTask /\ Orderly(k) /\ k.placed = acTasks[t].placed /\ k.name = acTasks[t].name /\ Marked(acTasks[t])
  BY <1>1, <1>2 DEF AcTask, AcPcs, Orderly, Marked
<1> HIDE DEF k
<1>6. QED
  BY <1>1, <1>4, <1>5, MovesOn

\* The order is finalized or fails; what was placed is still to be taken away.
LEMMA FinishKeeps ==
  ASSUME AcInv, NEW t \in AcTasks, AcFinish(t)
  PROVE  AcInv'
<1>1. acTasks[t].pc = "finish" /\ UNCHANGED <<acAnswers, acLeft, acIssuing, acUsed>>
  BY DEF AcFinish, acPlaced, acStart
<1>2. acTasks[t] \in AcTask /\ Orderly(acTasks[t]) /\ acTasks \in [AcTasks -> AcTask]
  BY DEF AcInv
<1>3. PICK ok \in BOOLEAN : acTasks' = [acTasks EXCEPT ![t].pc = "clean", ![t].ok = ok]
  BY DEF AcFinish
<1> DEFINE k == [acTasks[t] EXCEPT !.pc = "clean", !.ok = ok]
<1>4. acTasks' = [acTasks EXCEPT ![t] = k]
  BY <1>2, <1>3
<1>5. k \in AcTask /\ Orderly(k) /\ k.placed = acTasks[t].placed /\ k.name = acTasks[t].name /\ Marked(acTasks[t])
  BY <1>1, <1>2 DEF AcTask, AcPcs, Orderly, Marked
<1> HIDE DEF k
<1>6. QED
  BY <1>1, <1>4, <1>5, MovesOn

\* The certificate is stored, or cannot be.
LEMMA InstallKeeps ==
  ASSUME AcInv, NEW t \in AcTasks, AcInstall(t)
  PROVE  AcInv'
<1>1. acTasks[t].pc = "install" /\ UNCHANGED <<acAnswers, acLeft, acIssuing, acUsed>>
  BY DEF AcInstall, acPlaced, acStart
<1>2. acTasks[t] \in AcTask /\ Orderly(acTasks[t]) /\ acTasks \in [AcTasks -> AcTask]
  BY DEF AcInv
<1>3. \/ acTasks' = [acTasks EXCEPT ![t] = [acTasks[t] EXCEPT !.pc = "release"]]
      \/ acTasks' = [acTasks EXCEPT ![t] = [acTasks[t] EXCEPT !.pc = "release", !.ok = FALSE]]
  BY <1>2 DEF AcInstall, AcTo
<1>4. PICK k \in {[acTasks[t] EXCEPT !.pc = "release"], [acTasks[t] EXCEPT !.pc = "release", !.ok = FALSE]} :
        acTasks' = [acTasks EXCEPT ![t] = k]
  BY <1>3
<1>5. k \in AcTask /\ Orderly(k) /\ k.placed = acTasks[t].placed /\ k.name = acTasks[t].name /\ Marked(acTasks[t])
  BY <1>1, <1>2 DEF AcTask, AcPcs, Orderly, Marked
<1>6. QED
  BY <1>1, <1>4, <1>5, MovesOn

\* An answer goes in, is not needed, or cannot be placed.
LEMMA PlaceKeeps ==
  ASSUME AcInv, NEW t \in AcTasks, NEW d \in acTasks[t].todo, AcPlace(t, d)
  PROVE  AcInv'
<1>1. acTasks[t].pc = "prove" /\ UNCHANGED <<acLeft, acIssuing, acUsed>>
  BY DEF AcPlace, acStart
<1>2. acTasks[t] \in AcTask /\ Orderly(acTasks[t]) /\ acTasks \in [AcTasks -> AcTask] /\ d \in AcAllDomains
  BY DEF AcInv, AcTask
<1>3. CASE /\ acTasks' = [acTasks EXCEPT ![t].todo = @ \ {d}, ![t].placed = @ \cup {d}]
           /\ acAnswers' = acAnswers \cup {<<t, d>>}
  <2> DEFINE k == [acTasks[t] EXCEPT !.todo = @ \ {d}, !.placed = @ \cup {d}]
  <2>1. acTasks' = [acTasks EXCEPT ![t] = k]
    BY <1>2, <1>3
  <2>2. k \in AcTask /\ Orderly(k) /\ k.placed = acTasks[t].placed \cup {d} /\ k.name = acTasks[t].name /\ Marked(acTasks[t])
    BY <1>1, <1>2 DEF AcTask, AcPcs, Orderly, Marked
  <2> HIDE DEF k
  <2>3. /\ acTasks' \in [AcTasks -> AcTask] /\ acTasks'[t] = k
        /\ \A u \in AcTasks \ {t} : acTasks'[u] = acTasks[u]
    BY <1>2, <2>1, <2>2
  <2>4. t <= acUsed
    BY <1>1, EmptySlot DEF AcInv, AcTasks
  <2>5. \A u \in AcTasks : Orderly(acTasks'[u]) /\ (u > acUsed' => acTasks'[u] = AcNoTask)
    BY <1>1, <2>2, <2>3, <2>4 DEF AcInv, AcTasks
  <2>6. Placed(acTasks', acAnswers')
    BY <1>3, <2>2, <2>3 DEF AcInv, Placed
  <2>7. \A u \in AcTasks : acTasks[u].placed \subseteq acTasks'[u].placed
    BY <2>2, <2>3
  <2>8. ASSUME NEW a \in acAnswers' PROVE a \in acLeft' \/ \E u \in AcTasks : \E e \in acTasks'[u].placed : a = <<u, e>>
    <3>1. CASE a = <<t, d>>
      BY <2>2, <2>3, <3>1
    <3>2. CASE a \in acAnswers
      BY <1>1, <2>7, <3>2 DEF AcInv, Accounted
    <3>3. QED
      BY <1>3, <3>1, <3>2
  <2>9. Accounted(acTasks', acAnswers', acLeft')
    BY <2>8 DEF Accounted
  <2>10. \A u \in AcTasks : Marked(acTasks'[u]) => Marked(acTasks[u]) /\ acTasks'[u].name = acTasks[u].name
    BY <2>2, <2>3
  <2>11. Alone(acTasks', acIssuing')
    BY <1>1, <2>10 DEF AcInv, Alone
  <2>12. QED
    BY <1>1, <2>3, <2>5, <2>6, <2>9, <2>11 DEF AcInv
<1>4. CASE acTasks' = [acTasks EXCEPT ![t].todo = @ \ {d}] /\ UNCHANGED acAnswers
  <2> DEFINE k == [acTasks[t] EXCEPT !.todo = @ \ {d}]
  <2>1. acTasks' = [acTasks EXCEPT ![t] = k]
    BY <1>2, <1>4
  <2>2. k \in AcTask /\ Orderly(k) /\ k.placed = acTasks[t].placed /\ k.name = acTasks[t].name /\ Marked(acTasks[t])
    BY <1>1, <1>2 DEF AcTask, AcPcs, Orderly, Marked
  <2> HIDE DEF k
  <2>3. QED
    BY <1>1, <1>4, <2>1, <2>2, MovesOn
<1>5. CASE AcTo(t, "clean") /\ UNCHANGED acAnswers
  <2> DEFINE k == [acTasks[t] EXCEPT !.pc = "clean"]
  <2>1. acTasks' = [acTasks EXCEPT ![t] = k]
    BY <1>5 DEF AcTo
  <2>2. k \in AcTask /\ Orderly(k) /\ k.placed = acTasks[t].placed /\ k.name = acTasks[t].name /\ Marked(acTasks[t])
    BY <1>1, <1>2 DEF AcTask, AcPcs, Orderly, Marked
  <2> HIDE DEF k
  <2>3. QED
    BY <1>1, <1>5, <2>1, <2>2, MovesOn
<1>6. QED
  BY <1>3, <1>4, <1>5 DEF AcPlace

\* An answer is there that nobody knows of.
LEMMA PlaceUnknownKeeps ==
  ASSUME AcInv, NEW t \in AcTasks, NEW d \in acTasks[t].todo, AcPlaceUnknown(t, d)
  PROVE  AcInv'
<1> DEFINE k == [acTasks[t] EXCEPT !.pc = "clean"]
<1>1. /\ acTasks[t].pc = "prove" /\ UNCHANGED <<acIssuing, acUsed>> /\ acTasks' = [acTasks EXCEPT ![t] = k]
      /\ acAnswers' = acAnswers \cup {<<t, d>>} /\ acLeft' = acLeft \cup {<<t, d>>}
  BY DEF AcPlaceUnknown, AcTo, acStart
<1>2. acTasks[t] \in AcTask /\ Orderly(acTasks[t]) /\ acTasks \in [AcTasks -> AcTask]
  BY DEF AcInv
<1>3. k \in AcTask /\ Orderly(k) /\ k.placed = acTasks[t].placed /\ k.name = acTasks[t].name /\ Marked(acTasks[t])
  BY <1>1, <1>2 DEF AcTask, AcPcs, Orderly, Marked
<1> HIDE DEF k
<1>4. /\ acTasks' \in [AcTasks -> AcTask] /\ acTasks'[t] = k
      /\ \A u \in AcTasks \ {t} : acTasks'[u] = acTasks[u]
  BY <1>1, <1>2, <1>3
<1>5. t <= acUsed
  BY <1>1, EmptySlot DEF AcInv, AcTasks
<1>6. \A u \in AcTasks : Orderly(acTasks'[u]) /\ (u > acUsed' => acTasks'[u] = AcNoTask)
  BY <1>1, <1>3, <1>4, <1>5 DEF AcInv, AcTasks
<1>7. \A u \in AcTasks : acTasks'[u].placed = acTasks[u].placed
  BY <1>3, <1>4
<1>8. Placed(acTasks', acAnswers') /\ Accounted(acTasks', acAnswers', acLeft')
  BY <1>1, <1>7 DEF AcInv, Placed, Accounted
<1>9. \A u \in AcTasks : Marked(acTasks'[u]) => Marked(acTasks[u]) /\ acTasks'[u].name = acTasks[u].name
  BY <1>3, <1>4
<1>10. Alone(acTasks', acIssuing')
  BY <1>1, <1>9 DEF AcInv, Alone
<1>11. QED
  BY <1>1, <1>4, <1>6, <1>8, <1>10 DEF AcInv

\* The answers of a task are taken away, or some of them stay.
LEMMA CleanUpKeeps ==
  ASSUME AcInv, NEW t \in AcTasks, AcCleanUp(t)
  PROVE  AcInv'
<1> DEFINE pc == IF acTasks[t].ok THEN "install" ELSE "release"
           k == [acTasks[t] EXCEPT !.pc = pc, !.placed = {}, !.told = FALSE]
<1>1. acTasks \in [AcTasks -> AcTask] /\ acTasks[t] \in AcTask /\ Orderly(acTasks[t])
  BY DEF AcInv
<1>2. acTasks[t].pc = "clean" /\ UNCHANGED <<acIssuing, acUsed>> /\ acTasks' = [acTasks EXCEPT ![t] = k]
  BY <1>1 DEF AcCleanUp, acStart
<1>3. PICK kept \in SUBSET AcMine(t) :
        acAnswers' = (acAnswers \ AcMine(t)) \cup kept /\ kept \subseteq acLeft' /\ acLeft \subseteq acLeft'
  <2>1. CASE acAnswers' = acAnswers \ AcMine(t) /\ UNCHANGED <<acLeft, acCalm>>
    <3>1. {} \in SUBSET AcMine(t) /\ acAnswers' = (acAnswers \ AcMine(t)) \cup {}
          /\ {} \subseteq acLeft' /\ acLeft \subseteq acLeft'
      BY <2>1
    <3>2. QED
      BY <3>1
  <2>2. CASE \E kept \in SUBSET AcMine(t) \ {{}} :
                 acAnswers' = (acAnswers \ AcMine(t)) \cup kept /\ acLeft' = acLeft \cup kept
    BY <2>2
  <2>3. QED
    BY <2>1, <2>2 DEF AcCleanUp
<1>4. pc \in {"install", "release"}
  OBVIOUS
<1> HIDE DEF pc
<1>5. k \in AcTask /\ Orderly(k) /\ k.placed = {} /\ k.name = acTasks[t].name /\ Marked(acTasks[t])
  BY <1>1, <1>2, <1>4 DEF AcTask, AcPcs, Orderly, Marked
<1> HIDE DEF k
<1>6. /\ acTasks' \in [AcTasks -> AcTask] /\ acTasks'[t] = k
      /\ \A u \in AcTasks \ {t} : acTasks'[u] = acTasks[u]
  BY <1>1, <1>2, <1>5
<1>7. t <= acUsed
  BY <1>2, EmptySlot DEF AcInv, AcTasks
<1>8. \A u \in AcTasks : Orderly(acTasks'[u]) /\ (u > acUsed' => acTasks'[u] = AcNoTask)
  BY <1>2, <1>5, <1>6, <1>7 DEF AcInv, AcTasks
<1>9. \A u \in AcTasks \ {t} : \A d : <<u, d>> \notin AcMine(t)
  BY DEF AcMine
<1>10. Placed(acTasks', acAnswers')
  BY <1>3, <1>5, <1>6, <1>9 DEF AcInv, Placed
<1>11. ASSUME NEW a \in acAnswers' PROVE a \in acLeft' \/ \E u \in AcTasks : \E e \in acTasks'[u].placed : a = <<u, e>>
  <2>1. CASE a \in acLeft'
    BY <2>1
  <2>2. CASE a \notin acLeft'
    <3>1. a \in acAnswers /\ a \notin AcMine(t) /\ a \notin acLeft
      BY <1>3, <1>11, <2>2
    <3>2. PICK u \in AcTasks : \E e \in acTasks[u].placed : a = <<u, e>>
      BY <3>1 DEF AcInv, Accounted
    <3>3. u # t
      BY <3>1, <3>2 DEF AcMine
    <3>4. QED
      BY <1>6, <3>2, <3>3
  <2>3. QED
    BY <2>1, <2>2
<1>12. Accounted(acTasks', acAnswers', acLeft')
  BY <1>11 DEF Accounted
<1>13. \A u \in AcTasks : Marked(acTasks'[u]) => Marked(acTasks[u]) /\ acTasks'[u].name = acTasks[u].name
  BY <1>5, <1>6
<1>14. Alone(acTasks', acIssuing')
  BY <1>2, <1>13 DEF AcInv, Alone
<1>15. QED
  BY <1>2, <1>6, <1>8, <1>10, <1>12, <1>14 DEF AcInv

\* The mark is given back; nobody else had it.
LEMMA ReleaseKeeps ==
  ASSUME AcInv, NEW t \in AcTasks, AcRelease(t)
  PROVE  AcInv'
<1> DEFINE k == [acTasks[t] EXCEPT !.pc = "recording"]
<1>1. /\ acTasks[t].pc = "release" /\ UNCHANGED <<acAnswers, acLeft, acUsed>>
      /\ acTasks' = [acTasks EXCEPT ![t] = k] /\ acIssuing' = acIssuing \ {acTasks[t].name}
  BY DEF AcRelease, AcTo, acPlaced, acStart
<1>2. acTasks[t] \in AcTask /\ Orderly(acTasks[t]) /\ acTasks \in [AcTasks -> AcTask]
  BY DEF AcInv
<1>3. k \in AcTask /\ Orderly(k) /\ k.placed = acTasks[t].placed /\ ~Marked(k) /\ Marked(acTasks[t])
  BY <1>1, <1>2 DEF AcTask, AcPcs, Orderly, Marked
<1> HIDE DEF k
<1>4. /\ acTasks' \in [AcTasks -> AcTask] /\ acTasks'[t] = k
      /\ \A u \in AcTasks \ {t} : acTasks'[u] = acTasks[u]
  BY <1>1, <1>2, <1>3
<1>5. t <= acUsed
  BY <1>1, EmptySlot DEF AcInv, AcTasks
<1>6. \A u \in AcTasks : Orderly(acTasks'[u]) /\ (u > acUsed' => acTasks'[u] = AcNoTask)
  BY <1>1, <1>3, <1>4, <1>5 DEF AcInv, AcTasks
<1>7. \A u \in AcTasks : acTasks'[u].placed = acTasks[u].placed
  BY <1>3, <1>4
<1>8. Placed(acTasks', acAnswers') /\ Accounted(acTasks', acAnswers', acLeft')
  BY <1>1, <1>7 DEF AcInv, Placed, Accounted
<1>9. ASSUME NEW u \in AcTasks, Marked(acTasks'[u])
      PROVE  u # t /\ Marked(acTasks[u]) /\ acTasks'[u] = acTasks[u] /\ acTasks[u].name # acTasks[t].name
  <2>1. u # t
    BY <1>3, <1>4, <1>9
  <2>2. QED
    BY <1>3, <1>4, <1>9, <2>1 DEF AcInv, Alone
<1>10. Alone(acTasks', acIssuing')
  BY <1>1, <1>9 DEF AcInv, Alone
<1>11. QED
  BY <1>1, <1>4, <1>6, <1>8, <1>10 DEF AcInv

\* The process ends: what is left of the answers is nobody's.
LEMMA AcRestartKeeps == AcInv /\ AcRestart => AcInv'
<1> SUFFICES ASSUME AcInv, AcRestart PROVE AcInv'
  OBVIOUS
<1>1. acTasks' = [t \in AcTasks |-> AcNoTask] /\ acIssuing' = {} /\ acLeft' = acAnswers' /\ acUsed' = acUsed
  BY DEF AcRestart
<1>2. \A t \in AcTasks : acTasks'[t] = AcNoTask
  BY <1>1
<1>3. acTasks' \in [AcTasks -> AcTask]
  BY <1>1, EmptySlot
<1>4. Placed(acTasks', acAnswers') /\ Accounted(acTasks', acAnswers', acLeft') /\ Alone(acTasks', acIssuing')
  BY <1>1, <1>2, EmptySlot DEF Placed, Accounted, Alone
<1>5. QED
  BY <1>1, <1>2, <1>3, <1>4, EmptySlot DEF AcInv

\* The first states.
LEMMA AcInitInv == AcInit => AcInv
<1> SUFFICES ASSUME AcInit PROVE AcInv
  OBVIOUS
<1>1. acTasks = [t \in AcTasks |-> AcNoTask] /\ acAnswers = {} /\ acUsed = 0
  BY DEF AcInit
<1>2. \A t \in AcTasks : acTasks[t] = AcNoTask
  BY <1>1
<1>3. acTasks \in [AcTasks -> AcTask]
  BY <1>1, EmptySlot
<1>4. Placed(acTasks, acAnswers) /\ Accounted(acTasks, acAnswers, acLeft) /\ Alone(acTasks, acIssuing)
  BY <1>1, <1>2, EmptySlot DEF Placed, Accounted, Alone
<1>5. QED
  BY <1>1, <1>2, <1>3, <1>4, EmptySlot DEF AcInv

\* Steps that touch none of this.
LEMMA AcIdleKeeps ==
  ASSUME AcInv, UNCHANGED <<acTasks, acAnswers, acLeft, acIssuing, acUsed>>
  PROVE  AcInv'
BY DEF AcInv, Placed, Accounted, Alone

\* Every step of the console, the renewal loop, the tasks and a restart keeps it.
LEMMA AcStep == AcInv /\ [AcNext]_acVars => AcInv'
<1> SUFFICES ASSUME AcInv, [AcNext]_acVars PROVE AcInv'
  OBVIOUS
<1>1. ASSUME NEW n \in AcCerts, AcRequest(n) \/ AcRenew(n) PROVE AcInv'
  BY <1>1, SpawnKeeps DEF AcRequest, AcRenew, acPlaced
<1>2. ASSUME NEW n \in AcCerts, AcUpload(n) \/ AcDelete(n) \/ AcAge(n) PROVE AcInv'
  BY <1>2, AcIdleKeeps DEF AcUpload, AcDelete, AcAge, acPlaced, acStart
<1>3. ASSUME NEW n \in AcCerts, AcRenewNext(n) PROVE AcInv'
  <2>1. UNCHANGED <<acAnswers, acLeft, acIssuing>>
    BY <1>3 DEF AcRenewNext, acPlaced
  <2>2. CASE AcDue(n)
    BY <1>3, <2>1, <2>2, SpawnKeeps DEF AcRenewNext
  <2>3. CASE ~AcDue(n)
    BY <1>3, <2>1, <2>3, AcIdleKeeps DEF AcRenewNext
  <2>4. QED
    BY <2>2, <2>3
<1>4. ASSUME NEW t \in AcTasks, AcRecord(t) PROVE AcInv'
  BY <1>4, ReturnKeeps DEF AcRecord, acPlaced
<1>5. ASSUME NEW t \in AcTasks,
             AcIssue(t) \/ AcOpen(t) \/ AcGetAccount(t) \/ AcTell(t) \/ AcFinish(t) \/ AcCleanUp(t)
             \/ AcInstall(t) \/ AcRelease(t)
      PROVE  AcInv'
  BY <1>5, IssueKeeps, OpenKeeps, GetAccountKeeps, TellKeeps, FinishKeeps, CleanUpKeeps, InstallKeeps, ReleaseKeeps
<1>6. ASSUME NEW t \in AcTasks, NEW d \in acTasks[t].todo, AcPlace(t, d) \/ AcPlaceUnknown(t, d) PROVE AcInv'
  BY <1>6, PlaceKeeps, PlaceUnknownKeeps
<1>7. CASE AcSaveSettings \/ AcRenewTick
  BY <1>7, AcIdleKeeps DEF AcSaveSettings, AcRenewTick, acPlaced, acStart
<1>8. CASE AcRestart
  BY <1>8, AcRestartKeeps
<1>9. CASE UNCHANGED acVars
  BY <1>9, AcIdleKeeps DEF acVars
<1>10. QED
  BY <1>1, <1>2, <1>3, <1>4, <1>5, <1>6, <1>7, <1>8, <1>9 DEF AcNext

\* The invariant gives the property.
LEMMA AcInvChallenges == AcInv => ChallengesInStep
<1> SUFFICES ASSUME AcInv PROVE ChallengesInStep
  OBVIOUS
<1>1. \A t \in AcTasks : t \in AcRunning <=> Marked(acTasks[t])
  BY DEF AcRunning, Marked
<1>2. AcRunning \subseteq AcTasks
  BY DEF AcRunning
<1>3. ASSUME NEW t \in AcRunning
      PROVE  /\ acTasks[t].told => acTasks[t].todo = {} /\ AcMine(t) \subseteq acAnswers
             /\ \A u \in AcRunning : acTasks[u].name = acTasks[t].name => u = t
  BY <1>1, <1>2 DEF AcInv, Orderly, Placed, AcMine, Alone
<1>4. ASSUME NEW a \in acAnswers PROVE a \in acLeft \/ (a[1] \in AcRunning /\ a \in AcMine(a[1]))
  <2>1. CASE a \in acLeft
    BY <2>1
  <2>2. CASE a \notin acLeft
    <3>1. PICK t \in AcTasks : \E d \in acTasks[t].placed : a = <<t, d>>
      BY <2>2 DEF AcInv, Accounted
    <3>2. a[1] = t /\ a \in AcMine(t)
      BY <3>1 DEF AcMine
    <3>3. Marked(acTasks[t])
      BY <3>1 DEF AcInv, Orderly, Marked
    <3>4. QED
      BY <1>1, <3>2, <3>3
  <2>3. QED
    BY <2>1, <2>2
<1>5. QED
  BY <1>3, <1>4 DEF ChallengesInStep

\* For any certificates, domains and number of tasks: the CA is told to look only when
\* every answer of the order is in place, one order per certificate is open at a time, and
\* no answer outlives its order unless it could not be removed or the server went down.
THEOREM ChallengesInStepCorrect == AcSpec => []ChallengesInStep
<1>1. AcSpec => []AcInv
  BY AcInitInv, AcStep, PTL DEF AcSpec
<1>2. QED
  BY <1>1, AcInvChallenges, PTL
----------------------------------------------------------------------------
(* Catalog zones *)

CmZone == [name : CmNames, owned : BOOLEAN]
CmZoneNames(ids) == {cmZones[i].name : i \in ids}

\* Zones are numbered as they are made and have names of their own.
CmZonesTyped ==
  /\ cmMade \in Nat
  /\ DOMAIN cmZones \subseteq 1 .. cmMade
  /\ cmZones \in [DOMAIN cmZones -> CmZone]
  /\ \A i, j \in DOMAIN cmZones : cmZones[i].name = cmZones[j].name => i = j

\* The serials noted are ones the master has had.
CmSerials ==
  /\ cmMaster \in [serial : Nat \ {0}, members : SUBSET CmNames]
  /\ cmState \in [serial : Nat, due : BOOLEAN] /\ cmState.serial <= cmMaster.serial
  /\ {cmConfigured, cmDisturbed} \subseteq BOOLEAN

\* The refresh is idle, has asked for the serial, or applies a list of members.
CmTaskTyped ==
  \/ cmTask = CmIdle
  \/ cmTask \in [pc : {"soa"}, last : Nat, serial : Nat] /\ cmTask.serial <= cmMaster.serial
  \/ /\ cmTask \in [pc : {"apply"}, serial : Nat, changed : BOOLEAN, making : Nat,
                    adopt : SUBSET CmNames, create : SUBSET CmNames, remove : SUBSET (Nat \X CmNames)]
     /\ cmTask.serial <= cmMaster.serial
     /\ cmTask.making <= cmMade

\* Zones made by hand are there, and the refresh neither owns one, nor is about to own or
\* to remove one.
CmHandSafe ==
  /\ cmHand \subseteq DOMAIN cmZones
  /\ \A i \in cmHand : ~cmZones[i].owned
  /\ Applying => /\ cmTask.making \notin cmHand
                 /\ \A r \in cmTask.remove : r[1] \notin cmHand /\ r[1] <= cmMade

\* Undisturbed: every zone is the catalog's but the one being made, and what is to be
\* created is not there and what is to be removed is.
CmOurs ==
  /\ \A i \in DOMAIN cmZones : cmZones[i].owned <=> ~(Applying /\ i = cmTask.making)
  /\ Applying => /\ cmTask.making # 0 => cmTask.making \in DOMAIN cmZones
                 /\ \A n \in cmTask.create : Named(n) = {}
                 /\ \A r \in cmTask.remove : r[1] \in Owned /\ cmZones[r[1]].name = r[2]

\* They are looked after and, once a round of changes is reloaded, served.
CmLookedAfter ==
  /\ OwnedNames \subseteq cmFollowed
  /\ (Applying => ~cmTask.changed) => Owned \subseteq cmServed

\* What the round ends with is the list of members, if that is still the master's.
CmMaking == IF cmTask.making = 0 THEN {} ELSE {cmTask.making}
CmFit ==
  /\ ~Applying /\ cmState.serial = cmMaster.serial => OwnedNames = cmMaster.members
  /\ cmTask.pc = "soa" /\ cmTask.last = cmTask.serial /\ cmTask.serial = cmMaster.serial
       => OwnedNames = cmMaster.members
  /\ Applying /\ cmTask.serial = cmMaster.serial =>
       cmMaster.members = (OwnedNames \ {r[2] : r \in cmTask.remove}) \cup cmTask.create \cup CmZoneNames(CmMaking)

CmInv ==
  /\ CmZonesTyped /\ CmSerials /\ CmTaskTyped /\ CmHandSafe
  /\ ~cmDisturbed => CmOurs /\ CmLookedAfter /\ CmFit

\* What is said of the zones alone stays when they do.
LEMMA ZonesSame ==
  ASSUME UNCHANGED cmZones
  PROVE  /\ Owned' = Owned /\ OwnedNames' = OwnedNames
         /\ \A ids : CmZoneNames(ids)' = CmZoneNames(ids)
         /\ \A n : Named(n)' = Named(n)
BY DEF Owned, OwnedNames, CmZoneNames, Named

\* A step that leaves the zones and the refresh alone.
LEMMA CmCalmStep ==
  ASSUME CmInv, CmSerials', cmMaster.serial <= cmMaster'.serial,
         cmMaster'.serial = cmMaster.serial => cmMaster' = cmMaster,
         cmState'.serial \in {0, cmState.serial},
         UNCHANGED <<cmZones, cmMade, cmFollowed, cmServed, cmTask, cmHand, cmDisturbed>>
  PROVE  CmInv'
<1>1. CmZonesTyped'
  BY DEF CmInv, CmZonesTyped
<1>2. cmMaster.serial \in Nat /\ cmMaster'.serial \in Nat /\ cmMaster'.serial # 0 /\ cmState.serial \in Nat
  BY DEF CmInv, CmSerials
<1>3. CmTaskTyped'
  <2>1. CASE cmTask = CmIdle
    BY <2>1 DEF CmTaskTyped
  <2>2. CASE cmTask \in [pc : {"soa"}, last : Nat, serial : Nat] /\ cmTask.serial <= cmMaster.serial
    BY <1>2, <2>2 DEF CmTaskTyped
  <2>3. CASE /\ cmTask \in [pc : {"apply"}, serial : Nat, changed : BOOLEAN, making : Nat,
                            adopt : SUBSET CmNames, create : SUBSET CmNames, remove : SUBSET (Nat \X CmNames)]
             /\ cmTask.serial <= cmMaster.serial /\ cmTask.making <= cmMade
    <3>1. cmTask.serial \in Nat
      BY <2>3
    <3>2. cmTask.serial <= cmMaster'.serial
      BY <1>2, <2>3, <3>1
    <3>3. QED
      BY <2>3, <3>2 DEF CmTaskTyped
  <2>4. QED
    BY <2>1, <2>2, <2>3 DEF CmInv, CmTaskTyped
<1>4. CmHandSafe'
  BY DEF CmInv, CmHandSafe, Applying
<1>5. ASSUME ~cmDisturbed' PROVE CmOurs' /\ CmLookedAfter' /\ CmFit'
  <2>1. CmOurs /\ CmLookedAfter /\ CmFit
    BY <1>5 DEF CmInv
  <2>2. CmOurs'
    BY <2>1 DEF CmOurs, Applying, Named, Owned
  <2>3. CmLookedAfter'
    BY <2>1, ZonesSame DEF CmLookedAfter, Applying
  <2>4. cmState'.serial = cmMaster'.serial => cmState.serial = cmMaster.serial /\ cmMaster' = cmMaster
    BY <1>2 DEF CmInv, CmSerials
  <2>5. (cmTask.pc = "soa" \/ Applying) /\ cmTask.serial = cmMaster'.serial => cmMaster' = cmMaster
    <3>1. ASSUME cmTask.pc = "soa" \/ Applying PROVE cmTask.serial \in Nat /\ cmTask.serial <= cmMaster.serial
      BY <3>1 DEF CmInv, CmTaskTyped, CmIdle, Applying
    <3>2. QED
      BY <1>2, <3>1
  <2>6. CmZoneNames(CmMaking)' = CmZoneNames(CmMaking)
    BY DEF CmZoneNames, CmMaking
  <2>7. CmFit'
    BY <2>1, <2>4, <2>5, <2>6, ZonesSame DEF CmFit, Applying
  <2>8. QED
    BY <2>2, <2>3, <2>7
<1>6. QED
  BY <1>1, <1>3, <1>4, <1>5 DEF CmInv

\* Idle again (or asking), with the zones as they were before.
LEMMA CmRestingStep ==
  ASSUME CmInv, ~Applying, cmTask' = CmIdle \/ cmTask' = [pc |-> "soa", last |-> cmState.serial, serial |-> cmMaster.serial],
         CmSerials', cmState'.serial \in {0, cmState.serial},
         UNCHANGED <<cmMaster, cmZones, cmMade, cmFollowed, cmServed, cmHand, cmDisturbed>>
  PROVE  CmInv'
<1>1. cmMaster.serial \in Nat \ {0} /\ cmState.serial \in Nat
  BY DEF CmInv, CmSerials
<1>2. CmTaskTyped' /\ ~Applying'
  BY <1>1 DEF CmTaskTyped, CmIdle, Applying
<1>3. CmZonesTyped' /\ CmHandSafe'
  BY <1>2 DEF CmInv, CmZonesTyped, CmHandSafe, Applying
<1>4. ASSUME ~cmDisturbed' PROVE CmOurs' /\ CmLookedAfter' /\ CmFit'
  <2>1. CmOurs /\ CmLookedAfter /\ CmFit
    BY <1>4 DEF CmInv
  <2>2. CmOurs'
    BY <1>2, <2>1 DEF CmOurs, Applying
  <2>3. CmLookedAfter'
    BY <1>2, <2>1, ZonesSame DEF CmLookedAfter
  <2>4. cmState'.serial = cmMaster.serial => OwnedNames = cmMaster.members
    BY <1>1, <2>1 DEF CmFit
  <2>5. cmTask'.pc = "soa" => cmTask'.last = cmState.serial
    BY DEF CmIdle
  <2>6. cmTask'.pc = "soa" => cmTask'.serial = cmMaster.serial
    BY DEF CmIdle
  <2>7. CmFit'
    BY <1>2, <2>1, <2>4, <2>5, <2>6, ZonesSame DEF CmFit
  <2>8. QED
    BY <2>2, <2>3, <2>7
<1>5. QED
  BY <1>2, <1>3, <1>4 DEF CmInv

\* A tick: the zones of a catalog no longer followed go, or the serial is asked for.
LEMMA CmTickKeeps == CmInv /\ CmTick => CmInv'
<1> SUFFICES ASSUME CmInv, CmTick PROVE CmInv'
  OBVIOUS
<1>1. CASE cmConfigured
  <2>1. /\ cmTask' = [pc |-> "soa", last |-> cmState.serial, serial |-> cmMaster.serial] /\ cmTask.pc = "idle"
        /\ UNCHANGED <<cmMaster, cmZones, cmMade, cmFollowed, cmServed, cmHand, cmDisturbed, cmState, cmConfigured>>
    BY <1>1 DEF CmTick
  <2>2. CmSerials' /\ ~Applying
    BY <2>1 DEF CmInv, CmSerials, Applying
  <2>3. QED
    BY <2>1, <2>2, CmRestingStep
<1>2. CASE ~cmConfigured
  <2>1. /\ cmZones' = Drop(Owned) /\ cmServed' = DOMAIN cmZones \ Owned
        /\ cmDisturbed' = (cmDisturbed \/ cmState.serial # 0) /\ cmTask.pc = "idle"
        /\ UNCHANGED <<cmMaster, cmTask, cmConfigured, cmHand, cmState, cmMade>>
    BY <1>2 DEF CmTick
  <2>2. ~Applying /\ ~Applying'
    BY <2>1 DEF Applying
  <2>3. DOMAIN cmZones' = DOMAIN cmZones \ Owned /\ \A i \in DOMAIN cmZones' : cmZones'[i] = cmZones[i]
    BY <2>1 DEF Drop
  <2>4. cmZones' \in [DOMAIN cmZones' -> CmZone]
    BY <2>1, <2>3 DEF Drop, CmInv, CmZonesTyped
  <2>5. CmZonesTyped'
    BY <2>1, <2>3, <2>4 DEF CmInv, CmZonesTyped
  <2>6. CmHandSafe'
    BY <2>1, <2>2, <2>3 DEF CmInv, CmHandSafe, Owned
  <2>7. CmSerials' /\ CmTaskTyped'
    BY <2>1 DEF CmInv, CmSerials, CmTaskTyped
  <2>8. ASSUME ~cmDisturbed' PROVE CmOurs' /\ CmLookedAfter' /\ CmFit'
    <3>1. ~cmDisturbed /\ cmState.serial = 0
      BY <2>1, <2>8
    <3>2. \A i \in DOMAIN cmZones : cmZones[i].owned
      BY <2>2, <3>1 DEF CmInv, CmOurs
    <3>3. DOMAIN cmZones' = {}
      BY <2>3, <3>2 DEF Owned
    <3>4. Owned' = {} /\ OwnedNames' = {}
      BY <3>3 DEF Owned, OwnedNames
    <3>5. CmOurs' /\ CmLookedAfter'
      BY <2>2, <3>3, <3>4 DEF CmOurs, CmLookedAfter
    <3>6. cmMaster.serial # 0
      BY DEF CmInv, CmSerials
    <3>7. CmFit'
      BY <2>1, <2>2, <3>1, <3>6 DEF CmFit
    <3>8. QED
      BY <3>5, <3>7
  <2>9. QED
    BY <2>5, <2>6, <2>7, <2>8 DEF CmInv
<1>3. QED
  BY <1>1, <1>2

\* The list of members is there: what is to be done about it.
LEMMA CmTransferKeeps == CmInv /\ CmTransfer => CmInv'
<1> SUFFICES ASSUME CmInv, CmTransfer PROVE CmInv'
  OBVIOUS
<1> DEFINE same == cmTask.last = cmTask.serial
           wanted == IF same THEN OwnedNames ELSE cmMaster.members
           gone == IF same THEN {} ELSE {i \in Owned : cmZones[i].name \notin wanted}
           adopt == {n \in wanted : Named(n) \cap Owned # {}}
           create == {n \in wanted : Named(n) = {}}
           remove == {<<i, cmZones[i].name>> : i \in gone}
<1>1. /\ cmTask' = [pc |-> "apply", serial |-> cmTask.serial, changed |-> FALSE, making |-> 0,
                    adopt |-> adopt, create |-> create, remove |-> remove]
      /\ cmTask.pc = "soa"
      /\ UNCHANGED <<cmMaster, cmConfigured, cmHand, cmDisturbed, cmZones, cmFollowed, cmServed, cmState, cmMade>>
  BY DEF CmTransfer, cmOperator
<1>2. cmTask \in [pc : {"soa"}, last : Nat, serial : Nat] /\ cmTask.serial <= cmMaster.serial /\ cmTask.serial \in Nat
  BY <1>1 DEF CmInv, CmTaskTyped, CmIdle
<1>3. \A i \in DOMAIN cmZones : cmZones[i].name \in CmNames /\ i \in Nat /\ i <= cmMade
  BY DEF CmInv, CmZonesTyped, CmZone
<1>4. Owned \subseteq DOMAIN cmZones /\ gone \subseteq Owned
  BY DEF Owned
<1>5. wanted \subseteq CmNames
  BY <1>3, <1>4 DEF OwnedNames, CmInv, CmSerials
<1>6. adopt \in SUBSET CmNames /\ create \in SUBSET CmNames
  BY <1>5
<1>7. remove \in SUBSET (Nat \X CmNames) /\ \A r \in remove : r[1] \in gone /\ r[2] = cmZones[r[1]].name
  BY <1>3, <1>4
<1>8. /\ cmTask'.pc = "apply" /\ cmTask'.serial = cmTask.serial /\ cmTask'.changed = FALSE /\ cmTask'.making = 0
      /\ cmTask'.create = create /\ cmTask'.remove = remove
  BY <1>1
<1>9. CmTaskTyped'
  <2>1. cmMade \in Nat
    BY DEF CmInv, CmZonesTyped
  <2> HIDE DEF adopt, create, remove
  <2>2. cmTask' \in [pc : {"apply"}, serial : Nat, changed : BOOLEAN, making : Nat,
                     adopt : SUBSET CmNames, create : SUBSET CmNames, remove : SUBSET (Nat \X CmNames)]
    BY <1>1, <1>2, <1>6, <1>7
  <2>3. QED
    BY <1>1, <1>2, <1>8, <2>1, <2>2 DEF CmTaskTyped
<1>10. CmZonesTyped' /\ CmSerials'
  BY <1>1 DEF CmInv, CmZonesTyped, CmSerials
<1>11. 0 \notin DOMAIN cmZones
  BY DEF CmInv, CmZonesTyped
<1>12. CmHandSafe'
  <2>1. \A i \in gone : i \notin cmHand /\ i <= cmMade
    BY <1>3, <1>4 DEF CmInv, CmHandSafe, Owned
  <2> HIDE DEF gone, remove, create
  <2>2. QED
    BY <1>1, <1>7, <1>8, <1>11, <2>1 DEF CmInv, CmHandSafe
<1>13. ASSUME ~cmDisturbed' PROVE CmOurs' /\ CmLookedAfter' /\ CmFit'
  <2>1. CmOurs /\ CmLookedAfter /\ CmFit /\ ~Applying /\ Applying'
    BY <1>1, <1>8, <1>13 DEF CmInv, Applying
  <2>2. \A i \in DOMAIN cmZones : cmZones[i].owned
    BY <2>1 DEF CmOurs
  <2>3. Owned = DOMAIN cmZones
    BY <2>2 DEF Owned
  <2>4. \A i \in DOMAIN cmZones : cmZones'[i].owned <=> ~(Applying' /\ i = cmTask'.making)
    BY <1>1, <1>8, <1>11, <2>2
  <2>5. \A n \in create : Named(n)' = {}
    BY <1>1, ZonesSame
  <2>6. \A r \in remove : r[1] \in Owned' /\ cmZones'[r[1]].name = r[2]
    BY <1>1, <1>4, <1>7, ZonesSame
  <2>7. CmOurs'
    <3> HIDE DEF create, remove
    <3>1. QED
      BY <1>1, <1>8, <2>4, <2>5, <2>6 DEF CmOurs
  <2>8. CmLookedAfter'
    BY <1>1, <1>8, <2>1, ZonesSame DEF CmLookedAfter
  <2>9. ASSUME cmTask.serial = cmMaster.serial
        PROVE  cmMaster.members = (OwnedNames \ {r[2] : r \in remove}) \cup create
    <3>1. \A n : Named(n) = {} <=> n \notin OwnedNames
      BY <2>3 DEF Named, OwnedNames
    <3>2. CASE same
      <4>1. OwnedNames = cmMaster.members
        BY <1>1, <2>1, <2>9, <3>2 DEF CmFit
      <4>2. remove = {} /\ create = {}
        BY <3>1, <3>2
      <4> HIDE DEF remove, create
      <4>3. QED
        BY <4>1, <4>2
    <3>3. CASE ~same
      <4>1. create = {n \in cmMaster.members : n \notin OwnedNames}
        BY <3>1, <3>3
      <4>2. {r[2] : r \in remove} = {n \in OwnedNames : n \notin cmMaster.members}
        <5>1. \A i \in gone : cmZones[i].name \in OwnedNames /\ cmZones[i].name \notin cmMaster.members
          BY <3>3 DEF OwnedNames
        <5>2. \A r \in remove : r[2] \in OwnedNames /\ r[2] \notin cmMaster.members
          BY <1>7, <5>1
        <5>3. ASSUME NEW n \in OwnedNames, n \notin cmMaster.members PROVE n \in {r[2] : r \in remove}
          <6>1. PICK i \in Owned : cmZones[i].name = n
            BY DEF OwnedNames
          <6>2. i \in gone
            BY <3>3, <5>3, <6>1
          <6>3. <<i, n>> \in remove
            BY <6>1, <6>2
          <6> HIDE DEF remove
          <6>4. <<i, n>>[2] = n
            OBVIOUS
          <6>5. QED
            BY <6>3, <6>4
        <5> HIDE DEF remove
        <5>4. QED
          BY <5>2, <5>3
      <4> HIDE DEF remove, create
      <4>3. QED
        BY <4>1, <4>2
    <3>4. QED
      BY <3>2, <3>3
  <2>10. CmZoneNames(CmMaking)' = {}
    BY <1>8 DEF CmZoneNames, CmMaking
  <2>11. CmFit'
    <3> HIDE DEF create, remove
    <3>1. QED
      BY <1>1, <1>8, <2>1, <2>9, <2>10, ZonesSame DEF CmFit
  <2>12. QED
    BY <2>7, <2>8, <2>11
<1>14. QED
  BY <1>9, <1>10, <1>12, <1>13 DEF CmInv

\* The task of an applying refresh.
CmApply == [pc : {"apply"}, serial : Nat, changed : BOOLEAN, making : Nat,
            adopt : SUBSET CmNames, create : SUBSET CmNames, remove : SUBSET (Nat \X CmNames)]

\* The task while a catalog's members are being applied.
LEMMA ApplyingTyped ==
  ASSUME CmInv, Applying
  PROVE  cmTask \in CmApply /\ cmTask.serial <= cmMaster.serial /\ cmTask.making <= cmMade
BY DEF CmInv, CmTaskTyped, CmIdle, Applying, CmApply

\* A member that is there is handed to the refresher.
LEMMA CmFollowKeeps ==
  ASSUME CmInv, NEW n \in CmNames, CmFollow(n)
  PROVE  CmInv'
<1> DEFINE k == [cmTask EXCEPT !.adopt = @ \ {n}]
<1>1. /\ Applying /\ cmTask' = k /\ cmFollowed' = cmFollowed \cup {n}
      /\ UNCHANGED <<cmMaster, cmConfigured, cmHand, cmDisturbed, cmZones, cmServed, cmState, cmMade>>
  BY DEF CmFollow, cmOperator
<1>2. cmTask \in CmApply /\ cmTask.serial <= cmMaster.serial /\ cmTask.making <= cmMade
  BY <1>1, ApplyingTyped
<1>3. /\ k \in CmApply /\ k.pc = "apply" /\ k.serial = cmTask.serial /\ k.changed = cmTask.changed
      /\ k.making = cmTask.making /\ k.create = cmTask.create /\ k.remove = cmTask.remove
  BY <1>2 DEF CmApply
<1> HIDE DEF k
<1>4. CmTaskTyped' /\ CmZonesTyped' /\ CmSerials'
  BY <1>1, <1>2, <1>3 DEF CmInv, CmTaskTyped, CmZonesTyped, CmSerials, CmApply
<1>5. CmHandSafe'
  BY <1>1, <1>3 DEF CmInv, CmHandSafe, Applying
<1>6. ASSUME ~cmDisturbed' PROVE CmOurs' /\ CmLookedAfter' /\ CmFit'
  <2>1. CmOurs /\ CmLookedAfter /\ CmFit
    BY <1>1, <1>6 DEF CmInv
  <2>2. Applying'
    BY <1>1, <1>3 DEF Applying
  <2>3. CmOurs'
    BY <1>1, <1>3, <2>1, <2>2, ZonesSame DEF CmOurs
  <2>4. CmLookedAfter'
    BY <1>1, <1>3, <2>1, <2>2, ZonesSame DEF CmLookedAfter
  <2>5. CmZoneNames(CmMaking)' = CmZoneNames(CmMaking)
    BY <1>1, <1>3 DEF CmZoneNames, CmMaking
  <2>6. cmTask'.pc # "soa"
    BY <1>1, <1>3
  <2>7. CmFit'
    BY <1>1, <1>3, <2>1, <2>2, <2>5, <2>6, ZonesSame DEF CmFit
  <2>8. QED
    BY <2>3, <2>4, <2>7
<1>7. QED
  BY <1>4, <1>5, <1>6 DEF CmInv

\* A refresh that gives up: never while nobody else changes zones.
LEMMA GivesUpKeeps ==
  ASSUME CmInv, Applying, cmDisturbed, cmTask' = CmIdle, cmState' = [cmState EXCEPT !.due = FALSE],
         UNCHANGED <<cmMaster, cmConfigured, cmHand, cmDisturbed, cmZones, cmFollowed, cmServed, cmMade>>
  PROVE  CmInv'
<1>1. CmTaskTyped' /\ ~Applying'
  BY DEF CmTaskTyped, CmIdle, Applying
<1>2. CmZonesTyped' /\ CmSerials' /\ CmHandSafe'
  BY <1>1 DEF CmInv, CmZonesTyped, CmSerials, CmHandSafe
<1>3. QED
  BY <1>1, <1>2 DEF CmInv

\* A new zone: its number is new and so is its name.
LEMMA KeepZone ==
  ASSUME CmInv, NEW n \in CmNames, Named(n) = {}, cmZones' = Keep(n, FALSE), cmMade' = cmMade + 1
  PROVE  /\ CmZonesTyped'
         /\ DOMAIN cmZones' = DOMAIN cmZones \cup {cmMade'} /\ cmMade' \notin DOMAIN cmZones
         /\ cmZones'[cmMade'].name = n /\ ~cmZones'[cmMade'].owned
         /\ \A i \in DOMAIN cmZones : cmZones'[i] = cmZones[i]
         /\ Owned' = Owned /\ OwnedNames' = OwnedNames
         /\ \A m \in CmNames \ {n} : Named(m)' = Named(m)
<1>1. cmMade \in Nat /\ cmMade' = cmMade + 1 /\ cmMade' \notin DOMAIN cmZones /\ DOMAIN cmZones \subseteq 1 .. cmMade
  BY DEF CmInv, CmZonesTyped
<1> DEFINE z == [name |-> n, owned |-> FALSE]
<1>2. cmZones' = [i \in DOMAIN cmZones \cup {cmMade'} |-> IF i = cmMade' THEN z ELSE cmZones[i]]
  BY DEF Keep
<1>3. z \in CmZone /\ z.name = n /\ z.owned = FALSE
  BY DEF CmZone
<1> HIDE DEF z
<1>4. DOMAIN cmZones' = DOMAIN cmZones \cup {cmMade'}
  BY <1>2
<1>5. cmZones'[cmMade'] = z
  BY <1>2
<1>6. \A i \in DOMAIN cmZones : cmZones'[i] = cmZones[i]
  BY <1>1, <1>2
<1>7. \A i \in DOMAIN cmZones : cmZones[i] \in CmZone /\ cmZones[i].name # n
  BY DEF CmInv, CmZonesTyped, Named
<1>8. cmZones' \in [DOMAIN cmZones' -> CmZone]
  BY <1>2, <1>3, <1>4, <1>7
<1>9. \A i, j \in DOMAIN cmZones' : cmZones'[i].name = cmZones'[j].name => i = j
  <2>1. \A i, j \in DOMAIN cmZones : cmZones[i].name = cmZones[j].name => i = j
    BY DEF CmInv, CmZonesTyped
  <2>2. \A i \in DOMAIN cmZones : cmZones'[i].name = cmZones[i].name /\ cmZones'[i].name # n
    BY <1>6, <1>7
  <2>3. cmZones'[cmMade'].name = n
    BY <1>3, <1>5
  <2>4. ASSUME NEW i \in DOMAIN cmZones', NEW j \in DOMAIN cmZones', cmZones'[i].name = cmZones'[j].name
        PROVE  i = j
    <3>1. CASE i \in DOMAIN cmZones /\ j \in DOMAIN cmZones
      BY <2>1, <2>2, <2>4, <3>1
    <3>2. CASE i = cmMade' \/ j = cmMade'
      BY <1>4, <2>2, <2>3, <2>4, <3>2
    <3>3. QED
      BY <1>4, <3>1, <3>2
  <2>5. QED
    BY <2>4
<1>10. DOMAIN cmZones' \subseteq 1 .. cmMade' /\ cmMade' \in Nat
  <2>1. \A i \in 1 .. cmMade : i \in 1 .. (cmMade + 1)
    BY <1>1
  <2>2. cmMade + 1 \in 1 .. (cmMade + 1) /\ cmMade + 1 \in Nat
    BY <1>1
  <2>3. QED
    BY <1>1, <1>4, <2>1, <2>2
<1>11. CmZonesTyped'
  BY <1>8, <1>9, <1>10 DEF CmZonesTyped
<1>12. Owned' = Owned
  BY <1>1, <1>3, <1>4, <1>5, <1>6 DEF Owned
<1>13. OwnedNames' = OwnedNames
  BY <1>6, <1>12 DEF OwnedNames, Owned
<1>14. \A m \in CmNames \ {n} : Named(m)' = Named(m)
  BY <1>3, <1>4, <1>5, <1>6 DEF Named
<1>15. QED
  BY <1>1, <1>3, <1>4, <1>5, <1>6, <1>11, <1>12, <1>13, <1>14

\* A member's zone is created, not yet marked as the catalog's.
LEMMA CmCreateKeeps ==
  ASSUME CmInv, NEW n \in CmNames, CmCreate(n)
  PROVE  CmInv'
<1>1. /\ Applying /\ cmTask.making = 0 /\ n \in cmTask.create
      /\ UNCHANGED <<cmMaster, cmConfigured, cmHand, cmDisturbed, cmFollowed, cmServed>>
  BY DEF CmCreate, cmOperator
<1>2. CASE Named(n) # {}
  <2>1. cmDisturbed
    BY <1>1, <1>2 DEF CmInv, CmOurs, CmSerials
  <2>2. cmTask' = CmIdle /\ cmState' = [cmState EXCEPT !.due = FALSE] /\ UNCHANGED <<cmZones, cmMade>>
    BY <1>2 DEF CmCreate
  <2>3. QED
    BY <1>1, <2>1, <2>2, GivesUpKeeps
<1>3. CASE Named(n) = {}
  <2> DEFINE k == [cmTask EXCEPT !.create = @ \ {n}, !.making = cmMade + 1]
  <2>1. cmZones' = Keep(n, FALSE) /\ cmMade' = cmMade + 1 /\ cmTask' = k /\ UNCHANGED cmState
    BY <1>3 DEF CmCreate
  <2>2. cmTask \in CmApply /\ cmTask.serial <= cmMaster.serial /\ cmTask.making <= cmMade /\ cmMade \in Nat
    BY <1>1, ApplyingTyped DEF CmInv, CmZonesTyped
  <2>3. /\ k \in CmApply /\ k.pc = "apply" /\ k.serial = cmTask.serial /\ k.changed = cmTask.changed
        /\ k.making = cmMade + 1 /\ k.create = cmTask.create \ {n} /\ k.remove = cmTask.remove
    <3>1. cmMade + 1 \in Nat /\ cmTask.create \ {n} \in SUBSET CmNames
      BY <2>2 DEF CmApply
    <3>2. QED
      BY <2>2, <3>1 DEF CmApply
  <2> HIDE DEF k
  <2>4. /\ CmZonesTyped'
        /\ DOMAIN cmZones' = DOMAIN cmZones \cup {cmMade'} /\ cmMade' \notin DOMAIN cmZones
        /\ cmZones'[cmMade'].name = n /\ ~cmZones'[cmMade'].owned
        /\ \A i \in DOMAIN cmZones : cmZones'[i] = cmZones[i]
        /\ Owned' = Owned /\ OwnedNames' = OwnedNames
        /\ \A m \in CmNames \ {n} : Named(m)' = Named(m)
    BY <1>3, <2>1, KeepZone
  <2>5. CmSerials'
    BY <1>1, <2>1 DEF CmInv, CmSerials
  <2>6. CmTaskTyped'
    <3>1. cmTask' \in CmApply /\ cmTask'.serial <= cmMaster'.serial /\ cmTask'.making <= cmMade'
      BY <1>1, <2>1, <2>2, <2>3
    <3>2. QED
      BY <3>1 DEF CmTaskTyped, CmApply
  <2>7. Applying'
    BY <2>1, <2>3 DEF Applying
  <2>8. CmHandSafe'
    <3>1. cmHand' \subseteq DOMAIN cmZones' /\ \A i \in cmHand' : ~cmZones'[i].owned
      BY <1>1, <2>4 DEF CmInv, CmHandSafe
    <3>2. cmTask'.making \notin cmHand'
      BY <1>1, <2>1, <2>3, <2>4 DEF CmInv, CmHandSafe
    <3>3. \A r \in cmTask.remove : r[1] \in Nat /\ r[1] <= cmMade /\ r[1] \notin cmHand
      BY <1>1, <2>2 DEF CmInv, CmHandSafe, CmApply
    <3>4. \A r \in cmTask'.remove : r[1] \notin cmHand' /\ r[1] <= cmMade'
      BY <1>1, <2>1, <2>2, <2>3, <3>3
    <3>5. QED
      BY <3>1, <3>2, <3>4 DEF CmHandSafe
  <2>9. ASSUME ~cmDisturbed' PROVE CmOurs' /\ CmLookedAfter' /\ CmFit'
    <3>1. CmOurs /\ CmLookedAfter /\ CmFit
      BY <1>1, <2>9 DEF CmInv
    <3>2. \A i \in DOMAIN cmZones : cmZones[i].owned
      <4>1. 0 \notin DOMAIN cmZones
        BY DEF CmInv, CmZonesTyped
      <4>2. QED
        BY <1>1, <3>1, <4>1 DEF CmOurs
    <3>3. \A i \in DOMAIN cmZones' : cmZones'[i].owned <=> ~(Applying' /\ i = cmTask'.making)
      BY <2>1, <2>3, <2>4, <2>7, <3>2
    <3>4. \A m \in cmTask'.create : Named(m)' = {}
      <4>1. \A m \in cmTask'.create : m \in CmNames \ {n} /\ m \in cmTask.create
        BY <2>1, <2>2, <2>3 DEF CmApply
      <4>2. QED
        BY <1>1, <2>4, <3>1, <4>1 DEF CmOurs
    <3>5. \A r \in cmTask'.remove : r[1] \in Owned' /\ cmZones'[r[1]].name = r[2]
      BY <1>1, <2>1, <2>3, <2>4, <3>1 DEF CmOurs, Owned
    <3>6. cmTask'.making \in DOMAIN cmZones'
      BY <2>1, <2>3, <2>4
    <3>7. CmOurs'
      BY <3>3, <3>4, <3>5, <3>6 DEF CmOurs
    <3>8. CmLookedAfter'
      BY <1>1, <2>1, <2>3, <2>4, <2>7, <3>1 DEF CmLookedAfter
    <3>9. CmZoneNames(CmMaking)' = {n} /\ CmZoneNames(CmMaking) = {}
      <4>1. CmMaking' = {cmMade'} /\ CmMaking = {}
        BY <1>1, <2>1, <2>2, <2>3 DEF CmMaking
      <4>2. QED
        BY <2>4, <4>1 DEF CmZoneNames
    <3>10. cmTask'.pc # "soa"
      BY <2>1, <2>3
    <3>11. cmTask.create = cmTask'.create \cup {n}
      BY <1>1, <2>1, <2>3
    <3>12. CmFit'
      BY <1>1, <2>1, <2>3, <2>4, <2>7, <3>1, <3>9, <3>10, <3>11 DEF CmFit
    <3>13. QED
      BY <3>7, <3>8, <3>12
  <2>10. QED
    BY <2>4, <2>5, <2>6, <2>8, <2>9 DEF CmInv
<1>4. QED
  BY <1>2, <1>3

\* The zone becomes the catalog's.
LEMMA CmOwnKeeps == CmInv /\ CmOwn => CmInv'
<1> SUFFICES ASSUME CmInv, CmOwn PROVE CmInv'
  OBVIOUS
<1> DEFINE i == cmTask.making
<1>1. Applying /\ i # 0 /\ UNCHANGED <<cmMaster, cmConfigured, cmHand, cmDisturbed, cmServed, cmMade>>
  BY DEF CmOwn, cmOperator
<1>2. CASE i \notin DOMAIN cmZones
  <2>1. cmDisturbed
    BY <1>1, <1>2 DEF CmInv, CmOurs, CmSerials
  <2>2. cmTask' = CmIdle /\ cmState' = [cmState EXCEPT !.due = FALSE] /\ UNCHANGED <<cmZones, cmFollowed>>
    BY <1>2 DEF CmOwn
  <2>3. QED
    BY <1>1, <2>1, <2>2, GivesUpKeeps
<1>3. CASE i \in DOMAIN cmZones
  <2> DEFINE k == [cmTask EXCEPT !.making = 0, !.changed = TRUE]
  <2>1. /\ cmZones' = [cmZones EXCEPT ![i].owned = TRUE] /\ cmFollowed' = cmFollowed \cup {cmZones[i].name}
        /\ cmTask' = k /\ UNCHANGED cmState
    BY <1>3 DEF CmOwn
  <2>2. cmTask \in CmApply /\ cmTask.serial <= cmMaster.serial /\ cmMade \in Nat
    BY <1>1, ApplyingTyped DEF CmInv, CmZonesTyped
  <2>3. /\ k \in CmApply /\ k.pc = "apply" /\ k.serial = cmTask.serial /\ k.changed = TRUE
        /\ k.making = 0 /\ k.create = cmTask.create /\ k.remove = cmTask.remove
    BY <2>2 DEF CmApply
  <2> HIDE DEF k
  <2>4. cmZones \in [DOMAIN cmZones -> CmZone] /\ \A j \in DOMAIN cmZones : cmZones[j] \in CmZone
    BY DEF CmInv, CmZonesTyped
  <2>5. DOMAIN cmZones' = DOMAIN cmZones
    BY <2>1
  <2>6. cmZones'[i].owned = TRUE /\ \A j \in DOMAIN cmZones \ {i} : cmZones'[j] = cmZones[j]
    BY <1>3, <2>1, <2>4 DEF CmZone
  <2>7. \A j \in DOMAIN cmZones : cmZones'[j].name = cmZones[j].name /\ cmZones'[j] \in CmZone
    BY <1>3, <2>1, <2>4 DEF CmZone
  <2>8. CmZonesTyped'
    <3>1. cmZones' \in [DOMAIN cmZones' -> CmZone]
      BY <2>1, <2>4, <2>5, <2>7
    <3>2. QED
      BY <1>1, <2>5, <2>7, <3>1 DEF CmInv, CmZonesTyped
  <2>9. CmSerials'
    BY <1>1, <2>1 DEF CmInv, CmSerials
  <2>10. CmTaskTyped'
    <3>1. cmTask' \in CmApply /\ cmTask'.serial <= cmMaster'.serial /\ cmTask'.making <= cmMade'
      BY <1>1, <2>1, <2>2, <2>3
    <3>2. QED
      BY <3>1 DEF CmTaskTyped, CmApply
  <2>11. Applying'
    BY <2>1, <2>3 DEF Applying
  <2>12. 0 \notin DOMAIN cmZones
    BY DEF CmInv, CmZonesTyped
  <2>13. CmHandSafe'
    <3>1. i \notin cmHand /\ \A j \in cmHand : j \in DOMAIN cmZones \ {i} /\ ~cmZones[j].owned
      BY <1>1 DEF CmInv, CmHandSafe
    <3>2. cmHand' \subseteq DOMAIN cmZones' /\ \A j \in cmHand' : ~cmZones'[j].owned
      BY <1>1, <2>5, <2>6, <3>1
    <3>3. cmTask'.making \notin cmHand' /\ \A r \in cmTask'.remove : r[1] \notin cmHand' /\ r[1] <= cmMade'
      BY <1>1, <2>1, <2>3, <2>12, <3>1 DEF CmInv, CmHandSafe
    <3>4. QED
      BY <3>2, <3>3 DEF CmHandSafe
  <2>14. Owned' = Owned \cup {i}
    BY <1>3, <2>5, <2>6 DEF Owned
  <2>15. OwnedNames' = OwnedNames \cup {cmZones[i].name}
    <3>1. Owned \subseteq DOMAIN cmZones
      BY DEF Owned
    <3>2. OwnedNames' = {cmZones'[j].name : j \in Owned'} /\ OwnedNames = {cmZones[j].name : j \in Owned}
      BY DEF OwnedNames
    <3>3. QED
      BY <1>3, <2>7, <2>14, <3>1, <3>2
  <2>16. \A n : Named(n)' = Named(n)
    BY <2>5, <2>7 DEF Named
  <2>17. ASSUME ~cmDisturbed' PROVE CmOurs' /\ CmLookedAfter' /\ CmFit'
    <3>1. CmOurs /\ CmLookedAfter /\ CmFit
      BY <1>1, <2>17 DEF CmInv
    <3>2. \A j \in DOMAIN cmZones' : cmZones'[j].owned <=> ~(Applying' /\ j = cmTask'.making)
      BY <1>1, <2>1, <2>3, <2>5, <2>6, <2>12, <3>1 DEF CmOurs
    <3>3. \A n \in cmTask'.create : Named(n)' = {}
      BY <1>1, <2>1, <2>3, <2>16, <3>1 DEF CmOurs
    <3>4. \A r \in cmTask'.remove : r[1] \in Owned' /\ cmZones'[r[1]].name = r[2]
      BY <1>1, <2>1, <2>3, <2>7, <2>14, <3>1 DEF CmOurs, Owned
    <3>5. CmOurs'
      BY <2>1, <2>3, <3>2, <3>3, <3>4 DEF CmOurs
    <3>6. CmLookedAfter'
      BY <2>1, <2>3, <2>11, <2>15, <3>1 DEF CmLookedAfter
    <3>7. CmZoneNames(CmMaking)' = {} /\ CmZoneNames(CmMaking) = {cmZones[i].name}
      <4>1. CmMaking' = {} /\ CmMaking = {i}
        BY <1>1, <2>1, <2>3 DEF CmMaking
      <4>2. QED
        BY <4>1 DEF CmZoneNames
    <3>8. cmTask'.pc # "soa"
      BY <2>1, <2>3
    <3>9. cmZones[i].name \notin {r[2] : r \in cmTask.remove}
      <4>1. ~cmZones[i].owned
        BY <1>1, <1>3, <3>1 DEF CmOurs
      <4>2. ASSUME NEW r \in cmTask.remove, r[2] = cmZones[i].name PROVE FALSE
        <5>1. r[1] \in Owned /\ cmZones[r[1]].name = cmZones[i].name
          BY <1>1, <3>1, <4>2 DEF CmOurs
        <5>2. r[1] = i
          BY <1>3, <5>1 DEF Owned, CmInv, CmZonesTyped
        <5>3. QED
          BY <4>1, <5>1, <5>2 DEF Owned
      <4>3. QED
        BY <4>2
    <3>10. CmFit'
      BY <1>1, <2>1, <2>3, <2>11, <2>15, <3>1, <3>7, <3>8, <3>9 DEF CmFit
    <3>11. QED
      BY <3>5, <3>6, <3>10
  <2>18. QED
    BY <2>8, <2>9, <2>10, <2>13, <2>17 DEF CmInv
<1>4. QED
  BY <1>2, <1>3

\* Zones go.
LEMMA DropZones ==
  ASSUME CmInv, NEW ids, cmZones' = Drop(ids), UNCHANGED cmMade
  PROVE  /\ CmZonesTyped'
         /\ DOMAIN cmZones' = DOMAIN cmZones \ ids
         /\ \A i \in DOMAIN cmZones' : cmZones'[i] = cmZones[i]
         /\ Owned' = Owned \ ids
         /\ \A n : Named(n)' = Named(n) \ ids
<1>1. DOMAIN cmZones' = DOMAIN cmZones \ ids /\ \A i \in DOMAIN cmZones' : cmZones'[i] = cmZones[i]
  BY DEF Drop
<1>2. cmZones' \in [DOMAIN cmZones' -> CmZone]
  BY <1>1 DEF Drop, CmInv, CmZonesTyped
<1>3. CmZonesTyped'
  BY <1>1, <1>2 DEF CmInv, CmZonesTyped
<1>4. Owned' = Owned \ ids /\ \A n : Named(n)' = Named(n) \ ids
  BY <1>1 DEF Owned, Named
<1>5. QED
  BY <1>1, <1>3, <1>4

\* A member that left the list goes, by its number.
LEMMA CmRemoveKeeps ==
  ASSUME CmInv, Applying, NEW r \in cmTask.remove, CmRemove(r)
  PROVE  CmInv'
<1> DEFINE k == [cmTask EXCEPT !.remove = @ \ {r}, !.changed = TRUE]
<1>1. /\ cmTask.making = 0 /\ cmTask' = k /\ cmZones' = Drop({r[1]}) /\ cmFollowed' = cmFollowed \ {r[2]}
      /\ UNCHANGED <<cmMaster, cmConfigured, cmHand, cmDisturbed, cmServed, cmState, cmMade>>
  BY DEF CmRemove, cmOperator
<1>2. cmTask \in CmApply /\ cmTask.serial <= cmMaster.serial /\ cmMade \in Nat
  BY ApplyingTyped DEF CmInv, CmZonesTyped
<1>3. /\ k \in CmApply /\ k.pc = "apply" /\ k.serial = cmTask.serial /\ k.changed = TRUE
      /\ k.making = cmTask.making /\ k.create = cmTask.create /\ k.remove = cmTask.remove \ {r}
  BY <1>2 DEF CmApply
<1> HIDE DEF k
<1>4. /\ CmZonesTyped'
      /\ DOMAIN cmZones' = DOMAIN cmZones \ {r[1]}
      /\ \A i \in DOMAIN cmZones' : cmZones'[i] = cmZones[i]
      /\ Owned' = Owned \ {r[1]}
      /\ \A n : Named(n)' = Named(n) \ {r[1]}
  BY <1>1, DropZones
<1>5. CmSerials' /\ Applying'
  BY <1>1, <1>3 DEF CmInv, CmSerials, Applying
<1>6. CmTaskTyped'
  <2>1. cmTask' \in CmApply /\ cmTask'.serial <= cmMaster'.serial /\ cmTask'.making <= cmMade'
    BY <1>1, <1>2, <1>3
  <2>2. QED
    BY <2>1 DEF CmTaskTyped, CmApply
<1>7. CmHandSafe'
  <2>1. r[1] \notin cmHand
    BY DEF CmInv, CmHandSafe
  <2>2. QED
    BY <1>1, <1>3, <1>4, <2>1 DEF CmInv, CmHandSafe
<1>8. ASSUME ~cmDisturbed' PROVE CmOurs' /\ CmLookedAfter' /\ CmFit'
  <2>1. CmOurs /\ CmLookedAfter /\ CmFit
    BY <1>1, <1>8 DEF CmInv
  <2>2. r[1] \in Owned /\ cmZones[r[1]].name = r[2]
    BY <2>1 DEF CmOurs
  <2>3. \A i, j \in DOMAIN cmZones : cmZones[i].name = cmZones[j].name => i = j
    BY DEF CmInv, CmZonesTyped
  <2>4. Owned \subseteq DOMAIN cmZones
    BY DEF Owned
  <2>5. \A i \in DOMAIN cmZones' : cmZones'[i].owned <=> ~(Applying' /\ i = cmTask'.making)
    BY <1>1, <1>3, <1>4, <1>5, <2>1 DEF CmOurs
  <2>6. \A n \in cmTask'.create : Named(n)' = {}
    BY <1>1, <1>3, <1>4, <2>1 DEF CmOurs
  <2>7. ASSUME NEW s \in cmTask'.remove PROVE s[1] \in Owned' /\ cmZones'[s[1]].name = s[2]
    <3>1. s \in cmTask.remove /\ s # r
      BY <1>1, <1>3
    <3>2. s[1] \in Owned /\ cmZones[s[1]].name = s[2]
      BY <2>1, <3>1 DEF CmOurs
    <3>3. s \in Nat \X CmNames /\ r \in Nat \X CmNames
      BY <1>2, <3>1 DEF CmApply
    <3>4. s[1] # r[1]
      BY <2>2, <3>1, <3>2, <3>3
    <3>5. QED
      BY <1>4, <2>4, <3>2, <3>4
  <2>8. CmOurs'
    BY <1>1, <1>3, <2>5, <2>6, <2>7 DEF CmOurs
  <2>9. OwnedNames' = OwnedNames \ {r[2]}
    <3>1. OwnedNames' = {cmZones'[i].name : i \in Owned'} /\ OwnedNames = {cmZones[i].name : i \in Owned}
      BY DEF OwnedNames
    <3>2. \A i \in Owned' : cmZones'[i].name = cmZones[i].name /\ i \in DOMAIN cmZones /\ i # r[1]
      BY <1>4, <2>4
    <3>3. \A i \in Owned' : cmZones[i].name # r[2]
      BY <2>2, <2>3, <2>4, <3>2
    <3>4. QED
      BY <1>4, <2>2, <3>1, <3>2, <3>3
  <2>10. CmLookedAfter'
    BY <1>1, <1>3, <1>5, <2>1, <2>9 DEF CmLookedAfter
  <2>11. CmZoneNames(CmMaking)' = {} /\ CmZoneNames(CmMaking) = {}
    <3>1. CmMaking' = {} /\ CmMaking = {}
      BY <1>1, <1>3 DEF CmMaking
    <3>2. QED
      BY <3>1 DEF CmZoneNames
  <2>12. cmTask'.pc # "soa"
    BY <1>1, <1>3
  <2>13. OwnedNames' \ {s[2] : s \in cmTask'.remove} = OwnedNames \ {s[2] : s \in cmTask.remove}
    BY <1>1, <1>3, <2>9
  <2>14. CmFit'
    BY <1>1, <1>3, <1>5, <2>1, <2>11, <2>12, <2>13 DEF CmFit
  <2>15. QED
    BY <2>8, <2>10, <2>14
<1>9. QED
  BY <1>4, <1>5, <1>6, <1>7, <1>8 DEF CmInv

\* The end of a round.
LEMMA CmFinishKeeps == CmInv /\ CmFinish => CmInv'
<1> SUFFICES ASSUME CmInv, CmFinish PROVE CmInv'
  OBVIOUS
<1>1. /\ Applying /\ cmTask.making = 0 /\ cmTask.create = {} /\ cmTask.remove = {}
      /\ cmServed' = IF cmTask.changed THEN DOMAIN cmZones ELSE cmServed
      /\ cmState' = [serial |-> cmTask.serial, due |-> FALSE] /\ cmTask' = CmIdle
      /\ UNCHANGED <<cmMaster, cmConfigured, cmHand, cmDisturbed, cmZones, cmFollowed, cmMade>>
  BY DEF CmFinish, cmOperator
<1>2. cmTask \in CmApply /\ cmTask.serial <= cmMaster.serial
  BY <1>1, ApplyingTyped
<1>3. cmTask.serial \in Nat /\ cmTask.changed \in BOOLEAN
  BY <1>2 DEF CmApply
<1>4. CmTaskTyped' /\ ~Applying' /\ cmTask'.pc # "soa"
  BY <1>1 DEF CmTaskTyped, CmIdle, Applying
<1>5. CmSerials' /\ cmState'.serial = cmTask.serial
  BY <1>1, <1>2, <1>3 DEF CmInv, CmSerials
<1>6. CmZonesTyped' /\ CmHandSafe'
  BY <1>1, <1>4 DEF CmInv, CmZonesTyped, CmHandSafe
<1>7. ASSUME ~cmDisturbed' PROVE CmOurs' /\ CmLookedAfter' /\ CmFit'
  <2>1. CmOurs /\ CmLookedAfter /\ CmFit
    BY <1>1, <1>7 DEF CmInv
  <2>2. 0 \notin DOMAIN cmZones
    BY DEF CmInv, CmZonesTyped
  <2>3. CmOurs'
    BY <1>1, <1>4, <2>1, <2>2 DEF CmOurs
  <2>4. Owned \subseteq DOMAIN cmZones
    BY DEF Owned
  <2>5. CmLookedAfter'
    <3>1. Owned \subseteq cmServed'
      BY <1>1, <1>3, <2>1, <2>4 DEF CmLookedAfter
    <3>2. QED
      BY <1>1, <2>1, <3>1, ZonesSame DEF CmLookedAfter
  <2>6. CmZoneNames(CmMaking) = {} /\ {r[2] : r \in cmTask.remove} = {}
    <3>1. CmMaking = {}
      BY <1>1 DEF CmMaking
    <3>2. QED
      BY <1>1, <3>1 DEF CmZoneNames
  <2>7. cmTask.serial = cmMaster.serial => OwnedNames = cmMaster.members
    BY <1>1, <2>1, <2>6 DEF CmFit
  <2>8. CmFit'
    BY <1>1, <1>4, <1>5, <2>7, ZonesSame DEF CmFit
  <2>9. QED
    BY <2>3, <2>5, <2>8
<1>8. QED
  BY <1>4, <1>5, <1>6, <1>7 DEF CmInv

\* A zone made or deleted by hand, at any point of a refresh.
LEMMA HandCreateKeeps ==
  ASSUME CmInv, NEW n \in CmNames, CmHandCreate(n)
  PROVE  CmInv'
<1>1. /\ Named(n) = {} /\ cmZones' = Keep(n, FALSE) /\ cmMade' = cmMade + 1 /\ cmHand' = cmHand \cup {cmMade + 1}
      /\ cmDisturbed' = TRUE /\ UNCHANGED <<cmMaster, cmState, cmTask, cmConfigured>>
  BY DEF CmHandCreate
<1>2. /\ CmZonesTyped'
      /\ DOMAIN cmZones' = DOMAIN cmZones \cup {cmMade'} /\ ~cmZones'[cmMade'].owned
      /\ \A i \in DOMAIN cmZones : cmZones'[i] = cmZones[i]
  BY <1>1, KeepZone
<1>3. CmSerials'
  BY <1>1 DEF CmInv, CmSerials
<1>4. cmMade \in Nat
  BY DEF CmInv, CmZonesTyped
<1>5. CmTaskTyped'
  <2>1. CASE Applying
    <3>1. cmTask \in CmApply /\ cmTask.serial <= cmMaster.serial /\ cmTask.making <= cmMade /\ cmTask.making \in Nat
      BY <2>1, ApplyingTyped DEF CmApply
    <3>2. cmTask.making <= cmMade'
      BY <1>1, <1>4, <3>1
    <3>3. QED
      BY <1>1, <3>1, <3>2 DEF CmTaskTyped, CmApply
  <2>2. CASE ~Applying
    BY <1>1, <2>2 DEF CmInv, CmTaskTyped, Applying
  <2>3. QED
    BY <2>1, <2>2
<1>6. CmHandSafe'
  <2>1. cmHand' \subseteq DOMAIN cmZones' /\ \A i \in cmHand' : ~cmZones'[i].owned
    BY <1>1, <1>2 DEF CmInv, CmHandSafe
  <2>2. ASSUME Applying' PROVE /\ cmTask'.making \notin cmHand'
                               /\ \A r \in cmTask'.remove : r[1] \notin cmHand' /\ r[1] <= cmMade'
    <3>1. Applying
      BY <1>1, <2>2 DEF Applying
    <3>2. cmTask \in CmApply /\ cmTask.making <= cmMade
      BY <3>1, ApplyingTyped
    <3>3. cmTask.making \in Nat /\ \A r \in cmTask.remove : r[1] \in Nat
      BY <3>2 DEF CmApply
    <3>4. /\ cmTask.making \notin cmHand /\ \A r \in cmTask.remove : r[1] \notin cmHand /\ r[1] <= cmMade
      BY <3>1 DEF CmInv, CmHandSafe
    <3>5. QED
      BY <1>1, <1>4, <3>2, <3>3, <3>4
  <2>3. QED
    BY <2>1, <2>2 DEF CmHandSafe
<1>7. QED
  BY <1>1, <1>2, <1>3, <1>5, <1>6 DEF CmInv

\* A zone deleted by hand, which disturbs the catalog.
LEMMA HandDeleteKeeps ==
  ASSUME CmInv, NEW i \in DOMAIN cmZones, CmHandDelete(i)
  PROVE  CmInv'
<1>1. /\ cmZones' = Drop({i}) /\ cmHand' = cmHand \ {i} /\ cmDisturbed' = TRUE
      /\ UNCHANGED <<cmMaster, cmState, cmTask, cmConfigured, cmMade>>
  BY DEF CmHandDelete
<1>2. CmZonesTyped' /\ DOMAIN cmZones' = DOMAIN cmZones \ {i} /\ \A j \in DOMAIN cmZones' : cmZones'[j] = cmZones[j]
  BY <1>1, DropZones
<1>3. CmSerials' /\ CmTaskTyped'
  BY <1>1 DEF CmInv, CmSerials, CmTaskTyped
<1>4. CmHandSafe'
  BY <1>1, <1>2 DEF CmInv, CmHandSafe, Applying
<1>5. QED
  BY <1>1, <1>2, <1>3, <1>4 DEF CmInv

\* A restart, wherever the refresh is.
LEMMA CmRestartKeeps == CmInv /\ CmRestart => CmInv'
<1> SUFFICES ASSUME CmInv, CmRestart PROVE CmInv'
  OBVIOUS
<1>1. /\ cmTask' = CmIdle /\ cmState' = [serial |-> 0, due |-> TRUE]
      /\ cmServed' = DOMAIN cmZones /\ cmFollowed' = OwnedNames
      /\ cmDisturbed' = (cmDisturbed \/ (Applying /\ cmTask.making # 0))
      /\ UNCHANGED <<cmMaster, cmZones, cmConfigured, cmMade, cmHand>>
  BY DEF CmRestart
<1>2. CmTaskTyped' /\ ~Applying' /\ cmTask'.pc # "soa"
  BY <1>1 DEF CmTaskTyped, CmIdle, Applying
<1>3. CmSerials' /\ cmState'.serial # cmMaster'.serial
  BY <1>1 DEF CmInv, CmSerials
<1>4. CmZonesTyped' /\ CmHandSafe'
  BY <1>1, <1>2 DEF CmInv, CmZonesTyped, CmHandSafe
<1>5. ASSUME ~cmDisturbed' PROVE CmOurs' /\ CmLookedAfter' /\ CmFit'
  <2>1. CmOurs /\ (Applying => cmTask.making = 0)
    BY <1>1, <1>5 DEF CmInv
  <2>2. 0 \notin DOMAIN cmZones
    BY DEF CmInv, CmZonesTyped
  <2>3. CmOurs'
    BY <1>1, <1>2, <2>1, <2>2 DEF CmOurs
  <2>4. CmLookedAfter'
    <3>1. Owned \subseteq DOMAIN cmZones
      BY DEF Owned
    <3>2. QED
      BY <1>1, <3>1, ZonesSame DEF CmLookedAfter
  <2>5. CmFit'
    BY <1>2, <1>3 DEF CmFit
  <2>6. QED
    BY <2>3, <2>4, <2>5
<1>6. QED
  BY <1>2, <1>3, <1>4, <1>5 DEF CmInv

\* The first states.
LEMMA CmInitInv == CmInit => CmInv
<1> SUFFICES ASSUME CmInit PROVE CmInv
  OBVIOUS
<1>1. /\ cmMaster = [serial |-> 1, members |-> CmNames] /\ cmZones = <<>> /\ cmFollowed = {} /\ cmServed = {}
      /\ cmState = [serial |-> 0, due |-> TRUE] /\ cmTask = CmIdle /\ cmConfigured = TRUE
      /\ cmMade = 0 /\ cmHand = {} /\ cmDisturbed = FALSE
  BY DEF CmInit
<1>2. DOMAIN cmZones = {} /\ ~Applying /\ cmTask.pc # "soa" /\ cmState.serial # cmMaster.serial
  BY <1>1 DEF Applying, CmIdle
<1>3. Owned = {} /\ OwnedNames = {}
  BY <1>2 DEF Owned, OwnedNames
<1>4. cmZones \in [DOMAIN cmZones -> CmZone]
  BY <1>1
<1>5. CmZonesTyped /\ CmTaskTyped /\ CmHandSafe /\ CmSerials
  <2>1. CmZonesTyped
    BY <1>1, <1>2, <1>4 DEF CmZonesTyped
  <2>2. CmTaskTyped /\ CmHandSafe
    BY <1>1, <1>2 DEF CmTaskTyped, CmHandSafe
  <2>3. /\ cmMaster \in [serial : Nat \ {0}, members : SUBSET CmNames]
        /\ cmState \in [serial : Nat, due : BOOLEAN]
    BY <1>1
  <2>4. cmState.serial = 0 /\ cmMaster.serial = 1
    BY <1>1
  <2>5. CmSerials
    <3>1. cmState.serial <= cmMaster.serial
      BY <2>4
    <3>2. {cmConfigured, cmDisturbed} \subseteq BOOLEAN
      BY <1>1, Zenon
    <3>3. QED
      BY <2>3, <3>1, <3>2, Zenon DEF CmSerials
  <2>6. QED
    BY <2>1, <2>2, <2>5
<1>6. CmOurs /\ CmLookedAfter /\ CmFit
  BY <1>1, <1>2, <1>3 DEF CmOurs, CmLookedAfter, CmFit
<1>7. QED
  BY <1>5, <1>6 DEF CmInv

\* Every step of the refresh, the operator, the master and a restart keeps it.
LEMMA CmStep == CmInv /\ [CmNext]_cmVars => CmInv'
<1> SUFFICES ASSUME CmInv, [CmNext]_cmVars PROVE CmInv'
  OBVIOUS
<1>0. /\ cmState \in [serial : Nat, due : BOOLEAN] /\ cmMaster \in [serial : Nat \ {0}, members : SUBSET CmNames]
      /\ cmState.serial <= cmMaster.serial
  BY DEF CmInv, CmSerials
<1>1. CASE CmTick
  BY <1>1, CmTickKeeps
<1>2. CASE CmTransfer
  BY <1>2, CmTransferKeeps
<1>3. CASE CmUnreachable
  <2>1. /\ cmTask' = CmIdle /\ cmState' = [cmState EXCEPT !.due = FALSE] /\ ~Applying
        /\ UNCHANGED <<cmMaster, cmConfigured, cmHand, cmDisturbed, cmZones, cmFollowed, cmServed, cmMade>>
    BY <1>3 DEF CmUnreachable, cmOperator, Applying
  <2>2. CmSerials' /\ cmState'.serial = cmState.serial
    BY <1>0, <2>1 DEF CmInv, CmSerials
  <2>3. QED
    BY <2>1, <2>2, CmRestingStep
<1>4. ASSUME NEW n \in CmNames, CmFollow(n) \/ CmCreate(n) \/ CmHandCreate(n) PROVE CmInv'
  BY <1>4, CmFollowKeeps, CmCreateKeeps, HandCreateKeeps
<1>5. CASE CmOwn
  BY <1>5, CmOwnKeeps
<1>6. CASE Applying /\ \E r \in cmTask.remove : CmRemove(r)
  BY <1>6, CmRemoveKeeps
<1>7. CASE CmFinish
  BY <1>7, CmFinishKeeps
<1>8. CASE CmIntervalPasses
  <2>1. /\ cmState' = [cmState EXCEPT !.due = TRUE]
        /\ UNCHANGED <<cmMaster, cmConfigured, cmHand, cmDisturbed, cmZones, cmFollowed, cmServed, cmTask, cmMade>>
    BY <1>8 DEF CmIntervalPasses, cmOperator
  <2>2. cmState' \in [serial : Nat, due : BOOLEAN] /\ cmState'.serial = cmState.serial
    BY <1>0, <2>1
  <2>3. CmSerials' /\ cmMaster.serial <= cmMaster'.serial
    BY <1>0, <2>1, <2>2 DEF CmInv, CmSerials
  <2>4. QED
    BY <2>1, <2>2, <2>3, CmCalmStep
<1>9. CASE CmNotify
  <2>1. /\ cmState' = [serial |-> 0, due |-> TRUE]
        /\ UNCHANGED <<cmMaster, cmConfigured, cmHand, cmDisturbed, cmZones, cmFollowed, cmServed, cmTask, cmMade>>
    BY <1>9 DEF CmNotify
  <2>2. CmSerials' /\ cmState'.serial = 0 /\ cmMaster.serial <= cmMaster'.serial
    BY <1>0, <2>1 DEF CmInv, CmSerials
  <2>3. QED
    BY <2>1, <2>2, CmCalmStep
<1>10. ASSUME NEW ms \in SUBSET CmNames, CmPublish(ms) PROVE CmInv'
  <2>1. /\ cmMaster' = [serial |-> cmMaster.serial + 1, members |-> ms]
        /\ UNCHANGED <<cmState, cmConfigured, cmHand, cmDisturbed, cmZones, cmFollowed, cmServed, cmTask, cmMade>>
    BY <1>10 DEF CmPublish
  <2>2. cmMaster.serial + 1 \in Nat \ {0} /\ cmMaster'.serial = cmMaster.serial + 1 /\ cmState.serial <= cmMaster.serial + 1
    BY <1>0, <2>1
  <2>3. CmSerials'
    BY <1>0, <2>1, <2>2 DEF CmInv, CmSerials
  <2>4. cmMaster.serial <= cmMaster'.serial /\ cmMaster'.serial # cmMaster.serial
    BY <1>0, <2>2
  <2>5. QED
    BY <2>1, <2>3, <2>4, CmCalmStep
<1>11. CASE CmConfigure
  <2>1. /\ cmState' = [cmState EXCEPT !.due = TRUE] /\ cmConfigured' = ~cmConfigured
        /\ UNCHANGED <<cmMaster, cmHand, cmDisturbed, cmZones, cmFollowed, cmServed, cmTask, cmMade>>
    BY <1>11 DEF CmConfigure
  <2>2. cmState' \in [serial : Nat, due : BOOLEAN] /\ cmState'.serial = cmState.serial
    BY <1>0, <2>1
  <2>3. CmSerials' /\ cmMaster.serial <= cmMaster'.serial
    BY <1>0, <2>1, <2>2 DEF CmInv, CmSerials
  <2>4. QED
    BY <2>1, <2>2, <2>3, CmCalmStep
<1>12. CASE \E i \in DOMAIN cmZones : CmHandDelete(i)
  BY <1>12, HandDeleteKeeps
<1>13. CASE CmRestart
  BY <1>13, CmRestartKeeps
<1>14. CASE UNCHANGED cmVars
  <2>1. UNCHANGED <<cmMaster, cmState, cmConfigured, cmHand, cmDisturbed, cmZones, cmFollowed, cmServed, cmTask, cmMade>>
    BY <1>14 DEF cmVars
  <2>2. CmSerials' /\ cmMaster.serial <= cmMaster'.serial
    BY <1>0, <2>1 DEF CmInv, CmSerials
  <2>3. QED
    BY <2>1, <2>2, CmCalmStep
<1>15. QED
  BY <1>1, <1>2, <1>3, <1>4, <1>5, <1>6, <1>7, <1>8, <1>9, <1>10, <1>11, <1>12, <1>13, <1>14 DEF CmNext

\* Following a catalog costs the operator no zone made by hand, and a serial noted stands
\* for members that are there, followed and served: for any set of names, any number of
\* refreshes and any interleaving with the operator's edits, NOTIFYs and restarts.
THEOREM CatalogInStepCorrect == CmSpec => []CatalogInStep
<1>1. CmSpec => []CmInv
  BY CmInitInv, CmStep, PTL DEF CmSpec
<1>2. CmInv => CatalogInStep
  <2> SUFFICES ASSUME CmInv PROVE CatalogInStep
    OBVIOUS
  <2>1. cmHand \subseteq DOMAIN cmZones
    BY DEF CmInv, CmHandSafe
  <2>2. ASSUME cmTask.pc = "idle", cmState.serial = cmMaster.serial, ~cmDisturbed
        PROVE  /\ OwnedNames = cmMaster.members /\ OwnedNames \subseteq cmFollowed
               /\ Owned \subseteq cmServed
    BY <2>2 DEF CmInv, CmLookedAfter, CmFit, Applying
  <2>3. QED
    BY <2>1, <2>2 DEF CatalogInStep
<1>3. QED
  BY <1>1, <1>2, PTL
----------------------------------------------------------------------------
(* Backup and restore *)

BrDbFile == [v : Nat, over : SUBSET Nat, state : {"whole", "part", "mixed"}]
BrBackupFile == [v : Nat, ai : Nat, state : {"whole"}]
BrWorkFile == [v : Nat, ai : Nat, state : {"whole", "part", "mixed"}, by : SUBSET BrJobs]
BrWorking(t) == brJob[t].pc \in {"copying", "rename"}
AtMostOne(S) == \A f, g \in S : f = g

BrTyped ==
  /\ brDb \subseteq BrDbFile /\ AtMostOne(brDb) /\ brAside \subseteq BrDbFile
  /\ brAi \in Nat /\ brWant \subseteq Nat /\ brSaves \in Nat /\ brFiles \subseteq BrBackupFile
  /\ brPartial \subseteq BrWorkFile /\ AtMostOne(brPartial)
  /\ brStaged \subseteq BrWorkFile /\ AtMostOne(brStaged)
  /\ brJob \in [BrJobs -> [pc : {"idle", "backup", "copying", "rename"}, file : SUBSET BrDbFile]]
  /\ brBoot \in {"down", "aside", "place", "open", "finish", "moving", "up"}

\* Only a job that copies writes a file.
BrWriters == \A f \in brPartial \cup brStaged : \A t \in f.by : brJob[t].pc = "copying"

\* A file that is whole is written by nobody any more.
BrWholeAtRest == \A f \in brPartial \cup brStaged : f.state = "whole" => f.by = {}

\* The file a job works at is its own.
BrClean(t) ==
  /\ brJob[t].pc = "copying" => \A f \in brPartial : f.by = {t} /\ f.state = "part"
  /\ brJob[t].pc = "rename" => \A f \in brPartial : f.state = "whole"

\* Stagings that have never overlapped are clean; the console's end with the server;
\* and one that goes on through a start whose check it did not race is clean.
BrStagings ==
  /\ "overlap" \notin brErred => \A t \in BrJobs : BrClean(t) /\ (BrWorking(t) => \A o \in BrJobs \ {t} : ~BrWorking(o))
  /\ brBoot # "up" => brJob["web"].pc = "idle"
  /\ brBoot \notin {"up", "down"} /\ "late" \notin brErred => BrClean("cli")

\* What is to be put in place is there, and whole.
BrReady ==
  /\ brStaged # {}
  /\ "late" \notin brErred => BrClean("cli") /\ \A f \in brStaged : f.state = "whole"

\* The database is away only between the two renames, or when the start got no
\* further; then what replaces it is ready.
BrBetween ==
  /\ brBoot \in {"aside", "place"} => BrReady
  /\ brBoot = "place" => brDb = {}
  /\ brDb = {} => /\ brBoot \in {"down", "aside", "place", "open"}
                  /\ "late" \notin brErred => BrReady
                  /\ brBoot = "open" /\ "late" \notin brErred => "apply" \in brErred

\* Every database is whole, and a new one (0) is made, backed up and restored only
\* once a rename was refused.
BrContents ==
  "late" \notin brErred =>
    /\ \A d \in brDb : d.state = "whole"
    /\ "apply" \notin brErred =>
         /\ \A d \in brDb : d.v # 0
         /\ \A t \in BrJobs : \A d \in brJob[t].file : d.v # 0
         /\ \A f \in brFiles \cup brPartial \cup brStaged : f.v # 0

\* The tables a backup came with are in the database until the start that put it in
\* place has moved them, and they are what the restore is to bring back.
BrOverrides ==
  brErred \subseteq {"overlap", "late"} =>
    /\ brBoot \in {"finish", "moving"} => brWant # {} /\ \A d \in brDb : d.over = brWant
    /\ brBoot \notin {"finish", "moving"} => \A d \in brDb : d.over = {}
    /\ brBoot \notin {"finish", "moving"} /\ brWant # {} => brAi \in brWant

BrInv == BrTyped /\ BrWriters /\ BrWholeAtRest /\ BrStagings /\ BrBetween /\ BrContents /\ BrOverrides /\ PreviousKept

\* A job's file is its own in the next state too when neither has changed.
LEMMA BrCleanStays ==
  ASSUME NEW t \in BrJobs, BrClean(t), brJob'[t].pc = brJob[t].pc, brPartial' = brPartial
  PROVE  BrClean(t)'
BY DEF BrClean

\* A step of the server alone leaves the stagings as they were.
LEMMA BrServerStep ==
  ASSUME BrInv, UNCHANGED brStage, brErred \subseteq brErred',
         brBoot = "up" => brBoot' = "up", brBoot' \in {"up", "down"} \/ brBoot \notin {"up", "down"}
  PROVE  BrWriters' /\ BrWholeAtRest' /\ BrStagings' /\ (BrReady => BrReady')
<1>1. UNCHANGED <<brPartial, brStaged, brJob, brFiles>>
  BY DEF brStage
<1>2. BrWriters' /\ BrWholeAtRest'
  BY <1>1 DEF BrInv, BrWriters, BrWholeAtRest
<1>3. \A t \in BrJobs : /\ BrClean(t) => BrClean(t)'
                        /\ BrWorking(t)' <=> BrWorking(t)
  BY <1>1, BrCleanStays DEF BrWorking
<1>4. "cli" \in BrJobs
  BY DEF BrJobs
<1>5. BrStagings'
  <2>1. ASSUME "overlap" \notin brErred'
        PROVE  \A t \in BrJobs : BrClean(t)' /\ (BrWorking(t)' => \A o \in BrJobs \ {t} : ~BrWorking(o)')
    BY <1>3, <2>1 DEF BrInv, BrStagings
  <2>2. brBoot' # "up" => brJob'["web"].pc = "idle"
    BY <1>1 DEF BrInv, BrStagings
  <2>3. brBoot' \notin {"up", "down"} /\ "late" \notin brErred' => BrClean("cli")'
    BY <1>3, <1>4 DEF BrInv, BrStagings
  <2>4. QED
    BY <2>1, <2>2, <2>3 DEF BrStagings
<1>6. BrReady => BrReady'
  BY <1>1, <1>3, <1>4 DEF BrReady
<1>7. QED
  BY <1>2, <1>5, <1>6

\* A step of a job leaves the database alone.
LEMMA BrJobStep ==
  ASSUME BrInv, UNCHANGED <<brDb, brAi, brAside, brBoot, brLast, brWant>>,
         brErred \subseteq brErred', brErred' \subseteq brErred \cup {"overlap"},
         brBoot # "up" => (BrReady => BrReady')
  PROVE  BrBetween' /\ BrOverrides' /\ PreviousKept'
<1>1. PreviousKept'
  BY DEF BrInv, PreviousKept
<1>2. BrOverrides'
  BY DEF BrInv, BrOverrides
<1>3. BrBetween'
  BY DEF BrInv, BrBetween
<1>4. QED
  BY <1>1, <1>2, <1>3

\* The console's edits.
LEMMA BrSaveKeeps == BrInv /\ (\E ai \in BOOLEAN : BrSave(ai)) => BrInv'
<1> SUFFICES ASSUME BrInv, NEW ai \in BOOLEAN, BrSave(ai) PROVE BrInv'
  OBVIOUS
<1>1. /\ brBoot = "up" /\ brSaves' = brSaves + 1 /\ UNCHANGED <<brAside, brStage, brBoot, brErred>>
      /\ \/ brAi' = brSaves + 2 /\ brWant' = {} /\ UNCHANGED <<brDb, brLast>>
         \/ /\ brDb' = {[d EXCEPT !.v = brSaves + 2] : d \in brDb} /\ brLast' = brSaves + 2
            /\ UNCHANGED <<brAi, brWant>>
  BY DEF BrSave, BrUp
<1>2. /\ brDb \subseteq BrDbFile /\ AtMostOne(brDb) /\ brDb # {} /\ brSaves \in Nat
  BY <1>1 DEF BrInv, BrTyped, BrBetween
<1>3. BrWriters' /\ BrWholeAtRest' /\ BrStagings' /\ (BrReady => BrReady')
  BY <1>1, BrServerStep
<1>4. UNCHANGED <<brPartial, brStaged, brJob, brFiles>>
  BY <1>1 DEF brStage
<1>5. brSaves' \in Nat /\ brSaves + 2 \in Nat /\ brSaves + 2 # 0
  BY <1>1, <1>2
<1>6. PICK d \in brDb : TRUE
  BY <1>2
<1>7. brDb = {d} /\ d \in BrDbFile
  BY <1>2, <1>6 DEF AtMostOne
<1> DEFINE e == [d EXCEPT !.v = brSaves + 2]
<1>8. e \in BrDbFile /\ e.v = brSaves + 2 /\ e.state = d.state /\ e.over = d.over
  BY <1>5, <1>7 DEF BrDbFile
<1>9. brDb' = {d} \/ brDb' = {e}
  BY <1>1, <1>7
<1>10. CASE brAi' = brSaves + 2 /\ brWant' = {} /\ UNCHANGED <<brDb, brLast>>
  <2>1. BrTyped'
    BY <1>1, <1>4, <1>5, <1>10 DEF BrInv, BrTyped, AtMostOne
  <2>2. BrBetween' /\ BrContents' /\ PreviousKept'
    BY <1>1, <1>4, <1>10, <1>2 DEF BrInv, BrBetween, BrContents, PreviousKept
  <2>3. BrOverrides'
    BY <1>1, <1>10 DEF BrInv, BrOverrides
  <2>4. QED
    BY <1>3, <2>1, <2>2, <2>3 DEF BrInv
<1>11. CASE brDb' = {[c EXCEPT !.v = brSaves + 2] : c \in brDb} /\ brLast' = brSaves + 2 /\ UNCHANGED <<brAi, brWant>>
  <2>1. brDb' = {e}
    BY <1>7, <1>11
  <2> HIDE DEF e
  <2>2. BrTyped'
    BY <1>1, <1>4, <1>5, <1>8, <1>11, <2>1 DEF BrInv, BrTyped, AtMostOne
  <2>3. BrBetween'
    BY <1>1, <2>1 DEF BrBetween
  <2>4. BrContents'
    BY <1>1, <1>4, <1>5, <1>6, <1>8, <2>1 DEF BrInv, BrContents
  <2>5. PreviousKept'
    BY <1>8, <1>11, <2>1 DEF PreviousKept
  <2>6. BrOverrides'
    BY <1>1, <1>6, <1>8, <1>11, <2>1 DEF BrInv, BrOverrides
  <2>7. QED
    BY <1>3, <2>2, <2>3, <2>4, <2>5, <2>6 DEF BrInv
<1>12. QED
  BY <1>1, <1>10, <1>11

\* A backup is taken of what is in use.
LEMMA BrBackupCopiesKeeps == BrInv /\ (\E t \in BrJobs : BrBackupCopies(t)) => BrInv'
<1> SUFFICES ASSUME BrInv, NEW t \in BrJobs, BrBackupCopies(t) PROVE BrInv'
  OBVIOUS
<1>1. PICK d \in brDb : brJob' = [brJob EXCEPT ![t] = [pc |-> "backup", file |-> {d}]]
  BY DEF BrBackupCopies
<1>2. /\ brJob[t].pc = "idle" /\ brBoot = "up"
      /\ UNCHANGED <<brDb, brAi, brAside, brPartial, brStaged, brFiles, brBoot, brSaves, brLast, brWant, brErred>>
  BY DEF BrBackupCopies, BrHere, BrUp, brData, brSeen
<1>3. /\ brJob \in [BrJobs -> [pc : {"idle", "backup", "copying", "rename"}, file : SUBSET BrDbFile]]
      /\ d \in BrDbFile
  BY DEF BrInv, BrTyped
<1>4. /\ brJob' \in [BrJobs -> [pc : {"idle", "backup", "copying", "rename"}, file : SUBSET BrDbFile]]
      /\ brJob'[t].pc = "backup" /\ brJob'[t].file = {d}
      /\ \A o \in BrJobs : o # t => brJob'[o] = brJob[o]
  BY <1>1, <1>3
<1>5. BrTyped'
  BY <1>2, <1>4 DEF BrInv, BrTyped, AtMostOne
<1>6. BrWriters' /\ BrWholeAtRest'
  <2>1. \A f \in brPartial \cup brStaged : f.by \subseteq BrJobs
    BY DEF BrInv, BrTyped, BrWorkFile
  <2>2. QED
    BY <1>2, <1>4, <2>1 DEF BrInv, BrWriters, BrWholeAtRest
<1>7. \A o \in BrJobs : (BrClean(o) => BrClean(o)') /\ (BrWorking(o)' <=> BrWorking(o))
  BY <1>2, <1>4 DEF BrClean, BrWorking
<1>8. BrStagings'
  BY <1>2, <1>7 DEF BrInv, BrStagings
<1>9. BrContents'
  BY <1>2, <1>4 DEF BrInv, BrContents
<1>10. BrBetween' /\ BrOverrides' /\ PreviousKept'
  BY <1>2, BrJobStep
<1>11. QED
  BY <1>5, <1>6, <1>8, <1>9, <1>10 DEF BrInv

\* A backup gets the overrides and is downloaded.
LEMMA BrBackupFinishesKeeps == BrInv /\ (\E t \in BrJobs : BrBackupFinishes(t)) => BrInv'
<1> SUFFICES ASSUME BrInv, NEW t \in BrJobs, BrBackupFinishes(t) PROVE BrInv'
  OBVIOUS
<1> DEFINE copies == {c \in brJob[t].file : c.over = {}}
           new == {[v |-> d.v, ai |-> brAi, state |-> "whole"] : d \in copies}
<1>1. /\ brJob[t].pc = "backup" /\ brFiles' = brFiles \cup new /\ brJob' = [brJob EXCEPT ![t] = BrIdle]
      /\ UNCHANGED <<brDb, brAi, brAside, brPartial, brStaged, brBoot, brSaves, brLast, brWant, brErred>>
  BY DEF BrBackupFinishes, brData, brSeen
<1>2. /\ brJob \in [BrJobs -> [pc : {"idle", "backup", "copying", "rename"}, file : SUBSET BrDbFile]]
      /\ brAi \in Nat /\ brFiles \subseteq BrBackupFile
  BY DEF BrInv, BrTyped
<1>3. copies \subseteq BrDbFile /\ copies \subseteq brJob[t].file
  BY <1>2
<1>4. new \subseteq BrBackupFile
  BY <1>2, <1>3 DEF BrBackupFile, BrDbFile
<1>5. \A f \in new : \E d \in brJob[t].file : f.v = d.v
  BY <1>3
<1> HIDE DEF new
<1>6. BrIdle \in [pc : {"idle", "backup", "copying", "rename"}, file : SUBSET BrDbFile]
      /\ BrIdle.pc = "idle" /\ BrIdle.file = {}
  BY DEF BrIdle
<1>7. /\ brJob' \in [BrJobs -> [pc : {"idle", "backup", "copying", "rename"}, file : SUBSET BrDbFile]]
      /\ brJob'[t].pc = "idle" /\ brJob'[t].file = {}
      /\ \A o \in BrJobs : o # t => brJob'[o] = brJob[o]
  BY <1>1, <1>2, <1>6
<1>8. BrTyped'
  BY <1>1, <1>2, <1>4, <1>7 DEF BrInv, BrTyped, AtMostOne
<1>9. BrWriters' /\ BrWholeAtRest'
  <2>1. \A f \in brPartial \cup brStaged : f.by \subseteq BrJobs
    BY DEF BrInv, BrTyped, BrWorkFile
  <2>2. QED
    BY <1>1, <1>7, <2>1 DEF BrInv, BrWriters, BrWholeAtRest
<1>10. \A o \in BrJobs : (BrClean(o) => BrClean(o)') /\ (BrWorking(o)' <=> BrWorking(o))
  BY <1>1, <1>7 DEF BrClean, BrWorking
<1>11. "cli" \in BrJobs /\ "web" \in BrJobs
  BY DEF BrJobs
<1>12. BrStagings'
  <2>1. "overlap" \notin brErred' => \A o \in BrJobs : BrClean(o)' /\ (BrWorking(o)' => \A p \in BrJobs \ {o} : ~BrWorking(p)')
    BY <1>1, <1>10 DEF BrInv, BrStagings
  <2>2. brBoot' # "up" => brJob'["web"].pc = "idle"
    BY <1>1, <1>7, <1>11 DEF BrInv, BrStagings
  <2>3. brBoot' \notin {"up", "down"} /\ "late" \notin brErred' => BrClean("cli")'
    BY <1>1, <1>10, <1>11 DEF BrInv, BrStagings
  <2>4. QED
    BY <2>1, <2>2, <2>3 DEF BrStagings
<1>13. BrContents'
  BY <1>1, <1>5, <1>7 DEF BrInv, BrContents
<1>14. BrReady => BrReady'
  BY <1>1, <1>10, <1>11 DEF BrReady
<1>15. BrBetween' /\ BrOverrides' /\ PreviousKept'
  BY <1>1, <1>14, BrJobStep
<1>16. QED
  BY <1>8, <1>9, <1>12, <1>13, <1>15 DEF BrInv

\* A staging begins, perhaps over another's.
LEMMA BrStagesKeeps == BrInv /\ (\E t \in BrJobs : \E f \in brFiles \cup BrForeign : BrStages(t, f)) => BrInv'
<1> SUFFICES ASSUME BrInv, NEW t \in BrJobs, NEW f \in brFiles \cup BrForeign, BrStages(t, f) PROVE BrInv'
  OBVIOUS
<1> DEFINE others == UNION {p.by : p \in brPartial}
           overlap == \E o \in BrJobs \ {t} : brJob[o].pc \in {"copying", "rename"}
           g == [v |-> f.v, ai |-> f.ai, state |-> "part", by |-> others \cup {t}]
           j == [pc |-> "copying", file |-> {}]
<1>1. /\ brJob[t].pc = "idle" /\ (t = "web" => brBoot = "up") /\ f.state = "whole"
      /\ brPartial' = {g} /\ brJob' = [brJob EXCEPT ![t] = j]
      /\ brErred' = brErred \cup (IF overlap THEN {"overlap"} ELSE {})
      /\ UNCHANGED <<brDb, brAi, brAside, brStaged, brFiles, brBoot, brSaves, brLast, brWant>>
  BY DEF BrStages, BrHere, BrUp, CheckBackup, BrStep, brData
<1>2. f \in brFiles
  BY <1>1, BrAssumption
<1>3. /\ brJob \in [BrJobs -> [pc : {"idle", "backup", "copying", "rename"}, file : SUBSET BrDbFile]]
      /\ brPartial \subseteq BrWorkFile /\ brStaged \subseteq BrWorkFile /\ f \in BrBackupFile
  BY <1>2 DEF BrInv, BrTyped
<1>4. others \subseteq BrJobs /\ \A o \in others : brJob[o].pc = "copying"
  BY <1>3 DEF BrInv, BrWriters, BrWorkFile
<1>5. /\ brErred \subseteq brErred' /\ brErred' \subseteq brErred \cup {"overlap"}
      /\ "overlap" \notin brErred' => ~overlap /\ "overlap" \notin brErred
  BY <1>1
<1>6. ~overlap => others = {}
  BY <1>1, <1>4
<1> HIDE DEF others, overlap
<1>7. g \in BrWorkFile /\ g.v = f.v /\ g.state = "part" /\ g.by = others \cup {t}
  BY <1>3, <1>4 DEF BrWorkFile, BrBackupFile
<1>8. j \in [pc : {"idle", "backup", "copying", "rename"}, file : SUBSET BrDbFile] /\ j.pc = "copying" /\ j.file = {}
  OBVIOUS
<1> HIDE DEF g, j
<1>9. /\ brJob' \in [BrJobs -> [pc : {"idle", "backup", "copying", "rename"}, file : SUBSET BrDbFile]]
      /\ brJob'[t].pc = "copying" /\ brJob'[t].file = {}
      /\ \A o \in BrJobs : o # t => brJob'[o] = brJob[o]
  BY <1>1, <1>3, <1>8
<1>10. BrTyped'
  BY <1>1, <1>7, <1>9 DEF BrInv, BrTyped, AtMostOne
<1>11. BrWriters'
  <2>1. \A h \in brStaged : h.by \subseteq BrJobs
    BY <1>3 DEF BrWorkFile
  <2>2. \A h \in brStaged : \A o \in h.by : brJob'[o].pc = "copying"
    BY <1>9, <2>1 DEF BrInv, BrWriters
  <2>3. \A o \in g.by : brJob'[o].pc = "copying"
    BY <1>4, <1>7, <1>9
  <2>4. QED
    BY <1>1, <2>2, <2>3 DEF BrWriters
<1>12. BrWholeAtRest'
  BY <1>1, <1>7 DEF BrInv, BrWholeAtRest
<1>13. others = {} => BrClean(t)'
  BY <1>1, <1>7, <1>9 DEF BrClean
<1>14. "cli" \in BrJobs /\ "web" \in BrJobs /\ \A o \in BrJobs : o = "cli" \/ o = "web"
  BY DEF BrJobs
<1>15. brBoot # "up" => t = "cli" /\ others = {}
  <2>1. brBoot # "up" => t = "cli" /\ brJob["web"].pc = "idle"
    BY <1>1, <1>14 DEF BrInv, BrStagings
  <2>2. QED
    BY <2>1, <1>1, <1>4, <1>14
<1>16. BrStagings'
  <2>1. ASSUME "overlap" \notin brErred'
        PROVE  \A o \in BrJobs : BrClean(o)' /\ (BrWorking(o)' => \A p \in BrJobs \ {o} : ~BrWorking(p)')
    <3>1. \A o \in BrJobs \ {t} : ~BrWorking(o) /\ ~BrWorking(o)'
      BY <1>5, <1>9, <2>1 DEF BrWorking, overlap
    <3>2. \A o \in BrJobs \ {t} : BrClean(o)'
      BY <3>1 DEF BrClean, BrWorking
    <3>3. BrClean(t)'
      BY <1>5, <1>6, <1>13, <2>1
    <3>4. QED
      BY <3>1, <3>2, <3>3
  <2>2. brBoot' # "up" => brJob'["web"].pc = "idle"
    BY <1>1, <1>9, <1>14, <1>15 DEF BrInv, BrStagings
  <2>3. brBoot' \notin {"up", "down"} /\ "late" \notin brErred' => BrClean("cli")'
    BY <1>1, <1>13, <1>15
  <2>4. QED
    BY <2>1, <2>2, <2>3 DEF BrStagings
<1>17. brBoot # "up" => (BrReady => BrReady')
  BY <1>1, <1>5, <1>13, <1>15 DEF BrReady
<1>18. BrContents'
  BY <1>1, <1>2, <1>5, <1>7, <1>9 DEF BrInv, BrContents
<1>19. BrBetween' /\ BrOverrides' /\ PreviousKept'
  BY <1>1, <1>5, <1>17, BrJobStep
<1>20. QED
  BY <1>10, <1>11, <1>12, <1>16, <1>18, <1>19 DEF BrInv

\* What a job's last write makes of the files it writes.
LEMMA BrWrittenFiles ==
  ASSUME NEW t \in BrJobs, NEW S \in SUBSET BrWorkFile, AtMostOne(S)
  PROVE  /\ BrWritten(t, S) \subseteq BrWorkFile /\ AtMostOne(BrWritten(t, S)) /\ (S # {} => BrWritten(t, S) # {})
         /\ \A g \in BrWritten(t, S) : \E f \in S :
              /\ g.v = f.v /\ g.by = f.by \ {t}
              /\ t \notin f.by => g = f
              /\ f.by = {t} /\ f.state = "part" => g.state = "whole"
              /\ g.state = "whole" => t \notin f.by \/ f.by = {t}
<1> DEFINE W(f) == IF t \notin f.by THEN f
                   ELSE [f EXCEPT !.by = @ \ {t}, !.state = IF f.by = {t} /\ @ = "part" THEN "whole" ELSE "mixed"]
<1>1. \A f \in S : /\ W(f) \in BrWorkFile /\ W(f).v = f.v /\ W(f).by = f.by \ {t}
                   /\ t \notin f.by => W(f) = f
                   /\ f.by = {t} /\ f.state = "part" => W(f).state = "whole"
                   /\ W(f).state = "whole" => t \notin f.by \/ f.by = {t}
  <2> SUFFICES ASSUME NEW f \in S
               PROVE  /\ W(f) \in BrWorkFile /\ W(f).v = f.v /\ W(f).by = f.by \ {t}
                      /\ t \notin f.by => W(f) = f
                      /\ f.by = {t} /\ f.state = "part" => W(f).state = "whole"
                      /\ W(f).state = "whole" => t \notin f.by \/ f.by = {t}
    OBVIOUS
  <2>1. f \in BrWorkFile
    OBVIOUS
  <2>2. CASE t \notin f.by
    BY <2>1, <2>2
  <2>3. CASE t \in f.by
    BY <2>1, <2>3 DEF BrWorkFile
  <2>4. QED
    BY <2>2, <2>3
<1>2. BrWritten(t, S) = {W(f) : f \in S}
  BY DEF BrWritten
<1> HIDE DEF W
<1>3. AtMostOne(BrWritten(t, S))
  BY <1>2 DEF AtMostOne
<1>4. QED
  BY <1>1, <1>2, <1>3

\* A copy is complete: whole, unless another job wrote into it.
LEMMA BrCopiedKeeps == BrInv /\ (\E t \in BrJobs : BrCopied(t)) => BrInv'
<1> SUFFICES ASSUME BrInv, NEW t \in BrJobs, BrCopied(t) PROVE BrInv'
  OBVIOUS
<1> DEFINE j == [pc |-> "rename", file |-> {}]
<1>1. /\ brJob[t].pc = "copying" /\ brJob' = [brJob EXCEPT ![t] = j]
      /\ brPartial' = BrWritten(t, brPartial) /\ brStaged' = BrWritten(t, brStaged)
      /\ UNCHANGED <<brDb, brAi, brAside, brFiles, brBoot, brSaves, brLast, brWant, brErred>>
  BY DEF BrCopied, BrStep, brData, brSeen
<1>2. /\ brJob \in [BrJobs -> [pc : {"idle", "backup", "copying", "rename"}, file : SUBSET BrDbFile]]
      /\ brPartial \subseteq BrWorkFile /\ brStaged \subseteq BrWorkFile /\ AtMostOne(brPartial) /\ AtMostOne(brStaged)
  BY DEF BrInv, BrTyped
<1>3. j \in [pc : {"idle", "backup", "copying", "rename"}, file : SUBSET BrDbFile] /\ j.pc = "rename" /\ j.file = {}
  OBVIOUS
<1> HIDE DEF j
<1>4. /\ brJob' \in [BrJobs -> [pc : {"idle", "backup", "copying", "rename"}, file : SUBSET BrDbFile]]
      /\ brJob'[t].pc = "rename" /\ brJob'[t].file = {}
      /\ \A o \in BrJobs : o # t => brJob'[o] = brJob[o]
  BY <1>1, <1>2, <1>3
<1>5. /\ brPartial' \subseteq BrWorkFile /\ AtMostOne(brPartial')
      /\ \A g \in brPartial' : \E f \in brPartial :
           /\ g.v = f.v /\ g.by = f.by \ {t} /\ (t \notin f.by => g = f)
           /\ f.by = {t} /\ f.state = "part" => g.state = "whole"
           /\ g.state = "whole" => t \notin f.by \/ f.by = {t}
  BY <1>1, <1>2, BrWrittenFiles
<1>6. /\ brStaged' \subseteq BrWorkFile /\ AtMostOne(brStaged') /\ (brStaged # {} => brStaged' # {})
      /\ \A g \in brStaged' : \E f \in brStaged :
           /\ g.v = f.v /\ g.by = f.by \ {t} /\ (t \notin f.by => g = f)
           /\ g.state = "whole" => t \notin f.by \/ f.by = {t}
  BY SMTT(30), <1>1, <1>2, BrWrittenFiles
<1>7. BrTyped'
  BY <1>1, <1>4, <1>5, <1>6 DEF BrInv, BrTyped, AtMostOne
<1>8. BrWriters' /\ BrWholeAtRest'
  <2>1. \A g \in brPartial' \cup brStaged' : \E f \in brPartial \cup brStaged :
           /\ g.by = f.by \ {t} /\ (t \notin f.by => g = f)
           /\ g.state = "whole" => t \notin f.by \/ f.by = {t}
    BY <1>5, <1>6
  <2>2. \A f \in brPartial \cup brStaged : f.by \subseteq BrJobs /\ (\A o \in f.by : brJob[o].pc = "copying")
                                           /\ (f.state = "whole" => f.by = {})
    BY <1>2 DEF BrInv, BrWriters, BrWholeAtRest, BrWorkFile
  <2>3. \A g \in brPartial' \cup brStaged' : \A o \in g.by : brJob'[o].pc = "copying"
    BY <1>4, <2>1, <2>2
  <2>4. \A g \in brPartial' \cup brStaged' : g.state = "whole" => g.by = {}
    BY <2>1, <2>2
  <2>5. QED
    BY <2>3, <2>4 DEF BrWriters, BrWholeAtRest
<1>9. BrClean(t) => BrClean(t)'
  BY <1>1, <1>4, <1>5 DEF BrClean
<1>10. \A o \in BrJobs : BrWorking(o)' <=> BrWorking(o)
  BY <1>1, <1>4 DEF BrWorking
<1>11. "cli" \in BrJobs /\ "web" \in BrJobs /\ \A o \in BrJobs : o = "cli" \/ o = "web"
  BY DEF BrJobs
<1>12. brBoot # "up" => t = "cli"
  BY <1>1, <1>11 DEF BrInv, BrStagings
<1>13. BrStagings'
  <2>1. ASSUME "overlap" \notin brErred'
        PROVE  \A o \in BrJobs : BrClean(o)' /\ (BrWorking(o)' => \A p \in BrJobs \ {o} : ~BrWorking(p)')
    <3>1. \A o \in BrJobs : BrClean(o) /\ (BrWorking(o) => \A p \in BrJobs \ {o} : ~BrWorking(p))
      BY <1>1, <2>1 DEF BrInv, BrStagings
    <3>2. BrWorking(t)
      BY <1>1 DEF BrWorking
    <3>3. \A o \in BrJobs \ {t} : ~BrWorking(o)'
      BY <1>10, <3>1, <3>2
    <3>4. \A o \in BrJobs \ {t} : BrClean(o)'
      BY <3>3 DEF BrClean, BrWorking
    <3>5. QED
      BY <1>9, <1>10, <3>1, <3>4
  <2>2. brBoot' # "up" => brJob'["web"].pc = "idle"
    BY <1>1, <1>4, <1>11, <1>12 DEF BrInv, BrStagings
  <2>3. brBoot' \notin {"up", "down"} /\ "late" \notin brErred' => BrClean("cli")'
    BY <1>1, <1>9, <1>12 DEF BrInv, BrStagings
  <2>4. QED
    BY <2>1, <2>2, <2>3 DEF BrStagings
<1>14. brBoot # "up" => (BrReady => BrReady')
  <2> SUFFICES ASSUME brBoot # "up", BrReady PROVE BrReady'
    OBVIOUS
  <2>1. ASSUME "late" \notin brErred' PROVE BrClean("cli")' /\ \A g \in brStaged' : g.state = "whole"
    <3>1. BrClean("cli") /\ \A f \in brStaged : f.state = "whole" /\ f.by = {}
      BY <1>1, <2>1 DEF BrReady, BrInv, BrWholeAtRest
    <3>2. \A g \in brStaged' : g \in brStaged
      BY <1>6, <3>1
    <3>3. QED
      BY <1>9, <1>12, <3>1, <3>2
  <2>2. QED
    BY <1>6, <2>1 DEF BrReady
<1>15. BrContents'
  <2>1. \A g \in brPartial' \cup brStaged' : \E f \in brPartial \cup brStaged : g.v = f.v
    BY <1>5, <1>6
  <2>2. \A o \in BrJobs : brJob'[o].file \subseteq brJob[o].file
    BY <1>4
  <2>3. QED
    BY <1>1, <2>1, <2>2 DEF BrInv, BrContents
<1>16. BrBetween' /\ BrOverrides' /\ PreviousKept'
  BY <1>1, <1>14, BrJobStep
<1>17. QED
  BY <1>7, <1>8, <1>13, <1>15, <1>16 DEF BrInv

\* A staging ends: what is at the partial file's place is staged.
LEMMA BrRenamesKeeps == BrInv /\ (\E t \in BrJobs : BrRenames(t)) => BrInv'
<1> SUFFICES ASSUME BrInv, NEW t \in BrJobs, BrRenames(t) PROVE BrInv'
  OBVIOUS
<1> DEFINE j == [pc |-> "idle", file |-> {}]
<1>1. /\ brJob[t].pc = "rename" /\ brJob' = [brJob EXCEPT ![t] = j]
      /\ brStaged' = (IF brPartial = {} THEN brStaged ELSE brPartial) /\ brPartial' = {}
      /\ UNCHANGED <<brDb, brAi, brAside, brFiles, brBoot, brSaves, brLast, brWant, brErred>>
  BY DEF BrRenames, BrStep, brData, brSeen
<1>2. /\ brJob \in [BrJobs -> [pc : {"idle", "backup", "copying", "rename"}, file : SUBSET BrDbFile]]
  BY DEF BrInv, BrTyped
<1>3. j \in [pc : {"idle", "backup", "copying", "rename"}, file : SUBSET BrDbFile] /\ j.pc = "idle" /\ j.file = {}
  OBVIOUS
<1> HIDE DEF j
<1>4. /\ brJob' \in [BrJobs -> [pc : {"idle", "backup", "copying", "rename"}, file : SUBSET BrDbFile]]
      /\ brJob'[t].pc = "idle" /\ brJob'[t].file = {}
      /\ \A o \in BrJobs : o # t => brJob'[o] = brJob[o]
  BY <1>1, <1>2, <1>3
<1>5. brStaged' = brStaged \/ (brStaged' = brPartial /\ brPartial # {})
  BY <1>1
<1>6. BrTyped'
  BY <1>1, <1>4, <1>5 DEF BrInv, BrTyped, AtMostOne
<1>7. BrWriters' /\ BrWholeAtRest'
  <2>1. \A f \in brPartial \cup brStaged : f.by \subseteq BrJobs
    BY DEF BrInv, BrTyped, BrWorkFile
  <2>2. QED
    BY <1>1, <1>4, <1>5, <2>1 DEF BrInv, BrWriters, BrWholeAtRest
<1>8. "cli" \in BrJobs /\ "web" \in BrJobs /\ \A o \in BrJobs : o = "cli" \/ o = "web"
  BY DEF BrJobs
<1>9. brBoot # "up" => t = "cli"
  BY <1>1, <1>8 DEF BrInv, BrStagings
<1>10. BrStagings'
  <2>1. \A o \in BrJobs : BrClean(o)' /\ (BrWorking(o)' => BrWorking(o))
    BY <1>1, <1>4 DEF BrClean, BrWorking
  <2>2. brBoot' # "up" => brJob'["web"].pc = "idle"
    BY <1>1, <1>4, <1>8, <1>9 DEF BrInv, BrStagings
  <2>3. QED
    BY <1>1, <1>8, <2>1, <2>2 DEF BrInv, BrStagings
<1>11. brBoot # "up" => (BrReady => BrReady')
  <2> SUFFICES ASSUME brBoot # "up", BrReady PROVE BrReady'
    OBVIOUS
  <2>1. BrClean("cli")'
    BY <1>1, <1>4, <1>8, <1>9 DEF BrClean
  <2>2. QED
    BY <1>1, <1>5, <1>9, <2>1 DEF BrReady, BrClean
<1>12. BrContents'
  <2>1. \A o \in BrJobs : brJob'[o].file \subseteq brJob[o].file
    BY <1>4
  <2>2. QED
    BY <1>1, <1>5, <2>1 DEF BrInv, BrContents
<1>13. BrBetween' /\ BrOverrides' /\ PreviousKept'
  BY <1>1, <1>11, BrJobStep
<1>14. QED
  BY <1>6, <1>7, <1>10, <1>12, <1>13 DEF BrInv

\* The operator takes a staged restore back.
LEMMA BrCancelKeeps == BrInv /\ BrCancel => BrInv'
<1> SUFFICES ASSUME BrInv, BrCancel PROVE BrInv'
  OBVIOUS
<1>1. /\ brBoot = "up" /\ brStaged' = {}
      /\ UNCHANGED <<brDb, brAi, brAside, brPartial, brJob, brFiles, brBoot, brSaves, brLast, brWant, brErred>>
  BY DEF BrCancel, BrUp, brData, brSeen
<1>2. BrTyped' /\ BrWriters' /\ BrWholeAtRest'
  BY <1>1 DEF BrInv, BrTyped, BrWriters, BrWholeAtRest, AtMostOne
<1>3. \A o \in BrJobs : (BrClean(o) => BrClean(o)') /\ (BrWorking(o)' <=> BrWorking(o))
  BY <1>1 DEF BrClean, BrWorking
<1>4. BrStagings'
  BY <1>1, <1>3 DEF BrInv, BrStagings
<1>5. BrContents'
  BY <1>1 DEF BrInv, BrContents
<1>6. BrBetween' /\ BrOverrides' /\ PreviousKept'
  BY <1>1, BrJobStep
<1>7. QED
  BY <1>2, <1>4, <1>5, <1>6 DEF BrInv

\* The server stops, and the console's job with it.
LEMMA BrStopsKeeps == BrInv /\ BrStops => BrInv'
<1> SUFFICES ASSUME BrInv, BrStops PROVE BrInv'
  OBVIOUS
<1> DEFINE j == [pc |-> "idle", file |-> {}]
           Less(f) == [f EXCEPT !.by = @ \ {"web"}]
<1>1. /\ brBoot = "up" /\ brBoot' = "down" /\ brJob' = [brJob EXCEPT !["web"] = j]
      /\ brPartial' = {Less(f) : f \in brPartial} /\ brStaged' = {Less(f) : f \in brStaged}
      /\ UNCHANGED <<brDb, brAi, brAside, brFiles, brSaves, brLast, brWant, brErred>>
  BY DEF BrStops, BrUp, BrStep, brData
<1>2. /\ brJob \in [BrJobs -> [pc : {"idle", "backup", "copying", "rename"}, file : SUBSET BrDbFile]]
      /\ brPartial \subseteq BrWorkFile /\ brStaged \subseteq BrWorkFile /\ AtMostOne(brPartial) /\ AtMostOne(brStaged)
  BY DEF BrInv, BrTyped
<1>3. \A f \in BrWorkFile : /\ Less(f) \in BrWorkFile /\ Less(f).v = f.v /\ Less(f).state = f.state
                            /\ Less(f).by = f.by \ {"web"}
  BY DEF BrWorkFile
<1>4. j \in [pc : {"idle", "backup", "copying", "rename"}, file : SUBSET BrDbFile] /\ j.pc = "idle" /\ j.file = {}
  OBVIOUS
<1> HIDE DEF j, Less
<1>5. "cli" \in BrJobs /\ "web" \in BrJobs /\ \A o \in BrJobs : o = "cli" \/ o = "web"
  BY DEF BrJobs
<1>6. /\ brJob' \in [BrJobs -> [pc : {"idle", "backup", "copying", "rename"}, file : SUBSET BrDbFile]]
      /\ brJob'["web"].pc = "idle" /\ brJob'["web"].file = {} /\ brJob'["cli"] = brJob["cli"]
  BY <1>1, <1>2, <1>4, <1>5
<1>7. /\ \A g \in brPartial' : \E f \in brPartial : g.v = f.v /\ g.state = f.state /\ g.by = f.by \ {"web"}
      /\ \A g \in brStaged' : \E f \in brStaged : g.v = f.v /\ g.state = f.state /\ g.by = f.by \ {"web"}
  BY <1>1, <1>2, <1>3
<1>8. BrTyped'
  <2>1. brPartial' \subseteq BrWorkFile /\ brStaged' \subseteq BrWorkFile
    BY <1>1, <1>2, <1>3
  <2>2. AtMostOne(brPartial') /\ AtMostOne(brStaged')
    BY <1>1, <1>2 DEF AtMostOne
  <2>3. QED
    BY <1>1, <1>6, <2>1, <2>2 DEF BrInv, BrTyped, AtMostOne
<1>9. BrWriters' /\ BrWholeAtRest'
  <2>1. \A f \in brPartial \cup brStaged : f.by \subseteq BrJobs
    BY <1>2 DEF BrWorkFile
  <2>2. \A f \in brPartial \cup brStaged : \A t \in f.by \ {"web"} : brJob'[t].pc = "copying"
    BY <1>5, <1>6, <2>1 DEF BrInv, BrWriters
  <2>3. BrWriters'
    BY <1>7, <2>2 DEF BrWriters
  <2>4. BrWholeAtRest'
    BY <1>7 DEF BrInv, BrWholeAtRest
  <2>5. QED
    BY <2>3, <2>4
<1>10. (BrClean("cli") => BrClean("cli")') /\ BrClean("web")' /\ ~BrWorking("web")'
  BY <1>6, <1>7 DEF BrClean, BrWorking
<1>11. BrStagings'
  BY <1>1, <1>5, <1>6, <1>10 DEF BrInv, BrStagings
<1>12. BrContents'
  <2>1. \A o \in BrJobs : brJob'[o].file \subseteq brJob[o].file
    BY <1>5, <1>6
  <2>2. QED
    BY <1>1, <1>7, <2>1 DEF BrInv, BrContents
<1>13. BrBetween' /\ BrOverrides' /\ PreviousKept'
  BY <1>1 DEF BrInv, BrBetween, BrOverrides, PreviousKept
<1>14. QED
  BY <1>8, <1>9, <1>11, <1>12, <1>13 DEF BrInv

\* A start that dies is where it was.
LEMMA BrDiesKeeps == BrInv /\ BrDies => BrInv'
<1> SUFFICES ASSUME BrInv, BrDies PROVE BrInv'
  OBVIOUS
<1>1. /\ brBoot \notin {"up", "down"} /\ brErred' = brErred \cup {"died"} /\ brBoot' = "down"
      /\ UNCHANGED <<brDb, brAi, brAside, brStage, brSaves, brLast, brWant>>
  BY DEF BrDies, BrFault, brData
<1>2. UNCHANGED <<brPartial, brStaged, brJob, brFiles>>
  BY <1>1 DEF brStage
<1>3. BrWriters' /\ BrWholeAtRest' /\ BrStagings' /\ (BrReady => BrReady')
  BY <1>1, BrServerStep
<1>4. BrTyped' /\ PreviousKept'
  BY <1>1, <1>2 DEF BrInv, BrTyped, AtMostOne, PreviousKept
<1>5. BrBetween' /\ BrContents' /\ BrOverrides'
  BY <1>1, <1>2, <1>3 DEF BrInv, BrBetween, BrContents, BrOverrides
<1>6. QED
  BY <1>3, <1>4, <1>5 DEF BrInv

\* The start checks what is staged.
LEMMA BrChecksKeeps == BrInv /\ BrChecks => BrInv'
<1> SUFFICES ASSUME BrInv, BrChecks PROVE BrInv'
  OBVIOUS
<1> DEFINE late == brJob["cli"].pc \in {"copying", "rename"} /\ "overlap" \in brErred
<1>1. /\ brBoot = "down" /\ brStaged' = {f \in brStaged : f.state = "whole"}
      /\ brBoot' = (IF brStaged' = {} THEN "open" ELSE "aside")
      /\ brErred' = brErred \cup (IF late THEN {"late"} ELSE {})
      /\ UNCHANGED <<brDb, brAi, brAside, brPartial, brJob, brFiles, brSaves, brLast, brWant>>
  BY DEF BrChecks, CheckBackup, brData
<1>2. /\ "late" \notin brErred' => "late" \notin brErred /\ ~late
      /\ brErred \subseteq brErred' /\ brErred' \subseteq brErred \cup {"late"}
  BY <1>1
<1>3. "cli" \in BrJobs /\ "web" \in BrJobs
  BY DEF BrJobs
<1>4. \A t \in BrJobs : (BrClean(t) => BrClean(t)') /\ (BrWorking(t)' <=> BrWorking(t))
  BY <1>1 DEF BrClean, BrWorking
<1>5. "late" \notin brErred' => BrClean("cli") /\ BrClean("cli")'
  <2>1. "overlap" \notin brErred => BrClean("cli")
    BY <1>3 DEF BrInv, BrStagings
  <2>2. brJob["cli"].pc \notin {"copying", "rename"} => BrClean("cli")
    BY DEF BrClean
  <2>3. QED
    BY <1>2, <1>3, <1>4, <2>1, <2>2
<1> HIDE DEF late
<1>6. BrTyped' /\ BrWriters' /\ BrWholeAtRest'
  BY <1>1 DEF BrInv, BrTyped, BrWriters, BrWholeAtRest, AtMostOne
<1>7. BrStagings'
  BY <1>1, <1>2, <1>4, <1>5 DEF BrInv, BrStagings
<1>8. brStaged' # {} => BrReady'
  BY <1>1, <1>5 DEF BrReady
<1>9. BrBetween'
  <2>1. brBoot' \in {"aside", "place"} => BrReady'
    BY <1>1, <1>8
  <2>2. ASSUME brDb' = {}, "late" \notin brErred' PROVE BrReady' /\ brBoot' # "open"
    <3>1. BrReady
      BY <1>1, <1>2, <2>2 DEF BrInv, BrBetween
    <3>2. brStaged' # {}
      BY <1>1, <1>2, <2>2, <3>1 DEF BrReady
    <3>3. QED
      BY <1>1, <1>8, <3>2
  <2>3. brBoot' # "place" /\ brBoot' \in {"down", "aside", "place", "open"}
    BY <1>1
  <2>4. QED
    BY <2>1, <2>2, <2>3 DEF BrBetween
<1>10. BrContents'
  BY <1>1, <1>2 DEF BrInv, BrContents
<1>11. BrOverrides' /\ PreviousKept'
  BY <1>1, <1>2 DEF BrInv, BrOverrides, PreviousKept
<1>12. QED
  BY <1>6, <1>7, <1>9, <1>10, <1>11 DEF BrInv

\* The old database is moved aside.
LEMMA BrMovesAsideKeeps == BrInv /\ BrMovesAside => BrInv'
<1> SUFFICES ASSUME BrInv, BrMovesAside PROVE BrInv'
  OBVIOUS
<1>1. /\ brBoot = "aside" /\ brBoot' = "place" /\ brAside' = brAside \cup brDb /\ brDb' = {}
      /\ UNCHANGED <<brAi, brStage, brSaves, brLast, brWant, brErred>>
  BY DEF BrMovesAside, brSeen
<1>2. UNCHANGED <<brPartial, brStaged, brJob, brFiles>>
  BY <1>1 DEF brStage
<1>3. BrWriters' /\ BrWholeAtRest' /\ BrStagings' /\ (BrReady => BrReady')
  BY <1>1, BrServerStep
<1>4. BrTyped' /\ PreviousKept'
  BY <1>1, <1>2 DEF BrInv, BrTyped, AtMostOne, PreviousKept
<1>5. BrBetween' /\ BrContents' /\ BrOverrides'
  BY <1>1, <1>2, <1>3 DEF BrInv, BrBetween, BrContents, BrOverrides
<1>6. QED
  BY <1>3, <1>4, <1>5 DEF BrInv

\* The backup is put in the database's place.
LEMMA BrPlacesKeeps == BrInv /\ BrPlaces => BrInv'
<1> SUFFICES ASSUME BrInv, BrPlaces PROVE BrInv'
  OBVIOUS
<1>1. /\ brBoot = "place" /\ brBoot' = "finish"
      /\ brDb' = {[v |-> f.v, over |-> {f.ai}, state |-> f.state] : f \in brStaged}
      /\ brStaged' = {} /\ brWant' = {f.ai : f \in brStaged}
      /\ UNCHANGED <<brAi, brAside, brPartial, brJob, brFiles, brSaves, brLast, brErred>>
  BY DEF BrPlaces
<1>2. BrReady /\ brDb = {} /\ brStaged \subseteq BrWorkFile /\ AtMostOne(brStaged) /\ brStaged # {}
  BY <1>1 DEF BrInv, BrTyped, BrBetween, BrReady
<1>3. PICK f \in brStaged : brStaged = {f}
  BY <1>2 DEF AtMostOne
<1> DEFINE d == [v |-> f.v, over |-> {f.ai}, state |-> f.state]
<1>4. brDb' = {d} /\ brWant' = {f.ai}
  BY <1>1, <1>3
<1>5. f \in BrWorkFile
  BY <1>2, <1>3
<1>6. d \in BrDbFile /\ d.v = f.v /\ d.over = {f.ai} /\ d.state = f.state /\ f.ai \in Nat
  BY <1>5 DEF BrWorkFile, BrDbFile
<1> HIDE DEF d
<1>7. BrTyped'
  BY <1>1, <1>4, <1>6 DEF BrInv, BrTyped, AtMostOne
<1>8. BrWriters' /\ BrWholeAtRest'
  BY <1>1 DEF BrInv, BrWriters, BrWholeAtRest
<1>9. \A t \in BrJobs : (BrClean(t) => BrClean(t)') /\ (BrWorking(t)' <=> BrWorking(t))
  BY <1>1 DEF BrClean, BrWorking
<1>10. "cli" \in BrJobs /\ "web" \in BrJobs
  BY DEF BrJobs
<1>11. BrStagings'
  <2>1. "overlap" \notin brErred' => \A t \in BrJobs : BrClean(t)' /\ (BrWorking(t)' => \A o \in BrJobs \ {t} : ~BrWorking(o)')
    BY <1>1, <1>9 DEF BrInv, BrStagings
  <2>2. QED
    BY <1>1, <1>9, <1>10, <2>1 DEF BrInv, BrStagings
<1>12. BrBetween'
  BY <1>1, <1>4 DEF BrBetween
<1>13. BrContents'
  <2>1. "late" \notin brErred => f.state = "whole"
    BY <1>2, <1>3 DEF BrReady
  <2>2. QED
    BY <1>1, <1>3, <1>4, <1>6, <2>1 DEF BrInv, BrContents
<1>14. BrOverrides'
  BY <1>1, <1>4, <1>6 DEF BrOverrides
<1>15. PreviousKept'
  BY <1>1, <1>2, <1>4 DEF BrInv, PreviousKept
<1>16. QED
  BY <1>7, <1>8, <1>11, <1>12, <1>13, <1>14, <1>15 DEF BrInv

\* A rename is refused, and the start goes on without.
LEMMA BrApplyFailsKeeps == BrInv /\ BrApplyFails => BrInv'
<1> SUFFICES ASSUME BrInv, BrApplyFails PROVE BrInv'
  OBVIOUS
<1>1. /\ brBoot \in {"aside", "place"} /\ brErred' = brErred \cup {"apply"} /\ brBoot' = "open"
      /\ UNCHANGED <<brDb, brAi, brAside, brStage, brSaves, brLast, brWant>>
  BY DEF BrApplyFails, BrFault, brData
<1>2. UNCHANGED <<brPartial, brStaged, brJob, brFiles>>
  BY <1>1 DEF brStage
<1>3. BrWriters' /\ BrWholeAtRest' /\ BrStagings' /\ (BrReady => BrReady')
  BY <1>1, BrServerStep
<1>4. BrTyped' /\ PreviousKept'
  BY <1>1, <1>2 DEF BrInv, BrTyped, AtMostOne, PreviousKept
<1>5. BrBetween' /\ BrContents' /\ BrOverrides'
  BY <1>1, <1>2, <1>3 DEF BrInv, BrBetween, BrContents, BrOverrides
<1>6. QED
  BY <1>3, <1>4, <1>5 DEF BrInv

\* The database there is is opened, or a new one made.
LEMMA BrOpensKeeps == BrInv /\ BrOpens => BrInv'
<1> SUFFICES ASSUME BrInv, BrOpens PROVE BrInv'
  OBVIOUS
<1>1. /\ brBoot = "open" /\ brBoot' = "up" /\ brDb' = (IF brDb = {} THEN {BrFresh} ELSE brDb)
      /\ brLast' \in {d.v : d \in brDb'}
      /\ UNCHANGED <<brAi, brAside, brStage, brSaves, brWant, brErred>>
  BY DEF BrOpens, BrComesUp
<1>2. UNCHANGED <<brPartial, brStaged, brJob, brFiles>>
  BY <1>1 DEF brStage
<1>3. BrWriters' /\ BrWholeAtRest' /\ BrStagings' /\ (BrReady => BrReady')
  BY <1>1, BrServerStep
<1>4. BrFresh \in BrDbFile /\ BrFresh.state = "whole" /\ BrFresh.over = {}
  BY DEF BrFresh, BrDbFile
<1>5. brDb' # {} /\ \A d \in brDb' : (d \in brDb) \/ (d = BrFresh /\ brDb = {})
  BY <1>1
<1>6. BrTyped'
  <2>1. brDb' \subseteq BrDbFile /\ AtMostOne(brDb')
    BY <1>1, <1>4 DEF BrInv, BrTyped, AtMostOne
  <2>2. QED
    BY <1>1, <1>2, <2>1 DEF BrInv, BrTyped, AtMostOne
<1>7. PreviousKept'
  BY <1>1 DEF PreviousKept
<1>8. BrBetween'
  BY <1>1, <1>5 DEF BrBetween
<1>9. BrContents'
  <2>1. "late" \notin brErred /\ brDb = {} => "apply" \in brErred
    BY <1>1 DEF BrInv, BrBetween
  <2>2. QED
    BY <1>1, <1>2, <1>4, <1>5, <2>1 DEF BrInv, BrContents
<1>10. BrOverrides'
  BY <1>1, <1>4, <1>5 DEF BrInv, BrOverrides
<1>11. QED
  BY <1>3, <1>6, <1>7, <1>8, <1>9, <1>10 DEF BrInv

\* The overrides there are make room ...
LEMMA BrFinishClearsKeeps == BrInv /\ BrFinishClears => BrInv'
<1> SUFFICES ASSUME BrInv, BrFinishClears PROVE BrInv'
  OBVIOUS
<1>1. /\ brBoot = "finish" /\ brBoot' = "moving" /\ brAi' = 0
      /\ UNCHANGED <<brDb, brAside, brStage, brSaves, brLast, brWant, brErred>>
  BY DEF BrFinishClears, brSeen
<1>2. UNCHANGED <<brPartial, brStaged, brJob, brFiles>>
  BY <1>1 DEF brStage
<1>3. BrWriters' /\ BrWholeAtRest' /\ BrStagings' /\ (BrReady => BrReady')
  BY <1>1, BrServerStep
<1>4. BrTyped' /\ PreviousKept'
  BY <1>1, <1>2 DEF BrInv, BrTyped, AtMostOne, PreviousKept
<1>5. BrBetween' /\ BrContents' /\ BrOverrides'
  BY <1>1, <1>2, <1>3 DEF BrInv, BrBetween, BrContents, BrOverrides
<1>6. QED
  BY <1>3, <1>4, <1>5 DEF BrInv

\* ... for the backup's.
LEMMA BrFinishMovesKeeps == BrInv /\ BrFinishMoves => BrInv'
<1> SUFFICES ASSUME BrInv, BrFinishMoves PROVE BrInv'
  OBVIOUS
<1>1. /\ brBoot = "moving" /\ brAi' \in UNION {d.over : d \in brDb} /\ brBoot' = "up"
      /\ brDb' = {[d EXCEPT !.over = {}] : d \in brDb} /\ brLast' \in {d.v : d \in brDb'}
      /\ UNCHANGED <<brAside, brStage, brSaves, brWant, brErred>>
  BY DEF BrFinishMoves, BrComesUp
<1>2. UNCHANGED <<brPartial, brStaged, brJob, brFiles>>
  BY <1>1 DEF brStage
<1>3. BrWriters' /\ BrWholeAtRest' /\ BrStagings' /\ (BrReady => BrReady')
  BY <1>1, BrServerStep
<1>4. brDb \subseteq BrDbFile /\ AtMostOne(brDb)
  BY DEF BrInv, BrTyped
<1>5. PICK d \in brDb : brAi' \in d.over
  BY <1>1
<1>6. brDb = {d} /\ d \in BrDbFile
  BY <1>4, <1>5 DEF AtMostOne
<1> DEFINE e == [d EXCEPT !.over = {}]
<1>7. e \in BrDbFile /\ e.v = d.v /\ e.over = {} /\ e.state = d.state /\ d.over \subseteq Nat
  BY <1>6 DEF BrDbFile
<1>8. brDb' = {e}
  BY <1>1, <1>6
<1> HIDE DEF e
<1>9. BrTyped'
  <2>1. brAi' \in Nat
    BY <1>5, <1>7
  <2>2. QED
    BY <1>1, <1>2, <1>7, <1>8, <2>1 DEF BrInv, BrTyped, AtMostOne
<1>10. PreviousKept'
  BY <1>1 DEF PreviousKept
<1>11. BrBetween'
  BY <1>1, <1>8 DEF BrBetween
<1>12. BrContents'
  BY <1>1, <1>2, <1>5, <1>7, <1>8 DEF BrInv, BrContents
<1>13. BrOverrides'
  BY <1>1, <1>5, <1>7, <1>8 DEF BrInv, BrOverrides
<1>14. QED
  BY <1>3, <1>9, <1>10, <1>11, <1>12, <1>13 DEF BrInv

\* They cannot be moved: the server comes up all the same.
LEMMA BrFinishFailsKeeps == BrInv /\ BrFinishFails => BrInv'
<1> SUFFICES ASSUME BrInv, BrFinishFails PROVE BrInv'
  OBVIOUS
<1>1. /\ brBoot \in {"finish", "moving"} /\ brErred' = brErred \cup {"finish"} /\ brBoot' = "up"
      /\ brDb' = brDb /\ brLast' \in {d.v : d \in brDb'}
      /\ UNCHANGED <<brAi, brAside, brStage, brSaves, brWant>>
  BY DEF BrFinishFails, BrComesUp, BrFault
<1>2. UNCHANGED <<brPartial, brStaged, brJob, brFiles>>
  BY <1>1 DEF brStage
<1>3. BrWriters' /\ BrWholeAtRest' /\ BrStagings' /\ (BrReady => BrReady')
  BY <1>1, BrServerStep
<1>4. BrTyped' /\ PreviousKept'
  BY <1>1, <1>2 DEF BrInv, BrTyped, AtMostOne, PreviousKept
<1>5. BrBetween' /\ BrContents' /\ BrOverrides'
  BY <1>1, <1>2, <1>3 DEF BrInv, BrBetween, BrContents, BrOverrides
<1>6. QED
  BY <1>3, <1>4, <1>5 DEF BrInv

\* At first the server is up, with a database of its own and nothing staged.
LEMMA BrInitInv == BrInit => BrInv
<1> SUFFICES ASSUME BrInit PROVE BrInv
  OBVIOUS
<1> DEFINE d == [BrFresh EXCEPT !.v = 1]
<1>1. /\ brDb = {d} /\ brAi = 1 /\ brAside = {} /\ brFiles = {} /\ brPartial = {} /\ brStaged = {}
      /\ brJob = [t \in BrJobs |-> BrIdle] /\ brBoot = "up" /\ brSaves = 0 /\ brLast = 1 /\ brWant = {} /\ brErred = {}
  BY DEF BrInit
<1>2. d \in BrDbFile /\ d.v = 1 /\ d.over = {} /\ d.state = "whole"
  BY DEF BrFresh, BrDbFile
<1> HIDE DEF d
<1>3. /\ BrIdle \in [pc : {"idle", "backup", "copying", "rename"}, file : SUBSET BrDbFile]
      /\ BrIdle.pc = "idle" /\ BrIdle.file = {}
  BY DEF BrIdle
<1>4. BrTyped
  BY <1>1, <1>2, <1>3 DEF BrTyped, AtMostOne
<1>5. BrWriters /\ BrWholeAtRest
  BY <1>1 DEF BrWriters, BrWholeAtRest
<1>6. \A t \in BrJobs : BrClean(t) /\ ~BrWorking(t)
  BY <1>1, <1>3 DEF BrClean, BrWorking
<1>7. BrStagings
  BY <1>1, <1>6 DEF BrStagings
<1>8. BrBetween /\ BrContents /\ BrOverrides /\ PreviousKept
  BY <1>1, <1>2, <1>3 DEF BrBetween, BrContents, BrOverrides, PreviousKept
<1>9. QED
  BY <1>4, <1>5, <1>7, <1>8 DEF BrInv

\* Every step of the console, of the jobs and of a start keeps it.
LEMMA BrStepKeeps == BrInv /\ [BrNext]_brVars => BrInv'
<1> SUFFICES ASSUME BrInv, [BrNext]_brVars PROVE BrInv'
  OBVIOUS
<1>1. CASE BrNext
  BY <1>1, BrSaveKeeps, BrBackupCopiesKeeps, BrBackupFinishesKeeps, BrStagesKeeps, BrCopiedKeeps, BrRenamesKeeps,
     BrCancelKeeps, BrStopsKeeps, BrDiesKeeps, BrChecksKeeps, BrMovesAsideKeeps, BrPlacesKeeps, BrApplyFailsKeeps,
     BrOpensKeeps, BrFinishClearsKeeps, BrFinishMovesKeeps, BrFinishFailsKeeps DEF BrNext
<1>2. CASE UNCHANGED brVars
  <2>1. /\ UNCHANGED <<brDb, brAi, brAside, brBoot, brSaves, brLast, brWant, brErred>>
        /\ UNCHANGED <<brPartial, brStaged, brJob, brFiles>>
    BY <1>2 DEF brVars
  <2>2. UNCHANGED brStage
    BY <2>1 DEF brStage
  <2>3. BrTyped' /\ BrContents'
    BY <2>1 DEF BrInv, BrTyped, BrContents, AtMostOne
  <2>4. \A t \in BrJobs : (BrClean(t) => BrClean(t)') /\ (BrWorking(t)' <=> BrWorking(t))
    BY <2>1 DEF BrClean, BrWorking
  <2>5. "cli" \in BrJobs
    BY DEF BrJobs
  <2>6. BrWriters' /\ BrWholeAtRest' /\ BrStagings' /\ (BrReady => BrReady')
    BY <2>1, <2>4, <2>5 DEF BrInv, BrWriters, BrWholeAtRest, BrStagings, BrReady
  <2>7. BrBetween' /\ BrOverrides' /\ PreviousKept'
    BY <2>1, <2>6, BrJobStep
  <2>8. QED
    BY <2>3, <2>6, <2>7 DEF BrInv
<1>3. QED
  BY <1>1, <1>2

\* A restore replaces the database as a whole or not at all, keeps the one it replaces
\* and brings the overrides back, however stagings overlap and wherever the server
\* stops (apply_pending_restore, finish_restore).
THEOREM RestoresHoldCorrect == BrSpec => []RestoresHold
<1>1. BrSpec => []BrInv
  BY BrInitInv, BrStepKeeps, PTL DEF BrSpec
<1>2. BrInv => RestoresHold
  <2> SUFFICES ASSUME BrInv PROVE RestoresHold
    OBVIOUS
  <2>1. PreviousKept
    BY DEF BrInv
  <2>2. ComesUpWhole
    BY DEF BrInv, BrContents, ComesUpWhole
  <2>3. OverridesBack
    BY DEF BrInv, BrOverrides, OverridesBack, BrUp
  <2>4. QED
    BY <2>1, <2>2, <2>3 DEF RestoresHold
<1>3. QED
  BY <1>1, <1>2, PTL
----------------------------------------------------------------------------
(* The in-place update *)

SuKinds == {"install", "models"}
SuHelper == [pc : {"gone", "begin", "fetch", "stage", "handoff"}, kind : SuKinds, auto : BOOLEAN]
SuModels == {"old", "new", "mixed"}
SuCopy == [exe : {1, 2}, models : SuModels]

SuTyped ==
  /\ suHelpers \in [SuRuns -> SuHelper] /\ suStarted \in Nat /\ suFaults \in Nat
  /\ suRoot \in [pc : {"idle", "claimed", "install", "models", "check", "rollback"}, run : SuRuns \cup {0},
                 kind : SuKinds \cup {""}, auto : BOOLEAN, copy : SUBSET SuCopy]
  /\ suRoot.pc # "idle" => suRoot.kind \in SuKinds
  /\ suRoot.pc \in SuKinds => suRoot.kind = suRoot.pc
  /\ suStaged \in SuRuns \cup {0}
  /\ suService \in [exe : {1, 2}, models : SuModels, up : {0, 1, 2}, loaded : SuModels]

\* Releases and models that come up when they are started.
FineExes == {x \in {1, 2} : x = 2 => suGood}
FineModels == {m \in SuModels : m # "old" => suGood}

\* What is on disk comes up, but for what the root step is at work on; and of that it
\* has a copy which does.
SuDiskFine ==
  /\ suRoot.pc \in {"idle", "claimed", "install", "models"} =>
       /\ suService.exe \in FineExes /\ suService.up \in FineExes
       /\ suService.models \in FineModels /\ suService.loaded \in FineModels
  /\ suRoot.pc \in {"install", "models", "check", "rollback"} =>
       suRoot.copy # {} /\ \A c \in suRoot.copy : c.exe \in FineExes /\ c.models \in FineModels
  /\ suRoot.pc \in {"check", "rollback"} /\ suRoot.kind = "install" => suService.models \in FineModels
  /\ suRoot.pc \in {"check", "rollback"} /\ suRoot.kind = "models" => suService.exe \in FineExes
  /\ suRoot.pc = "check" /\ suRoot.kind = "install" => suService.exe = suService.up
  /\ suRoot.pc = "check" /\ suRoot.kind = "models" => suService.models = suService.loaded

\* The state file names the one run there is, from the click to the end of the root step.
SuWorks(r) == suHelpers[r].pc \notin {"gone", "handoff"}
SuHanded == suState.phase = "installing" /\ suState.pid \in SuRuns /\ suHelpers[suState.pid].pc = "handoff"
SuOneRun ==
  /\ \A r \in SuRuns :
       /\ suHelpers[r].pc = "begin" => suState.phase = "preparing" /\ suState.pid = 0 /\ ~suState.expired
       /\ suHelpers[r].pc = "fetch" => suState.phase = "preparing" /\ suState.pid = r
       /\ suHelpers[r].pc = "stage" => suState.phase = "downloading" /\ suState.pid = r
       /\ SuWorks(r) => suRoot.pc = "idle" /\ "request" \notin suRequest /\ \A s \in SuRuns : SuWorks(s) => s = r
  /\ "request" \in suRequest => suRoot.pc = "idle" /\ SuHanded
  /\ suRoot.pc = "claimed" => SuHanded
  /\ suRoot.pc \notin {"idle", "claimed"} => suState.phase \in RunningPhases /\ suState.pid = Root

\* The date marker is as old as the last scheduled run.
SuScheduled ==
  /\ suDay \in 1 .. SuMaxDays /\ suAutoRuns \in [1 .. SuMaxDays -> {0, 1}]
  /\ \A d \in 1 .. SuMaxDays : d > suDay \/ (d = suDay /\ suLastAuto # suDay) => suAutoRuns[d] = 0
  /\ suLastAuto \in Nat /\ suLastAuto <= suDay

SuInv ==
  /\ SuTyped /\ SuScheduled
  /\ suBroken = {} => SuDiskFine
  /\ suFaults = 0 => SuOneRun

\* A run's number is not the root step's.
LEMMA RootIsNoRun == Root \notin SuRuns /\ Root > 0 /\ Root # 0 /\ 0 \notin SuRuns
BY SuAssumption DEF Root, SuRuns

\* A start is refused while a run is under way.
LEMMA BusyRefuses ==
  ASSUME SuTyped, SuOneRun, ~UpdateInProgress
  PROVE  suRoot.pc = "idle" /\ "request" \notin suRequest /\ \A r \in SuRuns : ~SuWorks(r)
<1>1. /\ suState.phase \in RunningPhases
      /\ ~(IF suState.pid > 0 THEN ~PidAlive(suState.pid) ELSE suState.expired)
      => UpdateInProgress
  BY DEF UpdateInProgress, NormalizeStale
<1>2. SuHanded => UpdateInProgress
  <2> SUFFICES ASSUME SuHanded PROVE UpdateInProgress
    OBVIOUS
  <2>1. suState.phase \in RunningPhases /\ suState.pid \in SuRuns
    BY DEF SuHanded, RunningPhases
  <2>2. suState.pid > 0 /\ suState.pid # Root
    BY <2>1, SuAssumption DEF SuRuns, Root
  <2>3. PidAlive(suState.pid)
    BY <2>1, <2>2 DEF PidAlive, SuHanded
  <2>4. QED
    BY <1>1, <2>1, <2>2, <2>3
<1>3. suRoot.pc = "idle"
  <2> SUFFICES ASSUME suRoot.pc # "idle" PROVE FALSE
    OBVIOUS
  <2>1. suRoot.pc # "claimed"
    BY <1>2 DEF SuOneRun
  <2>2. suState.phase \in RunningPhases /\ suState.pid = Root
    BY <2>1 DEF SuOneRun
  <2>3. PidAlive(suState.pid)
    BY <2>2 DEF PidAlive
  <2>4. QED
    BY <1>1, <2>2, <2>3, RootIsNoRun
<1>4. ASSUME NEW r \in SuRuns, SuWorks(r) PROVE FALSE
  <2>1. suHelpers[r].pc \in {"begin", "fetch", "stage"}
    BY <1>4 DEF SuTyped, SuHelper, SuWorks
  <2>2. CASE suHelpers[r].pc = "begin"
    <3>1. suState.phase \in RunningPhases /\ suState.pid = 0 /\ ~suState.expired
      BY <2>2 DEF SuOneRun, RunningPhases
    <3>2. QED
      BY <1>1, <3>1
  <2>3. CASE suHelpers[r].pc \in {"fetch", "stage"}
    <3>1. suState.phase \in RunningPhases /\ suState.pid = r
      BY <2>3 DEF SuOneRun, RunningPhases
    <3>2. r > 0 /\ r # Root
      BY SuAssumption DEF SuRuns, Root
    <3>3. PidAlive(suState.pid)
      BY <2>3, <3>1, <3>2 DEF PidAlive
    <3>4. QED
      BY <1>1, <3>1, <3>2, <3>3
  <2>4. QED
    BY <2>1, <2>2, <2>3
<1>5. QED
  BY <1>2, <1>3, <1>4 DEF SuOneRun

\* Nothing that concerns the disk has changed.
LEMMA DiskStays ==
  ASSUME SuDiskFine, UNCHANGED <<suRoot, suService, suGood>>
  PROVE  SuDiskFine'
<1>1. FineExes' = FineExes /\ FineModels' = FineModels
  BY DEF FineExes, FineModels
<1> HIDE DEF FineExes, FineModels
<1>2. QED
  BY <1>1 DEF SuDiskFine

\* Nor the runs ...
LEMMA OneRunStays ==
  ASSUME SuOneRun, UNCHANGED <<suState, suHelpers, suRoot, suRequest>>
  PROVE  SuOneRun'
BY DEF SuOneRun, SuHanded, SuWorks

\* ... nor the schedule.
LEMMA ScheduleStays ==
  ASSUME SuScheduled, UNCHANGED <<suDay, suAutoRuns, suLastAuto>>
  PROVE  SuScheduled'
BY DEF SuScheduled

\* A step that is a fault says nothing about one run at a time.
LEMMA FaultCounted == SuTyped /\ SuFault => suFaults' \in Nat /\ suFaults' # 0
<1> SUFFICES ASSUME SuTyped, SuFault PROVE suFaults' \in Nat /\ suFaults' # 0
  OBVIOUS
<1>1. suFaults \in Nat
  BY DEF SuTyped
<1>2. suFaults' = suFaults + 1
  BY DEF SuFault
<1>3. QED
  BY <1>1, <1>2

\* A launch, from wherever it comes, makes one helper when there is none, or is a fault.
LEMMA LaunchKeeps ==
  ASSUME SuInv, NEW kind \in SuKinds, NEW a \in BOOLEAN, SuLaunch(kind, a),
         UNCHANGED <<suStaged, suRequest, suRoot, suService>>
  PROVE  SuTyped' /\ (suFaults' = 0 => SuOneRun')
<1>1. /\ ~UpdateInProgress /\ suStarted < SuMaxRuns /\ suStarted' = suStarted + 1
  BY DEF SuLaunch, Launchable
<1> DEFINE h == [pc |-> "begin", kind |-> kind, auto |-> a]
           r == suStarted + 1
<1>2. suStarted \in Nat /\ suFaults \in Nat /\ suHelpers \in [SuRuns -> SuHelper]
  BY DEF SuInv, SuTyped
<1>3. r \in SuRuns /\ suStarted' \in Nat
  BY <1>1, <1>2, SuAssumption DEF SuRuns
<1>4. h \in SuHelper /\ h.pc = "begin"
  BY DEF SuHelper
<1>5. CASE /\ suState' = Said("preparing", 0, a) /\ suHelpers' = [suHelpers EXCEPT ![r] = h] /\ UNCHANGED suFaults
  <2> HIDE DEF h, r
  <2>1. suHelpers' \in [SuRuns -> SuHelper] /\ suHelpers'[r].pc = "begin" /\ \A s \in SuRuns : s # r => suHelpers'[s] = suHelpers[s]
    BY <1>2, <1>3, <1>4, <1>5
  <2>2. SuTyped'
    BY <1>2, <1>3, <1>5, <2>1 DEF SuInv, SuTyped
  <2>3. ASSUME suFaults' = 0 PROVE SuOneRun'
    <3>1. suRoot.pc = "idle" /\ "request" \notin suRequest /\ \A s \in SuRuns : ~SuWorks(s)
      BY <1>1, <1>5, <2>3, BusyRefuses DEF SuInv
    <3>2. suState'.phase = "preparing" /\ suState'.pid = 0 /\ ~suState'.expired
      BY <1>5 DEF Said
    <3>3. \A s \in SuRuns : s # r => suHelpers'[s].pc \in {"gone", "handoff"}
      BY <2>1, <3>1 DEF SuWorks
    <3>4. \A s \in SuRuns : SuWorks(s)' => s = r
      BY <3>3 DEF SuWorks
    <3>5. suRoot'.pc = "idle" /\ "request" \notin suRequest'
      BY <3>1
    <3>6. \A s \in SuRuns :
            /\ suHelpers'[s].pc = "begin" => suState'.phase = "preparing" /\ suState'.pid = 0 /\ ~suState'.expired
            /\ suHelpers'[s].pc # "fetch" /\ suHelpers'[s].pc # "stage"
      BY <2>1, <3>2, <3>3
    <3>7. QED
      BY <3>4, <3>5, <3>6 DEF SuOneRun
  <2>4. QED
    BY <2>2, <2>3
<1>6. CASE SuFault /\ suState' = Said("error", 0, a) /\ UNCHANGED suHelpers
  <2>1. suFaults' \in Nat /\ suFaults' # 0
    BY <1>6, FaultCounted DEF SuInv
  <2>2. SuTyped'
    BY <1>2, <1>3, <1>6, <2>1 DEF SuInv, SuTyped
  <2>3. QED
    BY <2>1, <2>2
<1>7. QED
  BY <1>5, <1>6 DEF SuLaunch

\* The console and the AI page start a run.
LEMMA StartKeeps == SuInv /\ ((\E k \in {"install", "models"} : SuStart(k)) \/ SuAutoModels) => SuInv'
<1> SUFFICES ASSUME SuInv, (\E k \in {"install", "models"} : SuStart(k)) \/ SuAutoModels PROVE SuInv'
  OBVIOUS
<1>1. /\ \E k \in SuKinds : SuLaunch(k, FALSE)
      /\ UNCHANGED <<suStaged, suRequest, suRoot, suService, suGood, suDay, suLastAuto, suAutoRuns, suBroken>>
  BY DEF SuStart, SuAutoModels, SuKinds, suSchedule
<1>2. SuTyped' /\ (suFaults' = 0 => SuOneRun')
  BY <1>1, LaunchKeeps
<1>3. SuScheduled'
  BY <1>1, ScheduleStays DEF SuInv
<1>4. suBroken' = {} => SuDiskFine'
  BY <1>1, DiskStays DEF SuInv
<1>5. QED
  BY <1>2, <1>3, <1>4 DEF SuInv

\* The schedule starts one, or notes that it has tried.
LEMMA AutoInstallKeeps == SuInv /\ (\E h \in SuHosts : SuAutoInstall(h)) => SuInv'
<1> SUFFICES ASSUME SuInv, NEW host \in SuHosts, SuAutoInstall(host) PROVE SuInv'
  OBVIOUS
<1>1. /\ suLastAuto # suDay /\ suLastAuto' = suDay
      /\ UNCHANGED <<suStaged, suRequest, suRoot, suService, suGood, suDay, suBroken>>
      /\ \/ SuLaunch("install", TRUE) /\ suAutoRuns' = [suAutoRuns EXCEPT ![suDay] = @ + 1]
         \/ UNCHANGED <<suAutoRuns, suState, suHelpers, suStarted, suFaults>>
  BY DEF SuAutoInstall
<1>2. SuTyped' /\ (suFaults' = 0 => SuOneRun')
  <2>1. CASE SuLaunch("install", TRUE)
    <3>1. "install" \in SuKinds
      BY DEF SuKinds
    <3>2. QED
      BY <1>1, <2>1, <3>1, LaunchKeeps
  <2>2. CASE UNCHANGED <<suAutoRuns, suState, suHelpers, suStarted, suFaults>>
    <3>1. SuTyped'
      BY <1>1, <2>2 DEF SuInv, SuTyped
    <3>2. QED
      BY <1>1, <2>2, <3>1, OneRunStays DEF SuInv
  <2>3. QED
    BY <1>1, <2>1, <2>2
<1>3. SuScheduled'
  <2>1. /\ suDay \in 1 .. SuMaxDays /\ suAutoRuns \in [1 .. SuMaxDays -> {0, 1}] /\ suAutoRuns[suDay] = 0
        /\ \A d \in 1 .. SuMaxDays : d > suDay => suAutoRuns[d] = 0
    BY <1>1 DEF SuInv, SuScheduled
  <2>2. suDay \in Nat
    BY <2>1, SuAssumption
  <2>3. CASE suAutoRuns' = [suAutoRuns EXCEPT ![suDay] = @ + 1]
    <3>1. suAutoRuns' \in [1 .. SuMaxDays -> {0, 1}] /\ \A d \in 1 .. SuMaxDays : d # suDay => suAutoRuns'[d] = suAutoRuns[d]
      BY <2>1, <2>3
    <3>2. \A d \in 1 .. SuMaxDays : d > suDay => d # suDay
      BY <2>2
    <3>3. QED
      BY <1>1, <2>1, <2>2, <3>1, <3>2 DEF SuScheduled
  <2>4. CASE suAutoRuns' = suAutoRuns
    BY <1>1, <2>1, <2>2, <2>4 DEF SuScheduled
  <2>5. QED
    BY <1>1, <2>3, <2>4
<1>4. suBroken' = {} => SuDiskFine'
  BY <1>1, DiskStays DEF SuInv
<1>5. QED
  BY <1>2, <1>3, <1>4 DEF SuInv

\* Looking for a release, reporting a failure, a Dismiss that looks, and midnight.
LEMMA BookkeepingKeeps == SuInv /\ (SuCheckRelease \/ SuReport \/ SuClearReads \/ SuDayPasses) => SuInv'
<1> SUFFICES ASSUME SuInv, SuCheckRelease \/ SuReport \/ SuClearReads \/ SuDayPasses PROVE SuInv'
  OBVIOUS
<1>1. /\ UNCHANGED <<suState, suHelpers, suStaged, suRequest, suRoot, suService, suGood, suLastAuto, suAutoRuns,
                     suBroken, suStarted, suFaults>>
      /\ suDay' = suDay \/ (suDay < SuMaxDays /\ suDay' = suDay + 1)
  BY DEF SuCheckRelease, SuReport, SuClearReads, SuDayPasses
<1>2. SuTyped'
  BY <1>1 DEF SuInv, SuTyped
<1>3. SuScheduled'
  <2>1. CASE suDay' = suDay
    BY <1>1, <2>1, ScheduleStays DEF SuInv
  <2>2. CASE suDay < SuMaxDays /\ suDay' = suDay + 1
    <3>1. suDay \in Nat /\ suDay' \in 1 .. SuMaxDays /\ suLastAuto \in Nat /\ suLastAuto <= suDay'
      BY <2>2, SuAssumption DEF SuInv, SuScheduled
    <3>2. \A d \in 1 .. SuMaxDays : d > suDay' \/ d = suDay' => d > suDay
      BY <2>2, <3>1
    <3>3. \A d \in 1 .. SuMaxDays : d > suDay => suAutoRuns[d] = 0
      BY DEF SuInv, SuScheduled
    <3>4. suAutoRuns \in [1 .. SuMaxDays -> {0, 1}]
      BY DEF SuInv, SuScheduled
    <3>5. QED
      BY <1>1, <3>1, <3>2, <3>3, <3>4 DEF SuScheduled
  <2>3. QED
    BY <1>1, <2>1, <2>2
<1>4. suBroken' = {} => SuDiskFine'
  BY <1>1, DiskStays DEF SuInv
<1>5. suFaults' = 0 => SuOneRun'
  BY <1>1, OneRunStays DEF SuInv
<1>6. QED
  BY <1>2, <1>3, <1>4, <1>5 DEF SuInv

\* A Dismiss removes the state of a run that is over; to remove that of the run under
\* way is a fault, as is a helper that never starts.
LEMMA ClearKeeps == SuInv /\ (SuClearRemoves \/ SuGraceExpires) => SuInv'
<1> SUFFICES ASSUME SuInv, SuClearRemoves \/ SuGraceExpires PROVE SuInv'
  OBVIOUS
<1>1. UNCHANGED <<suHelpers, suStaged, suRequest, suRoot, suService, suGood, suDay, suLastAuto, suAutoRuns, suBroken, suStarted>>
  BY DEF SuClearRemoves, SuGraceExpires, suSchedule
<1>2. SuScheduled' /\ (suBroken' = {} => SuDiskFine')
  BY <1>1, DiskStays, ScheduleStays DEF SuInv
<1>3. CASE SuClearRemoves /\ ~UpdateInProgress
  <2>1. ~UpdateInProgress /\ UNCHANGED suFaults
    BY <1>3 DEF SuClearRemoves
  <2>2. SuTyped'
    BY <1>1, <2>1 DEF SuInv, SuTyped
  <2>3. ASSUME suFaults' = 0 PROVE SuOneRun'
    <3>1. suRoot.pc = "idle" /\ "request" \notin suRequest /\ \A r \in SuRuns : ~SuWorks(r)
      BY <2>1, <2>3, BusyRefuses DEF SuInv
    <3>2. \A r \in SuRuns : ~SuWorks(r)' /\ suHelpers'[r].pc \in {"gone", "handoff"}
      BY <1>1, <3>1 DEF SuWorks
    <3>3. suRoot'.pc = "idle" /\ "request" \notin suRequest'
      BY <1>1, <3>1
    <3>4. QED
      BY <3>2, <3>3 DEF SuOneRun
  <2>4. QED
    BY <1>2, <2>2, <2>3 DEF SuInv
<1>4. CASE SuGraceExpires \/ (SuClearRemoves /\ UpdateInProgress)
  <2>1. suFaults' \in Nat /\ suFaults' # 0
    BY <1>4, FaultCounted DEF SuInv, SuGraceExpires, SuClearRemoves
  <2>2. SuTyped'
    BY <1>1, <2>1 DEF SuInv, SuTyped
  <2>3. QED
    BY <1>2, <2>1, <2>2 DEF SuInv
<1>5. QED
  BY <1>3, <1>4

\* A helper moves on from one step to another, and nothing else of its record changes.
LEMMA HelperMoves ==
  ASSUME SuTyped, NEW r \in SuRuns, NEW pc \in {"gone", "begin", "fetch", "stage", "handoff"}, SuHelperTo(r, pc)
  PROVE  /\ suHelpers' \in [SuRuns -> SuHelper] /\ suHelpers'[r].pc = pc
         /\ \A s \in SuRuns : s # r => suHelpers'[s] = suHelpers[s]
<1>1. suHelpers \in [SuRuns -> SuHelper] /\ suHelpers' = [suHelpers EXCEPT ![r].pc = pc]
  BY DEF SuTyped, SuHelperTo
<1> DEFINE h == [suHelpers[r] EXCEPT !.pc = pc]
<1>2. h \in SuHelper /\ h.pc = pc
  <2>1. suHelpers[r] \in SuHelper
    BY <1>1
  <2>2. QED
    BY <2>1 DEF SuHelper
<1>3. suHelpers' = [suHelpers EXCEPT ![r] = h]
  BY <1>1
<1> HIDE DEF h
<1>4. QED
  BY <1>1, <1>2, <1>3

\* A helper's step is a fault or the next of the one run.
LEMMA HelperKeeps ==
  SuInv /\ (\E r \in SuRuns : \/ SuHelperBegins(r) \/ SuHelperFetches(r) \/ SuHelperStages(r)
                              \/ SuHelperLeaves(r) \/ SuHelperGivesUp(r) \/ SuHelperDies(r)) => SuInv'
<1> SUFFICES ASSUME SuInv, NEW r \in SuRuns,
                    \/ SuHelperBegins(r) \/ SuHelperFetches(r) \/ SuHelperStages(r)
                    \/ SuHelperLeaves(r) \/ SuHelperGivesUp(r) \/ SuHelperDies(r)
             PROVE  SuInv'
  OBVIOUS
<1>1. UNCHANGED <<suRoot, suService, suGood, suDay, suLastAuto, suAutoRuns, suBroken, suStarted>>
  BY DEF SuHelperBegins, SuHelperFetches, SuHelperStages, SuHelperLeaves, SuHelperGivesUp, SuHelperDies, suSchedule
<1>2. SuScheduled' /\ (suBroken' = {} => SuDiskFine')
  BY <1>1, DiskStays, ScheduleStays DEF SuInv
<1>3. SuTyped /\ suFaults \in Nat
  BY DEF SuInv, SuTyped
<1>4. suStaged' \in {suStaged, r}
  BY DEF SuHelperBegins, SuHelperFetches, SuHelperStages, SuHelperLeaves, SuHelperGivesUp, SuHelperDies
<1>5. ASSUME suHelpers' \in [SuRuns -> SuHelper], suFaults' \in Nat PROVE SuTyped'
  BY <1>1, <1>3, <1>4, <1>5 DEF SuTyped
<1>6. CASE SuFault /\ SuHelperTo(r, "gone")
  <2>1. suFaults' \in Nat /\ suFaults' # 0 /\ suHelpers' \in [SuRuns -> SuHelper]
    BY <1>3, <1>6, FaultCounted, HelperMoves
  <2>2. QED
    BY <1>2, <1>5, <2>1 DEF SuInv
<1>7. CASE /\ suHelpers[r].pc = "begin" /\ suState' = Said("preparing", r, suHelpers[r].auto)
           /\ SuHelperTo(r, "fetch") /\ UNCHANGED <<suFaults, suStaged, suRequest>>
  <2>1. /\ suHelpers' \in [SuRuns -> SuHelper] /\ suHelpers'[r].pc = "fetch"
        /\ \A s \in SuRuns : s # r => suHelpers'[s] = suHelpers[s]
    BY <1>3, <1>7, HelperMoves
  <2>2. suState'.phase = "preparing" /\ suState'.pid = r
    BY <1>7 DEF Said
  <2>3. ASSUME suFaults' = 0 PROVE SuOneRun'
    <3>1. SuOneRun /\ SuWorks(r)
      BY <1>7, <2>3 DEF SuInv, SuWorks
    <3>2. suRoot'.pc = "idle" /\ "request" \notin suRequest' /\ \A s \in SuRuns : s # r => ~SuWorks(s)
      BY <1>1, <1>7, <3>1 DEF SuOneRun
    <3>3. \A s \in SuRuns : s # r => ~SuWorks(s)' /\ suHelpers'[s].pc \in {"gone", "handoff"}
      BY <2>1, <3>2 DEF SuWorks
    <3>4. QED
      BY <2>1, <2>2, <3>2, <3>3 DEF SuOneRun
  <2>4. QED
    BY <1>2, <1>3, <1>5, <1>7, <2>1, <2>3 DEF SuInv
<1>8. CASE /\ suHelpers[r].pc = "fetch" /\ suState' = Said("downloading", r, suHelpers[r].auto)
           /\ SuHelperTo(r, "stage") /\ UNCHANGED <<suFaults, suStaged, suRequest>>
  <2>1. /\ suHelpers' \in [SuRuns -> SuHelper] /\ suHelpers'[r].pc = "stage"
        /\ \A s \in SuRuns : s # r => suHelpers'[s] = suHelpers[s]
    BY <1>3, <1>8, HelperMoves
  <2>2. suState'.phase = "downloading" /\ suState'.pid = r
    BY <1>8 DEF Said
  <2>3. ASSUME suFaults' = 0 PROVE SuOneRun'
    <3>1. SuOneRun /\ SuWorks(r)
      BY <1>8, <2>3 DEF SuInv, SuWorks
    <3>2. suRoot'.pc = "idle" /\ "request" \notin suRequest' /\ \A s \in SuRuns : s # r => ~SuWorks(s)
      BY <1>1, <1>8, <3>1 DEF SuOneRun
    <3>3. \A s \in SuRuns : s # r => ~SuWorks(s)' /\ suHelpers'[s].pc \in {"gone", "handoff"}
      BY <2>1, <3>2 DEF SuWorks
    <3>4. QED
      BY <2>1, <2>2, <3>2, <3>3 DEF SuOneRun
  <2>4. QED
    BY <1>2, <1>3, <1>5, <1>8, <2>1, <2>3 DEF SuInv
<1>9. CASE SuHelperStages(r)
  <2>1. /\ suHelpers[r].pc = "stage" /\ suState' = Said("installing", r, suHelpers[r].auto)
        /\ SuHelperTo(r, "handoff") /\ UNCHANGED suFaults
    BY <1>9 DEF SuHelperStages
  <2>2. /\ suHelpers' \in [SuRuns -> SuHelper] /\ suHelpers'[r].pc = "handoff"
        /\ \A s \in SuRuns : s # r => suHelpers'[s] = suHelpers[s]
    BY <1>3, <2>1, HelperMoves
  <2>3. suState'.phase = "installing" /\ suState'.pid = r
    BY <2>1 DEF Said
  <2>4. ASSUME suFaults' = 0 PROVE SuOneRun'
    <3>1. SuOneRun /\ SuWorks(r)
      BY <2>1, <2>4 DEF SuInv, SuWorks
    <3>2. suRoot'.pc = "idle" /\ \A s \in SuRuns : s # r => ~SuWorks(s)
      BY <1>1, <3>1 DEF SuOneRun
    <3>3. \A s \in SuRuns : ~SuWorks(s)' /\ suHelpers'[s].pc \in {"gone", "handoff"}
      BY <2>2, <3>2 DEF SuWorks
    <3>4. SuHanded'
      BY <2>2, <2>3 DEF SuHanded
    <3>5. QED
      BY <3>2, <3>3, <3>4 DEF SuOneRun
  <2>5. QED
    BY <1>2, <1>3, <1>5, <2>1, <2>2, <2>4 DEF SuInv
<1>10. CASE SuHelperLeaves(r)
  <2>1. /\ suHelpers[r].pc = "handoff" /\ suState.pid # r /\ SuHelperTo(r, "gone")
        /\ UNCHANGED <<suState, suRequest, suFaults>>
    BY <1>10 DEF SuHelperLeaves
  <2>2. /\ suHelpers' \in [SuRuns -> SuHelper] /\ suHelpers'[r].pc = "gone"
        /\ \A s \in SuRuns : s # r => suHelpers'[s] = suHelpers[s]
    BY <1>3, <2>1, HelperMoves
  <2>3. ASSUME suFaults' = 0 PROVE SuOneRun'
    <3>1. SuOneRun
      BY <2>1, <2>3 DEF SuInv
    <3>2. \A s \in SuRuns : /\ SuWorks(s)' <=> SuWorks(s)
                            /\ suHelpers'[s].pc \in {"begin", "fetch", "stage"} => suHelpers'[s] = suHelpers[s]
      BY <2>1, <2>2 DEF SuWorks
    <3>3. SuHanded => SuHanded'
      BY <2>1, <2>2 DEF SuHanded
    <3>4. QED
      BY <1>1, <2>1, <3>1, <3>2, <3>3 DEF SuOneRun
  <2>4. QED
    BY <1>2, <1>3, <1>5, <2>1, <2>2, <2>3 DEF SuInv
<1>11. QED
  BY <1>6, <1>7, <1>8, <1>9, <1>10 DEF SuHelperBegins, SuHelperFetches, SuHelperGivesUp, SuHelperDies

\* The root step ends a run ...
LEMMA RootEndsRun ==
  ASSUME SuOneRun, suRoot.pc # "idle", suRoot'.pc = "idle", suRequest' \subseteq suRequest, UNCHANGED suHelpers
  PROVE  SuOneRun'
<1>1. "request" \notin suRequest /\ \A r \in SuRuns : ~SuWorks(r)
  BY DEF SuOneRun
<1>2. \A r \in SuRuns : ~SuWorks(r)' /\ suHelpers'[r].pc \in {"gone", "handoff"}
  BY <1>1 DEF SuWorks
<1>3. "request" \notin suRequest'
  BY <1>1
<1>4. QED
  BY <1>2, <1>3 DEF SuOneRun

\* ... or goes on with it.
LEMMA RootGoesOn ==
  ASSUME SuOneRun, suRoot.pc # "idle", suRoot'.pc \notin {"idle", "claimed"}, UNCHANGED <<suRequest, suHelpers>>,
         suState'.phase \in RunningPhases, suState'.pid = Root
  PROVE  SuOneRun'
<1>1. "request" \notin suRequest /\ \A r \in SuRuns : ~SuWorks(r)
  BY DEF SuOneRun
<1>2. \A r \in SuRuns : ~SuWorks(r)' /\ suHelpers'[r].pc \in {"gone", "handoff"}
  BY <1>1 DEF SuWorks
<1>3. "request" \notin suRequest'
  BY <1>1
<1>4. QED
  BY <1>2, <1>3 DEF SuOneRun

SuRootType == [pc : {"idle", "claimed", "install", "models", "check", "rollback"}, run : SuRuns \cup {0},
               kind : SuKinds \cup {""}, auto : BOOLEAN, copy : SUBSET SuCopy]

\* The idle root step has its type.
LEMMA IdleRootTyped == IdleRoot \in SuRootType /\ IdleRoot.pc = "idle"
BY DEF IdleRoot, SuRootType

\* What the root step moves on to has its type.
LEMMA RootMoves ==
  ASSUME suRoot \in SuRootType, NEW pc \in {"idle", "claimed", "install", "models", "check", "rollback"}
  PROVE  /\ [suRoot EXCEPT !.pc = pc] \in SuRootType /\ [suRoot EXCEPT !.pc = pc].pc = pc
         /\ [suRoot EXCEPT !.pc = pc].kind = suRoot.kind /\ [suRoot EXCEPT !.pc = pc].copy = suRoot.copy
BY DEF SuRootType

\* Releases that come up do so in the next state too.
LEMMA FineStays == UNCHANGED suGood => FineExes' = FineExes /\ FineModels' = FineModels
BY DEF FineExes, FineModels

\* A request is claimed.
LEMMA ClaimKeeps == SuInv /\ SuRootClaims => SuInv'
<1> SUFFICES ASSUME SuInv, SuRootClaims PROVE SuInv'
  OBVIOUS
<1>1. /\ suRoot.pc = "idle" /\ "request" \in suRequest
      /\ UNCHANGED <<suHelpers, suStaged, suService, suGood, suDay, suLastAuto, suAutoRuns, suBroken, suStarted, suFaults>>
      /\ \/ suRequest' = {} /\ UNCHANGED suRoot
         \/ /\ suStaged # 0 /\ suRequest' = {"processing"} /\ UNCHANGED suState
            /\ suRoot' = [pc |-> "claimed", run |-> suStaged, kind |-> suHelpers[suStaged].kind,
                          auto |-> suHelpers[suStaged].auto, copy |-> {}]
  BY DEF SuRootClaims, suSchedule
<1>2. SuScheduled'
  BY <1>1, ScheduleStays DEF SuInv
<1>3. suHelpers \in [SuRuns -> SuHelper] /\ suStaged \in SuRuns \cup {0} /\ suRoot \in SuRootType
  BY DEF SuInv, SuTyped, SuRootType
<1>4. ASSUME suFaults = 0
      PROVE  SuOneRun /\ SuHanded /\ \A r \in SuRuns : ~SuWorks(r) /\ suHelpers[r].pc \in {"gone", "handoff"}
  BY <1>1, <1>4 DEF SuInv, SuOneRun, SuWorks
<1>5. CASE suRequest' = {} /\ UNCHANGED suRoot
  <2>1. SuTyped'
    BY <1>1, <1>5 DEF SuInv, SuTyped
  <2>2. suBroken' = {} => SuDiskFine'
    BY <1>1, <1>5, DiskStays DEF SuInv
  <2>3. ASSUME suFaults' = 0 PROVE SuOneRun'
    <3>1. \A r \in SuRuns : ~SuWorks(r)' /\ suHelpers'[r].pc \in {"gone", "handoff"}
      BY <1>1, <1>4, <2>3 DEF SuWorks
    <3>2. QED
      BY <1>1, <1>5, <3>1 DEF SuOneRun
  <2>4. QED
    BY <1>2, <2>1, <2>2, <2>3 DEF SuInv
<1>6. CASE /\ suStaged # 0 /\ suRequest' = {"processing"} /\ UNCHANGED suState
           /\ suRoot' = [pc |-> "claimed", run |-> suStaged, kind |-> suHelpers[suStaged].kind,
                         auto |-> suHelpers[suStaged].auto, copy |-> {}]
  <2>1. suHelpers[suStaged] \in SuHelper
    BY <1>3, <1>6
  <2>2. suRoot' \in SuRootType /\ suRoot'.pc = "claimed" /\ suRoot'.kind \in SuKinds
    BY <1>3, <1>6, <2>1 DEF SuRootType, SuHelper
  <2>3. SuTyped'
    <3>1. suRoot'.pc \notin SuKinds
      BY <2>2 DEF SuKinds
    <3>2. QED
      BY <1>1, <2>2, <3>1 DEF SuInv, SuTyped, SuRootType
  <2>4. suBroken' = {} => SuDiskFine'
    BY <1>1, <2>2, FineStays DEF SuInv, SuDiskFine
  <2>5. ASSUME suFaults' = 0 PROVE SuOneRun'
    <3>1. \A r \in SuRuns : ~SuWorks(r)' /\ suHelpers'[r].pc \in {"gone", "handoff"}
      BY <1>1, <1>4, <2>5 DEF SuWorks
    <3>2. SuHanded'
      BY <1>1, <1>4, <1>6, <2>5 DEF SuHanded
    <3>3. "request" \notin suRequest'
      BY <1>6
    <3>4. QED
      BY <2>2, <3>1, <3>2, <3>3 DEF SuOneRun
  <2>6. QED
    BY <1>2, <2>3, <2>4, <2>5 DEF SuInv
<1>7. QED
  BY <1>1, <1>5, <1>6

\* A fault, or a cause to leave the service as it is, with the root step idle again.
LEMMA RootGivesUp ==
  ASSUME SuInv, SuFault, suRoot' = IdleRoot, suService' \in [exe : {1, 2}, models : SuModels, up : {0, 1, 2}, loaded : SuModels],
         suBroken' # {} \/ SuDiskFine',
         UNCHANGED <<suHelpers, suStaged, suDay, suLastAuto, suAutoRuns, suStarted>>
  PROVE  SuInv'
<1>1. suFaults' \in Nat /\ suFaults' # 0
  BY FaultCounted DEF SuInv
<1>2. suRoot' \in SuRootType /\ suRoot'.pc = "idle"
  BY IdleRootTyped
<1>3. SuTyped'
  BY <1>1, <1>2 DEF SuInv, SuTyped, SuRootType, SuKinds
<1>4. SuScheduled'
  BY ScheduleStays DEF SuInv
<1>5. QED
  BY <1>1, <1>3, <1>4 DEF SuInv

\* The copy is made, or cannot be, or the artefact is refused.
LEMMA ApplyKeeps == SuInv /\ SuRootApplies => SuInv'
<1> SUFFICES ASSUME SuInv, SuRootApplies PROVE SuInv'
  OBVIOUS
<1>1. /\ suRoot.pc = "claimed"
      /\ UNCHANGED <<suHelpers, suStaged, suService, suGood, suDay, suLastAuto, suAutoRuns, suStarted>>
  BY DEF SuRootApplies, suSchedule
<1>2. /\ suRoot \in SuRootType /\ suRoot.kind \in SuKinds /\ suFaults \in Nat
      /\ suService \in [exe : {1, 2}, models : SuModels, up : {0, 1, 2}, loaded : SuModels]
  BY <1>1 DEF SuInv, SuTyped, SuRootType
<1>3. SuScheduled'
  BY <1>1, ScheduleStays DEF SuInv
<1>4. CASE SuFault /\ SuRootEnds("error") /\ UNCHANGED suBroken
  <2>1. suRoot' = IdleRoot
    BY <1>4 DEF SuRootEnds
  <2>2. suBroken' # {} \/ SuDiskFine'
    BY <1>1, <1>4, <2>1, FineStays, IdleRootTyped DEF SuInv, SuDiskFine
  <2>3. QED
    BY <1>1, <1>2, <1>4, <2>1, <2>2, RootGivesUp
<1>5. CASE suState' = Said("applying", Root, suRoot.auto) /\ UNCHANGED <<suBroken, suFaults, suRequest>>
           /\ suRoot' = [suRoot EXCEPT !.pc = suRoot.kind, !.copy = {Copied}]
  <2>1. Copied \in SuCopy /\ Copied.models = suService.models
        /\ (Copied.exe = suService.up \/ Copied.exe = suService.exe)
    BY <1>2 DEF Copied, SuCopy
  <2>2. suRoot' \in SuRootType /\ suRoot'.pc = suRoot.kind /\ suRoot'.kind = suRoot.kind /\ suRoot'.copy = {Copied}
    BY <1>2, <1>5, <2>1 DEF SuRootType, SuKinds
  <2>3. suRoot'.pc \in {"install", "models"}
    BY <1>2, <2>2 DEF SuKinds
  <2>4. SuTyped'
    BY <1>1, <1>2, <1>5, <2>2 DEF SuInv, SuTyped, SuRootType
  <2>5. suBroken' = {} => SuDiskFine'
    <3> SUFFICES ASSUME suBroken' = {} PROVE SuDiskFine'
      OBVIOUS
    <3>1. /\ suService.exe \in FineExes /\ suService.up \in FineExes
          /\ suService.models \in FineModels /\ suService.loaded \in FineModels
      BY <1>1, <1>5 DEF SuInv, SuDiskFine
    <3>2. Copied.exe \in FineExes /\ Copied.models \in FineModels
      BY <2>1, <3>1
    <3>3. QED
      BY <1>1, <2>2, <2>3, <3>1, <3>2, FineStays DEF SuDiskFine
  <2>6. suState'.phase \in RunningPhases /\ suState'.pid = Root
    BY <1>5 DEF Said, RunningPhases
  <2>7. suFaults' = 0 => SuOneRun'
    BY <1>1, <1>5, <2>3, <2>6, RootGoesOn DEF SuInv
  <2>8. QED
    BY <1>3, <2>4, <2>5, <2>7 DEF SuInv
<1>6. CASE SuFault /\ suRoot' = [suRoot EXCEPT !.pc = suRoot.kind] /\ suBroken' = suBroken \cup {"nocopy"}
  <2>1. suRoot.kind \in {"idle", "claimed", "install", "models", "check", "rollback"}
    BY <1>2 DEF SuKinds
  <2>2. suRoot' \in SuRootType /\ suRoot'.pc = suRoot.kind /\ suRoot'.kind = suRoot.kind
    BY <1>2, <1>6, <2>1, RootMoves
  <2>3. suFaults' \in Nat /\ suFaults' # 0
    BY <1>6, FaultCounted DEF SuInv
  <2>4. SuTyped'
    BY <1>1, <1>2, <2>2, <2>3 DEF SuInv, SuTyped, SuRootType
  <2>5. suBroken' # {}
    BY <1>6
  <2>6. QED
    BY <1>3, <2>3, <2>4, <2>5 DEF SuInv
<1>7. QED
  BY <1>4, <1>5, <1>6 DEF SuRootApplies

\* The installer ends or fails, before or after it has replaced the binary.
LEMMA InstallerKeeps == SuInv /\ (\E ok, replaced \in BOOLEAN : SuInstallerEnds(ok, replaced)) => SuInv'
<1> SUFFICES ASSUME SuInv, NEW ok \in BOOLEAN, NEW replaced \in BOOLEAN, SuInstallerEnds(ok, replaced) PROVE SuInv'
  OBVIOUS
<1>1. /\ suRoot.pc = "install"
      /\ UNCHANGED <<suHelpers, suStaged, suRequest, suGood, suDay, suLastAuto, suAutoRuns, suBroken, suStarted>>
  BY DEF SuInstallerEnds, suSchedule
<1> DEFINE S == [exe : {1, 2}, models : SuModels, up : {0, 1, 2}, loaded : SuModels]
<1>2. suRoot \in SuRootType /\ suRoot.kind = "install" /\ suFaults \in Nat /\ suService \in S
  BY <1>1 DEF SuInv, SuTyped, SuRootType, SuKinds
<1>3. SuScheduled'
  BY <1>1, ScheduleStays DEF SuInv
<1>4. \/ /\ suFaults' = suFaults /\ suRoot' = [suRoot EXCEPT !.pc = "check"]
         /\ suService' = InstallerRestarts(InstallBinary(suService), TRUE)
         /\ suState' = Said("restarting", Root, suRoot.auto)
      \/ /\ SuFault /\ suRoot' = [suRoot EXCEPT !.pc = "rollback"]
         /\ suService' \in {suService, InstallerRestarts(InstallBinary(suService), FALSE)}
  <2>1. CASE ok
    BY <2>1, Zenon DEF SuInstallerEnds
  <2>2. CASE ~ok
    <3>1. SuFault /\ suRoot' = [suRoot EXCEPT !.pc = "rollback"]
      BY <2>2 DEF SuInstallerEnds
    <3>2. suService' = IF replaced THEN InstallerRestarts(InstallBinary(suService), ok) ELSE suService
      BY DEF SuInstallerEnds
    <3>3. ok = FALSE
      BY <2>2, Zenon
    <3>4. suService' \in {suService, InstallerRestarts(InstallBinary(suService), FALSE)}
      BY <3>2, <3>3, Zenon
    <3>5. QED
      BY <3>1, <3>4
  <2>3. QED
    BY <2>1, <2>2
<1>5. ASSUME NEW b \in BOOLEAN
      PROVE  /\ InstallerRestarts(InstallBinary(suService), b) \in S
             /\ InstallerRestarts(InstallBinary(suService), b).exe = 2
             /\ InstallerRestarts(InstallBinary(suService), b).models = suService.models
  BY <1>2 DEF InstallerRestarts, InstallBinary
<1>6. InstallerRestarts(InstallBinary(suService), TRUE).up = 2
  BY <1>2 DEF InstallerRestarts, InstallBinary
<1>7. /\ suRoot' \in SuRootType /\ suRoot'.pc \in {"check", "rollback"} /\ suRoot'.kind = "install" /\ suRoot'.copy = suRoot.copy
      /\ suRoot'.pc = "check" => suRoot' = [suRoot EXCEPT !.pc = "check"]
  BY <1>2, <1>4, RootMoves
<1>8. /\ suService' \in S /\ suService'.models = suService.models /\ suFaults' \in Nat
      /\ suRoot'.pc = "check" => suService'.exe = 2 /\ suService'.up = 2
  <2>1. CASE suFaults' = suFaults /\ suService' = InstallerRestarts(InstallBinary(suService), TRUE)
    BY <1>2, <1>5, <1>6, <2>1
  <2>2. CASE SuFault /\ suRoot' = [suRoot EXCEPT !.pc = "rollback"]
             /\ suService' \in {suService, InstallerRestarts(InstallBinary(suService), FALSE)}
    <3>1. suFaults' \in Nat /\ suRoot'.pc = "rollback"
      BY <1>2, <2>2, FaultCounted, RootMoves DEF SuInv
    <3>2. QED
      BY <1>2, <1>5, <2>2, <3>1
  <2>3. QED
    BY <1>4, <2>1, <2>2
<1>9. SuTyped'
  BY <1>1, <1>7, <1>8 DEF SuInv, SuTyped, SuRootType, SuKinds
<1>10. suBroken' = {} => SuDiskFine'
  <2> SUFFICES ASSUME suBroken' = {} PROVE SuDiskFine'
    OBVIOUS
  <2>1. /\ suService.models \in FineModels /\ suRoot.copy # {}
        /\ \A c \in suRoot.copy : c.exe \in FineExes /\ c.models \in FineModels
    BY <1>1 DEF SuInv, SuDiskFine
  <2>2. FineExes' = FineExes /\ FineModels' = FineModels
    BY <1>1, FineStays
  <2>3. QED
    BY <1>7, <1>8, <2>1, <2>2 DEF SuDiskFine
<1>11. suFaults' = 0 => SuOneRun'
  <2> SUFFICES ASSUME suFaults' = 0 PROVE SuOneRun'
    OBVIOUS
  <2>1. ~SuFault
    BY FaultCounted DEF SuInv
  <2>2. suFaults = 0 /\ suState' = Said("restarting", Root, suRoot.auto)
    BY <1>4, <2>1
  <2>3. suState'.phase \in RunningPhases /\ suState'.pid = Root
    BY <2>2 DEF Said, RunningPhases
  <2>4. QED
    BY <1>1, <1>7, <2>2, <2>3, RootGoesOn DEF SuInv
<1>12. QED
  BY <1>3, <1>9, <1>10, <1>11 DEF SuInv

\* The models are replaced, or some of them are.
LEMMA ModelsKeeps == SuInv /\ (\E ok \in BOOLEAN : SuModelsInstalled(ok)) => SuInv'
<1> SUFFICES ASSUME SuInv, NEW ok \in BOOLEAN, SuModelsInstalled(ok) PROVE SuInv'
  OBVIOUS
<1>1. /\ suRoot.pc = "models"
      /\ UNCHANGED <<suHelpers, suStaged, suGood, suDay, suLastAuto, suAutoRuns, suStarted>>
  BY DEF SuModelsInstalled, suSchedule
<1> DEFINE S == [exe : {1, 2}, models : SuModels, up : {0, 1, 2}, loaded : SuModels]
<1>2. suRoot \in SuRootType /\ suRoot.kind = "models" /\ suFaults \in Nat /\ suService \in S
  BY <1>1 DEF SuInv, SuTyped, SuRootType, SuKinds
<1>3. CASE ok
  <2>1. /\ suService' = [suService EXCEPT !.models = "new", !.loaded = "new", !.up = suService.exe]
        /\ suRoot' = [suRoot EXCEPT !.pc = "check"] /\ suState' = Said("restarting", Root, suRoot.auto)
        /\ UNCHANGED <<suRequest, suBroken, suFaults>>
    BY <1>3 DEF SuModelsInstalled
  <2>2. suService' \in S /\ suService'.exe = suService.exe /\ suService'.models = suService'.loaded
    BY <1>2, <2>1 DEF SuModels
  <2>3. suRoot' \in SuRootType /\ suRoot'.pc = "check" /\ suRoot'.kind = "models" /\ suRoot'.copy = suRoot.copy
    BY <1>2, <2>1, RootMoves
  <2>4. SuTyped'
    BY <1>1, <1>2, <2>1, <2>2, <2>3 DEF SuInv, SuTyped, SuRootType, SuKinds
  <2>5. suBroken' = {} => SuDiskFine'
    <3> SUFFICES ASSUME suBroken' = {} PROVE SuDiskFine'
      OBVIOUS
    <3>1. /\ suService.exe \in FineExes /\ suRoot.copy # {}
          /\ \A c \in suRoot.copy : c.exe \in FineExes /\ c.models \in FineModels
      BY <1>1, <2>1 DEF SuInv, SuDiskFine
    <3>2. FineExes' = FineExes /\ FineModels' = FineModels
      BY <1>1, FineStays
    <3>3. QED
      BY <2>2, <2>3, <3>1, <3>2 DEF SuDiskFine
  <2>6. suState'.phase \in RunningPhases /\ suState'.pid = Root
    BY <2>1 DEF Said, RunningPhases
  <2>7. suFaults' = 0 => SuOneRun'
    BY <1>1, <2>1, <2>3, <2>6, RootGoesOn DEF SuInv
  <2>8. SuScheduled'
    BY <1>1, ScheduleStays DEF SuInv
  <2>9. QED
    BY <2>4, <2>5, <2>7, <2>8 DEF SuInv
<1>4. CASE ~ok
  <2>1. /\ SuFault /\ suService' = [suService EXCEPT !.models = "mixed"]
        /\ suBroken' = suBroken \cup {"mixed"} /\ suRoot' = IdleRoot
    BY <1>4 DEF SuModelsInstalled, SuRootEnds
  <2>2. suService' \in S /\ suBroken' # {}
    BY <1>2, <2>1 DEF SuModels
  <2>3. QED
    BY <1>1, <2>1, <2>2, RootGivesUp
<1>5. QED
  BY <1>3, <1>4

\* The service is healthy when what runs is fine.
LEMMA HealthyFine ==
  ASSUME suService \in [exe : {1, 2}, models : SuModels, up : {0, 1, 2}, loaded : SuModels]
  PROVE  Healthy <=> suService.up \in FineExes /\ suService.loaded \in FineModels
<1>1. suService.up \in {0, 1, 2} /\ suService.loaded \in SuModels
  OBVIOUS
<1>2. suService.up # 0 /\ (suService.up = 2 => suGood) <=> suService.up \in FineExes
  BY <1>1 DEF FineExes
<1>3. (suService.loaded # "old" => suGood) <=> suService.loaded \in FineModels
  BY <1>1 DEF FineModels
<1>4. QED
  BY <1>2, <1>3 DEF Healthy

\* The restarted service is looked at.
LEMMA ChecksKeeps == SuInv /\ SuRootChecks => SuInv'
<1> SUFFICES ASSUME SuInv, SuRootChecks PROVE SuInv'
  OBVIOUS
<1>1. /\ suRoot.pc = "check" /\ suStaged' = 0
      /\ UNCHANGED <<suHelpers, suService, suGood, suDay, suLastAuto, suAutoRuns, suBroken, suStarted, suFaults>>
  BY DEF SuRootChecks, suSchedule
<1> DEFINE S == [exe : {1, 2}, models : SuModels, up : {0, 1, 2}, loaded : SuModels]
<1>2. suRoot \in SuRootType /\ suRoot.kind \in SuKinds /\ suFaults \in Nat /\ suService \in S
  BY <1>1 DEF SuInv, SuTyped, SuRootType
<1>3. SuScheduled'
  BY <1>1, ScheduleStays DEF SuInv
<1>4. FineExes' = FineExes /\ FineModels' = FineModels
  BY <1>1, FineStays
<1>5. CASE Healthy
  <2>1. suRoot' = IdleRoot /\ suRequest' \subseteq suRequest
    BY <1>5 DEF SuRootChecks, SuRootEnds
  <2>2. suRoot' \in SuRootType /\ suRoot'.pc = "idle"
    BY <2>1, IdleRootTyped
  <2>3. SuTyped'
    BY <1>1, <1>2, <2>2 DEF SuInv, SuTyped, SuRootType, SuKinds
  <2>4. suBroken' = {} => SuDiskFine'
    <3> SUFFICES ASSUME suBroken' = {} PROVE SuDiskFine'
      OBVIOUS
    <3>1. suService.up \in FineExes /\ suService.loaded \in FineModels
      BY <1>2, <1>5, HealthyFine
    <3>2. suService.exe \in FineExes /\ suService.models \in FineModels
      BY <1>1, <1>2, <3>1 DEF SuInv, SuDiskFine, SuKinds
    <3>3. QED
      BY <1>1, <1>4, <2>2, <3>1, <3>2 DEF SuDiskFine
  <2>5. suFaults' = 0 => SuOneRun'
    BY <1>1, <2>1, <2>2, RootEndsRun DEF SuInv
  <2>6. QED
    BY <1>3, <2>3, <2>4, <2>5 DEF SuInv
<1>6. CASE ~Healthy
  <2>1. /\ suRoot' = [suRoot EXCEPT !.pc = "rollback"] /\ suState' = Said("rolling_back", Root, suRoot.auto)
        /\ UNCHANGED suRequest
    BY <1>6 DEF SuRootChecks
  <2>2. suRoot' \in SuRootType /\ suRoot'.pc = "rollback" /\ suRoot'.kind = suRoot.kind /\ suRoot'.copy = suRoot.copy
    BY <1>2, <2>1, RootMoves
  <2>3. SuTyped'
    BY <1>1, <1>2, <2>2 DEF SuInv, SuTyped, SuRootType, SuKinds
  <2>4. suBroken' = {} => SuDiskFine'
    BY <1>1, <1>4, <2>2 DEF SuInv, SuDiskFine
  <2>5. suState'.phase \in RunningPhases /\ suState'.pid = Root
    BY <2>1 DEF Said, RunningPhases
  <2>6. suFaults' = 0 => SuOneRun'
    BY <1>1, <2>1, <2>2, <2>5, RootGoesOn DEF SuInv
  <2>7. QED
    BY <1>3, <2>3, <2>4, <2>6 DEF SuInv
<1>7. QED
  BY <1>5, <1>6

\* The copy is put back.
LEMMA RollsBackKeeps == SuInv /\ SuRootRollsBack => SuInv'
<1> SUFFICES ASSUME SuInv, SuRootRollsBack PROVE SuInv'
  OBVIOUS
<1> DEFINE back == IF suRoot.copy = {} THEN [exe |-> suService.exe, models |-> suService.models]
                   ELSE CHOOSE c \in suRoot.copy : TRUE
           exe == IF suRoot.kind = "models" THEN suService.exe ELSE back.exe
           models == IF suRoot.kind = "models" THEN back.models ELSE suService.models
           S == [exe : {1, 2}, models : SuModels, up : {0, 1, 2}, loaded : SuModels]
<1>1. /\ suRoot.pc = "rollback" /\ suService' = [exe |-> exe, models |-> models, up |-> exe, loaded |-> models]
      /\ suStaged' = 0 /\ suRoot' = IdleRoot /\ suRequest' \subseteq suRequest
      /\ UNCHANGED <<suHelpers, suGood, suDay, suLastAuto, suAutoRuns, suBroken, suStarted, suFaults>>
  BY DEF SuRootRollsBack, SuRootEnds, suSchedule
<1>2. suRoot \in SuRootType /\ suRoot.kind \in SuKinds /\ suFaults \in Nat /\ suService \in S
  BY <1>1 DEF SuInv, SuTyped, SuRootType
<1>3. SuScheduled'
  BY <1>1, ScheduleStays DEF SuInv
<1>4. FineExes' = FineExes /\ FineModels' = FineModels
  BY <1>1, FineStays
<1>5. back \in SuCopy /\ (suRoot.copy # {} => back \in suRoot.copy)
  <2>1. CASE suRoot.copy = {}
    BY <1>2, <2>1 DEF SuCopy
  <2>2. CASE suRoot.copy # {}
    BY <1>2, <2>2 DEF SuRootType
  <2>3. QED
    BY <2>1, <2>2
<1> HIDE DEF back
<1>6. exe \in {1, 2} /\ models \in SuModels
  BY <1>2, <1>5 DEF SuCopy
<1>7. suBroken = {} => exe \in FineExes /\ models \in FineModels
  BY <1>1, <1>2, <1>5 DEF SuInv, SuDiskFine, SuKinds
<1> HIDE DEF exe, models
<1>8. /\ suService' \in S /\ suService'.exe = exe /\ suService'.up = exe
      /\ suService'.models = models /\ suService'.loaded = models
  BY <1>1, <1>6
<1>9. suRoot' \in SuRootType /\ suRoot'.pc = "idle"
  BY <1>1, IdleRootTyped
<1>10. SuTyped'
  BY <1>1, <1>2, <1>8, <1>9 DEF SuInv, SuTyped, SuRootType, SuKinds
<1>11. suBroken' = {} => SuDiskFine'
  BY <1>1, <1>4, <1>7, <1>8, <1>9 DEF SuDiskFine
<1>12. suFaults' = 0 => SuOneRun'
  BY <1>1, <1>9, RootEndsRun DEF SuInv
<1>13. QED
  BY <1>3, <1>10, <1>11, <1>12 DEF SuInv

\* The root step dies, or the service is restarted for another reason.
LEMMA DiesKeeps == SuInv /\ (SuRootDies \/ SuServiceRestarts) => SuInv'
<1> SUFFICES ASSUME SuInv, SuRootDies \/ SuServiceRestarts PROVE SuInv'
  OBVIOUS
<1> DEFINE S == [exe : {1, 2}, models : SuModels, up : {0, 1, 2}, loaded : SuModels]
<1>1. /\ SuFault /\ UNCHANGED <<suHelpers, suStaged, suGood, suDay, suLastAuto, suAutoRuns, suStarted>>
  BY DEF SuRootDies, SuServiceRestarts, suSchedule
<1>2. suService \in S
  BY DEF SuInv, SuTyped
<1>3. CASE SuRootDies
  <2>1. suRoot' = IdleRoot /\ suBroken' # {} /\ UNCHANGED suService
    BY <1>3 DEF SuRootDies
  <2>2. QED
    BY <1>1, <1>2, <2>1, RootGivesUp
<1>4. CASE SuServiceRestarts
  <2>1. /\ suRoot.pc \notin {"check", "rollback"} /\ UNCHANGED <<suRoot, suBroken>>
        /\ suService' = [suService EXCEPT !.up = suService.exe, !.loaded = suService.models]
    BY <1>4 DEF SuServiceRestarts
  <2>2. /\ suService' \in S /\ suService'.exe = suService.exe /\ suService'.up = suService.exe
        /\ suService'.models = suService.models /\ suService'.loaded = suService.models
    BY <1>2, <2>1
  <2>3. suFaults' \in Nat /\ suFaults' # 0
    BY <1>1, FaultCounted DEF SuInv
  <2>4. SuTyped'
    BY <1>1, <2>1, <2>2, <2>3 DEF SuInv, SuTyped
  <2>5. SuScheduled'
    BY <1>1, ScheduleStays DEF SuInv
  <2>6. suBroken' = {} => SuDiskFine'
    <3>1. suRoot \in SuRootType
      BY DEF SuInv, SuTyped, SuRootType
    <3>2. suRoot.pc \in {"idle", "claimed", "install", "models"}
      BY <2>1, <3>1 DEF SuRootType
    <3>3. FineExes' = FineExes /\ FineModels' = FineModels
      BY <1>1, FineStays
    <3>4. QED
      BY <2>1, <2>2, <3>2, <3>3 DEF SuInv, SuDiskFine
  <2>7. QED
    BY <2>3, <2>4, <2>5, <2>6 DEF SuInv
<1>5. QED
  BY <1>3, <1>4

\* At first the old release is installed and up.
LEMMA SuInitInv == SuInit => SuInv
<1> SUFFICES ASSUME SuInit PROVE SuInv
  OBVIOUS
<1> DEFINE h == [pc |-> "gone", kind |-> "install", auto |-> FALSE]
<1>1. /\ suState = IdleState /\ suHelpers = [r \in SuRuns |-> h] /\ suStaged = 0 /\ suRequest = {} /\ suRoot = IdleRoot
      /\ suService = [exe |-> 1, models |-> "old", up |-> 1, loaded |-> "old"]
      /\ suDay = 1 /\ suLastAuto = 0 /\ suAutoRuns = [d \in 1 .. SuMaxDays |-> 0] /\ suStarted = 0 /\ suFaults = 0
  BY DEF SuInit
<1>2. h \in SuHelper /\ h.pc = "gone"
  BY DEF SuHelper, SuKinds
<1> HIDE DEF h
<1>3. suHelpers \in [SuRuns -> SuHelper] /\ \A r \in SuRuns : suHelpers[r].pc = "gone"
  BY <1>1, <1>2
<1>4. suRoot \in SuRootType /\ suRoot.pc = "idle"
  BY <1>1, IdleRootTyped
<1>5. suService \in [exe : {1, 2}, models : SuModels, up : {0, 1, 2}, loaded : SuModels]
  BY <1>1 DEF SuModels
<1>6. SuTyped
  BY <1>1, <1>3, <1>4, <1>5 DEF SuTyped, SuRootType, SuKinds
<1>7. SuScheduled
  BY <1>1, SuAssumption DEF SuScheduled
<1>8. SuDiskFine
  <2>1. 1 \in FineExes /\ "old" \in FineModels
    BY DEF FineExes, FineModels, SuModels
  <2>2. suService.exe = 1 /\ suService.up = 1 /\ suService.models = "old" /\ suService.loaded = "old"
    BY <1>1
  <2>3. QED
    BY <1>4, <2>1, <2>2 DEF SuDiskFine
<1>9. SuOneRun
  BY <1>1, <1>3, <1>4 DEF SuOneRun, SuWorks
<1>10. QED
  BY <1>6, <1>7, <1>8, <1>9 DEF SuInv

\* Every step of the console, the schedule, the helpers and the root step keeps it.
LEMMA SuStep == SuInv /\ [SuNext]_suVars => SuInv'
<1> SUFFICES ASSUME SuInv, [SuNext]_suVars PROVE SuInv'
  OBVIOUS
<1>1. CASE SuNext
  BY <1>1, StartKeeps, AutoInstallKeeps, BookkeepingKeeps, ClearKeeps, HelperKeeps, ClaimKeeps, ApplyKeeps,
     InstallerKeeps, ModelsKeeps, ChecksKeeps, RollsBackKeeps, DiesKeeps DEF SuNext
<1>2. CASE UNCHANGED suVars
  <2>1. UNCHANGED <<suState, suHelpers, suStaged, suRequest, suRoot, suService, suGood, suDay, suLastAuto, suAutoRuns,
                    suBroken, suStarted, suFaults>>
    BY <1>2 DEF suVars
  <2>2. SuTyped'
    BY <2>1 DEF SuInv, SuTyped
  <2>3. QED
    BY <2>1, <2>2, DiskStays, OneRunStays, ScheduleStays DEF SuInv
<1>3. QED
  BY <1>1, <1>2

\* While nothing has failed one run is under way at a time; a run that ends leaves a
\* service that is up, unless the root step died, had no copy or stopped between model
\* files; and the schedule starts one run a day (update.rs, update.sh, update-apply.sh).
THEOREM UpdatesEndWellCorrect == SuSpec => []UpdatesEndWell
<1>1. SuSpec => []SuInv
  BY SuInitInv, SuStep, PTL DEF SuSpec
<1>2. SuInv => UpdatesEndWell
  <2> SUFFICES ASSUME SuInv PROVE UpdatesEndWell
    OBVIOUS
  <2>1. ASSUME suFaults = 0 PROVE Cardinality(AtWork) <= 1
    <3>1. SuOneRun
      BY <2>1 DEF SuInv
    <3>2. \A r \in AtWork : (r = Root /\ suRoot.pc # "idle") \/ (r \in SuRuns /\ SuWorks(r))
      <4>1. CASE suRoot.pc = "idle"
        BY <4>1 DEF AtWork, SuWorks
      <4>2. CASE suRoot.pc # "idle"
        BY <4>2 DEF AtWork, SuWorks
      <4>3. QED
        BY <4>1, <4>2
    <3>3. \A r, s \in AtWork : r = s
      BY <3>1, <3>2 DEF SuOneRun
    <3>4. CASE AtWork = {}
      BY <3>4, FS_EmptySet
    <3>5. CASE AtWork # {}
      <4>1. PICK r \in AtWork : AtWork = {r}
        BY <3>3, <3>5
      <4>2. Cardinality(AtWork) = 1
        BY <4>1, FS_Singleton
      <4>3. QED
        BY <4>2
    <3>6. QED
      BY <3>4, <3>5
  <2>2. ASSUME suRoot.pc = "idle", suBroken = {} PROVE Healthy
    BY <2>2, HealthyFine DEF SuInv, SuDiskFine, SuTyped
  <2>3. \A d \in 1 .. SuMaxDays : suAutoRuns[d] <= 1
    BY DEF SuInv, SuScheduled
  <2>4. QED
    BY <2>1, <2>2, <2>3 DEF UpdatesEndWell
<1>3. QED
  BY <1>1, <1>2, PTL
----------------------------------------------------------------------------
(* DNSSEC maintenance *)

DkKey == [state : {"active", "retired"}, created : Nat, retired : Nat]
DkSnapshot == [signers : SUBSET Nat, dnskeys : SUBSET Nat, time : Nat]

DkTyped ==
  /\ dkNow \in Nat /\ dkMade \in Nat /\ dkLastSign \in Nat /\ dkFaults \in Nat
  /\ DOMAIN dkKeys \subseteq 1 .. dkMade /\ dkKeys \in [DOMAIN dkKeys -> DkKey]
  /\ \A k \in DOMAIN dkKeys : dkKeys[k].created <= dkNow
  /\ dkServed \in [signers : SUBSET Nat, dnskeys : SUBSET Nat, at : Nat] /\ dkServed.signers \subseteq dkServed.dnskeys
  /\ dkSeen \subseteq DkSnapshot
  /\ dkPass \in {"idle", "renew", "roll", "reload"} /\ dkSkipped \in BOOLEAN

\* What validators hold is of the last DkCached intervals, and of a signed zone.
DkHeld ==
  /\ \A s \in dkSeen : s.time <= dkNow /\ dkNow - s.time <= DkCached /\ s.signers \subseteq s.dnskeys
  /\ dkKeys = <<>> => dkSeen = {}

\* Signatures are as young as the last renewal, which is late by no more than has failed.
DkFresh ==
  /\ dkLastSign <= dkServed.at /\ dkServed.at <= dkNow
  /\ dkPass # "renew" => dkNow - dkLastSign < DkValidity \div 2 + dkFaults
  /\ dkPass = "renew" => dkNow - dkLastSign <= DkValidity \div 2 + dkFaults
  /\ dkFaults <= DkMaxFaults

\* The keys stored are those served, but between a roll and its reload; an active key
\* signs all that was served since the interval it was made in; and some active key
\* signs all that validators hold.
DkAnchored ==
  /\ dkPass # "reload" => dkServed.signers = Active(dkKeys) /\ dkServed.dnskeys = DOMAIN dkKeys
  /\ \A k \in Active(dkKeys) : \A s \in dkSeen : s.time > dkKeys[k].created => k \in s.signers
  /\ \E a \in Active(dkKeys) : \A s \in dkSeen : a \in s.signers

DkInv ==
  /\ DkTyped /\ DkHeld /\ DkFresh
  /\ dkKeys # <<>> /\ ~dkSkipped => DkAnchored

\* A rollover's overlap outlasts what validators cache, and renewals fail fewer times
\* than there are intervals left at half the validity.
OverlapOutlastsCaches == DkCached < DkOverlap
RenewalsInTime == 2 <= DkValidity /\ DkValidity \div 2 + DkMaxFaults < DkValidity

\* Half the validity is an interval at least.
LEMMA HalfValidity == RenewalsInTime => DkValidity \div 2 \in Nat \ {0}
<1> SUFFICES ASSUME RenewalsInTime PROVE DkValidity \div 2 \in Nat \ {0}
  OBVIOUS
<1>1. DkValidity \in Nat /\ 2 <= DkValidity
  BY DkAssumption DEF RenewalsInTime
<1>2. QED
  BY <1>1, SMT

\* The active keys are keys.
LEMMA ActiveKeys == ASSUME NEW K PROVE Active(K) \subseteq DOMAIN K
BY DEF Active

\* A reload serves what is stored.
LEMMA DkServes ==
  ASSUME DkInv, Serve(dkKeys), UNCHANGED <<dkNow, dkKeys, dkSkipped>>
  PROVE  /\ dkServed' \in [signers : SUBSET Nat, dnskeys : SUBSET Nat, at : Nat]
         /\ dkServed'.signers \subseteq dkServed'.dnskeys
         /\ dkServed'.at = dkNow /\ dkSeen' \subseteq DkSnapshot
         /\ DkHeld'
         /\ dkKeys # <<>> /\ ~dkSkipped => DkAnchored'
<1>1. /\ dkServed' = [signers |-> Active(dkKeys), dnskeys |-> DOMAIN dkKeys, at |-> dkNow]
      /\ dkSeen' = IF dkKeys = <<>> THEN dkSeen
                   ELSE dkSeen \cup {[signers |-> Active(dkKeys), dnskeys |-> DOMAIN dkKeys, time |-> dkNow]}
  BY DEF Serve, SignedZone
<1>2. /\ dkNow \in Nat /\ dkMade \in Nat /\ DOMAIN dkKeys \subseteq 1 .. dkMade /\ dkSeen \subseteq DkSnapshot
      /\ dkKeys \in [DOMAIN dkKeys -> DkKey] /\ \A k \in DOMAIN dkKeys : dkKeys[k].created <= dkNow
  BY DEF DkInv, DkTyped
<1>3. DOMAIN dkKeys \subseteq Nat /\ Active(dkKeys) \subseteq DOMAIN dkKeys
  BY <1>2, ActiveKeys
<1> DEFINE new == [signers |-> Active(dkKeys), dnskeys |-> DOMAIN dkKeys, time |-> dkNow]
<1>4. new \in DkSnapshot /\ new.signers = Active(dkKeys) /\ new.dnskeys = DOMAIN dkKeys /\ new.time = dkNow
  BY <1>2, <1>3 DEF DkSnapshot
<1> HIDE DEF new
<1>5. /\ dkServed' \in [signers : SUBSET Nat, dnskeys : SUBSET Nat, at : Nat]
      /\ dkServed'.signers = Active(dkKeys) /\ dkServed'.dnskeys = DOMAIN dkKeys /\ dkServed'.at = dkNow
  BY <1>1, <1>2, <1>3
<1>6. dkSeen' = (IF dkKeys = <<>> THEN dkSeen ELSE dkSeen \cup {new})
  BY <1>1 DEF new
<1>7. dkSeen' \subseteq DkSnapshot
  BY <1>2, <1>4, <1>6
<1>8. DkHeld'
  <2>1. DkCached \in Nat
    BY DkAssumption
  <2>2. new.time <= dkNow /\ dkNow - new.time <= DkCached /\ new.signers \subseteq new.dnskeys
    BY <1>2, <1>3, <1>4, <2>1
  <2>3. \A s \in dkSeen : s.time <= dkNow /\ dkNow - s.time <= DkCached /\ s.signers \subseteq s.dnskeys
    BY DEF DkInv, DkHeld
  <2>4. \A s \in dkSeen' : s = new \/ s \in dkSeen
    BY <1>6
  <2>5. dkKeys' = <<>> => dkSeen' = {}
    BY <1>6 DEF DkInv, DkHeld
  <2>6. QED
    BY <2>2, <2>3, <2>4, <2>5 DEF DkHeld
<1>9. ASSUME dkKeys # <<>>, ~dkSkipped PROVE DkAnchored'
  <2>1. DkAnchored
    BY <1>9 DEF DkInv
  <2>2. \A s \in dkSeen' : s = new \/ s \in dkSeen
    BY <1>6
  <2>3. \A k \in Active(dkKeys) : \A s \in dkSeen' : s.time > dkKeys[k].created => k \in s.signers
    BY <1>4, <2>1, <2>2 DEF DkAnchored
  <2>4. \E a \in Active(dkKeys) : \A s \in dkSeen' : a \in s.signers
    BY <1>4, <2>1, <2>2 DEF DkAnchored
  <2>5. Active(dkKeys)' = Active(dkKeys)
    OBVIOUS
  <2>6. QED
    BY <1>5, <2>3, <2>4, <2>5 DEF DkAnchored
<1>10. QED
  BY <1>3, <1>5, <1>7, <1>8, <1>9

\* The rest of the type, where no key is made.
LEMMA DkTypedStays ==
  ASSUME DkTyped, UNCHANGED <<dkNow, dkMade, dkKeys>>, dkLastSign' \in Nat, dkFaults' \in Nat,
         dkServed' \in [signers : SUBSET Nat, dnskeys : SUBSET Nat, at : Nat], dkServed'.signers \subseteq dkServed'.dnskeys,
         dkSeen' \subseteq DkSnapshot, dkPass' \in {"idle", "renew", "roll", "reload"}, dkSkipped' \in BOOLEAN
  PROVE  DkTyped'
BY DEF DkTyped

\* sign_zone: the first key.
LEMMA DkSignKeeps == RenewalsInTime /\ DkInv /\ DkSign => DkInv'
<1> SUFFICES ASSUME DkInv, DkSign PROVE DkInv'
  OBVIOUS
<1> DEFINE n == dkMade + 1
           K == AddKey(<<>>)
<1>1. /\ dkKeys = <<>> /\ dkKeys' = K /\ dkMade' = n /\ Serve(K)
      /\ UNCHANGED <<dkNow, dkPass, dkLastSign, dkSkipped, dkFaults>>
  BY DEF DkSign
<1>2. /\ dkNow \in Nat /\ dkMade \in Nat /\ dkSeen = {} /\ n \in Nat /\ n \in 1 .. n
  <2>1. dkNow \in Nat /\ dkMade \in Nat
    BY DEF DkInv, DkTyped
  <2>2. dkSeen = {}
    BY <1>1 DEF DkInv, DkHeld
  <2>3. QED
    BY <2>1, <2>2
<1>3. NewKey \in DkKey /\ NewKey.state = "active" /\ NewKey.created = dkNow
  BY <1>2 DEF NewKey, DkKey
<1>4. DOMAIN K = {n} /\ K[n] = NewKey
  BY DEF AddKey
<1>5. K = [k \in {n} |-> NewKey]
  BY DEF AddKey
<1>6. K \in [{n} -> DkKey] /\ K # <<>> /\ Active(K) = {n}
  BY <1>3, <1>4, <1>5 DEF Active
<1>7. /\ dkServed' = [signers |-> Active(K), dnskeys |-> DOMAIN K, at |-> dkNow]
      /\ dkSeen' = dkSeen \cup {[signers |-> Active(K), dnskeys |-> DOMAIN K, time |-> dkNow]}
  BY <1>1, <1>6 DEF Serve, SignedZone
<1> DEFINE s == [signers |-> {n}, dnskeys |-> {n}, time |-> dkNow]
<1>8. dkServed' = [signers |-> {n}, dnskeys |-> {n}, at |-> dkNow] /\ dkSeen' = {s}
  BY <1>2, <1>4, <1>6, <1>7
<1> HIDE DEF K
<1>9. s \in DkSnapshot /\ s.signers = {n} /\ s.dnskeys = {n} /\ s.time = dkNow
  BY <1>2 DEF DkSnapshot
<1>10. /\ dkServed' \in [signers : SUBSET Nat, dnskeys : SUBSET Nat, at : Nat]
       /\ dkServed'.signers = {n} /\ dkServed'.dnskeys = {n} /\ dkServed'.at = dkNow
  BY <1>2, <1>8
<1> HIDE DEF s
<1>11. DkTyped'
  <2>1. \A k \in DOMAIN dkKeys' : dkKeys'[k].created <= dkNow'
    BY <1>1, <1>2, <1>3, <1>4
  <2>2. DOMAIN dkKeys' \subseteq 1 .. dkMade' /\ dkKeys' \in [DOMAIN dkKeys' -> DkKey] /\ dkMade' \in Nat
    BY <1>1, <1>2, <1>4, <1>6
  <2>3. dkSeen' \subseteq DkSnapshot /\ dkServed'.signers \subseteq dkServed'.dnskeys
    BY <1>8, <1>9, <1>10
  <2>4. QED
    BY <1>1, <1>10, <2>1, <2>2, <2>3 DEF DkInv, DkTyped
<1>12. DkHeld'
  <2>1. DkCached \in Nat
    BY DkAssumption
  <2>2. s.time <= dkNow' /\ dkNow' - s.time <= DkCached
    BY <1>1, <1>2, <1>9, <2>1
  <2>3. QED
    BY <1>1, <1>6, <1>8, <1>9, <2>2 DEF DkHeld
<1>13. DkFresh'
  <2>1. dkLastSign <= dkNow
    BY DEF DkInv, DkFresh, DkTyped
  <2>2. dkLastSign' <= dkServed'.at /\ dkServed'.at <= dkNow'
    BY <1>1, <1>2, <1>10, <2>1
  <2>3. QED
    BY <1>1, <2>2 DEF DkInv, DkFresh
<1>14. DkAnchored'
  <2>1. Active(dkKeys') = {n} /\ DOMAIN dkKeys' = {n}
    BY <1>1, <1>4, <1>6
  <2>2. \A k \in {n} : \A t \in dkSeen' : k \in t.signers
    BY <1>8, <1>9
  <2>3. QED
    BY <1>10, <2>1, <2>2 DEF DkAnchored
<1>15. QED
  BY <1>11, <1>12, <1>13, <1>14 DEF DkInv

\* unsign_zone: no keys, and nothing for validators to hold.
LEMMA DkUnsignKeeps == RenewalsInTime /\ DkInv /\ DkUnsign => DkInv'
<1> SUFFICES ASSUME DkInv, DkUnsign PROVE DkInv'
  OBVIOUS
<1>1. /\ dkKeys' = <<>> /\ dkServed' = SignedZone(<<>>) /\ dkSeen' = {} /\ dkSkipped' = FALSE
      /\ UNCHANGED <<dkNow, dkPass, dkLastSign, dkMade, dkFaults>>
  BY DEF DkUnsign
<1>2. dkNow \in Nat /\ dkMade \in Nat /\ dkLastSign \in Nat /\ dkFaults \in Nat
      /\ dkPass \in {"idle", "renew", "roll", "reload"}
  BY DEF DkInv, DkTyped
<1>3. DOMAIN <<>> = {} /\ Active(<<>>) = {} /\ <<>> \in [{} -> DkKey]
  BY DEF Active
<1>4. dkServed' = [signers |-> {}, dnskeys |-> {}, at |-> dkNow]
  BY <1>1, <1>3 DEF SignedZone
<1>5. /\ dkServed' \in [signers : SUBSET Nat, dnskeys : SUBSET Nat, at : Nat]
      /\ dkServed'.signers \subseteq dkServed'.dnskeys /\ dkServed'.at = dkNow
  BY <1>2, <1>4
<1>6. DkTyped'
  <2>1. DOMAIN dkKeys' = {} /\ dkKeys' \in [DOMAIN dkKeys' -> DkKey]
    BY <1>1, <1>3
  <2>2. DOMAIN dkKeys' \subseteq 1 .. dkMade' /\ \A k \in DOMAIN dkKeys' : dkKeys'[k].created <= dkNow'
    BY <2>1
  <2>3. dkSkipped' \in BOOLEAN /\ dkSeen' \subseteq DkSnapshot
    BY <1>1
  <2>4. QED
    BY <1>1, <1>2, <1>5, <2>1, <2>2, <2>3 DEF DkTyped
<1>7. DkHeld'
  BY <1>1 DEF DkHeld
<1>8. DkFresh'
  <2>1. dkLastSign <= dkNow
    BY <1>2 DEF DkInv, DkFresh, DkTyped
  <2>2. dkLastSign' <= dkServed'.at /\ dkServed'.at <= dkNow'
    BY <1>1, <1>2, <1>5, <2>1
  <2>3. QED
    BY <1>1, <2>2 DEF DkInv, DkFresh
<1>9. QED
  BY <1>1, <1>6, <1>7, <1>8 DEF DkInv

\* The newest active key is one of them.
LEMMA NewestKey ==
  ASSUME DkTyped, Active(dkKeys) # {}
  PROVE  \E k \in Active(dkKeys) : dkKeys[k].created = Newest(dkKeys)
<1> DEFINE A == Active(dkKeys)
           c(k) == dkKeys[k].created
           ages == {dkNow - c(k) : k \in A}
<1>1. dkNow \in Nat /\ \A k \in A : c(k) \in Nat /\ c(k) <= dkNow
  BY ActiveKeys DEF DkTyped, DkKey
<1>2. \A k \in A : dkNow - c(k) \in Nat
  <2> HIDE DEF c, A
  <2>1. QED
    BY <1>1
<1>3. ages \subseteq Nat /\ ages # {}
  BY <1>2
<1>4. PICK n \in ages : \A m \in ages : n <= m
  <2> HIDE DEF ages
  <2>1. QED
    BY <1>3, LeastOf
<1>5. PICK b \in A : n = dkNow - c(b)
  BY <1>4
<1>6. \A k \in A : dkNow - c(b) <= dkNow - c(k)
  BY <1>4, <1>5
<1>7. \A k \in A : c(k) <= c(b)
  <2> HIDE DEF c, A
  <2>1. QED
    BY <1>1, <1>5, <1>6
<1>8. \E t \in {dkKeys[k].created : k \in Active(dkKeys)} : \A k \in Active(dkKeys) : dkKeys[k].created <= t
  BY <1>5, <1>7
<1>9. Newest(dkKeys) \in {dkKeys[k].created : k \in Active(dkKeys)}
  <2>1. (CHOOSE t \in {dkKeys[k].created : k \in Active(dkKeys)} :
           \A k \in Active(dkKeys) : dkKeys[k].created <= t) \in {dkKeys[k].created : k \in Active(dkKeys)}
    BY <1>8
  <2>2. QED
    BY <2>1 DEF Newest
<1>10. QED
  BY <1>9

\* Steps that serve what is stored and make no key, fresh signatures granted.
LEMMA DkServesKeeps ==
  ASSUME DkInv, Serve(dkKeys), UNCHANGED <<dkNow, dkKeys, dkMade, dkSkipped>>,
         dkLastSign' \in Nat, dkFaults' \in Nat, dkPass' \in {"idle", "renew", "roll", "reload"}, DkFresh'
  PROVE  DkInv'
<1>1. DkTyped'
  <2>1. DkTyped /\ dkSkipped' \in BOOLEAN
    BY DEF DkInv, DkTyped
  <2>2. QED
    BY <2>1, DkServes, DkTypedStays
<1>2. DkHeld' /\ (dkKeys # <<>> /\ ~dkSkipped => DkAnchored')
  BY DkServes
<1>3. QED
  BY <1>1, <1>2 DEF DkInv

\* A renewal that is not due, that fails, and that serves.
LEMMA DkRenewKeeps == ASSUME RenewalsInTime, DkInv, NEW f \in BOOLEAN, DkRenew(f) PROVE DkInv'
<1> DEFINE H == DkValidity \div 2
<1>1. dkPass = "renew" /\ dkPass' = "roll" /\ UNCHANGED <<dkNow, dkKeys, dkSkipped, dkMade>>
  BY DEF DkRenew
<1>2. /\ dkNow \in Nat /\ dkLastSign \in Nat /\ dkFaults \in Nat /\ dkServed.at \in Nat
      /\ dkSkipped \in BOOLEAN /\ DkTyped /\ DkHeld /\ DkFresh
  BY DEF DkInv, DkTyped
<1>3. dkLastSign <= dkServed.at /\ dkServed.at <= dkNow /\ dkNow - dkLastSign <= H + dkFaults /\ dkFaults <= DkMaxFaults
  BY <1>1 DEF DkInv, DkFresh
<1>4. H \in Nat \ {0} /\ DkMaxFaults \in Nat
  BY HalfValidity, DkAssumption
<1> HIDE DEF H
<1>5. ASSUME UNCHANGED <<dkServed, dkSeen, dkLastSign>>, dkFaults' \in Nat, dkFaults' <= DkMaxFaults,
             dkNow - dkLastSign < H + dkFaults'
      PROVE  DkInv'
  <2>1. DkTyped'
    BY <1>1, <1>2, <1>5 DEF DkTyped
  <2>2. DkHeld'
    BY <1>1, <1>2, <1>5 DEF DkHeld
  <2>3. DkFresh'
    BY <1>1, <1>3, <1>5 DEF DkFresh, H
  <2>4. dkKeys # <<>> /\ ~dkSkipped => DkAnchored'
    BY <1>1, <1>5 DEF DkInv, DkAnchored, Active
  <2>5. QED
    BY <1>1, <2>1, <2>2, <2>3, <2>4 DEF DkInv
<1>6. CASE ~RenewDue
  <2>1. UNCHANGED <<dkServed, dkSeen, dkLastSign, dkFaults>>
    BY <1>6 DEF DkRenew
  <2>2. ~(dkNow - dkLastSign >= H)
    BY <1>6 DEF RenewDue, H
  <2>3. dkNow - dkLastSign < H + dkFaults
    BY <1>2, <1>4, <2>2
  <2>4. QED
    BY <1>2, <1>3, <1>5, <2>1, <2>3
<1>7. CASE RenewDue /\ f
  <2>1. dkFaults < DkMaxFaults /\ dkFaults' = dkFaults + 1 /\ UNCHANGED <<dkServed, dkSeen, dkLastSign>>
    BY <1>7 DEF DkRenew
  <2>2. dkFaults + 1 \in Nat /\ dkFaults + 1 <= DkMaxFaults /\ dkNow - dkLastSign < H + (dkFaults + 1)
    BY <1>2, <1>3, <1>4, <2>1
  <2>3. QED
    BY <1>5, <2>1, <2>2
<1>8. CASE RenewDue /\ ~f
  <2>1. Serve(dkKeys) /\ dkLastSign' = dkNow /\ UNCHANGED dkFaults
    BY <1>8 DEF DkRenew
  <2>2. dkServed'.at = dkNow
    BY <1>1, <2>1, DkServes
  <2>3. dkNow - dkNow < H + dkFaults /\ dkNow <= dkNow
    BY <1>2, <1>4
  <2>4. DkFresh'
    BY <1>1, <1>3, <2>1, <2>2, <2>3 DEF DkFresh, H
  <2>5. QED
    BY <1>1, <1>2, <2>1, <2>4, DkServesKeeps
<1>9. QED
  BY <1>6, <1>7, <1>8

\* The keys after a roll: each is a key there was, with its time, or the new one.
LEMMA DkRollKeys ==
  ASSUME DkTyped, DkRoll, dkPass' # "idle"
  PROVE  /\ DkTyped' /\ dkPass' = "reload" /\ Active(dkKeys) # {}
         /\ Active(dkKeys) \ Superseded \subseteq Active(dkKeys')
         /\ \A k \in Active(dkKeys') : \/ k \in Active(dkKeys) /\ dkKeys'[k].created = dkKeys[k].created
                                       \/ dkKeys'[k].created = dkNow
<1> DEFINE kept == [k \in DOMAIN dkKeys \ AgedOut |->
                     IF k \in Superseded THEN [dkKeys[k] EXCEPT !.state = "retired", !.retired = dkNow] ELSE dkKeys[k]]
           n == dkMade + 1
<1>1. /\ Active(dkKeys) # {} /\ dkPass' = "reload"
      /\ dkKeys' = (IF StartsRollover THEN AddKey(kept) ELSE kept)
      /\ dkMade' = (IF StartsRollover THEN dkMade + 1 ELSE dkMade)
      /\ UNCHANGED <<dkNow, dkServed, dkSeen, dkLastSign, dkSkipped, dkFaults>>
  BY DEF DkRoll
<1>2. /\ dkNow \in Nat /\ dkMade \in Nat /\ DOMAIN dkKeys \subseteq 1 .. dkMade
      /\ dkKeys \in [DOMAIN dkKeys -> DkKey] /\ \A k \in DOMAIN dkKeys : dkKeys[k].created <= dkNow
  BY DEF DkTyped
<1>3. \A k \in DOMAIN dkKeys \ AgedOut :
        /\ kept[k] \in DkKey /\ kept[k].created = dkKeys[k].created
        /\ kept[k].state = (IF k \in Superseded THEN "retired" ELSE dkKeys[k].state)
  BY <1>2 DEF DkKey
<1>4. DOMAIN kept = DOMAIN dkKeys \ AgedOut /\ kept \in [DOMAIN dkKeys \ AgedOut -> DkKey]
  BY <1>3
<1>5. Active(dkKeys) \cap AgedOut = {} /\ Superseded \subseteq Active(dkKeys) /\ Active(dkKeys) \subseteq DOMAIN dkKeys
  BY DEF Active, AgedOut, Retired, Superseded
<1> HIDE DEF kept
<1>6. Active(kept) = Active(dkKeys) \ Superseded
  BY <1>3, <1>4, <1>5 DEF Active
<1>7. NewKey \in DkKey /\ NewKey.state = "active" /\ NewKey.created = dkNow
  BY <1>2 DEF NewKey, DkKey
<1>8. n \in Nat /\ n \notin DOMAIN dkKeys /\ 1 .. dkMade \subseteq 1 .. n /\ n \in 1 .. n
  BY <1>2
<1> DEFINE K == AddKey(kept)
<1>9. DOMAIN K = DOMAIN kept \cup {n} /\ K[n] = NewKey /\ \A k \in DOMAIN kept : K[k] = kept[k]
  BY <1>4, <1>8 DEF AddKey
<1>10. K = [k \in DOMAIN kept \cup {n} |-> IF k = n THEN NewKey ELSE kept[k]]
  BY DEF AddKey
<1>11. K \in [DOMAIN K -> DkKey]
  BY <1>4, <1>7, <1>9, <1>10
<1> HIDE DEF K
<1>12. Active(K) = Active(kept) \cup {n}
  BY <1>7, <1>9 DEF Active
<1>13. CASE StartsRollover
  <2>1. dkKeys' = K /\ dkMade' = n
    BY <1>1, <1>13 DEF K
  <2>2. DOMAIN K \subseteq 1 .. n /\ \A k \in DOMAIN K : K[k].created <= dkNow
    BY <1>2, <1>3, <1>4, <1>7, <1>8, <1>9
  <2>3. DkTyped'
    BY <1>1, <1>8, <1>11, <2>1, <2>2 DEF DkTyped
  <2>4. \A k \in Active(K) : \/ k \in Active(dkKeys) /\ K[k].created = dkKeys[k].created
                             \/ K[k].created = dkNow
    BY <1>3, <1>4, <1>5, <1>6, <1>7, <1>9, <1>12
  <2>5. QED
    BY <1>1, <1>6, <1>12, <2>1, <2>3, <2>4
<1>14. CASE ~StartsRollover
  <2>1. dkKeys' = kept /\ dkMade' = dkMade
    BY <1>1, <1>14
  <2>2. DOMAIN kept \subseteq 1 .. dkMade /\ \A k \in DOMAIN kept : kept[k].created <= dkNow
    BY <1>2, <1>3, <1>4
  <2>3. DkTyped'
    BY <1>1, <1>2, <1>4, <2>1, <2>2 DEF DkTyped
  <2>4. \A k \in Active(kept) : k \in Active(dkKeys) /\ kept[k].created = dkKeys[k].created
    BY <1>3, <1>4, <1>5, <1>6
  <2>5. QED
    BY <1>1, <1>6, <2>1, <2>3, <2>4
<1>15. QED
  BY <1>13, <1>14

\* A retired key's successor has signed all that validators hold: the overlap is over,
\* and it outlasts what they cache.
LEMMA DkRollKeeps == OverlapOutlastsCaches /\ DkInv /\ DkRoll => DkInv'
<1> SUFFICES ASSUME OverlapOutlastsCaches, DkInv, DkRoll PROVE DkInv'
  OBVIOUS
<1>1. dkPass = "roll" /\ UNCHANGED <<dkNow, dkServed, dkSeen, dkLastSign, dkSkipped, dkFaults>>
  BY DEF DkRoll
<1>2. DkTyped /\ DkHeld /\ DkFresh
  BY DEF DkInv
<1>3. DkFresh'
  BY <1>1, <1>2 DEF DkFresh, DkRoll
<1>4. CASE dkPass' = "idle"
  <2>1. UNCHANGED <<dkKeys, dkMade>>
    BY <1>4 DEF DkRoll
  <2>2. DkTyped'
    BY <1>1, <1>2, <1>4, <2>1 DEF DkTyped
  <2>3. DkHeld'
    BY <1>1, <1>2, <2>1 DEF DkHeld
  <2>4. dkKeys # <<>> /\ ~dkSkipped => DkAnchored'
    BY <1>1, <1>4, <2>1 DEF DkInv, DkAnchored, Active
  <2>5. QED
    BY <1>1, <1>3, <2>1, <2>2, <2>3, <2>4 DEF DkInv
<1>5. CASE dkPass' # "idle"
  <2>1. /\ DkTyped' /\ dkPass' = "reload" /\ Active(dkKeys) # {}
        /\ Active(dkKeys) \ Superseded \subseteq Active(dkKeys')
        /\ \A k \in Active(dkKeys') : \/ k \in Active(dkKeys) /\ dkKeys'[k].created = dkKeys[k].created
                                      \/ dkKeys'[k].created = dkNow
    BY <1>2, <1>5, DkRollKeys
  <2>2. PICK b \in Active(dkKeys) : dkKeys[b].created = Newest(dkKeys)
    BY <1>2, <2>1, NewestKey
  <2>3. dkNow \in Nat /\ dkKeys[b].created \in Nat /\ \A s \in dkSeen : s.time \in Nat
    BY <1>2, <2>2, ActiveKeys DEF DkTyped, DkKey, DkSnapshot
  <2>4. b \in Active(dkKeys')
    <3>1. b \notin Superseded
      BY <2>2, <2>3 DEF Superseded
    <3>2. QED
      BY <2>1, <2>2, <3>1
  <2>5. dkKeys # <<>> /\ dkKeys' # <<>>
    <3>1. Active(<<>>) = {}
      BY DEF Active
    <3>2. QED
      BY <2>1, <2>4, <3>1
  <2>6. DkHeld'
    BY <1>1, <1>2, <2>5 DEF DkHeld
  <2>7. ASSUME ~dkSkipped PROVE DkAnchored'
    <3>1. /\ \A k \in Active(dkKeys) : \A s \in dkSeen : s.time > dkKeys[k].created => k \in s.signers
          /\ \E a \in Active(dkKeys) : \A s \in dkSeen : a \in s.signers
      BY <2>5, <2>7 DEF DkInv, DkAnchored
    <3>2. \A s \in dkSeen : ~(s.time > dkNow)
      BY <1>2, <2>3 DEF DkHeld
    <3>3. \A k \in Active(dkKeys') : \A s \in dkSeen : s.time > dkKeys'[k].created => k \in s.signers
      BY <2>1, <3>1, <3>2
    <3>4. PICK a \in Active(dkKeys) : \A s \in dkSeen : a \in s.signers
      BY <3>1
    <3>5. \E x \in Active(dkKeys') : \A s \in dkSeen : x \in s.signers
      <4>1. CASE a \notin Superseded
        BY <2>1, <3>4, <4>1
      <4>2. CASE a \in Superseded
        <5>1. dkNow - dkKeys[b].created >= DkOverlap
          BY <2>2, <4>2 DEF Superseded
        <5>2. DkCached \in Nat /\ DkOverlap \in Nat /\ DkCached < DkOverlap
          BY DkAssumption DEF OverlapOutlastsCaches
        <5>3. \A s \in dkSeen : s.time <= dkNow /\ dkNow - s.time <= DkCached
          BY <1>2 DEF DkHeld
        <5>4. \A s \in dkSeen : s.time > dkKeys[b].created
          BY <2>3, <5>1, <5>2, <5>3
        <5>5. \A s \in dkSeen : b \in s.signers
          BY <2>2, <3>1, <5>4
        <5>6. QED
          BY <2>4, <5>5
      <4>3. QED
        BY <4>1, <4>2
    <3>6. Active(dkKeys)' = Active(dkKeys')
      OBVIOUS
    <3>7. QED
      BY <1>1, <2>1, <3>3, <3>5, <3>6 DEF DkAnchored
  <2>8. QED
    BY <1>1, <1>3, <2>1, <2>6, <2>7 DEF DkInv
<1>6. QED
  BY <1>4, <1>5

\* The reload after the last zone, and the one that an error skips.
LEMMA DkReloadKeeps == DkInv /\ (DkReload \/ DkLaterZoneFails) => DkInv'
<1>1. ASSUME DkInv, DkReload PROVE DkInv'
  <2>1. /\ dkPass = "reload" /\ dkPass' = "idle" /\ Serve(dkKeys)
        /\ UNCHANGED <<dkNow, dkKeys, dkLastSign, dkSkipped, dkMade, dkFaults>>
    BY <1>1 DEF DkReload
  <2>2. dkServed'.at = dkNow
    BY <1>1, <2>1, DkServes
  <2>3. dkNow \in Nat /\ dkLastSign \in Nat /\ dkFaults \in Nat /\ dkServed.at \in Nat
    BY <1>1 DEF DkInv, DkTyped
  <2>4. dkLastSign <= dkServed.at /\ dkServed.at <= dkNow
    BY <1>1 DEF DkInv, DkFresh
  <2>5. dkLastSign <= dkNow /\ dkNow <= dkNow
    BY <2>3, <2>4
  <2>6. DkFresh'
    BY <1>1, <2>1, <2>2, <2>5 DEF DkInv, DkFresh
  <2>7. QED
    BY <1>1, <2>1, <2>3, <2>6, DkServesKeeps
<1>2. ASSUME DkInv, DkLaterZoneFails PROVE DkInv'
  <2>1. /\ dkPass = "reload" /\ dkPass' = "idle" /\ dkFaults < DkMaxFaults /\ dkFaults' = dkFaults + 1 /\ dkSkipped' = TRUE
        /\ UNCHANGED <<dkNow, dkKeys, dkServed, dkSeen, dkLastSign, dkMade>>
    BY <1>2 DEF DkLaterZoneFails
  <2>2. dkNow \in Nat /\ dkLastSign \in Nat /\ dkFaults \in Nat /\ DkMaxFaults \in Nat /\ DkValidity \in Nat
    BY <1>2, DkAssumption DEF DkInv, DkTyped
  <2>3. dkFaults' \in Nat /\ dkFaults' <= DkMaxFaults /\ DkValidity \div 2 \in Int
    BY <2>1, <2>2
  <2>4. dkNow - dkLastSign < DkValidity \div 2 + dkFaults
    BY <1>2, <2>1 DEF DkInv, DkFresh
  <2>5. dkNow - dkLastSign < DkValidity \div 2 + dkFaults'
    BY <2>1, <2>2, <2>3, <2>4
  <2>6. DkTyped'
    BY <1>2, <2>1, <2>3 DEF DkInv, DkTyped
  <2>7. DkHeld'
    BY <1>2, <2>1 DEF DkInv, DkHeld
  <2>8. DkFresh'
    BY <1>2, <2>1, <2>3, <2>5 DEF DkInv, DkFresh
  <2>9. QED
    BY <2>1, <2>6, <2>7, <2>8 DEF DkInv
<1>3. QED
  BY <1>1, <1>2

\* Any other reload, and a start.
LEMMA DkOthersKeep == RenewalsInTime /\ DkInv /\ (DkOtherReload \/ DkRestart) => DkInv'
<1>1. ASSUME DkInv, DkOtherReload PROVE DkInv'
  <2>1. Serve(dkKeys) /\ UNCHANGED <<dkNow, dkKeys, dkPass, dkLastSign, dkSkipped, dkMade, dkFaults>>
    BY <1>1 DEF DkOtherReload
  <2>2. dkServed'.at = dkNow
    BY <1>1, <2>1, DkServes
  <2>3. dkNow \in Nat /\ dkLastSign \in Nat /\ dkFaults \in Nat /\ dkServed.at \in Nat
        /\ dkPass \in {"idle", "renew", "roll", "reload"}
    BY <1>1 DEF DkInv, DkTyped
  <2>4. dkLastSign <= dkServed.at /\ dkServed.at <= dkNow
    BY <1>1 DEF DkInv, DkFresh
  <2>5. dkLastSign <= dkNow /\ dkNow <= dkNow
    BY <2>3, <2>4
  <2>6. DkFresh'
    BY <1>1, <2>1, <2>2, <2>5 DEF DkInv, DkFresh
  <2>7. QED
    BY <1>1, <2>1, <2>3, <2>6, DkServesKeeps
<1>2. ASSUME RenewalsInTime, DkInv, DkRestart PROVE DkInv'
  <2>1. /\ dkFaults < DkMaxFaults /\ dkFaults' = dkFaults + 1 /\ dkPass' = "idle" /\ dkLastSign' = dkNow
        /\ Serve(dkKeys) /\ UNCHANGED <<dkNow, dkKeys, dkSkipped, dkMade>>
    BY <1>2 DEF DkRestart
  <2>2. dkServed'.at = dkNow
    BY <1>2, <2>1, DkServes
  <2>3. dkNow \in Nat /\ dkFaults \in Nat /\ DkMaxFaults \in Nat /\ DkValidity \div 2 \in Nat \ {0}
    BY <1>2, DkAssumption, HalfValidity DEF DkInv, DkTyped
  <2>4. dkFaults' \in Nat /\ dkFaults' <= DkMaxFaults
    BY <2>1, <2>3
  <2>5. dkNow - dkNow < DkValidity \div 2 + dkFaults' /\ dkNow <= dkNow
    BY <2>3, <2>4
  <2>6. DkFresh'
    BY <2>1, <2>2, <2>4, <2>5 DEF DkFresh
  <2>7. QED
    BY <1>2, <2>1, <2>3, <2>4, <2>6, DkServesKeeps
<1>3. QED
  BY <1>1, <1>2

\* An interval passes: what validators now see is what is stored.
LEMMA DkTickKeeps == RenewalsInTime /\ DkInv /\ DkTick => DkInv'
<1> SUFFICES ASSUME RenewalsInTime, DkInv, DkTick PROVE DkInv'
  OBVIOUS
<1> DEFINE new == [signers |-> dkServed.signers, dnskeys |-> dkServed.dnskeys, time |-> dkNow + 1]
<1>1. /\ dkPass = "idle" /\ dkNow' = dkNow + 1 /\ dkPass' = "renew"
      /\ dkSeen' = {s \in dkSeen : dkNow + 1 - s.time <= DkCached} \cup (IF dkKeys = <<>> THEN {} ELSE {new})
      /\ UNCHANGED <<dkKeys, dkServed, dkLastSign, dkSkipped, dkMade, dkFaults>>
  BY DEF DkTick
<1>2. /\ DkTyped /\ DkHeld /\ DkFresh /\ dkNow \in Nat /\ dkLastSign \in Nat /\ dkFaults \in Nat /\ dkServed.at \in Nat
      /\ dkServed.signers \in SUBSET Nat /\ dkServed.dnskeys \in SUBSET Nat /\ dkServed.signers \subseteq dkServed.dnskeys
  BY DEF DkInv, DkTyped
<1>3. new \in DkSnapshot /\ new.signers = dkServed.signers /\ new.dnskeys = dkServed.dnskeys /\ new.time = dkNow + 1
  BY <1>2 DEF DkSnapshot
<1> HIDE DEF new
<1>4. \A s \in dkSeen' : (s \in dkSeen /\ dkNow + 1 - s.time <= DkCached) \/ (dkKeys # <<>> /\ s = new)
  BY <1>1
<1>5. DkTyped'
  <2>1. dkSeen' \subseteq DkSnapshot
    BY <1>2, <1>3, <1>4 DEF DkTyped
  <2>2. \A k \in DOMAIN dkKeys : dkKeys[k].created \in Nat /\ dkKeys[k].created <= dkNow
    BY <1>2 DEF DkTyped, DkKey
  <2>3. \A k \in DOMAIN dkKeys : dkKeys[k].created <= dkNow + 1
    BY <1>2, <2>2
  <2>4. dkNow' \in Nat
    BY <1>1, <1>2
  <2>5. QED
    BY <1>1, <1>2, <2>1, <2>3, <2>4 DEF DkTyped
<1>6. DkHeld'
  <2>1. \A s \in dkSeen : s.time \in Nat /\ s.time <= dkNow /\ s.signers \subseteq s.dnskeys
    BY <1>2 DEF DkTyped, DkHeld, DkSnapshot
  <2>2. \A s \in dkSeen : s.time <= dkNow + 1
    BY <1>2, <2>1
  <2>3. DkCached \in Nat
    BY DkAssumption
  <2>4. new.time <= dkNow + 1 /\ (dkNow + 1) - new.time <= DkCached /\ new.signers \subseteq new.dnskeys
    BY <1>2, <1>3, <2>3
  <2>5. dkKeys = <<>> => dkSeen' = {}
    BY <1>2, <1>4 DEF DkHeld
  <2>6. \A s \in dkSeen' : s.time <= dkNow + 1 /\ (dkNow + 1) - s.time <= DkCached /\ s.signers \subseteq s.dnskeys
    <3>1. \A s \in dkSeen : dkNow + 1 - s.time = (dkNow + 1) - s.time
      BY <1>2, <2>1
    <3>2. QED
      BY <1>4, <2>1, <2>2, <2>4, <3>1
  <2>7. dkNow' = dkNow + 1 /\ dkKeys' = dkKeys
    BY <1>1
  <2>8. QED
    BY <2>5, <2>6, <2>7 DEF DkHeld
<1>7. DkFresh'
  <2>1. dkLastSign <= dkServed.at /\ dkServed.at <= dkNow /\ dkFaults <= DkMaxFaults
        /\ dkNow - dkLastSign < DkValidity \div 2 + dkFaults
    BY <1>1, <1>2 DEF DkFresh
  <2>2. DkValidity \div 2 \in Nat
    BY HalfValidity
  <2>3. (dkNow + 1) - dkLastSign <= DkValidity \div 2 + dkFaults /\ dkServed.at <= dkNow + 1
    BY <1>2, <2>1, <2>2
  <2>4. QED
    BY <1>1, <2>1, <2>3 DEF DkFresh
<1>8. ASSUME dkKeys # <<>>, ~dkSkipped PROVE DkAnchored'
  <2>1. DkAnchored
    BY <1>8 DEF DkInv
  <2>2. new.signers = Active(dkKeys)
    BY <1>1, <1>3, <2>1 DEF DkAnchored
  <2>3. \A k \in Active(dkKeys) : \A s \in dkSeen' : s.time > dkKeys[k].created => k \in s.signers
    BY <1>4, <2>1, <2>2 DEF DkAnchored
  <2>4. \E a \in Active(dkKeys) : \A s \in dkSeen' : a \in s.signers
    BY <1>4, <2>1, <2>2 DEF DkAnchored
  <2>5. Active(dkKeys)' = Active(dkKeys)
    BY <1>1 DEF Active
  <2>6. QED
    BY <1>1, <2>1, <2>3, <2>4, <2>5 DEF DkAnchored
<1>9. QED
  BY <1>1, <1>5, <1>6, <1>7, <1>8 DEF DkInv

\* The invariant holds at the start.
LEMMA DkInitHolds == RenewalsInTime /\ DkInit => DkInv
<1> SUFFICES ASSUME RenewalsInTime, DkInit PROVE DkInv
  OBVIOUS
<1>1. DOMAIN <<>> = {} /\ <<>> \in [{} -> DkKey]
  OBVIOUS
<1>2. DkTyped
  BY <1>1 DEF DkInit, DkTyped
<1>3. DkHeld
  BY DEF DkInit, DkHeld
<1>4. DkFresh
  BY HalfValidity, DkAssumption DEF DkInit, DkFresh
<1>5. QED
  BY <1>2, <1>3, <1>4 DEF DkInv, DkInit

\* Every step of the maintenance, of the operator and of a restart keeps it.
LEMMA DkStep == OverlapOutlastsCaches /\ RenewalsInTime /\ DkInv /\ [DkNext]_dkVars => DkInv'
<1> SUFFICES ASSUME OverlapOutlastsCaches, RenewalsInTime, DkInv, [DkNext]_dkVars PROVE DkInv'
  OBVIOUS
<1>1. CASE DkSign \/ DkUnsign
  BY <1>1, DkSignKeeps, DkUnsignKeeps
<1>2. CASE \E f \in BOOLEAN : DkRenew(f)
  BY <1>2, DkRenewKeeps
<1>3. CASE DkRoll
  BY <1>3, DkRollKeeps
<1>4. CASE DkReload \/ DkLaterZoneFails
  BY <1>4, DkReloadKeeps
<1>5. CASE DkOtherReload \/ DkRestart
  BY <1>5, DkOthersKeep
<1>6. CASE DkTick
  BY <1>6, DkTickKeeps
<1>7. CASE UNCHANGED dkVars
  BY <1>7 DEF dkVars, DkInv, DkTyped, DkHeld, DkFresh, DkAnchored, Active
<1>8. QED
  BY <1>1, <1>2, <1>3, <1>4, <1>5, <1>6, <1>7 DEF DkNext

\* A key that signs all that is held is in every key set that is held, and signatures
\* that are renewed in time have not expired.
LEMMA DkVerifies == RenewalsInTime /\ DkInv => SignedAnswersVerify
<1> SUFFICES ASSUME RenewalsInTime, DkInv, dkKeys # <<>>, ~dkSkipped
             PROVE  /\ \A s, t \in dkSeen : s.signers \cap t.dnskeys # {}
                    /\ dkServed.at + DkValidity > dkNow
  BY DEF SignedAnswersVerify
<1>1. DkAnchored
  BY DEF DkInv
<1>2. \A s \in dkSeen : s.signers \subseteq s.dnskeys
  BY DEF DkInv, DkHeld
<1>3. \A s, t \in dkSeen : s.signers \cap t.dnskeys # {}
  BY <1>1, <1>2 DEF DkAnchored
<1>4. dkNow \in Nat /\ dkLastSign \in Nat /\ dkFaults \in Nat /\ dkServed.at \in Nat
  BY DEF DkInv, DkTyped
<1>5. dkLastSign <= dkServed.at /\ dkFaults <= DkMaxFaults
  BY DEF DkInv, DkFresh
<1>6. DkMaxFaults \in Nat /\ DkValidity \in Nat /\ DkValidity \div 2 \in Nat /\ DkValidity \div 2 + DkMaxFaults < DkValidity
  BY DkAssumption, HalfValidity DEF RenewalsInTime
<1>7. dkNow - dkLastSign <= DkValidity \div 2 + dkFaults
  <2>1. CASE dkPass = "renew"
    BY <2>1 DEF DkInv, DkFresh
  <2>2. CASE dkPass # "renew"
    <3>1. dkNow - dkLastSign < DkValidity \div 2 + dkFaults
      BY <2>2 DEF DkInv, DkFresh
    <3>2. QED
      BY <1>4, <1>6, <3>1
  <2>3. QED
    BY <2>1, <2>2
<1> DEFINE H == DkValidity \div 2
<1>8. dkServed.at + DkValidity > dkNow
  <2>1. H \in Nat /\ H + DkMaxFaults < DkValidity /\ dkNow - dkLastSign <= H + dkFaults
    BY <1>6, <1>7
  <2> HIDE DEF H
  <2>2. QED
    BY <1>4, <1>5, <1>6, <2>1
<1>9. QED
  BY <1>3, <1>8

\* SignedAnswersVerify for every zone and every setting in which a rollover's overlap
\* outlasts what validators cache and fewer renewals fail than there are intervals in the
\* second half of the validity (dnssec.rs renews at half of it): whatever answer and
\* whatever key set a validator still holds, one verifies the other, all through a rollover.
THEOREM SignedAnswersVerifyCorrect ==
  ASSUME OverlapOutlastsCaches, RenewalsInTime
  PROVE  DkSpec => []SignedAnswersVerify
<1>1. DkInit => DkInv
  BY DkInitHolds
<1>2. DkInv /\ [DkNext]_dkVars => DkInv'
  BY DkStep
<1>3. DkInv => SignedAnswersVerify
  BY DkVerifies
<1>4. QED
  BY <1>1, <1>2, <1>3, PTL DEF DkSpec

----------------------------------------------------------------------------
(* The threat lists *)

\* What is kept of each list is the version its client state names, and what is
\* searched is all of them.
SbWhole(db) ==
  /\ DOMAIN db = {"lists", "index", "state", "prefixes"}
  /\ DOMAIN db.state = SbLists /\ DOMAIN db.prefixes = SbLists
  /\ \A l \in SbLists : db.prefixes[l] = IF db.state[l] = 0 THEN {} ELSE Version(l, db.state[l])
  /\ db.index = UNION {db.prefixes[l] : l \in SbLists}

\* The service's versions are numbered from 1.
SbServed == \A l \in SbLists : sbServes[l] \in Nat \ {0}

\* Lists come with a key: under none there is nothing to fetch.
SbKeyed ==
  /\ DOMAIN sbLoop = {"current", "stage", "asked"}
  /\ sbLoop.stage \in {"lists", "fetch"} => sbLoop.current # ""
  /\ sbLoop.current # "" \/ sbDb = NoLists
  /\ sbLoop.stage = "unstarted" => sbDb = NoLists

SbInv == SbServed /\ SbKeyed /\ SbWhole(sbDb)

\* An update that applies leaves the list of its version: the checksum of the whole says so.
LEMMA UpdateGives ==
  ASSUME NEW db, NEW l, NEW u
  PROVE  \/ ListUpdated(db, l, u).state = u.version /\ ListUpdated(db, l, u).prefixes = u.checksum
         \/ ListUpdated(db, l, u).state = 0 /\ ListUpdated(db, l, u).prefixes = {}
<1>1. UpdateApplies(db.prefixes[l], u) => Patched(db.prefixes[l], u) = u.checksum
  BY DEF UpdateApplies
<1>2. QED
  BY <1>1 DEF ListUpdated

\* The answer to an update, of whatever lists, leaves each list in step with its state.
LEMMA ReindexedInStep ==
  ASSUME NEW db, SbWhole(db), NEW us,
         \A l \in DOMAIN us : l \in SbLists => us[l].version # 0 /\ us[l].checksum = Version(l, us[l].version)
  PROVE  SbWhole(Reindexed(db, us))
<1> DEFINE new == [l \in SbLists |-> IF l \in db.lists /\ l \in DOMAIN us
                                     THEN ListUpdated(db, l, us[l])
                                     ELSE [state |-> db.state[l], prefixes |-> db.prefixes[l]]]
<1>1. Reindexed(db, us) = [lists |-> db.lists, state |-> [l \in SbLists |-> new[l].state],
               prefixes |-> [l \in SbLists |-> new[l].prefixes], index |-> UNION {new[l].prefixes : l \in SbLists}]
  BY DEF Reindexed
<1>2. \A l \in SbLists : new[l].prefixes = IF new[l].state = 0 THEN {} ELSE Version(l, new[l].state)
  <2> TAKE l \in SbLists
  <2>1. CASE l \in db.lists /\ l \in DOMAIN us
    <3>1. us[l].version # 0 /\ us[l].checksum = Version(l, us[l].version)
      BY <2>1
    <3>2. new[l] = ListUpdated(db, l, us[l])
      BY <2>1
    <3> HIDE DEF new
    <3>3. QED
      BY <3>1, <3>2, UpdateGives
  <2>2. CASE ~(l \in db.lists /\ l \in DOMAIN us)
    <3>1. new[l].state = db.state[l] /\ new[l].prefixes = db.prefixes[l]
      BY <2>2
    <3> HIDE DEF new
    <3>2. QED
      BY <3>1 DEF SbWhole
  <2>3. QED
    BY <2>1, <2>2
<1> HIDE DEF new
<1> DEFINE r == Reindexed(db, us)
<1>3. /\ DOMAIN r = {"lists", "index", "state", "prefixes"} /\ DOMAIN r.state = SbLists /\ DOMAIN r.prefixes = SbLists
      /\ \A l \in SbLists : r.state[l] = new[l].state /\ r.prefixes[l] = new[l].prefixes
  BY <1>1
<1>4. {r.prefixes[l] : l \in SbLists} = {new[l].prefixes : l \in SbLists}
  BY <1>3
<1>5. r.index = UNION {new[l].prefixes : l \in SbLists}
  BY <1>1
<1> HIDE DEF r
<1>6. SbWhole(r)
  BY <1>2, <1>3, <1>4, <1>5 DEF SbWhole
<1>7. QED
  BY <1>6 DEF r

\* With no list there is nothing to search.
LEMMA NoListsWhole == SbWhole(NoLists)
<1>1. NoLists.index = UNION {NoLists.prefixes[l] : l \in SbLists}
  BY DEF NoLists
<1>2. QED
  BY <1>1 DEF NoLists, SbWhole

\* Every step of the loop, the console, the service and a lookup.
LEMMA SbStep == ASSUME SbInv, [SbNext]_sbVars PROVE SbInv'
<1>1. DOMAIN Parked = {"current", "stage", "asked"} /\ Parked.current = "" /\ Parked.stage = "idle"
  BY DEF Parked
<1>2. CASE UNCHANGED <<sbServes, sbDb, sbLoop>>
  BY <1>2 DEF SbInv, SbServed, SbKeyed
<1>3. CASE SbLoopTurns
  <2>1. UNCHANGED sbServes /\ (sbDb' = NoLists \/ (sbDb' = sbDb /\ sbKey = sbLoop.current))
    BY <1>3 DEF SbLoopTurns
  <2>2. /\ DOMAIN sbLoop' = DOMAIN sbLoop /\ sbLoop'.current = sbKey
        /\ sbLoop'.stage \in {"idle", "lists", "fetch"} /\ (sbKey = "" => sbLoop'.stage = "idle")
    BY <1>3 DEF SbLoopTurns, SbInv, SbKeyed
  <2>3. SbKeyed'
    BY <2>1, <2>2 DEF SbInv, SbKeyed
  <2>4. QED
    BY <2>1, <2>3, NoListsWhole DEF SbInv, SbServed
<1>4. CASE SbListsOffered
  <2>1. /\ UNCHANGED sbServes /\ sbDb' = [sbDb EXCEPT !.lists = SbLists] /\ sbLoop' = [sbLoop EXCEPT !.stage = "fetch"]
        /\ sbLoop.stage = "lists"
    BY <1>4 DEF SbListsOffered
  <2>2. sbDb'.state = sbDb.state /\ sbDb'.prefixes = sbDb.prefixes /\ sbDb'.index = sbDb.index /\ DOMAIN sbDb' = DOMAIN sbDb
    BY <2>1 DEF SbInv, SbWhole
  <2>3. DOMAIN sbLoop' = DOMAIN sbLoop /\ sbLoop'.current = sbLoop.current /\ sbLoop'.stage = "fetch" /\ sbLoop.current # ""
    BY <2>1 DEF SbInv, SbKeyed
  <2>4. SbWhole(sbDb')
    BY <2>2 DEF SbInv, SbWhole
  <2>5. QED
    BY <2>1, <2>3, <2>4 DEF SbInv, SbServed, SbKeyed
<1>5. CASE SbUpdated
  <2>1. PICK answered \in SUBSET SbLists, spoilt \in SUBSET SbLists, full \in BOOLEAN :
          sbDb' = Reindexed(sbDb, [l \in answered |->
                     [ServiceUpdate(l, sbLoop.asked[l], full) EXCEPT !.decodes = l \notin spoilt]])
    BY <1>5 DEF SbUpdated
  <2>2. UNCHANGED sbServes /\ sbLoop.stage = "fetch" /\ sbLoop' = [sbLoop EXCEPT !.stage = "idle"]
    BY <1>5 DEF SbUpdated
  <2>3. sbLoop'.current = sbLoop.current /\ sbLoop'.stage = "idle" /\ DOMAIN sbLoop' = DOMAIN sbLoop /\ sbLoop.current # ""
    BY <2>2 DEF SbInv, SbKeyed
  <2> DEFINE us == [l \in answered |-> [ServiceUpdate(l, sbLoop.asked[l], full) EXCEPT !.decodes = l \notin spoilt]]
  <2>4. \A l \in DOMAIN us : l \in SbLists => us[l].version # 0 /\ us[l].checksum = Version(l, us[l].version)
    <3> TAKE l \in DOMAIN us
    <3>1. us[l].version = sbServes[l] /\ us[l].checksum = Version(l, sbServes[l])
      BY DEF ServiceUpdate
    <3>2. QED
      BY <3>1 DEF SbInv, SbServed
  <2>5. sbDb' = Reindexed(sbDb, us) /\ SbWhole(sbDb)
    BY <2>1 DEF SbInv
  <2> HIDE DEF us
  <2>6. SbWhole(Reindexed(sbDb, us))
    BY <2>4, <2>5, ReindexedInStep
  <2>7. SbWhole(sbDb')
    BY <2>5, <2>6
  <2>8. QED
    BY <2>2, <2>3, <2>7 DEF SbInv, SbServed, SbKeyed
<1>6. CASE SbUpdateFails
  <2>1. UNCHANGED <<sbServes, sbDb>> /\ sbLoop' = [sbLoop EXCEPT !.stage = "idle"]
    BY <1>6 DEF SbUpdateFails
  <2>2. sbLoop'.current = sbLoop.current /\ sbLoop'.stage = "idle" /\ DOMAIN sbLoop' = DOMAIN sbLoop
    BY <2>1 DEF SbInv, SbKeyed
  <2>3. QED
    BY <2>1, <2>2 DEF SbInv, SbServed, SbKeyed
<1>7. ASSUME NEW name \in DOMAIN SbNames, SbLookup(name) PROVE SbInv'
  <2>1. UNCHANGED <<sbServes, sbDb>> /\ (sbLoop' = sbLoop \/ (sbLoop' = Parked /\ sbLoop.stage = "unstarted"))
    BY <1>7 DEF SbLookup
  <2>2. QED
    BY <1>1, <2>1 DEF SbInv, SbServed, SbKeyed
<1>8. ASSUME NEW l \in SbLists, SbServiceMoves(l) PROVE SbInv'
  <2>1. UNCHANGED <<sbDb, sbLoop>> /\ sbServes' = [sbServes EXCEPT ![l] = @ + 1]
    BY <1>8 DEF SbServiceMoves
  <2>2. \A m \in SbLists : sbServes'[m] \in Nat \ {0}
    BY <2>1 DEF SbInv, SbServed
  <2>3. QED
    BY <2>1, <2>2 DEF SbInv, SbServed, SbKeyed
<1>9. CASE SbFullHashes \/ SbLookupGivesUp \/ SbTick \/ (\E key \in SbKeys : SbEdit(key))
  BY <1>2, <1>9 DEF SbFullHashes, SbLookupGivesUp, SbTick, SbEdit
<1>10. CASE UNCHANGED sbVars
  BY <1>2, <1>10 DEF sbVars
<1>11. QED
  BY <1>3, <1>4, <1>5, <1>6, <1>7, <1>8, <1>9, <1>10 DEF SbNext

\* Safe Browsing: whatever full and partial updates, spoilt and missing answers,
\* failed requests and changes of key come in between, each list is what the
\* service had at the version the server says it has, and lookups search all of them.
THEOREM ThreatListsInStepCorrect == SbSpec => []ThreatListsInStep
<1>1. SbInit => SbInv
  <2> SUFFICES ASSUME SbInit PROVE SbInv
    OBVIOUS
  <2>2. sbDb = NoLists /\ \A l \in SbLists : sbServes[l] = 1
    BY DEF SbInit
  <2>3. sbLoop.stage = "unstarted" /\ DOMAIN sbLoop = {"current", "stage", "asked"}
    BY DEF SbInit, Parked
  <2>4. SbKeyed /\ SbServed
    BY <2>2, <2>3 DEF SbKeyed, SbServed
  <2>5. QED
    BY <2>2, <2>4, NoListsWhole DEF SbInv
<1>2. SbInv /\ [SbNext]_sbVars => SbInv'
  BY SbStep
<1>3. SbInv => ThreatListsInStep
  BY DEF SbInv, SbKeyed, SbWhole, ThreatListsInStep
<1>4. QED
  BY <1>1, <1>2, <1>3, PTL DEF SbSpec

----------------------------------------------------------------------------
(* Blocklists *)

\* What is merged of a list of sources, given the rows.
FitsRow(rows, i, s) == i <= Len(rows) /\ Describes(rows[i], s)
MergedOf(rows, sources, scope) ==
    UNION {rows[i].cached : i \in {i \in DOMAIN sources : sources[i].on /\ sources[i].scope = scope
                                                         /\ FitsRow(rows, i, sources[i])}}
GroupsOf(rows, sources) ==
    {<<sources[i].name, rows[i].cached>> :
       i \in {i \in DOMAIN sources : sources[i].on /\ sources[i].scope = "groups" /\ FitsRow(rows, i, sources[i])}}

\* A list of n things.
Listed(s, n) == n \in Nat /\ DOMAIN s = 1..n /\ Len(s) = n

\* There is a row for each source, and it holds what that source's url offers.
RowsFit ==
  /\ Listed(bfRows, Len(bfRows)) /\ DOMAIN bfSources \subseteq Nat \ {0}
  /\ \A i \in DOMAIN bfRows : /\ DOMAIN bfRows[i] = {"of", "cached", "due"}
                              /\ bfRows[i].cached \in BfOffers(bfRows[i].of)

\* A refresh under way goes by the sources configured now.
OfNow(task) ==
  task.pc # "rest" => task.sources = bfSources
MergedNow(task) ==
  task.pc = "publish" => /\ task.merged = MergedOf(bfRows, bfSources, "everyone")
                         /\ bfDot = MergedOf(bfRows, bfSources, "dot") /\ bfGroups = GroupsOf(bfRows, bfSources)

TaskFields == {"pc", "expected", "sources", "at", "merged"}
TasksTyped ==
  /\ DOMAIN bfLoop = TaskFields /\ bfLoop.pc \in {"rest", "fetch", "merge", "publish"}
  /\ DOMAIN bfForced = TaskFields /\ bfForced.pc \in {"rest", "fetch", "merge", "publish"}

\* Without a change that waits and a race of refreshes, one refresh at most is under
\* way, and what is published is of the sources configured now.
Unraced ==
  ~bfRaced /\ ~bfPermit =>
    /\ bfLoop.pc = "rest" \/ bfForced.pc = "rest"
    /\ OfNow(bfLoop) /\ MergedNow(bfLoop) /\ MergedNow(bfForced)
    /\ bfLoop.pc = "rest" /\ bfForced.pc = "rest" =>
         /\ bfEngine = [remote |-> MergedOf(bfRows, bfSources, "everyone"), dot |-> MergedOf(bfRows, bfSources, "dot")]
         /\ bfGroups = GroupsOf(bfRows, bfSources)

\* A forced refresh that nothing raced goes by the sources configured now.
ForcedOfNow == ~bfRaced => OfNow(bfForced)

BfInv == RowsFit /\ TasksTyped /\ Unraced /\ ForcedOfNow

\* A function on 1..n is a list of n things.
LEMMA ListedIs ==
  ASSUME NEW n \in Nat, NEW s, s = [i \in 1..n |-> s[i]]
  PROVE  Listed(s, n)
<1> DEFINE V == {s[i] : i \in 1..n}
<1>1. s \in [1..n -> V]
  OBVIOUS
<1>2. s \in Seq(V)
  <2> HIDE DEF V
  <2>1. QED
    BY <1>1, SeqDef
<1>3. Len(s) \in Nat /\ DOMAIN s = 1..Len(s)
  <2> HIDE DEF V
  <2>1. QED
    BY <1>2, LenProperties
<1>4. DOMAIN s = 1..n
  BY <1>1
<1>5. Len(s) = n
  BY <1>3, <1>4
<1>6. QED
  BY <1>4, <1>5 DEF Listed

\* Rows that hold the same of the same sources merge to the same.
LEMMA MergedSame ==
  ASSUME NEW r, NEW q, Len(r) = Len(q), Listed(r, Len(r)), Listed(q, Len(q)), NEW src, DOMAIN src \subseteq Nat \ {0},
         \A i \in DOMAIN r : q[i].of = r[i].of /\ q[i].cached = r[i].cached
  PROVE  (\A scope : MergedOf(q, src, scope) = MergedOf(r, src, scope)) /\ GroupsOf(q, src) = GroupsOf(r, src)
<1>1. \A i \in DOMAIN src : FitsRow(q, i, src[i]) <=> FitsRow(r, i, src[i])
  BY DEF FitsRow, Describes, Listed
<1>2. \A i \in DOMAIN src : FitsRow(r, i, src[i]) => q[i].cached = r[i].cached
  BY DEF FitsRow, Listed
<1>3. ASSUME NEW scope PROVE MergedOf(q, src, scope) = MergedOf(r, src, scope)
  <2> DEFINE I == {i \in DOMAIN src : src[i].on /\ src[i].scope = scope /\ FitsRow(r, i, src[i])}
  <2>1. I = {i \in DOMAIN src : src[i].on /\ src[i].scope = scope /\ FitsRow(q, i, src[i])}
    BY <1>1
  <2>2. {q[i].cached : i \in I} = {r[i].cached : i \in I}
    BY <1>2
  <2>3. QED
    BY <2>1, <2>2 DEF MergedOf
<1>4. GroupsOf(q, src) = GroupsOf(r, src)
  <2> DEFINE I == {i \in DOMAIN src : src[i].on /\ src[i].scope = "groups" /\ FitsRow(r, i, src[i])}
  <2>1. I = {i \in DOMAIN src : src[i].on /\ src[i].scope = "groups" /\ FitsRow(q, i, src[i])}
    BY <1>1
  <2>2. {<<src[i].name, q[i].cached>> : i \in I} = {<<src[i].name, r[i].cached>> : i \in I}
    BY <1>2
  <2>3. QED
    BY <2>1, <2>2 DEF GroupsOf
<1>5. QED
  BY <1>3, <1>4

\* What the code merges.
LEMMA MergedIs ==
  /\ \A src, scope : Merged(src, scope) = MergedOf(bfRows, src, scope)
  /\ \A src : GroupSets(src) = GroupsOf(bfRows, src)
BY DEF Merged, MergedOf, GroupSets, GroupsOf, Described, FitsRow

\* Going on to the next fetch, or to the merge, keeps the sources a refresh began with.
LEMMA ProceedIs ==
  ASSUME NEW task, DOMAIN task = TaskFields, NEW k, NEW rows
  PROVE  LET new == BfProceed(task, k, rows) IN
           DOMAIN new = TaskFields /\ new.pc \in {"fetch", "merge"} /\ new.sources = task.sources /\ new.expected = task.expected
BY DEF BfProceed, TaskFields

\* A refresh begins with the sources configured now.
LEMMA StartedIs ==
  ASSUME NEW rows
  PROVE  LET new == BfStarted(rows) IN
           DOMAIN new = TaskFields /\ new.pc \in {"fetch", "merge"} /\ new.sources = bfSources
<1> DEFINE task == [BfResting EXCEPT !.expected = bfSources, !.sources = bfSources]
<1>1. DOMAIN task = TaskFields /\ task.sources = bfSources
  BY DEF BfResting, TaskFields
<1>2. BfStarted(rows) = BfProceed(task, 1, rows)
  BY DEF BfStarted
<1> HIDE DEF task
<1>3. QED
  BY <1>1, <1>2, ProceedIs

\* A fetch's answer is recorded with the row it is for, or nowhere.
LEMMA RecordKeeps ==
  ASSUME RowsFit, NEW task, NEW body \in BfBodies[task.sources[task.at].url], NEW ok \in BOOLEAN,
         bfRows' = BfRecord(task, body, ok), UNCHANGED bfSources
  PROVE  RowsFit'
<1> DEFINE s == task.sources[task.at]
           at == task.at
<1>1. CASE bfRows' = bfRows
  BY <1>1 DEF RowsFit, Listed, BfOffers, ParseBlocklist
<1>2. CASE Described(at, s) /\ bfRows' = [bfRows EXCEPT ![at].cached = ParseBlocklist(body, s.format), ![at].due = FALSE]
  <2>1. Listed(bfRows', Len(bfRows))
    <3>1. bfRows' = [i \in DOMAIN bfRows |-> bfRows'[i]] /\ Len(bfRows) \in Nat /\ DOMAIN bfRows = 1..Len(bfRows)
      BY <1>2 DEF RowsFit, Listed
    <3>2. QED
      BY <3>1, ListedIs
  <2>2. ASSUME NEW i \in DOMAIN bfRows, i # at PROVE bfRows'[i] = bfRows[i]
    BY <1>2, <2>2
  <2>3. ASSUME at \in DOMAIN bfRows
        PROVE  DOMAIN bfRows'[at] = {"of", "cached", "due"} /\ bfRows'[at].cached \in BfOffers(bfRows'[at].of)
    <3>1. /\ DOMAIN bfRows'[at] = DOMAIN bfRows[at] /\ bfRows'[at].of = bfRows[at].of
          /\ bfRows'[at].cached = ParseBlocklist(body, s.format)
      BY <1>2, <2>3 DEF RowsFit
    <3>2. bfRows[at].of.url = s.url /\ bfRows[at].of.format = s.format
      BY <1>2 DEF Described, Describes
    <3>3. ParseBlocklist(body, s.format) \in {ParseBlocklist(b, s.format) : b \in BfBodies[s.url]}
      OBVIOUS
    <3>4. ParseBlocklist(body, s.format) \in BfOffers(bfRows[at].of)
      BY <3>2, <3>3 DEF BfOffers
    <3>5. QED
      BY <2>3, <3>1, <3>4 DEF RowsFit
  <2>4. DOMAIN bfRows' = DOMAIN bfRows /\ Len(bfRows') = Len(bfRows)
    BY <2>1 DEF Listed, RowsFit
  <2>5. \A i \in DOMAIN bfRows' : DOMAIN bfRows'[i] = {"of", "cached", "due"} /\ bfRows'[i].cached \in BfOffers(bfRows'[i].of)
    BY <2>2, <2>3, <2>4 DEF RowsFit
  <2>6. QED
    BY <2>1, <2>4, <2>5 DEF RowsFit, Listed
<1>3. QED
  BY <1>1, <1>2 DEF BfRecord

\* Rows that only fall due, or are all made due, hold what they held.
LEMMA FeedsDueKeep ==
  ASSUME RowsFit, UNCHANGED bfSources, bfRows' = [i \in DOMAIN bfRows |-> bfRows'[i]],
         \A i \in DOMAIN bfRows : /\ DOMAIN bfRows'[i] = DOMAIN bfRows[i]
                                  /\ bfRows'[i].of = bfRows[i].of /\ bfRows'[i].cached = bfRows[i].cached
  PROVE  /\ RowsFit'
         /\ \A scope : MergedOf(bfRows', bfSources, scope) = MergedOf(bfRows, bfSources, scope)
         /\ GroupsOf(bfRows', bfSources) = GroupsOf(bfRows, bfSources)
<1>1. Listed(bfRows', Len(bfRows))
  BY ListedIs DEF RowsFit, Listed
<1>2. DOMAIN bfRows' = DOMAIN bfRows /\ Len(bfRows') = Len(bfRows)
  BY <1>1 DEF Listed, RowsFit
<1>3. RowsFit'
  <2>1. \A i \in DOMAIN bfRows' : DOMAIN bfRows'[i] = {"of", "cached", "due"} /\ bfRows'[i].cached \in BfOffers(bfRows'[i].of)
    BY <1>2 DEF RowsFit
  <2>2. Len(bfRows') \in Nat /\ DOMAIN bfRows' = 1..Len(bfRows')
    BY <1>1, <1>2 DEF Listed
  <2>3. DOMAIN bfSources' \subseteq Nat \ {0}
    BY DEF RowsFit
  <2> QED
    BY <2>1, <2>2, <2>3, Zenon DEF RowsFit, Listed
<1>4. Listed(bfRows, Len(bfRows)) /\ Listed(bfRows', Len(bfRows')) /\ DOMAIN bfSources \subseteq Nat \ {0}
  BY <1>1, <1>2 DEF RowsFit
<1>5. \A i \in DOMAIN bfRows : bfRows'[i].of = bfRows[i].of /\ bfRows'[i].cached = bfRows[i].cached
  OBVIOUS
<1>6. /\ \A scope : MergedOf(bfRows', bfSources, scope) = MergedOf(bfRows, bfSources, scope)
      /\ GroupsOf(bfRows', bfSources) = GroupsOf(bfRows, bfSources)
  BY <1>2, <1>4, <1>5, MergedSame, SMTT(30)
<1>7. QED
  BY <1>3, <1>6

\* A saved list has a row for each source: one that described it, or a new one.
LEMMA ReplaceKeeps ==
  ASSUME RowsFit, NEW list \in BfLists, bfSources' = list, bfRows' = [i \in DOMAIN list |-> Carried(list[i])]
  PROVE  RowsFit'
<1> DEFINE V == {list[i] : i \in DOMAIN list}
<1>1. list \in Seq(V)
  BY BfAssumption
<1>2. Len(list) \in Nat /\ DOMAIN list = 1..Len(list)
  <2> HIDE DEF V
  <2>1. QED
    BY <1>1, LenProperties
<1>3. Listed(bfRows', Len(list))
  <2>1. bfRows' = [i \in 1..Len(list) |-> bfRows'[i]]
    BY <1>2
  <2>2. QED
    BY <1>2, <2>1, ListedIs
<1>4. ASSUME NEW i \in DOMAIN list
      PROVE  DOMAIN Carried(list[i]) = {"of", "cached", "due"} /\ Carried(list[i]).cached \in BfOffers(Carried(list[i]).of)
  <2> DEFINE s == list[i]
             same == {j \in DOMAIN bfRows : bfRows[j].of.name = s.name /\ bfRows[j].of.url = s.url
                                            /\ bfRows[j].of.format = s.format /\ bfRows[j].of.on = s.on}
  <2>1. CASE same = {}
    <3>1. Carried(s) = BfNewRow(s)
      BY <2>1 DEF Carried
    <3>2. QED
      BY <3>1 DEF BfNewRow, BfOffers
  <2>2. CASE same # {}
    <3>1. PICK j \in same : Carried(s) = [bfRows[j] EXCEPT !.of = s]
      BY <2>2 DEF Carried
    <3>2. j \in DOMAIN bfRows /\ bfRows[j].of.url = s.url /\ bfRows[j].of.format = s.format
      OBVIOUS
    <3>3. DOMAIN Carried(s) = {"of", "cached", "due"} /\ Carried(s).of = s /\ Carried(s).cached = bfRows[j].cached
      BY <3>1, <3>2 DEF RowsFit
    <3>4. BfOffers(bfRows[j].of) = BfOffers(s)
      BY <3>2 DEF BfOffers
    <3> HIDE DEF s, same
    <3>5. QED
      BY <3>2, <3>3, <3>4 DEF RowsFit, s
  <2>3. QED
    BY <2>1, <2>2
<1>5. Len(bfRows') = Len(list) /\ DOMAIN bfRows' = DOMAIN list
  BY <1>2, <1>3 DEF Listed
<1>6. \A i \in DOMAIN bfRows' : bfRows'[i] = Carried(list[i])
  BY <1>5
<1>7. \A i \in DOMAIN bfRows' : DOMAIN bfRows'[i] = {"of", "cached", "due"} /\ bfRows'[i].cached \in BfOffers(bfRows'[i].of)
  BY <1>4, <1>5, <1>6
<1>8. DOMAIN bfSources' \subseteq Nat \ {0}
  BY <1>2
<1>9. QED
  BY <1>3, <1>5, <1>7, <1>8 DEF RowsFit

\* A fetch of the loop or of a forced refresh.
LEMMA FetchKeeps == ASSUME BfInv, BfFetch(bfLoop, TRUE) \/ BfFetch(bfForced, FALSE) PROVE BfInv'
<1>1. UNCHANGED <<bfSources, bfPermit, bfRaced, bfEngine, bfGroups, bfDot>>
  BY DEF BfFetch
<1>2. ASSUME NEW task, DOMAIN task = TaskFields, NEW new,
             task.pc = "fetch" /\ \E ok \in BOOLEAN, body \in BfBodies[task.sources[task.at].url] : bfRows' = BfRecord(task, body, ok),
             new = BfProceed(task, task.at + 1, bfRows')
      PROVE  RowsFit' /\ DOMAIN new = TaskFields /\ new.pc \in {"fetch", "merge"} /\ new.sources = task.sources
  <2>1. PICK ok \in BOOLEAN, body \in BfBodies[task.sources[task.at].url] : bfRows' = BfRecord(task, body, ok)
    BY <1>2
  <2>2. RowsFit'
    BY <1>1, <2>1, RecordKeeps DEF BfInv
  <2>3. QED
    BY <1>2, <2>2, ProceedIs
<1>3. CASE BfFetch(bfLoop, TRUE)
  <2>1. /\ bfLoop.pc = "fetch" /\ UNCHANGED bfForced /\ bfLoop' = BfProceed(bfLoop, bfLoop.at + 1, bfRows')
        /\ \E ok \in BOOLEAN, body \in BfBodies[bfLoop.sources[bfLoop.at].url] : bfRows' = BfRecord(bfLoop, body, ok)
    BY <1>3 DEF BfFetch, BfSteps
  <2>2. RowsFit' /\ DOMAIN bfLoop' = TaskFields /\ bfLoop'.pc \in {"fetch", "merge"} /\ bfLoop'.sources = bfLoop.sources
    BY <2>1, <1>2 DEF BfInv, TasksTyped
  <2>3. ~bfRaced /\ ~bfPermit => bfForced.pc = "rest" /\ OfNow(bfLoop)
    BY <2>1 DEF BfInv, Unraced
  <2>4. QED
    BY <1>1, <2>1, <2>2, <2>3 DEF BfInv, TasksTyped, Unraced, ForcedOfNow, OfNow, MergedNow
<1>4. CASE BfFetch(bfForced, FALSE)
  <2>1. /\ bfForced.pc = "fetch" /\ UNCHANGED bfLoop /\ bfForced' = BfProceed(bfForced, bfForced.at + 1, bfRows')
        /\ \E ok \in BOOLEAN, body \in BfBodies[bfForced.sources[bfForced.at].url] : bfRows' = BfRecord(bfForced, body, ok)
    BY <1>4 DEF BfFetch, BfSteps
  <2>2. RowsFit' /\ DOMAIN bfForced' = TaskFields /\ bfForced'.pc \in {"fetch", "merge"} /\ bfForced'.sources = bfForced.sources
    BY <2>1, <1>2 DEF BfInv, TasksTyped
  <2>3. ~bfRaced /\ ~bfPermit => bfLoop.pc = "rest"
    BY <2>1 DEF BfInv, Unraced
  <2>4. QED
    BY <1>1, <2>1, <2>2, <2>3 DEF BfInv, TasksTyped, Unraced, ForcedOfNow, OfNow, MergedNow
<1>5. QED
  BY <1>3, <1>4

\* The merge gathers what the rows hold for the sources the refresh began with.
LEMMA MergeKeeps == ASSUME BfInv, BfMerge(bfLoop, TRUE) \/ BfMerge(bfForced, FALSE) PROVE BfInv'
<1>1. UNCHANGED <<bfSources, bfRows, bfPermit, bfRaced, bfEngine>>
  BY DEF BfMerge
<1>2. RowsFit'
  BY <1>1 DEF BfInv, RowsFit, Listed, BfOffers, ParseBlocklist
<1>3. CASE BfMerge(bfLoop, TRUE)
  <2>1. /\ bfLoop.pc = "merge" /\ UNCHANGED bfForced
        /\ bfLoop' = [bfLoop EXCEPT !.pc = "publish", !.merged = Merged(bfLoop.sources, "everyone")]
        /\ bfGroups' = GroupSets(bfLoop.sources) /\ bfDot' = Merged(bfLoop.sources, "dot")
    BY <1>3 DEF BfMerge, BfSteps
  <2>2. /\ DOMAIN bfLoop' = TaskFields /\ bfLoop'.pc = "publish" /\ bfLoop'.sources = bfLoop.sources
        /\ bfLoop'.merged = Merged(bfLoop.sources, "everyone")
    BY <2>1 DEF BfInv, TasksTyped, TaskFields
  <2>3. ~bfRaced /\ ~bfPermit => bfForced.pc = "rest" /\ bfLoop.sources = bfSources
    BY <2>1 DEF BfInv, Unraced, OfNow
  <2>4. Unraced'
    BY <1>1, <2>1, <2>2, <2>3, MergedIs DEF Unraced, OfNow, MergedNow
  <2>5. QED
    BY <1>1, <1>2, <2>1, <2>2, <2>4 DEF BfInv, TasksTyped, ForcedOfNow, OfNow
<1>4. CASE BfMerge(bfForced, FALSE)
  <2>1. /\ bfForced.pc = "merge" /\ UNCHANGED bfLoop
        /\ bfForced' = [bfForced EXCEPT !.pc = "publish", !.merged = Merged(bfForced.sources, "everyone")]
        /\ bfGroups' = GroupSets(bfForced.sources) /\ bfDot' = Merged(bfForced.sources, "dot")
    BY <1>4 DEF BfMerge, BfSteps
  <2>2. /\ DOMAIN bfForced' = TaskFields /\ bfForced'.pc = "publish" /\ bfForced'.sources = bfForced.sources
        /\ bfForced'.merged = Merged(bfForced.sources, "everyone")
    BY <2>1 DEF BfInv, TasksTyped, TaskFields
  <2>3. ~bfRaced /\ ~bfPermit => bfLoop.pc = "rest" /\ bfForced.sources = bfSources
    BY <2>1 DEF BfInv, Unraced, ForcedOfNow, OfNow
  <2>4. Unraced'
    BY <1>1, <2>1, <2>2, <2>3, MergedIs DEF Unraced, OfNow, MergedNow
  <2>5. QED
    BY <1>1, <1>2, <2>1, <2>2, <2>4 DEF BfInv, TasksTyped, ForcedOfNow, OfNow
<1>5. QED
  BY <1>3, <1>4

\* The publication: the loop rests or begins again, a forced refresh is done.
LEMMA PublishKeeps == ASSUME BfInv, BfPublish(bfLoop, TRUE) \/ BfPublish(bfForced, FALSE) PROVE BfInv'
<1>1. UNCHANGED <<bfSources, bfRows, bfPermit, bfGroups, bfDot>>
  BY DEF BfPublish
<1>2. RowsFit'
  BY <1>1 DEF BfInv, RowsFit, Listed, BfOffers, ParseBlocklist
<1>3. DOMAIN BfResting = TaskFields /\ BfResting.pc = "rest"
  BY DEF BfResting, TaskFields
<1>4. CASE BfPublish(bfLoop, TRUE)
  <2>1. bfLoop.pc = "publish" /\ UNCHANGED bfForced /\ bfEngine' = [remote |-> bfLoop.merged, dot |-> bfDot]
    BY <1>4 DEF BfPublish, BfEngineTakes
  <2>2. ~bfRaced /\ ~bfPermit => bfForced.pc = "rest" /\ MergedNow(bfLoop)
    BY <2>1 DEF BfInv, Unraced
  <2>3. CASE bfLoop' = BfResting /\ bfRaced' = bfRaced
    <3>1. Unraced'
      BY <1>1, <1>3, <2>1, <2>2, <2>3 DEF Unraced, OfNow, MergedNow
    <3>2. QED
      BY <1>1, <1>2, <1>3, <2>1, <2>3, <3>1 DEF BfInv, TasksTyped, ForcedOfNow, OfNow
  <2>4. CASE bfLoop' = BfStarted(bfRows) /\ bfRaced' = (bfForced.pc # "rest")
    <3>1. DOMAIN bfLoop' = TaskFields /\ bfLoop'.pc \in {"fetch", "merge"} /\ bfLoop'.sources = bfSources
      BY <2>4, StartedIs
    <3>2. ~bfRaced' => bfForced.pc = "rest"
      BY <2>4
    <3>3. Unraced'
      BY <1>1, <2>1, <3>1, <3>2 DEF Unraced, OfNow, MergedNow
    <3>4. QED
      BY <1>1, <1>2, <2>1, <3>1, <3>2, <3>3 DEF BfInv, TasksTyped, ForcedOfNow, OfNow
  <2>5. QED
    BY <1>4, <2>3, <2>4 DEF BfPublish
<1>5. CASE BfPublish(bfForced, FALSE)
  <2>1. /\ bfForced.pc = "publish" /\ bfForced' = BfResting /\ UNCHANGED bfLoop /\ bfRaced' = bfRaced
        /\ bfEngine' = [remote |-> bfForced.merged, dot |-> bfDot]
    BY <1>5 DEF BfPublish, BfEngineTakes
  <2>2. ~bfRaced /\ ~bfPermit => bfLoop.pc = "rest" /\ MergedNow(bfForced)
    BY <2>1 DEF BfInv, Unraced
  <2>3. Unraced'
    BY <1>1, <1>3, <2>1, <2>2 DEF Unraced, OfNow, MergedNow
  <2>4. QED
    BY <1>1, <1>2, <1>3, <2>1, <2>3 DEF BfInv, TasksTyped, ForcedOfNow, OfNow
<1>6. QED
  BY <1>4, <1>5

\* The loop wakes, a row falls due, the console saves a list or forces a refresh.
LEMMA ConsoleKeeps ==
  ASSUME BfInv, (\E timer \in BOOLEAN : BfWake(timer)) \/ (\E i \in DOMAIN bfRows : BfIntervalPasses(i))
                \/ (\E list \in BfLists : BfReplace(list)) \/ BfForce
  PROVE  BfInv'
<1>1. ASSUME NEW timer \in BOOLEAN, BfWake(timer) PROVE BfInv'
  <2>1. /\ UNCHANGED <<bfSources, bfRows, bfForced, bfGroups, bfDot, bfEngine>> /\ bfLoop' = BfStarted(bfRows)
        /\ bfRaced' = (bfForced.pc # "rest")
    BY <1>1 DEF BfWake
  <2>2. RowsFit'
    <3>1. RowsFit /\ bfRows' = bfRows /\ bfSources' = bfSources
      BY <2>1 DEF BfInv
    <3> QED
      BY <3>1 DEF RowsFit, Listed
  <2>3. DOMAIN bfLoop' = TaskFields /\ bfLoop'.pc \in {"fetch", "merge"} /\ bfLoop'.sources = bfSources
    BY <2>1, StartedIs
  <2>4. ~bfRaced' => bfForced.pc = "rest"
    BY <2>1
  <2>5. Unraced'
    BY <2>1, <2>3, <2>4 DEF Unraced, OfNow, MergedNow
  <2>6. QED
    BY <2>1, <2>2, <2>3, <2>4, <2>5 DEF BfInv, TasksTyped, ForcedOfNow, OfNow
<1>2. ASSUME NEW i \in DOMAIN bfRows, BfIntervalPasses(i) PROVE BfInv'
  <2>1. /\ UNCHANGED <<bfSources, bfLoop, bfForced, bfGroups, bfDot, bfEngine, bfRaced, bfPermit>>
        /\ bfRows' = [bfRows EXCEPT ![i].due = TRUE]
    BY <1>2 DEF BfIntervalPasses
  <2>2. RowsFit
    BY DEF BfInv
  <2>3. \A j \in DOMAIN bfRows : /\ DOMAIN bfRows'[j] = DOMAIN bfRows[j]
                                 /\ bfRows'[j].of = bfRows[j].of /\ bfRows'[j].cached = bfRows[j].cached
    BY <2>1, <2>2 DEF RowsFit
  <2>4. bfRows' = [j \in DOMAIN bfRows |-> bfRows'[j]]
    BY <2>1
  <2>5. /\ RowsFit' /\ \A scope : MergedOf(bfRows', bfSources, scope) = MergedOf(bfRows, bfSources, scope)
        /\ GroupsOf(bfRows', bfSources) = GroupsOf(bfRows, bfSources)
    BY <2>1, <2>2, <2>3, <2>4, FeedsDueKeep
  <2>6. Unraced'
    BY <2>1, <2>5 DEF BfInv, Unraced, OfNow, MergedNow
  <2>7. QED
    BY <2>1, <2>5, <2>6 DEF BfInv, TasksTyped, ForcedOfNow, OfNow
<1>3. ASSUME NEW list \in BfLists, BfReplace(list) PROVE BfInv'
  <2>1. /\ bfSources' = list /\ bfRows' = [i \in DOMAIN list |-> Carried(list[i])] /\ bfPermit' = TRUE
        /\ bfRaced' = (bfRaced \/ bfForced.pc # "rest") /\ UNCHANGED <<bfLoop, bfForced>>
    BY <1>3 DEF BfReplace
  <2>2. RowsFit'
    BY <2>1, ReplaceKeeps DEF BfInv
  <2>3. QED
    BY <2>1, <2>2 DEF BfInv, TasksTyped, Unraced, ForcedOfNow, OfNow
<1>4. CASE BfForce
  <2> DEFINE rows == [i \in DOMAIN bfRows |-> [bfRows[i] EXCEPT !.due = TRUE]]
  <2>1. /\ UNCHANGED <<bfSources, bfLoop, bfGroups, bfDot, bfEngine, bfPermit>>
        /\ bfRows' = rows /\ bfForced.pc = "rest" /\ bfForced' = BfStarted(rows) /\ bfRaced' = (bfRaced \/ bfLoop.pc # "rest")
    BY <1>4 DEF BfForce
  <2>2. RowsFit
    BY DEF BfInv
  <2>3. \A j \in DOMAIN bfRows : /\ DOMAIN bfRows'[j] = DOMAIN bfRows[j]
                                 /\ bfRows'[j].of = bfRows[j].of /\ bfRows'[j].cached = bfRows[j].cached
    BY <2>1, <2>2 DEF RowsFit
  <2>4. bfRows' = [j \in DOMAIN bfRows |-> bfRows'[j]]
    BY <2>1
  <2>5. RowsFit'
    BY <2>1, <2>2, <2>3, <2>4, FeedsDueKeep
  <2> HIDE DEF rows
  <2>6. DOMAIN bfForced' = TaskFields /\ bfForced'.pc \in {"fetch", "merge"} /\ bfForced'.sources = bfSources
    BY <2>1, StartedIs
  <2>7. ~bfRaced' => bfLoop.pc = "rest"
    BY <2>1
  <2>8. Unraced'
    BY <2>1, <2>6, <2>7 DEF Unraced, OfNow, MergedNow, BfInv, TasksTyped
  <2>9. QED
    BY <2>1, <2>5, <2>6, <2>8 DEF BfInv, TasksTyped, ForcedOfNow, OfNow
<1>5. QED
  BY <1>1, <1>2, <1>3, <1>4

\* Blocklists: whatever lists are saved and refreshes forced while fetches are out,
\* a row holds only what its own url serves in its own format; and once the loop
\* rests after the last change, with no forced refresh across it, what is enforced
\* is what the sources configured now have fetched.
THEOREM FeedsInStepCorrect == BfSpec => []FeedsInStep
<1>1. BfInit => BfInv
  <2> SUFFICES ASSUME BfInit PROVE BfInv
    OBVIOUS
  <2>1. DOMAIN BfResting = TaskFields /\ BfResting.pc = "rest"
    BY DEF BfResting, TaskFields
  <2>2. /\ bfSources = <<>> /\ bfRows = <<>> /\ bfLoop = BfResting /\ bfForced = BfResting /\ bfGroups = {}
        /\ bfEngine = [remote |-> {}, dot |-> {}]
    BY DEF BfInit
  <2>3. DOMAIN <<>> = {} /\ Len(<<>>) = 0
    OBVIOUS
  <2>4. Listed(bfRows, Len(bfRows)) /\ DOMAIN bfRows = {} /\ DOMAIN bfSources = {}
    BY <2>2, <2>3 DEF Listed
  <2>5. RowsFit
    BY <2>4 DEF RowsFit
  <2>6. GroupsOf(bfRows, bfSources) = {} /\ \A scope : MergedOf(bfRows, bfSources, scope) = {}
    BY <2>4 DEF GroupsOf, MergedOf
  <2>7. QED
    BY <2>1, <2>2, <2>5, <2>6 DEF BfInv, TasksTyped, Unraced, ForcedOfNow, OfNow, MergedNow
<1>2. BfInv /\ [BfNext]_bfVars => BfInv'
  <2> SUFFICES ASSUME BfInv, [BfNext]_bfVars PROVE BfInv'
    OBVIOUS
  <2>1. CASE UNCHANGED <<bfSources, bfRows, bfPermit, bfLoop, bfForced, bfGroups, bfDot, bfEngine, bfRaced>>
    <3>0. UNCHANGED bfRows /\ UNCHANGED bfSources /\ UNCHANGED bfLoop /\ UNCHANGED bfForced
      BY <2>1
    <3>1. RowsFit' /\ TasksTyped'
      <4>1. RowsFit'
        BY <3>0 DEF BfInv, RowsFit, Listed, BfOffers, ParseBlocklist
      <4>2. TasksTyped'
        BY <3>0 DEF BfInv, TasksTyped
      <4>3. QED
        BY <4>1, <4>2
    <3>2. ForcedOfNow'
      BY <2>1 DEF BfInv, ForcedOfNow, OfNow
    <3>3. Unraced'
      BY <2>1, Zenon DEF BfInv, Unraced, OfNow, MergedNow
    <3>4. QED
      BY <3>1, <3>2, <3>3 DEF BfInv
  <2>2. ASSUME NEW u \in DOMAIN BfBodies, NEW body \in BfBodies[u], NEW ok \in BOOLEAN, BfFeedFetch(body, ok) \/ BfFeedAllow(body, ok)
        PROVE  BfInv'
    BY <2>1, <2>2 DEF BfFeedFetch, BfFeedAllow
  <2>3. CASE BfFeedDue
    BY <2>1, <2>3 DEF BfFeedDue
  <2>4. CASE UNCHANGED bfVars
    BY <2>1, <2>4 DEF bfVars
  <2>5. QED
    BY <2>2, <2>3, <2>4, FetchKeeps, MergeKeeps, PublishKeeps, ConsoleKeeps DEF BfNext
<1>3. BfInv => FeedsInStep
  BY MergedIs DEF BfInv, RowsFit, Unraced, FeedsInStep
<1>4. QED
  BY <1>1, <1>2, <1>3, PTL DEF BfSpec
=============================================================================
