--------------------------- MODULE HealthFailover ---------------------------
(* Health-checked failover of one A/AAAA RRset: the HealthMonitor's ticks probe *)
(* the checks that are due, in parallel, and give the catalog the records that  *)
(* fail; the catalog leaves those out when it is rebuilt.  The console adds and *)
(* removes checks and records meanwhile, and any of its reloads may fail.       *)
EXTENDS Naturals, FiniteSets

CONSTANTS
    HfRecords,               \* the records of the RRset; a record's number is its priority
    HfDownAfter, HfUpAfter,  \* DOWN_AFTER, UP_AFTER
    HfMaxTicks, HfMaxEdits, HfMaxFlips, HfMaxFaults

ASSUME HfAssumption == HfRecords \subseteq Nat /\ HfRecords # {}

VARIABLES
    hfRows, hfChecks,  \* stored records and the ones with a check
    hfUp,              \* addresses that answer a probe
    hfState,           \* the monitor: record -> [healthy, fails, passes, due]
    hfTask,            \* the tick under way: [pc, due, ok]
    hfDelete,          \* delete_health_check between its read and its write: {} or {<<record, set read>>}
    hfUnhealthy,       \* the set the catalog has been given
    hfServed,          \* the records published
    hfMissed,          \* a reload failed and none has succeeded since
    hfTouched,         \* a handler has written since the last tick ended
    hfCount            \* steps taken against each bound

hfVars == <<hfRows, hfChecks, hfUp, hfState, hfTask, hfDelete, hfUnhealthy, hfServed, hfMissed, hfTouched, hfCount>>
hfCatalog == <<hfUnhealthy, hfServed, hfMissed>>

HfSpend(what, max) == hfCount[what] < max /\ hfCount' = [hfCount EXCEPT ![what] = @ + 1]

HealthNew == [healthy |-> TRUE, fails |-> 0, passes |-> 0, due |-> TRUE]
HfRest == [pc |-> "rest", due |-> {}, ok |-> {}]

\* Only the healthy records with the lowest priority, or all when none is healthy.
Failover(rows, checks, unhealthy) ==
    LET healthy == rows \ unhealthy IN
    IF rows \cap checks = {} \/ healthy = {} THEN rows
    ELSE {r \in healthy : \A q \in healthy : r <= q}

\* A reload of the catalog with the set it has; at worst it fails and nothing is
\* published.
HfReload(rows, checks, unhealthy, fails) ==
    IF fails THEN hfServed' = hfServed /\ hfMissed' = TRUE
    ELSE hfServed' = Failover(rows, checks, unhealthy) /\ hfMissed' = FALSE

\* Mutant of SetUnhealthy: the reload comes before the set is stored.
SetUnhealthyAfter(rows, checks, unhealthy, fails) ==
    /\ hfUnhealthy' = unhealthy
    /\ IF unhealthy = hfUnhealthy THEN ~fails /\ UNCHANGED <<hfServed, hfMissed>>
       ELSE HfReload(rows, checks, hfUnhealthy, fails)

SetUnhealthy(rows, checks, unhealthy, fails) ==
    /\ hfUnhealthy' = unhealthy
    /\ IF unhealthy = hfUnhealthy THEN ~fails /\ UNCHANGED <<hfServed, hfMissed>>
       ELSE HfReload(rows, checks, unhealthy, fails)

(* ------------------------------- the monitor ------------------------------ *)

\* Forget the checks that are gone, meet the new ones, and probe those due.
HfTick ==
    LET known == [r \in hfChecks |-> IF r \in DOMAIN hfState THEN hfState[r] ELSE HealthNew] IN
    /\ hfTask.pc = "rest" /\ HfSpend("ticks", HfMaxTicks)
    /\ hfState' = known
    /\ hfTask' = [pc |-> "probing", due |-> {r \in hfChecks : known[r].due}, ok |-> {}]
    /\ UNCHANGED <<hfRows, hfChecks, hfUp, hfDelete, hfCatalog, hfTouched>>

HfProbed(s, ok) ==
    IF ok THEN [healthy |-> s.healthy \/ s.passes + 1 >= HfUpAfter,
                fails |-> 0, passes |-> IF s.passes < HfUpAfter THEN s.passes + 1 ELSE s.passes, due |-> FALSE]
    ELSE [healthy |-> s.healthy /\ s.fails + 1 < HfDownAfter,
          fails |-> IF s.fails < HfDownAfter THEN s.fails + 1 ELSE s.fails, passes |-> 0, due |-> FALSE]

\* Every probe is back: each answered or not while it was out.  The results go to
\* the states still there and the failing records to the catalog.
HfResults(answered, fails) ==
    LET state == [r \in DOMAIN hfState |->
                    IF r \in hfTask.due THEN HfProbed(hfState[r], r \in answered) ELSE hfState[r]]
    IN  /\ hfTask.pc = "probing" /\ answered \subseteq hfTask.due
        /\ hfTask.ok \subseteq answered /\ answered \subseteq hfTask.ok \cup hfUp
        /\ hfState' = state /\ hfTask' = HfRest /\ hfTouched' = FALSE
        /\ SetUnhealthy(hfRows, hfChecks, {r \in DOMAIN state : ~state[r].healthy}, fails)
        /\ IF fails THEN HfSpend("faults", HfMaxFaults) ELSE UNCHANGED hfCount
        /\ UNCHANGED <<hfRows, hfChecks, hfUp, hfDelete>>

\* A probe that has its answer before the others.
HfProbe(r) ==
    /\ hfTask.pc = "probing" /\ r \in (hfTask.due \cap hfUp) \ hfTask.ok
    /\ hfTask' = [hfTask EXCEPT !.ok = @ \cup {r}]
    /\ UNCHANGED <<hfRows, hfChecks, hfUp, hfState, hfDelete, hfCatalog, hfTouched, hfCount>>

HfIntervalPasses(r) ==
    /\ r \in DOMAIN hfState /\ ~hfState[r].due
    /\ hfState' = [hfState EXCEPT ![r].due = TRUE]
    /\ UNCHANGED <<hfRows, hfChecks, hfUp, hfTask, hfDelete, hfCatalog, hfTouched, hfCount>>

(* ------------------------------ the handlers ------------------------------ *)

\* set_health_check: the row, a reload whose failure is ignored, recheck.
HfSetCheck(r, fails) ==
    /\ r \in hfRows \ hfChecks /\ HfSpend("edits", HfMaxEdits)
    /\ hfChecks' = hfChecks \cup {r}
    /\ HfReload(hfRows, hfChecks \cup {r}, hfUnhealthy, fails)
    /\ hfState' = IF r \in DOMAIN hfState THEN [hfState EXCEPT ![r].due = TRUE] ELSE hfState
    /\ hfTouched' = TRUE
    /\ UNCHANGED <<hfRows, hfUp, hfTask, hfDelete, hfUnhealthy>>

\* delete_health_check: the row, then the catalog's set read, changed and written.
HfDeleteCheck(r) ==
    /\ r \in hfChecks /\ hfDelete = {} /\ HfSpend("edits", HfMaxEdits)
    /\ hfChecks' = hfChecks \ {r}
    /\ hfDelete' = {<<r, hfUnhealthy>>}
    /\ UNCHANGED <<hfRows, hfUp, hfState, hfTask, hfCatalog, hfTouched>>

HfDeleteCheckWrites(fails) ==
    \E d \in hfDelete :
        LET unhealthy == d[2] \ {d[1]} IN
        /\ hfDelete' = {} /\ hfTouched' = TRUE
        /\ hfUnhealthy' = unhealthy
        /\ HfReload(hfRows, hfChecks, unhealthy, fails)
        /\ IF fails THEN HfSpend("faults", HfMaxFaults) ELSE UNCHANGED hfCount
        /\ UNCHANGED <<hfRows, hfChecks, hfUp, hfState, hfTask>>

\* A record comes or goes (its check with it), and the catalog is reloaded.
HfEditRecord(r, fails) ==
    LET rows == IF r \in hfRows THEN hfRows \ {r} ELSE hfRows \cup {r} IN
    /\ rows # {} /\ HfSpend("edits", HfMaxEdits)
    /\ hfRows' = rows /\ hfChecks' = hfChecks \cap rows
    /\ HfReload(rows, hfChecks \cap rows, hfUnhealthy, fails)
    /\ hfTouched' = TRUE
    /\ UNCHANGED <<hfUp, hfState, hfTask, hfDelete, hfUnhealthy>>

\* An address starts or stops answering.
HfFlip(r) ==
    /\ HfSpend("flips", HfMaxFlips)
    /\ hfUp' = IF r \in hfUp THEN hfUp \ {r} ELSE hfUp \cup {r}
    /\ UNCHANGED <<hfRows, hfChecks, hfState, hfTask, hfDelete, hfCatalog, hfTouched>>

\* Unknown counts as healthy after a start.
HfRestart ==
    /\ HfSpend("faults", HfMaxFaults)
    /\ hfState' = <<>> /\ hfTask' = HfRest /\ hfDelete' = {} /\ hfUnhealthy' = {}
    /\ HfReload(hfRows, hfChecks, {}, FALSE)
    /\ hfTouched' = TRUE
    /\ UNCHANGED <<hfRows, hfChecks, hfUp>>

HfInit ==
    /\ hfRows = HfRecords /\ hfChecks \in SUBSET HfRecords /\ hfUp = HfRecords
    /\ hfState = <<>> /\ hfTask = HfRest /\ hfDelete = {} /\ hfUnhealthy = {}
    /\ hfServed = Failover(HfRecords, hfChecks, {}) /\ hfMissed = FALSE /\ hfTouched = TRUE
    /\ hfCount = [what \in {"ticks", "edits", "flips", "faults"} |-> 0]

HfNext ==
    \/ HfTick \/ (\E a \in SUBSET HfRecords, f \in BOOLEAN : HfResults(a, f)) \/ HfRestart
    \/ (\E f \in BOOLEAN : HfDeleteCheckWrites(f))
    \/ \E r \in HfRecords : \/ HfProbe(r) \/ HfIntervalPasses(r) \/ HfDeleteCheck(r) \/ HfFlip(r)
                            \/ (\E f \in BOOLEAN : HfSetCheck(r, f) \/ HfEditRecord(r, f))

HfSpec == HfInit /\ [][HfNext]_hfVars

\* There is always an answer; and once a tick has ended with no reload of the
\* catalog outstanding, no record the monitor finds failing is in it while a
\* healthy one could be, and no backup stands in for a healthy primary.
NoDeadAnswers ==
    /\ hfServed # {}
    /\ hfTask.pc = "rest" /\ ~hfTouched /\ ~hfMissed /\ hfDelete = {} /\ hfChecks # {} =>
         LET failing == {r \in DOMAIN hfState : ~hfState[r].healthy} IN
         \/ hfServed = hfRows /\ hfRows \subseteq failing
         \/ \A r \in hfServed : r \notin failing /\ \A q \in hfRows \ failing : r <= q
=============================================================================
