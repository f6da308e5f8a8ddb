--------------------------- MODULE BlocklistFeeds ---------------------------
(* Remote blocklists: the BlocklistSourceManager's rows, the background refresh *)
(* loop and the console's forced refresh, which fetch source after source with  *)
(* the list of sources they started from, while the console replaces that list; *)
(* and the maintained list of a security category.                              *)
EXTENDS Naturals, Sequences, FiniteSets

CONSTANTS
    BfLists,        \* the source lists a console may save: sequences of [name, url, format, on, scope]
    BfBodies,       \* url -> the bodies it may serve, each a set of lines
    BfMaxSaves, BfMaxFetches, BfMaxForced

ASSUME BfAssumption == \A list \in BfLists : list \in Seq({list[i] : i \in DOMAIN list})

VARIABLES
    bfSources,  \* the configured sources
    bfRows,     \* status rows: the source described, cached entries, whether it is due
    bfPermit, bfFlag,       \* `changed` holds a permit; changed_flag
    bfLoop, bfForced,       \* the refresh loop and the forced refresh: [pc, expected, sources, at, merged]
    bfGroups, bfDot,        \* published per group source; the DoT listener's list
    bfEngine,               \* the policy engine's source-owned sets
    bfFeed,                 \* a category's feed: [list, due, pc, first]
    bfRaced,                \* a forced refresh has overlapped a save or the loop, and no cycle has begun since
    bfFetches, bfCount

bfVars == <<bfSources, bfRows, bfPermit, bfFlag, bfLoop, bfForced, bfGroups, bfDot, bfEngine, bfFeed, bfRaced,
            bfFetches, bfCount>>

(* -------------------------------- the lists ------------------------------- *)

Entry(name, wild, except) == [name |-> name, wild |-> wild, except |-> except]
NameAndBelow(name, except) == {Entry(name, FALSE, except), Entry(name, TRUE, except)}

ParseDomains(body) == {Entry(l.name, l.wild, FALSE) : l \in {l \in body : l.shape = "name"}}
ParseWildcard(body) == UNION {NameAndBelow(l.name, FALSE) : l \in {l \in body : l.shape = "name"}}

\* Every dotted name after an address; bare labels are the machine's own.
ParseHosts(body) == {Entry(l.name, FALSE, FALSE) : l \in {l \in body : l.shape = "host" /\ l.dotted}}

\* ||x^ is a name and all below, |x^ and x the name alone, @@ an exception; a rule
\* with a modifier a list cannot express, and a cosmetic one, is left out.
ParseAdblockRule(l) ==
    IF l.shape \notin {"rule", "name"} \/ l.odd THEN {}
    ELSE IF l.below THEN NameAndBelow(l.name, l.except) ELSE {Entry(l.name, FALSE, l.except)}

\* A trigger is blocked whatever its action, but for passthru and tcp-only; the
\* zone's own records and the address triggers name nothing.
ParseRpz(body) ==
    LET triggers == {l \in body : l.shape = "trigger" /\ l.dotted}
        passthru == {<<l.name, l.wild>> : l \in {l \in triggers : l.action = "passthru"}}
    IN  {Entry(l.name, l.wild, FALSE) :
           l \in {l \in triggers : l.action = "block" /\ <<l.name, l.wild>> \notin passthru}}

ParseBlocklist(body, format) ==
    CASE format = "domains" -> ParseDomains(body)
      [] format = "wildcard" -> ParseWildcard(body)
      [] format = "hosts" -> ParseHosts(body)
      [] format = "adblock" -> UNION {ParseAdblockRule(l) : l \in body}
      [] format = "rpz" -> ParseRpz(body)

(* ------------------------------- the manager ------------------------------ *)

BfNewRow(s) == [of |-> s, cached |-> {}, due |-> TRUE]

Describes(row, s) == row.of.name = s.name /\ row.of.url = s.url /\ row.of.format = s.format

\* Mutant of Described: the row at the source's place, whatever it describes.
DescribedByPlace(i, s) == i <= Len(bfRows)

\* The row at the source's place in the list is still that source's.
Described(i, s) == i <= Len(bfRows) /\ Describes(bfRows[i], s)

\* A row is kept for a source that is otherwise identical, wherever it was.
Carried(s) ==
    LET same == {i \in DOMAIN bfRows : bfRows[i].of.name = s.name /\ bfRows[i].of.url = s.url
                                       /\ bfRows[i].of.format = s.format /\ bfRows[i].of.on = s.on}
    IN  IF same = {} THEN BfNewRow(s) ELSE [bfRows[CHOOSE i \in same : TRUE] EXCEPT !.of = s]

Least(S) == CHOOSE i \in S : \A j \in S : i <= j

\* refresh_due goes from one fetch to the next without a pause.
BfProceed(task, k, rows) ==
    LET due == {i \in k..Len(task.sources) : task.sources[i].on /\ i <= Len(rows)
                                            /\ Describes(rows[i], task.sources[i]) /\ rows[i].due}
    IN  IF due = {} THEN [task EXCEPT !.pc = "merge", !.at = 0]
        ELSE [task EXCEPT !.pc = "fetch", !.at = Least(due)]

BfResting == [pc |-> "rest", expected |-> <<>>, sources |-> <<>>, at |-> 0, merged |-> {}]
BfStarted(rows) ==
    BfProceed([BfResting EXCEPT !.expected = bfSources, !.sources = bfSources], 1, rows)

\* The entries of the enabled sources of a scope, as the rows have them.
Merged(sources, scope) ==
    UNION {bfRows[i].cached : i \in {i \in DOMAIN sources : sources[i].on /\ sources[i].scope = scope
                                                           /\ Described(i, sources[i])}}
GroupSets(sources) ==
    {<<sources[i].name, bfRows[i].cached>> :
       i \in {i \in DOMAIN sources : sources[i].on /\ sources[i].scope = "groups" /\ Described(i, sources[i])}}

\* The answer to a fetch goes to the row, if it still describes the source; a
\* failure keeps what was cached.
BfRecord(task, body, ok) ==
    LET s == task.sources[task.at] IN
    IF ok /\ Described(task.at, s)
    THEN [bfRows EXCEPT ![task.at].cached = ParseBlocklist(body, s.format), ![task.at].due = FALSE]
    ELSE bfRows

\* publish_source_lists.
BfEngineTakes(remote, dot) == bfEngine' = [remote |-> remote, dot |-> dot]

(* -------------------------------- the tasks ------------------------------- *)

BfSteps(task, new, isLoop) ==
    IF isLoop THEN bfLoop' = new /\ UNCHANGED bfForced ELSE bfForced' = new /\ UNCHANGED bfLoop

BfFetch(task, isLoop) ==
    /\ task.pc = "fetch"
    /\ \E ok \in BOOLEAN, body \in BfBodies[task.sources[task.at].url] :
         /\ bfRows' = BfRecord(task, body, ok)
         /\ IF ok THEN bfFetches < BfMaxFetches /\ bfFetches' = bfFetches + 1 ELSE UNCHANGED bfFetches
    /\ BfSteps(task, BfProceed(task, task.at + 1, bfRows'), isLoop)
    /\ UNCHANGED <<bfSources, bfPermit, bfFlag, bfGroups, bfDot, bfEngine, bfFeed, bfRaced, bfCount>>

BfMerge(task, isLoop) ==
    /\ task.pc = "merge"
    /\ bfGroups' = GroupSets(task.sources) /\ bfDot' = Merged(task.sources, "dot")
    /\ BfSteps(task, [task EXCEPT !.pc = "publish", !.merged = Merged(task.sources, "everyone")], isLoop)
    /\ UNCHANGED <<bfSources, bfRows, bfPermit, bfFlag, bfEngine, bfFeed, bfRaced, bfFetches, bfCount>>

\* The loop looks again when the sources are not those it started from, or the
\* flag was raised; the forced refresh is done.
BfPublish(task, isLoop) ==
    LET again == bfSources # task.expected \/ bfFlag IN
    /\ task.pc = "publish"
    /\ BfEngineTakes(task.merged, bfDot)
    /\ IF isLoop
       THEN bfFlag' = (bfFlag /\ bfSources # task.expected) /\ bfLoop' = IF again THEN BfStarted(bfRows) ELSE BfResting
       ELSE UNCHANGED <<bfFlag, bfLoop>>
    /\ IF isLoop THEN UNCHANGED bfForced ELSE bfForced' = BfResting
    /\ bfRaced' = IF isLoop /\ again THEN bfForced.pc # "rest" ELSE bfRaced
    /\ UNCHANGED <<bfSources, bfRows, bfPermit, bfGroups, bfDot, bfFeed, bfFetches, bfCount>>

\* Woken by a change, or by the shortest interval.
BfWake(timer) ==
    /\ bfLoop.pc = "rest" /\ (bfPermit \/ timer)
    /\ timer => \E i \in DOMAIN bfRows : bfRows[i].due
    /\ bfPermit' = (bfPermit /\ timer)
    /\ bfLoop' = BfStarted(bfRows) /\ bfRaced' = (bfForced.pc # "rest")
    /\ UNCHANGED <<bfSources, bfRows, bfFlag, bfForced, bfGroups, bfDot, bfEngine, bfFeed, bfFetches, bfCount>>

BfIntervalPasses(i) ==
    /\ i \in DOMAIN bfRows /\ ~bfRows[i].due /\ bfFetches < BfMaxFetches
    /\ bfRows' = [bfRows EXCEPT ![i].due = TRUE]
    /\ UNCHANGED <<bfSources, bfPermit, bfFlag, bfLoop, bfForced, bfGroups, bfDot, bfEngine, bfFeed, bfRaced, bfFetches, bfCount>>

(* ------------------------------- the console ------------------------------ *)

\* replace_blocklist_sources, once stored: set_sources, and with nothing enabled
\* the engine's sets go at once.
BfReplace(list) ==
    /\ list # bfSources /\ bfCount.saves < BfMaxSaves
    /\ bfCount' = [bfCount EXCEPT !.saves = @ + 1]
    /\ bfSources' = list /\ bfRows' = [i \in DOMAIN list |-> Carried(list[i])]
    /\ bfPermit' = TRUE /\ bfFlag' = TRUE
    /\ IF \E i \in DOMAIN list : list[i].on THEN UNCHANGED bfEngine ELSE BfEngineTakes({}, {})
    /\ bfRaced' = (bfRaced \/ bfForced.pc # "rest")
    /\ UNCHANGED <<bfLoop, bfForced, bfGroups, bfDot, bfFeed, bfFetches>>

\* refresh_blocklist_sources: everything is due.
BfForce ==
    LET rows == [i \in DOMAIN bfRows |-> [bfRows[i] EXCEPT !.due = TRUE]] IN
    /\ bfForced.pc = "rest" /\ bfSources # <<>> /\ bfCount.forced < BfMaxForced
    /\ bfCount' = [bfCount EXCEPT !.forced = @ + 1]
    /\ bfRows' = rows /\ bfForced' = BfStarted(rows)
    /\ bfRaced' = (bfRaced \/ bfLoop.pc # "rest")
    /\ UNCHANGED <<bfSources, bfPermit, bfFlag, bfLoop, bfGroups, bfDot, bfEngine, bfFeed, bfFetches>>

(* ----------------------------- a category feed ---------------------------- *)

\* The list, then the exceptions to it; an empty list or a failure keeps the last
\* good one and is tried again.
BfFeedFetch(body, ok) ==
    /\ bfFeed.pc = "list" /\ bfFeed.due
    /\ bfFeed' = IF ok /\ ParseWildcard(body) # {}
                 THEN [bfFeed EXCEPT !.pc = "allow", !.first = ParseWildcard(body)]
                 ELSE [bfFeed EXCEPT !.due = FALSE]
    /\ UNCHANGED <<bfSources, bfRows, bfPermit, bfFlag, bfLoop, bfForced, bfGroups, bfDot, bfEngine, bfRaced, bfFetches, bfCount>>

BfFeedAllow(body, ok) ==
    /\ bfFeed.pc = "allow"
    /\ bfFeed' = IF ok THEN [pc |-> "list", due |-> FALSE, first |-> {},
                             list |-> bfFeed.first \cup {[e EXCEPT !.except = TRUE] : e \in ParseWildcard(body)}]
                 ELSE [bfFeed EXCEPT !.pc = "list", !.due = FALSE, !.first = {}]
    /\ UNCHANGED <<bfSources, bfRows, bfPermit, bfFlag, bfLoop, bfForced, bfGroups, bfDot, bfEngine, bfRaced, bfFetches, bfCount>>

BfFeedDue ==
    /\ ~bfFeed.due /\ bfFetches < BfMaxFetches
    /\ bfFeed' = [bfFeed EXCEPT !.due = TRUE] /\ bfFetches' = bfFetches + 1
    /\ UNCHANGED <<bfSources, bfRows, bfPermit, bfFlag, bfLoop, bfForced, bfGroups, bfDot, bfEngine, bfRaced, bfCount>>

BfInit ==
    /\ bfSources = <<>> /\ bfRows = <<>> /\ bfPermit = FALSE /\ bfFlag = FALSE
    /\ bfLoop = BfResting /\ bfForced = BfResting /\ bfGroups = {} /\ bfDot = {}
    /\ bfEngine = [remote |-> {}, dot |-> {}]
    /\ bfFeed = [pc |-> "list", due |-> TRUE, list |-> {}, first |-> {}] /\ bfRaced = FALSE
    /\ bfFetches = 0 /\ bfCount = [saves |-> 0, forced |-> 0]

BfNext ==
    \/ BfFetch(bfLoop, TRUE) \/ BfFetch(bfForced, FALSE)
    \/ BfMerge(bfLoop, TRUE) \/ BfMerge(bfForced, FALSE)
    \/ BfPublish(bfLoop, TRUE) \/ BfPublish(bfForced, FALSE)
    \/ (\E timer \in BOOLEAN : BfWake(timer)) \/ (\E i \in DOMAIN bfRows : BfIntervalPasses(i))
    \/ (\E list \in BfLists : BfReplace(list)) \/ BfForce
    \/ (\E u \in DOMAIN BfBodies : \E body \in BfBodies[u], ok \in BOOLEAN :
          BfFeedFetch(body, ok) \/ BfFeedAllow(body, ok))
    \/ BfFeedDue

BfSpec == BfInit /\ [][BfNext]_bfVars

\* What a url has to offer in a format.
BfOffers(s) == {{}} \cup {ParseBlocklist(b, s.format) : b \in BfBodies[s.url]}

\* A row holds only what its own url serves, in its own format, whatever list was
\* saved while the fetch was out; and when the loop has come to rest after the last
\* change, with no forced refresh across it, the engine, the groups and the DoT
\* listener have what the sources now configured have fetched.
FeedsInStep ==
    /\ \A i \in DOMAIN bfRows : bfRows[i].cached \in BfOffers(bfRows[i].of)
    /\ bfLoop.pc = "rest" /\ bfForced.pc = "rest" /\ ~bfPermit /\ ~bfRaced =>
         /\ bfEngine = [remote |-> Merged(bfSources, "everyone"), dot |-> Merged(bfSources, "dot")]
         /\ bfGroups = GroupSets(bfSources)
=============================================================================
