----------------------------- MODULE AiScanner -----------------------------
(* The AI scanner: the names clients ask for are classified in the background *)
(* on two channels, content and threat, and what follows is published as      *)
(* three snapshots that the policy plugin reads query by query: exemptions,   *)
(* categories and blocks.  A scan cycle takes minutes; the console changes    *)
(* exemptions, labels and settings meanwhile, and publishes as well.          *)
EXTENDS Naturals, Sequences, FiniteSets

CONSTANTS
    AiNames,       \* names in the query log when the server starts
    AiAsked,       \* names clients ask for from then on
    AiTouched,     \* names the console exempts or labels
    AiSuffixes,    \* name -> the name and its parents, longest first
    AiHosted,      \* names in zones of this server
    AiVerdicts,    \* channel -> the verdicts its backend may give, [status, cat, sure, disputed]
    AiTtl,         \* channel -> how long a verdict is fresh
    AiSettings,    \* the settings the console may save, [on, enforce, auto, least]
    AiFirst,       \* the settings at first
    AiClients,     \* clients' groups, [mode, cats]
    AiBatch,       \* max_domains_per_scan
    AiMaxTime, AiMaxCycles, AiMaxEdits, AiMaxQueries, AiMaxFaults   \* bounds

Channels == {"content", "threat"}
AiWho == {"scan", "web"}

ASSUME AiAssumption == \A c \in Channels : AiTtl[c] \in Nat

VARIABLES
    aiNow, aiCycles, aiEdits, aiQueries, aiFaults,
    aiRows,      \* ai_verdicts: {[name, channel, status, cat, sure, disputed, expires, made, again]}
    aiAllow,     \* ai_overrides
    aiRelabels,  \* ai_category_overrides: {[name, cat]}
    aiCfg,
    aiExempt, aiCats, aiBlocks,   \* the snapshots; {[name, cat, expires]} the last two
    aiLog,       \* names in the query log since the window began
    aiScan,      \* the cycle: [pc, cfg, fresh (names queried since it began)]
    aiWake,      \* rescan_notify holds a permit
    aiPub,       \* who -> [pc, cfg, now, allow]: a refresh of the snapshots
    aiWeb,       \* the names the console's call exempts
    aiAsk,       \* the query: [pc, name, client, hit, safe]
    aiSure,      \* names whose exemption was confirmed and not taken back
    aiErred      \* no refresh yet, or something failed since the last one

aiStore == <<aiRows, aiAllow, aiRelabels>>
aiSnapshots == <<aiExempt, aiCats, aiBlocks>>
aiBounds == <<aiNow, aiCycles, aiEdits, aiQueries, aiFaults>>
aiVars == <<aiBounds, aiStore, aiCfg, aiSnapshots, aiLog, aiScan, aiWake, aiPub, aiWeb, aiAsk, aiSure, aiErred>>

Forever == AiMaxTime + 9
NoRefresh == [pc |-> "none", cfg |-> AiFirst, now |-> 0, allow |-> {}]
NoCycle == [pc |-> "idle", cfg |-> AiFirst, fresh |-> {}]
NoQuery == [pc |-> "none", name |-> "", client |-> {}, hit |-> FALSE, safe |-> {}]
AiFault == aiFaults < AiMaxFaults /\ aiFaults' = aiFaults + 1 /\ aiErred' = TRUE

PendingRow(n, c) ==
    [name |-> n, channel |-> c, status |-> "pending", cat |-> "", sure |-> 0, disputed |-> FALSE,
     expires |-> 0, made |-> 0, again |-> FALSE]

SuffixesOf(n) == {AiSuffixes[n][i] : i \in 1..Len(AiSuffixes[n])}

\* An exemption covers the domain and its subdomains.
ExemptBy(n, allow) == SuffixesOf(n) \cap allow # {}

\* suffix_match: the longest suffix with an entry that has not expired.
Matches(n, snapshot, now) ==
    LET hits(s) == {e \in snapshot : e.name = s /\ e.expires > now}
        at == {i \in 1..Len(AiSuffixes[n]) : hits(AiSuffixes[n][i]) # {}}
    IN  IF at = {} THEN {} ELSE hits(AiSuffixes[n][CHOOSE i \in at : \A j \in at : i <= j])

(* ------------------------------ the snapshots ----------------------------- *)

BlocksWith(cfg, now, allow) ==
    {[name |-> r.name, cat |-> r.cat, expires |-> r.expires] : r \in
        {r \in aiRows : /\ r.channel = "threat" /\ r.status = "classified" /\ ~r.disputed
                        /\ r.sure >= cfg.least /\ r.expires > now /\ r.name \notin aiAllow
                        /\ r.cat \in cfg.auto /\ ~ExemptBy(r.name, allow)}}

\* The operator's label wins over the model's and holds where there is none.
CategoriesWith(now, allow) ==
    LET labels(n) == {l.cat : l \in {l \in aiRelabels : l.name = n}}
        fresh == {r \in aiRows : r.channel = "content" /\ r.status = "classified" /\ r.expires > now}
    IN  (UNION {{[name |-> r.name, cat |-> c, expires |-> r.expires] :
                    c \in IF labels(r.name) = {} THEN {r.cat} ELSE labels(r.name)} :
                r \in {r \in fresh : ~ExemptBy(r.name, allow)}})
        \cup {[name |-> l.name, cat |-> l.cat, expires |-> Forever] :
              l \in {l \in aiRelabels : ~ExemptBy(l.name, allow) /\ \A r \in fresh : r.name # l.name}}

\* Mutant of LockFree: refreshes do not wait for each other.
LockFreeAlways == TRUE

LockFree == \A w \in AiWho : aiPub[w].pc \in {"none", "wants"}

\* Who is done: the cycle ends and its window moves on; the console's call returns.
Refreshed(w) ==
    /\ aiPub' = [aiPub EXCEPT ![w] = NoRefresh]
    /\ IF w = "scan" THEN /\ aiScan' = NoCycle /\ aiLog' = aiScan.fresh /\ UNCHANGED <<aiWeb, aiSure>>
       ELSE /\ aiWeb' = {} /\ aiSure' = aiSure \cup (IF aiErred' THEN {} ELSE aiWeb)
            /\ UNCHANGED <<aiScan, aiLog>>

\* refresh_snapshot, under its lock: the exemptions are read and go out first ...
AiExempts(w) ==
    /\ aiPub[w].pc = "wants" /\ LockFree
    /\ aiPub' = [aiPub EXCEPT ![w].pc = "cats", ![w].allow = aiAllow]
    /\ aiExempt' = aiAllow /\ aiErred' = FALSE
    /\ UNCHANGED <<aiBounds, aiStore, aiCfg, aiCats, aiBlocks, aiLog, aiScan, aiWake, aiWeb, aiAsk, aiSure>>

AiExemptsFails(w) ==
    /\ aiPub[w].pc = "wants" /\ LockFree /\ AiFault /\ Refreshed(w)
    /\ UNCHANGED <<aiNow, aiCycles, aiEdits, aiQueries, aiStore, aiCfg, aiSnapshots, aiWake, aiAsk>>

\* ... then the categories, unless they cannot be read ...
AiCategorizes(w) ==
    /\ aiPub[w].pc = "cats" /\ aiPub' = [aiPub EXCEPT ![w].pc = "blocks"]
    /\ \/ aiCats' = CategoriesWith(aiPub[w].now, aiPub[w].allow) /\ UNCHANGED <<aiFaults, aiErred>>
       \/ AiFault /\ UNCHANGED aiCats
    /\ UNCHANGED <<aiNow, aiCycles, aiEdits, aiQueries, aiStore, aiCfg, aiExempt, aiBlocks, aiLog, aiScan, aiWake,
                   aiWeb, aiAsk, aiSure>>

\* ... and the blocks: none in train mode.
AiPublishesBlocks(w) ==
    LET p == aiPub[w] IN
    /\ p.pc = "blocks"
    /\ \/ /\ aiBlocks' = IF p.cfg.enforce THEN BlocksWith(p.cfg, p.now, p.allow) ELSE {}
          /\ UNCHANGED <<aiFaults, aiErred>>
       \/ p.cfg.enforce /\ AiFault /\ UNCHANGED aiBlocks
    /\ Refreshed(w)
    /\ UNCHANGED <<aiNow, aiCycles, aiEdits, aiQueries, aiStore, aiCfg, aiExempt, aiCats, aiWake, aiAsk>>

(* -------------------------------- the cycle ------------------------------- *)

\* expire_old: what was seen again is judged anew, the rest is forgotten.
Expired(rows) ==
    LET old == {r \in rows : r.status # "pending" /\ r.expires <= aiNow}
    IN  (rows \ old) \cup {PendingRow(r.name, r.channel) : r \in {r \in old : r.again}}

\* observe_all: a name that is new starts a row in both channels; a row that was
\* there counts another sighting.
SeenAgain(rows, names) ==
    {IF r.name \in names /\ r.status # "pending" /\ aiNow > r.made THEN [r EXCEPT !.again = TRUE] ELSE r : r \in rows}
    \cup {PendingRow(k[1], k[2]) : k \in {l \in names \X Channels : \A r \in rows : <<r.name, r.channel>> # l}}

\* is_candidate: names of this server's own are not judged.
Candidates(names) == names \ AiHosted

\* The loop takes the permit; a scanner that is off waits again.  What has expired
\* is looked after when that is due, and the query log is harvested.
AiCycleBegins ==
    /\ aiScan.pc = "idle" /\ aiCycles < AiMaxCycles /\ aiCycles' = aiCycles + 1
    /\ aiWake' = FALSE
    /\ IF aiCfg.on
       THEN /\ aiScan' = [pc |-> "classify", cfg |-> aiCfg, fresh |-> {}]
            /\ \E rows \in {aiRows, Expired(aiRows)} : aiRows' = SeenAgain(rows, Candidates(aiLog))
       ELSE UNCHANGED <<aiScan, aiRows>>
    /\ UNCHANGED <<aiNow, aiEdits, aiQueries, aiFaults, aiAllow, aiRelabels, aiCfg, aiSnapshots, aiLog, aiPub, aiWeb,
                   aiAsk, aiSure, aiErred>>

\* run_cycle: a verdict for each of the first pending rows, whatever the console
\* has done meanwhile; then the snapshots are refreshed with the cycle's settings.
AiClassifies ==
    LET pending == {r \in aiRows : r.status = "pending"}
        size == IF Cardinality(pending) < AiBatch THEN Cardinality(pending) ELSE AiBatch
        judged(r, v) == [r EXCEPT !.status = v.status, !.cat = v.cat, !.sure = v.sure, !.disputed = v.disputed,
                                  !.made = aiNow, !.expires = aiNow + AiTtl[r.channel]]
    IN  /\ aiScan.pc = "classify" /\ aiScan' = [aiScan EXCEPT !.pc = "refresh"]
        /\ \E batch \in {b \in SUBSET pending : Cardinality(b) = size} :
             \E f \in [batch -> UNION {AiVerdicts[c] : c \in Channels}] :
               /\ \A r \in batch : f[r] \in AiVerdicts[r.channel]
               /\ aiRows' = (aiRows \ batch) \cup {judged(r, f[r]) : r \in batch}
        /\ aiPub' = [aiPub EXCEPT !["scan"] = [pc |-> "wants", cfg |-> aiScan.cfg, now |-> aiNow, allow |-> {}]]
        /\ UNCHANGED <<aiBounds, aiAllow, aiRelabels, aiCfg, aiSnapshots, aiLog, aiWake, aiWeb, aiAsk, aiSure, aiErred>>

\* A cycle that fails reads the same window again the next time.
AiCycleFails ==
    /\ aiScan.pc = "classify" /\ AiFault /\ aiScan' = NoCycle
    /\ aiLog' = aiLog \cup aiScan.fresh
    /\ UNCHANGED <<aiNow, aiCycles, aiEdits, aiQueries, aiStore, aiCfg, aiSnapshots, aiWake, aiPub, aiWeb, aiAsk, aiSure>>

(* ------------------------------- the console ------------------------------ *)

\* A call writes the store or the settings, then publishes with the settings it finds.
AiCalls(exempted) ==
    /\ aiPub["web"].pc = "none" /\ aiEdits < AiMaxEdits /\ aiEdits' = aiEdits + 1
    /\ aiWeb' = exempted
    /\ aiPub' = [aiPub EXCEPT !["web"] = [pc |-> "wants", cfg |-> aiCfg', now |-> aiNow, allow |-> {}]]
    /\ UNCHANGED <<aiNow, aiCycles, aiQueries, aiFaults, aiRows, aiSnapshots, aiLog, aiScan, aiErred>>

AiSetAllow(n) ==
    /\ aiAllow' = aiAllow \cup {n} /\ UNCHANGED <<aiRelabels, aiCfg, aiWake, aiAsk, aiSure>> /\ AiCalls({n})

\* The exemption is taken back: no query may count on it from here on.
AiClear(n) ==
    /\ n \in aiAllow /\ aiAllow' = aiAllow \ {n}
    /\ aiSure' = aiSure \ {n} /\ aiAsk' = [aiAsk EXCEPT !.safe = @ \ {n}]
    /\ UNCHANGED <<aiRelabels, aiCfg, aiWake>> /\ AiCalls({})

AiRelabel(n, cat) ==
    /\ aiRelabels' = {l \in aiRelabels : l.name # n} \cup {[name |-> n, cat |-> cat]}
    /\ UNCHANGED <<aiAllow, aiCfg, aiWake, aiAsk, aiSure>> /\ AiCalls({})

AiClearLabel(n) ==
    /\ \E l \in aiRelabels : l.name = n
    /\ aiRelabels' = {l \in aiRelabels : l.name # n}
    /\ UNCHANGED <<aiAllow, aiCfg, aiWake, aiAsk, aiSure>> /\ AiCalls({})

\* update_settings publishes and asks for a cycle besides, which the permit keeps
\* until one that is under way has ended.
AiSaveSettings(cfg) ==
    /\ cfg # aiCfg /\ aiCfg' = cfg /\ aiWake' = TRUE
    /\ UNCHANGED <<aiAllow, aiRelabels, aiAsk, aiSure>> /\ AiCalls({})

(* --------------------------------- queries -------------------------------- *)

Blocked == [aiAsk EXCEPT !.pc = "blocked", !.client = {}, !.hit = FALSE]

\* evaluate: the blocks are looked up first, where the client's mode is enforce ...
AiAsks(n, c) ==
    LET enforced == IF c.mode = "inherit" THEN aiCfg.enforce ELSE c.mode = "enforce" IN
    /\ aiAsk.pc \in {"none", "blocked"} /\ aiQueries < AiMaxQueries /\ aiQueries' = aiQueries + 1
    /\ aiAsk' = IF aiCfg.on
                THEN [pc |-> "asked", name |-> n, client |-> {c}, safe |-> aiSure,
                      hit |-> enforced /\ Matches(n, aiBlocks, aiNow) # {}]
                ELSE NoQuery
    /\ aiLog' = aiLog \cup {n}
    /\ aiScan' = IF aiScan.pc = "idle" THEN aiScan ELSE [aiScan EXCEPT !.fresh = @ \cup {n}]
    /\ UNCHANGED <<aiNow, aiCycles, aiEdits, aiFaults, aiStore, aiCfg, aiSnapshots, aiWake, aiPub, aiWeb, aiSure, aiErred>>

\* ... a hit counts unless the name is exempt by now; then the categories are ...
AiNamed ==
    LET c == CHOOSE c \in aiAsk.client : TRUE IN
    /\ aiAsk.pc = "asked"
    /\ aiAsk' = IF aiAsk.hit /\ ~ExemptBy(aiAsk.name, aiExempt) THEN Blocked
                ELSE [aiAsk EXCEPT !.pc = "named",
                                   !.hit = \E e \in Matches(aiAsk.name, aiCats, aiNow) : e.cat \in c.cats]
    /\ UNCHANGED <<aiBounds, aiStore, aiCfg, aiSnapshots, aiLog, aiScan, aiWake, aiPub, aiWeb, aiSure, aiErred>>

\* ... and one that the client's group blocks counts likewise.
AiDecides ==
    /\ aiAsk.pc = "named"
    /\ aiAsk' = IF aiAsk.hit /\ ~ExemptBy(aiAsk.name, aiExempt) THEN Blocked ELSE NoQuery
    /\ UNCHANGED <<aiBounds, aiStore, aiCfg, aiSnapshots, aiLog, aiScan, aiWake, aiPub, aiWeb, aiSure, aiErred>>

AiTick ==
    /\ aiNow < AiMaxTime /\ aiNow' = aiNow + 1
    /\ UNCHANGED <<aiCycles, aiEdits, aiQueries, aiFaults, aiStore, aiCfg, aiSnapshots, aiLog, aiScan, aiWake, aiPub, aiWeb,
                   aiAsk, aiSure, aiErred>>

AiInit ==
    /\ aiNow = 0 /\ aiCycles = 0 /\ aiEdits = 0 /\ aiQueries = 0 /\ aiFaults = 0
    /\ aiRows = {} /\ aiAllow \in SUBSET AiTouched /\ aiRelabels = {} /\ aiCfg = AiFirst
    /\ aiExempt = {} /\ aiCats = {} /\ aiBlocks = {}
    /\ aiLog = AiNames /\ aiScan = NoCycle /\ aiWake = FALSE /\ aiPub = [w \in AiWho |-> NoRefresh]
    /\ aiWeb = {} /\ aiAsk = NoQuery /\ aiSure = {} /\ aiErred = TRUE

AiNext ==
    \/ \E w \in AiWho : AiExempts(w) \/ AiExemptsFails(w) \/ AiCategorizes(w) \/ AiPublishesBlocks(w)
    \/ AiCycleBegins \/ AiClassifies \/ AiCycleFails
    \/ \E n \in AiTouched : \/ AiSetAllow(n) \/ AiClear(n) \/ AiClearLabel(n)
                            \/ \E v \in AiVerdicts["content"] : v.status = "classified" /\ AiRelabel(n, v.cat)
    \/ \E n \in AiAsked, c \in AiClients : AiAsks(n, c)
    \/ \E cfg \in AiSettings : AiSaveSettings(cfg)
    \/ AiNamed \/ AiDecides \/ AiTick

AiSpec == AiInit /\ [][AiNext]_aiVars

(* ------------------------------- properties ------------------------------- *)

\* A name under an exemption that had been confirmed when the query came in, and
\* has not been taken back, is not blocked.
ExemptionsHonoured == aiAsk.pc = "blocked" => ~ExemptBy(aiAsk.name, aiAsk.safe)

\* With nothing under way, no cycle asked for and no refresh failed, the snapshots
\* say what the verdicts, the console's labels and the settings in force say.  (A
\* label goes out with the expiry of the verdict beside it, and lapses with it
\* until the next refresh.)
SnapshotsInStep ==
    LET live(s) == {<<e.name, e.cat>> : e \in {e \in s : e.expires > aiNow}}
        lapsed == {r.name : r \in {r \in aiRows : r.channel = "content" /\ r.expires <= aiNow}}
        known == CategoriesWith(aiNow, aiAllow)
    IN  aiScan.pc = "idle" /\ ~aiWake /\ aiPub["web"].pc = "none" /\ aiCfg.on /\ ~aiErred =>
        /\ aiExempt = aiAllow
        /\ live(aiCats) \subseteq live(known) /\ live({e \in known : e.name \notin lapsed}) \subseteq live(aiCats)
        /\ live(aiBlocks) = live(IF aiCfg.enforce THEN BlocksWith(aiCfg, aiNow, aiAllow) ELSE {})

\* What the operator decides holds over what the scanner found, and what is blocked
\* is what is known now (refresh_snapshot, AiBlockPlugin::evaluate; docs/
\* ARCHITECTURE.md: "operator decisions and explicit trust always supersede AI").
OperatorDecides == ExemptionsHonoured /\ SnapshotsInStep
=============================================================================
