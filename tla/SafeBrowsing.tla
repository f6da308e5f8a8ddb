---------------------------- MODULE SafeBrowsing ----------------------------
(* Google Safe Browsing (safe_browsing.rs): threat lists kept as sorted hash  *)
(* prefixes and brought up to date in the background, and a cache of the full *)
(* hashes a lookup has asked for.  The service itself is external: it holds a *)
(* sequence of versions of each list and says what changed between two.       *)
EXTENDS Naturals, Sequences, FiniteSets, SequencesExt

CONSTANTS
    SbVersions,   \* per list: its versions at the service, sets of full hashes
    SbNames,      \* per name: the full hashes of its expressions
    SbPrefix,     \* per full hash: its prefix, a number
    SbKeys,       \* the settings (key and URL) the administrator may save
    SbTtl, SbNegativeTtl,   \* how long its answers may be cached
    SbMaxTime, SbMaxEdits, SbMaxUpdates, SbMaxFaults   \* bounds

VARIABLES
    sbNow,
    sbServes,     \* the version each list has at the service
    sbKey,        \* the settings saved, "" for no key
    sbDb,         \* `lists` (client state and prefixes, {} for none yet) and `index`
    sbLoop,       \* update_loop: the settings it runs under, its stage and request
    sbFull, sbNegative,   \* full hashes and prefixes answered, until
    sbCheck,      \* a lookup waiting for full hashes
    sbUsed        \* edits, updates and faults so far
sbVars == <<sbNow, sbServes, sbKey, sbDb, sbLoop, sbFull, sbNegative, sbCheck, sbUsed>>

SbLists == DOMAIN SbVersions
Hashes == UNION {SbNames[n] : n \in DOMAIN SbNames}
PrefixesOf(hashes) == {SbPrefix[h] : h \in hashes}
Version(l, v) == PrefixesOf(SbVersions[l][v])
NoLists == [lists |-> {}, index |-> {}, state |-> [l \in SbLists |-> 0], prefixes |-> [l \in SbLists |-> {}]]
NoCheck == [name |-> "", prefixes |-> {}]
Parked == [current |-> "", stage |-> "idle", asked |-> [l \in SbLists |-> 0]]
Never == [h \in Hashes |-> 0]
Unheard == [p \in PrefixesOf(Hashes) |-> 0]

SbInit ==
    /\ sbNow = 0 /\ sbServes = [l \in SbLists |-> 1] /\ sbKey = ""
    /\ sbDb = NoLists /\ sbLoop = [Parked EXCEPT !.stage = "unstarted"]
    /\ sbFull = Never /\ sbNegative = Unheard
    /\ sbCheck = NoCheck
    /\ sbUsed = [edits |-> 0, updates |-> 0, faults |-> 0]

SbSpend(what, limit) == sbUsed[what] < limit /\ sbUsed' = [sbUsed EXCEPT ![what] = @ + 1]

----------------------------------------------------------------------------
(* apply_update: a full update starts from nothing, a partial one takes the   *)
(* numbered entries out of the sorted list; then entries are added and the    *)
(* whole must have the checksum given.                                        *)
Sorted(prefixes) == SetToSortSeq(prefixes, <)
Patched(prefixes, update) ==
    LET old == Sorted(IF update.full THEN {} ELSE prefixes) IN
    {old[i] : i \in {j \in DOMAIN old : j - 1 \notin update.removals}} \cup update.additions
InRange(prefixes, update) ==
    \A i \in update.removals : i < Cardinality(IF update.full THEN {} ELSE prefixes)
UpdateApplies(prefixes, update) ==
    /\ InRange(prefixes, update) /\ update.decodes
    /\ Patched(prefixes, update) = update.checksum

(* The service's answer to a client at version `from` (0 for none). *)
ServiceUpdate(l, from, full) ==
    LET new == Version(l, sbServes[l])
        old == IF from = 0 THEN {} ELSE Version(l, from)
        sorted == Sorted(old) IN
    [full |-> full \/ from = 0, decodes |-> TRUE, version |-> sbServes[l], checksum |-> new,
     removals |-> IF full \/ from = 0 THEN {} ELSE {i - 1 : i \in {j \in DOMAIN sorted : sorted[j] \notin new}},
     additions |-> IF full \/ from = 0 THEN new ELSE new \ old]

\* Mutant of ListUpdated: a rejected update keeps the client state.
ListUpdatedKeepsState(db, l, update) ==
    IF UpdateApplies(db.prefixes[l], update)
    THEN [state |-> update.version, prefixes |-> Patched(db.prefixes[l], update)]
    ELSE [state |-> db.state[l], prefixes |-> {}]

(* One list's answer within `update`: applied, or the list is fetched whole   *)
(* next time.                                                                 *)
ListUpdated(db, l, update) ==
    IF UpdateApplies(db.prefixes[l], update)
    THEN [state |-> update.version, prefixes |-> Patched(db.prefixes[l], update)]
    ELSE [state |-> 0, prefixes |-> {}]

Reindexed(db, updates) ==
    LET new == [l \in SbLists |-> IF l \in db.lists /\ l \in DOMAIN updates
                                  THEN ListUpdated(db, l, updates[l])
                                  ELSE [state |-> db.state[l], prefixes |-> db.prefixes[l]]] IN
    [lists |-> db.lists, state |-> [l \in SbLists |-> new[l].state],
     prefixes |-> [l \in SbLists |-> new[l].prefixes], index |-> UNION {new[l].prefixes : l \in SbLists}]

----------------------------------------------------------------------------
(* update_loop.  Woken by its timer or by new settings; a failure waits       *)
(* longer, which the untimed wake-up covers.                                  *)
SbLoopTurns ==
    /\ sbLoop.stage = "idle" /\ SbSpend("updates", SbMaxUpdates)
    /\ LET moved == sbKey # sbLoop.current IN
       /\ sbDb' = IF moved THEN NoLists ELSE sbDb
       /\ sbFull' = IF moved THEN Never ELSE sbFull
       /\ sbNegative' = IF moved THEN Unheard ELSE sbNegative
       /\ sbLoop' = [sbLoop EXCEPT !.current = sbKey,
                                   !.stage = IF sbKey = "" THEN "idle" ELSE IF sbDb'.lists = {} THEN "lists" ELSE "fetch",
                                   !.asked = sbDb'.state]
    /\ UNCHANGED <<sbNow, sbServes, sbKey, sbCheck>>

(* update: the lists on offer, when none is known. *)
SbListsOffered ==
    /\ sbLoop.stage = "lists"
    /\ sbDb' = [sbDb EXCEPT !.lists = SbLists]
    /\ sbLoop' = [sbLoop EXCEPT !.stage = "fetch"]
    /\ UNCHANGED <<sbNow, sbServes, sbKey, sbFull, sbNegative, sbCheck, sbUsed>>

(* update: the answer, which a list may be missing from or be spoilt in. *)
SbUpdated ==
    /\ sbLoop.stage = "fetch"
    /\ \E answered \in SUBSET SbLists, spoilt \in SUBSET SbLists, full \in BOOLEAN :
        /\ spoilt \subseteq answered
        /\ sbDb' = Reindexed(sbDb, [l \in answered |->
                        [ServiceUpdate(l, sbLoop.asked[l], full) EXCEPT !.decodes = l \notin spoilt]])
        /\ IF spoilt = {} THEN UNCHANGED sbUsed ELSE SbSpend("faults", SbMaxFaults)
    /\ sbLoop' = [sbLoop EXCEPT !.stage = "idle"]
    /\ UNCHANGED <<sbNow, sbServes, sbKey, sbFull, sbNegative, sbCheck>>

SbUpdateFails ==
    /\ sbLoop.stage \in {"lists", "fetch"} /\ SbSpend("faults", SbMaxFaults)
    /\ sbLoop' = [sbLoop EXCEPT !.stage = "idle"]
    /\ UNCHANGED <<sbNow, sbServes, sbKey, sbDb, sbFull, sbNegative, sbCheck>>

----------------------------------------------------------------------------
(* check: a query for `name`.  The first one starts the loop. *)
SbLookup(name) ==
    LET cached == {h \in SbNames[name] : sbFull[h] > sbNow}
        asked == {p \in PrefixesOf(SbNames[name]) \cap sbDb.index : sbNegative[p] <= sbNow} IN
    /\ sbCheck = NoCheck
    /\ sbLoop' = IF sbLoop.stage = "unstarted" THEN Parked ELSE sbLoop
    /\ sbCheck' = IF sbKey = "" \/ cached # {} \/ asked = {} THEN NoCheck ELSE [name |-> name, prefixes |-> asked]
    /\ sbLoop' # sbLoop \/ sbCheck' # sbCheck
    /\ UNCHANGED <<sbNow, sbServes, sbKey, sbDb, sbFull, sbNegative, sbUsed>>

(* The full hashes arrive: every one that starts with an asked prefix.  When  *)
(* none is the name's own, the prefixes are noted as matching no threat.      *)
SbFullHashes ==
    LET listed == UNION {SbVersions[l][sbServes[l]] : l \in SbLists}
        matches == {h \in listed \cap Hashes : SbPrefix[h] \in sbCheck.prefixes}
        found == matches \cap SbNames[sbCheck.name] IN
    /\ sbCheck # NoCheck
    /\ sbFull' = [h \in Hashes |-> IF h \in matches THEN sbNow + SbTtl ELSE sbFull[h]]
    /\ sbNegative' = [p \in PrefixesOf(Hashes) |-> IF found = {} /\ p \in sbCheck.prefixes THEN sbNow + SbNegativeTtl
                                                 ELSE sbNegative[p]]
    /\ sbCheck' = NoCheck
    /\ UNCHANGED <<sbNow, sbServes, sbKey, sbDb, sbLoop, sbUsed>>

(* FIND_TIMEOUT: the query is answered without them. *)
SbLookupGivesUp ==
    /\ sbCheck # NoCheck /\ SbSpend("faults", SbMaxFaults)
    /\ sbCheck' = NoCheck
    /\ UNCHANGED <<sbNow, sbServes, sbKey, sbDb, sbLoop, sbFull, sbNegative>>

SbEdit(key) ==
    /\ key # sbKey /\ SbSpend("edits", SbMaxEdits)
    /\ sbKey' = key
    /\ UNCHANGED <<sbNow, sbServes, sbDb, sbLoop, sbFull, sbNegative, sbCheck>>

SbServiceMoves(l) ==
    /\ sbServes[l] < Len(SbVersions[l])
    /\ sbServes' = [sbServes EXCEPT ![l] = @ + 1]
    /\ UNCHANGED <<sbNow, sbKey, sbDb, sbLoop, sbFull, sbNegative, sbCheck, sbUsed>>

SbTick ==
    /\ sbNow < SbMaxTime /\ sbNow' = sbNow + 1
    /\ UNCHANGED <<sbServes, sbKey, sbDb, sbLoop, sbFull, sbNegative, sbCheck, sbUsed>>

SbNext ==
    \/ SbLoopTurns \/ SbListsOffered \/ SbUpdated \/ SbUpdateFails
    \/ \E name \in DOMAIN SbNames : SbLookup(name)
    \/ SbFullHashes \/ SbLookupGivesUp
    \/ \E key \in SbKeys : SbEdit(key)
    \/ \E l \in SbLists : SbServiceMoves(l)
    \/ SbTick

SbSpec == SbInit /\ [][SbNext]_sbVars
----------------------------------------------------------------------------
(* Each list is exactly what the service had at the version the server says   *)
(* it has, for a partial update names entries by their place in that list;    *)
(* what lookups search is all of them together; and lists are kept only under *)
(* a key.  So through any mix of full and partial updates, spoilt answers,    *)
(* lists missing from an answer, failed requests and changes of key.          *)
ThreatListsInStep ==
    /\ \A l \in SbLists :
        sbDb.prefixes[l] = IF sbDb.state[l] = 0 THEN {} ELSE Version(l, sbDb.state[l])
    /\ sbDb.index = UNION {sbDb.prefixes[l] : l \in SbLists}
    /\ sbDb # NoLists => sbLoop.current # ""
=============================================================================
