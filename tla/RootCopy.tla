----------------------------- MODULE RootCopy -----------------------------
(* The local root zone (root_zone.rs, zonemd.rs): a copy transferred from     *)
(* whichever server answers, kept over restarts in a file, and served to the  *)
(* resolver over loopback while it is proven and has not expired.             *)
EXTENDS Naturals, Sequences, FiniteSets, SequencesExt

CONSTANTS
    RzCopies,      \* zones a source may hand out, the genuine ones among them
    RzAnchor,      \* the key the publisher signs with
    RzSources,     \* the configured servers, in order
    RzQuestions,   \* what the resolver asks
    RzExpire,      \* SOA expire
    RzMaxTime, RzMaxChanges, RzMaxFaults, RzMaxRounds   \* bounds

\* There is a server to ask (Config::validate, effective_sources); and nobody but the
\* publisher signs with the anchor's key or finds another zone with a signed digest.
ASSUME RzAssumption ==
    /\ RzSources \in Seq(ToSet(RzSources)) \ {<<>>}
    /\ RzExpire \in Nat
    /\ \A c \in RzCopies :
          /\ RzAnchor \in c.keys /\ c.signer = RzAnchor
          /\ c.md.serial = c.serial /\ c.md.digest = <<c.serial, c.body>>
          => c.genuine

VARIABLES
    rzNow,
    rzHas,         \* the copy each source has now
    rzOn,          \* local_root.enabled
    rzZone,        \* the copy in memory, and when it was last confirmed
    rzFile,        \* the cache file
    rzTask,        \* the refresh under way: source, captured copy, stage
    rzAsking,      \* the resolver has been given the responder's address
    rzSeen,        \* what it was last answered
    rzConfirmed,   \* history: when a source last stood by a serial
    rzUsed         \* changes, faults and refreshes so far
rzVars == <<rzNow, rzHas, rzOn, rzZone, rzFile, rzTask, rzAsking, rzSeen, rzConfirmed, rzUsed>>

None == [copy |-> [serial |-> 0], checked |-> 0]
Resting == [stage |-> "idle", source |-> 1, zone |-> None]
Unasked == [kind |-> "none", copy |-> [serial |-> 0], at |-> 0]
Serials == {c.serial : c \in RzCopies}

RzInit ==
    /\ rzNow = 0
    /\ rzHas \in [ToSet(RzSources) -> {c \in RzCopies : c.serial = 1}]
    /\ rzOn = TRUE /\ rzZone = None /\ rzFile = None
    /\ rzTask = Resting /\ rzAsking = FALSE /\ rzSeen = Unasked
    /\ rzConfirmed = [s \in Serials |-> 0]
    /\ rzUsed = [changes |-> 0, faults |-> 0, rounds |-> 0]

Spend(what, n, limit) == rzUsed' = [rzUsed EXCEPT ![what] = @ + n] /\ rzUsed'[what] <= limit

----------------------------------------------------------------------------
(* verify_zone.  A signature is by a key over the DNSKEY and ZONEMD sets and  *)
(* has a time; the digest covers every record of the copy.                    *)
SignatureValid(copy, key) == copy.signer = key /\ copy.from <= rzNow /\ rzNow <= copy.until
ZoneDigest(copy) == <<copy.serial, copy.body>>
VerifyZone(copy) ==
    /\ copy.soa
    /\ RzAnchor \in copy.keys /\ SignatureValid(copy, RzAnchor)
    /\ copy.md.supported /\ copy.md.serial = copy.serial /\ ZoneDigest(copy) = copy.md.digest

Current(zone) == zone # None /\ rzNow < zone.checked + RzExpire
CurrentZone == IF rzOn /\ Current(rzZone) THEN rzZone ELSE None

(* RootZone::answer: what a root server would say. *)
Answer(copy, q) ==
    IF q.tld = "." THEN (IF q.type \in copy.apex THEN "answer" ELSE "nodata")
    ELSE IF q.tld \notin DOMAIN copy.tlds THEN "nxdomain"
    ELSE IF q.below \/ q.type # "DS" THEN "referral"
    ELSE IF copy.tlds[q.tld] THEN "answer" ELSE "nodata"

----------------------------------------------------------------------------
(* load_cache, at the top of the loop while nothing is in memory: the file    *)
(* must verify again, and keeps the time it was last confirmed.               *)
\* Mutant of Loaded: a copy read from the file counts as just confirmed.
LoadedNow ==
    IF rzZone = None /\ rzFile # None /\ VerifyZone(rzFile.copy)
    THEN [rzFile EXCEPT !.checked = rzNow] ELSE rzZone
Loaded ==
    IF rzZone = None /\ rzFile # None /\ VerifyZone(rzFile.copy) /\ Current(rzFile) THEN rzFile ELSE rzZone

(* run_forever: on its timer or when woken. *)
RzBegin ==
    /\ rzOn /\ rzTask = Resting /\ Spend("rounds", 1, RzMaxRounds)
    /\ rzZone' = Loaded
    /\ rzTask' = [stage |-> "ask", source |-> 1, zone |-> rzZone']
    /\ UNCHANGED <<rzNow, rzHas, rzOn, rzFile, rzAsking, rzSeen, rzConfirmed>>

(* The next source, with the copy in memory by then, or none is left. *)
NextSource ==
    IF rzTask.source < Len(RzSources) THEN [stage |-> "ask", source |-> rzTask.source + 1, zone |-> rzZone]
    ELSE Resting

(* write_cache: a temporary file renamed over the old one, or a failure that  *)
(* leaves it.                                                                 *)
WriteCache(zone, ok) ==
    /\ Spend("faults", IF ok THEN 0 ELSE 1, RzMaxFaults)
    /\ rzFile' = IF ok THEN zone ELSE rzFile

Confirm(serial) == rzConfirmed' = [rzConfirmed EXCEPT ![serial] = rzNow]

(* refresh asks a source for its SOA.  A source with nothing newer confirms   *)
(* the copy captured before the question, which need not be there any more.   *)
RzAskSoa(written) ==
    LET has == rzHas[RzSources[rzTask.source]]
        zone == [rzTask.zone EXCEPT !.checked = rzNow] IN
    /\ rzTask.stage = "ask" /\ rzTask.zone # None
    /\ \/ /\ has.serial <= rzTask.zone.copy.serial
          /\ rzZone' = IF rzZone = None THEN None ELSE zone
          /\ WriteCache(zone, written)
          /\ Confirm(rzTask.zone.copy.serial)
          /\ rzTask' = Resting
       \/ /\ has.serial > rzTask.zone.copy.serial /\ written
          /\ rzTask' = [rzTask EXCEPT !.stage = "transfer"]
          /\ UNCHANGED <<rzZone, rzFile, rzConfirmed, rzUsed>>
    /\ UNCHANGED <<rzNow, rzHas, rzOn, rzAsking, rzSeen>>

(* Without a copy the zone is transferred at once. *)
RzAskNothing ==
    /\ rzTask.stage = "ask" /\ rzTask.zone = None
    /\ rzTask' = [rzTask EXCEPT !.stage = "transfer"]
    /\ UNCHANGED <<rzNow, rzHas, rzOn, rzZone, rzFile, rzAsking, rzSeen, rzConfirmed, rzUsed>>

(* No answer to the SOA query or the transfer: the next source. *)
RzUnreachable ==
    /\ rzTask # Resting /\ Spend("faults", 1, RzMaxFaults)
    /\ rzTask' = NextSource
    /\ UNCHANGED <<rzNow, rzHas, rzOn, rzZone, rzFile, rzAsking, rzSeen, rzConfirmed>>

(* The transfer arrives: stored if it verifies, whatever its serial. *)
RzTransfer(written) ==
    LET has == rzHas[RzSources[rzTask.source]]
        zone == [copy |-> has, checked |-> rzNow] IN
    /\ rzTask.stage = "transfer"
    /\ \/ /\ VerifyZone(has)
          /\ WriteCache(zone, written)
          /\ rzZone' = zone /\ Confirm(has.serial)
          /\ rzTask' = Resting
       \/ /\ ~VerifyZone(has) /\ written
          /\ rzTask' = NextSource
          /\ UNCHANGED <<rzZone, rzFile, rzConfirmed, rzUsed>>
    /\ UNCHANGED <<rzNow, rzHas, rzOn, rzAsking, rzSeen>>

(* set_settings: switching off forgets the copy and deletes the file, whether *)
(* or not a refresh is under way.                                             *)
RzSwitch ==
    /\ Spend("changes", 1, RzMaxChanges)
    /\ rzOn' = ~rzOn
    /\ rzZone' = IF rzOn' THEN rzZone ELSE None
    /\ rzFile' = IF rzOn' THEN rzFile ELSE None
    /\ UNCHANGED <<rzNow, rzHas, rzTask, rzAsking, rzSeen, rzConfirmed>>

RzRestart ==
    /\ Spend("changes", 1, RzMaxChanges)
    /\ rzZone' = None /\ rzTask' = Resting /\ rzAsking' = FALSE
    /\ UNCHANGED <<rzNow, rzHas, rzOn, rzFile, rzSeen, rzConfirmed>>

(* serving_addr: the resolver uses the responder, or the real root servers. *)
RzLook ==
    /\ ~rzAsking /\ CurrentZone # None
    /\ rzAsking' = TRUE
    /\ UNCHANGED <<rzNow, rzHas, rzOn, rzZone, rzFile, rzTask, rzSeen, rzConfirmed, rzUsed>>

(* handle: by then the copy may be another, or gone: SERVFAIL. *)
RzQuery(q) ==
    /\ rzAsking /\ rzAsking' = FALSE
    /\ rzSeen' = IF CurrentZone = None THEN [kind |-> "servfail", copy |-> [serial |-> 0], at |-> rzNow]
                 ELSE [kind |-> Answer(CurrentZone.copy, q), copy |-> CurrentZone.copy, at |-> rzNow]
    /\ UNCHANGED <<rzNow, rzHas, rzOn, rzZone, rzFile, rzTask, rzConfirmed, rzUsed>>

RzPublish(s, copy) ==
    /\ Spend("changes", 1, RzMaxChanges) /\ copy # rzHas[s]
    /\ rzHas' = [rzHas EXCEPT ![s] = copy]
    /\ UNCHANGED <<rzNow, rzOn, rzZone, rzFile, rzTask, rzAsking, rzSeen, rzConfirmed>>

RzTick ==
    /\ rzNow < RzMaxTime /\ rzNow' = rzNow + 1
    /\ UNCHANGED <<rzHas, rzOn, rzZone, rzFile, rzTask, rzAsking, rzSeen, rzConfirmed, rzUsed>>

RzNext ==
    \/ RzBegin \/ RzAskNothing \/ RzUnreachable
    \/ \E written \in BOOLEAN : RzAskSoa(written) \/ RzTransfer(written)
    \/ RzSwitch \/ RzRestart \/ RzLook \/ RzTick
    \/ \E q \in RzQuestions : RzQuery(q)
    \/ \E s \in DOMAIN rzHas, copy \in RzCopies : RzPublish(s, copy)

RzSpec == RzInit /\ [][RzNext]_rzVars

----------------------------------------------------------------------------
(* Whatever the resolver is answered from the local root, at the moment it is *)
(* answered, comes from a zone the publisher signed, unmodified, that some    *)
(* source stood by less than SOA expire ago: through transfers from servers   *)
(* that lag or lie, the cache file, restarts, and the switch being thrown     *)
(* while a refresh runs.  Otherwise it is told SERVFAIL or asks the real      *)
(* root.                                                                      *)
AnswersFromProvenRoot ==
    rzSeen.kind \notin {"none", "servfail"} /\ rzSeen.at = rzNow =>
        /\ rzSeen.copy.genuine
        /\ rzNow < rzConfirmed[rzSeen.copy.serial] + RzExpire
=============================================================================
