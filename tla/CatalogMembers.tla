--------------------------- MODULE CatalogMembers ---------------------------
(* CatalogConsumer: following one catalog zone (RFC 9432).  A refresh asks the *)
(* master for the serial, transfers the member list when it changed, reads the *)
(* zones that exist and brings them in line with several commits, while the    *)
(* operator creates and deletes zones, a NOTIFY asks for another look, or the  *)
(* server stops half-way.                                                      *)
EXTENDS Naturals, FiniteSets, Sequences

CONSTANTS CmNames, CmMaxSerial, CmMaxTouches, CmMaxFaults

VARIABLES
    cmMaster,    \* the catalog at its master: [serial, members]
    cmZones,     \* stored zones: id -> [name, owned]
    cmFollowed,  \* names the secondary refresher looks after
    cmServed,    \* ids in the published catalog
    cmState,     \* serial last applied, or 0; "due" when it is to be checked
    cmTask,      \* the refresh under way
    cmConfigured,
    cmMade,      \* zones made so far, the last id
    cmHand,      \* ids of the zones made by hand
    cmDisturbed, \* zones were changed by hand or taken away with their catalog, or a stop split a creation
    cmTouches,   \* edits by hand and NOTIFYs so far
    cmFaults

cmVars == <<cmMaster, cmZones, cmFollowed, cmServed, cmState, cmTask, cmConfigured, cmMade, cmHand, cmDisturbed, cmTouches, cmFaults>>
cmOperator == <<cmMaster, cmConfigured, cmHand, cmDisturbed, cmTouches>>

CmIdle == [pc |-> "idle"]
Named(n) == {i \in DOMAIN cmZones : cmZones[i].name = n}
Owned == {i \in DOMAIN cmZones : cmZones[i].owned}
OwnedNames == {cmZones[i].name : i \in Owned}
Drop(ids) == [i \in DOMAIN cmZones \ ids |-> cmZones[i]]
Keep(n, owned) == [i \in DOMAIN cmZones \cup {cmMade + 1} |->
                     IF i = cmMade + 1 THEN [name |-> n, owned |-> owned] ELSE cmZones[i]]

(* ------------------------------ the refresh ------------------------------ *)

\* A tick removes the zones of a catalog no longer configured, whose serial is
\* remembered all the same: a catalog that is configured again has no members until
\* its serial changes, a NOTIFY comes or the server is restarted.  Else, when the
\* catalog is due, it asks for the serial.
CmTick ==
    /\ cmTask.pc = "idle"
    /\ IF ~cmConfigured
       THEN /\ Owned # {}
            /\ cmZones' = Drop(Owned) /\ cmServed' = DOMAIN cmZones \ Owned
            /\ cmFollowed' = cmFollowed \ OwnedNames
            /\ cmDisturbed' = (cmDisturbed \/ cmState.serial # 0)
            /\ UNCHANGED cmTask
       ELSE /\ cmState.due
            /\ cmTask' = [pc |-> "soa", last |-> cmState.serial, serial |-> cmMaster.serial]
            /\ UNCHANGED <<cmZones, cmServed, cmFollowed, cmDisturbed>>
    /\ UNCHANGED <<cmMaster, cmConfigured, cmHand, cmTouches, cmState, cmMade, cmFaults>>

\* Transfer the member list if the serial differs from the last one applied, then
\* read the zones that are there.
CmTransfer ==
    LET same == cmTask.last = cmTask.serial
        wanted == IF same THEN OwnedNames ELSE cmMaster.members
        gone == IF same THEN {} ELSE {i \in Owned : cmZones[i].name \notin wanted}
    IN  /\ cmTask.pc = "soa"
        /\ cmTask' = [pc |-> "apply", serial |-> cmTask.serial, changed |-> FALSE, making |-> 0,
                      adopt |-> {n \in wanted : Named(n) \cap Owned # {}},
                      create |-> {n \in wanted : Named(n) = {}},
                      remove |-> {<<i, cmZones[i].name>> : i \in gone}]
        /\ UNCHANGED <<cmOperator, cmZones, cmFollowed, cmServed, cmState, cmMade, cmFaults>>

\* No master answers: tried again at the next refresh.
CmUnreachable ==
    /\ cmTask.pc = "soa" /\ cmFaults < CmMaxFaults /\ cmFaults' = cmFaults + 1
    /\ cmTask' = CmIdle /\ cmState' = [cmState EXCEPT !.due = FALSE]
    /\ UNCHANGED <<cmOperator, cmZones, cmFollowed, cmServed, cmMade>>

Applying == cmTask.pc = "apply"

\* A zone that is there and owned is handed to the refresher again if need be.
CmFollow(n) ==
    /\ Applying /\ cmTask.making = 0 /\ n \in cmTask.adopt
    /\ cmTask' = [cmTask EXCEPT !.adopt = @ \ {n}]
    /\ cmFollowed' = cmFollowed \cup {n}
    /\ UNCHANGED <<cmOperator, cmZones, cmServed, cmState, cmMade, cmFaults>>

\* create_zone; a name taken meanwhile is an error that ends the refresh.
CmCreate(n) ==
    /\ Applying /\ cmTask.making = 0 /\ n \in cmTask.create
    /\ IF Named(n) = {}
       THEN /\ cmZones' = Keep(n, FALSE) /\ cmMade' = cmMade + 1
            /\ cmTask' = [cmTask EXCEPT !.create = @ \ {n}, !.making = cmMade + 1]
            /\ UNCHANGED cmState
       ELSE /\ cmTask' = CmIdle /\ cmState' = [cmState EXCEPT !.due = FALSE]
            /\ UNCHANGED <<cmZones, cmMade>>
    /\ UNCHANGED <<cmOperator, cmFollowed, cmServed, cmFaults>>

\* set_secondary and add_catalog_member, in commits of their own; the zone may be
\* gone by then, which ends the refresh.
CmOwn ==
    LET i == cmTask.making IN
    /\ Applying /\ i # 0
    /\ IF i \in DOMAIN cmZones
       THEN /\ cmZones' = [cmZones EXCEPT ![i].owned = TRUE] /\ cmFollowed' = cmFollowed \cup {cmZones[i].name}
            /\ cmTask' = [cmTask EXCEPT !.making = 0, !.changed = TRUE]
            /\ UNCHANGED cmState
       ELSE cmTask' = CmIdle /\ cmState' = [cmState EXCEPT !.due = FALSE] /\ UNCHANGED <<cmZones, cmFollowed>>
    /\ UNCHANGED <<cmOperator, cmServed, cmMade, cmFaults>>

\* Mutant of CmRemove: by name, whoever the zone belongs to now.
CmRemoveByName(r) ==
    /\ Applying /\ cmTask.making = 0 /\ cmTask.create = {} /\ cmTask.adopt = {} /\ r \in cmTask.remove
    /\ cmTask' = [cmTask EXCEPT !.remove = @ \ {r}, !.changed = TRUE]
    /\ cmZones' = Drop(Named(r[2])) /\ cmFollowed' = cmFollowed \ {r[2]}
    /\ UNCHANGED <<cmOperator, cmServed, cmState, cmMade, cmFaults>>

CmRemove(r) ==
    /\ Applying /\ cmTask.making = 0 /\ cmTask.create = {} /\ cmTask.adopt = {} /\ r \in cmTask.remove
    /\ cmTask' = [cmTask EXCEPT !.remove = @ \ {r}, !.changed = TRUE]
    /\ cmZones' = Drop({r[1]}) /\ cmFollowed' = cmFollowed \ {r[2]}
    /\ UNCHANGED <<cmOperator, cmServed, cmState, cmMade, cmFaults>>

\* Reload if anything changed, then note the serial: over a NOTIFY's note, if one
\* came meanwhile.
CmFinish ==
    /\ Applying /\ cmTask.making = 0 /\ cmTask.create = {} /\ cmTask.adopt = {} /\ cmTask.remove = {}
    /\ cmServed' = IF cmTask.changed THEN DOMAIN cmZones ELSE cmServed
    /\ cmState' = [serial |-> cmTask.serial, due |-> FALSE]
    /\ cmTask' = CmIdle
    /\ UNCHANGED <<cmOperator, cmZones, cmFollowed, cmMade, cmFaults>>

(* -------------------------- everyone else's steps ------------------------ *)

CmIntervalPasses ==
    /\ cmConfigured /\ ~cmState.due /\ cmTask.pc = "idle"
    /\ cmState' = [cmState EXCEPT !.due = TRUE]
    /\ UNCHANGED <<cmOperator, cmZones, cmFollowed, cmServed, cmTask, cmMade, cmFaults>>

CmTouch == cmTouches < CmMaxTouches /\ cmTouches' = cmTouches + 1

CmNotify ==
    /\ cmState # [serial |-> 0, due |-> TRUE]
    /\ cmState' = [serial |-> 0, due |-> TRUE]
    /\ CmTouch
    /\ UNCHANGED <<cmMaster, cmZones, cmFollowed, cmServed, cmTask, cmConfigured, cmMade, cmHand, cmDisturbed, cmFaults>>

CmPublish(ms) ==
    /\ cmMaster.serial < CmMaxSerial /\ ms # cmMaster.members
    /\ cmMaster' = [serial |-> cmMaster.serial + 1, members |-> ms]
    /\ UNCHANGED <<cmZones, cmFollowed, cmServed, cmState, cmTask, cmConfigured, cmMade, cmHand, cmDisturbed, cmTouches, cmFaults>>

CmConfigure ==
    /\ cmFaults < CmMaxFaults /\ cmFaults' = cmFaults + 1
    /\ cmConfigured' = ~cmConfigured /\ cmState' = [cmState EXCEPT !.due = TRUE]
    /\ UNCHANGED <<cmMaster, cmZones, cmFollowed, cmServed, cmTask, cmMade, cmHand, cmDisturbed, cmTouches>>

\* The console's zones: made by hand, and any zone may be deleted by hand.
CmHandCreate(n) ==
    /\ Named(n) = {} /\ CmTouch
    /\ cmZones' = Keep(n, FALSE) /\ cmMade' = cmMade + 1
    /\ cmHand' = cmHand \cup {cmMade + 1} /\ cmServed' = DOMAIN cmZones \cup {cmMade + 1}
    /\ cmDisturbed' = TRUE
    /\ UNCHANGED <<cmMaster, cmFollowed, cmState, cmTask, cmConfigured, cmFaults>>

CmHandDelete(i) ==
    /\ i \in DOMAIN cmZones /\ CmTouch
    /\ cmZones' = Drop({i}) /\ cmServed' = DOMAIN cmZones \ {i}
    /\ cmHand' = cmHand \ {i} /\ cmFollowed' = cmFollowed \ {cmZones[i].name}
    /\ cmDisturbed' = TRUE
    /\ UNCHANGED <<cmMaster, cmState, cmTask, cmConfigured, cmMade, cmFaults>>

\* A stop, wherever the refresh is; the start serves what is stored.
CmRestart ==
    /\ cmFaults < CmMaxFaults /\ cmFaults' = cmFaults + 1
    /\ cmTask' = CmIdle /\ cmState' = [serial |-> 0, due |-> TRUE]
    /\ cmServed' = DOMAIN cmZones /\ cmFollowed' = OwnedNames
    /\ cmDisturbed' = (cmDisturbed \/ (Applying /\ cmTask.making # 0))
    /\ UNCHANGED <<cmMaster, cmZones, cmConfigured, cmMade, cmHand, cmTouches>>

CmInit ==
    /\ cmMaster = [serial |-> 1, members |-> CmNames] /\ cmZones = <<>> /\ cmFollowed = {} /\ cmServed = {}
    /\ cmState = [serial |-> 0, due |-> TRUE] /\ cmTask = CmIdle /\ cmConfigured = TRUE
    /\ cmMade = 0 /\ cmHand = {} /\ cmDisturbed = FALSE /\ cmTouches = 0 /\ cmFaults = 0

CmNext ==
    \/ CmTick \/ CmTransfer \/ CmUnreachable \/ (\E n \in CmNames : CmFollow(n) \/ CmCreate(n) \/ CmHandCreate(n))
    \/ CmOwn \/ (Applying /\ \E r \in cmTask.remove : CmRemove(r)) \/ CmFinish
    \/ CmIntervalPasses \/ CmNotify \/ (\E ms \in SUBSET CmNames : CmPublish(ms)) \/ CmConfigure
    \/ (\E i \in DOMAIN cmZones : CmHandDelete(i)) \/ CmRestart

CmSpec == CmInit /\ [][CmNext]_cmVars

\* Following a catalog never costs the operator a zone made by hand, whatever the
\* refresh had read before; and when the serial noted is the master's, the zones it
\* added are exactly the members, served and refreshed (unless zones were changed by
\* hand, the catalog was not followed for a while, or a stop fell between a zone's
\* creation and its mark).
CatalogInStep ==
    /\ cmHand \subseteq DOMAIN cmZones
    /\ cmTask.pc = "idle" /\ cmConfigured /\ cmState.serial = cmMaster.serial /\ ~cmDisturbed =>
         /\ OwnedNames = cmMaster.members /\ OwnedNames \subseteq cmFollowed
         /\ Owned \subseteq cmServed
=============================================================================
