--------------------------- MODULE BackupRestore ---------------------------
(* Backups of the database and restores that wait for the next start.  A      *)
(* backup is a copy of the database with the AI scanner's overrides added; a  *)
(* restore is checked, copied beside the database and renamed into place by   *)
(* the next start, which moves the old database aside.  The console and the   *)
(* command line stage restores side by side, and the server may stop or die   *)
(* between any two steps.                                                     *)
EXTENDS Naturals, FiniteSets

CONSTANTS
    BrForeign,     \* files that are no intact backups of this version
    BrMaxSaves, BrMaxBackups, BrMaxStops, BrMaxFaults   \* bounds

ASSUME BrAssumption == \A f \in BrForeign : f.state # "whole"

BrJobs == {"web", "cli"}

VARIABLES
    brDb,        \* the database file: {} or {[v, over, state]}, v naming its content
    brAi,        \* the overrides in the AI database
    brAside,     \* databases moved aside
    brFiles,     \* backups that were downloaded
    brPartial, brStaged,   \* `.restore.partial` and `.restore`: {} or {[v, ai, state, by]}, by the jobs
                           \* that write it: a file keeps its writers when it is renamed
    brJob,       \* job -> [pc, file]
    brBoot,      \* down, aside, place, open, finish, moving, up
    brSaves, brStops, brFaults,   \* counted up to their bounds
    brLast,      \* the content last in use
    brWant,      \* the overrides a restore was to bring back, until they are edited
    brErred      \* what has gone wrong: died, apply, finish (in a start), overlap (of two
                 \* stagings), late (one of those two still writes when the start checks)

brStage == <<brPartial, brStaged, brJob, brFiles>>
brData == <<brDb, brAi, brAside>>
brVars == <<brDb, brAi, brAside, brFiles, brPartial, brStaged, brJob, brBoot, brSaves, brStops, brFaults,
            brLast, brWant, brErred>>
brSeen == <<brLast, brWant, brErred, brFaults, brStops>>

BrFault(what) == brFaults < BrMaxFaults /\ brFaults' = brFaults + 1 /\ brErred' = brErred \cup {what}

BrFresh == [v |-> 0, over |-> {}, state |-> "whole"]
BrIdle == [pc |-> "idle", file |-> {}]
BrStep(t, pc) == brJob' = [brJob EXCEPT ![t] = [pc |-> pc, file |-> {}]]
BrUp == brBoot = "up"
BrHere(t) == brJob[t].pc = "idle" /\ (t = "web" => BrUp)

(* --------------------------------- in use --------------------------------- *)

\* The console changes the database, or the overrides of the AI scanner.
BrSave(ai) ==
    /\ BrUp /\ brSaves < BrMaxSaves /\ brSaves' = brSaves + 1
    /\ IF ai THEN brAi' = brSaves + 2 /\ brWant' = {} /\ UNCHANGED <<brDb, brLast>>
       ELSE /\ brDb' = {[d EXCEPT !.v = brSaves + 2] : d \in brDb} /\ brLast' = brSaves + 2
            /\ UNCHANGED <<brAi, brWant>>
    /\ UNCHANGED <<brAside, brStage, brBoot, brFaults, brStops, brErred>>

\* backup_to: the copy, under the store's lock ...
BrBackupCopies(t) ==
    /\ BrHere(t) /\ BrUp /\ Cardinality(brFiles) < BrMaxBackups
    /\ \E d \in brDb : brJob' = [brJob EXCEPT ![t] = [pc |-> "backup", file |-> {d}]]
    /\ UNCHANGED <<brData, brPartial, brStaged, brFiles, brBoot, brSaves, brSeen>>

\* ... then the overrides, in a table the database must not have.
BrBackupFinishes(t) ==
    /\ brJob[t].pc = "backup"
    /\ brFiles' = brFiles \cup {[v |-> d.v, ai |-> brAi, state |-> "whole"] : d \in {c \in brJob[t].file : c.over = {}}}
    /\ brJob' = [brJob EXCEPT ![t] = BrIdle]
    /\ UNCHANGED <<brData, brPartial, brStaged, brBoot, brSaves, brSeen>>

(* -------------------------------- staging --------------------------------- *)

\* Mutant of CheckBackup: the tables are looked for, the pages are not checked.
CheckBackupTables(f) == f.state # "foreign"

\* check_backup: intact, with a backup's tables, of this format or an older one.
CheckBackup(f) == f.state = "whole"

\* stage_restore: a file that checks out is copied to `.restore.partial`, over
\* what another job writes there ...
BrStages(t, f) ==
    LET others == UNION {p.by : p \in brPartial}
        overlap == \E o \in BrJobs \ {t} : brJob[o].pc \in {"copying", "rename"}
    IN  /\ BrHere(t) /\ CheckBackup(f)
        /\ brPartial' = {[v |-> f.v, ai |-> f.ai, state |-> "part", by |-> others \cup {t}]}
        /\ BrStep(t, "copying")
        /\ brErred' = brErred \cup (IF overlap THEN {"overlap"} ELSE {})
        /\ UNCHANGED <<brData, brStaged, brFiles, brBoot, brSaves, brLast, brWant, brFaults, brStops>>

\* (what two jobs wrote into one file is neither's)
BrWritten(t, name) ==
    {IF t \notin f.by THEN f
     ELSE [f EXCEPT !.by = @ \ {t}, !.state = IF f.by = {t} /\ @ = "part" THEN "whole" ELSE "mixed"] : f \in name}

BrCopied(t) ==
    /\ brJob[t].pc = "copying" /\ BrStep(t, "rename")
    /\ brPartial' = BrWritten(t, brPartial) /\ brStaged' = BrWritten(t, brStaged)
    /\ UNCHANGED <<brData, brFiles, brBoot, brSaves, brSeen>>

\* ... and renamed: whatever the partial file is by now, if there is one.
BrRenames(t) ==
    /\ brJob[t].pc = "rename" /\ BrStep(t, "idle")
    /\ brStaged' = IF brPartial = {} THEN brStaged ELSE brPartial
    /\ brPartial' = {}
    /\ UNCHANGED <<brData, brFiles, brBoot, brSaves, brSeen>>

BrCancel ==
    /\ BrUp /\ brStaged # {} /\ brStaged' = {}
    /\ UNCHANGED <<brData, brPartial, brJob, brFiles, brBoot, brSaves, brSeen>>

(* ------------------------------- starting up ------------------------------ *)

\* The server stops, and with it the console's jobs.
BrStops ==
    /\ BrUp /\ brStops < BrMaxStops /\ brStops' = brStops + 1
    /\ brBoot' = "down" /\ BrStep("web", "idle")
    /\ brPartial' = {[f EXCEPT !.by = @ \ {"web"}] : f \in brPartial}
    /\ brStaged' = {[f EXCEPT !.by = @ \ {"web"}] : f \in brStaged}
    /\ UNCHANGED <<brData, brFiles, brSaves, brLast, brWant, brErred, brFaults>>

\* A start that dies, or gives up for another reason, is tried again.
BrDies ==
    /\ brBoot \notin {"up", "down"} /\ BrFault("died") /\ brBoot' = "down"
    /\ UNCHANGED <<brData, brStage, brSaves, brLast, brWant, brStops>>

\* apply_pending_restore: a staged file that does not check out is put away.
BrChecks ==
    LET late == brJob["cli"].pc \in {"copying", "rename"} /\ "overlap" \in brErred IN
    /\ brBoot = "down"
    /\ brStaged' = {f \in brStaged : CheckBackup(f)}
    /\ brBoot' = IF brStaged' = {} THEN "open" ELSE "aside"
    /\ brErred' = brErred \cup (IF late THEN {"late"} ELSE {})
    /\ UNCHANGED <<brData, brPartial, brJob, brFiles, brSaves, brLast, brWant, brFaults, brStops>>

BrMovesAside ==
    /\ brBoot = "aside" /\ brBoot' = "place"
    /\ brAside' = brAside \cup brDb /\ brDb' = {}
    /\ UNCHANGED <<brAi, brStage, brSaves, brSeen>>

BrPlaces ==
    /\ brBoot = "place" /\ brBoot' = "finish"
    /\ brDb' = {[v |-> f.v, over |-> {f.ai}, state |-> f.state] : f \in brStaged}
    /\ brStaged' = {} /\ brWant' = {f.ai : f \in brStaged}
    /\ UNCHANGED <<brAi, brAside, brPartial, brJob, brFiles, brSaves, brLast, brErred, brFaults, brStops>>

\* A rename is refused: the error is logged and the start goes on.
BrApplyFails ==
    /\ brBoot \in {"aside", "place"} /\ BrFault("apply") /\ brBoot' = "open"
    /\ UNCHANGED <<brData, brStage, brSaves, brLast, brWant, brStops>>

BrComesUp(db) == brBoot' = "up" /\ brDb' = db /\ brLast' \in {d.v : d \in db}

BrOpens ==
    /\ brBoot = "open" /\ BrComesUp(IF brDb = {} THEN {BrFresh} ELSE brDb)
    /\ UNCHANGED <<brAi, brAside, brStage, brSaves, brWant, brErred, brFaults, brStops>>

\* finish_restore, in the start that put the backup in place: the overrides there
\* are deleted ...
BrFinishClears ==
    /\ brBoot = "finish" /\ brBoot' = "moving" /\ brAi' = 0
    /\ UNCHANGED <<brDb, brAside, brStage, brSaves, brSeen>>

\* ... and the backup's moved in, with the tables it came with dropped.
BrFinishMoves ==
    /\ brBoot = "moving"
    /\ brAi' \in UNION {d.over : d \in brDb}
    /\ BrComesUp({[d EXCEPT !.over = {}] : d \in brDb})
    /\ UNCHANGED <<brAside, brStage, brSaves, brWant, brErred, brFaults, brStops>>

BrFinishFails ==
    /\ brBoot \in {"finish", "moving"} /\ BrFault("finish") /\ BrComesUp(brDb)
    /\ UNCHANGED <<brAi, brAside, brStage, brSaves, brWant, brStops>>

BrInit ==
    /\ brDb = {[BrFresh EXCEPT !.v = 1]} /\ brAi = 1 /\ brAside = {} /\ brFiles = {}
    /\ brPartial = {} /\ brStaged = {} /\ brJob = [t \in BrJobs |-> BrIdle] /\ brBoot = "up"
    /\ brSaves = 0 /\ brStops = 0 /\ brFaults = 0 /\ brLast = 1 /\ brWant = {} /\ brErred = {}

BrNext ==
    \/ \E ai \in BOOLEAN : BrSave(ai)
    \/ \E t \in BrJobs : \/ BrBackupCopies(t) \/ BrBackupFinishes(t) \/ BrCopied(t) \/ BrRenames(t)
                         \/ \E f \in brFiles \cup BrForeign : BrStages(t, f)
    \/ BrCancel \/ BrStops \/ BrDies \/ BrChecks \/ BrMovesAside \/ BrPlaces \/ BrApplyFails \/ BrOpens
    \/ BrFinishClears \/ BrFinishMoves \/ BrFinishFails

BrSpec == BrInit /\ [][BrNext]_brVars

(* ------------------------------- properties ------------------------------- *)

\* The content last in use is in the database or moved aside, never overwritten.
PreviousKept == brLast \in {d.v : d \in brDb \cup brAside}

\* A start that had no rename refused comes up with an intact database of before:
\* the one in use or a whole backup, never a new one nor part of a file; unless one
\* of two overlapping stagings goes on after the start has checked what is staged.
ComesUpWhole ==
    BrUp /\ "late" \notin brErred => \A d \in brDb : d.state = "whole" /\ (d.v = 0 => "apply" \in brErred)

\* A restore that was not interrupted brings the overrides back.
OverridesBack ==
    BrUp /\ brErred \subseteq {"overlap"} =>
        /\ \A d \in brDb : d.over = {}
        /\ brWant # {} => brAi \in brWant

\* A restore replaces the database as a whole or not at all and keeps the one it
\* replaces, however stagings overlap and wherever the server stops
\* (apply_pending_restore, finish_restore; docs/API.md: Backup and restore).
RestoresHold == PreviousKept /\ ComesUpWhole /\ OverridesBack
=============================================================================
