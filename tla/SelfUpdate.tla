----------------------------- MODULE SelfUpdate -----------------------------
(* The in-place update: the console, the AI page and the schedule start a run; *)
(* a detached helper (update.sh) downloads and stages it and leaves a request; *)
(* a root step (update-apply.sh) installs it, checks the restarted service and *)
(* rolls back.  They share one state file and one staging directory, and each  *)
(* of them may die.                                                            *)
EXTENDS Naturals, FiniteSets

CONSTANTS
    SuHosts,   \* what the host may be like: [installed, tools, unit, staging, space, models, network]
    SuMaxRuns, SuMaxDays, SuMaxFaults

ASSUME SuAssumption == SuMaxRuns \in Nat /\ SuMaxDays \in Nat \ {0}

SuRuns == 1..SuMaxRuns
Root == SuMaxRuns + 1     \* the root step's pid; a helper's is its run

VARIABLES
    suState,     \* state.json: [phase, pid, expired, auto]
    suHelpers,   \* run -> [pc, kind, auto]
    suStaged,    \* the run whose artefact is staged, or 0
    suRequest,   \* marker files there are: request, processing
    suRoot,      \* the root step: [pc, run, kind, auto, copy], copy being what it can restore
    suService,   \* [exe, models] on disk, [up, loaded] in the process; 2 and "new" are the release's
    suGood,      \* the release comes up
    suLatest,    \* the release in the cache: a version, or 0
    suDay, suLastAuto,   \* today; the date marker of the last scheduled attempt
    suAutoRuns,          \* scheduled runs started, by day
    suReported,          \* runs whose failure has been reported
    suBroken,    \* why the service may be left as it is: {} or some of died, nocopy, mixed
    suDismiss,   \* a Dismiss has found no run under way and is about to remove the state
    suStarted, suFaults

suVars == <<suState, suHelpers, suStaged, suRequest, suRoot, suService, suGood, suLatest, suDay, suLastAuto,
            suAutoRuns, suReported, suBroken, suDismiss, suStarted, suFaults>>
suSchedule == <<suGood, suLatest, suDay, suLastAuto, suAutoRuns, suReported, suDismiss>>

\* What went wrong: a step that failed, a process that died, a wait that ran out, a
\* state removed under the run it was of.
SuFault == suFaults < SuMaxFaults /\ suFaults' = suFaults + 1

IdleState == [phase |-> "", pid |-> 0, expired |-> FALSE, auto |-> FALSE]
IdleRoot == [pc |-> "idle", run |-> 0, kind |-> "", auto |-> FALSE, copy |-> {}]
Said(phase, pid, auto) == [phase |-> phase, pid |-> pid, expired |-> FALSE, auto |-> auto]

RunningPhases == {"preparing", "downloading", "installing", "applying", "restarting", "rolling_back"}
PidAlive(pid) == IF pid = Root THEN suRoot.pc # "idle" ELSE pid \in SuRuns /\ suHelpers[pid].pc # "gone"

\* A running phase whose process is gone, or that nobody has claimed within the
\* grace period, reads as an error.
NormalizeStale(st) ==
    IF st.phase \in RunningPhases /\ (IF st.pid > 0 THEN ~PidAlive(st.pid) ELSE st.expired)
    THEN [st EXCEPT !.phase = "error"] ELSE st
UpdateInProgress == NormalizeStale(suState).phase \in RunningPhases

(* -------------------------------- starting -------------------------------- *)

\* Only an installed host updates itself.
CanUpdate(h) == h.installed
HostGates(h) == h.tools /\ CanUpdate(h)

\* The path unit is provisioned and a scratch file can be staged.
UpdateServiceReady(h) == h.unit /\ h.staging

\* Too little room to build is an error; room that cannot be told is not.
SpaceSuffices(h) == h.space # "short"

\* A release fetched of late proves the network; else a probe does, if it runs.
GithubReachable(h, latest) == latest # 0 \/ h.network

Preflight(h, latest) ==
    HostGates(h) /\ UpdateServiceReady(h) /\ SpaceSuffices(h) /\ GithubReachable(h, latest)

\* Mutant of Launchable: the check and the primed state are not one step.
LaunchableUnlocked == suState.phase \notin RunningPhases \/ suState.pid = 0

Launchable == ~UpdateInProgress

\* launch_run, under its lock: prime the state, spawn the helper.
SuLaunch(kind, auto) ==
    /\ Launchable /\ suStarted < SuMaxRuns
    /\ suStarted' = suStarted + 1
    /\ \/ /\ suState' = Said("preparing", 0, auto)
          /\ suHelpers' = [suHelpers EXCEPT ![suStarted + 1] = [pc |-> "begin", kind |-> kind, auto |-> auto]]
          /\ UNCHANGED suFaults
       \/ SuFault /\ suState' = Said("error", 0, auto) /\ UNCHANGED suHelpers

\* start and start_models: no preflight, but there must be a model directory.
SuStart(kind) ==
    /\ \E h \in SuHosts : CanUpdate(h) /\ (kind = "models" => h.models)
    /\ SuLaunch(kind, FALSE)
    /\ UNCHANGED <<suStaged, suRequest, suRoot, suService, suSchedule, suBroken>>

\* auto_models_tick: the cached release's models differ from those installed.
SuAutoModels ==
    /\ \E h \in SuHosts : CanUpdate(h) /\ h.models
    /\ suLatest = 2 /\ suService.models # "new" /\ SuLaunch("models", FALSE)
    /\ UNCHANGED <<suStaged, suRequest, suRoot, suService, suSchedule, suBroken>>

\* auto_install_tick: the marker first, then the fresh release (or none), the
\* preflight and the run.
SuAutoInstall(h) ==
    /\ Launchable /\ CanUpdate(h) /\ suLastAuto # suDay
    /\ suLastAuto' = suDay
    /\ \/ /\ suLatest' = 2
          /\ IF suService.up = 1 /\ Preflight(h, suLatest')
             THEN SuLaunch("install", TRUE) /\ suAutoRuns' = [suAutoRuns EXCEPT ![suDay] = @ + 1]
             ELSE UNCHANGED <<suAutoRuns, suState, suHelpers, suStarted, suFaults>>
       \/ UNCHANGED <<suLatest, suAutoRuns, suState, suHelpers, suStarted, suFaults>>
    /\ UNCHANGED <<suStaged, suRequest, suRoot, suService, suGood, suDay, suReported, suBroken, suDismiss>>

\* The warmer or Check Now fetches the latest release.
SuCheckRelease ==
    /\ suLatest = 0 /\ suLatest' = 2
    /\ UNCHANGED <<suState, suHelpers, suStaged, suRequest, suRoot, suService, suGood, suDay, suLastAuto,
                   suAutoRuns, suReported, suBroken, suDismiss, suStarted, suFaults>>

\* A scheduled run's failure is told once.
SuReport ==
    LET st == NormalizeStale(suState) IN
    /\ st.phase = "error" /\ st.auto /\ <<st.pid, suStarted>> \notin suReported
    /\ suReported' = suReported \cup {<<st.pid, suStarted>>}
    /\ UNCHANGED <<suState, suHelpers, suStaged, suRequest, suRoot, suService, suGood, suLatest, suDay, suLastAuto,
                   suAutoRuns, suBroken, suDismiss, suStarted, suFaults>>

\* update_dismiss reads the state and refuses while a run is under way (one Dismiss at
\* a time is modelled) ...
SuClearReads ==
    /\ ~suDismiss /\ ~UpdateInProgress /\ suDismiss' = TRUE
    /\ UNCHANGED <<suState, suHelpers, suStaged, suRequest, suRoot, suService, suGood, suLatest, suDay, suLastAuto,
                   suAutoRuns, suReported, suBroken, suStarted, suFaults>>

\* ... and then removes the file, outside launch_run's lock: by now it may be the state
\* of a run that has started since.
SuClearRemoves ==
    /\ suDismiss /\ suDismiss' = FALSE /\ suState' = IdleState
    /\ IF UpdateInProgress THEN SuFault ELSE UNCHANGED suFaults
    /\ UNCHANGED <<suHelpers, suStaged, suRequest, suRoot, suService, suGood, suLatest, suDay, suLastAuto,
                   suAutoRuns, suReported, suBroken, suStarted>>

(* ------------------------------- the helper ------------------------------- *)

SuHelperTo(r, pc) == suHelpers' = [suHelpers EXCEPT ![r].pc = pc]

\* state preparing with its pid; the update service must be provisioned.
SuHelperBegins(r) ==
    /\ suHelpers[r].pc = "begin"
    /\ \/ suState' = Said("preparing", r, suHelpers[r].auto) /\ SuHelperTo(r, "fetch") /\ UNCHANGED suFaults
       \/ suState' = Said("error", r, suHelpers[r].auto) /\ SuHelperTo(r, "gone") /\ SuFault
    /\ UNCHANGED <<suStaged, suRequest, suRoot, suService, suSchedule, suBroken, suStarted>>

\* Downloads and checksums.
SuHelperFetches(r) ==
    /\ suHelpers[r].pc = "fetch"
    /\ \/ suState' = Said("downloading", r, suHelpers[r].auto) /\ SuHelperTo(r, "stage") /\ UNCHANGED suFaults
       \/ suState' = Said("error", r, suHelpers[r].auto) /\ SuHelperTo(r, "gone") /\ SuFault
    /\ UNCHANGED <<suStaged, suRequest, suRoot, suService, suSchedule, suBroken, suStarted>>

\* stage_and_trigger.
SuHelperStages(r) ==
    /\ suHelpers[r].pc = "stage"
    /\ suState' = Said("installing", r, suHelpers[r].auto) /\ suStaged' = r /\ suRequest' = {"request"}
    /\ SuHelperTo(r, "handoff")
    /\ UNCHANGED <<suRoot, suService, suSchedule, suBroken, suStarted, suFaults>>

SuHelperLeaves(r) ==
    /\ suHelpers[r].pc = "handoff" /\ suState.pid # r /\ SuHelperTo(r, "gone")
    /\ UNCHANGED <<suState, suStaged, suRequest, suRoot, suService, suSchedule, suBroken, suStarted, suFaults>>

\* Nobody has taken the request in a minute: withdraw it.
SuHelperGivesUp(r) ==
    /\ suHelpers[r].pc = "handoff" /\ suState.pid = r /\ SuFault
    /\ suRequest' = {} /\ suState' = Said("error", r, suHelpers[r].auto) /\ SuHelperTo(r, "gone")
    /\ UNCHANGED <<suStaged, suRoot, suService, suSchedule, suBroken, suStarted>>

SuHelperDies(r) ==
    /\ suHelpers[r].pc # "gone" /\ SuFault /\ SuHelperTo(r, "gone")
    /\ UNCHANGED <<suState, suStaged, suRequest, suRoot, suService, suSchedule, suBroken, suStarted>>

SuGraceExpires ==
    /\ suState.phase = "preparing" /\ suState.pid = 0 /\ ~suState.expired /\ SuFault
    /\ suState' = [suState EXCEPT !.expired = TRUE]
    /\ UNCHANGED <<suHelpers, suStaged, suRequest, suRoot, suService, suSchedule, suBroken, suStarted>>

(* ------------------------------ the root step ----------------------------- *)

SuRootEnds(phase) ==
    /\ suState' = Said(phase, Root, suRoot.auto) /\ suRoot' = IdleRoot /\ suRequest' = suRequest \ {"processing"}

\* Claim the request and read what is staged, if it still is.
SuRootClaims ==
    /\ suRoot.pc = "idle" /\ "request" \in suRequest
    /\ IF suStaged = 0
       THEN suRequest' = {} /\ suState' = Said("error", Root, FALSE) /\ UNCHANGED suRoot
       ELSE /\ suRequest' = {"processing"}
            /\ suRoot' = [pc |-> "claimed", run |-> suStaged, kind |-> suHelpers[suStaged].kind,
                          auto |-> suHelpers[suStaged].auto, copy |-> {}]
            /\ UNCHANGED suState
    /\ UNCHANGED <<suHelpers, suStaged, suService, suSchedule, suBroken, suStarted, suFaults>>

\* The binary of the running process, or the one on disk; the models on disk.
Copied == [exe |-> IF suService.up # 0 THEN suService.up ELSE suService.exe, models |-> suService.models]

\* Manifest and checksums, and the copy to roll back to: refused, or applying.
SuRootApplies ==
    /\ suRoot.pc = "claimed"
    /\ \/ /\ suState' = Said("applying", Root, suRoot.auto)
          /\ \/ suRoot' = [suRoot EXCEPT !.pc = suRoot.kind, !.copy = {Copied}] /\ UNCHANGED <<suBroken, suFaults>>
             \/ suRoot' = [suRoot EXCEPT !.pc = suRoot.kind] /\ SuFault /\ suBroken' = suBroken \cup {"nocopy"}
          /\ UNCHANGED suRequest
       \/ SuFault /\ SuRootEnds("error") /\ UNCHANGED suBroken
    /\ UNCHANGED <<suHelpers, suStaged, suService, suSchedule, suStarted>>

\* install.sh swaps the binary it has built, keeps the models that are there, and
\* restarts the service.
InstallBinary(service) == [service EXCEPT !.exe = 2]
InstallerRestarts(service, ok) == [service EXCEPT !.up = IF ok THEN 2 ELSE 0, !.loaded = service.models]

\* The installer ends, or fails before or after it has replaced the binary.
SuInstallerEnds(ok, replaced) ==
    /\ suRoot.pc = "install" /\ (ok => replaced)
    /\ IF ok THEN UNCHANGED suFaults ELSE SuFault
    /\ suService' = IF replaced THEN InstallerRestarts(InstallBinary(suService), ok) ELSE suService
    /\ suRoot' = [suRoot EXCEPT !.pc = IF ok THEN "check" ELSE "rollback"]
    /\ suState' = Said(IF ok THEN "restarting" ELSE "applying", Root, suRoot.auto)
    /\ UNCHANGED <<suHelpers, suStaged, suRequest, suSchedule, suBroken, suStarted>>

\* The models replaced file by file; a failure leaves those already replaced.
SuModelsInstalled(ok) ==
    /\ suRoot.pc = "models"
    /\ IF ok
       THEN /\ suService' = [suService EXCEPT !.models = "new", !.loaded = "new", !.up = suService.exe]
            /\ suRoot' = [suRoot EXCEPT !.pc = "check"] /\ suState' = Said("restarting", Root, suRoot.auto)
            /\ UNCHANGED <<suRequest, suBroken, suFaults>>
       ELSE /\ SuFault /\ suService' = [suService EXCEPT !.models = "mixed"]
            /\ suBroken' = suBroken \cup {"mixed"} /\ SuRootEnds("error")
    /\ UNCHANGED <<suHelpers, suStaged, suSchedule, suStarted>>

Healthy == suService.up # 0 /\ (suService.up = 2 => suGood) /\ (suService.loaded # "old" => suGood)

SuRootChecks ==
    /\ suRoot.pc = "check"
    /\ IF Healthy THEN SuRootEnds("done") /\ suStaged' = 0
       ELSE /\ suRoot' = [suRoot EXCEPT !.pc = "rollback"] /\ suState' = Said("rolling_back", Root, suRoot.auto)
            /\ suStaged' = 0 /\ UNCHANGED suRequest
    /\ UNCHANGED <<suHelpers, suService, suSchedule, suBroken, suStarted, suFaults>>

\* The copy back in place and the service restarted, or just started.
SuRootRollsBack ==
    LET back == IF suRoot.copy = {} THEN [exe |-> suService.exe, models |-> suService.models]
                ELSE CHOOSE c \in suRoot.copy : TRUE
        exe == IF suRoot.kind = "models" THEN suService.exe ELSE back.exe
        models == IF suRoot.kind = "models" THEN back.models ELSE suService.models
    IN  /\ suRoot.pc = "rollback"
        /\ suService' = [exe |-> exe, models |-> models, up |-> exe, loaded |-> models]
        /\ SuRootEnds("error") /\ suStaged' = 0
        /\ UNCHANGED <<suHelpers, suSchedule, suBroken, suStarted, suFaults>>

SuRootDies ==
    /\ suRoot.pc # "idle" /\ SuFault
    /\ suRoot' = IdleRoot /\ suBroken' = suBroken \cup {"died"}
    /\ UNCHANGED <<suState, suHelpers, suStaged, suRequest, suService, suSchedule, suStarted>>

SuDayPasses ==
    /\ suDay < SuMaxDays /\ suDay' = suDay + 1
    /\ UNCHANGED <<suState, suHelpers, suStaged, suRequest, suRoot, suService, suGood, suLatest, suLastAuto,
                   suAutoRuns, suReported, suBroken, suDismiss, suStarted, suFaults>>

\* The service is restarted for another reason and loads what is on disk; its
\* release cache is empty again.
SuServiceRestarts ==
    /\ suRoot.pc \notin {"check", "rollback"} /\ SuFault
    /\ suService' = [suService EXCEPT !.up = suService.exe, !.loaded = suService.models]
    /\ suLatest' = 0
    /\ UNCHANGED <<suState, suHelpers, suStaged, suRequest, suRoot, suGood, suDay, suLastAuto, suAutoRuns,
                   suReported, suBroken, suDismiss, suStarted>>

SuInit ==
    /\ suState = IdleState /\ suHelpers = [r \in SuRuns |-> [pc |-> "gone", kind |-> "install", auto |-> FALSE]]
    /\ suStaged = 0 /\ suRequest = {} /\ suRoot = IdleRoot
    /\ suService = [exe |-> 1, models |-> "old", up |-> 1, loaded |-> "old"]
    /\ suGood \in BOOLEAN /\ suLatest = 0 /\ suDay = 1 /\ suLastAuto = 0 /\ suAutoRuns = [d \in 1..SuMaxDays |-> 0]
    /\ suReported = {} /\ suBroken = {} /\ suDismiss = FALSE /\ suStarted = 0 /\ suFaults = 0

SuNext ==
    \/ (\E k \in {"install", "models"} : SuStart(k)) \/ SuAutoModels
    \/ (\E h \in SuHosts : SuAutoInstall(h)) \/ SuCheckRelease
    \/ SuReport \/ SuClearReads \/ SuClearRemoves \/ SuGraceExpires \/ SuDayPasses \/ SuServiceRestarts
    \/ (\E r \in SuRuns : \/ SuHelperBegins(r) \/ SuHelperFetches(r) \/ SuHelperStages(r) \/ SuHelperLeaves(r)
                          \/ SuHelperGivesUp(r) \/ SuHelperDies(r))
    \/ SuRootClaims \/ SuRootApplies \/ (\E ok, replaced \in BOOLEAN : SuInstallerEnds(ok, replaced))
    \/ (\E ok \in BOOLEAN : SuModelsInstalled(ok)) \/ SuRootChecks \/ SuRootRollsBack \/ SuRootDies

SuSpec == SuInit /\ [][SuNext]_suVars

AtWork == {r \in SuRuns : suHelpers[r].pc \notin {"gone", "handoff"}} \cup (IF suRoot.pc = "idle" THEN {} ELSE {Root})

\* While nothing has gone wrong one run is under way at a time, from the click to the
\* end of the root step.  Among what can go wrong is a Dismiss that read the state
\* before a run began and removed it after: the next start finds no run (the check and
\* the state that answers it "must be one step", update.rs:1602, but clear_state takes
\* no lock), and only then are two helpers at work with nothing failed.  Whatever goes
\* wrong, a run that ends leaves a service that is up, whatever the release is like,
\* unless the root step died, had no copy to go back to, or stopped between model
\* files; and the schedule starts one run a day, however often the service restarts.
UpdatesEndWell ==
    /\ suFaults = 0 => Cardinality(AtWork) <= 1
    /\ suRoot.pc = "idle" /\ suBroken = {} => Healthy
    /\ \A d \in 1..SuMaxDays : suAutoRuns[d] <= 1
=============================================================================
