---------------------------- MODULE ControlPlane ----------------------------
(* How a configuration change reaches the running server: the console's      *)
(* settings form, network and blocklist-source editors, the config file and   *)
(* its watcher, the database overlay, the components built from the live      *)
(* configuration, the web listeners, and the supervisor that rebinds the DNS  *)
(* listeners.  A configuration gives each section one of two settings, 0 (the *)
(* file's first value) and 1; what the sections hold is left out.             *)
EXTENDS Naturals, FiniteSets

CONSTANTS Editable,     \* sections the console's settings form changes
          FileEdits,    \* sections an operator changes in the config file
          CpMaxChanges, CpMaxFaults, CpMaxRestarts,
          QueueBound    \* rebuild requests the supervisor's channel holds

VARIABLES file, mtime, seen, watch,   \* the config file, its stamp, the watcher's stamp and step
          overlay,                    \* settings stored in the database
          live,                       \* state.config, the published configuration
          running,                    \* what each component was last built from
          web, webcert,               \* web listeners; the generated certificate is stored
          listeners, lastGood,        \* DNS listeners: what they were bound from
          requests, sup,              \* rebuild requests queued; the supervisor
          cert, certjob,              \* stored certificate's version; handlers at work on it
          change,                     \* the change whose handler holds config_write
          accepted, behind,           \* ghosts: settings accepted, what a failure left behind
          cpChanges, cpFaults, cpRestarts

cpVars == <<file, mtime, seen, watch, overlay, live, running, web, webcert, listeners, lastGood,
            requests, sup, cert, certjob, change, accepted, behind,
            cpChanges, cpFaults, cpRestarts>>

\* The console's settings stored in the database; the rest stays with the file.
DbOwned == {"certificate", "recursive", "policy", "authoritative", "runtime", "web",
            "reports", "alerts", "networks", "sources"}
Sections == DbOwned \cup {"server"}
Config == [Sections -> {0, 1}]

\* Networks and blocklist sources have editors of their own.
ASSUME CpAssumption == QueueBound \in Nat \ {0} /\ Editable \subseteq Sections \ {"networks", "sources"}

\* Settings in which a network may be named, so that its addresses are part of them.
NamesNetworks == {"server", "recursive", "policy", "authoritative", "runtime"}
Resolved(c, s) == <<c[s], IF s \in NamesNetworks THEN c["networks"] ELSE 0>>

\* What is built once from the configuration and swapped when it changes.
Components == {"recursive", "policy", "authoritative", "runtime", "networks", "sources"}
BuiltFrom(c) == [k \in Components |-> Resolved(c, k)]

\* The listeners also hold the certificate they name, read from the database.
ListenersOf(c, version) ==
    [server |-> Resolved(c, "server"), cert |-> IF c["certificate"] = 1 THEN version ELSE 0]
Bindable(c, version) == c["certificate"] = 1 => version > 0
Down == [server |-> <<>>, cert |-> 0]

\* The whole overlay is replaced by a save; a cleared certificate name is not
\* stored (2: the field is absent).
Capture(c) == [s \in DbOwned |-> IF s = "certificate" /\ c[s] = 0 THEN 2 ELSE c[s]]

\* A field the overlay holds wins over the file's.
Overlaid(f, o) == [s \in Sections |-> IF s \in DbOwned /\ o[s] # 2 THEN o[s] ELSE f[s]]

CpIdle == [pc |-> "idle"]
CpFault == cpFaults < CpMaxFaults /\ cpFaults' = cpFaults + 1

CpInit ==
    /\ file = [s \in Sections |-> 0] /\ mtime = 0 /\ seen = 0 /\ watch = "idle"
    /\ live = file /\ overlay = Capture(file)
    /\ running = BuiltFrom(file) /\ web = 0 /\ webcert = FALSE
    /\ listeners = ListenersOf(file, 1) /\ lastGood = file
    /\ requests = 0 /\ sup = CpIdle /\ cert = 1 /\ certjob = CpIdle
    /\ change = CpIdle /\ accepted = file /\ behind = {}
    /\ cpChanges = 0 /\ cpFaults = 0 /\ cpRestarts = 0

----------------------------------------------------------------------------
\* The console's settings form: PUT /api/config

Flip(c, u) == [s \in Sections |-> IF s \in u THEN 1 - c[s] ELSE c[s]]
Begin(kind, new, pc) ==
    /\ change.pc = "idle" /\ cpChanges < CpMaxChanges
    /\ change' = [pc |-> pc, kind |-> kind, old |-> live, new |-> new]
    /\ cpChanges' = cpChanges + 1

\* The client lists of the policy, and the exemptions and clients of the groups
\* replaced whole (DNS64, RRL, ...), name a network in setting 1.
NetworkUsers(c) == {s \in {"policy", "runtime"} : c[s] = 1}
NetworksNamed(c) == NetworkUsers(c) # {} => c["networks"] = 1

\* HTTPS with no certificate chosen: one is generated and stored.
SelfSigned(c) == webcert' = (webcert \/ c["web"] = 1)

\* A change to the listeners' own sections, not one that leaves them as they were.
ListenersAffected(old, new) == \E s \in {"server", "certificate"} : old[s] # new[s]

\* Everything that can be refused from the configuration alone is refused here,
\* and HTTPS without a certificate gets one generated and stored.
UpdateSettings ==
    /\ \E u \in SUBSET Editable :
          LET new == Flip(live, u) IN
          /\ Cardinality(u) \in 1..2
          /\ Bindable(new, cert) /\ NetworksNamed(new)
          /\ Begin("save", new, IF "web" \in u THEN "web" ELSE "checks")
          /\ SelfSigned(new)
    /\ UNCHANGED <<file, mtime, seen, watch, overlay, live, running, web, listeners, lastGood, requests,
                   sup, cert, certjob, accepted, behind, cpFaults, cpRestarts>>

\* Answer the request with an error: the handler returns, and the lock with it.
Reject ==
    /\ change' = CpIdle
    /\ UNCHANGED <<file, mtime, seen, watch, overlay, live, running, web, webcert, listeners, lastGood,
                   requests, sup, cert, certjob, accepted, behind, cpChanges, cpRestarts>>

\* web_apply: new sockets and the certificate first, then the old ones go.
MoveWeb ==
    /\ change.pc = "web"
    /\ change' = [change EXCEPT !.pc = "checks"]
    /\ web' = change.new["web"]
    /\ UNCHANGED <<file, mtime, seen, watch, overlay, live, running, webcert, listeners, lastGood, requests,
                   sup, cert, certjob, accepted, behind, cpChanges, cpFaults, cpRestarts>>

MoveWebFails == change.pc = "web" /\ CpFault /\ Reject

RecursiveChanged == change.old["recursive"] # change.new["recursive"]

\* Reports need a destination, and the block page its ports.
LateChecks ==
    /\ change.pc = "checks"
    /\ IF change.new["reports"] = 1 /\ change.new["alerts"] = 0
       THEN Reject /\ UNCHANGED cpFaults
       ELSE /\ change' = [change EXCEPT !.pc = IF RecursiveChanged THEN "resolver" ELSE "store"]
            /\ UNCHANGED <<file, mtime, seen, watch, overlay, live, running, web, webcert, listeners, lastGood,
                           requests, sup, cert, certjob, accepted, behind, cpChanges, cpFaults,
                           cpRestarts>>

\* The replacement resolver is built, with an await, before anything is stored.
BuildResolver ==
    /\ change.pc = "resolver"
    /\ change' = [change EXCEPT !.pc = "store"]
    /\ UNCHANGED <<file, mtime, seen, watch, overlay, live, running, web, webcert, listeners, lastGood, requests,
                   sup, cert, certjob, accepted, behind, cpChanges, cpFaults, cpRestarts>>

BuildResolverFails == change.pc = "resolver" /\ CpFault /\ Reject

StoreOverlay ==
    /\ change.pc = "store"
    /\ overlay' = Capture(change.new)
    /\ change' = [change EXCEPT !.pc = "publish"]
    /\ UNCHANGED <<file, mtime, seen, watch, live, running, web, webcert, listeners, lastGood, requests,
                   sup, cert, certjob, accepted, behind, cpChanges, cpFaults, cpRestarts>>

StoreFails == change.pc = "store" /\ CpFault /\ Reject

\* What the reply (or the log line of a reload) says is now in force.
Publish ==
    /\ change.pc = "publish"
    /\ live' = change.new
    /\ accepted' = [s \in Sections |->
                        IF change.old[s] # change.new[s] /\ (change.kind # "reload" \/ s \notin DbOwned)
                        THEN change.new[s] ELSE accepted[s]]
    /\ change' = [change EXCEPT !.pc = "apply"]
    /\ UNCHANGED <<file, mtime, seen, watch, overlay, running, web, webcert, listeners, lastGood, requests,
                   sup, cert, certjob, behind, cpChanges, cpFaults, cpRestarts>>

Changed(s) == Resolved(change.old, s) # Resolved(change.new, s)

\* Components are built again and swapped; one whose build failed stays as it was.
Rebuild(built, failed) ==
    /\ running' = [k \in Components |->
                       IF k \in built THEN Resolved(change.new, k) ELSE running[k]]
    /\ behind' = {k \in behind \cup failed : k \in Components => running'[k] # Resolved(change.new, k)}

\* Of the components that are due, those that cannot be built are left with a warning
\* in the log: the new configuration is published by now, and the handler goes on and
\* answers that all went well.  (`authoritative` is left when its catalog zone cannot
\* be published or its zones not be signed again.)
RebuildOrWarn(due, fallible) ==
    \E failed \in SUBSET (due \cap fallible) :
        /\ Rebuild(due \ failed, failed)
        /\ IF failed = {} THEN UNCHANGED cpFaults ELSE CpFault

\* Mutant of RequestRebuild: nothing is queued while a rebuild is under way.
RequestRebuildCoalesced(wanted) ==
    requests' = IF wanted /\ requests < QueueBound /\ sup.pc = "idle" THEN requests + 1 ELSE requests

\* try_send: a full queue drops the request.
RequestRebuild(wanted) ==
    requests' = IF wanted /\ requests < QueueBound THEN requests + 1 ELSE requests

\* apply_runtime, the rebuild request, the resolver built before, catalog zone and
\* gates, policy.
ApplySettings ==
    /\ change.pc = "apply" /\ change.kind = "save"
    /\ RebuildOrWarn({"runtime"} \cup
                         {k \in {"recursive", "policy", "authoritative"} : change.old[k] # change.new[k]},
                     {"policy", "authoritative"})
    /\ RequestRebuild(ListenersAffected(change.old, change.new))
    /\ change' = CpIdle
    /\ UNCHANGED <<file, mtime, seen, watch, overlay, live, web, webcert, listeners, lastGood, sup, cert,
                   certjob, accepted, cpChanges, cpRestarts>>

----------------------------------------------------------------------------
\* Networks and blocklist sources

SaveNetwork ==
    /\ live["networks"] = 0
    /\ Begin("network", Flip(live, {"networks"}), "store")
    /\ UNCHANGED <<file, mtime, seen, watch, overlay, live, running, web, webcert, listeners, lastGood, requests,
                   sup, cert, certjob, accepted, behind, cpFaults, cpRestarts>>

DeleteNetwork ==
    /\ live["networks"] = 1 /\ NetworkUsers(live) = {}
    /\ Begin("network", Flip(live, {"networks"}), "store")
    /\ UNCHANGED <<file, mtime, seen, watch, overlay, live, running, web, webcert, listeners, lastGood, requests,
                   sup, cert, certjob, accepted, behind, cpFaults, cpRestarts>>

\* The catalog takes the networks, then everything that names one is rebuilt; what
\* cannot be, the filtering groups (in `runtime`) when they cannot be read included,
\* stays as it was.
ApplyNetworks ==
    /\ change.pc = "apply" /\ change.kind = "network"
    /\ RebuildOrWarn({"networks", "runtime"} \cup {k \in Components : Changed(k)},
                     {"policy", "recursive", "runtime"})
    /\ RequestRebuild(Changed("server"))
    /\ change' = CpIdle
    /\ UNCHANGED <<file, mtime, seen, watch, overlay, live, web, webcert, listeners, lastGood, sup, cert,
                   certjob, accepted, cpChanges, cpRestarts>>

\* set_networks fails: the handler returns with the configuration published,
\* nothing rebuilt and no request made for the listeners' addresses.
ApplyNetworksFails ==
    /\ change.pc = "apply" /\ change.kind = "network" /\ CpFault
    /\ Rebuild({}, {k \in Components : Changed(k)} \cup {"addresses"})
    /\ change' = CpIdle
    /\ UNCHANGED <<file, mtime, seen, watch, overlay, live, web, webcert, listeners, lastGood, requests, sup,
                   cert, certjob, accepted, cpChanges, cpRestarts>>

\* Mutant of ReplaceSources: the handler does not wait for config_write.
ReplaceSourcesUnlocked ==
    /\ cpChanges < CpMaxChanges /\ cpChanges' = cpChanges + 1
    /\ LET new == Flip(live, {"sources"}) IN
          /\ overlay' = Capture(new) /\ live' = new
          /\ accepted' = [accepted EXCEPT !["sources"] = new["sources"]]
          /\ running' = [running EXCEPT !["sources"] = Resolved(new, "sources")]
    /\ UNCHANGED <<file, mtime, seen, watch, web, webcert, listeners, lastGood, requests, sup, cert, certjob,
                   change, behind, cpFaults, cpRestarts>>

ReplaceSources ==
    /\ Begin("sources", Flip(live, {"sources"}), "store")
    /\ UNCHANGED <<file, mtime, seen, watch, overlay, live, running, web, webcert, listeners, lastGood, requests,
                   sup, cert, certjob, accepted, behind, cpFaults, cpRestarts>>

\* The source manager takes the new list and wakes its refresher.
ApplySources ==
    /\ change.pc = "apply" /\ change.kind = "sources"
    /\ Rebuild({"sources"}, {})
    /\ change' = CpIdle
    /\ UNCHANGED <<file, mtime, seen, watch, overlay, live, web, webcert, listeners, lastGood, requests, sup,
                   cert, certjob, accepted, cpChanges, cpFaults, cpRestarts>>

----------------------------------------------------------------------------
\* The config file and its watcher

\* external: an operator saves the file.
EditFile ==
    /\ cpChanges < CpMaxChanges /\ cpChanges' = cpChanges + 1
    /\ \E s \in FileEdits : file' = Flip(file, {s})
    /\ mtime' = mtime + 1
    /\ UNCHANGED <<seen, watch, overlay, live, running, web, webcert, listeners, lastGood, requests, sup, cert,
                   certjob, change, accepted, behind, cpFaults, cpRestarts>>

\* The stamp is remembered before the lock is waited for and the file read.
WatcherSees ==
    /\ watch = "idle" /\ mtime # seen
    /\ seen' = mtime /\ watch' = "waiting"
    /\ UNCHANGED <<file, mtime, overlay, live, running, web, webcert, listeners, lastGood, requests, sup,
                   cert, certjob, change, accepted, behind, cpChanges, cpFaults, cpRestarts>>

\* A file that cannot be read leaves everything as it is.
WatcherReads ==
    /\ watch = "waiting" /\ watch' = "idle" /\ change.pc = "idle"
    /\ \/ /\ change' = [pc |-> "publish", kind |-> "reload", old |-> live, new |-> Overlaid(file, overlay)]
          /\ UNCHANGED cpFaults
       \/ CpFault /\ UNCHANGED change
    /\ UNCHANGED <<file, mtime, seen, overlay, live, running, web, webcert, listeners, lastGood, requests,
                   sup, cert, certjob, accepted, behind, cpChanges, cpRestarts>>

\* apply_config: compare what the names resolve to, rebuild what differs.  The
\* sources keep to their manager; the web listeners wait for a restart.
ApplyReload ==
    /\ change.pc = "apply" /\ change.kind = "reload"
    /\ Changed("server") \/ Changed("certificate") => requests < QueueBound
    /\ RebuildOrWarn({k \in Components \ {"sources"} : Changed(k)},
                     {"policy", "networks", "authoritative", "recursive"})
    /\ RequestRebuild(Changed("server") \/ Changed("certificate"))
    /\ change' = CpIdle
    /\ UNCHANGED <<file, mtime, seen, watch, overlay, live, web, webcert, listeners, lastGood, sup, cert,
                   certjob, accepted, cpChanges, cpRestarts>>

----------------------------------------------------------------------------
\* The DNS supervisor

\* A request is taken: remember the configuration, then stop the listeners.
SupervisorStops ==
    /\ sup.pc = "idle" /\ requests > 0
    /\ requests' = requests - 1
    /\ sup' = [pc |-> "starting", requested |-> live, using |-> live]
    /\ listeners' = Down
    /\ UNCHANGED <<file, mtime, seen, watch, overlay, live, running, web, webcert, lastGood, cert, certjob,
                   change, accepted, behind, cpChanges, cpFaults, cpRestarts>>

\* start_listeners reads the configuration again.
SupervisorReads ==
    /\ sup.pc = "starting"
    /\ sup' = [sup EXCEPT !.pc = "binding", !.using = live] /\ behind' = behind \ {"addresses"}
    /\ UNCHANGED <<file, mtime, seen, watch, overlay, live, running, web, webcert, listeners, lastGood,
                   requests, cert, certjob, change, accepted, cpChanges, cpFaults, cpRestarts>>

\* The certificates are written out and the sockets bound, with awaits.
SupervisorBinds ==
    /\ sup.pc = "binding" /\ Bindable(sup.using, cert)
    /\ listeners' = ListenersOf(sup.using, cert)
    /\ lastGood' = sup.requested /\ behind' = behind \ {"listeners"}
    /\ sup' = CpIdle
    /\ UNCHANGED <<file, mtime, seen, watch, overlay, live, running, web, webcert, requests, cert, certjob,
                   change, accepted, cpChanges, cpFaults, cpRestarts>>

\* It cannot bind: the last good configuration is bound again, or nothing is.
SupervisorRestores ==
    /\ sup.pc = "binding"
    /\ IF Bindable(sup.using, cert) THEN CpFault ELSE UNCHANGED cpFaults
    /\ listeners' \in {Down} \cup {ListenersOf(c, cert) : c \in {c \in {lastGood} : Bindable(c, cert)}}
    /\ sup' = CpIdle /\ behind' = behind \cup {"listeners"}
    /\ UNCHANGED <<file, mtime, seen, watch, overlay, live, running, web, webcert, lastGood, requests, cert,
                   certjob, change, accepted, cpChanges, cpRestarts>>

----------------------------------------------------------------------------
\* Certificates: none of these handlers takes config_write

InstallCertificate ==
    /\ certjob.pc = "idle" /\ cpChanges < CpMaxChanges /\ cpChanges' = cpChanges + 1
    /\ cert' = cert + 1
    /\ certjob' = [pc |-> "installed"]
    /\ UNCHANGED <<file, mtime, seen, watch, overlay, live, running, web, webcert, listeners, lastGood, requests,
                   sup, change, accepted, behind, cpFaults, cpRestarts>>

\* The listeners that name it are rebuilt, and the console's moved to where the
\* published settings have them.
InstallRefresh ==
    /\ certjob.pc = "installed" /\ certjob' = CpIdle
    /\ RequestRebuild(live["certificate"] = 1)
    /\ web' = IF live["web"] = 1 THEN 1 ELSE web
    /\ UNCHANGED <<file, mtime, seen, watch, overlay, live, running, webcert, listeners, lastGood,
                   sup, cert, change, accepted, behind, cpChanges, cpFaults, cpRestarts>>

DeleteCertificate ==
    /\ certjob.pc = "idle" /\ cpChanges < CpMaxChanges /\ cpChanges' = cpChanges + 1
    /\ live["certificate"] = 0 /\ cert > 0
    /\ certjob' = [pc |-> "unused"]
    /\ UNCHANGED <<file, mtime, seen, watch, overlay, live, running, web, webcert, listeners, lastGood, requests,
                   sup, cert, change, accepted, behind, cpFaults, cpRestarts>>

DeleteUnused ==
    /\ certjob.pc = "unused" /\ certjob' = CpIdle
    /\ cert' = 0
    /\ UNCHANGED <<file, mtime, seen, watch, overlay, live, running, web, webcert, listeners, lastGood, requests,
                   sup, change, accepted, behind, cpChanges, cpFaults, cpRestarts>>

----------------------------------------------------------------------------
\* Start-up

\* The process ends anywhere and starts again from the file and the database.
\* Web settings that cannot start give way to plain HTTP.
Restart ==
    /\ cpRestarts < CpMaxRestarts /\ cpRestarts' = cpRestarts + 1
    /\ LET boot == Overlaid(file, overlay)
           unanswered == {s \in DbOwned : change.pc = "publish" /\ change.kind # "reload"
                                                /\ change.old[s] # change.new[s]} IN
       /\ Bindable(boot, cert)
       /\ \/ live' = boot /\ behind' = {} /\ UNCHANGED cpFaults
          \/ boot["web"] = 1 /\ live' = [boot EXCEPT !["web"] = 0] /\ behind' = {"web"} /\ CpFault
       /\ running' = BuiltFrom(boot) /\ web' = live'["web"]
       /\ listeners' = ListenersOf(boot, cert) /\ lastGood' = boot
       /\ accepted' = [s \in Sections |->
                          IF s \in unanswered \cup {"server"} \/ (s = "web" /\ "web" \in behind \cup behind')
                          THEN live'[s] ELSE accepted[s]]
    /\ seen' = mtime /\ watch' = "idle" /\ requests' = 0 /\ sup' = CpIdle /\ certjob' = CpIdle /\ change' = CpIdle
    /\ UNCHANGED <<file, mtime, overlay, webcert, cert, cpChanges>>

CpNext ==
    \/ UpdateSettings \/ MoveWeb \/ MoveWebFails \/ LateChecks
    \/ BuildResolver \/ BuildResolverFails \/ StoreOverlay \/ StoreFails
    \/ Publish \/ ApplySettings
    \/ SaveNetwork \/ DeleteNetwork \/ ApplyNetworks \/ ApplyNetworksFails
    \/ ReplaceSources \/ ApplySources
    \/ EditFile \/ WatcherSees \/ WatcherReads \/ ApplyReload
    \/ SupervisorStops \/ SupervisorReads \/ SupervisorBinds \/ SupervisorRestores
    \/ InstallCertificate \/ InstallRefresh \/ DeleteCertificate \/ DeleteUnused
    \/ Restart

CpSpec == CpInit /\ [][CpNext]_cpVars

----------------------------------------------------------------------------

\* Settings accepted by the console are the published ones, and the ones a
\* restart or a reload of the file would come back to, whoever saved last and
\* wherever the process was stopped.  (A cleared certificate name is not stored:
\* the file's comes back.  Web settings that could not start gave way to plain
\* HTTP until the next save.)
AcceptedKept ==
    change.pc = "idle" =>
        \A s \in DbOwned :
            \/ s = "certificate" /\ (overlay[s] = 2 \/ accepted[s] = 0)
            \/ s = "web" /\ "web" \in behind
            \/ live[s] = accepted[s] /\ Overlaid(file, overlay)[s] = accepted[s]

\* With no change under way every component runs what is published, unless its own
\* rebuild failed, which only the log says: the save was answered as applied, and
\* another change of its settings, or a restart, is what builds it again.
RunningInStep ==
    change.pc = "idle" => \A k \in Components : running[k] = Resolved(live, k) \/ k \in behind

\* With no request left, the DNS listeners serve the published addresses and the
\* stored certificate, unless the last rebind failed, a change of networks was
\* refused after it was published and no rebind has read the configuration since,
\* or the certificate was deleted while it was being chosen: a request dropped from a
\* full queue, or made before the previous one has read the configuration, is
\* never missed.
ListenersInStep ==
    requests = 0 /\ sup.pc = "idle" /\ change.pc = "idle" /\ certjob.pc = "idle" =>
        listeners = ListenersOf(live, cert) \/ {"listeners", "addresses"} \cap behind # {} \/ ~Bindable(live, cert)

\* What is published is what runs, in the components and on the DNS listeners,
\* as soon as nothing is on its way to them, but for what failed on its way.
SettingsInForce == RunningInStep /\ ListenersInStep
=============================================================================
