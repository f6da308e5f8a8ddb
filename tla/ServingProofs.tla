--------------------------- MODULE ServingProofs ---------------------------
(* Proofs about what stands around the query path: the settings on their way  *)
(* to the running server, the resolver's cache assistant, the AI scanner, the *)
(* rate limits and the encrypted listeners.  Each part has its inductive      *)
(* invariant, the lemmas on the operations that keep it and its theorem.      *)
EXTENDS ControlPlane, ResolverCache, AiScanner, ClientThrottles, ClientSessions,
        FiniteSetTheorems, WellFoundedInduction, TLAPS

----------------------------------------------------------------------------
(* Settings *)

\* The change at work: what it starts from is published until it publishes, what
\* it wants after that; each editor changes its own sections, and a reload none
\* of the database's (a certificate's name and web settings that gave way apart).
CpChange ==
  \/ change = CpIdle
  \/ /\ DOMAIN change = {"pc", "kind", "old", "new"}
     /\ change.pc \in {"web", "checks", "resolver", "store", "publish", "apply"}
     /\ change.kind \in {"save", "network", "sources", "reload"}
     /\ change.old \in Config /\ change.new \in Config
     /\ change.pc = "apply" => change.new = live
     /\ change.pc # "apply" => change.old = live
     /\ change.kind = "save" => \A s \in {"networks", "sources"} : change.old[s] = change.new[s]
     /\ change.kind = "network" => \A s \in Sections \ {"networks"} : change.old[s] = change.new[s]
     /\ change.kind = "sources" => \A s \in Sections \ {"sources"} : change.old[s] = change.new[s]
     /\ change.kind = "reload" =>
          /\ change.pc \in {"publish", "apply"}
          /\ \A s \in DbOwned \ {"certificate", "web"} : change.old[s] = change.new[s]

SupType ==
  sup = CpIdle \/ (DOMAIN sup = {"pc", "requested", "using"} /\ sup.pc \in {"starting", "binding"} /\ sup.using \in Config)

CpTyped ==
  /\ file \in Config /\ live \in Config /\ accepted \in Config
  /\ overlay \in [DbOwned -> {0, 1, 2}] /\ \A s \in DbOwned \ {"certificate"} : overlay[s] # 2
  /\ requests \in Nat /\ cert \in Nat

\* A save is stored and not yet published: a crash would bring it back unanswered.
Storing == change.pc = "publish" /\ change.kind # "reload"

KeptIn(s) ==
  \/ s = "certificate" /\ (overlay[s] = 2 \/ accepted[s] = 0)
  \/ s = "web" /\ "web" \in behind
  \/ live[s] = accepted[s] /\ Overlaid(file, overlay)[s] = accepted[s]

CpKept ==
  /\ ~Storing => \A s \in DbOwned : KeptIn(s)
  /\ Storing => /\ overlay = Capture(change.new)
                /\ \A s \in DbOwned \ {"certificate"} :
                     change.old[s] # change.new[s] \/ accepted[s] = live[s] \/ (s = "web" /\ "web" \in behind)
  /\ change.pc = "publish" /\ change.kind = "reload" => \A s \in DbOwned : overlay[s] # 2 => change.new[s] = overlay[s]

RunsFrom(c) == \A k \in Components : running[k] = Resolved(c, k) \/ k \in behind
CpRunning == RunsFrom(IF change.pc = "apply" THEN change.old ELSE live)

SameListeners(a, b) == Resolved(a, "server") = Resolved(b, "server") /\ a["certificate"] = b["certificate"]

\* The supervisor has the published settings still to read, or is about to be asked to.
Owed == requests > 0 \/ sup.pc = "starting" \/ (change.pc = "apply" /\ ~SameListeners(change.old, change.new))

\* The listeners serve what is published; a certificate just installed is on its way.
Serves ==
  /\ listeners = [server |-> listeners.server, cert |-> listeners.cert]
  /\ listeners.server = Resolved(live, "server")
  /\ live["certificate"] = 0 => listeners.cert = 0
  /\ live["certificate"] = 1 => listeners.cert = cert \/ cert = 0 \/ certjob.pc = "installed"

CpListeners ==
  \/ Owed \/ "addresses" \in behind
  \/ sup.pc = "idle" /\ (Serves \/ "listeners" \in behind)
  \/ sup.pc = "binding" /\ SameListeners(sup.using, live)

CpInv == CpTyped /\ SupType /\ CpChange /\ CpKept /\ CpRunning /\ CpListeners

cpPublished == <<file, overlay, live, accepted>>
cpServed == <<listeners, requests, sup, cert, certjob>>
Early == {"idle", "web", "checks", "resolver", "store"}

\* Flipping sections of a configuration.
LEMMA FlipIs ==
  ASSUME NEW c \in Config, NEW u
  PROVE  /\ Flip(c, u) \in Config
         /\ \A s \in Sections : s \notin u => Flip(c, u)[s] = c[s]
<1>1. \A s \in Sections : c[s] \in {0, 1} /\ 1 - c[s] \in {0, 1}
  BY DEF Config
<1>2. QED
  BY <1>1 DEF Flip, Config

\* The file with the database's settings over it.
LEMMA OverlaidIs ==
  ASSUME NEW f \in Config, NEW o \in [DbOwned -> {0, 1, 2}]
  PROVE  /\ Overlaid(f, o) \in Config
         /\ \A s \in DbOwned : Overlaid(f, o)[s] = IF o[s] # 2 THEN o[s] ELSE f[s]
BY DEF Overlaid, Config, Sections

\* What is stored of a configuration.
LEMMA CaptureIs ==
  ASSUME NEW c \in Config
  PROVE  /\ Capture(c) \in [DbOwned -> {0, 1, 2}]
         /\ \A s \in DbOwned \ {"certificate"} : Capture(c)[s] = c[s] /\ c[s] # 2
         /\ Capture(c)["certificate"] = IF c["certificate"] = 0 THEN 2 ELSE 1
<1>1. \A s \in DbOwned : c[s] \in {0, 1} /\ c[s] # 2
  BY DEF Config, Sections
<1>2. "certificate" \in DbOwned
  BY DEF DbOwned
<1>3. QED
  BY <1>1, <1>2 DEF Capture

\* A change that has stored nothing yet disturbs nothing.
LEMMA EarlyKeeps ==
  ASSUME CpInv, change.pc \in Early, change'.pc \in Early, CpChange', UNCHANGED <<cpPublished, cpServed, running, behind>>
  PROVE  CpInv'
<1>1. CpTyped' /\ SupType'
  BY DEF CpInv, CpTyped, SupType, cpPublished, cpServed
<1>2. ~Storing /\ ~Storing' /\ change'.pc # "publish" /\ change'.pc # "apply" /\ change.pc # "apply"
  BY DEF Early, Storing
<1>3. CpKept'
  BY <1>2 DEF CpInv, CpKept, KeptIn, cpPublished
<1>4. CpRunning'
  BY <1>2 DEF CpInv, CpRunning, RunsFrom, cpPublished
<1>5. CpListeners'
  BY <1>2 DEF CpInv, CpListeners, Owed, Serves, cpPublished, cpServed
<1>6. QED
  BY <1>1, <1>3, <1>4, <1>5 DEF CpInv

\* A change begins under config_write.
LEMMA BeginKeeps ==
  ASSUME CpInv, NEW kind \in {"save", "network", "sources"}, NEW new \in Config, NEW p \in Early \ {"idle"}, Begin(kind, new, p),
         kind = "save" => \A s \in {"networks", "sources"} : live[s] = new[s],
         kind = "network" => \A s \in Sections \ {"networks"} : live[s] = new[s],
         kind = "sources" => \A s \in Sections \ {"sources"} : live[s] = new[s],
         UNCHANGED <<cpPublished, cpServed, running, behind>>
  PROVE  CpInv'
<1> DEFINE c == [pc |-> p, kind |-> kind, old |-> live, new |-> new]
<1>1. change.pc = "idle" /\ change' = c
  BY DEF Begin
<1>2. DOMAIN c = {"pc", "kind", "old", "new"} /\ c.pc = p /\ c.kind = kind /\ c.old = live /\ c.new = new
  OBVIOUS
<1> HIDE DEF c
<1>3. live \in Config /\ live' = live
  BY DEF CpInv, CpTyped, cpPublished
<1>4. CpChange'
  BY <1>1, <1>2, <1>3 DEF CpChange, Early
<1>5. change.pc \in Early /\ change'.pc \in Early
  BY <1>1, <1>2 DEF Early
<1>6. QED
  BY <1>4, <1>5, EarlyKeeps

\* A change goes on, or is refused.
LEMMA MoveKeeps ==
  ASSUME CpInv, change.pc \in Early \ {"idle"}, UNCHANGED <<cpPublished, cpServed, running, behind>>,
         change' = CpIdle \/ \E p \in Early \ {"idle"} : change' = [change EXCEPT !.pc = p]
  PROVE  CpInv'
<1>1. CASE change' = CpIdle
  BY <1>1, EarlyKeeps DEF CpChange, CpIdle, Early
<1>2. CASE \E p \in Early \ {"idle"} : change' = [change EXCEPT !.pc = p]
  <2>1. PICK p \in Early \ {"idle"} : change' = [change EXCEPT !.pc = p]
    BY <1>2
  <2>2. CpChange /\ change # CpIdle /\ live' = live
    BY DEF CpInv, CpIdle, cpPublished
  <2>3. DOMAIN change = {"pc", "kind", "old", "new"}
    BY <2>2 DEF CpChange
  <2>4. DOMAIN change' = DOMAIN change /\ change'.pc = p /\ change'.kind = change.kind /\ change'.old = change.old /\ change'.new = change.new
    BY <2>1, <2>3
  <2>5. CpChange'
    BY <2>2, <2>4 DEF CpChange, Early
  <2>6. QED
    BY <2>4, <2>5, EarlyKeeps DEF Early
<1>3. QED
  BY <1>1, <1>2

\* The handlers up to the store.
LEMMA EarlySteps ==
  ASSUME CpInv,
         \/ UpdateSettings \/ MoveWeb \/ MoveWebFails \/ LateChecks \/ BuildResolver \/ BuildResolverFails \/ StoreFails
         \/ SaveNetwork \/ DeleteNetwork \/ ReplaceSources
  PROVE  CpInv'
<1>1. live \in Config
  BY DEF CpInv, CpTyped
<1>2. CASE UpdateSettings
  <2>1. UNCHANGED <<cpPublished, cpServed, running, behind>>
    BY <1>2 DEF UpdateSettings, cpPublished, cpServed
  <2>2. PICK u \in SUBSET Editable : Begin("save", Flip(live, u), IF "web" \in u THEN "web" ELSE "checks")
    BY <1>2 DEF UpdateSettings
  <2>3. "networks" \notin u /\ "sources" \notin u /\ {"networks", "sources"} \subseteq Sections
    BY <2>2, CpAssumption DEF Sections, DbOwned
  <2>4. Flip(live, u) \in Config /\ \A s \in {"networks", "sources"} : live[s] = Flip(live, u)[s]
    BY <1>1, <2>3, FlipIs
  <2>5. (IF "web" \in u THEN "web" ELSE "checks") \in Early \ {"idle"}
    BY DEF Early
  <2>6. QED
    BY <2>1, <2>2, <2>4, <2>5, BeginKeeps
<1>3. CASE SaveNetwork \/ DeleteNetwork
  <2>1. UNCHANGED <<cpPublished, cpServed, running, behind>> /\ Begin("network", Flip(live, {"networks"}), "store")
    BY <1>3 DEF SaveNetwork, DeleteNetwork, cpPublished, cpServed
  <2>2. Flip(live, {"networks"}) \in Config /\ \A s \in Sections \ {"networks"} : live[s] = Flip(live, {"networks"})[s]
    BY <1>1, FlipIs
  <2>3. QED
    BY <2>1, <2>2, BeginKeeps DEF Early
<1>4. CASE ReplaceSources
  <2>1. UNCHANGED <<cpPublished, cpServed, running, behind>> /\ Begin("sources", Flip(live, {"sources"}), "store")
    BY <1>4 DEF ReplaceSources, cpPublished, cpServed
  <2>2. Flip(live, {"sources"}) \in Config /\ \A s \in Sections \ {"sources"} : live[s] = Flip(live, {"sources"})[s]
    BY <1>1, FlipIs
  <2>3. QED
    BY <2>1, <2>2, BeginKeeps DEF Early
<1>5. CASE MoveWebFails \/ BuildResolverFails \/ StoreFails \/ (change.pc = "checks" /\ Reject)
  <2>1. UNCHANGED <<cpPublished, cpServed, running, behind>> /\ change' = CpIdle /\ change.pc \in Early \ {"idle"}
    BY <1>5 DEF MoveWebFails, BuildResolverFails, StoreFails, Reject, Early, cpPublished, cpServed
  <2>2. QED
    BY <2>1, MoveKeeps
<1>6. CASE MoveWeb \/ BuildResolver \/ (LateChecks /\ ~Reject)
  <2>1. UNCHANGED <<cpPublished, cpServed, running, behind>> /\ change.pc \in Early \ {"idle"}
    BY <1>6 DEF MoveWeb, BuildResolver, LateChecks, Early, cpPublished, cpServed
  <2>2. \E p \in Early \ {"idle"} : change' = [change EXCEPT !.pc = p]
    BY <1>6 DEF MoveWeb, BuildResolver, LateChecks, Early
  <2>3. QED
    BY <2>1, <2>2, MoveKeeps
<1>7. QED
  BY <1>2, <1>3, <1>4, <1>5, <1>6 DEF LateChecks

\* The watcher reads the file: the database's settings stay as they are.
LEMMA WatcherReadsKeeps == ASSUME CpInv, WatcherReads PROVE CpInv'
<1>1. /\ change.pc = "idle" /\ UNCHANGED <<cpPublished, cpServed, running, behind>>
      /\ \/ change' = [pc |-> "publish", kind |-> "reload", old |-> live, new |-> Overlaid(file, overlay)]
         \/ UNCHANGED change
  BY DEF WatcherReads, cpPublished, cpServed
<1>2. CASE UNCHANGED change
  BY <1>1, <1>2, EarlyKeeps DEF Early, CpInv, CpChange, cpPublished
<1>3. CASE change' = [pc |-> "publish", kind |-> "reload", old |-> live, new |-> Overlaid(file, overlay)]
  <2> DEFINE boot == Overlaid(file, overlay)
  <2>1. file \in Config /\ live \in Config /\ overlay \in [DbOwned -> {0, 1, 2}] /\ ~Storing /\ CpKept /\ UNCHANGED live
    BY <1>1 DEF CpInv, CpTyped, Storing, cpPublished
  <2>2. boot \in Config /\ \A s \in DbOwned : overlay[s] # 2 => boot[s] = overlay[s]
    BY <2>1, OverlaidIs
  <2>3. \A s \in DbOwned \ {"certificate", "web"} : live[s] = boot[s]
    BY <2>1 DEF CpKept, KeptIn
  <2> HIDE DEF boot
  <2>4. /\ DOMAIN change' = {"pc", "kind", "old", "new"} /\ change'.pc = "publish" /\ change'.kind = "reload"
        /\ change'.old = live /\ change'.new = boot
    BY <1>3 DEF boot
  <2>5. CpChange'
    BY <2>1, <2>2, <2>3, <2>4 DEF CpChange
  <2>6. CpKept'
    BY <1>1, <2>1, <2>2, <2>4 DEF CpKept, KeptIn, Storing, cpPublished
  <2>7. CpRunning'
    BY <1>1, <2>4 DEF CpInv, CpRunning, RunsFrom, cpPublished
  <2>8. CpListeners'
    BY <1>1, <2>4 DEF CpInv, CpListeners, Owed, Serves, cpPublished, cpServed
  <2>9. QED
    BY <1>1, <2>5, <2>6, <2>7, <2>8 DEF CpInv, CpTyped, SupType, cpPublished, cpServed
<1>4. QED
  BY <1>1, <1>2, <1>3

\* The new settings are stored.
LEMMA StoreKeeps == ASSUME CpInv, StoreOverlay PROVE CpInv'
<1>1. /\ change.pc = "store" /\ overlay' = Capture(change.new) /\ change' = [change EXCEPT !.pc = "publish"]
      /\ UNCHANGED <<file, live, accepted, running, behind, cpServed>>
  BY DEF StoreOverlay, cpServed
<1>2. /\ DOMAIN change = {"pc", "kind", "old", "new"} /\ change.new \in Config /\ change.old = live /\ change.kind # "reload"
      /\ ~Storing
  BY <1>1 DEF CpInv, CpChange, CpIdle, Storing
<1>3. DOMAIN change' = DOMAIN change /\ change'.pc = "publish" /\ change'.kind = change.kind /\ change'.old = change.old /\ change'.new = change.new
  BY <1>1, <1>2
<1>4. CpChange'
  BY <1>1, <1>2, <1>3 DEF CpInv, CpChange, CpIdle
<1>5. CpTyped'
  BY <1>1, <1>2, CaptureIs DEF CpInv, CpTyped, cpServed
<1>6. CpKept'
  BY <1>1, <1>2, <1>3 DEF CpInv, CpKept, KeptIn, Storing
<1>7. CpRunning'
  BY <1>1, <1>3 DEF CpInv, CpRunning, RunsFrom
<1>8. CpListeners' /\ SupType'
  BY <1>1, <1>3 DEF CpInv, CpListeners, Owed, Serves, SupType, cpServed
<1>9. QED
  BY <1>4, <1>5, <1>6, <1>7, <1>8 DEF CpInv

\* The change is published, and accepted by its answer.
LEMMA PublishKeeps == ASSUME CpInv, Publish PROVE CpInv'
<1> DEFINE old == change.old
           new == change.new
           mine(s) == change.kind # "reload" \/ s \notin DbOwned
<1>1. /\ change.pc = "publish" /\ live' = new /\ change' = [change EXCEPT !.pc = "apply"]
      /\ accepted' = [s \in Sections |-> IF old[s] # new[s] /\ mine(s) THEN new[s] ELSE accepted[s]]
      /\ UNCHANGED <<file, overlay, running, behind, cpServed>>
  BY DEF Publish, cpServed
<1>2. DOMAIN change = {"pc", "kind", "old", "new"} /\ old \in Config /\ new \in Config /\ old = live
  BY <1>1 DEF CpInv, CpChange, CpIdle
<1>3. DOMAIN change' = DOMAIN change /\ change'.pc = "apply" /\ change'.kind = change.kind /\ change'.old = old /\ change'.new = new
  BY <1>1, <1>2
<1>4. CpChange'
  BY <1>1, <1>2, <1>3 DEF CpInv, CpChange, CpIdle
<1>5. file \in Config /\ accepted \in Config /\ overlay \in [DbOwned -> {0, 1, 2}] /\ \A s \in DbOwned \ {"certificate"} : overlay[s] # 2
  BY DEF CpInv, CpTyped
<1>6. \A s \in DbOwned : s \in Sections /\ Overlaid(file, overlay)[s] = IF overlay[s] # 2 THEN overlay[s] ELSE file[s]
  BY <1>5, OverlaidIs DEF Sections
<1> HIDE DEF old, new
<1>7. accepted' \in Config
  BY <1>1, <1>2, <1>5 DEF Config
<1>8. ASSUME NEW s \in DbOwned PROVE KeptIn(s)'
  <2>1. UNCHANGED <<file, overlay, behind>> /\ live'[s] = new[s] /\ accepted'[s] = IF old[s] # new[s] /\ change.kind # "reload" THEN new[s] ELSE accepted[s]
    BY <1>1, <1>6 DEF mine
  <2>2. CASE change.kind # "reload"
    <3>1. overlay = Capture(new) /\ (s # "certificate" => old[s] # new[s] \/ accepted[s] = live[s] \/ (s = "web" /\ "web" \in behind))
      BY <1>1, <2>2 DEF CpInv, CpKept, Storing, old, new
    <3>2. CASE s = "certificate"
      <4>1. overlay[s] = (IF new[s] = 0 THEN 2 ELSE 1) /\ new[s] \in {0, 1} /\ accepted'[s] \in {0, 1}
        BY <1>2, <1>6, <1>7, <3>1, <3>2, CaptureIs DEF Config
      <4>2. QED
        BY <1>6, <2>1, <3>2, <4>1 DEF KeptIn
    <3>3. CASE s # "certificate"
      <4>1. overlay[s] = new[s] /\ new[s] # 2
        BY <1>2, <3>1, <3>3, CaptureIs
      <4>2. QED
        BY <1>2, <1>6, <2>1, <2>2, <3>1, <3>3, <4>1 DEF KeptIn
    <3>4. QED
      BY <3>2, <3>3
  <2>3. CASE change.kind = "reload"
    <3>1. KeptIn(s) /\ (overlay[s] # 2 => new[s] = overlay[s]) /\ accepted'[s] = accepted[s]
      BY <1>1, <2>1, <2>3 DEF CpInv, CpKept, Storing, new
    <3>2. QED
      BY <1>5, <1>6, <2>1, <3>1 DEF KeptIn
  <2>4. QED
    BY <2>2, <2>3
<1>9. CpKept'
  BY <1>3, <1>8 DEF CpKept, Storing
<1>10. CpRunning'
  BY <1>1, <1>2, <1>3 DEF CpInv, CpRunning, RunsFrom
<1>11. CpListeners'
  <2>1. CASE ~SameListeners(old, new)
    BY <1>3, <2>1 DEF CpListeners, Owed
  <2>2. CASE SameListeners(old, new)
    <3>1. SameListeners(live, live') /\ live' = new
      BY <1>1, <1>2, <2>2
    <3>2. Serves => Serves'
      BY <1>1, <3>1 DEF Serves, SameListeners, cpServed
    <3>3. sup' = sup /\ requests' = requests /\ behind' = behind /\ change.pc # "apply"
      BY <1>1 DEF cpServed
    <3>4. sup.pc = "binding" /\ SameListeners(sup.using, live) => SameListeners(sup.using, live)'
      BY <3>1, <3>3 DEF SameListeners
    <3>5. QED
      BY <3>2, <3>3, <3>4 DEF CpInv, CpListeners, Owed
  <2>3. QED
    BY <2>1, <2>2
<1>12. CpTyped' /\ SupType'
  BY <1>1, <1>2, <1>7 DEF CpInv, CpTyped, SupType, cpServed
<1>13. QED
  BY <1>4, <1>9, <1>10, <1>11, <1>12 DEF CpInv

\* try_send leaves at least one request when one is wanted, or was there.
LEMMA RequestIs ==
  ASSUME requests \in Nat, NEW wanted, RequestRebuild(wanted)
  PROVE  requests' \in Nat /\ (wanted \/ requests > 0 => requests' > 0)
<1>1. QueueBound \in Nat /\ QueueBound > 0
  BY CpAssumption
<1>2. CASE wanted /\ requests < QueueBound
  BY <1>1, <1>2 DEF RequestRebuild
<1>3. CASE ~(wanted /\ requests < QueueBound)
  BY <1>1, <1>3 DEF RequestRebuild
<1>4. QED
  BY <1>2, <1>3

\* A change is applied: every component it concerns is rebuilt or reported, and
\* the listeners are asked for or reported.
LEMMA ApplyKeeps ==
  ASSUME CpInv, change.pc = "apply", change' = CpIdle, UNCHANGED <<cpPublished, listeners, sup, cert, certjob>>,
         NEW built, NEW failed, Rebuild(built, failed),
         \A k \in Components : k \in built \/ k \in failed \/ Resolved(change.old, k) = Resolved(change.new, k),
         requests' \in Nat, requests > 0 => requests' > 0,
         SameListeners(change.old, change.new) \/ requests' > 0 \/ "addresses" \in failed
  PROVE  CpInv'
<1>1. /\ running' = [k \in Components |-> IF k \in built THEN Resolved(change.new, k) ELSE running[k]]
      /\ behind' = {k \in behind \cup failed : k \in Components => running'[k] # Resolved(change.new, k)}
  BY DEF Rebuild
<1>2. change # CpIdle
  BY DEF CpIdle
<1>3. change.new = live /\ change.old \in Config
  BY <1>2 DEF CpInv, CpChange
<1>4. "web" \notin Components /\ "addresses" \notin Components /\ "listeners" \notin Components
  BY DEF Components
<1>5. \A x \in {"web", "addresses", "listeners"} : x \in behind \cup failed => x \in behind'
  BY <1>1, <1>4
<1>6. CpTyped' /\ SupType' /\ CpChange'
  BY DEF CpInv, CpTyped, SupType, CpChange, cpPublished
<1>7. CpKept'
  <2>1. \A s \in DbOwned : KeptIn(s)
    BY DEF CpInv, CpKept, Storing
  <2>2. \A s \in DbOwned : KeptIn(s)'
    BY <1>5, <2>1 DEF KeptIn, cpPublished
  <2>3. QED
    BY <2>2 DEF CpKept, Storing, CpIdle
<1>8. CpRunning'
  <2>1. ASSUME NEW k \in Components PROVE running'[k] = Resolved(live, k) \/ k \in behind'
    <3>1. running[k] = Resolved(change.old, k) \/ k \in behind
      BY DEF CpInv, CpRunning, RunsFrom
    <3>2. running'[k] = IF k \in built THEN Resolved(change.new, k) ELSE running[k]
      BY <1>1
    <3>3. k \in behind \cup failed => running'[k] = Resolved(change.new, k) \/ k \in behind'
      BY <1>1
    <3>4. QED
      BY <1>3, <3>1, <3>2, <3>3
  <2>2. change'.pc # "apply" /\ live' = live
    BY DEF CpIdle, cpPublished
  <2>3. RunsFrom(live)'
    BY <2>1, <2>2 DEF RunsFrom, Resolved
  <2>4. QED
    BY <2>2, <2>3 DEF CpRunning
<1>9. CpListeners'
  <2>1. CASE requests' > 0
    BY <2>1 DEF CpListeners, Owed
  <2>2. CASE "addresses" \in failed
    BY <1>5, <2>2 DEF CpListeners
  <2>3. CASE SameListeners(change.old, change.new) /\ ~(requests' > 0)
    <3>1. ~(requests > 0) /\ change'.pc = "idle" /\ UNCHANGED <<live, listeners, sup, cert, certjob>>
      BY <2>3 DEF CpIdle, cpPublished
    <3>2. Serves => Serves'
      BY <3>1 DEF Serves
    <3>3. SameListeners(sup.using, live) => SameListeners(sup.using, live)'
      BY <3>1 DEF SameListeners
    <3>4. QED
      BY <1>5, <2>3, <3>1, <3>2, <3>3 DEF CpInv, CpListeners, Owed
  <2>4. QED
    BY <2>1, <2>2, <2>3
<1>10. QED
  BY <1>6, <1>7, <1>8, <1>9 DEF CpInv

\* What is due is built, or was left with a warning.
LEMMA BuiltOrLeft ==
  ASSUME NEW due, NEW fallible, RebuildOrWarn(due, fallible)
  PROVE  \E failed \in SUBSET due : Rebuild(due \ failed, failed)
BY DEF RebuildOrWarn

\* Each kind of change is applied.
LEMMA ApplySteps == ASSUME CpInv, ApplySettings \/ ApplyNetworks \/ ApplyNetworksFails \/ ApplySources \/ ApplyReload PROVE CpInv'
<1>1. change.pc = "apply" /\ change' = CpIdle /\ UNCHANGED <<cpPublished, listeners, sup, cert, certjob>>
  BY DEF ApplySettings, ApplyNetworks, ApplyNetworksFails, ApplySources, ApplyReload, cpPublished
<1>2. requests \in Nat /\ CpChange /\ change # CpIdle
  BY <1>1 DEF CpInv, CpTyped, CpIdle
<1>3. "networks" \in Sections /\ "server" \in Sections /\ "certificate" \in Sections /\ "sources" \in Components
  BY DEF Sections, DbOwned, Components
<1>4. \A k : Changed(k) <=> Resolved(change.old, k) # Resolved(change.new, k)
  BY DEF Changed
<1>5. CASE ApplySettings
  <2> DEFINE due == {"runtime"} \cup {k \in {"recursive", "policy", "authoritative"} : change.old[k] # change.new[k]}
             wanted == ListenersAffected(change.old, change.new)
  <2>1. RebuildOrWarn(due, {"policy", "authoritative"}) /\ RequestRebuild(wanted) /\ change.kind = "save"
    BY <1>5 DEF ApplySettings
  <2>2. \A s \in {"networks", "sources"} : change.old[s] = change.new[s]
    BY <1>2, <2>1 DEF CpChange
  <2>3. \A k \in Components : k \in due \/ Resolved(change.old, k) = Resolved(change.new, k)
    BY <2>2 DEF Components, Resolved
  <2>4. SameListeners(change.old, change.new) \/ wanted
    BY <2>2 DEF SameListeners, Resolved, ListenersAffected
  <2> HIDE DEF due, wanted
  <2>5. requests' \in Nat /\ (wanted \/ requests > 0 => requests' > 0)
    BY <1>2, <2>1, RequestIs
  <2>6. PICK failed \in SUBSET due : Rebuild(due \ failed, failed)
    BY <2>1, BuiltOrLeft
  <2>7. \A k \in Components :
           k \in due \ failed \/ k \in failed \/ Resolved(change.old, k) = Resolved(change.new, k)
    BY <2>3
  <2>8. QED
    BY <1>1, <2>4, <2>5, <2>6, <2>7, ApplyKeeps
<1>6. CASE ApplyNetworks
  <2> DEFINE due == {"networks", "runtime"} \cup {k \in Components : Changed(k)}
  <2>1. PICK failed \in SUBSET due : Rebuild(due \ failed, failed)
    <3> HIDE DEF due
    <3>1. RebuildOrWarn(due, {"policy", "recursive", "runtime"})
      BY <1>6 DEF ApplyNetworks, due
    <3>2. QED
      BY <3>1, BuiltOrLeft
  <2>2. RequestRebuild(Changed("server")) /\ change.kind = "network"
    BY <1>6 DEF ApplyNetworks
  <2>3. change.old["certificate"] = change.new["certificate"]
    BY <1>2, <1>3, <2>2 DEF CpChange
  <2>4. SameListeners(change.old, change.new) \/ Changed("server")
    BY <1>4, <2>3 DEF SameListeners
  <2>5. requests' \in Nat /\ (Changed("server") \/ requests > 0 => requests' > 0)
    BY <1>2, <2>2, RequestIs
  <2>6. \A k \in Components :
           k \in due \ failed \/ k \in failed \/ Resolved(change.old, k) = Resolved(change.new, k)
    BY <1>4
  <2> HIDE DEF due
  <2>7. QED
    BY <1>1, <2>1, <2>4, <2>5, <2>6, ApplyKeeps
<1>7. CASE ApplyNetworksFails
  <2> DEFINE failed == {k \in Components : Changed(k)} \cup {"addresses"}
  <2>1. Rebuild({}, failed) /\ requests' = requests
    BY <1>7 DEF ApplyNetworksFails
  <2>2. \A k \in Components : k \in failed \/ Resolved(change.old, k) = Resolved(change.new, k)
    BY <1>4
  <2>3. "addresses" \in failed
    OBVIOUS
  <2> HIDE DEF failed
  <2>4. QED
    BY <1>1, <1>2, <2>1, <2>2, <2>3, ApplyKeeps
<1>8. CASE ApplySources
  <2>1. Rebuild({"sources"}, {}) /\ requests' = requests /\ change.kind = "sources"
    BY <1>8 DEF ApplySources
  <2>2. \A s \in Sections \ {"sources"} : change.old[s] = change.new[s]
    BY <1>2, <2>1 DEF CpChange
  <2>3. \A k \in Components : k \in {"sources"} \/ Resolved(change.old, k) = Resolved(change.new, k)
    BY <2>2 DEF Resolved, Components, Sections, DbOwned
  <2>4. SameListeners(change.old, change.new)
    BY <2>2 DEF SameListeners, Resolved, Sections, DbOwned
  <2>5. QED
    BY <1>1, <1>2, <2>1, <2>3, <2>4, ApplyKeeps
<1>9. CASE ApplyReload
  <2> DEFINE due == {k \in Components \ {"sources"} : Changed(k)}
  <2>1. PICK failed \in SUBSET due : Rebuild(due \ failed, failed)
    <3> HIDE DEF due
    <3>1. RebuildOrWarn(due, {"policy", "networks", "authoritative", "recursive"})
      BY <1>9 DEF ApplyReload, due
    <3>2. QED
      BY <3>1, BuiltOrLeft
  <2>2. RequestRebuild(Changed("server") \/ Changed("certificate")) /\ change.kind = "reload"
    BY <1>9 DEF ApplyReload
  <2>3. change.old["sources"] = change.new["sources"]
    BY <1>2, <2>2 DEF CpChange, DbOwned
  <2>4. Resolved(change.old, "sources") = Resolved(change.new, "sources")
    BY <2>3 DEF Resolved, NamesNetworks
  <2>5. SameListeners(change.old, change.new) \/ Changed("server") \/ Changed("certificate")
    BY <1>4 DEF SameListeners, Resolved
  <2>6. requests' \in Nat /\ (Changed("server") \/ Changed("certificate") \/ requests > 0 => requests' > 0)
    BY <1>2, <2>2, RequestIs
  <2>7. \A k \in Components :
           k \in due \ failed \/ k \in failed \/ Resolved(change.old, k) = Resolved(change.new, k)
    BY <1>4, <2>4
  <2> HIDE DEF due
  <2>8. QED
    BY <1>1, <2>1, <2>5, <2>6, <2>7, ApplyKeeps
<1>10. QED
  BY <1>5, <1>6, <1>7, <1>8, <1>9

\* The supervisor, the certificates and the operator's file leave what is published alone.
LEMMA OutsideKeeps ==
  ASSUME CpInv, UNCHANGED <<overlay, live, accepted, running, change>>, file' \in Config, requests' \in Nat, cert' \in Nat, SupType',
         \A x \in Components \cup {"web"} : x \in behind <=> x \in behind', CpListeners'
  PROVE  CpInv'
<1>1. CpTyped' /\ CpChange'
  BY DEF CpInv, CpTyped, CpChange
<1>2. ASSUME NEW s \in DbOwned, KeptIn(s) PROVE KeptIn(s)'
  <2>1. file \in Config /\ overlay \in [DbOwned -> {0, 1, 2}] /\ (s # "certificate" => overlay[s] # 2)
    BY DEF CpInv, CpTyped
  <2>2. Overlaid(file, overlay)[s] = (IF overlay[s] # 2 THEN overlay[s] ELSE file[s]) /\ Overlaid(file', overlay)[s] = IF overlay[s] # 2 THEN overlay[s] ELSE file'[s]
    BY <2>1, OverlaidIs
  <2>3. QED
    BY <1>2, <2>1, <2>2 DEF KeptIn
<1>3. CpKept'
  BY <1>2 DEF CpInv, CpKept, Storing
<1>4. CpRunning'
  BY DEF CpInv, CpRunning, RunsFrom
<1>5. QED
  BY <1>1, <1>3, <1>4 DEF CpInv

\* The operator's file, and the watcher's notice of it.
LEMMA FileKeeps == ASSUME CpInv, EditFile \/ WatcherSees PROVE CpInv'
<1>1. UNCHANGED <<overlay, live, accepted, running, behind, change, listeners, requests, sup, cert, certjob>>
  BY DEF EditFile, WatcherSees
<1>2. file' \in Config
  <2>1. file \in Config
    BY DEF CpInv, CpTyped
  <2>2. file' = file \/ \E s \in FileEdits : file' = Flip(file, {s})
    BY DEF EditFile, WatcherSees
  <2>3. \A u : Flip(file, u) \in Config
    BY <2>1, FlipIs
  <2>4. QED
    BY <2>1, <2>2, <2>3
<1>3. SupType' /\ CpListeners' /\ requests' \in Nat /\ cert' \in Nat
  BY <1>1 DEF CpInv, CpTyped, SupType, CpListeners, Owed, Serves
<1>4. QED
  BY <1>1, <1>2, <1>3, OutsideKeeps

\* The supervisor takes a request, reads the configuration and binds.
LEMMA SupervisorKeeps == ASSUME CpInv, SupervisorStops \/ SupervisorReads \/ SupervisorBinds \/ SupervisorRestores PROVE CpInv'
<1>1. UNCHANGED <<file, overlay, live, accepted, running, change, cert, certjob>>
  BY DEF SupervisorStops, SupervisorReads, SupervisorBinds, SupervisorRestores
<1>2. file \in Config /\ live \in Config /\ requests \in Nat /\ cert \in Nat /\ SupType /\ CpListeners
  BY DEF CpInv, CpTyped
<1>3. "addresses" \notin Components \cup {"web"} /\ "listeners" \notin Components \cup {"web"}
  BY DEF Components
<1>4. CASE SupervisorStops
  <2>1. requests' = requests - 1 /\ requests > 0 /\ sup' = [pc |-> "starting", requested |-> live, using |-> live] /\ behind' = behind
    BY <1>4 DEF SupervisorStops
  <2>2. requests' \in Nat
    BY <1>2, <2>1
  <2>3. DOMAIN sup' = {"pc", "requested", "using"} /\ sup'.pc = "starting" /\ sup'.using = live
    BY <2>1
  <2>4. SupType' /\ CpListeners'
    BY <1>2, <2>3 DEF SupType, CpListeners, Owed
  <2>5. QED
    BY <1>1, <1>2, <2>1, <2>2, <2>4, OutsideKeeps
<1>5. CASE SupervisorReads
  <2>1. sup.pc = "starting" /\ sup' = [sup EXCEPT !.pc = "binding", !.using = live] /\ behind' = behind \ {"addresses"} /\ requests' = requests
    BY <1>5 DEF SupervisorReads
  <2>2. DOMAIN sup = {"pc", "requested", "using"}
    BY <1>2, <2>1 DEF SupType, CpIdle
  <2>3. DOMAIN sup' = {"pc", "requested", "using"} /\ sup'.pc = "binding" /\ sup'.using = live
    BY <2>1, <2>2
  <2>4. SupType'
    BY <1>2, <2>3 DEF SupType
  <2>5. CpListeners'
    BY <1>1, <2>3 DEF CpListeners, SameListeners
  <2>6. QED
    BY <1>1, <1>2, <1>3, <2>1, <2>4, <2>5, OutsideKeeps
<1>6. CASE SupervisorBinds
  <2>1. /\ sup.pc = "binding" /\ Bindable(sup.using, cert) /\ listeners' = ListenersOf(sup.using, cert)
        /\ behind' = behind \ {"listeners"} /\ sup' = CpIdle /\ requests' = requests
    BY <1>6 DEF SupervisorBinds
  <2>2. SameListeners(sup.using, live) => Serves'
    <3>1. SUFFICES ASSUME SameListeners(sup.using, live) PROVE Serves'
      OBVIOUS
    <3>2. listeners' = [server |-> Resolved(sup.using, "server"), cert |-> IF sup.using["certificate"] = 1 THEN cert ELSE 0]
      BY <2>1 DEF ListenersOf
    <3>3. listeners'.server = Resolved(live, "server") /\ listeners'.cert = IF live["certificate"] = 1 THEN cert ELSE 0
      BY <3>1, <3>2 DEF SameListeners
    <3>4. listeners' = [server |-> listeners'.server, cert |-> listeners'.cert]
      BY <3>2
    <3>5. Resolved(live, "server")' = Resolved(live, "server")
      BY <1>1
    <3>6. QED
      BY <1>1, <3>3, <3>4, <3>5 DEF Serves
  <2>3. CpListeners'
    BY <1>1, <1>2, <2>1, <2>2 DEF CpListeners, Owed, CpIdle
  <2>4. SupType'
    BY <2>1 DEF SupType
  <2>5. QED
    BY <1>1, <1>2, <1>3, <2>1, <2>3, <2>4, OutsideKeeps
<1>7. CASE SupervisorRestores
  <2>1. sup' = CpIdle /\ behind' = behind \cup {"listeners"} /\ requests' = requests
    BY <1>7 DEF SupervisorRestores
  <2>2. CpListeners' /\ SupType'
    BY <2>1 DEF CpListeners, SupType, CpIdle
  <2>3. QED
    BY <1>1, <1>2, <1>3, <2>1, <2>2, OutsideKeeps
<1>8. QED
  BY <1>4, <1>5, <1>6, <1>7

\* Certificates are installed and deleted beside all this.
LEMMA CertificateKeeps == ASSUME CpInv, InstallCertificate \/ InstallRefresh \/ DeleteCertificate \/ DeleteUnused PROVE CpInv'
<1>1. UNCHANGED <<file, overlay, live, accepted, running, behind, change, sup, listeners>>
  BY DEF InstallCertificate, InstallRefresh, DeleteCertificate, DeleteUnused
<1>2. file \in Config /\ requests \in Nat /\ cert \in Nat /\ SupType /\ CpListeners
  BY DEF CpInv, CpTyped
<1>3. cert' \in Nat
  BY <1>2 DEF InstallCertificate, InstallRefresh, DeleteCertificate, DeleteUnused
<1>4. requests' \in Nat /\ (requests > 0 => requests' > 0) /\ (InstallRefresh /\ live["certificate"] = 1 => requests' > 0)
  <2>1. CASE InstallRefresh
    BY <1>2, <2>1, RequestIs DEF InstallRefresh
  <2>2. CASE ~InstallRefresh
    BY <1>2, <2>2 DEF InstallCertificate, DeleteCertificate, DeleteUnused
  <2>3. QED
    BY <2>1, <2>2
<1>5. Serves => Serves' \/ requests' > 0
  <2>1. SUFFICES ASSUME Serves, ~(requests' > 0) PROVE Serves'
    OBVIOUS
  <2>2. live["certificate"] = 1 => listeners.cert = cert' \/ cert' = 0 \/ certjob'.pc = "installed"
    <3>1. CASE InstallCertificate
      BY <3>1 DEF InstallCertificate
    <3>2. CASE InstallRefresh
      BY <1>4, <2>1, <3>2
    <3>3. CASE DeleteCertificate
      <4>1. certjob.pc = "idle" /\ cert' = cert
        BY <3>3 DEF DeleteCertificate
      <4>2. QED
        BY <2>1, <4>1 DEF Serves
    <3>4. CASE DeleteUnused
      BY <3>4 DEF DeleteUnused
    <3>5. QED
      BY <3>1, <3>2, <3>3, <3>4
  <2>3. QED
    BY <1>1, <2>1, <2>2 DEF Serves
<1>6. CpListeners' /\ SupType'
  BY <1>1, <1>2, <1>4, <1>5 DEF CpListeners, Owed, SupType
<1>7. QED
  BY <1>1, <1>2, <1>3, <1>4, <1>6, OutsideKeeps

\* The process starts again from the file and the database.
LEMMA CpRestartKeeps == ASSUME CpInv, Restart PROVE CpInv'
<1> DEFINE boot == Overlaid(file, overlay)
           unanswered == {s \in DbOwned : change.pc = "publish" /\ change.kind # "reload" /\ change.old[s] # change.new[s]}
           over(s) == s \in unanswered \cup {"server"} \/ (s = "web" /\ "web" \in behind \cup behind')
<1>1. /\ (live' = boot /\ behind' = {}) \/ (live' = [boot EXCEPT !["web"] = 0] /\ behind' = {"web"})
      /\ running' = BuiltFrom(boot) /\ listeners' = ListenersOf(boot, cert)
      /\ accepted' = [s \in Sections |-> IF over(s) THEN live'[s] ELSE accepted[s]]
      /\ requests' = 0 /\ sup' = CpIdle /\ change' = CpIdle
      /\ UNCHANGED <<file, overlay, cert>>
  BY DEF Restart
<1>2. file \in Config /\ accepted \in Config /\ overlay \in [DbOwned -> {0, 1, 2}] /\ cert \in Nat
      /\ \A s \in DbOwned \ {"certificate"} : overlay[s] # 2
  BY DEF CpInv, CpTyped
<1>3. boot \in Config /\ \A s \in DbOwned : s \in Sections /\ boot[s] = IF overlay[s] # 2 THEN overlay[s] ELSE file[s]
  BY <1>2, OverlaidIs DEF Sections
<1> HIDE DEF boot
<1>4. /\ live' \in Config /\ \A s \in Sections \ {"web"} : live'[s] = boot[s]
      /\ "web" \in behind' \/ live' = boot
  BY <1>1, <1>3 DEF Config
<1>5. accepted' \in Config
  BY <1>1, <1>2, <1>4 DEF Config
<1>6. CpTyped' /\ SupType' /\ CpChange'
  BY <1>1, <1>2, <1>4, <1>5 DEF CpTyped, SupType, CpChange
<1>7. ASSUME NEW s \in DbOwned PROVE KeptIn(s)'
  <2>1. /\ boot' = boot /\ Overlaid(file, overlay)' = boot /\ overlay' = overlay
        /\ accepted'[s] = IF over(s) THEN live'[s] ELSE accepted[s]
    BY <1>1, <1>3 DEF boot
  <2>2. s # "server"
    BY DEF DbOwned
  <2>3. CASE s = "web"
    <3>1. CASE "web" \in behind'
      BY <2>3, <3>1 DEF KeptIn
    <3>2. CASE "web" \notin behind'
      <4>1. live'[s] = boot[s]
        BY <1>4, <3>2
      <4>2. CASE over(s)
        BY <2>1, <4>1, <4>2 DEF KeptIn
      <4>3. CASE ~over(s)
        <5>1. "web" \notin behind /\ s \notin unanswered
          BY <2>3, <4>3
        <5>2. boot[s] = accepted[s]
          <6>1. CASE Storing
            <7>1. change.old[s] = change.new[s] /\ overlay = Capture(change.new) /\ accepted[s] = live[s] /\ change # CpIdle
              BY <2>3, <5>1, <6>1 DEF CpInv, CpKept, Storing, CpIdle
            <7>2. change.new \in Config /\ change.old = live
              BY <6>1, <7>1 DEF CpInv, CpChange, Storing
            <7>3. overlay[s] = change.new[s]
              BY <2>3, <7>1, <7>2, CaptureIs
            <7>4. QED
              BY <1>2, <1>3, <2>3, <7>1, <7>2, <7>3
          <6>2. CASE ~Storing
            BY <2>3, <5>1, <6>2 DEF CpInv, CpKept, KeptIn, boot
          <6>3. QED
            BY <6>1, <6>2
        <5>3. QED
          BY <2>1, <4>1, <4>3, <5>2 DEF KeptIn
      <4>4. QED
        BY <4>2, <4>3
    <3>3. QED
      BY <3>1, <3>2
  <2>4. CASE s = "certificate"
    <3>1. live'[s] = boot[s] /\ accepted'[s] \in {0, 1} /\ overlay[s] \in {0, 1, 2}
      BY <1>2, <1>3, <1>4, <1>5, <2>4 DEF Config
    <3>2. CASE Storing
      <4>1. overlay = Capture(change.new) /\ change # CpIdle
        BY <3>2 DEF CpInv, CpKept, Storing, CpIdle
      <4>2. change.new \in Config
        BY <4>1 DEF CpInv, CpChange
      <4>3. overlay[s] = 2 \/ overlay[s] = 1
        BY <2>4, <4>1, <4>2, CaptureIs
      <4>4. QED
        BY <1>3, <2>1, <2>4, <3>1, <4>3 DEF KeptIn
    <3>3. CASE ~Storing
      <4>1. ~over(s) /\ KeptIn(s)
        BY <2>4, <3>3 DEF CpInv, CpKept, Storing
      <4>2. QED
        BY <2>1, <2>4, <3>1, <4>1 DEF KeptIn, boot
    <3>4. QED
      BY <3>2, <3>3
  <2>5. CASE s \notin {"web", "certificate"}
    <3>1. live'[s] = boot[s]
      BY <1>3, <1>4, <2>5
    <3>2. CASE s \in unanswered
      BY <2>1, <3>1, <3>2 DEF KeptIn
    <3>3. CASE s \notin unanswered
      <4>1. boot[s] = accepted[s]
        <5>1. CASE Storing
          <6>1. change.old[s] = change.new[s] /\ overlay = Capture(change.new) /\ accepted[s] = live[s] /\ change # CpIdle
            BY <2>5, <3>3, <5>1 DEF CpInv, CpKept, Storing, CpIdle
          <6>2. change.new \in Config /\ change.old = live
            BY <5>1, <6>1 DEF CpInv, CpChange, Storing
          <6>3. overlay[s] = change.new[s]
            BY <2>5, <6>1, <6>2, CaptureIs
          <6>4. QED
            BY <1>2, <1>3, <2>5, <6>1, <6>2, <6>3
        <5>2. CASE ~Storing
          BY <2>5, <5>2 DEF CpInv, CpKept, KeptIn, boot
        <5>3. QED
          BY <5>1, <5>2
      <4>2. QED
        BY <2>1, <2>2, <2>5, <3>1, <3>3, <4>1 DEF KeptIn
    <3>4. QED
      BY <3>2, <3>3
  <2>6. QED
    BY <2>3, <2>4, <2>5
<1>8. CpKept'
  BY <1>1, <1>7 DEF CpKept, Storing, CpIdle
<1>9. CpRunning'
  <2>1. change'.pc # "apply"
    BY <1>1 DEF CpIdle
  <2>2. \A k \in Components : k \in Sections /\ k # "web"
    BY DEF Components, Sections, DbOwned
  <2>3. \A k \in Components : live'[k] = boot[k] /\ live'["networks"] = boot["networks"]
    BY <1>4, <2>2 DEF Sections, DbOwned
  <2>4. \A k \in Components : running'[k] = <<boot[k], IF k \in NamesNetworks THEN boot["networks"] ELSE 0>>
    BY <1>1 DEF BuiltFrom, Resolved
  <2>5. \A k \in Components : running'[k] = <<live'[k], IF k \in NamesNetworks THEN live'["networks"] ELSE 0>>
    BY <2>3, <2>4
  <2>6. QED
    BY <2>1, <2>5 DEF CpRunning, RunsFrom, Resolved
<1>10. CpListeners'
  <2>1. listeners' = [server |-> Resolved(boot, "server"), cert |-> IF boot["certificate"] = 1 THEN cert ELSE 0]
    BY <1>1 DEF ListenersOf
  <2>2. \A s \in {"server", "networks", "certificate"} : live'[s] = boot[s]
    BY <1>4 DEF Sections, DbOwned
  <2>3. listeners' = [server |-> listeners'.server, cert |-> listeners'.cert]
        /\ listeners'.server = Resolved(boot, "server") /\ listeners'.cert = IF boot["certificate"] = 1 THEN cert ELSE 0
    BY <2>1
  <2>4. Serves'
    BY <1>1, <2>2, <2>3 DEF Serves, Resolved
  <2>5. QED
    BY <1>1, <2>4 DEF CpListeners, CpIdle
<1>11. QED
  BY <1>6, <1>8, <1>9, <1>10 DEF CpInv

\* Every step keeps the settings in step.
LEMMA CpStep == ASSUME CpInv, [CpNext]_cpVars PROVE CpInv'
<1>1. CASE UNCHANGED cpVars
  BY <1>1 DEF cpVars, CpInv, CpTyped, SupType, CpChange, CpKept, KeptIn, Storing, CpRunning, RunsFrom, CpListeners, Owed, Serves
<1>2. CASE CpNext
  BY <1>2, EarlySteps, WatcherReadsKeeps, StoreKeeps, PublishKeeps, ApplySteps, FileKeeps, SupervisorKeeps, CertificateKeeps,
     CpRestartKeeps DEF CpNext
<1>3. QED
  BY <1>1, <1>2

\* The server starts with the file's settings in force.
LEMMA CpStart == ASSUME CpInit PROVE CpInv
<1>1. file = [s \in Sections |-> 0] /\ live = file /\ accepted = file /\ overlay = Capture(file) /\ behind = {} /\ requests = 0
      /\ cert = 1 /\ sup = CpIdle /\ change = CpIdle /\ running = BuiltFrom(file) /\ listeners = ListenersOf(file, 1)
  BY DEF CpInit
<1>2. file \in Config
  BY <1>1 DEF Config
<1>3. overlay \in [DbOwned -> {0, 1, 2}] /\ overlay["certificate"] = 2
      /\ \A s \in DbOwned \ {"certificate"} : overlay[s] = file[s] /\ overlay[s] # 2
  <2>1. "certificate" \in Sections
    BY DEF Sections, DbOwned
  <2>2. file["certificate"] = 0
    BY <1>1, <2>1
  <2>3. QED
    BY <1>1, <1>2, <2>2, CaptureIs
<1>4. CpTyped /\ SupType /\ CpChange
  BY <1>1, <1>2, <1>3 DEF CpTyped, SupType, CpChange
<1>5. \A s \in DbOwned : KeptIn(s)
  BY <1>1, <1>2, <1>3, OverlaidIs DEF KeptIn
<1>6. CpKept
  BY <1>1, <1>5 DEF CpKept, Storing, CpIdle
<1>7. CpRunning
  BY <1>1 DEF CpRunning, RunsFrom, BuiltFrom, CpIdle
<1>8. CpListeners
  BY <1>1 DEF CpListeners, Serves, ListenersOf, CpIdle
<1>9. QED
  BY <1>4, <1>6, <1>7, <1>8 DEF CpInv

\* The invariant of the settings' way to the running server.
LEMMA CpInvariant == CpSpec => []CpInv
<1>1. CpInit => CpInv
  BY CpStart
<1>2. CpInv /\ [CpNext]_cpVars => CpInv'
  BY CpStep
<1>3. QED
  BY <1>1, <1>2, PTL DEF CpSpec

\* Console saves, network and source edits, reloads of the file, failures between
\* two steps of a handler and restarts anywhere: settings the console accepted
\* are the published ones and the ones a restart or a reload comes back to.
THEOREM AcceptedKeptCorrect == CpSpec => []AcceptedKept
<1>1. CpInv => AcceptedKept
  BY DEF CpInv, CpKept, AcceptedKept, KeptIn, Storing
<1>2. QED
  BY <1>1, CpInvariant, PTL

\* With nothing on its way, components and DNS listeners run what is published:
\* a rebuild request dropped by a full queue, or made while the supervisor works
\* on an earlier one, is never missed.
THEOREM SettingsInForceCorrect == CpSpec => []SettingsInForce
<1>1. ASSUME CpInv PROVE RunningInStep
  BY <1>1 DEF CpInv, CpRunning, RunsFrom, RunningInStep
<1>2. ASSUME CpInv PROVE ListenersInStep
  <2>1. SUFFICES ASSUME requests = 0, sup.pc = "idle", change.pc = "idle", certjob.pc = "idle",
                        {"listeners", "addresses"} \cap behind = {}, Bindable(live, cert)
                 PROVE  listeners = ListenersOf(live, cert)
    BY DEF ListenersInStep
  <2>2. Serves
    BY <1>2, <2>1 DEF CpInv, CpListeners, Owed
  <2>3. live["certificate"] \in {0, 1} /\ cert \in Nat
    BY <1>2 DEF CpInv, CpTyped, Config, Sections, DbOwned
  <2>4. live["certificate"] = 1 => cert > 0
    BY <2>1 DEF Bindable
  <2>5. listeners.cert = IF live["certificate"] = 1 THEN cert ELSE 0
    BY <2>1, <2>2, <2>3, <2>4 DEF Serves
  <2>6. QED
    BY <2>2, <2>5 DEF Serves, ListenersOf
<1>3. CpInv => SettingsInForce
  BY <1>1, <1>2 DEF SettingsInForce
<1>4. QED
  BY <1>3, CpInvariant, PTL
----------------------------------------------------------------------------
(* The cache assistant *)

\* An answer as the caches keep it.
RcAnswer(d) == d # NoData => DOMAIN d = {"from", "owner", "born", "carried"}

\* An answer that no file has carried is kept no longer than its lifetime.
Dated(d, until) ==
  d # NoData /\ ~d.carried => d.born \in Nat /\ until \in Nat /\ until <= d.born + RcTtl

RcKept(f) == \A k \in DOMAIN f : RcAnswer(f[k].data) /\ Dated(f[k].data, f[k].until)

\* A lookup knows the resolver it was made by, and whether that one is still in force.
RcLooks ==
  \/ rcLook = IdleLook
  \/ /\ DOMAIN rcLook = {"pc", "client", "name", "route", "shared", "by", "old"}
     /\ rcLook.pc # "idle" /\ rcLook.by.window \in Nat
     /\ ~rcLook.old => rcLook.by = rcBuild

RcInv ==
  /\ rcNow \in Nat /\ rcBuild.window \in Nat /\ rcBuild.maxTtl \in Nat
  /\ RcKept(rcSnaps) /\ RcKept(rcHickory)
  /\ \A k \in DOMAIN rcFile : RcAnswer(rcFile[k].data)
  /\ RcLooks
  /\ StaleWithinWindow

\* What is in a table after an insertion was there before, or is what was inserted.
LEMMA InsertedIs ==
  ASSUME NEW f, NEW k, NEW v, NEW rank, NEW g \in Inserted(f, k, v, rank)
  PROVE  \A j \in DOMAIN g : g[j] = v \/ (j \in DOMAIN f /\ g[j] = f[j])
<1> DEFINE put(keep) == [j \in keep \cup {k} |-> IF j = k THEN v ELSE f[j]]
<1>1. \E keep \in SUBSET (DOMAIN f) : g = put(keep)
  BY DEF Inserted
<1>2. PICK keep \in SUBSET (DOMAIN f) : g = put(keep)
  BY <1>1
<1>3. QED
  BY <1>2

\* So a table of dated answers stays one.
LEMMA InsertedKept ==
  ASSUME NEW f, NEW k, NEW v, NEW rank, NEW g \in Inserted(f, k, v, rank),
         RcKept(f), RcAnswer(v.data), Dated(v.data, v.until)
  PROVE  RcKept(g)
<1>1. \A j \in DOMAIN g : g[j] = v \/ (j \in DOMAIN f /\ g[j] = f[j])
  BY InsertedIs
<1>2. QED
  BY <1>1 DEF RcKept

\* on_success keeps the answer no longer than it was given.
LEMMA OnSuccessKeeps ==
  ASSUME RcInv, NEW k, NEW d, NEW until, NEW spawn, NEW tasks,
         RcAnswer(d), Dated(d, until), OnSuccess(k, d, until, spawn, tasks)
  PROVE  RcKept(rcSnaps')
<1> DEFINE dead == Deadline(rcBuild, until)
           v == [NoSnapshot EXCEPT !.data = d, !.until = dead, !.fetched = rcNow]
<1>1. rcSnaps' \in Inserted(rcSnaps, k, v, "fetched")
  BY DEF OnSuccess
<1>2. v.data = d /\ v.until = dead
  BY DEF NoSnapshot
<1>3. Dated(d, dead)
  <2> SUFFICES ASSUME d # NoData, ~d.carried PROVE d.born \in Nat /\ dead \in Nat /\ dead <= d.born + RcTtl
    BY DEF Dated
  <2>1. d.born \in Nat /\ until \in Nat /\ until <= d.born + RcTtl /\ rcNow \in Nat /\ rcBuild.maxTtl \in Nat /\ RcTtl \in Nat
    BY RcAssumption DEF Dated, RcInv
  <2>2. QED
    BY <2>1 DEF Deadline
<1> HIDE DEF v
<1>4. RcKept(rcSnaps)
  BY DEF RcInv
<1>5. RcAnswer(v.data) /\ Dated(v.data, v.until)
  BY <1>2, <1>3
<1>6. QED
  BY <1>1, <1>4, <1>5, InsertedKept

\* What a step that replies to nobody, of a resolver that stays, has to keep.
LEMMA RcQuiet ==
  ASSUME RcInv, NoReply, rcNow' \in Nat, UNCHANGED rcBuild, RcKept(rcSnaps'), RcKept(rcHickory'),
         \A k \in DOMAIN rcFile' : RcAnswer(rcFile'[k].data), rcLook' = rcLook \/ rcLook' = IdleLook
  PROVE  RcInv'
<1>1. StaleWithinWindow'
  BY DEF NoReply, StaleWithinWindow, Given
<1>2. RcLooks'
  BY DEF RcInv, RcLooks
<1>3. QED
  BY <1>1, <1>2 DEF RcInv, RcKept

\* What a lookup finds has not outlived its time.
LEMMA FetchedDated ==
  ASSUME RcInv, NEW route, NEW n, NEW owner
  PROVE  LET got == Fetched(route, n, owner) IN
         /\ RcAnswer(got.data) /\ Dated(got.data, got.until)
         /\ got.data # NoData /\ ~got.data.carried => rcNow <= got.data.born + RcTtl
<1> DEFINE slot == <<route.up, n>>
           cached == owner = "shared" /\ slot \in DOMAIN rcHickory /\ rcHickory[slot].until > rcNow
           new == [from |-> route.up, owner |-> owner, born |-> rcNow, carried |-> FALSE]
           fresh == [data |-> new, until |-> rcNow + RcTtl]
<1>1. Fetched(route, n, owner) = (IF cached THEN rcHickory[slot] ELSE fresh)
  BY DEF Fetched
<1>2. rcNow \in Nat /\ RcTtl \in Nat
  BY RcAssumption DEF RcInv
<1>3. CASE cached
  <2>1. RcAnswer(rcHickory[slot].data) /\ Dated(rcHickory[slot].data, rcHickory[slot].until)
    BY <1>3 DEF RcInv, RcKept
  <2>2. rcHickory[slot].until > rcNow
    BY <1>3
  <2> DEFINE h == rcHickory[slot]
  <2>3. h.data # NoData /\ ~h.data.carried => rcNow <= h.data.born + RcTtl
    <3> SUFFICES ASSUME h.data # NoData, ~h.data.carried PROVE rcNow <= h.data.born + RcTtl
      OBVIOUS
    <3>1. h.data.born \in Nat /\ h.until \in Nat /\ h.until <= h.data.born + RcTtl
      BY <2>1 DEF Dated
    <3> HIDE DEF h
    <3>2. QED
      BY <1>2, <2>2, <3>1 DEF h
  <2>4. QED
    BY <1>1, <1>3, <2>1, <2>3
<1>4. CASE ~cached
  <2>1. fresh.data = new /\ fresh.until = rcNow + RcTtl /\ new.born = rcNow /\ DOMAIN new = {"from", "owner", "born", "carried"}
    OBVIOUS
  <2>2. rcNow + RcTtl \in Nat /\ rcNow + RcTtl <= rcNow + RcTtl /\ rcNow <= rcNow + RcTtl
    BY <1>2
  <2> HIDE DEF new, fresh, cached
  <2>3. RcAnswer(new) /\ Dated(new, rcNow + RcTtl)
    BY <1>2, <2>1, <2>2 DEF RcAnswer, Dated
  <2>4. QED
    BY <1>1, <1>4, <2>1, <2>2, <2>3
<1>5. QED
  BY <1>3, <1>4

\* Keeping an answer in Hickory's cache.
LEMMA RememberKeeps ==
  ASSUME RcInv, NEW route, NEW n, NEW got, Remember(route, n, got), RcAnswer(got.data), Dated(got.data, got.until)
  PROVE  RcKept(rcHickory')
<1>1. \A s \in DOMAIN rcHickory' : rcHickory'[s] = got \/ (s \in DOMAIN rcHickory /\ rcHickory'[s] = rcHickory[s])
  BY DEF Remember
<1>2. QED
  BY <1>1 DEF RcInv, RcKept

\* A stale answer expired within the window of the resolver in force.
LEMMA StaleDated ==
  ASSUME RcInv, NEW k, StaleAnswer(k), rcSnaps[k].data # NoData, ~rcSnaps[k].data.carried
  PROVE  rcNow <= rcSnaps[k].data.born + RcTtl + rcBuild.window
<1> DEFINE s == rcSnaps[k]
<1>1. s.data.born \in Nat /\ s.until \in Nat /\ s.until <= s.data.born + RcTtl
  BY DEF RcInv, RcKept, Dated, StaleAnswer
<1>2. rcNow \in Nat /\ rcBuild.window \in Nat /\ RcTtl \in Nat
  BY RcAssumption DEF RcInv
<1>3. rcNow - s.until <= rcBuild.window
  BY DEF StaleAnswer
<1> HIDE DEF s
<1>4. QED
  BY <1>1, <1>2, <1>3 DEF s

\* A reply in time, by a resolver with a window.
LEMMA ReplyInTime ==
  ASSUME NEW kind, NEW c, NEW n, NEW d, NEW b, Reply(kind, c, n, d, b),
         d # NoData /\ ~d.carried /\ kind \in {"data", "stale"} => rcNow <= d.born + RcTtl + b.window
  PROVE  StaleWithinWindow'
BY DEF Reply, StaleWithinWindow, Given

\* A step that may reply, of a resolver that stays.
LEMMA RcLively ==
  ASSUME RcInv, StaleWithinWindow', UNCHANGED <<rcNow, rcBuild, rcFile>>, RcKept(rcSnaps'), RcKept(rcHickory'), RcLooks'
  PROVE  RcInv'
BY DEF RcInv, RcKept

\* A delivery in time.
LEMMA DeliverInTime ==
  ASSUME RcInv, NEW kind, NEW d, rcLook.pc # "idle", Deliver(kind, d),
         d # NoData /\ ~d.carried /\ kind \in {"data", "stale"} => rcNow <= d.born + RcTtl + rcLook.by.window
  PROVE  StaleWithinWindow'
<1>1. CASE rcLook.pc = "wait"
  BY <1>1, ReplyInTime DEF Deliver
<1>2. CASE rcLook.pc # "wait"
  BY <1>2 DEF Deliver, NoReply, StaleWithinWindow, Given
<1>3. QED
  BY <1>1, <1>2

\* Beginning a lookup: an answer restored from the file, or the wait for one.
LEMMA RcBeginKeeps == ASSUME RcInv, NEW c, NEW n, NEW subnet, RcBegin(c, n, subnet) PROVE RcInv'
<1> DEFINE b == rcBuild
           route == RouteOf(b, n, PolicyFor(b, c))
           shared == ~(subnet /\ route.kind = "forward")
           k == KeyOf(n, route)
           wait == [pc |-> "wait", client |-> c, name |-> n, route |-> route, shared |-> shared, by |-> b, old |-> FALSE]
<1>1. /\ \/ Reply("negative", c, n, NoData, b) /\ UNCHANGED <<rcLook, rcAssist>>
         \/ /\ FreshAnswer(k) /\ Reply("data", c, n, rcSnaps[k].data, b)
            /\ OnSuccess(k, rcSnaps[k].data, rcSnaps[k].until, TRUE, rcRefreshes) /\ UNCHANGED rcLook
         \/ rcLook' = wait /\ NoReply /\ UNCHANGED rcAssist
      /\ UNCHANGED <<rcNow, rcBuild, rcHickory, rcFile>>
  BY DEF RcBegin
<1>2. RcKept(rcSnaps) /\ RcKept(rcHickory) /\ RcLooks /\ rcNow \in Nat /\ b.window \in Nat /\ RcTtl \in Nat
  BY RcAssumption DEF RcInv
<1>3. RcKept(rcHickory')
  BY <1>1, <1>2
<1> HIDE DEF route, shared, k
<1>4. CASE Reply("negative", c, n, NoData, b) /\ UNCHANGED <<rcLook, rcAssist>>
  <2>1. StaleWithinWindow'
    BY <1>4, ReplyInTime
  <2>2. RcKept(rcSnaps') /\ RcLooks'
    BY <1>1, <1>2, <1>4 DEF RcLooks, rcAssist
  <2>3. QED
    BY <1>1, <1>3, <2>1, <2>2, RcLively
<1>5. CASE /\ FreshAnswer(k) /\ Reply("data", c, n, rcSnaps[k].data, b)
           /\ OnSuccess(k, rcSnaps[k].data, rcSnaps[k].until, TRUE, rcRefreshes) /\ UNCHANGED rcLook
  <2> DEFINE s == rcSnaps[k]
  <2>1. RcAnswer(s.data) /\ Dated(s.data, s.until) /\ s.until >= rcNow
    BY <1>2, <1>5 DEF RcKept, FreshAnswer
  <2>2. RcKept(rcSnaps')
    BY <1>5, <2>1, OnSuccessKeeps
  <2>3. s.data # NoData /\ ~s.data.carried => rcNow <= s.data.born + RcTtl + b.window
    <3> SUFFICES ASSUME s.data # NoData, ~s.data.carried PROVE rcNow <= s.data.born + RcTtl + b.window
      OBVIOUS
    <3>1. s.data.born \in Nat /\ s.until \in Nat /\ s.until <= s.data.born + RcTtl
      BY <2>1 DEF Dated
    <3> HIDE DEF s
    <3>2. QED
      BY <1>2, <2>1, <3>1
  <2>4. StaleWithinWindow'
    BY <1>5, <2>3, ReplyInTime
  <2>5. RcLooks'
    BY <1>1, <1>2, <1>5 DEF RcLooks
  <2>6. QED
    BY <1>1, <1>3, <2>2, <2>4, <2>5, RcLively
<1>6. CASE rcLook' = wait /\ NoReply /\ UNCHANGED rcAssist
  <2>1. StaleWithinWindow'
    BY <1>6 DEF NoReply, StaleWithinWindow, Given
  <2>2. RcKept(rcSnaps')
    BY <1>2, <1>6 DEF rcAssist
  <2>3. DOMAIN wait = {"pc", "client", "name", "route", "shared", "by", "old"} /\ wait.pc = "wait" /\ wait.by = b
    OBVIOUS
  <2>4. RcLooks'
    BY <1>1, <1>2, <1>6, <2>3 DEF RcLooks
  <2>5. QED
    BY <1>1, <1>3, <2>1, <2>2, <2>4, RcLively
<1>7. QED
  BY <1>1, <1>4, <1>5, <1>6

\* An answer delivered to the client that waits, or kept by a lookup nobody waits for.
LEMMA RcAnsweredKeeps == ASSUME RcInv, RcAnswered PROVE RcInv'
<1> DEFINE k == KeyOf(rcLook.name, rcLook.route)
           who == IF rcLook.shared THEN "shared" ELSE rcLook.client
           got == Fetched(rcLook.route, rcLook.name, who)
<1>1. /\ rcLook.pc \in {"wait", "late"} /\ rcLook' = IdleLook /\ Deliver("data", got.data)
      /\ \/ OnSuccess(k, got.data, got.until, TRUE, rcRefreshes) /\ Remember(rcLook.route, rcLook.name, got)
         \/ UNCHANGED <<rcAssist, rcHickory>>
      /\ UNCHANGED <<rcNow, rcBuild, rcFile>>
  BY DEF RcAnswered, rcRest
<1>2. /\ RcAnswer(got.data) /\ Dated(got.data, got.until)
      /\ got.data # NoData /\ ~got.data.carried => rcNow <= got.data.born + RcTtl
  BY FetchedDated
<1>3. rcLook.by.window \in Nat /\ rcNow \in Nat /\ RcTtl \in Nat
  BY <1>1, RcAssumption DEF RcInv, RcLooks, IdleLook
<1> HIDE DEF got, k, who
<1>4. got.data # NoData /\ ~got.data.carried => rcNow <= got.data.born + RcTtl + rcLook.by.window
  <2> SUFFICES ASSUME got.data # NoData, ~got.data.carried PROVE rcNow <= got.data.born + RcTtl + rcLook.by.window
    OBVIOUS
  <2>1. got.data.born \in Nat /\ rcNow <= got.data.born + RcTtl
    BY <1>2 DEF Dated
  <2>2. QED
    BY <1>3, <2>1
<1>5. StaleWithinWindow'
  BY <1>1, <1>4, DeliverInTime
<1>6. RcKept(rcSnaps')
  <2>1. CASE OnSuccess(k, got.data, got.until, TRUE, rcRefreshes)
    BY <1>2, <2>1, OnSuccessKeeps
  <2>2. CASE UNCHANGED <<rcAssist, rcHickory>>
    BY <2>2 DEF RcInv, rcAssist
  <2>3. QED
    BY <1>1, <2>1, <2>2
<1>7. RcKept(rcHickory')
  <2>1. CASE Remember(rcLook.route, rcLook.name, got)
    BY <1>2, <2>1, RememberKeeps
  <2>2. CASE UNCHANGED <<rcAssist, rcHickory>>
    BY <2>2 DEF RcInv
  <2>3. QED
    BY <1>1, <2>1, <2>2
<1>8. RcLooks'
  BY <1>1 DEF RcLooks
<1>9. QED
  BY <1>1, <1>5, <1>6, <1>7, <1>8, RcLively

\* A failure that is recorded leaves the answer of its entry as it was.
LEMMA FailureKeeps == ASSUME RcInv, NEW k, RecordFailure(k) PROVE RcKept(rcSnaps')
<1> DEFINE old == IF k \in DOMAIN rcSnaps THEN rcSnaps[k]
                  ELSE [NoSnapshot EXCEPT !.until = rcNow - 1, !.fetched = rcNow]
           v == [old EXCEPT !.failUntil = rcNow + rcBuild.failTtl]
<1>1. rcSnaps' \in Inserted(rcSnaps, k, v, "fetched")
  BY DEF RecordFailure
<1>2. RcKept(rcSnaps)
  BY DEF RcInv
<1>3. RcAnswer(old.data) /\ Dated(old.data, old.until)
  BY <1>2 DEF RcKept, RcAnswer, Dated, NoSnapshot
<1> HIDE DEF old
<1>4. v.data = old.data /\ v.until = old.until
  OBVIOUS
<1> HIDE DEF v
<1>5. RcAnswer(v.data) /\ Dated(v.data, v.until)
  BY <1>3, <1>4
<1>6. QED
  BY <1>1, <1>2, <1>5, InsertedKept

\* A negative answer, and no answer.
LEMMA RcNegativeKeeps == ASSUME RcInv, RcNegative PROVE RcInv'
<1>1. /\ rcLook.pc # "idle" /\ rcLook' = IdleLook /\ Deliver("negative", NoData)
      /\ UNCHANGED <<rcNow, rcBuild, rcFile, rcHickory>>
      /\ RecordFailure(KeyOf(rcLook.name, rcLook.route)) \/ UNCHANGED rcSnaps
  BY DEF RcNegative, rcRest
<1>2. StaleWithinWindow'
  BY <1>1, DeliverInTime
<1>3. RcKept(rcSnaps')
  BY <1>1, FailureKeeps DEF RcInv
<1>4. RcKept(rcHickory') /\ RcLooks'
  BY <1>1 DEF RcInv, RcLooks
<1>5. QED
  BY <1>1, <1>2, <1>3, <1>4, RcLively

\* No answer: the last good one, within the window.
LEMMA RcUnreachableKeeps == ASSUME RcInv, RcUnreachable PROVE RcInv'
<1> DEFINE k == KeyOf(rcLook.name, rcLook.route)
<1>1. /\ rcLook.pc # "idle" /\ rcLook' = IdleLook /\ UNCHANGED <<rcNow, rcBuild, rcFile, rcAssist, rcHickory>>
      /\ \/ ~rcLook.old /\ StaleAnswer(k) /\ Deliver("stale", rcSnaps[k].data)
         \/ Deliver("fail", NoData)
  BY DEF RcUnreachable, rcRest
<1> HIDE DEF k
<1>2. StaleWithinWindow'
  <2>1. CASE ~rcLook.old /\ StaleAnswer(k) /\ Deliver("stale", rcSnaps[k].data)
    <3>1. rcLook.by = rcBuild
      BY <1>1, <2>1 DEF RcInv, RcLooks, IdleLook
    <3>2. rcSnaps[k].data # NoData /\ ~rcSnaps[k].data.carried => rcNow <= rcSnaps[k].data.born + RcTtl + rcLook.by.window
      BY <2>1, <3>1, StaleDated
    <3>3. QED
      BY <1>1, <2>1, <3>2, DeliverInTime
  <2>2. CASE Deliver("fail", NoData)
    BY <1>1, <2>2, DeliverInTime
  <2>3. QED
    BY <1>1, <2>1, <2>2
<1>3. RcKept(rcSnaps') /\ RcKept(rcHickory') /\ RcLooks'
  BY <1>1 DEF RcInv, RcLooks, rcAssist
<1>4. QED
  BY <1>1, <1>2, <1>3, RcLively

\* The client's timeout: the resolver it asks is the one in force.
LEMMA RcTimeoutKeeps == ASSUME RcInv, RcClientTimeout PROVE RcInv'
<1> DEFINE k == KeyOf(rcLook.name, RouteOf(rcLook.by, rcLook.name, PolicyFor(rcLook.by, rcLook.client)))
<1>1. /\ rcLook.pc = "wait" /\ ~rcLook.old /\ rcLook' = [rcLook EXCEPT !.pc = "late"]
      /\ UNCHANGED <<rcNow, rcBuild, rcFile, rcAssist, rcHickory>>
      /\ \/ StaleAnswer(k) /\ Deliver("stale", rcSnaps[k].data)
         \/ Deliver("fail", NoData)
  BY DEF RcClientTimeout, rcRest
<1> HIDE DEF k
<1>2. /\ DOMAIN rcLook = {"pc", "client", "name", "route", "shared", "by", "old"}
      /\ rcLook.by.window \in Nat /\ rcLook.by = rcBuild
  BY <1>1 DEF RcInv, RcLooks, IdleLook
<1>3. StaleWithinWindow'
  <2>1. CASE StaleAnswer(k) /\ Deliver("stale", rcSnaps[k].data)
    <3>1. rcSnaps[k].data # NoData /\ ~rcSnaps[k].data.carried => rcNow <= rcSnaps[k].data.born + RcTtl + rcLook.by.window
      BY <1>2, <2>1, StaleDated
    <3>2. QED
      BY <1>1, <2>1, <3>1, DeliverInTime
  <2>2. CASE Deliver("fail", NoData)
    BY <1>1, <2>2, DeliverInTime
  <2>3. QED
    BY <1>1, <2>1, <2>2
<1>4. RcKept(rcSnaps') /\ RcKept(rcHickory')
  BY <1>1 DEF RcInv, rcAssist
<1>5. DOMAIN rcLook' = DOMAIN rcLook /\ rcLook'.pc = "late" /\ rcLook'.by = rcLook.by
  BY <1>1, <1>2
<1>6. RcLooks'
  BY <1>1, <1>2, <1>5 DEF RcLooks
<1>7. QED
  BY <1>1, <1>3, <1>4, <1>6, RcLively

\* A prefetch keeps a new answer as everyone's.
LEMMA RcRefreshKeeps == ASSUME RcInv, NEW k, NEW ok, RcRefresh(k, ok) PROVE RcInv'
<1> DEFINE route == RouteOf(rcBuild, k[1], PolicyForScope(rcBuild, k[2]))
           had == Fetched(route, k[1], "refresh")
           got == [had EXCEPT !.data.owner = "shared"]
<1>1. /\ UNCHANGED <<rcNow, rcBuild, rcLook, rcFile>> /\ NoReply
      /\ \/ OnSuccess(k, got.data, got.until, FALSE, rcRefreshes \ {k}) /\ Remember(route, k[1], got)
         \/ UNCHANGED <<rcSnaps, rcHickory>>
  BY DEF RcRefresh, rcRest
<1>2. had = [data |-> [from |-> route.up, owner |-> "refresh", born |-> rcNow, carried |-> FALSE], until |-> rcNow + RcTtl]
  BY DEF Fetched
<1>3. RcAnswer(had.data) /\ Dated(had.data, had.until)
  BY FetchedDated
<1> HIDE DEF had, route
<1>4. got.data = [had.data EXCEPT !.owner = "shared"] /\ got.until = had.until
  BY <1>2
<1>5. DOMAIN got.data = DOMAIN had.data /\ got.data.born = had.data.born /\ got.data.carried = had.data.carried
  BY <1>2, <1>4
<1>6. had.data # NoData /\ DOMAIN had.data = {"from", "owner", "born", "carried"}
  BY <1>2 DEF NoData
<1> HIDE DEF got
<1>7. RcAnswer(got.data) /\ Dated(got.data, got.until)
  BY <1>3, <1>4, <1>5, <1>6 DEF RcAnswer, Dated
<1>8. RcKept(rcSnaps')
  <2>1. CASE OnSuccess(k, got.data, got.until, FALSE, rcRefreshes \ {k})
    BY <1>7, <2>1, OnSuccessKeeps
  <2>2. CASE UNCHANGED <<rcSnaps, rcHickory>>
    BY <2>2 DEF RcInv
  <2>3. QED
    BY <1>1, <2>1, <2>2
<1>9. RcKept(rcHickory')
  <2>1. CASE Remember(route, k[1], got)
    BY <1>7, <2>1, RememberKeeps
  <2>2. CASE UNCHANGED <<rcSnaps, rcHickory>>
    BY <2>2 DEF RcInv
  <2>3. QED
    BY <1>1, <2>1, <2>2
<1>10. rcNow' \in Nat /\ UNCHANGED rcBuild /\ rcLook' = rcLook /\ \A j \in DOMAIN rcFile' : RcAnswer(rcFile'[j].data)
  BY <1>1 DEF RcInv
<1>11. QED
  BY <1>1, <1>8, <1>9, <1>10, RcQuiet

\* Removing entries, and the clock.
LEMMA RcClearKeeps == ASSUME RcInv, RcClear PROVE RcInv'
<1>1. rcSnaps' = <<>> /\ rcHickory' = <<>> /\ NoReply /\ UNCHANGED <<rcNow, rcBuild, rcLook, rcFile>>
  BY DEF RcClear, rcRest
<1>2. RcKept(rcSnaps') /\ RcKept(rcHickory')
  BY <1>1 DEF RcKept
<1>3. rcNow' \in Nat /\ \A j \in DOMAIN rcFile' : RcAnswer(rcFile'[j].data)
  BY <1>1 DEF RcInv
<1>4. QED
  BY <1>1, <1>2, <1>3, RcQuiet

\* One name is flushed.
LEMMA RcFlushKeeps == ASSUME RcInv, NEW n, RcFlush(n) PROVE RcInv'
<1> DEFINE away == {s \in DOMAIN rcHickory : s[2] = n /\ s[1] # "root"}
           gone == {k \in DOMAIN rcSnaps : k[1] = n}
<1>1. /\ rcSnaps' = Without(rcSnaps, gone) /\ rcHickory' = Without(rcHickory, away)
      /\ NoReply /\ UNCHANGED <<rcNow, rcBuild, rcLook, rcFile>>
  BY DEF RcFlush, rcRest
<1> HIDE DEF away, gone
<1>2. RcKept(rcSnaps') /\ RcKept(rcHickory')
  BY <1>1 DEF RcInv, RcKept, Without
<1>3. rcNow' \in Nat /\ \A j \in DOMAIN rcFile' : RcAnswer(rcFile'[j].data)
  BY <1>1 DEF RcInv
<1>4. QED
  BY <1>1, <1>2, <1>3, RcQuiet

\* Time passes.
LEMMA RcTickKeeps == ASSUME RcInv, RcTick PROVE RcInv'
<1>1. rcNow' = rcNow + 1 /\ NoReply /\ UNCHANGED <<rcSnaps, rcHickory, rcBuild, rcLook, rcFile>>
  BY DEF RcTick, rcRest, rcAssist
<1>2. RcKept(rcSnaps') /\ RcKept(rcHickory') /\ rcNow' \in Nat /\ \A j \in DOMAIN rcFile' : RcAnswer(rcFile'[j].data)
  BY <1>1 DEF RcInv, RcKept
<1>3. QED
  BY <1>1, <1>2, RcQuiet

\* What the file holds after a save, and what a new resolver takes from it.
LEMMA PersistAnswers == ASSUME RcInv PROVE \A k \in DOMAIN Persist : RcAnswer(Persist[k].data)
<1>1. \A k \in DOMAIN Export : Export[k].data = rcSnaps[k].data /\ k \in DOMAIN rcSnaps
  BY DEF Export
<1>2. \A k \in DOMAIN Export : RcAnswer(Export[k].data)
  BY <1>1 DEF RcInv, RcKept
<1>3. QED
  BY <1>2 DEF Persist, RcInv

\* Every answer taken from a file is marked as carried.
LEMMA ImportKept ==
  ASSUME NEW b, NEW saved, \A k \in DOMAIN saved : RcAnswer(saved[k].data)
  PROVE  RcKept(Import(b, saved))
<1> DEFINE imp == Import(b, saved)
<1>1. ASSUME NEW k \in DOMAIN imp PROVE RcAnswer(imp[k].data) /\ Dated(imp[k].data, imp[k].until)
  <2> DEFINE d == saved[k].data
             carried == [d EXCEPT !.carried = TRUE]
  <2>1. k \in DOMAIN saved /\ imp[k].data = IF d = NoData THEN NoData ELSE carried
    BY <1>1 DEF Import
  <2>2. RcAnswer(d)
    BY <2>1
  <2> HIDE DEF imp, d
  <2>3. CASE d = NoData
    BY <2>1, <2>3 DEF RcAnswer, Dated
  <2>4. CASE d # NoData
    <3>1. DOMAIN d = {"from", "owner", "born", "carried"}
      BY <2>2, <2>4 DEF RcAnswer
    <3>2. DOMAIN carried = DOMAIN d /\ carried.carried
      BY <3>1
    <3>3. imp[k].data = carried
      BY <2>1, <2>4
    <3> HIDE DEF carried
    <3>4. QED
      BY <3>1, <3>2, <3>3 DEF RcAnswer, Dated
  <2>5. QED
    BY <2>3, <2>4
<1>2. QED
  BY <1>1 DEF RcKept

\* A resolver built from settings has their window and their limit on lifetimes.
LEMMA BuildHas ==
  ASSUME NEW b \in RcBuilds \cup {RcFirst}
  PROVE  BuildPolicies(b).window \in Nat /\ BuildPolicies(b).maxTtl \in Nat
<1>1. {"policies", "window", "maxTtl"} \subseteq DOMAIN b /\ b.window \in Nat /\ b.maxTtl \in Nat
  BY RcAssumption
<1> DEFINE kept == SelectSeq(b.policies, LAMBDA p : p.enabled)
<1>2. BuildPolicies(b) = [b EXCEPT !.policies = kept]
  BY DEF BuildPolicies
<1> HIDE DEF kept
<1>3. QED
  BY <1>1, <1>2

\* A new resolver, whatever it starts with.
LEMMA BuiltKeeps ==
  ASSUME RcInv, NEW b \in RcBuilds, NEW snaps, Built(b, snaps), RcKept(snaps), NoReply, UNCHANGED rcNow,
         \A k \in DOMAIN rcFile' : RcAnswer(rcFile'[k].data), Replaced \/ rcLook' = IdleLook
  PROVE  RcInv'
<1>1. rcBuild' = BuildPolicies(b) /\ rcSnaps' = snaps /\ rcHickory' = <<>>
  BY DEF Built
<1>2. rcBuild'.window \in Nat /\ rcBuild'.maxTtl \in Nat
  BY <1>1, BuildHas
<1>3. RcKept(rcSnaps') /\ RcKept(rcHickory')
  BY <1>1 DEF RcKept
<1>4. StaleWithinWindow'
  BY DEF NoReply, StaleWithinWindow, Given
<1>5. RcLooks'
  <2>1. CASE rcLook' = IdleLook
    BY <2>1 DEF RcLooks
  <2>2. CASE Replaced /\ rcLook = IdleLook
    BY <2>2 DEF RcLooks, Replaced, IdleLook
  <2>3. CASE Replaced /\ rcLook # IdleLook
    <3>1. /\ DOMAIN rcLook = {"pc", "client", "name", "route", "shared", "by", "old"}
          /\ rcLook.pc # "idle" /\ rcLook.by.window \in Nat
      BY <2>3 DEF RcInv, RcLooks
    <3>2. rcLook' = [rcLook EXCEPT !.old = TRUE]
      BY <2>3, <3>1 DEF Replaced
    <3>3. DOMAIN rcLook' = DOMAIN rcLook /\ rcLook'.pc = rcLook.pc /\ rcLook'.by = rcLook.by /\ rcLook'.old
      BY <3>1, <3>2
    <3>4. QED
      BY <3>1, <3>3 DEF RcLooks
  <2>4. QED
    BY <2>1, <2>2, <2>3
<1>6. rcNow' \in Nat
  BY DEF RcInv
<1>7. QED
  BY <1>2, <1>3, <1>4, <1>5, <1>6 DEF RcInv

\* A reload, a save of the settings and a restart.
LEMMA RcRebuildKeeps ==
  ASSUME RcInv, NEW b \in RcBuilds, NEW cl, NEW rd, RcReload(b) \/ RcSwap(b) \/ RcRestart(b, cl, rd)
  PROVE  RcInv'
<1>1. \A k \in DOMAIN Persist : RcAnswer(Persist[k].data)
  BY PersistAnswers
<1>2. \A k \in DOMAIN rcFile : RcAnswer(rcFile[k].data)
  BY DEF RcInv
<1>3. RcKept(<<>>)
  BY DEF RcKept
<1>4. CASE RcReload(b)
  <2>1. Built(b, Import(b, Persist)) /\ rcFile' = Persist /\ Replaced /\ NoReply /\ UNCHANGED rcNow
    BY <1>4 DEF RcReload
  <2>2. RcKept(Import(b, Persist))
    BY <1>1, ImportKept
  <2>3. \A k \in DOMAIN rcFile' : RcAnswer(rcFile'[k].data)
    BY <1>1, <2>1
  <2>4. QED
    BY <2>1, <2>2, <2>3, BuiltKeeps
<1>5. CASE RcSwap(b)
  <2>1. Built(b, <<>>) /\ Replaced /\ NoReply /\ UNCHANGED <<rcNow, rcFile>>
    BY <1>5 DEF RcSwap
  <2>2. \A k \in DOMAIN rcFile' : RcAnswer(rcFile'[k].data)
    BY <1>2, <2>1
  <2>3. QED
    BY <1>3, <2>1, <2>2, BuiltKeeps
<1>6. CASE RcRestart(b, cl, rd)
  <2> DEFINE saved == IF cl THEN Persist ELSE rcFile
             snaps == IF rd THEN Import(b, saved) ELSE <<>>
  <2>1. Built(b, snaps) /\ rcFile' = saved /\ rcLook' = IdleLook /\ NoReply /\ UNCHANGED rcNow
    BY <1>6 DEF RcRestart
  <2>2. \A k \in DOMAIN saved : RcAnswer(saved[k].data)
    BY <1>1, <1>2
  <2> HIDE DEF saved
  <2>3. RcKept(Import(b, saved))
    BY <2>2, ImportKept
  <2>4. RcKept(snaps)
    BY <1>3, <2>3
  <2>5. \A k \in DOMAIN rcFile' : RcAnswer(rcFile'[k].data)
    BY <2>1, <2>2
  <2> HIDE DEF snaps
  <2>6. QED
    BY <2>1, <2>4, <2>5, BuiltKeeps
<1>7. QED
  BY <1>4, <1>5, <1>6

\* Every step keeps the dates of the answers.
LEMMA RcStep == ASSUME RcInv, [RcNext]_rcVars PROVE RcInv'
<1>1. CASE UNCHANGED rcVars
  BY <1>1 DEF rcVars, rcAssist, RcInv, RcKept, RcLooks, StaleWithinWindow, Given
<1>2. CASE RcNext
  <2>1. ASSUME NEW c \in RcClients, NEW n \in RcNames, NEW s \in BOOLEAN, RcBegin(c, n, s) PROVE RcInv'
    BY <2>1, RcBeginKeeps
  <2>2. CASE RcAnswered
    BY <2>2, RcAnsweredKeeps
  <2>3. CASE RcNegative
    BY <2>3, RcNegativeKeeps
  <2>4. CASE RcUnreachable
    BY <2>4, RcUnreachableKeeps
  <2>5. CASE RcClientTimeout
    BY <2>5, RcTimeoutKeeps
  <2>6. ASSUME NEW k \in rcRefreshes, NEW ok \in BOOLEAN, RcRefresh(k, ok) PROVE RcInv'
    BY <2>6, RcRefreshKeeps
  <2>7. CASE RcClear
    BY <2>7, RcClearKeeps
  <2>8. ASSUME NEW n \in RcNames, RcFlush(n) PROVE RcInv'
    BY <2>8, RcFlushKeeps
  <2>9. ASSUME NEW b \in RcBuilds, NEW cl \in BOOLEAN, NEW rd \in BOOLEAN, RcReload(b) \/ RcSwap(b) \/ RcRestart(b, cl, rd)
        PROVE  RcInv'
    BY <2>9, RcRebuildKeeps
  <2>10. CASE RcTick
    BY <2>10, RcTickKeeps
  <2>11. QED
    BY <1>2, <2>1, <2>2, <2>3, <2>4, <2>5, <2>6, <2>7, <2>8, <2>9, <2>10 DEF RcNext
<1>3. QED
  BY <1>1, <1>2

\* The caches start empty.
LEMMA RcStart == ASSUME RcInit PROVE RcInv
<1>1. rcBuild.window \in Nat /\ rcBuild.maxTtl \in Nat
  BY BuildHas DEF RcInit
<1>2. RcKept(rcSnaps) /\ RcKept(rcHickory) /\ \A k \in DOMAIN rcFile : RcAnswer(rcFile[k].data)
  BY DEF RcInit, RcKept
<1>3. StaleWithinWindow
  BY DEF RcInit, StaleWithinWindow, Given
<1>4. rcNow \in Nat /\ RcLooks
  BY DEF RcInit, RcLooks
<1>5. QED
  BY <1>1, <1>2, <1>3, <1>4 DEF RcInv

\* Serve-stale and the snapshots of the cache assistant: whatever lookups,
\* prefetches, client timeouts, flushes, reloads and restarts come between, an
\* answer that no snapshot file has carried reaches nobody once its lifetime
\* and the serve-stale window of the resolver asked are over.
THEOREM StaleWithinWindowCorrect == RcSpec => []StaleWithinWindow
<1>1. RcInit => RcInv
  BY RcStart
<1>2. RcInv /\ [RcNext]_rcVars => RcInv'
  BY RcStep
<1>3. RcInv => StaleWithinWindow
  BY DEF RcInv
<1>4. QED
  BY <1>1, <1>2, <1>3, PTL DEF RcSpec
----------------------------------------------------------------------------
(* The scope of an answer *)

\* A set of naturals has a least element (the well-foundedness of <).
LEMMA LeastNumber ==
  ASSUME NEW S, S \subseteq Nat, S # {}
  PROVE  \E n \in S : \A m \in S : n <= m
<1> DEFINE R == {ss \in Nat \X Nat : ss[1] < ss[2]}
<1>1. IsWellFoundedOn(R, Nat)
  BY NatLessThanWellFounded DEF OpToRel
<1>2. PICK x \in S : \A y \in S : <<y, x>> \notin R
  <2> HIDE DEF R
  <2>1. QED
    BY <1>1, WFMin
<1>3. \A y \in S : <<y, x>> \in Nat \X Nat
  OBVIOUS
<1>4. \A y \in S : ~(y < x)
  BY <1>2, <1>3
<1>5. QED
  BY <1>4

\* What is kept under a key is everyone's, from the resolver that key stands for.
OfKey(d, k, b) == d # NoData => d.from = UpOf(b, k[1], k[2]) /\ d.owner = "shared"

\* A lookup goes where the resolver it was made by sends its client.
LooksAlong ==
  rcLook # IdleLook =>
    /\ rcLook.by \in Builds /\ RcAllowsClient(rcLook.by, rcLook.client)
    /\ rcLook.route = RouteOf(rcLook.by, rcLook.name, PolicyFor(rcLook.by, rcLook.client))

ScSnaps(f, b) == \A k \in DOMAIN f : OfKey(f[k].data, k, b)
ScHickory(f) == \A s \in DOMAIN f : f[s].data.from = s[1] /\ f[s].data.owner = "shared"
ScFile(f) == \A b \in Builds : b.persist => ScSnaps(f, b)

ScInv ==
  /\ rcBuild \in Builds
  /\ ScSnaps(rcSnaps, rcBuild)
  /\ ScHickory(rcHickory)
  /\ ScFile(rcFile)
  /\ LooksAlong
  /\ AnswersStayInScope

\* The policy found is one of the list, if there is one that fits.
LEMMA FirstThatFits ==
  ASSUME NEW b, Len(b.policies) \in Nat, NEW c
  PROVE  /\ PolicyFor(b, c) \in 0 .. Len(b.policies)
         /\ LET j == PolicyForScope(b, ScopeRecursor) IN
            \A i \in 1 .. Len(b.policies) : b.policies[i].backend = "recursive" =>
              j \in 1 .. Len(b.policies) /\ b.policies[j].backend = "recursive"
<1> DEFINE I == {i \in 1 .. Len(b.policies) : c \in b.policies[i].clients}
           J == {i \in 1 .. Len(b.policies) : b.policies[i].backend = "recursive"}
<1>1. PolicyFor(b, c) = IF I # {} THEN Min(I) ELSE 0
  BY DEF PolicyFor, SelectInSeq
<1>2. PolicyForScope(b, ScopeRecursor) = IF J # {} THEN Min(J) ELSE 0
  BY DEF PolicyForScope, SelectInSeq, ScopeRecursor, ScopeDefault
<1>3. I # {} => Min(I) \in I
  <2>1. I \subseteq Nat
    OBVIOUS
  <2> HIDE DEF I
  <2>2. QED
    BY <2>1, LeastNumber DEF Min
<1>4. J # {} => Min(J) \in J
  <2>1. J \subseteq Nat
    OBVIOUS
  <2> HIDE DEF J
  <2>2. QED
    BY <2>1, LeastNumber DEF Min
<1>5. PolicyFor(b, c) \in 0 .. Len(b.policies)
  BY <1>1, <1>3
<1>6. ASSUME NEW i \in 1 .. Len(b.policies), b.policies[i].backend = "recursive"
      PROVE  PolicyForScope(b, ScopeRecursor) \in J
  BY <1>2, <1>4, <1>6
<1>7. QED
  BY <1>5, <1>6

\* The scope a client's key carries stands for the resolver the client is sent to.
LEMMA RouteUp ==
  ASSUME RoutesKept, NEW b \in Builds, NEW n, NEW c, RcAllowsClient(b, c)
  PROVE  RouteOf(b, n, PolicyFor(b, c)).up = UpOf(b, n, RouteOf(b, n, PolicyFor(b, c)).scope)
<1> DEFINE i == PolicyFor(b, c)
           r == RouteOf(b, n, i)
           z == (CHOOSE y \in ZoneResolver(b, n) : TRUE).up
           zoned == ZoneResolver(b, n) # {}
           rec == b.mode = "recursive"
           out == n \in b.noTld
<1>1. /\ i \in 0 .. Len(b.policies) /\ Len(b.policies) \in Nat
      /\ i # 0 => b.policies[i].backend \in {"forward", "recursive"}
  <2>1. Len(b.policies) \in Nat
    BY DEF RoutesKept
  <2>2. i \in 0 .. Len(b.policies)
    BY <2>1, FirstThatFits
  <2>3. i # 0 => b.policies[i].backend \in {"forward", "recursive", "refuse"}
    BY <2>1, <2>2 DEF RoutesKept
  <2>4. QED
    BY <2>1, <2>2, <2>3 DEF RcAllowsClient
<1>2. RouteOf(b, n, 0).up = IF zoned THEN z ELSE IF rec THEN "root" ELSE IF out THEN "none" ELSE b.up
  BY DEF RouteOf, To
<1>3. \A s : UpOf(b, n, s) = RouteOf(b, n, PolicyForScope(b, s)).up
  BY DEF UpOf
<1>4. PolicyForScope(b, ScopeDefault) = 0
  BY DEF PolicyForScope
<1>5. CASE zoned
  <2>1. r.up = z /\ r.scope = ScopeDefault
    BY <1>5 DEF RouteOf, To
  <2> HIDE DEF r, z, zoned
  <2>2. QED
    BY <1>2, <1>3, <1>4, <1>5, <2>1 DEF r
<1>6. CASE ~zoned /\ i = 0
  <2>1. r.scope = ScopeDefault /\ r.up = RouteOf(b, n, 0).up
    BY <1>6 DEF RouteOf, To
  <2> HIDE DEF r, zoned
  <2>2. QED
    BY <1>3, <1>4, <2>1 DEF r
<1>7. CASE ~zoned /\ i # 0 /\ b.policies[i].backend = "forward" /\ out
  <2>1. r.up = "none" /\ r.scope = ScopeDefault
    BY <1>7 DEF RouteOf, To
  <2>2. ~rec
    BY <1>1, <1>7 DEF RoutesKept
  <2> HIDE DEF r, zoned, rec, out
  <2>3. QED
    BY <1>2, <1>3, <1>4, <1>7, <2>1, <2>2 DEF r
<1>8. CASE ~zoned /\ i # 0 /\ b.policies[i].backend = "forward" /\ ~out
  <2>1. r.scope = ScopePolicy + i - 1
    BY <1>8 DEF RouteOf, To
  <2>2. PolicyForScope(b, r.scope) = i
    BY <1>1, <1>8, <2>1 DEF PolicyForScope, ScopePolicy, ScopeRecursor, ScopeDefault
  <2> HIDE DEF r, zoned, out
  <2>3. QED
    BY <1>3, <2>2 DEF r
<1>9. CASE ~zoned /\ i # 0 /\ b.policies[i].backend = "recursive" /\ rec
  <2>1. r.up = "root" /\ r.scope = ScopeDefault
    BY <1>9 DEF RouteOf, To
  <2> HIDE DEF r, zoned, rec
  <2>2. QED
    BY <1>2, <1>3, <1>4, <1>9, <2>1 DEF r
<1>10. CASE ~zoned /\ i # 0 /\ b.policies[i].backend = "recursive" /\ ~rec
  <2> DEFINE j == PolicyForScope(b, ScopeRecursor)
  <2>1. r.up = "root" /\ r.scope = ScopeRecursor
    BY <1>10 DEF RouteOf, To
  <2>2. j \in 1 .. Len(b.policies) /\ b.policies[j].backend = "recursive"
    BY <1>1, <1>10, FirstThatFits
  <2> HIDE DEF j
  <2>3. RouteOf(b, n, j).up = "root"
    BY <1>1, <1>10, <2>2 DEF RouteOf, To
  <2> HIDE DEF r, zoned, rec
  <2>4. QED
    BY <1>3, <2>1, <2>3 DEF r, j
<1>11. QED
  BY <1>1, <1>5, <1>6, <1>7, <1>8, <1>9, <1>10

\* Resolvers that keep a snapshot file mean the same by a key.
LEMMA UpSame ==
  ASSUME RoutesKept, NEW b \in Builds, NEW d \in Builds, b.persist, d.persist, NEW n, NEW s
  PROVE  UpOf(b, n, s) = UpOf(d, n, s)
<1>1. /\ b.mode = d.mode /\ b.up = d.up /\ b.policies = d.policies
      /\ b.conditional = d.conditional /\ b.stubs = d.stubs /\ b.noTld = d.noTld
  BY DEF RoutesKept
<1>2. ZoneResolver(b, n) = ZoneResolver(d, n)
  BY <1>1 DEF ZoneResolver
<1>3. PolicyForScope(b, s) = PolicyForScope(d, s)
  BY <1>1 DEF PolicyForScope, SelectInSeq
<1>4. \A i : RouteOf(b, n, i) = RouteOf(d, n, i)
  BY <1>1, <1>2 DEF RouteOf
<1>5. QED
  BY <1>3, <1>4 DEF UpOf

\* A table that takes in what belongs under a key still holds nothing else.
LEMMA InsertedScoped ==
  ASSUME NEW f, NEW k, NEW v, NEW rank, NEW g \in Inserted(f, k, v, rank), NEW b,
         ScSnaps(f, b), OfKey(v.data, k, b)
  PROVE  ScSnaps(g, b)
<1>1. \A j \in DOMAIN g : (j = k /\ g[j] = v) \/ (j \in DOMAIN f /\ g[j] = f[j])
  <2> DEFINE put(keep) == [j \in keep \cup {k} |-> IF j = k THEN v ELSE f[j]]
  <2>1. \E keep \in SUBSET (DOMAIN f) : g = put(keep)
    BY DEF Inserted
  <2>2. PICK keep \in SUBSET (DOMAIN f) : g = put(keep)
    BY <2>1
  <2>3. QED
    BY <2>2
<1>2. QED
  BY <1>1 DEF ScSnaps

\* on_success keeps an answer under the key it was looked up for.
LEMMA OnSuccessScoped ==
  ASSUME ScSnaps(rcSnaps, rcBuild), NEW k, NEW d, NEW until, NEW spawn, NEW tasks,
         OfKey(d, k, rcBuild), OnSuccess(k, d, until, spawn, tasks)
  PROVE  ScSnaps(rcSnaps', rcBuild)
<1> DEFINE v == [NoSnapshot EXCEPT !.data = d, !.until = Deadline(rcBuild, until), !.fetched = rcNow]
<1>1. rcSnaps' \in Inserted(rcSnaps, k, v, "fetched")
  BY DEF OnSuccess
<1>2. v.data = d
  BY DEF NoSnapshot
<1> HIDE DEF v
<1>3. QED
  BY <1>1, <1>2, InsertedScoped

\* A failure that is recorded leaves the answer of its entry.
LEMMA FailureScoped ==
  ASSUME ScSnaps(rcSnaps, rcBuild), NEW k, RecordFailure(k)
  PROVE  ScSnaps(rcSnaps', rcBuild)
<1> DEFINE old == IF k \in DOMAIN rcSnaps THEN rcSnaps[k]
                  ELSE [NoSnapshot EXCEPT !.until = rcNow - 1, !.fetched = rcNow]
           v == [old EXCEPT !.failUntil = rcNow + rcBuild.failTtl]
<1>1. rcSnaps' \in Inserted(rcSnaps, k, v, "fetched")
  BY DEF RecordFailure
<1>2. OfKey(old.data, k, rcBuild)
  BY DEF ScSnaps, OfKey, NoSnapshot
<1> HIDE DEF old
<1>3. v.data = old.data
  OBVIOUS
<1> HIDE DEF v
<1>4. QED
  BY <1>1, <1>2, <1>3, InsertedScoped

\* What a lookup finds is of the resolver it asks, and its asker's or everyone's.
LEMMA FetchedFrom ==
  ASSUME ScHickory(rcHickory), NEW route, NEW n, NEW owner
  PROVE  LET got == Fetched(route, n, owner) IN
         got.data.from = route.up /\ got.data.owner \in {"shared", owner}
<1> DEFINE slot == <<route.up, n>>
           cached == owner = "shared" /\ slot \in DOMAIN rcHickory /\ rcHickory[slot].until > rcNow
           fresh == [data |-> [from |-> route.up, owner |-> owner, born |-> rcNow, carried |-> FALSE],
                     until |-> rcNow + RcTtl]
<1>1. Fetched(route, n, owner) = (IF cached THEN rcHickory[slot] ELSE fresh)
  BY DEF Fetched
<1>2. fresh.data.from = route.up /\ fresh.data.owner = owner
  OBVIOUS
<1>3. cached => rcHickory[slot].data.from = route.up /\ rcHickory[slot].data.owner = "shared"
  BY DEF ScHickory
<1> HIDE DEF fresh, cached, slot
<1>4. QED
  BY <1>1, <1>2, <1>3

\* Hickory keeps it as what was found.
LEMMA RememberScoped ==
  ASSUME ScHickory(rcHickory), NEW route, NEW n, NEW got, Remember(route, n, got),
         got.data.from = route.up, got.data.owner = "shared"
  PROVE  ScHickory(rcHickory')
<1> DEFINE slot == <<route.up, n>>
<1>1. /\ DOMAIN rcHickory' = DOMAIN rcHickory \cup {slot}
      /\ \A s \in DOMAIN rcHickory' : rcHickory'[s] = IF s = slot THEN got ELSE rcHickory[s]
  BY DEF Remember
<1>2. slot[1] = route.up
  OBVIOUS
<1> HIDE DEF slot
<1>3. QED
  BY <1>1, <1>2 DEF ScHickory

\* A reply over the client's own route.
LEMMA ReplyAlong ==
  ASSUME NEW kind, NEW c, NEW n, NEW d, NEW b, Reply(kind, c, n, d, b),
         kind \in {"data", "stale"} /\ d # NoData =>
           d.from = RouteOf(b, n, PolicyFor(b, c)).up /\ d.owner \in {"shared", c}
  PROVE  AnswersStayInScope'
BY DEF Reply, AnswersStayInScope, Given

\* No reply, none that is out of scope.
LEMMA NoReplyAlong == ASSUME NoReply PROVE AnswersStayInScope'
BY DEF NoReply, AnswersStayInScope, Given

\* A delivery to the client that waits.
LEMMA DeliverAlong ==
  ASSUME LooksAlong, rcLook # IdleLook, NEW kind, NEW d, Deliver(kind, d),
         kind \in {"data", "stale"} /\ d # NoData => d.from = rcLook.route.up /\ d.owner \in {"shared", rcLook.client}
  PROVE  AnswersStayInScope'
<1>1. CASE rcLook.pc = "wait"
  BY <1>1, ReplyAlong DEF Deliver, LooksAlong
<1>2. CASE rcLook.pc # "wait"
  BY <1>2, NoReplyAlong DEF Deliver
<1>3. QED
  BY <1>1, <1>2

\* A step of a resolver that stays.
LEMMA ScLively ==
  ASSUME ScInv, AnswersStayInScope', UNCHANGED <<rcBuild, rcFile>>, ScSnaps(rcSnaps', rcBuild), ScHickory(rcHickory'), LooksAlong'
  PROVE  ScInv'
BY DEF ScInv

\* The lookup that ends or goes on as it was.
LEMMA LookOn == ASSUME LooksAlong, rcLook' = rcLook \/ rcLook' = IdleLook PROVE LooksAlong'
BY DEF LooksAlong

\* What is kept under the key of a lookup was found along its route.
LEMMA KeyAlong ==
  ASSUME RoutesKept, NEW b \in Builds, NEW n, NEW c, RcAllowsClient(b, c), NEW d
  PROVE  LET route == RouteOf(b, n, PolicyFor(b, c)) IN
         OfKey(d, KeyOf(n, route), b) <=> (d # NoData => d.from = route.up /\ d.owner = "shared")
<1> DEFINE route == RouteOf(b, n, PolicyFor(b, c))
<1>1. route.up = UpOf(b, n, route.scope)
  BY RouteUp
<1>2. KeyOf(n, route)[1] = n /\ KeyOf(n, route)[2] = route.scope
  BY DEF KeyOf
<1> HIDE DEF route
<1>3. OfKey(d, KeyOf(n, route), b) <=> (d # NoData => d.from = route.up /\ d.owner = "shared")
  BY <1>1, <1>2 DEF OfKey
<1>4. QED
  BY <1>3 DEF route

\* Beginning a lookup.
LEMMA ScBegin == ASSUME RoutesKept, ScInv, NEW c, NEW n, NEW subnet, RcBegin(c, n, subnet) PROVE ScInv'
<1> DEFINE b == rcBuild
           route == RouteOf(b, n, PolicyFor(b, c))
           shared == ~(subnet /\ route.kind = "forward")
           k == KeyOf(n, route)
           wait == [pc |-> "wait", client |-> c, name |-> n, route |-> route, shared |-> shared, by |-> b, old |-> FALSE]
<1>1. /\ \/ Reply("negative", c, n, NoData, b) /\ UNCHANGED <<rcLook, rcAssist>>
         \/ /\ FreshAnswer(k) /\ Reply("data", c, n, rcSnaps[k].data, b)
            /\ OnSuccess(k, rcSnaps[k].data, rcSnaps[k].until, TRUE, rcRefreshes) /\ UNCHANGED rcLook
         \/ rcLook' = wait /\ NoReply /\ UNCHANGED rcAssist
      /\ UNCHANGED <<rcBuild, rcHickory, rcFile>> /\ RcAllowsClient(b, c)
  BY DEF RcBegin
<1>2. b \in Builds /\ ScSnaps(rcSnaps, b) /\ ScHickory(rcHickory) /\ LooksAlong
  BY DEF ScInv
<1>3. ScHickory(rcHickory')
  BY <1>1, <1>2
<1>4. CASE Reply("negative", c, n, NoData, b) /\ UNCHANGED <<rcLook, rcAssist>>
  <2>1. AnswersStayInScope'
    BY <1>4, ReplyAlong
  <2>2. ScSnaps(rcSnaps', b) /\ LooksAlong'
    BY <1>2, <1>4, LookOn DEF rcAssist
  <2>3. QED
    BY <1>1, <1>3, <2>1, <2>2, ScLively
<1>5. CASE /\ FreshAnswer(k) /\ Reply("data", c, n, rcSnaps[k].data, b)
           /\ OnSuccess(k, rcSnaps[k].data, rcSnaps[k].until, TRUE, rcRefreshes) /\ UNCHANGED rcLook
  <2> DEFINE d == rcSnaps[k].data
  <2>1. OfKey(d, k, b)
    BY <1>2, <1>5 DEF ScSnaps, FreshAnswer
  <2>2. d # NoData => d.from = route.up /\ d.owner = "shared"
    BY <1>1, <1>2, <2>1, KeyAlong
  <2> HIDE DEF k
  <2>3. ScSnaps(rcSnaps', b)
    BY <1>2, <1>5, <2>1, OnSuccessScoped
  <2> HIDE DEF d
  <2>4. AnswersStayInScope'
    BY <1>5, <2>2, ReplyAlong DEF d
  <2>5. LooksAlong'
    BY <1>2, <1>5, LookOn
  <2>6. QED
    BY <1>1, <1>3, <2>3, <2>4, <2>5, ScLively
<1>6. CASE rcLook' = wait /\ NoReply /\ UNCHANGED rcAssist
  <2>1. AnswersStayInScope'
    BY <1>6, NoReplyAlong
  <2>2. ScSnaps(rcSnaps', b)
    BY <1>2, <1>6 DEF rcAssist
  <2>3. wait.by = b /\ wait.client = c /\ wait.name = n /\ wait.route = route
    OBVIOUS
  <2> HIDE DEF wait
  <2>4. LooksAlong'
    BY <1>1, <1>2, <1>6, <2>3 DEF LooksAlong
  <2>5. QED
    BY <1>1, <1>3, <2>1, <2>2, <2>4, ScLively
<1>7. QED
  BY <1>1, <1>4, <1>5, <1>6

\* An answer delivered, and kept if the lookup shares the caches.
LEMMA ScAnswered == ASSUME RoutesKept, RcInv, ScInv, RcAnswered PROVE ScInv'
<1> DEFINE k == KeyOf(rcLook.name, rcLook.route)
           who == IF rcLook.shared THEN "shared" ELSE rcLook.client
           got == Fetched(rcLook.route, rcLook.name, who)
<1>1. /\ rcLook.pc \in {"wait", "late"} /\ rcLook' = IdleLook /\ Deliver("data", got.data)
      /\ \/ /\ rcLook.shared /\ ~rcLook.old
            /\ OnSuccess(k, got.data, got.until, TRUE, rcRefreshes) /\ Remember(rcLook.route, rcLook.name, got)
         \/ UNCHANGED <<rcAssist, rcHickory>>
      /\ UNCHANGED <<rcBuild, rcFile>>
  BY DEF RcAnswered, rcRest
<1>2. rcBuild \in Builds /\ ScSnaps(rcSnaps, rcBuild) /\ ScHickory(rcHickory) /\ LooksAlong
  BY DEF ScInv
<1>3. rcLook # IdleLook /\ (~rcLook.old => rcLook.by = rcBuild)
  BY <1>1 DEF RcInv, RcLooks, IdleLook
<1>4. got.data.from = rcLook.route.up /\ got.data.owner \in {"shared", who}
  BY <1>2, FetchedFrom
<1> HIDE DEF got
<1>5. AnswersStayInScope'
  BY <1>1, <1>2, <1>3, <1>4, DeliverAlong
<1>6. LooksAlong'
  BY <1>1, <1>2, LookOn
<1>7. CASE /\ rcLook.shared /\ ~rcLook.old
           /\ OnSuccess(k, got.data, got.until, TRUE, rcRefreshes) /\ Remember(rcLook.route, rcLook.name, got)
  <2>1. got.data.owner = "shared"
    BY <1>4, <1>7
  <2>2. /\ rcLook.by = rcBuild /\ RcAllowsClient(rcBuild, rcLook.client)
        /\ rcLook.route = RouteOf(rcBuild, rcLook.name, PolicyFor(rcBuild, rcLook.client))
    BY <1>2, <1>3, <1>7 DEF LooksAlong
  <2>3. OfKey(got.data, k, rcBuild)
    BY <1>2, <1>4, <2>1, <2>2, KeyAlong
  <2> HIDE DEF k
  <2>4. ScSnaps(rcSnaps', rcBuild)
    BY <1>2, <1>7, <2>3, OnSuccessScoped
  <2>5. ScHickory(rcHickory')
    BY <1>2, <1>4, <1>7, <2>1, RememberScoped
  <2>6. QED
    BY <1>1, <1>5, <1>6, <2>4, <2>5, ScLively
<1>8. CASE UNCHANGED <<rcAssist, rcHickory>>
  <2>1. ScSnaps(rcSnaps', rcBuild) /\ ScHickory(rcHickory')
    BY <1>2, <1>8 DEF rcAssist
  <2>2. QED
    BY <1>1, <1>5, <1>6, <2>1, ScLively
<1>9. QED
  BY <1>1, <1>7, <1>8

\* A negative answer.
LEMMA ScNegative == ASSUME RcInv, ScInv, RcNegative PROVE ScInv'
<1>1. /\ rcLook # IdleLook /\ rcLook' = IdleLook /\ Deliver("negative", NoData)
      /\ UNCHANGED <<rcBuild, rcFile, rcHickory>>
      /\ RecordFailure(KeyOf(rcLook.name, rcLook.route)) \/ UNCHANGED rcSnaps
  BY DEF RcNegative, rcRest, IdleLook
<1>2. AnswersStayInScope'
  BY <1>1, DeliverAlong DEF ScInv
<1>3. ScSnaps(rcSnaps', rcBuild)
  BY <1>1, FailureScoped DEF ScInv
<1>4. ScHickory(rcHickory') /\ LooksAlong'
  BY <1>1, LookOn DEF ScInv
<1>5. QED
  BY <1>1, <1>2, <1>3, <1>4, ScLively

\* The stale answer of the key a lookup had is one found along its route.
LEMMA StaleAlong ==
  ASSUME RoutesKept, RcInv, ScInv, rcLook # IdleLook, ~rcLook.old,
         NEW k, k = KeyOf(rcLook.name, rcLook.route), StaleAnswer(k)
  PROVE  rcSnaps[k].data # NoData => rcSnaps[k].data.from = rcLook.route.up /\ rcSnaps[k].data.owner = "shared"
<1>1. /\ rcBuild \in Builds /\ RcAllowsClient(rcBuild, rcLook.client)
      /\ rcLook.route = RouteOf(rcBuild, rcLook.name, PolicyFor(rcBuild, rcLook.client))
  BY DEF RcInv, RcLooks, ScInv, LooksAlong
<1>2. OfKey(rcSnaps[k].data, KeyOf(rcLook.name, rcLook.route), rcBuild)
  BY DEF ScInv, ScSnaps, StaleAnswer
<1>3. QED
  BY <1>1, <1>2, KeyAlong

\* No answer.
LEMMA ScUnreachable == ASSUME RoutesKept, RcInv, ScInv, RcUnreachable PROVE ScInv'
<1> DEFINE k == KeyOf(rcLook.name, rcLook.route)
<1>1. /\ rcLook # IdleLook /\ rcLook' = IdleLook /\ UNCHANGED <<rcBuild, rcFile, rcAssist, rcHickory>>
      /\ \/ ~rcLook.old /\ StaleAnswer(k) /\ Deliver("stale", rcSnaps[k].data)
         \/ Deliver("fail", NoData)
  BY DEF RcUnreachable, rcRest, IdleLook
<1>2. AnswersStayInScope'
  <2>1. CASE ~rcLook.old /\ StaleAnswer(k) /\ Deliver("stale", rcSnaps[k].data)
    <3>1. rcSnaps[k].data # NoData => rcSnaps[k].data.from = rcLook.route.up /\ rcSnaps[k].data.owner = "shared"
      BY <1>1, <2>1, StaleAlong
    <3> HIDE DEF k
    <3>2. QED
      BY <1>1, <2>1, <3>1, DeliverAlong DEF ScInv
  <2>2. CASE Deliver("fail", NoData)
    BY <1>1, <2>2, DeliverAlong DEF ScInv
  <2>3. QED
    BY <1>1, <2>1, <2>2
<1>3. ScSnaps(rcSnaps', rcBuild) /\ ScHickory(rcHickory') /\ LooksAlong'
  BY <1>1, LookOn DEF ScInv, rcAssist
<1>4. QED
  BY <1>1, <1>2, <1>3, ScLively

\* The client's timeout: its route, by the resolver of the lookup.
LEMMA ScTimeout == ASSUME RoutesKept, RcInv, ScInv, RcClientTimeout PROVE ScInv'
<1> DEFINE k == KeyOf(rcLook.name, RouteOf(rcLook.by, rcLook.name, PolicyFor(rcLook.by, rcLook.client)))
<1>1. /\ rcLook # IdleLook /\ ~rcLook.old /\ rcLook' = [rcLook EXCEPT !.pc = "late"]
      /\ UNCHANGED <<rcBuild, rcFile, rcAssist, rcHickory>>
      /\ \/ StaleAnswer(k) /\ Deliver("stale", rcSnaps[k].data)
         \/ Deliver("fail", NoData)
  BY DEF RcClientTimeout, IdleLook, rcRest
<1>2. /\ DOMAIN rcLook = {"pc", "client", "name", "route", "shared", "by", "old"}
      /\ LooksAlong /\ k = KeyOf(rcLook.name, rcLook.route)
  BY <1>1 DEF RcInv, RcLooks, ScInv, LooksAlong
<1> HIDE DEF k
<1>3. AnswersStayInScope'
  <2>1. CASE StaleAnswer(k) /\ Deliver("stale", rcSnaps[k].data)
    <3>1. rcSnaps[k].data # NoData => rcSnaps[k].data.from = rcLook.route.up /\ rcSnaps[k].data.owner = "shared"
      BY <1>1, <1>2, <2>1, StaleAlong
    <3>2. QED
      BY <1>1, <1>2, <2>1, <3>1, DeliverAlong
  <2>2. CASE Deliver("fail", NoData)
    BY <1>1, <1>2, <2>2, DeliverAlong
  <2>3. QED
    BY <1>1, <2>1, <2>2
<1>4. ScSnaps(rcSnaps', rcBuild) /\ ScHickory(rcHickory')
  BY <1>1 DEF ScInv, rcAssist
<1>5. rcLook'.by = rcLook.by /\ rcLook'.client = rcLook.client /\ rcLook'.name = rcLook.name /\ rcLook'.route = rcLook.route
  BY <1>1, <1>2
<1>6. LooksAlong'
  BY <1>1, <1>2, <1>5 DEF LooksAlong
<1>7. QED
  BY <1>1, <1>3, <1>4, <1>6, ScLively

\* A prefetch asks where its key's scope says, and keeps the answer as everyone's.
LEMMA ScRefresh == ASSUME ScInv, NEW k, NEW ok, RcRefresh(k, ok) PROVE ScInv'
<1> DEFINE route == RouteOf(rcBuild, k[1], PolicyForScope(rcBuild, k[2]))
           had == Fetched(route, k[1], "refresh")
           got == [had EXCEPT !.data.owner = "shared"]
<1>1. /\ UNCHANGED <<rcBuild, rcLook, rcFile>> /\ NoReply
      /\ \/ OnSuccess(k, got.data, got.until, FALSE, rcRefreshes \ {k}) /\ Remember(route, k[1], got)
         \/ UNCHANGED <<rcSnaps, rcHickory>>
  BY DEF RcRefresh, rcRest
<1>2. had = [data |-> [from |-> route.up, owner |-> "refresh", born |-> rcNow, carried |-> FALSE], until |-> rcNow + RcTtl]
  BY DEF Fetched
<1>3. route.up = UpOf(rcBuild, k[1], k[2])
  BY DEF UpOf
<1> HIDE DEF had, route
<1>4. got.data = [had.data EXCEPT !.owner = "shared"]
  BY <1>2
<1>5. got.data.from = route.up /\ got.data.owner = "shared"
  BY <1>2, <1>4
<1> HIDE DEF got
<1>6. OfKey(got.data, k, rcBuild)
  BY <1>3, <1>5 DEF OfKey
<1>7. AnswersStayInScope' /\ LooksAlong'
  BY <1>1, NoReplyAlong, LookOn DEF ScInv
<1>8. ScSnaps(rcSnaps', rcBuild) /\ ScHickory(rcHickory')
  <2>1. CASE OnSuccess(k, got.data, got.until, FALSE, rcRefreshes \ {k}) /\ Remember(route, k[1], got)
    BY <1>5, <1>6, <2>1, OnSuccessScoped, RememberScoped DEF ScInv
  <2>2. CASE UNCHANGED <<rcSnaps, rcHickory>>
    BY <2>2 DEF ScInv
  <2>3. QED
    BY <1>1, <2>1, <2>2
<1>9. QED
  BY <1>1, <1>7, <1>8, ScLively

\* Removing entries, and the clock.
LEMMA ScRemoves ==
  ASSUME ScInv, NEW n, RcClear \/ RcFlush(n) \/ RcTick
  PROVE  ScInv'
<1>1. NoReply /\ UNCHANGED <<rcBuild, rcFile, rcLook>>
  BY DEF RcClear, RcFlush, RcTick, rcRest
<1>2. AnswersStayInScope' /\ LooksAlong'
  BY <1>1, NoReplyAlong, LookOn DEF ScInv
<1>3. ScSnaps(rcSnaps', rcBuild) /\ ScHickory(rcHickory')
  <2>1. CASE RcClear
    BY <2>1 DEF RcClear, ScSnaps, ScHickory
  <2>2. CASE RcFlush(n)
    <3> DEFINE away == {s \in DOMAIN rcHickory : s[2] = n /\ s[1] # "root"}
               gone == {k \in DOMAIN rcSnaps : k[1] = n}
    <3>1. rcSnaps' = Without(rcSnaps, gone) /\ rcHickory' = Without(rcHickory, away)
      BY <2>2 DEF RcFlush
    <3> HIDE DEF away, gone
    <3>2. QED
      BY <3>1 DEF ScInv, ScSnaps, ScHickory, Without
  <2>3. CASE RcTick
    BY <2>3 DEF RcTick, rcAssist, ScInv
  <2>4. QED
    BY <2>1, <2>2, <2>3
<1>4. QED
  BY <1>1, <1>2, <1>3, ScLively

\* What a save writes means the same to every resolver that reads it.
LEMMA PersistScoped == ASSUME RoutesKept, ScInv PROVE ScFile(Persist)
<1>1. CASE rcBuild.persist
  <2>1. \A k \in DOMAIN Export : Export[k].data = rcSnaps[k].data /\ k \in DOMAIN rcSnaps
    BY DEF Export
  <2>2. ASSUME NEW b \in Builds, b.persist, NEW k \in DOMAIN Export PROVE OfKey(Export[k].data, k, b)
    <3>1. OfKey(rcSnaps[k].data, k, rcBuild)
      BY <2>1 DEF ScInv, ScSnaps
    <3>2. UpOf(b, k[1], k[2]) = UpOf(rcBuild, k[1], k[2])
      BY <1>1, <2>2, UpSame DEF ScInv
    <3>3. QED
      BY <2>1, <3>1, <3>2 DEF OfKey
  <2>3. QED
    BY <1>1, <2>2 DEF Persist, ScFile, ScSnaps
<1>2. CASE ~rcBuild.persist
  BY <1>2 DEF Persist, ScInv
<1>3. QED
  BY <1>1, <1>2

\* Taking an answer from the file changes neither whose it is nor where it is from.
LEMMA ImportScoped ==
  ASSUME RoutesKept, NEW b \in RcBuilds, NEW saved, ScFile(saved), \A k \in DOMAIN saved : RcAnswer(saved[k].data)
  PROVE  ScSnaps(Import(b, saved), BuildPolicies(b))
<1> DEFINE imp == Import(b, saved)
           new == BuildPolicies(b)
<1>1. new \in Builds /\ new.persist = b.persist
  <2> DEFINE kept == SelectSeq(b.policies, LAMBDA p : p.enabled)
  <2>1. new = [b EXCEPT !.policies = kept]
    BY DEF BuildPolicies
  <2>2. "persist" \in DOMAIN b
    BY DEF RoutesKept
  <2>3. new \in Builds
    BY DEF Builds
  <2> HIDE DEF kept, new
  <2>4. new.persist = b.persist
    BY <2>1, <2>2
  <2>5. QED
    BY <2>3, <2>4
<1> HIDE DEF new
<1>2. ASSUME NEW k \in DOMAIN imp PROVE OfKey(imp[k].data, k, new)
  <2> DEFINE d == saved[k].data
             carried == [d EXCEPT !.carried = TRUE]
  <2>1. k \in DOMAIN saved /\ b.persist /\ imp[k].data = IF d = NoData THEN NoData ELSE carried
    BY <1>2 DEF Import
  <2>2. OfKey(d, k, new) /\ RcAnswer(d)
    BY <1>1, <2>1 DEF ScFile, ScSnaps
  <2> HIDE DEF imp, d
  <2>3. CASE d = NoData
    BY <2>1, <2>3 DEF OfKey
  <2>4. CASE d # NoData
    <3>1. DOMAIN d = {"from", "owner", "born", "carried"}
      BY <2>2, <2>4 DEF RcAnswer
    <3>2. carried.from = d.from /\ carried.owner = d.owner
      BY <3>1
    <3> HIDE DEF carried
    <3>3. QED
      BY <2>1, <2>2, <2>4, <3>2 DEF OfKey
  <2>5. QED
    BY <2>3, <2>4
<1>3. QED
  BY <1>2 DEF ScSnaps, new

\* A new resolver, whatever it starts with.
LEMMA BuiltScoped ==
  ASSUME RcInv, ScInv, NEW b \in RcBuilds, NEW snaps, Built(b, snaps), ScSnaps(snaps, BuildPolicies(b)), NoReply,
         ScFile(rcFile'), Replaced \/ rcLook' = IdleLook
  PROVE  ScInv'
<1>1. rcBuild' = BuildPolicies(b) /\ rcSnaps' = snaps /\ rcHickory' = <<>>
  BY DEF Built
<1>2. rcBuild' \in Builds
  BY <1>1 DEF Builds
<1>3. ScSnaps(rcSnaps', rcBuild') /\ ScHickory(rcHickory')
  BY <1>1 DEF ScHickory
<1>4. AnswersStayInScope'
  BY NoReplyAlong
<1>5. LooksAlong'
  <2>1. CASE rcLook' = IdleLook \/ rcLook' = rcLook
    BY <2>1, LookOn DEF ScInv
  <2>2. CASE Replaced /\ rcLook # IdleLook
    <3>1. DOMAIN rcLook = {"pc", "client", "name", "route", "shared", "by", "old"} /\ rcLook.pc # "idle"
      BY <2>2 DEF RcInv, RcLooks
    <3>2. rcLook' = [rcLook EXCEPT !.old = TRUE]
      BY <2>2, <3>1 DEF Replaced
    <3>3. rcLook'.by = rcLook.by /\ rcLook'.client = rcLook.client /\ rcLook'.name = rcLook.name /\ rcLook'.route = rcLook.route
      BY <3>1, <3>2
    <3>4. QED
      BY <2>2, <3>3 DEF ScInv, LooksAlong
  <2>3. QED
    BY <2>1, <2>2 DEF Replaced, IdleLook
<1>6. QED
  BY <1>2, <1>3, <1>4, <1>5 DEF ScInv, ScFile, Builds, ScSnaps, OfKey

\* A reload, a save of the settings and a restart.
LEMMA ScRebuild ==
  ASSUME RoutesKept, RcInv, ScInv, NEW b \in RcBuilds, NEW cl, NEW rd, RcReload(b) \/ RcSwap(b) \/ RcRestart(b, cl, rd)
  PROVE  ScInv'
<1>1. ScFile(Persist) /\ \A k \in DOMAIN Persist : RcAnswer(Persist[k].data)
  BY PersistScoped, PersistAnswers
<1>2. ScFile(rcFile) /\ \A k \in DOMAIN rcFile : RcAnswer(rcFile[k].data)
  BY DEF RcInv, ScInv
<1>3. ScSnaps(<<>>, BuildPolicies(b))
  BY DEF ScSnaps
<1>4. CASE RcReload(b)
  <2>1. Built(b, Import(b, Persist)) /\ rcFile' = Persist /\ Replaced /\ NoReply
    BY <1>4 DEF RcReload
  <2>2. ScSnaps(Import(b, Persist), BuildPolicies(b))
    BY <1>1, ImportScoped
  <2>3. ScFile(rcFile')
    BY <1>1, <2>1
  <2>4. QED
    BY <2>1, <2>2, <2>3, BuiltScoped
<1>5. CASE RcSwap(b)
  <2>1. Built(b, <<>>) /\ Replaced /\ NoReply /\ UNCHANGED rcFile
    BY <1>5 DEF RcSwap
  <2>2. ScFile(rcFile')
    BY <1>2, <2>1
  <2>3. QED
    BY <1>3, <2>1, <2>2, BuiltScoped
<1>6. CASE RcRestart(b, cl, rd)
  <2> DEFINE saved == IF cl THEN Persist ELSE rcFile
             snaps == IF rd THEN Import(b, saved) ELSE <<>>
  <2>1. Built(b, snaps) /\ rcFile' = saved /\ rcLook' = IdleLook /\ NoReply
    BY <1>6 DEF RcRestart
  <2>2. ScFile(saved) /\ \A k \in DOMAIN saved : RcAnswer(saved[k].data)
    BY <1>1, <1>2
  <2> HIDE DEF saved
  <2>3. ScSnaps(Import(b, saved), BuildPolicies(b))
    BY <2>2, ImportScoped
  <2>4. ScSnaps(snaps, BuildPolicies(b))
    BY <1>3, <2>3
  <2>5. ScFile(rcFile')
    BY <2>1, <2>2
  <2> HIDE DEF snaps
  <2>6. QED
    BY <2>1, <2>4, <2>5, BuiltScoped
<1>7. QED
  BY <1>4, <1>5, <1>6

\* Every step keeps answers in their scope.
LEMMA ScStep == ASSUME RoutesKept, RcInv, ScInv, [RcNext]_rcVars PROVE ScInv'
<1>1. CASE UNCHANGED rcVars
  <2>1. UNCHANGED <<rcBuild, rcSnaps, rcHickory, rcFile, rcLook, rcReply>>
    BY <1>1 DEF rcVars, rcAssist
  <2>2. AnswersStayInScope' /\ LooksAlong'
    BY <2>1, LookOn DEF ScInv, AnswersStayInScope, Given
  <2>3. ScSnaps(rcSnaps', rcBuild) /\ ScHickory(rcHickory')
    BY <2>1 DEF ScInv
  <2>4. QED
    BY <2>1, <2>2, <2>3, ScLively
<1>2. CASE RcNext
  <2>1. ASSUME NEW c \in RcClients, NEW n \in RcNames, NEW s \in BOOLEAN, RcBegin(c, n, s) PROVE ScInv'
    BY <2>1, ScBegin
  <2>2. CASE RcAnswered
    BY <2>2, ScAnswered
  <2>3. CASE RcNegative
    BY <2>3, ScNegative
  <2>4. CASE RcUnreachable
    BY <2>4, ScUnreachable
  <2>5. CASE RcClientTimeout
    BY <2>5, ScTimeout
  <2>6. ASSUME NEW k \in rcRefreshes, NEW ok \in BOOLEAN, RcRefresh(k, ok) PROVE ScInv'
    BY <2>6, ScRefresh
  <2>7. ASSUME NEW n, RcClear \/ RcFlush(n) \/ RcTick PROVE ScInv'
    BY <2>7, ScRemoves
  <2>8. ASSUME NEW b \in RcBuilds, NEW cl \in BOOLEAN, NEW rd \in BOOLEAN, RcReload(b) \/ RcSwap(b) \/ RcRestart(b, cl, rd)
        PROVE  ScInv'
    BY <2>8, ScRebuild
  <2>9. QED
    BY <1>2, <2>1, <2>2, <2>3, <2>4, <2>5, <2>6, <2>7, <2>8 DEF RcNext
<1>3. QED
  BY <1>1, <1>2

\* The caches start empty.
LEMMA ScStart == ASSUME RcInit PROVE ScInv
BY DEF RcInit, ScInv, Builds, ScSnaps, ScHickory, ScFile, LooksAlong, AnswersStayInScope, Given

\* Client policies and the shared caches: while the lists of policies and zones stay
\* as they are, an answer handed to a client (a new one, one from Hickory's cache, a
\* prefetched one, the last good one after a timeout, or one restored from the
\* snapshot file) was fetched over that client's own route, and not for the subnet
\* of another client, however lookups, prefetches, flushes, saves, reloads and
\* restarts interleave.
THEOREM AnswersStayInScopeCorrect ==
  ASSUME RoutesKept
  PROVE  RcSpec => []AnswersStayInScope
<1>1. RcInit => RcInv /\ ScInv
  BY RcStart, ScStart
<1>2. RcInv /\ ScInv /\ [RcNext]_rcVars => RcInv' /\ ScInv'
  BY RcStep, ScStep
<1>3. ScInv => AnswersStayInScope
  BY DEF ScInv
<1>4. QED
  BY <1>1, <1>2, <1>3, PTL DEF RcSpec
----------------------------------------------------------------------------
(* Exemptions from the AI scanner's blocks *)

\* The shape of what is under way.
AiShape ==
  /\ aiPub = [w \in AiWho |-> aiPub[w]] /\ \A w \in AiWho : DOMAIN aiPub[w] = {"pc", "cfg", "now", "allow"}
  /\ DOMAIN aiAsk = {"pc", "name", "client", "hit", "safe"}

\* A confirmed exemption is stored and published, and so are the ones a call is
\* about to confirm and the ones a query counts on.
AiInv ==
  /\ AiShape
  /\ aiSure \subseteq aiAllow /\ aiSure \subseteq aiExempt
  /\ aiWeb \subseteq aiAllow
  /\ aiPub["web"].pc \in {"cats", "blocks"} => aiWeb \subseteq aiExempt
  /\ aiAsk.pc \in {"asked", "named"} => aiAsk.safe \subseteq aiAllow /\ aiAsk.safe \subseteq aiExempt
  /\ ExemptionsHonoured

\* Fewer exemptions cover fewer names.
LEMMA ExemptFewer == ASSUME NEW n, NEW a, NEW b, a \subseteq b, ~ExemptBy(n, b) PROVE ~ExemptBy(n, a)
BY DEF ExemptBy

\* The records of the refreshes.
LEMMA RefreshShape ==
  ASSUME AiShape, NEW w \in AiWho, NEW r, DOMAIN r = {"pc", "cfg", "now", "allow"}, aiPub' = [aiPub EXCEPT ![w] = r], UNCHANGED aiAsk
  PROVE  AiShape' /\ aiPub'[w] = r /\ \A v \in AiWho \ {w} : aiPub'[v] = aiPub[v]
BY DEF AiShape

\* The end of a refresh, which may confirm what the console exempted.
LEMMA RefreshedKeeps ==
  ASSUME AiInv, NEW w \in AiWho, Refreshed(w), UNCHANGED <<aiAllow, aiExempt, aiAsk>>,
         w = "web" => aiErred' \/ aiPub["web"].pc = "blocks"
  PROVE  AiInv'
<1>1. aiPub' = [aiPub EXCEPT ![w] = NoRefresh] /\ DOMAIN NoRefresh = {"pc", "cfg", "now", "allow"} /\ NoRefresh.pc = "none"
  BY DEF Refreshed, NoRefresh
<1>2. AiShape' /\ aiPub'[w] = NoRefresh /\ \A v \in AiWho \ {w} : aiPub'[v] = aiPub[v]
  BY <1>1, RefreshShape DEF AiInv
<1>3. CASE w = "scan"
  <2>1. UNCHANGED <<aiWeb, aiSure>> /\ aiPub'["web"] = aiPub["web"]
    BY <1>2, <1>3 DEF Refreshed, AiWho
  <2>2. QED
    BY <1>2, <2>1 DEF AiInv, ExemptionsHonoured
<1>4. CASE w = "web"
  <2>1. aiWeb' = {} /\ aiSure' = aiSure \cup (IF aiErred' THEN {} ELSE aiWeb) /\ aiPub'["web"].pc = "none"
    BY <1>1, <1>2, <1>4 DEF Refreshed
  <2>2. aiSure' \subseteq aiAllow /\ aiSure' \subseteq aiExempt
    BY <1>4, <2>1 DEF AiInv
  <2>3. QED
    BY <1>2, <2>1, <2>2 DEF AiInv, ExemptionsHonoured
<1>5. QED
  BY <1>3, <1>4 DEF AiWho

\* The steps of a refresh.
LEMMA AiRefreshKeeps ==
  ASSUME AiInv, NEW w \in AiWho, AiExempts(w) \/ AiExemptsFails(w) \/ AiCategorizes(w) \/ AiPublishesBlocks(w)
  PROVE  AiInv'
<1>1. aiPub = [v \in AiWho |-> aiPub[v]] /\ DOMAIN aiPub[w] = {"pc", "cfg", "now", "allow"} /\ AiShape
  BY DEF AiInv, AiShape
<1>2. CASE AiExempts(w)
  <2>1. aiPub' = [aiPub EXCEPT ![w].pc = "cats", ![w].allow = aiAllow] /\ aiExempt' = aiAllow /\ UNCHANGED <<aiAllow, aiWeb, aiAsk, aiSure>>
    BY <1>2 DEF AiExempts, aiStore
  <2> DEFINE r == [aiPub[w] EXCEPT !.pc = "cats", !.allow = aiAllow]
  <2>2. aiPub' = [aiPub EXCEPT ![w] = r] /\ DOMAIN r = {"pc", "cfg", "now", "allow"}
    BY <1>1, <2>1
  <2> HIDE DEF r
  <2>3. AiShape'
    BY <1>1, <2>1, <2>2, RefreshShape
  <2>4. QED
    BY <2>1, <2>3 DEF AiInv, ExemptionsHonoured
<1>3. CASE AiExemptsFails(w)
  BY <1>3, RefreshedKeeps DEF AiExemptsFails, AiFault, aiStore, aiSnapshots
<1>4. CASE AiCategorizes(w)
  <2>1. aiPub[w].pc = "cats" /\ aiPub' = [aiPub EXCEPT ![w].pc = "blocks"] /\ UNCHANGED <<aiAllow, aiExempt, aiWeb, aiAsk, aiSure>>
    BY <1>4 DEF AiCategorizes, aiStore
  <2> DEFINE r == [aiPub[w] EXCEPT !.pc = "blocks"]
  <2>2. aiPub' = [aiPub EXCEPT ![w] = r] /\ DOMAIN r = {"pc", "cfg", "now", "allow"}
    BY <1>1, <2>1
  <2> HIDE DEF r
  <2>3. AiShape' /\ \A v \in AiWho \ {w} : aiPub'[v] = aiPub[v]
    BY <1>1, <2>1, <2>2, RefreshShape
  <2>4. aiPub'["web"].pc \in {"cats", "blocks"} => aiWeb \subseteq aiExempt
    BY <2>1, <2>3 DEF AiInv, AiWho
  <2>5. QED
    BY <2>1, <2>3, <2>4 DEF AiInv, ExemptionsHonoured
<1>5. CASE AiPublishesBlocks(w)
  BY <1>5, RefreshedKeeps DEF AiPublishesBlocks, aiStore
<1>6. QED
  BY <1>2, <1>3, <1>4, <1>5

\* The cycle, the settings and the clock touch no exemption.
LEMMA AiBeside ==
  ASSUME AiInv, UNCHANGED <<aiAllow, aiExempt, aiWeb, aiAsk, aiSure>>, AiShape',
         aiPub'["web"].pc \in {"cats", "blocks"} => aiPub["web"].pc \in {"cats", "blocks"}
  PROVE  AiInv'
BY DEF AiInv, ExemptionsHonoured

\* The scan cycle.
LEMMA AiCycleKeeps == ASSUME AiInv, AiCycleBegins \/ AiClassifies \/ AiCycleFails \/ AiTick PROVE AiInv'
<1>1. UNCHANGED <<aiAllow, aiExempt, aiWeb, aiAsk, aiSure>>
  BY DEF AiCycleBegins, AiClassifies, AiCycleFails, AiTick, aiStore, aiSnapshots
<1>2. CASE UNCHANGED aiPub
  BY <1>1, <1>2, AiBeside DEF AiInv, AiShape
<1>3. CASE AiClassifies
  <2> DEFINE r == [pc |-> "wants", cfg |-> aiScan.cfg, now |-> aiNow, allow |-> {}]
  <2>1. aiPub' = [aiPub EXCEPT !["scan"] = r] /\ DOMAIN r = {"pc", "cfg", "now", "allow"}
    BY <1>3 DEF AiClassifies
  <2>2. "scan" \in AiWho /\ "web" \in AiWho \ {"scan"}
    BY DEF AiWho
  <2> HIDE DEF r
  <2>3. AiShape' /\ aiPub'["web"] = aiPub["web"]
    BY <1>1, <2>1, <2>2, RefreshShape DEF AiInv
  <2>4. QED
    BY <1>1, <2>3, AiBeside
<1>4. QED
  BY <1>2, <1>3 DEF AiCycleBegins, AiCycleFails, AiTick

\* The console's calls.
LEMMA AiConsoleKeeps ==
  ASSUME AiInv, NEW n, NEW cat, NEW cfg,
         AiSetAllow(n) \/ AiClear(n) \/ AiClearLabel(n) \/ AiRelabel(n, cat) \/ AiSaveSettings(cfg)
  PROVE  AiInv'
<1> DEFINE r == [pc |-> "wants", cfg |-> aiCfg', now |-> aiNow, allow |-> {}]
<1>1. \E x : AiCalls(x)
  BY DEF AiSetAllow, AiClear, AiClearLabel, AiRelabel, AiSaveSettings
<1>2. aiPub["web"].pc = "none" /\ aiPub' = [aiPub EXCEPT !["web"] = r] /\ UNCHANGED aiExempt
  BY <1>1 DEF AiCalls, aiSnapshots
<1>3. DOMAIN r = {"pc", "cfg", "now", "allow"} /\ r.pc = "wants" /\ "web" \in AiWho
  BY DEF AiWho
<1> HIDE DEF r
<1>4. aiPub' = [w \in AiWho |-> aiPub'[w]] /\ (\A w \in AiWho : DOMAIN aiPub'[w] = {"pc", "cfg", "now", "allow"}) /\ aiPub'["web"].pc = "wants"
  BY <1>2, <1>3 DEF AiInv, AiShape
<1>5. CASE AiSetAllow(n)
  <2>1. aiAllow' = aiAllow \cup {n} /\ aiWeb' = {n} /\ UNCHANGED <<aiAsk, aiSure>>
    BY <1>5 DEF AiSetAllow, AiCalls
  <2>2. QED
    BY <1>2, <1>4, <2>1 DEF AiInv, AiShape, ExemptionsHonoured
<1>6. CASE AiClear(n)
  <2>1. aiAllow' = aiAllow \ {n} /\ aiSure' = aiSure \ {n} /\ aiWeb' = {} /\ aiAsk' = [aiAsk EXCEPT !.safe = aiAsk.safe \ {n}]
    BY <1>6 DEF AiClear, AiCalls
  <2>2. /\ DOMAIN aiAsk' = {"pc", "name", "client", "hit", "safe"} /\ aiAsk'.pc = aiAsk.pc /\ aiAsk'.name = aiAsk.name
        /\ aiAsk'.safe = aiAsk.safe \ {n}
    BY <2>1 DEF AiInv, AiShape
  <2>3. ExemptionsHonoured'
    BY <2>2, ExemptFewer DEF AiInv, ExemptionsHonoured
  <2>4. QED
    BY <1>2, <1>4, <2>1, <2>2, <2>3 DEF AiInv, AiShape
<1>7. CASE AiClearLabel(n) \/ AiRelabel(n, cat) \/ AiSaveSettings(cfg)
  <2>1. aiAllow' = aiAllow /\ aiWeb' = {} /\ UNCHANGED <<aiAsk, aiSure>>
    BY <1>7 DEF AiClearLabel, AiRelabel, AiSaveSettings, AiCalls
  <2>2. QED
    BY <1>2, <1>4, <2>1 DEF AiInv, AiShape, ExemptionsHonoured
<1>8. QED
  BY <1>5, <1>6, <1>7

\* A query that comes in, and its two decisions.
LEMMA AiQueryKeeps == ASSUME AiInv, NEW n, NEW c, AiAsks(n, c) \/ AiNamed \/ AiDecides PROVE AiInv'
<1> DEFINE fields == {"pc", "name", "client", "hit", "safe"}
<1>1. UNCHANGED <<aiAllow, aiExempt, aiPub, aiWeb, aiSure>>
  BY DEF AiAsks, AiNamed, AiDecides, aiStore, aiSnapshots
<1>2. DOMAIN NoQuery = fields /\ NoQuery.pc = "none" /\ DOMAIN aiAsk = fields
  BY DEF NoQuery, AiInv, AiShape
<1>3. CASE aiAsk' = NoQuery
  BY <1>1, <1>2, <1>3 DEF AiInv, AiShape, ExemptionsHonoured
<1>4. CASE aiAsk' = Blocked /\ aiAsk.pc \in {"asked", "named"} /\ ~ExemptBy(aiAsk.name, aiExempt)
  <2>1. DOMAIN aiAsk' = fields /\ aiAsk'.pc = "blocked" /\ aiAsk'.name = aiAsk.name /\ aiAsk'.safe = aiAsk.safe
    BY <1>2, <1>4 DEF Blocked
  <2>2. aiAsk.safe \subseteq aiExempt
    BY <1>4 DEF AiInv
  <2>3. ExemptionsHonoured'
    BY <1>4, <2>1, <2>2, ExemptFewer DEF ExemptionsHonoured
  <2>4. QED
    BY <1>1, <2>1, <2>3 DEF AiInv, AiShape
<1>5. CASE aiAsk.pc = "asked" /\ \E h : aiAsk' = [aiAsk EXCEPT !.pc = "named", !.hit = h]
  <2>1. DOMAIN aiAsk' = fields /\ aiAsk'.pc = "named" /\ aiAsk'.safe = aiAsk.safe
    BY <1>2, <1>5
  <2>2. QED
    BY <1>1, <1>5, <2>1 DEF AiInv, AiShape, ExemptionsHonoured
<1>6. CASE \E h : aiAsk' = [pc |-> "asked", name |-> n, client |-> {c}, safe |-> aiSure, hit |-> h]
  <2>1. DOMAIN aiAsk' = fields /\ aiAsk'.pc = "asked" /\ aiAsk'.safe = aiSure
    BY <1>6
  <2>2. QED
    BY <1>1, <2>1 DEF AiInv, AiShape, ExemptionsHonoured
<1>7. AiAsks(n, c) => aiAsk' = NoQuery \/ \E h : aiAsk' = [pc |-> "asked", name |-> n, client |-> {c}, safe |-> aiSure, hit |-> h]
  BY DEF AiAsks
<1>8. AiNamed => /\ (aiAsk' = Blocked /\ ~ExemptBy(aiAsk.name, aiExempt)) \/ (\E h : aiAsk' = [aiAsk EXCEPT !.pc = "named", !.hit = h])
                /\ aiAsk.pc = "asked"
  BY DEF AiNamed
<1>9. AiDecides => (aiAsk' = NoQuery \/ (aiAsk' = Blocked /\ ~ExemptBy(aiAsk.name, aiExempt))) /\ aiAsk.pc = "named"
  BY DEF AiDecides
<1>10. QED
  BY <1>3, <1>4, <1>5, <1>6, <1>7, <1>8, <1>9

\* Every step keeps the exemptions.
LEMMA AiInvariant == AiSpec => []AiInv
<1>1. AiInit => AiInv
  <2>1. SUFFICES ASSUME AiInit PROVE AiInv
    OBVIOUS
  <2>2. NoRefresh.pc = "none" /\ DOMAIN NoRefresh = {"pc", "cfg", "now", "allow"}
        /\ NoQuery.pc = "none" /\ DOMAIN NoQuery = {"pc", "name", "client", "hit", "safe"}
    BY DEF NoRefresh, NoQuery
  <2>3. aiPub = [w \in AiWho |-> NoRefresh] /\ aiAsk = NoQuery /\ aiSure = {} /\ aiWeb = {}
    BY <2>1 DEF AiInit
  <2>4. AiShape /\ aiPub["web"].pc = "none"
    BY <2>2, <2>3 DEF AiShape, AiWho
  <2>5. QED
    BY <2>2, <2>3, <2>4 DEF AiInv, ExemptionsHonoured
<1>2. AiInv /\ [AiNext]_aiVars => AiInv'
  <2>1. SUFFICES ASSUME AiInv, [AiNext]_aiVars PROVE AiInv'
    OBVIOUS
  <2>2. CASE UNCHANGED aiVars
    BY <2>1, <2>2 DEF aiVars, aiStore, aiSnapshots, AiInv, AiShape, ExemptionsHonoured
  <2>3. CASE AiNext
    BY <2>1, <2>3, AiRefreshKeeps, AiCycleKeeps, AiConsoleKeeps, AiQueryKeeps DEF AiNext
  <2>4. QED
    BY <2>1, <2>2, <2>3
<1>3. QED
  BY <1>1, <1>2, PTL DEF AiSpec

\* The snapshots as a refresh at an earlier time would make them of what is stored now.
CatsAsOf == \E t \in Nat : t <= aiNow /\ aiCats = CategoriesWith(t, aiAllow)
BlocksAsOf == \E t \in Nat : t <= aiNow /\ aiBlocks = IF aiCfg.enforce THEN BlocksWith(aiCfg, t, aiAllow) ELSE {}

RowFields == {"name", "channel", "status", "cat", "sure", "disputed", "expires", "made", "again"}

AiTyped ==
  /\ aiNow \in Nat
  /\ \A r \in aiRows : DOMAIN r = RowFields /\ r.channel \in Channels /\ r.expires \in Nat
  /\ DOMAIN aiScan = {"pc", "cfg", "fresh"} /\ aiScan.pc \in {"idle", "classify", "refresh"}
  /\ \A w \in AiWho : /\ aiPub[w].pc \in {"none", "wants", "cats", "blocks"}
                      /\ aiPub[w].pc # "none" => aiPub[w].now \in Nat /\ aiPub[w].now <= aiNow

Publishing(w) == aiPub[w].pc \in {"cats", "blocks"}

\* One refresh at a time, with the settings in force or a cycle asked for, and
\* with the exemptions stored, unless a call waits that has changed them.
AiTurns ==
  /\ aiScan.pc = "refresh" <=> aiPub["scan"].pc # "none"
  /\ aiPub["scan"].pc # "none" => aiPub["scan"].cfg = aiScan.cfg
  /\ aiScan.pc # "idle" /\ ~aiWake => aiScan.cfg = aiCfg
  /\ aiPub["web"].pc # "none" => aiPub["web"].cfg = aiCfg
  /\ ~(Publishing("scan") /\ Publishing("web"))
  /\ Publishing("web") => aiExempt = aiAllow /\ aiPub["web"].allow = aiAllow
  /\ Publishing("scan") /\ aiPub["web"].pc = "none" => aiExempt = aiAllow /\ aiPub["scan"].allow = aiAllow

\* A refresh that came to the blocks has done the categories.
CatsDone ==
  ~aiErred /\ \/ aiPub["web"].pc = "blocks" /\ aiScan.pc = "idle"
              \/ aiPub["scan"].pc = "blocks" /\ aiPub["web"].pc = "none"
    => CatsAsOf

AllDone ==
  aiScan.pc = "idle" /\ ~aiWake /\ aiPub["web"].pc = "none" /\ aiCfg.on /\ ~aiErred
    => aiExempt = aiAllow /\ CatsAsOf /\ BlocksAsOf

SnInv == AiShape /\ AiTyped /\ AiTurns /\ CatsDone /\ AllDone

\* With what is stored unchanged, the snapshots stay as of their time.
LEMMA AsOfStays ==
  ASSUME AiTyped, aiNow' \in Nat, aiNow <= aiNow', UNCHANGED <<aiRows, aiAllow, aiRelabels>>
  PROVE  /\ CatsAsOf /\ UNCHANGED aiCats => CatsAsOf'
         /\ BlocksAsOf /\ UNCHANGED <<aiBlocks, aiCfg>> => BlocksAsOf'
<1>1. aiNow \in Nat /\ \A t \in Nat : t <= aiNow => t <= aiNow'
  BY DEF AiTyped
<1>2. ASSUME CatsAsOf, UNCHANGED aiCats PROVE CatsAsOf'
  <2>1. PICK t \in Nat : t <= aiNow /\ aiCats = CategoriesWith(t, aiAllow)
    BY <1>2 DEF CatsAsOf
  <2>2. aiCats' = CategoriesWith(t, aiAllow)' /\ t <= aiNow'
    BY <1>1, <1>2, <2>1 DEF CategoriesWith
  <2>3. QED
    BY <2>2 DEF CatsAsOf
<1>3. ASSUME BlocksAsOf, UNCHANGED <<aiBlocks, aiCfg>> PROVE BlocksAsOf'
  <2>1. PICK t \in Nat : t <= aiNow /\ aiBlocks = IF aiCfg.enforce THEN BlocksWith(aiCfg, t, aiAllow) ELSE {}
    BY <1>3 DEF BlocksAsOf
  <2>2. aiBlocks' = (IF aiCfg'.enforce THEN BlocksWith(aiCfg, t, aiAllow)' ELSE {}) /\ t <= aiNow'
    BY <1>1, <1>3, <2>1 DEF BlocksWith
  <2>3. QED
    BY <2>2 DEF BlocksAsOf
<1>4. QED
  BY <1>2, <1>3

\* The queries and the clock: nothing stored or published changes.
LEMMA SnBeside ==
  ASSUME SnInv, aiNow' \in Nat, aiNow <= aiNow', AiShape', DOMAIN aiScan' = {"pc", "cfg", "fresh"},
         aiScan'.pc = aiScan.pc, aiScan'.cfg = aiScan.cfg,
         UNCHANGED <<aiStore, aiCfg, aiSnapshots, aiWake, aiPub, aiErred>>
  PROVE  SnInv'
<1>1. UNCHANGED <<aiRows, aiAllow, aiRelabels, aiExempt, aiCats, aiBlocks>>
  BY DEF aiStore, aiSnapshots
<1>2. AiTyped'
  <2>1. aiNow \in Nat
    BY DEF SnInv, AiTyped
  <2>2. \A w \in AiWho : aiPub[w].pc # "none" => aiPub[w].now \in Nat /\ aiPub[w].now <= aiNow'
    BY <2>1 DEF SnInv, AiTyped
  <2>3. QED
    BY <1>1, <2>2 DEF SnInv, AiTyped
<1>3. AiTurns'
  BY <1>1 DEF SnInv, AiTurns, Publishing
<1>4. CatsDone' /\ AllDone'
  BY <1>1, AsOfStays DEF SnInv, CatsDone, AllDone
<1>5. QED
  BY <1>2, <1>3, <1>4 DEF SnInv

\* A refresh takes its turn: the exemptions go out.
LEMMA SnExempts == ASSUME SnInv, NEW w \in AiWho, AiExempts(w) PROVE SnInv'
<1> DEFINE r == [aiPub[w] EXCEPT !.pc = "cats", !.allow = aiAllow]
<1>1. /\ aiPub[w].pc = "wants" /\ LockFree /\ aiPub' = [aiPub EXCEPT ![w].pc = "cats", ![w].allow = aiAllow]
      /\ aiExempt' = aiAllow /\ UNCHANGED <<aiNow, aiRows, aiAllow, aiRelabels, aiCfg, aiScan, aiWake, aiAsk>>
  BY DEF AiExempts, aiBounds, aiStore
<1>2. aiPub = [v \in AiWho |-> aiPub[v]] /\ DOMAIN aiPub[w] = {"pc", "cfg", "now", "allow"} /\ AiShape
  BY DEF SnInv, AiShape
<1>3. /\ aiPub' = [aiPub EXCEPT ![w] = r] /\ DOMAIN r = {"pc", "cfg", "now", "allow"}
      /\ r.pc = "cats" /\ r.cfg = aiPub[w].cfg /\ r.now = aiPub[w].now /\ r.allow = aiAllow
  BY <1>1, <1>2
<1> HIDE DEF r
<1>4. AiShape' /\ aiPub'[w] = r /\ \A v \in AiWho \ {w} : aiPub'[v] = aiPub[v]
  BY <1>1, <1>2, <1>3, RefreshShape
<1>5. AiTyped'
  <2>1. \A v \in AiWho : /\ aiPub'[v].pc \in {"none", "wants", "cats", "blocks"}
                         /\ aiPub'[v].pc # "none" => aiPub'[v].now \in Nat /\ aiPub'[v].now <= aiNow
    BY <1>1, <1>3, <1>4 DEF SnInv, AiTyped
  <2>2. QED
    BY <1>1, <2>1 DEF SnInv, AiTyped
<1>6. \A v \in AiWho : aiPub'[v].pc # "blocks" /\ (aiPub'[v].pc = "none" <=> aiPub[v].pc = "none") /\ aiPub'[v].cfg = aiPub[v].cfg
  BY <1>1, <1>3, <1>4 DEF LockFree
<1>7. \A v \in AiWho : Publishing(v)' => v = w /\ aiPub'[v].allow = aiAllow
  BY <1>1, <1>3, <1>4 DEF LockFree, Publishing
<1>8. "scan" \in AiWho /\ "web" \in AiWho
  BY DEF AiWho
<1>9. AiTurns'
  BY <1>1, <1>6, <1>7, <1>8 DEF SnInv, AiTurns
<1>10. CatsDone'
  BY <1>6, <1>8 DEF CatsDone
<1>11. AllDone'
  <2>1. aiPub'["web"].pc # "none" \/ aiScan'.pc # "idle"
    BY <1>1, <1>6 DEF SnInv, AiTurns, AiWho
  <2>2. QED
    BY <2>1 DEF AllDone
<1>12. QED
  BY <1>4, <1>5, <1>9, <1>10, <1>11 DEF SnInv

\* The categories go out, or are left as they were.
LEMMA SnCategorizes == ASSUME SnInv, NEW w \in AiWho, AiCategorizes(w) PROVE SnInv'
<1> DEFINE r == [aiPub[w] EXCEPT !.pc = "blocks"]
<1>1. /\ aiPub[w].pc = "cats" /\ aiPub' = [aiPub EXCEPT ![w].pc = "blocks"]
      /\ aiErred' \/ (aiCats' = CategoriesWith(aiPub[w].now, aiPub[w].allow) /\ UNCHANGED aiErred)
      /\ UNCHANGED <<aiNow, aiRows, aiAllow, aiRelabels, aiExempt, aiCfg, aiScan, aiWake, aiAsk>>
  BY DEF AiCategorizes, AiFault, aiStore
<1>2. aiPub = [v \in AiWho |-> aiPub[v]] /\ DOMAIN aiPub[w] = {"pc", "cfg", "now", "allow"} /\ AiShape
  BY DEF SnInv, AiShape
<1>3. /\ aiPub' = [aiPub EXCEPT ![w] = r] /\ DOMAIN r = {"pc", "cfg", "now", "allow"}
      /\ r.pc = "blocks" /\ r.cfg = aiPub[w].cfg /\ r.now = aiPub[w].now /\ r.allow = aiPub[w].allow
  BY <1>1, <1>2
<1> HIDE DEF r
<1>4. AiShape' /\ aiPub'[w] = r /\ \A v \in AiWho \ {w} : aiPub'[v] = aiPub[v]
  BY <1>1, <1>2, <1>3, RefreshShape
<1>5. AiTyped'
  <2>1. \A v \in AiWho : /\ aiPub'[v].pc \in {"none", "wants", "cats", "blocks"}
                         /\ aiPub'[v].pc # "none" => aiPub'[v].now \in Nat /\ aiPub'[v].now <= aiNow
    BY <1>1, <1>3, <1>4 DEF SnInv, AiTyped
  <2>2. QED
    BY <1>1, <2>1 DEF SnInv, AiTyped
<1>6. \A v \in AiWho : /\ (aiPub'[v].pc = "none" <=> aiPub[v].pc = "none") /\ aiPub'[v].cfg = aiPub[v].cfg
                       /\ aiPub'[v].allow = aiPub[v].allow /\ (Publishing(v)' <=> Publishing(v))
  BY <1>1, <1>3, <1>4 DEF Publishing
<1>7. "scan" \in AiWho /\ "web" \in AiWho /\ (w = "scan" \/ w = "web")
  BY DEF AiWho
<1>8. AiTurns'
  BY <1>1, <1>6, <1>7 DEF SnInv, AiTurns
<1>9. CatsDone'
  <2>1. SUFFICES ASSUME ~aiErred',
                        (aiPub'["web"].pc = "blocks" /\ aiScan'.pc = "idle") \/ (aiPub'["scan"].pc = "blocks" /\ aiPub'["web"].pc = "none")
                 PROVE  CatsAsOf'
    BY DEF CatsDone
  <2>2. Publishing(w) /\ \A v \in AiWho \ {w} : aiPub[v].pc # "blocks"
    BY <1>1, <1>7 DEF SnInv, AiTurns, Publishing, AiWho
  <2>3. aiPub[w].allow = aiAllow
    BY <1>6, <1>7, <2>1, <2>2, <1>4 DEF SnInv, AiTurns
  <2>4. aiPub[w].now \in Nat /\ aiPub[w].now <= aiNow
    BY <1>1 DEF SnInv, AiTyped
  <2>5. aiCats' = CategoriesWith(aiPub[w].now, aiAllow)
    BY <1>1, <2>1, <2>3
  <2>6. PICK t \in Nat : t = aiPub[w].now
    BY <2>4
  <2>7. aiCats' = CategoriesWith(t, aiAllow)' /\ t <= aiNow'
    BY <1>1, <2>4, <2>5, <2>6 DEF CategoriesWith
  <2>8. QED
    BY <2>7 DEF CatsAsOf
<1>10. AllDone'
  <2>1. aiPub'["web"].pc # "none" \/ aiScan'.pc # "idle"
    BY <1>1, <1>6, <1>7 DEF SnInv, AiTurns
  <2>2. QED
    BY <2>1 DEF AllDone
<1>11. QED
  BY <1>4, <1>5, <1>8, <1>9, <1>10 DEF SnInv

\* What the end of a refresh leaves.
LEMMA RefreshedTurns ==
  ASSUME SnInv, NEW w \in AiWho, Refreshed(w), aiPub[w].pc # "none", Publishing(w) \/ LockFree,
         UNCHANGED <<aiNow, aiRows, aiAllow, aiExempt, aiCfg, aiWake, aiAsk>>
  PROVE  /\ AiShape' /\ AiTyped' /\ AiTurns' /\ aiPub'[w].pc = "none"
         /\ \A v \in AiWho : aiPub'[v].pc # "blocks"
         /\ \A v \in AiWho \ {w} : aiPub'[v] = aiPub[v]
         /\ w # "scan" => UNCHANGED aiScan
<1>1. aiPub' = [aiPub EXCEPT ![w] = NoRefresh] /\ DOMAIN NoRefresh = {"pc", "cfg", "now", "allow"} /\ NoRefresh.pc = "none"
  BY DEF Refreshed, NoRefresh
<1>2. AiShape' /\ aiPub'[w] = NoRefresh /\ \A v \in AiWho \ {w} : aiPub'[v] = aiPub[v]
  BY <1>1, RefreshShape DEF SnInv
<1>3. "scan" \in AiWho /\ "web" \in AiWho /\ (w = "scan" \/ w = "web")
  BY DEF AiWho
<1>4. \A v \in AiWho : aiPub'[v].pc # "blocks" /\ ~Publishing(v)'
  BY <1>1, <1>2, <1>3 DEF SnInv, AiTurns, Publishing, LockFree, AiWho
<1>5. DOMAIN NoCycle = {"pc", "cfg", "fresh"} /\ NoCycle.pc = "idle"
  BY DEF NoCycle
<1>6. (w = "scan" => aiScan' = NoCycle) /\ (w = "web" => aiScan' = aiScan)
  BY DEF Refreshed
<1>7. AiTyped'
  <2>1. \A v \in AiWho : /\ aiPub'[v].pc \in {"none", "wants", "cats", "blocks"}
                         /\ aiPub'[v].pc # "none" => aiPub'[v].now \in Nat /\ aiPub'[v].now <= aiNow
    BY <1>1, <1>2 DEF SnInv, AiTyped
  <2>2. DOMAIN aiScan' = {"pc", "cfg", "fresh"} /\ aiScan'.pc \in {"idle", "classify", "refresh"}
    BY <1>3, <1>5, <1>6 DEF SnInv, AiTyped
  <2>3. QED
    BY <2>1, <2>2 DEF SnInv, AiTyped
<1>8. AiTurns'
  <2>1. CASE w = "scan"
    BY <1>1, <1>2, <1>3, <1>4, <1>5, <1>6, <2>1 DEF SnInv, AiTurns
  <2>2. CASE w = "web"
    BY <1>1, <1>2, <1>3, <1>4, <1>6, <2>2 DEF SnInv, AiTurns
  <2>3. QED
    BY <1>3, <2>1, <2>2
<1>9. QED
  BY <1>1, <1>2, <1>3, <1>4, <1>6, <1>7, <1>8

\* A refresh that cannot read the exemptions changes nothing.
LEMMA SnExemptsFails == ASSUME SnInv, NEW w \in AiWho, AiExemptsFails(w) PROVE SnInv'
<1>1. aiPub[w].pc = "wants" /\ LockFree /\ aiErred' /\ Refreshed(w) /\ UNCHANGED <<aiNow, aiRows, aiAllow, aiExempt, aiCfg, aiWake, aiAsk>>
  BY DEF AiExemptsFails, AiFault, aiStore, aiSnapshots
<1>2. AiShape' /\ AiTyped' /\ AiTurns'
  BY <1>1, RefreshedTurns
<1>3. QED
  BY <1>1, <1>2 DEF SnInv, CatsDone, AllDone

\* The blocks go out, and the refresh is done.
LEMMA SnPublishes == ASSUME SnInv, NEW w \in AiWho, AiPublishesBlocks(w) PROVE SnInv'
<1> DEFINE p == aiPub[w]
<1>1. /\ p.pc = "blocks" /\ Refreshed(w) /\ UNCHANGED <<aiNow, aiRows, aiAllow, aiRelabels, aiCfg, aiExempt, aiCats, aiWake, aiAsk>>
      /\ \/ aiErred'
         \/ aiBlocks' = (IF p.cfg.enforce THEN BlocksWith(p.cfg, p.now, p.allow) ELSE {}) /\ UNCHANGED aiErred
  BY DEF AiPublishesBlocks, AiFault, aiStore
<1>2. /\ AiShape' /\ AiTyped' /\ AiTurns' /\ aiPub'[w].pc = "none" /\ \A v \in AiWho : aiPub'[v].pc # "blocks"
      /\ \A v \in AiWho \ {w} : aiPub'[v] = aiPub[v]
      /\ w # "scan" => UNCHANGED aiScan
  BY <1>1, RefreshedTurns DEF Publishing
<1>3. "scan" \in AiWho /\ "web" \in AiWho /\ (w = "scan" \/ w = "web")
  BY DEF AiWho
<1>4. CatsDone'
  BY <1>2, <1>3 DEF CatsDone
<1>5. AllDone'
  <2>1. SUFFICES ASSUME aiScan'.pc = "idle", ~aiWake, aiPub'["web"].pc = "none", ~aiErred' PROVE aiExempt' = aiAllow' /\ CatsAsOf' /\ BlocksAsOf'
    BY <1>1 DEF AllDone
  <2>2. ~aiErred /\ aiBlocks' = IF p.cfg.enforce THEN BlocksWith(p.cfg, p.now, p.allow) ELSE {}
    BY <1>1, <2>1
  <2>3. Publishing(w)
    BY <1>1 DEF Publishing
  <2>4. CatsAsOf /\ aiExempt = aiAllow /\ p.allow = aiAllow /\ p.cfg = aiCfg
    <3>1. CASE w = "scan"
      <4>1. aiPub["web"].pc = "none" /\ aiScan.pc # "idle"
        BY <1>1, <1>2, <1>3, <2>1, <3>1 DEF SnInv, AiTurns
      <4>2. QED
        BY <1>1, <2>1, <2>2, <2>3, <3>1, <4>1 DEF SnInv, AiTurns, CatsDone
    <3>2. CASE w = "web"
      <4>1. aiScan.pc = "idle"
        BY <1>2, <2>1, <3>2
      <4>2. QED
        BY <1>1, <2>2, <2>3, <3>2, <4>1 DEF SnInv, AiTurns, CatsDone
    <3>3. QED
      BY <1>3, <3>1, <3>2
  <2>5. p.now \in Nat /\ p.now <= aiNow /\ aiNow \in Nat /\ aiNow <= aiNow
    BY <1>1 DEF SnInv, AiTyped
  <2>6. PICK t \in Nat : t = p.now
    BY <2>5
  <2>7. aiBlocks' = IF aiCfg.enforce THEN BlocksWith(aiCfg, t, aiAllow) ELSE {}
    BY <2>2, <2>4, <2>6
  <2> HIDE DEF p
  <2>8. aiBlocks' = (IF aiCfg'.enforce THEN BlocksWith(aiCfg, t, aiAllow)' ELSE {}) /\ t <= aiNow'
    BY <1>1, <2>5, <2>7, <2>6 DEF BlocksWith
  <2>9. BlocksAsOf'
    BY <2>8 DEF BlocksAsOf
  <2>10. CatsAsOf'
    BY <1>1, <2>4, <2>5, AsOfStays DEF SnInv
  <2>11. QED
    BY <1>1, <2>4, <2>9, <2>10
<1>6. QED
  BY <1>2, <1>4, <1>5 DEF SnInv

\* Rows keep their shape when they are set aside, seen again or judged.
LEMMA RowsTyped ==
  ASSUME AiTyped, NEW rows, \A r \in rows : DOMAIN r = RowFields /\ r.channel \in Channels /\ r.expires \in Nat
  PROVE  /\ \A r \in Expired(rows) : DOMAIN r = RowFields /\ r.channel \in Channels /\ r.expires \in Nat
         /\ \A names : \A r \in SeenAgain(rows, names) : DOMAIN r = RowFields /\ r.channel \in Channels /\ r.expires \in Nat
<1>1. ASSUME NEW n, NEW c \in Channels
      PROVE  DOMAIN PendingRow(n, c) = RowFields /\ PendingRow(n, c).channel \in Channels /\ PendingRow(n, c).expires \in Nat
  BY <1>1 DEF PendingRow, RowFields
<1>2. \A r \in Expired(rows) : r \in rows \/ \E q \in rows : r = PendingRow(q.name, q.channel)
  BY DEF Expired
<1>3. ASSUME NEW names, NEW r \in SeenAgain(rows, names)
      PROVE  r \in rows \/ (\E q \in rows : r = [q EXCEPT !.again = TRUE]) \/ (\E l \in names \X Channels : r = PendingRow(l[1], l[2]))
  BY <1>3 DEF SeenAgain
<1>4. ASSUME NEW q \in rows
      PROVE  LET r == [q EXCEPT !.again = TRUE] IN DOMAIN r = RowFields /\ r.channel \in Channels /\ r.expires \in Nat
  <2>1. DOMAIN q = RowFields
    OBVIOUS
  <2>2. [q EXCEPT !.again = TRUE].channel = q.channel /\ [q EXCEPT !.again = TRUE].expires = q.expires
    BY <2>1 DEF RowFields
  <2>3. QED
    BY <2>1, <2>2
<1>5. \A r \in Expired(rows) : DOMAIN r = RowFields /\ r.channel \in Channels /\ r.expires \in Nat
  BY <1>1, <1>2
<1>6. ASSUME NEW names, NEW r \in SeenAgain(rows, names)
      PROVE  DOMAIN r = RowFields /\ r.channel \in Channels /\ r.expires \in Nat
  <2>1. CASE r \in rows
    BY <2>1
  <2>2. CASE \E q \in rows : r = [q EXCEPT !.again = TRUE]
    BY <1>4, <2>2
  <2>3. CASE \E l \in names \X Channels : r = PendingRow(l[1], l[2])
    BY <1>1, <2>3
  <2>4. QED
    BY <1>3, <2>1, <2>2, <2>3
<1>7. QED
  BY <1>5, <1>6

\* The cycle: what it changes in the store is published when it ends, or it failed.
LEMMA SnCycleBegins == ASSUME SnInv, AiCycleBegins PROVE SnInv'
<1>1. /\ aiScan.pc = "idle" /\ aiWake' = FALSE
      /\ UNCHANGED <<aiNow, aiAllow, aiRelabels, aiExempt, aiCats, aiBlocks, aiCfg, aiPub, aiAsk, aiErred>>
      /\ \/ /\ aiCfg.on /\ aiScan' = [pc |-> "classify", cfg |-> aiCfg, fresh |-> {}]
            /\ \E rows \in {aiRows, Expired(aiRows)} : aiRows' = SeenAgain(rows, Candidates(aiLog))
         \/ ~aiCfg.on /\ UNCHANGED <<aiScan, aiRows>>
  BY DEF AiCycleBegins, aiSnapshots
<1>2. CASE ~aiCfg.on /\ UNCHANGED <<aiScan, aiRows>>
  <2>1. AiShape' /\ AiTyped' /\ AiTurns'
    BY <1>1, <1>2 DEF SnInv, AiShape, AiTyped, AiTurns, Publishing
  <2>2. CatsAsOf => CatsAsOf'
    BY <1>1, <1>2, AsOfStays DEF SnInv, AiTyped
  <2>3. CatsDone' /\ AllDone'
    BY <1>1, <1>2, <2>2 DEF SnInv, CatsDone, AllDone
  <2>4. QED
    BY <2>1, <2>3 DEF SnInv
<1>3. CASE /\ aiScan' = [pc |-> "classify", cfg |-> aiCfg, fresh |-> {}]
           /\ \E rows \in {aiRows, Expired(aiRows)} : aiRows' = SeenAgain(rows, Candidates(aiLog))
  <2>1. \A r \in aiRows' : DOMAIN r = RowFields /\ r.channel \in Channels /\ r.expires \in Nat
    BY <1>3, RowsTyped DEF SnInv, AiTyped
  <2>2. DOMAIN aiScan' = {"pc", "cfg", "fresh"} /\ aiScan'.pc = "classify" /\ aiScan'.cfg = aiCfg
    BY <1>3
  <2>3. AiShape' /\ AiTyped'
    BY <1>1, <2>1, <2>2 DEF SnInv, AiShape, AiTyped
  <2>4. aiPub["scan"].pc = "none"
    BY <1>1 DEF SnInv, AiTurns
  <2>5. AiTurns'
    BY <1>1, <2>2, <2>4 DEF SnInv, AiTurns, Publishing
  <2>6. CatsDone' /\ AllDone'
    BY <1>1, <2>2, <2>4 DEF CatsDone, AllDone
  <2>7. QED
    BY <2>3, <2>5, <2>6 DEF SnInv
<1>4. QED
  BY <1>1, <1>2, <1>3

\* The verdicts of a cycle.
LEMMA SnClassifies == ASSUME SnInv, AiClassifies PROVE SnInv'
<1> DEFINE judged(r, v) == [r EXCEPT !.status = v.status, !.cat = v.cat, !.sure = v.sure, !.disputed = v.disputed,
                                     !.made = aiNow, !.expires = aiNow + AiTtl[r.channel]]
           q == [pc |-> "wants", cfg |-> aiScan.cfg, now |-> aiNow, allow |-> {}]
<1>1. /\ aiScan.pc = "classify" /\ aiScan' = [aiScan EXCEPT !.pc = "refresh"] /\ aiPub' = [aiPub EXCEPT !["scan"] = q]
      /\ UNCHANGED <<aiNow, aiAllow, aiRelabels, aiExempt, aiCats, aiBlocks, aiCfg, aiWake, aiAsk, aiErred>>
  BY DEF AiClassifies, aiBounds, aiSnapshots
<1>2. \A r \in aiRows' : r \in aiRows \/ \E o \in aiRows, v \in UNION {AiVerdicts[c] : c \in Channels} : r = judged(o, v)
  BY DEF AiClassifies
<1>3. ASSUME NEW o \in aiRows, NEW v PROVE DOMAIN judged(o, v) = RowFields /\ judged(o, v).channel \in Channels /\ judged(o, v).expires \in Nat
  <2>1. DOMAIN o = RowFields /\ o.channel \in Channels /\ aiNow \in Nat
    BY DEF SnInv, AiTyped
  <2>2. aiNow + AiTtl[o.channel] \in Nat
    BY <2>1, AiAssumption
  <2>3. DOMAIN judged(o, v) = DOMAIN o
    OBVIOUS
  <2>4. judged(o, v).channel = o.channel /\ judged(o, v).expires = aiNow + AiTtl[o.channel]
    BY <2>1 DEF RowFields
  <2>5. QED
    BY <2>1, <2>2, <2>3, <2>4
<1> HIDE DEF judged
<1>4. \A r \in aiRows' : DOMAIN r = RowFields /\ r.channel \in Channels /\ r.expires \in Nat
  BY <1>2, <1>3 DEF SnInv, AiTyped
<1>5. "scan" \in AiWho /\ "web" \in AiWho \ {"scan"} /\ DOMAIN aiScan = {"pc", "cfg", "fresh"} /\ aiNow \in Nat /\ aiNow <= aiNow
  BY DEF AiWho, SnInv, AiTyped
<1>6. DOMAIN aiScan' = {"pc", "cfg", "fresh"} /\ aiScan'.pc = "refresh" /\ aiScan'.cfg = aiScan.cfg
  BY <1>1, <1>5
<1>7. DOMAIN q = {"pc", "cfg", "now", "allow"} /\ q.pc = "wants" /\ q.cfg = aiScan.cfg /\ q.now = aiNow
  OBVIOUS
<1> HIDE DEF q
<1>8. AiShape' /\ aiPub'["scan"] = q /\ \A v \in AiWho \ {"scan"} : aiPub'[v] = aiPub[v]
  BY <1>1, <1>5, <1>7, RefreshShape DEF SnInv
<1>9. \A w \in AiWho : /\ aiPub'[w].pc \in {"none", "wants", "cats", "blocks"}
                       /\ aiPub'[w].pc # "none" => aiPub'[w].now \in Nat /\ aiPub'[w].now <= aiNow
  BY <1>5, <1>7, <1>8 DEF SnInv, AiTyped
<1>10. AiTyped'
  BY <1>1, <1>4, <1>5, <1>6, <1>9 DEF AiTyped
<1>11. AiTurns'
  BY <1>1, <1>5, <1>6, <1>7, <1>8 DEF SnInv, AiTurns, Publishing
<1>12. CatsDone' /\ AllDone'
  BY <1>6, <1>7, <1>8 DEF CatsDone, AllDone
<1>13. QED
  BY <1>8, <1>10, <1>11, <1>12 DEF SnInv

\* A cycle that fails.
LEMMA SnCycleFails == ASSUME SnInv, AiCycleFails PROVE SnInv'
<1>1. /\ aiScan.pc = "classify" /\ aiErred' /\ aiScan' = NoCycle
      /\ UNCHANGED <<aiNow, aiRows, aiAllow, aiExempt, aiCfg, aiWake, aiPub, aiAsk>>
  BY DEF AiCycleFails, AiFault, aiStore, aiSnapshots
<1>2. DOMAIN aiScan' = {"pc", "cfg", "fresh"} /\ aiScan'.pc = "idle"
  BY <1>1 DEF NoCycle
<1>3. AiShape' /\ AiTyped' /\ AiTurns'
  BY <1>1, <1>2 DEF SnInv, AiShape, AiTyped, AiTurns, Publishing
<1>4. QED
  BY <1>1, <1>3 DEF SnInv, CatsDone, AllDone

\* A call of the console: it will publish what it changed.
LEMMA SnCalls ==
  ASSUME SnInv, NEW x, AiCalls(x), AiShape', UNCHANGED aiCfg \/ aiWake', aiWake => aiWake'
  PROVE  SnInv'
<1> DEFINE q == [pc |-> "wants", cfg |-> aiCfg', now |-> aiNow, allow |-> {}]
<1>1. /\ aiPub["web"].pc = "none" /\ aiPub' = [aiPub EXCEPT !["web"] = q]
      /\ UNCHANGED <<aiNow, aiRows, aiExempt, aiScan, aiErred>>
  BY DEF AiCalls, aiSnapshots
<1>2. DOMAIN q = {"pc", "cfg", "now", "allow"} /\ q.pc = "wants" /\ q.cfg = aiCfg' /\ q.now = aiNow
  OBVIOUS
<1> HIDE DEF q
<1>3. "web" \in AiWho /\ "scan" \in AiWho \ {"web"} /\ aiNow \in Nat /\ aiNow <= aiNow
  BY DEF AiWho, SnInv, AiTyped
<1>4. aiPub'["web"] = q /\ \A v \in AiWho \ {"web"} : aiPub'[v] = aiPub[v]
  BY <1>1, <1>3 DEF SnInv, AiShape
<1>5. \A w \in AiWho : /\ aiPub'[w].pc \in {"none", "wants", "cats", "blocks"}
                       /\ aiPub'[w].pc # "none" => aiPub'[w].now \in Nat /\ aiPub'[w].now <= aiNow
  BY <1>2, <1>3, <1>4 DEF SnInv, AiTyped
<1>6. AiTyped'
  BY <1>1, <1>5 DEF SnInv, AiTyped
<1>7. AiTurns'
  BY <1>1, <1>2, <1>3, <1>4 DEF SnInv, AiTurns, Publishing
<1>8. CatsDone' /\ AllDone'
  BY <1>2, <1>4 DEF CatsDone, AllDone
<1>9. QED
  BY <1>6, <1>7, <1>8 DEF SnInv

\* The step of everything that is not a query.
LEMMA SnConsole ==
  ASSUME SnInv, AiInv', NEW n, NEW cat, NEW cfg,
         AiSetAllow(n) \/ AiClear(n) \/ AiClearLabel(n) \/ AiRelabel(n, cat) \/ AiSaveSettings(cfg)
  PROVE  SnInv'
<1>1. AiShape'
  BY DEF AiInv
<1>2. PICK x : AiCalls(x)
  BY DEF AiSetAllow, AiClear, AiClearLabel, AiRelabel, AiSaveSettings
<1>3. (UNCHANGED aiCfg \/ aiWake') /\ (aiWake => aiWake')
  BY DEF AiSetAllow, AiClear, AiClearLabel, AiRelabel, AiSaveSettings
<1>4. QED
  BY <1>1, <1>2, <1>3, SnCalls

\* The queries and the clock.
LEMMA SnQuery == ASSUME SnInv, AiInv', NEW n, NEW c, AiAsks(n, c) \/ AiNamed \/ AiDecides \/ AiTick PROVE SnInv'
<1>1. AiShape' /\ UNCHANGED <<aiStore, aiCfg, aiSnapshots, aiWake, aiPub, aiErred>>
  BY DEF AiInv, AiAsks, AiNamed, AiDecides, AiTick
<1>2. aiNow \in Nat /\ DOMAIN aiScan = {"pc", "cfg", "fresh"}
  BY DEF SnInv, AiTyped
<1>3. aiNow' \in Nat /\ aiNow <= aiNow'
  BY <1>2 DEF AiAsks, AiNamed, AiDecides, AiTick, aiBounds
<1>4. aiScan' = aiScan \/ \E f : aiScan' = [aiScan EXCEPT !.fresh = f]
  BY DEF AiAsks, AiNamed, AiDecides, AiTick
<1>5. DOMAIN aiScan' = {"pc", "cfg", "fresh"} /\ aiScan'.pc = aiScan.pc /\ aiScan'.cfg = aiScan.cfg
  BY <1>2, <1>4
<1>6. QED
  BY <1>1, <1>3, <1>5, SnBeside

\* Every step keeps the snapshots as of what is stored.
LEMMA SnStep == ASSUME SnInv, AiInv', [AiNext]_aiVars PROVE SnInv'
<1>1. CASE UNCHANGED aiVars
  <2>1. UNCHANGED <<aiNow, aiStore, aiCfg, aiSnapshots, aiWake, aiPub, aiErred, aiScan>>
    BY <1>1 DEF aiVars, aiBounds
  <2>2. aiNow' \in Nat /\ aiNow <= aiNow' /\ DOMAIN aiScan' = {"pc", "cfg", "fresh"} /\ aiScan' = aiScan
    BY <2>1 DEF SnInv, AiTyped
  <2>3. QED
    BY <2>1, <2>2, SnBeside DEF AiInv
<1>2. CASE AiNext
  BY <1>2, SnExempts, SnExemptsFails, SnCategorizes, SnPublishes, SnCycleBegins, SnClassifies, SnCycleFails, SnConsole, SnQuery DEF AiNext
<1>3. QED
  BY <1>1, <1>2

\* The scanner starts with no refresh made.
LEMMA SnStart == ASSUME AiInit PROVE SnInv
<1>1. NoRefresh.pc = "none" /\ DOMAIN NoRefresh = {"pc", "cfg", "now", "allow"} /\ DOMAIN NoCycle = {"pc", "cfg", "fresh"} /\ NoCycle.pc = "idle"
      /\ DOMAIN NoQuery = {"pc", "name", "client", "hit", "safe"}
  BY DEF NoRefresh, NoCycle, NoQuery
<1>2. aiPub = [w \in AiWho |-> NoRefresh] /\ aiAsk = NoQuery /\ aiScan = NoCycle /\ aiErred = TRUE /\ aiRows = {} /\ aiNow = 0
  BY DEF AiInit
<1>3. \A w \in AiWho : aiPub[w] = NoRefresh
  BY <1>2
<1>4. AiShape /\ AiTyped
  BY <1>1, <1>2, <1>3 DEF AiShape, AiTyped
<1>5. aiPub["web"].pc = "none" /\ aiPub["scan"].pc = "none"
  BY <1>1, <1>3 DEF AiWho
<1>6. AiTurns
  BY <1>1, <1>2, <1>5 DEF AiTurns, Publishing
<1>7. QED
  BY <1>2, <1>4, <1>6 DEF SnInv, CatsDone, AllDone

\* Blocks made at an earlier time are, as far as they have not expired, the ones
\* that would be made now.
LEMMA BlocksLater ==
  ASSUME SnInv, NEW t \in Nat, t <= aiNow, NEW e
  PROVE  e \in BlocksWith(aiCfg, aiNow, aiAllow) <=> e \in BlocksWith(aiCfg, t, aiAllow) /\ e.expires > aiNow
<1> DEFINE entry(r) == [name |-> r.name, cat |-> r.cat, expires |-> r.expires]
           made(u) == {r \in aiRows : /\ r.channel = "threat" /\ r.status = "classified" /\ ~r.disputed
                                      /\ r.sure >= aiCfg.least /\ r.expires > u /\ r.name \notin aiAllow
                                      /\ r.cat \in aiCfg.auto /\ ~ExemptBy(r.name, aiAllow)}
<1>1. \A u : BlocksWith(aiCfg, u, aiAllow) = {entry(r) : r \in made(u)}
  BY DEF BlocksWith
<1>2. \A r \in aiRows : r.expires \in Nat /\ aiNow \in Nat
  BY DEF SnInv, AiTyped
<1>3. \A r : r \in made(aiNow) <=> r \in made(t) /\ r.expires > aiNow
  BY <1>2
<1>4. \A r : entry(r).expires = r.expires
  OBVIOUS
<1> HIDE DEF entry, made
<1>5. QED
  BY <1>1, <1>3, <1>4

\* The content verdicts that hold at a time, the label of a name, and the
\* categories made of them, entry by entry.
FreshAt(u) == {r \in aiRows : r.channel = "content" /\ r.status = "classified" /\ r.expires > u}
LabelsOf(n) == {l.cat : l \in {l \in aiRelabels : l.name = n}}
FromRow(e, u) ==
  \E r \in FreshAt(u) : /\ ~ExemptBy(r.name, aiAllow) /\ e = [name |-> r.name, cat |-> e.cat, expires |-> r.expires]
                        /\ e.cat \in IF LabelsOf(r.name) = {} THEN {r.cat} ELSE LabelsOf(r.name)
FromLabel(e, u) ==
  \E l \in aiRelabels : /\ ~ExemptBy(l.name, aiAllow) /\ e = [name |-> l.name, cat |-> l.cat, expires |-> Forever]
                        /\ \A r \in FreshAt(u) : r.name # l.name

\* The categories are made of verdicts and of labels without one.
LEMMA CategoriesAre == ASSUME NEW u, NEW e PROVE e \in CategoriesWith(u, aiAllow) <=> FromRow(e, u) \/ FromLabel(e, u)
<1> DEFINE cats(r) == IF LabelsOf(r.name) = {} THEN {r.cat} ELSE LabelsOf(r.name)
           entries(r) == {[name |-> r.name, cat |-> c, expires |-> r.expires] : c \in cats(r)}
           rows == {r \in FreshAt(u) : ~ExemptBy(r.name, aiAllow)}
           rest == {l \in aiRelabels : ~ExemptBy(l.name, aiAllow) /\ \A r \in FreshAt(u) : r.name # l.name}
           ofRows == UNION {entries(r) : r \in rows}
           ofLabels == {[name |-> l.name, cat |-> l.cat, expires |-> Forever] : l \in rest}
<1>1. CategoriesWith(u, aiAllow) = ofRows \cup ofLabels
  BY DEF CategoriesWith, LabelsOf, FreshAt
<1>2. ASSUME NEW r PROVE e \in entries(r) <=> e = [name |-> r.name, cat |-> e.cat, expires |-> r.expires] /\ e.cat \in cats(r)
  <2> HIDE DEF cats
  <2>1. QED
    OBVIOUS
<1>3. (\E r \in rows : e \in entries(r)) <=> FromRow(e, u)
  BY <1>2 DEF FromRow
<1>4. (\E l \in rest : e = [name |-> l.name, cat |-> l.cat, expires |-> Forever]) <=> FromLabel(e, u)
  BY DEF FromLabel
<1> HIDE DEF entries, rows, rest
<1>5. e \in UNION {entries(r) : r \in rows} <=> \E r \in rows : e \in entries(r)
  BY Zenon
<1>6. e \in {[name |-> l.name, cat |-> l.cat, expires |-> Forever] : l \in rest}
        <=> \E l \in rest : e = [name |-> l.name, cat |-> l.cat, expires |-> Forever]
  OBVIOUS
<1>7. e \in ofRows <=> FromRow(e, u)
  BY <1>3, <1>5
<1>8. e \in ofLabels <=> FromLabel(e, u)
  BY <1>4, <1>6
<1> HIDE DEF ofRows, ofLabels
<1>9. QED
  BY <1>1, <1>7, <1>8

\* So are the ones made earlier, as far as they have not expired; a label beside
\* a verdict lapses with it.
LEMMA CategoriesLater ==
  ASSUME SnInv, NEW t \in Nat, t <= aiNow, NEW e, e.expires > aiNow
  PROVE  /\ e \in CategoriesWith(t, aiAllow) => e \in CategoriesWith(aiNow, aiAllow)
         /\ e \in CategoriesWith(aiNow, aiAllow) /\ (\A r \in aiRows : r.channel = "content" /\ r.expires <= aiNow => r.name # e.name)
              => e \in CategoriesWith(t, aiAllow)
<1>1. \A r \in aiRows : r.expires \in Nat /\ aiNow \in Nat
  BY DEF SnInv, AiTyped
<1>2. \A r : r \in FreshAt(aiNow) <=> r \in FreshAt(t) /\ r.expires > aiNow
  BY <1>1 DEF FreshAt
<1>3. FromRow(e, t) => FromRow(e, aiNow)
  <2>1. SUFFICES ASSUME FromRow(e, t) PROVE FromRow(e, aiNow)
    OBVIOUS
  <2>2. PICK r \in FreshAt(t) : /\ ~ExemptBy(r.name, aiAllow) /\ e = [name |-> r.name, cat |-> e.cat, expires |-> r.expires]
                                /\ e.cat \in IF LabelsOf(r.name) = {} THEN {r.cat} ELSE LabelsOf(r.name)
    BY <2>1 DEF FromRow
  <2>3. e.expires = r.expires
    BY <2>2
  <2>4. r \in FreshAt(aiNow)
    BY <1>2, <2>3
  <2>5. QED
    BY <2>2, <2>4 DEF FromRow
<1>4. FromLabel(e, t) => FromLabel(e, aiNow)
  BY <1>2 DEF FromLabel
<1>5. FromRow(e, aiNow) => FromRow(e, t)
  BY <1>2 DEF FromRow
<1>6. ASSUME FromLabel(e, aiNow), \A r \in aiRows : r.channel = "content" /\ r.expires <= aiNow => r.name # e.name PROVE FromLabel(e, t)
  <2>1. PICK l \in aiRelabels : /\ ~ExemptBy(l.name, aiAllow) /\ e = [name |-> l.name, cat |-> l.cat, expires |-> Forever]
                                /\ \A r \in FreshAt(aiNow) : r.name # l.name
    BY <1>6 DEF FromLabel
  <2>2. e.name = l.name
    BY <2>1
  <2>3. ASSUME NEW r \in FreshAt(t), r.name = l.name PROVE FALSE
    <3>1. r \notin FreshAt(aiNow) /\ r \in aiRows /\ r.channel = "content"
      BY <2>1, <2>3 DEF FreshAt
    <3>2. r.expires <= aiNow
      BY <1>1, <1>2, <3>1
    <3>3. QED
      BY <1>6, <2>2, <2>3, <3>1, <3>2
  <2>4. QED
    BY <2>1, <2>3 DEF FromLabel
<1>7. QED
  BY <1>3, <1>4, <1>5, <1>6, CategoriesAre

\* With nothing under way the snapshots say what is stored.
LEMMA SnapshotsHold == ASSUME SnInv PROVE SnapshotsInStep
<1> DEFINE alive(s) == {<<e.name, e.cat>> : e \in {e \in s : e.expires > aiNow}}
           lapsed == {r.name : r \in {r \in aiRows : r.channel = "content" /\ r.expires <= aiNow}}
           known == CategoriesWith(aiNow, aiAllow)
           want == IF aiCfg.enforce THEN BlocksWith(aiCfg, aiNow, aiAllow) ELSE {}
<1>1. SUFFICES ASSUME aiScan.pc = "idle", ~aiWake, aiPub["web"].pc = "none", aiCfg.on, ~aiErred
               PROVE  /\ aiExempt = aiAllow
                      /\ alive(aiCats) \subseteq alive(known) /\ alive({e \in known : e.name \notin lapsed}) \subseteq alive(aiCats)
                      /\ alive(aiBlocks) = alive(want)
  BY DEF SnapshotsInStep
<1>2. aiExempt = aiAllow /\ CatsAsOf /\ BlocksAsOf
  BY <1>1 DEF SnInv, AllDone
<1>3. PICK t \in Nat : t <= aiNow /\ aiCats = CategoriesWith(t, aiAllow)
  BY <1>2 DEF CatsAsOf
<1>4. \A e : e.expires > aiNow /\ e \in aiCats => e \in known
  BY <1>3, CategoriesLater
<1>5. \A e : e.expires > aiNow /\ e \in known /\ e.name \notin lapsed => e \in aiCats
  BY <1>3, CategoriesLater
<1> HIDE DEF known, lapsed
<1>6. alive(aiCats) \subseteq alive(known) /\ alive({e \in known : e.name \notin lapsed}) \subseteq alive(aiCats)
  BY <1>4, <1>5
<1>7. PICK u \in Nat : u <= aiNow /\ aiBlocks = IF aiCfg.enforce THEN BlocksWith(aiCfg, u, aiAllow) ELSE {}
  BY <1>2 DEF BlocksAsOf
<1>8. \A e : e \in want /\ e.expires > aiNow <=> e \in aiBlocks /\ e.expires > aiNow
  <2>1. CASE aiCfg.enforce
    BY <1>7, <2>1, BlocksLater
  <2>2. CASE ~aiCfg.enforce
    BY <1>7, <2>2
  <2>3. QED
    BY <2>1, <2>2
<1> HIDE DEF want
<1>9. {e \in want : e.expires > aiNow} = {e \in aiBlocks : e.expires > aiNow}
  BY <1>8
<1>10. alive(aiBlocks) = alive(want)
  BY <1>9
<1>11. QED
  BY <1>2, <1>6, <1>10

\* The AI scanner and the console: whatever cycles, refreshes, failures, edits of
\* exemptions, labels and settings come in between, a query that came in after an
\* exemption was confirmed is not blocked under it until it is taken back, and
\* with nothing under way the published snapshots say what the verdicts, the
\* console's labels and exemptions and the settings in force say.
THEOREM OperatorDecidesCorrect == AiSpec => []OperatorDecides
<1>1. AiInit => SnInv
  BY SnStart
<1>2. SnInv /\ AiInv' /\ [AiNext]_aiVars => SnInv'
  BY SnStep
<1>3. AiInv /\ SnInv => OperatorDecides
  BY SnapshotsHold DEF AiInv, OperatorDecides
<1>4. QED
  BY <1>1, <1>2, <1>3, AiInvariant, PTL DEF AiSpec

----------------------------------------------------------------------------
(* Limits *)

\* The times a history is counted before, the end of time among them.
Ends == 0 .. ThMaxTime + 1

\* `f` counts what `h` holds before each time up to `m`.
Counts(h, f, m) ==
  /\ f \in [0 .. m -> Nat]
  /\ f[0] = 0
  /\ \A t \in 0 .. m : t > 0 => f[t] = f[t - 1] + h[t - 1]

\* Counting can be carried on to any time: a least one it cannot reach would be
\* one past a time it reaches.
LEMMA CountsExist ==
  ASSUME ThMaxTime \in Nat, NEW h \in [Times -> Nat]
  PROVE  \E f : Counts(h, f, ThMaxTime + 1)
<1> DEFINE Bad == {m \in Ends : ~ \E f : Counts(h, f, m)}
<1>1. Ends \subseteq Nat /\ ThMaxTime + 1 \in Ends
  BY DEF Ends
<1>2. SUFFICES ASSUME Bad # {} PROVE FALSE
  BY <1>1
<1>3. PICK m \in Bad : \A k \in Bad : m <= k
  <2>1. Bad \subseteq Nat
    BY <1>1
  <2> HIDE DEF Bad
  <2>2. QED
    BY <2>1, <1>2, LeastNumber
<1>4. m \in Ends /\ m \in Nat /\ ~ \E f : Counts(h, f, m)
  BY <1>1
<1>5. CASE m = 0
  <2> DEFINE f == [t \in 0 .. 0 |-> 0]
  <2>1. Counts(h, f, 0)
    BY DEF Counts
  <2>2. QED
    BY <2>1, <1>4, <1>5
<1>6. CASE m # 0
  <2>1. m - 1 \in Ends /\ m - 1 \in Nat /\ ~(m <= m - 1)
    BY <1>4, <1>6 DEF Ends
  <2>2. m - 1 \notin Bad
    BY <2>1, <1>3
  <2>3. PICK f : Counts(h, f, m - 1)
    BY <2>1, <2>2
  <2> DEFINE g == [t \in 0 .. m |-> IF t = m THEN f[m - 1] + h[m - 1] ELSE f[t]]
  <2>4. h[m - 1] \in Nat
    BY <1>4, <1>6 DEF Ends, Times
  <2>5. f \in [0 .. (m - 1) -> Nat] /\ f[0] = 0 /\ \A t \in 0 .. (m - 1) : t > 0 => f[t] = f[t - 1] + h[t - 1]
    BY <2>3 DEF Counts
  <2>6. g \in [0 .. m -> Nat]
    BY <2>1, <2>4, <2>5, <1>4, <1>6
  <2>7. g[0] = 0
    BY <2>5, <1>4, <1>6
  <2>8. ASSUME NEW t \in 0 .. m, t > 0 PROVE g[t] = g[t - 1] + h[t - 1]
    <3>1. CASE t = m
      BY <3>1, <1>4, <1>6
    <3>2. CASE t # m
      BY <3>2, <2>8, <2>5, <1>4
    <3>3. QED
      BY <3>1, <3>2
  <2>9. Counts(h, g, m)
    BY <2>6, <2>7, <2>8 DEF Counts
  <2>10. QED
    BY <2>9, <1>4
<1>7. QED
  BY <1>5, <1>6

\* What Before is: it starts at nothing and grows by what each second holds.
LEMMA BeforeCounts ==
  ASSUME ThMaxTime \in Nat, NEW h \in [Times -> Nat]
  PROVE  /\ Before(h) \in [Ends -> Nat]
         /\ Before(h)[0] = 0
         /\ \A t \in Times : Before(h)[t + 1] = Before(h)[t] + h[t]
<1> DEFINE Next1(f) == [t \in 0 .. ThMaxTime + 1 |-> IF t = 0 THEN 0 ELSE f[t - 1] + h[t - 1]]
           B == CHOOSE f : f = Next1(f)
<1>1. PICK f : Counts(h, f, ThMaxTime + 1)
  BY CountsExist
<1>2. f \in [Ends -> Nat] /\ f[0] = 0 /\ \A t \in Ends : t > 0 => f[t] = f[t - 1] + h[t - 1]
  BY <1>1 DEF Counts, Ends
<1>3. \A t \in Ends : f[t] = IF t = 0 THEN 0 ELSE f[t - 1] + h[t - 1]
  BY <1>2 DEF Ends
<1>4. f = Next1(f)
  BY <1>2, <1>3 DEF Ends
<1>5. B = Next1(B)
  <2> HIDE DEF Next1
  <2>1. QED
    BY <1>4
<1>6. Before(h) = B
  BY DEF Before
<1> HIDE DEF B
<1>7. DOMAIN B = Ends /\ \A t \in Ends : B[t] = IF t = 0 THEN 0 ELSE B[t - 1] + h[t - 1]
  <2>1. DOMAIN Next1(B) = Ends /\ \A t \in Ends : Next1(B)[t] = IF t = 0 THEN 0 ELSE B[t - 1] + h[t - 1]
    BY DEF Ends
  <2> HIDE DEF Next1
  <2>2. QED
    BY <2>1, <1>5
<1>8. \A t \in Ends : B[t] = f[t]
  <2> DEFINE Bad == {t \in Ends : B[t] # f[t]}
  <2>1. SUFFICES ASSUME Bad # {} PROVE FALSE
    OBVIOUS
  <2>2. PICK m \in Bad : \A k \in Bad : m <= k
    <3>1. Bad \subseteq Nat
      BY DEF Ends
    <3> HIDE DEF Bad
    <3>2. QED
      BY <3>1, <2>1, LeastNumber
  <2>3. m \in Ends /\ m # 0
    BY <1>7, <1>3 DEF Ends
  <2>4. m - 1 \in Ends /\ ~(m <= m - 1)
    BY <2>3 DEF Ends
  <2>5. B[m - 1] = f[m - 1]
    BY <2>4, <2>2
  <2>6. QED
    BY <2>3, <2>5, <1>7, <1>3
<1>9. B \in [Ends -> Nat]
  <2>1. B = [t \in Ends |-> B[t]]
    <3>1. B = Next1(B)
      BY <1>5
    <3>2. Next1(B) = [t \in DOMAIN Next1(B) |-> Next1(B)[t]]
      OBVIOUS
    <3> HIDE DEF Next1
    <3>3. QED
      BY <3>1, <3>2, <1>7
  <2>2. QED
    BY <2>1, <1>8, <1>2
<1>10. ASSUME NEW t \in Times PROVE B[t + 1] = B[t] + h[t]
  <2>1. t + 1 \in Ends /\ t + 1 # 0 /\ (t + 1) - 1 = t
    BY DEF Times, Ends
  <2>2. QED
    BY <2>1, <1>7
<1>11. B[0] = 0
  BY <1>7 DEF Ends
<1>12. QED
  BY <1>6, <1>9, <1>10, <1>11

\* No later count is smaller.
LEMMA BeforeGrows ==
  ASSUME ThMaxTime \in Nat, NEW h \in [Times -> Nat], NEW i \in Ends, NEW j \in Ends, i <= j
  PROVE  Before(h)[i] <= Before(h)[j]
<1> DEFINE B == Before(h)
           Bad == {t \in Ends : i <= t /\ ~(B[i] <= B[t])}
<1>1. /\ B \in [Ends -> Nat]
      /\ \A t \in Times : B[t + 1] = B[t] + h[t]
  BY BeforeCounts
<1> HIDE DEF B
<1>2. SUFFICES ASSUME Bad # {} PROVE FALSE
  BY DEF B
<1>3. PICK m \in Bad : \A k \in Bad : m <= k
  <2>1. Bad \subseteq Nat
    BY DEF Ends
  <2> HIDE DEF Bad
  <2>2. QED
    BY <2>1, <1>2, LeastNumber
<1>4. m # i
  BY <1>1
<1>5. m - 1 \in Times /\ m - 1 \in Ends /\ i <= m - 1 /\ ~(m <= m - 1) /\ (m - 1) + 1 = m
  BY <1>4 DEF Ends, Times
<1>6. B[i] <= B[m - 1]
  BY <1>5, <1>3
<1>7. B[m] = B[m - 1] + h[m - 1]
  BY <1>1, <1>5
<1>8. B[i] \in Nat /\ B[m - 1] \in Nat /\ h[m - 1] \in Nat
  BY <1>1, <1>5
<1>9. QED
  BY <1>6, <1>7, <1>8

\* A history with one more at a time.
OneMore(h, now) == [h EXCEPT ![now] = @ + 1]

\* One more counted at a time shows in every later count and in no other.
LEMMA BeforeOneMore ==
  ASSUME ThMaxTime \in Nat, NEW h \in [Times -> Nat], NEW g \in [Times -> Nat], NEW now \in Times,
         g = OneMore(h, now), NEW i \in Ends
  PROVE  Before(g)[i] = Before(h)[i] + (IF i > now THEN 1 ELSE 0)
<1> DEFINE B == Before(h)
           C == Before(g)
           Bad == {t \in Ends : ~(C[t] = B[t] + (IF t > now THEN 1 ELSE 0))}
<1>1. /\ B \in [Ends -> Nat] /\ B[0] = 0
      /\ \A t \in Times : B[t + 1] = B[t] + h[t]
  BY BeforeCounts
<1>2. /\ C \in [Ends -> Nat] /\ C[0] = 0
      /\ \A t \in Times : C[t + 1] = C[t] + g[t]
  BY BeforeCounts
<1> HIDE DEF B, C
<1>3. SUFFICES ASSUME Bad # {} PROVE FALSE
  BY DEF B, C
<1>4. PICK m \in Bad : \A k \in Bad : m <= k
  <2>1. Bad \subseteq Nat
    BY DEF Ends
  <2> HIDE DEF Bad
  <2>2. QED
    BY <2>1, <1>3, LeastNumber
<1>5. m # 0
  BY <1>1, <1>2 DEF Times
<1>6. m - 1 \in Times /\ m - 1 \in Ends /\ ~(m <= m - 1) /\ (m - 1) + 1 = m /\ m \in Nat /\ now \in Nat
  BY <1>5 DEF Ends, Times
<1>7. C[m - 1] = B[m - 1] + (IF m - 1 > now THEN 1 ELSE 0)
  BY <1>6, <1>4
<1>8. B[m] = B[m - 1] + h[m - 1] /\ C[m] = C[m - 1] + g[m - 1]
  BY <1>1, <1>2, <1>6
<1>9. B[m - 1] \in Nat /\ h[m - 1] \in Nat
  BY <1>1, <1>6
<1>10. g[m - 1] = IF m - 1 = now THEN h[m - 1] + 1 ELSE h[m - 1]
  BY <1>6 DEF OneMore
<1>11. C[m] = B[m] + (IF m > now THEN 1 ELSE 0)
  BY <1>6, <1>7, <1>8, <1>9, <1>10
<1>12. QED
  BY <1>11

\* A history that holds nothing counts to nothing.
LEMMA BeforeOfNothing ==
  ASSUME ThMaxTime \in Nat, NEW i \in Ends
  PROVE  Before([t \in Times |-> 0])[i] = 0
<1> DEFINE h == [t \in Times |-> 0]
           B == Before(h)
           Bad == {t \in Ends : B[t] # 0}
<1>0. h \in [Times -> Nat]
  OBVIOUS
<1>1. /\ B \in [Ends -> Nat] /\ B[0] = 0
      /\ \A t \in Times : B[t + 1] = B[t] + h[t]
  <2> HIDE DEF h
  <2>1. QED
    BY <1>0, BeforeCounts
<1> HIDE DEF B
<1>2. \A t \in Times : B[t + 1] = B[t]
  <2>1. \A t \in Times : h[t] = 0
    OBVIOUS
  <2> HIDE DEF h
  <2>2. \A t \in Times : B[t] \in Nat
    BY <1>1 DEF Times, Ends
  <2>3. QED
    BY <2>1, <2>2, <1>1
<1>3. SUFFICES ASSUME Bad # {} PROVE FALSE
  BY DEF B
<1>4. PICK m \in Bad : \A k \in Bad : m <= k
  <2>1. Bad \subseteq Nat
    BY DEF Ends
  <2> HIDE DEF Bad
  <2>2. QED
    BY <2>1, <1>3, LeastNumber
<1>5. m - 1 \in Times /\ m - 1 \in Ends /\ ~(m <= m - 1) /\ (m - 1) + 1 = m
  BY <1>1 DEF Ends, Times
<1>6. B[m] = B[m - 1] /\ B[m - 1] = 0
  BY <1>2, <1>4, <1>5
<1>7. QED
  BY <1>6

\* What a history counts from a time on.
Since(h, t) == Before(h)[ThMaxTime + 1] - Before(h)[t]

\* The count from a time on: it is a number, is no larger from a later time, and
\* holds every stretch that begins then.
LEMMA SinceFacts ==
  ASSUME ThMaxTime \in Nat, NEW h \in [Times -> Nat]
  PROVE  /\ \A t \in Ends : Since(h, t) \in Nat
         /\ \A t, u \in Ends : t <= u => Since(h, u) <= Since(h, t)
         /\ \A t, u \in Ends : t <= u => Before(h)[u] - Before(h)[t] = Since(h, t) - Since(h, u)
<1> DEFINE B == Before(h)
           m == ThMaxTime + 1
<1>1. B \in [Ends -> Nat] /\ m \in Ends /\ \A t \in Ends : t <= m
  BY BeforeCounts DEF Ends
<1>2. \A t, u \in Ends : t <= u => B[t] <= B[u]
  BY BeforeGrows
<1>3. \A t \in Ends : B[t] \in Nat /\ B[m] \in Nat
  BY <1>1
<1>4. \A t \in Ends : Since(h, t) = B[m] - B[t]
  BY DEF Since
<1>4a. m \in Ends
  BY <1>1
<1> HIDE DEF B, m
<1>5. \A t \in Ends : Since(h, t) \in Nat
  BY <1>1, <1>2, <1>3, <1>4
<1>6. \A t, u \in Ends : t <= u => Since(h, u) <= Since(h, t)
  BY <1>2, <1>3, <1>4
<1>7. \A t, u \in Ends : t <= u => B[u] - B[t] = Since(h, t) - Since(h, u)
  BY <1>3, <1>4
<1>8. QED
  BY <1>5, <1>6, <1>7 DEF B

\* One more counted now is counted from every time up to now and from none after.
LEMMA SinceOneMore ==
  ASSUME ThMaxTime \in Nat, NEW h \in [Times -> Nat], NEW g \in [Times -> Nat], NEW now \in Times,
         g = OneMore(h, now)
  PROVE  /\ \A t \in Ends : t <= now => Since(g, t) = Since(h, t) + 1
         /\ \A t \in Ends : ~(t <= now) => Since(g, t) = Since(h, t)
<1> DEFINE m == ThMaxTime + 1
<1>1. m \in Ends /\ m > now /\ now \in Nat /\ \A t \in Ends : t \in Nat
  BY DEF Ends, Times
<1>2. Before(h) \in [Ends -> Nat]
  BY BeforeCounts
<1>3. \A i \in Ends : Before(g)[i] = Before(h)[i] + (IF i > now THEN 1 ELSE 0)
  BY BeforeOneMore, Zenon
<1>4. \A t \in Ends : Since(g, t) = Before(g)[m] - Before(g)[t] /\ Since(h, t) = Before(h)[m] - Before(h)[t]
  BY DEF Since
<1> HIDE DEF m
<1>5. Before(g)[m] = Before(h)[m] + 1
  BY <1>1, <1>3
<1>6. \A t \in Ends : Before(h)[t] \in Nat /\ Before(h)[m] \in Nat
  BY <1>1, <1>2
<1>7. ASSUME NEW t \in Ends, t <= now PROVE Since(g, t) = Since(h, t) + 1
  <2>1. Before(g)[t] = Before(h)[t]
    BY <1>1, <1>3, <1>6, <1>7
  <2>2. QED
    BY <2>1, <1>4, <1>5, <1>6
<1>8. ASSUME NEW t \in Ends, ~(t <= now) PROVE Since(g, t) = Since(h, t)
  <2>1. Before(g)[t] = Before(h)[t] + 1
    BY <1>1, <1>3, <1>8
  <2>2. QED
    BY <2>1, <1>4, <1>5, <1>6
<1>9. QED
  BY <1>7, <1>8

\* A bucket of the limiter and the history of what it let through.  Without a
\* bucket nothing has been let through now, and no more than the limit within the
\* window's length before.  With one, no more than the limit and its count since
\* it started, nothing after its window, and no more than the limit within a
\* window's length before it started.
WindowBefore(t) == IF t + 1 >= ThWindow THEN t + 1 - ThWindow ELSE 0
Metered(h, b, limit, now) ==
  IF b = NoBucket THEN Since(h, now) = 0 /\ Since(h, WindowBefore(now)) <= limit
  ELSE /\ b \in [start : Times, count : Nat] /\ b.start <= now
       /\ Since(h, b.start) <= limit /\ Since(h, b.start) <= b.count
       /\ \A t \in Ends : t >= b.start + ThWindow => Since(h, t) = 0
       /\ Since(h, WindowBefore(b.start)) - Since(h, b.start) <= limit

\* The window's length before a time begins within it.
LEMMA WindowBeforeIn ==
  ASSUME ThAssumption, NEW t \in Times
  PROVE  /\ WindowBefore(t) \in Ends /\ WindowBefore(t) <= t /\ t \in Ends /\ t + 1 \in Ends /\ t \in Nat
         /\ WindowBefore(t) \in Nat
BY DEF ThAssumption, WindowBefore, Times, Ends

\* Time passes: what is metered stays so.
LEMMA MeteredTick ==
  ASSUME ThAssumption, NEW h \in [Times -> Nat], NEW b, NEW limit \in Nat, NEW now \in Times, now + 1 \in Times,
         Metered(h, b, limit, now)
  PROVE  Metered(h, b, limit, now + 1)
<1>0. ThMaxTime \in Nat /\ ThWindow \in Nat
  BY DEF ThAssumption
<1>1. CASE b = NoBucket
  <2>1. WindowBefore(now) \in Ends /\ WindowBefore(now + 1) \in Ends /\ now \in Nat
    BY WindowBeforeIn
  <2>1a. WindowBefore(now) <= WindowBefore(now + 1)
    BY <1>0, <2>1 DEF WindowBefore
  <2>2. now \in Ends /\ now + 1 \in Ends /\ now <= now + 1
    BY <2>1, WindowBeforeIn
  <2>3. Since(h, now) = 0 /\ Since(h, WindowBefore(now)) <= limit
    BY <1>1 DEF Metered
  <2>4. Since(h, now + 1) <= Since(h, now) /\ Since(h, WindowBefore(now + 1)) <= Since(h, WindowBefore(now))
    BY <1>0, <2>1, <2>1a, <2>2, SinceFacts
  <2>5. Since(h, now + 1) \in Nat /\ Since(h, WindowBefore(now + 1)) \in Nat /\ Since(h, WindowBefore(now)) \in Nat
    BY <1>0, <2>1, <2>1a, <2>2, SinceFacts
  <2>6. Since(h, now + 1) = 0 /\ Since(h, WindowBefore(now + 1)) <= limit
    BY <2>3, <2>4, <2>5
  <2>7. QED
    BY <2>6, <1>1 DEF Metered
<1>2. CASE b # NoBucket
  <2>1. b.start \in Times /\ b.start <= now
    BY <1>2 DEF Metered
  <2>2. b.start \in Nat /\ now \in Nat
    BY <2>1, WindowBeforeIn
  <2>3. b.start <= now + 1
    BY <2>1, <2>2
  <2>4. QED
    BY <2>3, <1>2 DEF Metered
<1>3. QED
  BY <1>1, <1>2

\* A bucket whose window has passed may go.
LEMMA MeteredSwept ==
  ASSUME ThAssumption, NEW h \in [Times -> Nat], NEW b, NEW limit \in Nat, NEW now \in Times,
         Metered(h, b, limit, now), b # NoBucket, now - b.start >= ThWindow
  PROVE  Metered(h, NoBucket, limit, now)
<1>0. ThMaxTime \in Nat /\ ThWindow \in Nat /\ ThWindow > 0
  BY DEF ThAssumption
<1>1. /\ b.start \in Times /\ Since(h, b.start) <= limit
      /\ \A t \in Ends : t >= b.start + ThWindow => Since(h, t) = 0
  BY DEF Metered
<1>2. now \in Ends /\ b.start \in Ends /\ now \in Nat /\ b.start \in Nat /\ WindowBefore(now) \in Ends
  BY <1>1, WindowBeforeIn
<1>2a. now >= b.start + ThWindow
  BY <1>0, <1>2
<1>3. b.start <= WindowBefore(now)
  BY <1>0, <1>2, <1>2a DEF WindowBefore
<1>4. Since(h, WindowBefore(now)) <= Since(h, b.start)
  BY <1>0, <1>2, <1>3, SinceFacts
<1>5. Since(h, WindowBefore(now)) \in Nat /\ Since(h, b.start) \in Nat
  BY <1>0, <1>2, <1>3, SinceFacts
<1>6. Since(h, now) = 0
  BY <1>1, <1>2, <1>2a
<1>7. QED
  BY <1>1, <1>4, <1>5, <1>6 DEF Metered

\* A bucket opened now, for the query let through.
LEMMA MeteredOpened ==
  ASSUME ThAssumption, NEW h \in [Times -> Nat], NEW g \in [Times -> Nat], NEW limit \in Nat \ {0},
         NEW now \in Times, Metered(h, NoBucket, limit, now),
         g = h \/ g = OneMore(h, now)
  PROVE  Metered(g, [start |-> now, count |-> 1], limit, now)
<1> DEFINE b == [start |-> now, count |-> 1]
<1>0. ThMaxTime \in Nat /\ ThWindow \in Nat /\ ThWindow > 0
  BY DEF ThAssumption
<1>1. Since(h, now) = 0 /\ Since(h, WindowBefore(now)) <= limit
  BY DEF Metered
<1>2. now \in Ends /\ now \in Nat /\ WindowBefore(now) \in Ends /\ WindowBefore(now) <= now
  BY WindowBeforeIn
<1>3. b # NoBucket /\ b \in [start : Times, count : Nat] /\ b.start = now /\ b.count = 1
  BY <1>2 DEF NoBucket
<1>4. \A t \in Ends : Since(g, t) = Since(h, t) \/ (t <= now /\ Since(g, t) = Since(h, t) + 1)
  <2>1. CASE g = h
    BY <2>1
  <2>2. CASE g = OneMore(h, now)
    <3>1. /\ \A t \in Ends : t <= now => Since(g, t) = Since(h, t) + 1
          /\ \A t \in Ends : ~(t <= now) => Since(g, t) = Since(h, t)
      BY <1>0, <2>2, SinceOneMore
    <3>2. \A t \in Ends : Since(h, t) \in Nat
      BY <1>0, SinceFacts
    <3>3. QED
      BY <3>1, <3>2
  <2>3. QED
    BY <2>1, <2>2
<1>5. Since(g, now) <= 1
  BY <1>1, <1>2, <1>4
<1>6. Since(g, now) <= limit /\ Since(g, now) <= b.count
  <2>1. Since(g, now) \in Nat
    BY <1>0, <1>2, SinceFacts
  <2>2. QED
    BY <1>5, <1>3, <2>1
<1>7. ASSUME NEW t \in Ends, t >= now + ThWindow PROVE Since(g, t) = 0
  <2>1. t \in Nat /\ ~(t <= now) /\ now <= t
    BY <1>0, <1>2, <1>7 DEF Ends
  <2>2. Since(g, t) = Since(h, t)
    BY <2>1, <1>4
  <2>3. Since(h, t) <= Since(h, now) /\ Since(h, t) \in Nat
    BY <1>0, <1>2, <2>1, SinceFacts
  <2>4. QED
    BY <2>2, <2>3, <1>1
<1>8. Since(g, WindowBefore(now)) - Since(g, now) <= limit
  <2>1. CASE g = h
    <3>1. Since(h, WindowBefore(now)) \in Nat
      BY <1>0, <1>2, SinceFacts
    <3>2. QED
      BY <2>1, <1>1, <3>1
  <2>2. CASE g = OneMore(h, now)
    <3>1. /\ \A t \in Ends : t <= now => Since(g, t) = Since(h, t) + 1
          /\ \A t \in Ends : ~(t <= now) => Since(g, t) = Since(h, t)
      BY <1>0, <2>2, SinceOneMore
    <3>2. now <= now
      BY <1>2
    <3>2a. Since(g, now) = Since(h, now) + 1 /\ Since(g, WindowBefore(now)) = Since(h, WindowBefore(now)) + 1
      BY <3>1, <3>2, <1>2
    <3>3. Since(h, WindowBefore(now)) \in Nat
      BY <1>0, <1>2, SinceFacts
    <3>4. QED
      BY <3>2a, <3>3, <1>1
  <2>3. QED
    BY <2>1, <2>2
<1> HIDE DEF b
<1>9. Metered(g, b, limit, now)
  BY <1>2, <1>3, <1>6, <1>7, <1>8 DEF Metered
<1>10. QED
  BY <1>9 DEF b

\* A query counted in a bucket whose window has not passed.
LEMMA MeteredCounted ==
  ASSUME ThAssumption, NEW h \in [Times -> Nat], NEW g \in [Times -> Nat], NEW limit \in Nat, NEW b,
         NEW now \in Times, Metered(h, b, limit, now), b # NoBucket, ~(now - b.start >= ThWindow),
         g = h \/ (g = OneMore(h, now) /\ b.count < limit)
  PROVE  Metered(g, [b EXCEPT !.count = @ + 1], limit, now)
<1> DEFINE c == [b EXCEPT !.count = @ + 1]
<1>0. ThMaxTime \in Nat /\ ThWindow \in Nat /\ ThWindow > 0
  BY DEF ThAssumption
<1>1. /\ b \in [start : Times, count : Nat] /\ b.start <= now
      /\ Since(h, b.start) <= limit /\ Since(h, b.start) <= b.count
      /\ \A t \in Ends : t >= b.start + ThWindow => Since(h, t) = 0
      /\ Since(h, WindowBefore(b.start)) - Since(h, b.start) <= limit
  BY DEF Metered
<1>2. /\ b.start \in Ends /\ b.start \in Nat /\ now \in Nat
      /\ WindowBefore(b.start) \in Ends /\ WindowBefore(b.start) <= b.start
  BY <1>1, WindowBeforeIn
<1>3. c # NoBucket /\ c \in [start : Times, count : Nat] /\ c.start = b.start /\ c.count = b.count + 1
  BY <1>1, <1>2 DEF NoBucket
<1>4. Since(h, b.start) \in Nat /\ Since(h, WindowBefore(b.start)) \in Nat /\ b.count \in Nat
  BY <1>0, <1>1, <1>2, SinceFacts
<1>5. CASE g = h
  <2>1. Since(h, b.start) <= c.count
    BY <1>1, <1>3, <1>4
  <2> HIDE DEF c
  <2>2. Metered(g, c, limit, now)
    BY <1>1, <1>3, <1>5, <2>1 DEF Metered
  <2>3. QED
    BY <2>2 DEF c
<1>6. CASE g = OneMore(h, now) /\ b.count < limit
  <2>1. /\ \A t \in Ends : t <= now => Since(g, t) = Since(h, t) + 1
        /\ \A t \in Ends : ~(t <= now) => Since(g, t) = Since(h, t)
    BY <1>0, <1>6, SinceOneMore
  <2>1a. WindowBefore(b.start) \in Nat
    BY <1>1, WindowBeforeIn
  <2>1b. WindowBefore(b.start) <= now
    BY <2>1a, <1>1, <1>2
  <2>2. Since(g, b.start) = Since(h, b.start) + 1 /\ Since(g, WindowBefore(b.start)) = Since(h, WindowBefore(b.start)) + 1
    BY <2>1, <2>1b, <1>1, <1>2
  <2>3. Since(g, b.start) <= c.count /\ Since(g, b.start) <= limit
    BY <2>2, <1>1, <1>3, <1>4, <1>6
  <2>4. Since(g, WindowBefore(b.start)) - Since(g, b.start) <= limit
    BY <2>2, <1>1, <1>4
  <2>5. ASSUME NEW t \in Ends, t >= b.start + ThWindow PROVE Since(g, t) = 0
    <3>1. t \in Nat /\ ~(t <= now)
      BY <1>0, <1>2, <2>5 DEF Ends
    <3>2. Since(h, t) = 0
      BY <1>1, <2>5
    <3>3. QED
      BY <2>1, <3>1, <3>2
  <2> HIDE DEF c
  <2>6. Metered(g, c, limit, now)
    BY <1>1, <1>3, <2>3, <2>4, <2>5 DEF Metered
  <2>7. QED
    BY <2>6 DEF c
<1>7. QED
  BY <1>5, <1>6

\* What is metered is within two limits over the last window's length.
LEMMA MeteredHolds ==
  ASSUME ThAssumption, NEW h \in [Times -> Nat], NEW b, NEW limit \in Nat, NEW now \in Times,
         Metered(h, b, limit, now)
  PROVE  SumOver(h, WindowBefore(now), now) <= 2 * limit
<1>0. ThMaxTime \in Nat /\ ThWindow \in Nat /\ ThWindow > 0
  BY DEF ThAssumption
<1>1. now \in Nat /\ WindowBefore(now) \in Ends /\ now + 1 \in Ends /\ WindowBefore(now) <= now + 1
  <2>1. now \in Nat /\ WindowBefore(now) \in Ends /\ now + 1 \in Ends /\ WindowBefore(now) <= now /\ WindowBefore(now) \in Nat
    BY WindowBeforeIn
  <2>2. QED
    BY <2>1
<1>2. SumOver(h, WindowBefore(now), now) = Since(h, WindowBefore(now)) - Since(h, now + 1)
  BY <1>0, <1>1, SinceFacts DEF SumOver
<1>3. Since(h, WindowBefore(now)) \in Nat /\ Since(h, now + 1) \in Nat
  BY <1>0, <1>1, SinceFacts
<1>4. CASE b = NoBucket
  <2>1. Since(h, WindowBefore(now)) <= limit
    BY <1>4 DEF Metered
  <2>2. QED
    BY <2>1, <1>2, <1>3
<1>5. CASE b # NoBucket
  <2>1. /\ b.start \in Times /\ b.start <= now /\ Since(h, b.start) <= limit
        /\ Since(h, WindowBefore(b.start)) - Since(h, b.start) <= limit
    BY <1>5 DEF Metered
  <2>2. b.start \in Nat /\ WindowBefore(b.start) \in Ends /\ b.start \in Ends
    BY <2>1, WindowBeforeIn
  <2>3. WindowBefore(b.start) <= WindowBefore(now)
    BY <1>0, <1>1, <2>1, <2>2 DEF WindowBefore
  <2>4. Since(h, WindowBefore(now)) <= Since(h, WindowBefore(b.start))
    BY <1>0, <1>1, <2>2, <2>3, SinceFacts
  <2>5. Since(h, b.start) \in Nat /\ Since(h, WindowBefore(b.start)) \in Nat
    BY <1>0, <2>2, SinceFacts
  <2>6. QED
    BY <1>2, <1>3, <2>1, <2>4, <2>5
<1>6. QED
  BY <1>4, <1>5

\* Multiplying a rate by a stretch of time, and by a longer one.
LEMMA RateTimes ==
  ASSUME NEW r \in Nat, NEW x \in Int, NEW y \in Int
  PROVE  /\ r * x \in Int /\ r * (x + y) = r * x + r * y
         /\ y >= 0 => r * y >= 0 /\ r * x <= r * (x + y)
         /\ y >= 1 => r * y >= r
<1>1. r * x \in Int /\ r * y \in Int
  OBVIOUS
<1>2. r * (x + y) = r * x + r * y
  OBVIOUS
<1>3. y >= 0 => r * y >= 0
  OBVIOUS
<1>4. ASSUME y >= 1 PROVE r * y >= r
  <2>1. PICK z \in Nat : y = z + 1
    <3>1. y - 1 \in Nat /\ y = (y - 1) + 1
      BY <1>4
    <3>2. QED
      BY <3>1
  <2>2. r * (z + 1) = r * z + r /\ r * z >= 0 /\ r * z \in Int
    OBVIOUS
  <2>3. QED
    BY <2>1, <2>2
<1>5. QED
  BY <1>1, <1>2, <1>3, <1>4

\* What an account may still spend in full responses.
Credit(a) == IF a.balance >= 0 THEN a.balance ELSE 0

\* An account of the response limiter and the history of what was sent on it.
\* Without one, what was sent since any time left a second's worth unused.  With
\* one, what was sent since any time and what it may still spend are within the
\* rate up to its last response, and nothing was sent after that.
Paid(h, a, now) ==
  IF a = NoAccount THEN \A t \in Ends : t <= now => Since(h, t) <= ThRate * (now - t)
  ELSE /\ a \in [last : Times, balance : Int, limited : Nat] /\ a.last <= now /\ a.balance + 1 <= ThRate
       /\ \A t \in Ends : t <= a.last => Since(h, t) + Credit(a) <= ThRate * (a.last - t + 1)
       /\ \A t \in Ends : ~(t <= a.last) => Since(h, t) = 0

\* Time passes: what is paid for stays so.
LEMMA PaidTick ==
  ASSUME ThAssumption, NEW h \in [Times -> Nat], NEW a, NEW now \in Times, now + 1 \in Times, Paid(h, a, now)
  PROVE  Paid(h, a, now + 1)
<1>0. ThMaxTime \in Nat /\ ThRate \in Nat /\ now \in Nat
  BY DEF ThAssumption, Times
<1>1. CASE a = NoAccount
  <2>1. ASSUME NEW t \in Ends, t <= now + 1 PROVE Since(h, t) <= ThRate * ((now + 1) - t)
    <3>0. t \in Nat /\ now \in Ends
      <4>1. t \in Nat
        BY <1>0 DEF Ends
      <4>2. now \in Ends
        BY WindowBeforeIn
      <4>3. QED
        BY <4>1, <4>2
    <3>1. t \in Nat /\ now \in Ends /\ Since(h, t) \in Nat
      BY <1>0, <3>0, SinceFacts
    <3>2. CASE t <= now
      <4>1. Since(h, t) <= ThRate * (now - t)
        BY <1>1, <3>2 DEF Paid
      <4>2. ThRate * (now - t) <= ThRate * ((now - t) + 1) /\ ThRate * (now - t) \in Int /\ ThRate * ((now - t) + 1) \in Int
        BY <1>0, <3>1, RateTimes
      <4>3. (now - t) + 1 = (now + 1) - t
        BY <1>0, <3>1
      <4>4. QED
        BY <3>1, <4>1, <4>2, <4>3
    <3>3. CASE ~(t <= now)
      <4>1. Since(h, now) <= ThRate * (now - now)
        BY <1>0, <1>1, <3>1 DEF Paid
      <4>2. ThRate * (now - now) = 0
        BY <1>0
      <4>3. Since(h, t) <= Since(h, now) /\ Since(h, now) \in Nat
        BY <1>0, <3>1, <3>3, SinceFacts
      <4>4. (now + 1) - t = 0 /\ ThRate * 0 = 0
        BY <1>0, <2>1, <3>1, <3>3
      <4>5. QED
        BY <3>1, <4>1, <4>2, <4>3, <4>4
    <3>4. QED
      BY <3>2, <3>3
  <2>2. QED
    BY <1>1, <2>1 DEF Paid
<1>2. CASE a # NoAccount
  <2>0. a \in [last : Times, balance : Int, limited : Nat] /\ a.last <= now
    BY <1>2, Zenon DEF Paid
  <2>1. a.last \in Times
    BY <2>0
  <2>2. a.last \in Nat /\ now \in Nat
    BY <2>1, WindowBeforeIn
  <2>3. a.last <= now + 1
    BY <2>0, <2>2
  <2>4. QED
    BY <1>2, <2>3 DEF Paid
<1>3. QED
  BY <1>1, <1>2

\* An account that has been idle for a second may be forgotten: what it would
\* have earned covers a new one.
LEMMA PaidForgotten ==
  ASSUME ThAssumption, NEW h \in [Times -> Nat], NEW a, NEW now \in Times, Paid(h, a, now),
         a # NoAccount, a.last + 1 <= now
  PROVE  Paid(h, NoAccount, now)
<1>0. ThMaxTime \in Nat /\ ThRate \in Nat /\ now \in Nat
  BY DEF ThAssumption, Times
<1>1. /\ a.last \in Nat /\ a.balance \in Int
      /\ \A t \in Ends : t <= a.last => Since(h, t) + Credit(a) <= ThRate * (a.last - t + 1)
      /\ \A t \in Ends : ~(t <= a.last) => Since(h, t) = 0
  BY DEF Paid, Times
<1>2. Credit(a) \in Nat
  BY <1>1 DEF Credit
<1>3. ASSUME NEW t \in Ends, t <= now PROVE Since(h, t) <= ThRate * (now - t)
  <2>1. t \in Nat /\ Since(h, t) \in Nat
    BY <1>0, SinceFacts DEF Ends
  <2>2. CASE t <= a.last
    <3>1. Since(h, t) + Credit(a) <= ThRate * (a.last - t + 1)
      BY <1>1, <2>2
    <3>2. DEFINE x == a.last - t + 1
                 y == now - a.last - 1
    <3>3. x \in Int /\ y \in Int /\ y >= 0 /\ x + y = now - t
      BY <1>0, <1>1, <2>1
    <3> HIDE DEF x, y
    <3>4. ThRate * x <= ThRate * (x + y) /\ ThRate * x \in Int /\ ThRate * (x + y) \in Int
      BY <1>0, <3>3, RateTimes
    <3>5. Since(h, t) + Credit(a) <= ThRate * x
      BY <3>1 DEF x
    <3>6. QED
      BY <1>2, <2>1, <3>3, <3>4, <3>5
  <2>3. CASE ~(t <= a.last)
    <3>1. Since(h, t) = 0
      BY <1>1, <2>3
    <3>2. now - t \in Int /\ now - t >= 0
      BY <1>0, <1>3, <2>1
    <3>3. ThRate * (now - t) >= 0
      BY <1>0, <3>2, RateTimes
    <3>4. QED
      BY <3>1, <3>3
  <2>4. QED
    BY <2>2, <2>3
<1>4. QED
  BY <1>3 DEF Paid

\* The smaller and the larger of two numbers.
LEMMA MinMaxOfTwo ==
  ASSUME NEW x \in Int, NEW y \in Int
  PROVE  /\ Min({x, y}) = IF x <= y THEN x ELSE y
         /\ Max({x, y}) = IF x <= y THEN y ELSE x
<1>1. Min({x, y}) = IF x <= y THEN x ELSE y
  <2>1. CASE x <= y
    BY <2>1 DEF Min
  <2>2. CASE ~(x <= y)
    BY <2>2 DEF Min
  <2>3. QED
    BY <2>1, <2>2
<1>2. Max({x, y}) = IF x <= y THEN y ELSE x
  <2>1. CASE x <= y
    BY <2>1 DEF Max
  <2>2. CASE ~(x <= y)
    BY <2>2 DEF Max
  <2>3. QED
    BY <2>1, <2>2
<1>3. QED
  BY <1>1, <1>2

\* What an account holds after a response: what it held and earned, up to the
\* rate, less one; in debt it holds no more than nothing.
LEMMA DebitedIs ==
  ASSUME ThAssumption, thNow \in Times, NEW a \in [last : Times, balance : Int, limited : Nat],
         a.last <= thNow, a.balance <= ThRate
  PROVE  LET d == Debited(a)
             x == a.balance + ThRate * (thNow - a.last) IN
         /\ d \in [last : Times, balance : Int, limited : Nat] /\ d.last = thNow /\ d.balance + 1 <= ThRate
         /\ d.balance >= 0 => d.balance + 1 = (IF x <= ThRate THEN x ELSE ThRate)
<1> DEFINE d == Debited(a)
           e == thNow - a.last
           x == a.balance + ThRate * e
           s == (IF x <= ThRate THEN x ELSE ThRate) - 1
           floor == -(ThRate * ThRrlWindow)
           nb == IF s <= floor THEN floor ELSE s
<1>1. ThRate \in Nat \ {0} /\ ThRrlWindow \in Nat \ {0} /\ thNow \in Nat /\ a.last \in Nat /\ a.balance \in Int
  BY DEF ThAssumption, Times
<1>2. e \in Nat /\ e * ThRate = ThRate * e /\ ThRate * e \in Nat
  BY <1>1
<1>3. x \in Int /\ floor \in Int
  BY <1>1, <1>2
<1>4. floor <= -1
  <2>1. ThRate * ThRrlWindow >= ThRate /\ ThRate * ThRrlWindow \in Int
    BY <1>1, RateTimes
  <2>2. QED
    BY <2>1, <1>1
<1> HIDE DEF e
<1>5. Min({x, ThRate}) = s + 1
  <2>1. Min({x, ThRate}) = IF x <= ThRate THEN x ELSE ThRate
    <3> HIDE DEF x
    <3>1. QED
      BY <1>1, <1>3, MinMaxOfTwo
  <2> HIDE DEF x
  <2>2. QED
    BY <2>1, <1>1, <1>3
<1>6. s \in Int /\ s + 1 <= ThRate
  <2> HIDE DEF x
  <2>1. QED
    BY <1>1, <1>3
<1>7. Max({s, floor}) = nb
  <2> HIDE DEF s, floor
  <2>1. QED
    BY <1>3, <1>6, MinMaxOfTwo
<1>8. d = [last |-> thNow, balance |-> nb, limited |-> IF nb >= 0 THEN a.limited ELSE a.limited + 1]
  <2>1. Debited(a) = LET spent == Min({a.balance + e * ThRate, ThRate}) - 1
                         balance == Max({spent, floor}) IN
                     [last |-> thNow, balance |-> balance, limited |-> IF balance >= 0 THEN a.limited ELSE a.limited + 1]
    BY DEF Debited, e
  <2>2. Min({a.balance + e * ThRate, ThRate}) - 1 = s
    <3>1. Min({a.balance + e * ThRate, ThRate}) = s + 1
      BY <1>2, <1>5
    <3> HIDE DEF s
    <3>2. QED
      BY <3>1, <1>6
  <2> HIDE DEF s, floor, nb
  <2>3. QED
    BY <2>1, <2>2, <1>7
<1>9. nb \in Int /\ nb + 1 <= ThRate /\ (nb >= 0 => nb = s)
  <2> HIDE DEF s, floor
  <2>1. QED
    BY <1>1, <1>3, <1>4, <1>6
<1> HIDE DEF nb, d
<1>10. d \in [last : Times, balance : Int, limited : Nat] /\ d.last = thNow /\ d.balance = nb
  BY <1>8, <1>9
<1>11. d.balance >= 0 => d.balance + 1 = (IF x <= ThRate THEN x ELSE ThRate)
  <2> HIDE DEF x
  <2>1. QED
    BY <1>1, <1>3, <1>9, <1>10
<1>12. QED
  BY <1>9, <1>10, <1>11 DEF d, e

\* A response debited to an account, sent in full if it still has credit.
LEMMA PaidDebited ==
  ASSUME ThAssumption, thNow \in Times, NEW h \in [Times -> Nat], NEW g \in [Times -> Nat],
         NEW a, Paid(h, a, thNow), a # NoAccount,
         g = h \/ (g = OneMore(h, thNow) /\ Debited(a).balance >= 0)
  PROVE  Paid(g, Debited(a), thNow)
<1> DEFINE d == Debited(a)
           x == a.balance + ThRate * (thNow - a.last)
<1>0. ThMaxTime \in Nat /\ ThRate \in Nat \ {0} /\ thNow \in Nat
  BY DEF ThAssumption, Times
<1>1. a \in [last : Times, balance : Int, limited : Nat] /\ a.last <= thNow /\ a.balance + 1 <= ThRate
  BY Zenon DEF Paid
<1>2. \A t \in Ends : t <= a.last => Since(h, t) + Credit(a) <= ThRate * (a.last - t + 1)
  BY Zenon DEF Paid
<1>3. \A t \in Ends : ~(t <= a.last) => Since(h, t) = 0
  BY Zenon DEF Paid
<1>4. a.last \in Nat /\ a.balance \in Int /\ a.balance <= ThRate
  <2>1. a.last \in Times /\ a.balance \in Int
    BY <1>1
  <2>2. a.last \in Nat
    BY <2>1, WindowBeforeIn
  <2>3. QED
    BY <1>0, <1>1, <2>1, <2>2
<1>5. /\ d \in [last : Times, balance : Int, limited : Nat] /\ d.last = thNow /\ d.balance + 1 <= ThRate
      /\ d.balance >= 0 => d.balance + 1 = (IF x <= ThRate THEN x ELSE ThRate)
  BY <1>1, <1>4, DebitedIs
<1>6. d.balance \in Int /\ d # NoAccount
  <2>1. d.last \in Nat
    BY <1>0, <1>5
  <2> HIDE DEF d
  <2>2. QED
    BY <1>5, <2>1 DEF NoAccount
<1>7. \A t \in Ends : t \in Nat /\ Since(h, t) \in Nat
  BY <1>0, SinceFacts DEF Ends
<1>8. /\ \A t \in Ends : Since(g, t) = Since(h, t) \/ (Since(g, t) = Since(h, t) + 1 /\ d.balance >= 0)
      /\ \A t \in Ends : ~(t <= thNow) => Since(g, t) = Since(h, t)
  <2>1. CASE g = h
    BY <2>1
  <2>2. CASE g = OneMore(h, thNow) /\ d.balance >= 0
    <3>1. /\ \A t \in Ends : t <= thNow => Since(g, t) = Since(h, t) + 1
          /\ \A t \in Ends : ~(t <= thNow) => Since(g, t) = Since(h, t)
      BY <1>0, <2>2, SinceOneMore
    <3>2. QED
      BY <3>1, <2>2
  <2>3. QED
    BY <2>1, <2>2
<1>9. Credit(a) \in Nat /\ a.balance <= Credit(a)
  BY <1>4 DEF Credit
<1>10. Credit(d) = IF d.balance >= 0 THEN d.balance ELSE 0
  BY DEF Credit
<1> HIDE DEF d
<1>11. \A t \in Ends : Since(g, t) + Credit(d) <= Since(h, t) + (IF d.balance >= 0 THEN d.balance + 1 ELSE 0)
  <2> TAKE t \in Ends
  <2>1. CASE d.balance >= 0
    BY <2>1, <1>6, <1>7, <1>8, <1>10
  <2>2. CASE ~(d.balance >= 0)
    <3>1. Since(g, t) = Since(h, t)
      BY <2>2, <1>8
    <3>2. QED
      BY <3>1, <2>2, <1>7, <1>10
  <2>3. QED
    BY <2>1, <2>2
<1>12. ASSUME NEW t \in Ends, t <= thNow
       PROVE  Since(h, t) + (IF d.balance >= 0 THEN d.balance + 1 ELSE 0) <= ThRate * (thNow - t + 1)
  <2> DEFINE e == thNow - a.last
             k == a.last - t + 1
             n == thNow - t + 1
  <2>1. e \in Nat /\ k \in Int /\ n \in Int /\ n >= 1 /\ n = k + e
    BY <1>0, <1>1, <1>4, <1>7, <1>12
  <2>2. x = a.balance + ThRate * e
    OBVIOUS
  <2>3. Since(h, t) \in Nat
    BY <1>7
  <2>4. CASE t <= a.last
    <3>1. Since(h, t) + Credit(a) <= ThRate * k
      BY <1>2, <2>4
    <3> SUFFICES Since(h, t) + (IF d.balance >= 0 THEN d.balance + 1 ELSE 0) <= ThRate * n
      OBVIOUS
    <3> HIDE DEF e, k, n, x
    <3>2. ThRate * n = ThRate * k + ThRate * e /\ ThRate * k \in Int /\ ThRate * e \in Int /\ ThRate * e >= 0
      BY <1>0, <2>1, RateTimes
    <3>3. CASE ~(d.balance >= 0)
      BY <3>1, <3>2, <3>3, <1>6, <1>9, <2>3
    <3>4. CASE d.balance >= 0 /\ x <= ThRate
      <4>1. d.balance + 1 = a.balance + ThRate * e
        BY <1>5, <2>2, <3>4
      <4>2. QED
        BY <4>1, <3>1, <3>2, <3>4, <1>4, <1>6, <1>9, <2>3
    <3>5. CASE d.balance >= 0 /\ ~(x <= ThRate)
      <4>1. d.balance + 1 = ThRate
        BY <1>5, <3>5
      <4>2. e >= 1
        <5>1. CASE e = 0
          <6>1. ThRate * e = 0
            BY <5>1, <1>0
          <6>2. x = a.balance
            BY <6>1, <2>2, <1>4
          <6>3. QED
            BY <6>2, <3>5, <1>4
        <5>2. QED
          BY <5>1, <2>1
      <4>3. ThRate * e >= ThRate
        BY <1>0, <2>1, <4>2, RateTimes
      <4>4. QED
        BY <4>1, <4>3, <3>1, <3>2, <3>5, <1>0, <1>6, <1>9, <2>3
    <3>6. QED
      BY <3>3, <3>4, <3>5
  <2>5. CASE ~(t <= a.last)
    <3>1. Since(h, t) = 0
      BY <1>3, <2>5
    <3> HIDE DEF e, k, n, x
    <3>2. ThRate * n >= ThRate /\ ThRate * n \in Int
      BY <1>0, <2>1, RateTimes
    <3>3. (IF d.balance >= 0 THEN d.balance + 1 ELSE 0) <= ThRate
      BY <1>0, <1>5, <1>6
    <3>4. Since(h, t) + (IF d.balance >= 0 THEN d.balance + 1 ELSE 0) <= ThRate * n
      BY <1>0, <1>6, <3>1, <3>2, <3>3
    <3>5. QED
      BY <3>4 DEF n
  <2>6. QED
    BY <2>4, <2>5
<1>13. ASSUME NEW t \in Ends, t <= d.last
       PROVE  Since(g, t) + Credit(d) <= ThRate * (d.last - t + 1)
  <2>1. t <= thNow /\ d.last = thNow
    BY <1>5, <1>13
  <2> DEFINE n == ThRate * (thNow - t + 1)
             i == IF d.balance >= 0 THEN d.balance + 1 ELSE 0
  <2>2. Since(h, t) + i <= n
    BY <2>1, <1>12
  <2>3. Since(g, t) + Credit(d) <= Since(h, t) + i
    BY <1>11
  <2>4. n \in Int
    BY <1>0, <1>7
  <2>5. i \in Int /\ Since(h, t) \in Int /\ Since(g, t) \in Int /\ Credit(d) \in Int
    <3>1. Since(g, t) \in Nat
      BY <1>0, SinceFacts
    <3>2. QED
      BY <3>1, <1>6, <1>7, <1>10
  <2>6. Since(g, t) + Credit(d) <= n
    <3> HIDE DEF n, i
    <3>1. QED
      BY <2>2, <2>3, <2>4, <2>5
  <2>7. QED
    BY <2>1, <2>6
<1>14. ASSUME NEW t \in Ends, ~(t <= d.last) PROVE Since(g, t) = 0
  <2>1. ~(t <= thNow) /\ t \in Nat
    BY <1>5, <1>7, <1>14
  <2>2. ~(t <= a.last)
    BY <2>1, <1>0, <1>1, <1>4
  <2>3. QED
    BY <2>1, <2>2, <1>3, <1>8
<1>15. d.last <= thNow
  BY <1>0, <1>5
<1>16. Paid(g, d, thNow)
  BY <1>5, <1>6, <1>13, <1>14, <1>15 DEF Paid
<1>17. QED
  BY <1>16 DEF d

\* A new account, opened for a response sent in full.
LEMMA PaidOpened ==
  ASSUME ThAssumption, thNow \in Times, NEW h \in [Times -> Nat], NEW g \in [Times -> Nat],
         Paid(h, NoAccount, thNow), g = h \/ g = OneMore(h, thNow)
  PROVE  Paid(g, Debited([last |-> thNow, balance |-> ThRate, limited |-> 0]), thNow)
<1> DEFINE a == [last |-> thNow, balance |-> ThRate, limited |-> 0]
           d == Debited(a)
<1>0. ThMaxTime \in Nat /\ ThRate \in Nat \ {0} /\ thNow \in Nat
  BY DEF ThAssumption, Times
<1>1. a \in [last : Times, balance : Int, limited : Nat] /\ a.last = thNow /\ a.balance = ThRate
  BY <1>0
<1>2. a.last <= thNow /\ a.balance <= ThRate
  BY <1>0, <1>1
<1> HIDE DEF a
<1>3. d \in [last : Times, balance : Int, limited : Nat] /\ d.last = thNow /\ d.balance + 1 <= ThRate
  BY <1>1, <1>2, DebitedIs
<1> HIDE DEF d
<1>4. d.balance \in Int /\ d # NoAccount /\ Credit(d) \in Nat /\ Credit(d) + 1 <= ThRate
  <2>1. d.balance \in Int /\ d.last # -1
    BY <1>0, <1>3
  <2>2. d # NoAccount
    BY <2>1 DEF NoAccount
  <2>3. QED
    BY <1>0, <1>3, <2>1, <2>2 DEF Credit
<1>5. \A t \in Ends : t \in Nat /\ Since(h, t) \in Nat
  BY <1>0, SinceFacts DEF Ends
<1>6. /\ \A t \in Ends : Since(g, t) = Since(h, t) \/ Since(g, t) = Since(h, t) + 1
      /\ \A t \in Ends : ~(t <= thNow) => Since(g, t) = Since(h, t)
  <2>1. CASE g = h
    BY <2>1
  <2>2. CASE g = OneMore(h, thNow)
    <3>1. /\ \A t \in Ends : t <= thNow => Since(g, t) = Since(h, t) + 1
          /\ \A t \in Ends : ~(t <= thNow) => Since(g, t) = Since(h, t)
      BY <1>0, <2>2, SinceOneMore
    <3>2. QED
      BY <3>1
  <2>3. QED
    BY <2>1, <2>2
<1>7. \A t \in Ends : t <= thNow => Since(h, t) <= ThRate * (thNow - t)
  BY DEF Paid
<1>8. ASSUME NEW t \in Ends, t <= d.last
      PROVE  Since(g, t) + Credit(d) <= ThRate * (d.last - t + 1)
  <2> DEFINE x == thNow - t
  <2>1. t <= thNow /\ d.last = thNow /\ x \in Int
    BY <1>0, <1>3, <1>5, <1>8
  <2>2. Since(h, t) <= ThRate * x
    BY <1>7, <2>1
  <2>3. ThRate * (x + 1) = ThRate * x + ThRate * 1 /\ ThRate * x \in Int /\ ThRate * 1 = ThRate
    <3> HIDE DEF x
    <3>1. QED
      BY <1>0, <2>1, RateTimes
  <2>4. Since(g, t) + Credit(d) <= ThRate * (x + 1)
    <3> HIDE DEF x
    <3>1. Since(g, t) <= Since(h, t) + 1 /\ Since(g, t) \in Int
      BY <1>5, <1>6
    <3>2. QED
      BY <1>0, <1>4, <1>5, <2>2, <2>3, <3>1
  <2>5. QED
    BY <2>1, <2>4
<1>9. ASSUME NEW t \in Ends, ~(t <= d.last) PROVE Since(g, t) = 0
  <2>1. ~(t <= thNow) /\ t \in Nat /\ thNow \in Ends /\ thNow <= t
    BY <1>0, <1>3, <1>5, <1>9 DEF Ends, Times
  <2>2. Since(h, t) <= Since(h, thNow) /\ Since(h, t) \in Nat /\ Since(h, thNow) \in Nat
    BY <1>0, <1>5, <2>1, SinceFacts
  <2>3. Since(h, thNow) <= ThRate * (thNow - thNow)
    BY <1>0, <1>7, <2>1
  <2>4. ThRate * (thNow - thNow) = 0
    BY <1>0
  <2>5. Since(h, t) = 0
    BY <2>2, <2>3, <2>4
  <2>6. QED
    BY <1>6, <2>1, <2>5
<1>10. d.last <= thNow
  BY <1>0, <1>3
<1>11. Paid(g, d, thNow)
  BY <1>3, <1>4, <1>8, <1>9, <1>10 DEF Paid
<1>12. QED
  BY <1>11 DEF d, a

\* What is paid for is within the rate up to now.
LEMMA PaidHolds ==
  ASSUME ThAssumption, NEW h \in [Times -> Nat], NEW a, NEW now \in Times, Paid(h, a, now), NEW t \in 0 .. now
  PROVE  SumOver(h, t, now) <= ThRate * (now - t + 1)
<1>0. ThMaxTime \in Nat /\ ThRate \in Nat /\ now \in Nat /\ now <= ThMaxTime
  BY DEF ThAssumption, Times
<1>1. t \in Ends /\ now + 1 \in Ends /\ t <= now /\ t <= now + 1 /\ t \in Nat
  <2>1. t \in Nat /\ t <= now
    BY <1>0
  <2>2. QED
    BY <1>0, <2>1 DEF Ends
<1>2. SumOver(h, t, now) = Since(h, t) - Since(h, now + 1) /\ Since(h, t) \in Nat /\ Since(h, now + 1) \in Nat
  BY <1>0, <1>1, SinceFacts DEF SumOver
<1> DEFINE x == now - t + 1
<1>3. x \in Int /\ x >= 0 /\ ThRate * x \in Int /\ ThRate * x >= 0
  BY <1>0, <1>1, RateTimes
<1>4. Since(h, t) <= ThRate * x
  <2>1. CASE a = NoAccount
    <3> DEFINE y == now - t
    <3>1. Since(h, t) <= ThRate * y
      BY <2>1, <1>1 DEF Paid
    <3>2. x = y + 1 /\ y \in Int
      BY <1>0, <1>1
    <3> HIDE DEF x, y
    <3>3. ThRate * y <= ThRate * x /\ ThRate * y \in Int
      BY <1>0, <3>2, RateTimes
    <3>4. QED
      BY <3>1, <3>3, <1>2, <1>3
  <2>2. CASE a # NoAccount /\ t <= a.last
    <3>1. a \in [last : Times, balance : Int, limited : Nat] /\ a.last <= now
      BY <2>2, Zenon DEF Paid
    <3>2. Since(h, t) + Credit(a) <= ThRate * (a.last - t + 1)
      BY <2>2, <1>1, Zenon DEF Paid
    <3> DEFINE y == a.last - t + 1
               z == now - a.last
    <3>3. a.last \in Nat /\ Credit(a) \in Nat
      BY <3>1 DEF Credit, Times
    <3>4. y \in Int /\ z \in Int /\ z >= 0 /\ x = y + z
      BY <1>0, <1>1, <3>1, <3>3
    <3> HIDE DEF x, y, z
    <3>5. ThRate * y <= ThRate * x /\ ThRate * y \in Int
      BY <1>0, <3>4, RateTimes
    <3>6. Since(h, t) + Credit(a) <= ThRate * y
      BY <3>2 DEF y
    <3>7. QED
      BY <3>3, <3>5, <3>6, <1>2, <1>3
  <2>3. CASE a # NoAccount /\ ~(t <= a.last)
    <3>1. Since(h, t) = 0
      BY <2>3, <1>1, Zenon DEF Paid
    <3>2. QED
      BY <3>1, <1>3
  <2>4. QED
    BY <2>1, <2>2, <2>3
<1> HIDE DEF x
<1>5. SumOver(h, t, now) <= ThRate * x
  BY <1>2, <1>3, <1>4
<1>6. QED
  BY <1>5 DEF x

\* The history of admitted queries, and what a network's part of it counts.
Admissions == [Networks -> [Times -> [plain : Nat, verified : Nat]]]
PlainIn(adm, n) == [u \in Times |-> adm[n][u].plain]
AllIn(adm, n) == [u \in Times |-> adm[n][u].plain + adm[n][u].verified]
AllMetered(adm, table, now) ==
  \A n \in Networks :
    /\ Metered(PlainIn(adm, n), table[n], ThLimit, now)
    /\ Metered(AllIn(adm, n), table[n], ThLimit * ThAllowance, now)
AllPaid(sent, accounts, now) == \A k \in AccountKeys : Paid(sent[k], accounts[k], now)

\* A table of the networks' buckets.
Keyed(table) == table = [m \in Networks |-> table[m]]

\* Every bucket agrees with what it let through, every account with what was
\* sent on it.
ThInv ==
  /\ thNow \in Times
  /\ thAdmitted \in Admissions /\ Keyed(thClients)
  /\ thReplies \in [AccountKeys -> [Times -> Nat]] /\ DOMAIN thAccounts = AccountKeys
  /\ AllMetered(thAdmitted, thClients, thNow)
  /\ AllPaid(thReplies, thAccounts, thNow)

\* The limits are at least one.
LEMMA LimitsPositive ==
  ASSUME ThAssumption
  PROVE  /\ ThMaxTime \in Nat /\ ThLimit \in Nat \ {0} /\ ThAllowance \in Nat \ {0} /\ ThWindow \in Nat \ {0}
         /\ ThLimit * ThAllowance \in Nat \ {0} /\ ThLimit <= ThLimit * ThAllowance
<1>1. ThLimit \in Nat \ {0} /\ ThAllowance \in Nat \ {0} /\ ThMaxTime \in Nat /\ ThWindow \in Nat \ {0}
  BY DEF ThAssumption
<1>2. ThLimit * ThAllowance >= ThLimit /\ ThLimit * ThAllowance \in Int
  BY <1>1, RateTimes
<1>3. QED
  BY <1>1, <1>2

\* What a network's history counts is a history of numbers.
LEMMA PartsTyped ==
  ASSUME NEW adm \in Admissions, NEW n \in Networks
  PROVE  PlainIn(adm, n) \in [Times -> Nat] /\ AllIn(adm, n) \in [Times -> Nat]
<1>1. \A u \in Times : adm[n][u] \in [plain : Nat, verified : Nat]
  BY DEF Admissions
<1>2. \A u \in Times : adm[n][u].plain \in Nat /\ adm[n][u].plain + adm[n][u].verified \in Nat
  BY <1>1
<1>3. QED
  BY <1>2 DEF PlainIn, AllIn

\* A sweep drops buckets whose window has passed and leaves the others.
LEMMA SweptKeeps ==
  ASSUME ThAssumption, thNow \in Times, NEW adm \in Admissions, NEW table, Keyed(table),
         AllMetered(adm, table, thNow)
  PROVE  Keyed(Swept(table, ThWindow)) /\ AllMetered(adm, Swept(table, ThWindow), thNow)
<1> DEFINE after == Swept(table, ThWindow)
<1>0. DOMAIN table = Networks
  BY DEF Keyed
<1>1. Keyed(after)
  BY <1>0 DEF Swept, Keyed
<1>2. \A n \in Networks : after[n] = IF thNow - table[n].start < ThWindow THEN table[n] ELSE NoBucket
  BY <1>0 DEF Swept
<1> HIDE DEF after
<1>3. ASSUME NEW n \in Networks, NEW h \in [Times -> Nat], NEW limit \in Nat, Metered(h, table[n], limit, thNow)
      PROVE  Metered(h, after[n], limit, thNow)
  <2>1. CASE after[n] = table[n]
    BY <2>1, <1>3
  <2>2. CASE after[n] # table[n]
    <3>1. after[n] = NoBucket /\ table[n] # NoBucket /\ ~(thNow - table[n].start < ThWindow)
      BY <2>2, <1>2
    <3>2. table[n] \in [start : Times, count : Nat]
      BY <3>1, <1>3, Zenon DEF Metered
    <3>3. thNow - table[n].start >= ThWindow
      <4>1. table[n].start \in Nat /\ thNow \in Nat /\ ThWindow \in Nat
        BY <3>2, LimitsPositive DEF Times
      <4>2. QED
        BY <4>1, <3>1
    <3>4. QED
      BY <3>1, <3>3, <1>3, MeteredSwept
  <2>3. QED
    BY <2>1, <2>2
<1>4. ASSUME NEW n \in Networks
      PROVE  /\ Metered(PlainIn(adm, n), after[n], ThLimit, thNow)
             /\ Metered(AllIn(adm, n), after[n], ThLimit * ThAllowance, thNow)
  <2>1. PlainIn(adm, n) \in [Times -> Nat] /\ AllIn(adm, n) \in [Times -> Nat]
    BY PartsTyped
  <2>2. ThLimit \in Nat /\ ThLimit * ThAllowance \in Nat
    BY LimitsPositive
  <2>3. /\ Metered(PlainIn(adm, n), table[n], ThLimit, thNow)
        /\ Metered(AllIn(adm, n), table[n], ThLimit * ThAllowance, thNow)
    BY DEF AllMetered
  <2>4. QED
    BY <2>1, <2>2, <2>3, <1>3
<1>5. QED
  BY <1>1, <1>4 DEF AllMetered, after

\* So does maybe_sweep, whether or not it is time to.
LEMMA SweepKeeps ==
  ASSUME ThAssumption, thNow \in Times, NEW adm \in Admissions, NEW left, Keyed(left.clients),
         AllMetered(adm, left.clients, thNow)
  PROVE  Keyed(Sweep(left).clients) /\ AllMetered(adm, Sweep(left).clients, thNow)
<1>1. Sweep(left).clients = left.clients \/ Sweep(left).clients = Swept(left.clients, ThWindow)
  BY DEF Sweep
<1>2. CASE Sweep(left).clients = left.clients
  BY <1>2
<1>3. CASE Sweep(left).clients = Swept(left.clients, ThWindow)
  BY <1>3, SweptKeeps
<1>4. QED
  BY <1>1, <1>2, <1>3

\* The history after a query of network `n` let through and tracked.
AdmittedOne(adm, n, now, which) == [adm EXCEPT ![n][now][which] = @ + 1]
LEMMA AdmittedOneIs ==
  ASSUME NEW adm \in Admissions, NEW n \in Networks, NEW now \in Times, NEW which \in {"plain", "verified"}
  PROVE  LET adm2 == AdmittedOne(adm, n, now, which) IN
         /\ adm2 \in Admissions
         /\ \A m \in Networks \ {n} : PlainIn(adm2, m) = PlainIn(adm, m) /\ AllIn(adm2, m) = AllIn(adm, m)
         /\ AllIn(adm2, n) = OneMore(AllIn(adm, n), now)
         /\ PlainIn(adm2, n) = IF which = "plain" THEN OneMore(PlainIn(adm, n), now) ELSE PlainIn(adm, n)
<1> DEFINE adm2 == AdmittedOne(adm, n, now, which)
           cell == [adm[n][now] EXCEPT ![which] = @ + 1]
<1>1. adm[n] \in [Times -> [plain : Nat, verified : Nat]] /\ adm[n][now] \in [plain : Nat, verified : Nat]
  BY DEF Admissions
<1>2. /\ cell \in [plain : Nat, verified : Nat]
      /\ cell.plain = (IF which = "plain" THEN adm[n][now].plain + 1 ELSE adm[n][now].plain)
      /\ cell.plain + cell.verified = adm[n][now].plain + adm[n][now].verified + 1
  <2>1. CASE which = "plain"
    BY <2>1, <1>1
  <2>2. CASE which = "verified"
    BY <2>2, <1>1
  <2>3. QED
    BY <2>1, <2>2
<1>3. adm2 = [adm EXCEPT ![n] = [adm[n] EXCEPT ![now] = cell]]
  BY DEF AdmittedOne
<1> HIDE DEF cell, adm2
<1>4. adm2 \in Admissions
  BY <1>1, <1>2, <1>3 DEF Admissions
<1>5. \A m \in Networks \ {n} : adm2[m] = adm[m]
  BY <1>3 DEF Admissions
<1>6. \A u \in Times : adm2[n][u] = IF u = now THEN cell ELSE adm[n][u]
  BY <1>1, <1>3 DEF Admissions
<1>7. \A m \in Networks \ {n} : PlainIn(adm2, m) = PlainIn(adm, m) /\ AllIn(adm2, m) = AllIn(adm, m)
  BY <1>5 DEF PlainIn, AllIn
<1>8. AllIn(adm2, n) = OneMore(AllIn(adm, n), now)
  <2>1. AllIn(adm2, n) = [u \in Times |-> adm2[n][u].plain + adm2[n][u].verified]
    BY DEF AllIn
  <2>2. OneMore(AllIn(adm, n), now) = [u \in Times |-> IF u = now THEN adm[n][now].plain + adm[n][now].verified + 1
                                                        ELSE adm[n][u].plain + adm[n][u].verified]
    BY DEF OneMore, AllIn
  <2>3. \A u \in Times : adm2[n][u].plain + adm2[n][u].verified
                         = IF u = now THEN adm[n][now].plain + adm[n][now].verified + 1
                           ELSE adm[n][u].plain + adm[n][u].verified
    BY <1>2, <1>6
  <2>4. QED
    BY <2>1, <2>2, <2>3
<1>9. PlainIn(adm2, n) = IF which = "plain" THEN OneMore(PlainIn(adm, n), now) ELSE PlainIn(adm, n)
  <2>1. PlainIn(adm2, n) = [u \in Times |-> adm2[n][u].plain]
    BY DEF PlainIn
  <2>2. OneMore(PlainIn(adm, n), now) = [u \in Times |-> IF u = now THEN adm[n][now].plain + 1 ELSE adm[n][u].plain]
    BY DEF OneMore, PlainIn
  <2>3. \A u \in Times : adm2[n][u].plain = IF u = now THEN cell.plain ELSE adm[n][u].plain
    BY <1>6
  <2>4. CASE which = "plain"
    BY <2>1, <2>2, <2>3, <2>4, <1>2
  <2>5. CASE which # "plain"
    <3>1. \A u \in Times : adm2[n][u].plain = adm[n][u].plain
      BY <2>3, <2>5, <1>2
    <3>2. QED
      BY <2>1, <3>1, <2>5 DEF PlainIn
  <2>6. QED
    BY <2>4, <2>5
<1>10. QED
  BY <1>4, <1>7, <1>8, <1>9 DEF adm2

\* A query looked up in its network's bucket, and counted if it is let through:
\* the buckets still agree with the history.
LEMMA CheckedKeeps ==
  ASSUME ThAssumption, thNow \in Times, NEW adm \in Admissions, NEW table, Keyed(table),
         AllMetered(adm, table, thNow), NEW n \in Networks, NEW factor, NEW which,
         \/ which = "plain" /\ factor = 1
         \/ which = "verified" /\ factor = ThAllowance
  PROVE  LET r == Checked(table, n, ThWindow, ThLimit * factor)
             adm2 == IF r.ok /\ r.tracked THEN AdmittedOne(adm, n, thNow, which) ELSE adm
         IN adm2 \in Admissions /\ Keyed(r.table) /\ AllMetered(adm2, r.table, thNow)
<1> DEFINE limit == ThLimit * factor
           r == Checked(table, n, ThWindow, limit)
           one == AdmittedOne(adm, n, thNow, which)
           adm2 == IF r.ok /\ r.tracked THEN one ELSE adm
           all == ThLimit * ThAllowance
           fresh == [start |-> thNow, count |-> 1]
           more == [table[n] EXCEPT !.count = @ + 1]
<1>0. /\ thNow \in Nat /\ ThWindow \in Nat \ {0} /\ ThLimit \in Nat \ {0} /\ all \in Nat \ {0} /\ limit \in Nat \ {0}
      /\ limit <= all /\ (which = "plain" => limit = ThLimit) /\ which \in {"plain", "verified"}
  <2>1. thNow \in Nat
    BY DEF Times
  <2>2. CASE which = "plain" /\ factor = 1
    <3>1. limit = ThLimit
      BY <2>2, LimitsPositive
    <3>2. QED
      BY <2>1, <2>2, <3>1, LimitsPositive
  <2>3. CASE which = "verified" /\ factor = ThAllowance
    BY <2>1, <2>3, LimitsPositive
  <2>4. QED
    BY <2>2, <2>3
<1>1. one \in Admissions
  BY <1>0, AdmittedOneIs
<1>2. \A m \in Networks \ {n} : PlainIn(one, m) = PlainIn(adm, m) /\ AllIn(one, m) = AllIn(adm, m)
  BY <1>0, AdmittedOneIs
<1>3. /\ AllIn(one, n) = OneMore(AllIn(adm, n), thNow)
      /\ PlainIn(one, n) = IF which = "plain" THEN OneMore(PlainIn(adm, n), thNow) ELSE PlainIn(adm, n)
  BY <1>0, AdmittedOneIs
<1>4. /\ PlainIn(adm, n) \in [Times -> Nat] /\ AllIn(adm, n) \in [Times -> Nat]
      /\ PlainIn(one, n) \in [Times -> Nat] /\ AllIn(one, n) \in [Times -> Nat]
  BY <1>1, PartsTyped
<1>5. Metered(PlainIn(adm, n), table[n], ThLimit, thNow) /\ Metered(AllIn(adm, n), table[n], all, thNow)
  BY DEF AllMetered
<1>6. /\ NoBucket.start = -1 /\ NoBucket.count = 0
      /\ table[n] # NoBucket => table[n] \in [start : Times, count : Nat]
  <2>1. table[n] # NoBucket => table[n] \in [start : Times, count : Nat]
    BY <1>5, Zenon DEF Metered
  <2>2. QED
    BY <2>1 DEF NoBucket
\* What is left of the lookup: nothing changed, a fresh bucket, or one more in it.
<1>7. \/ r.table = table /\ ~(r.ok /\ r.tracked)
      \/ /\ r.table = [table EXCEPT ![n] = fresh] /\ r.ok /\ r.tracked
         /\ table[n] = NoBucket \/ thNow - table[n].start >= ThWindow
      \/ /\ r.table = [table EXCEPT ![n] = more] /\ r.ok /\ r.tracked
         /\ table[n] # NoBucket /\ ~(thNow - table[n].start >= ThWindow) /\ table[n].count < limit
  <2> DEFINE b == IF table[n] = NoBucket THEN [start |-> thNow, count |-> 0] ELSE table[n]
             a == Advanced(b, ThWindow, limit)
  <2>1. CASE table[n] = NoBucket /\ Cardinality(Known(table, NoBucket)) >= ThBuckets
    <3>1. r = [table |-> table, ok |-> TRUE, tracked |-> FALSE]
      BY <2>1, Zenon DEF Checked
    <3>2. QED
      BY <3>1
  <2>2. CASE ~(table[n] = NoBucket /\ Cardinality(Known(table, NoBucket)) >= ThBuckets)
    <3>0. r = IF table[n] = NoBucket /\ Cardinality(Known(table, NoBucket)) >= ThBuckets
              THEN [table |-> table, ok |-> TRUE, tracked |-> FALSE]
              ELSE [table |-> [table EXCEPT ![n] = a.bucket], ok |-> a.ok, tracked |-> TRUE]
      BY DEF Checked
    <3>1. r = [table |-> [table EXCEPT ![n] = a.bucket], ok |-> a.ok, tracked |-> TRUE]
      <4> HIDE DEF r, a
      <4>1. QED
        BY <2>2, <3>0, Zenon
    <3>2. r.table = [table EXCEPT ![n] = a.bucket] /\ r.ok = a.ok /\ r.tracked = TRUE
      <4> HIDE DEF r, a
      <4>1. QED
        BY <3>1
    <3>3. CASE table[n] = NoBucket \/ thNow - table[n].start >= ThWindow
      <4>1. b = [start |-> thNow, count |-> 0] \/ (b = table[n] /\ thNow - b.start >= ThWindow)
        BY <3>3
      <4>2. thNow - thNow = 0 /\ ~(0 >= ThWindow) /\ ~(0 >= limit)
        BY <1>0
      <4> DEFINE b0 == [start |-> thNow, count |-> 0]
      <4>3. (IF thNow - b.start >= ThWindow THEN b0 ELSE b) = b0
        <5>1. CASE b = b0
          BY <5>1
        <5>2. CASE b = table[n] /\ thNow - b.start >= ThWindow
          BY <5>2
        <5>3. QED
          BY <4>1, <5>1, <5>2
      <4>4. a = IF b0.count >= limit THEN [bucket |-> b0, ok |-> FALSE]
                ELSE [bucket |-> [b0 EXCEPT !.count = @ + 1], ok |-> TRUE]
        <5> HIDE DEF b
        <5>1. QED
          BY <4>3 DEF Advanced
      <4>5. [b0 EXCEPT !.count = @ + 1] = fresh /\ ~(b0.count >= limit)
        BY <4>2
      <4>6. a.bucket = fresh /\ a.ok = TRUE
        <5> HIDE DEF a, b0, fresh
        <5>1. QED
          BY <4>4, <4>5
      <4>7. QED
        <5> HIDE DEF a, fresh, r
        <5>1. QED
          BY <3>2, <3>3, <4>6
    <3>4. CASE ~(table[n] = NoBucket \/ thNow - table[n].start >= ThWindow)
      <4>1. b = table[n]
        BY <3>4
      <4>2. a = IF table[n].count >= limit THEN [bucket |-> table[n], ok |-> FALSE]
                ELSE [bucket |-> more, ok |-> TRUE]
        BY <3>4, <4>1 DEF Advanced
      <4>3. CASE table[n].count >= limit
        <5>1. a.bucket = table[n] /\ a.ok = FALSE
          BY <4>2, <4>3
        <5>2. [table EXCEPT ![n] = table[n]] = table
          BY DEF Keyed
        <5>3. QED
          <6> HIDE DEF a, r
          <6>1. QED
            BY <3>2, <5>1, <5>2
      <4>4. CASE ~(table[n].count >= limit)
        <5>1. a.bucket = more /\ a.ok = TRUE
          BY <4>2, <4>4
        <5>2. table[n].count < limit
          BY <1>0, <1>6, <3>4, <4>4
        <5>3. QED
          <6> HIDE DEF a, r, more
          <6>1. QED
            BY <3>2, <3>4, <5>1, <5>2
      <4>5. QED
        BY <4>3, <4>4
    <3>5. QED
      BY <3>3, <3>4
  <2>3. QED
    BY <2>1, <2>2
<1> SUFFICES adm2 \in Admissions /\ Keyed(r.table) /\ AllMetered(adm2, r.table, thNow)
  OBVIOUS
<1> HIDE DEF r, one
<1>8. CASE r.table = table /\ ~(r.ok /\ r.tracked)
  <2>1. adm2 = adm
    BY <1>8, Zenon
  <2> HIDE DEF adm2
  <2>2. QED
    BY <1>8, <2>1
<1>9. ASSUME NEW bucket, r.table = [table EXCEPT ![n] = bucket], r.ok /\ r.tracked,
             Metered(PlainIn(one, n), bucket, ThLimit, thNow), Metered(AllIn(one, n), bucket, all, thNow)
      PROVE  adm2 \in Admissions /\ Keyed(r.table) /\ AllMetered(adm2, r.table, thNow)
  <2>1. adm2 = one
    BY <1>9
  <2>2. Keyed(r.table) /\ r.table[n] = bucket /\ \A m \in Networks \ {n} : r.table[m] = table[m]
    BY <1>9 DEF Keyed
  <2>3. ASSUME NEW m \in Networks
        PROVE  Metered(PlainIn(one, m), r.table[m], ThLimit, thNow) /\ Metered(AllIn(one, m), r.table[m], all, thNow)
    <3>1. CASE m = n
      BY <3>1, <1>9, <2>2
    <3>2. CASE m # n
      <4>1. Metered(PlainIn(adm, m), table[m], ThLimit, thNow) /\ Metered(AllIn(adm, m), table[m], all, thNow)
        BY DEF AllMetered
      <4>2. PlainIn(one, m) = PlainIn(adm, m) /\ AllIn(one, m) = AllIn(adm, m) /\ r.table[m] = table[m]
        BY <3>2, <1>2, <2>2
      <4>3. QED
        BY <4>1, <4>2
    <3>3. QED
      BY <3>1, <3>2
  <2>4. QED
    BY <1>1, <2>1, <2>2, <2>3 DEF AllMetered
<1>10. CASE /\ r.table = [table EXCEPT ![n] = fresh] /\ r.ok /\ r.tracked
            /\ table[n] = NoBucket \/ thNow - table[n].start >= ThWindow
  <2>1. Metered(PlainIn(adm, n), NoBucket, ThLimit, thNow) /\ Metered(AllIn(adm, n), NoBucket, all, thNow)
    <3>1. CASE table[n] = NoBucket
      BY <3>1, <1>5
    <3>2. CASE table[n] # NoBucket
      <4>1. thNow - table[n].start >= ThWindow
        BY <1>10, <3>2
      <4> HIDE DEF all
      <4>2. QED
        BY <3>2, <4>1, <1>0, <1>4, <1>5, MeteredSwept
    <3>3. QED
      BY <3>1, <3>2
  <2>2. Metered(PlainIn(one, n), fresh, ThLimit, thNow)
    <3>1. PlainIn(one, n) = PlainIn(adm, n) \/ PlainIn(one, n) = OneMore(PlainIn(adm, n), thNow)
      BY <1>3
    <3>2. QED
      BY <2>1, <3>1, <1>0, <1>4, MeteredOpened
  <2>3. Metered(AllIn(one, n), fresh, all, thNow)
    <3> HIDE DEF all
    <3>1. QED
      BY <2>1, <1>0, <1>3, <1>4, MeteredOpened
  <2>4. QED
    <3> HIDE DEF fresh, all, adm2
    <3>1. QED
      BY <2>2, <2>3, <1>9, <1>10, Zenon
<1>11. CASE /\ r.table = [table EXCEPT ![n] = more] /\ r.ok /\ r.tracked
            /\ table[n] # NoBucket /\ ~(thNow - table[n].start >= ThWindow) /\ table[n].count < limit
  <2>1. Metered(PlainIn(one, n), more, ThLimit, thNow)
    <3>1. \/ PlainIn(one, n) = PlainIn(adm, n)
          \/ PlainIn(one, n) = OneMore(PlainIn(adm, n), thNow) /\ table[n].count < ThLimit
      <4> HIDE DEF limit
      <4>1. QED
        BY <1>0, <1>3, <1>11
    <3>2. QED
      BY <3>1, <1>0, <1>4, <1>5, <1>11, MeteredCounted
  <2>2. Metered(AllIn(one, n), more, all, thNow)
    <3> HIDE DEF all, limit
    <3>1. table[n].count < all
      BY <1>0, <1>6, <1>11
    <3>2. QED
      BY <3>1, <1>0, <1>3, <1>4, <1>5, <1>11, MeteredCounted
  <2>3. QED
    <3> HIDE DEF more, all, adm2
    <3>1. QED
      BY <2>1, <2>2, <1>9, <1>11, Zenon
<1>12. QED
  <2> HIDE DEF fresh, more, limit, all, adm2
  <2>1. QED
    BY <1>7, <1>8, <1>10, <1>11, Zenon

\* The sweep of the accounts forgets those that earned their credit back.
LEMMA RrlKeptKeeps ==
  ASSUME ThAssumption, ThInv
  PROVE  /\ RrlKept = [k \in AccountKeys |-> RrlKept[k]] \/ RrlKept = thAccounts
         /\ DOMAIN RrlKept = AccountKeys /\ AllPaid(thReplies, RrlKept, thNow)
<1> DEFINE swept == [k \in AccountKeys |-> IF thNow - thAccounts[k].last < ThRrlWindow + 1 THEN thAccounts[k] ELSE NoAccount]
<1>1. RrlKept = thAccounts \/ RrlKept = swept
  BY DEF RrlKept
<1>2. AllPaid(thReplies, thAccounts, thNow) /\ DOMAIN thAccounts = AccountKeys /\ thNow \in Times
  BY DEF ThInv
<1>3. \A k \in AccountKeys : thReplies[k] \in [Times -> Nat]
  BY DEF ThInv
<1>4. DOMAIN swept = AccountKeys /\ swept = [k \in AccountKeys |-> swept[k]]
  OBVIOUS
<1>5. ASSUME NEW k \in AccountKeys PROVE Paid(thReplies[k], swept[k], thNow)
  <2>1. Paid(thReplies[k], thAccounts[k], thNow)
    BY <1>2 DEF AllPaid
  <2>2. CASE swept[k] = thAccounts[k]
    BY <2>1, <2>2
  <2>3. CASE swept[k] # thAccounts[k]
    <3>1. swept[k] = NoAccount /\ thAccounts[k] # NoAccount /\ ~(thNow - thAccounts[k].last < ThRrlWindow + 1)
      BY <2>3
    <3>2. thAccounts[k] \in [last : Times, balance : Int, limited : Nat]
      BY <2>1, <3>1, Zenon DEF Paid
    <3>3. thAccounts[k].last \in Times /\ ThRrlWindow \in Nat /\ thNow \in Nat
      BY <1>2, <3>2 DEF ThAssumption, Times
    <3>4. thAccounts[k].last + 1 <= thNow
      BY <3>1, <3>3 DEF Times
    <3> HIDE DEF swept
    <3>5. QED
      BY <1>2, <1>3, <2>1, <3>1, <3>4, PaidForgotten
  <2>4. QED
    BY <2>2, <2>3
<1> HIDE DEF swept
<1>6. AllPaid(thReplies, swept, thNow)
  BY <1>5 DEF AllPaid
<1>7. QED
  BY <1>1, <1>2, <1>4, <1>6

\* One more response sent on an account.
SentOne(f, k, now) == [f EXCEPT ![k][now] = @ + 1]
LEMMA SentOneIs ==
  ASSUME NEW f, NEW k, NEW now
  PROVE  SentOne(f, k, now) = [f EXCEPT ![k] = OneMore(f[k], now)]
BY DEF SentOne, OneMore

\* Sending a response, or not, leaves every account in agreement.
LEMMA SendKeeps ==
  ASSUME ThAssumption, ThInv, NEW c \in ThClients, NEW name \in ThNames, NEW class \in Classes, NEW counted,
         SendResponse(c, name, class, counted)
  PROVE  /\ thReplies' \in [AccountKeys -> [Times -> Nat]] /\ DOMAIN thAccounts' = AccountKeys
         /\ AllPaid(thReplies', thAccounts', thNow)
<1> DEFINE key == <<ThNetwork[c], class, AccountName(class, name)>>
           kept == RrlKept
           full == kept[key] = NoAccount /\ Cardinality(Known(kept, NoAccount)) >= ThAccounts
           old == IF kept[key] = NoAccount THEN [last |-> thNow, balance |-> ThRate, limited |-> 0] ELSE kept[key]
           a == Debited(old)
<1>1. /\ AllPaid(thReplies, thAccounts, thNow) /\ DOMAIN thAccounts = AccountKeys /\ thNow \in Times
      /\ thReplies \in [AccountKeys -> [Times -> Nat]]
  BY DEF ThInv
<1>2. key \in AccountKeys
  <2>1. ThNetwork[c] \in Networks
    BY DEF Networks
  <2>2. QED
    BY <2>1 DEF AccountKeys
<1>3. DOMAIN kept = AccountKeys /\ AllPaid(thReplies, kept, thNow)
  BY RrlKeptKeeps
<1>4. CASE ~counted \/ ~thSettings.rrl \/ c \in ThExempt
  <2>1. thAccounts' = thAccounts /\ UNCHANGED <<thRrlSwept, thReplies>>
    BY <1>4, Zenon DEF SendResponse
  <2>2. QED
    BY <2>1, <1>1
<1>5. CASE ~(~counted \/ ~thSettings.rrl \/ c \in ThExempt)
  <2>1. /\ thAccounts' = IF full THEN kept ELSE [kept EXCEPT ![key] = a]
        /\ thReplies' = IF ~full /\ ~thSettings.logOnly /\ RrlVerdict(a) = "send"
                        THEN SentOne(thReplies, key, thNow) ELSE thReplies
    BY <1>5, Zenon DEF SendResponse, SentOne
  <2>2. CASE full
    <3>1. thAccounts' = kept /\ thReplies' = thReplies
      <4> HIDE DEF full, kept, a, key
      <4>1. QED
        BY <2>1, <2>2, Zenon
    <3>2. QED
      BY <3>1, <1>1, <1>3
  <2>3. CASE ~full
    <3>1. thReplies[key] \in [Times -> Nat] /\ thReplies[key][thNow] \in Nat
      BY <1>1, <1>2
    <3>2. PICK g \in [Times -> Nat] :
            /\ thReplies' = [thReplies EXCEPT ![key] = g]
            /\ g = thReplies[key] \/ (g = OneMore(thReplies[key], thNow) /\ a.balance >= 0)
      <4>1. CASE ~thSettings.logOnly /\ RrlVerdict(a) = "send"
        <5>1. thReplies' = [thReplies EXCEPT ![key] = OneMore(thReplies[key], thNow)]
          <6>1. thReplies' = SentOne(thReplies, key, thNow)
            <7> HIDE DEF full, kept, a, key
            <7>1. QED
              BY <2>1, <2>3, <4>1, Zenon
          <6>2. QED
            <7> HIDE DEF full, kept, a, key
            <7>1. QED
              BY <6>1, SentOneIs
        <5>2. OneMore(thReplies[key], thNow) \in [Times -> Nat]
          <6> HIDE DEF full, kept, a, key
          <6>1. QED
            BY <3>1, <1>1 DEF OneMore
        <5>3. a.balance >= 0
          <6> HIDE DEF a
          <6>1. QED
            BY <4>1 DEF RrlVerdict
        <5>4. QED
          BY <5>1, <5>2, <5>3
      <4>2. CASE ~(~thSettings.logOnly /\ RrlVerdict(a) = "send")
        <5>1. thReplies' = thReplies
          <6> HIDE DEF full, kept, a, key
          <6>1. QED
            BY <2>1, <4>2, Zenon
        <5>2. thReplies' = [thReplies EXCEPT ![key] = thReplies[key]]
          BY <5>1, <1>1
        <5>3. QED
          BY <5>2, <3>1
      <4>3. QED
        BY <4>1, <4>2
    <3>3. thAccounts' = [kept EXCEPT ![key] = a]
      <4> HIDE DEF full, kept, a, key
      <4>1. QED
        BY <2>1, <2>3, Zenon
    <3>4. Paid(thReplies[key], kept[key], thNow)
      BY <1>2, <1>3 DEF AllPaid
    <3>5. Paid(g, a, thNow)
      <4>1. CASE kept[key] = NoAccount
        <5>1. old = [last |-> thNow, balance |-> ThRate, limited |-> 0]
          <6> HIDE DEF kept, key
          <6>1. QED
            BY <4>1, Zenon
        <5>2. a = Debited([last |-> thNow, balance |-> ThRate, limited |-> 0])
          <6> HIDE DEF old
          <6>1. QED
            BY <5>1
        <5>3. g = thReplies[key] \/ g = OneMore(thReplies[key], thNow)
          BY <3>2
        <5>4. Paid(thReplies[key], NoAccount, thNow)
          BY <3>4, <4>1
        <5> HIDE DEF a, key
        <5>5. QED
          BY <5>2, <5>3, <5>4, <1>1, <3>1, PaidOpened
      <4>2. CASE kept[key] # NoAccount
        <5>1. old = kept[key]
          <6> HIDE DEF kept, key
          <6>1. QED
            BY <4>2, Zenon
        <5>2. a = Debited(kept[key])
          <6> HIDE DEF old
          <6>1. QED
            BY <5>1
        <5> HIDE DEF a, key, kept
        <5>3. QED
          BY <4>2, <5>2, <1>1, <3>1, <3>2, <3>4, PaidDebited
      <4>3. QED
        BY <4>1, <4>2
    <3> HIDE DEF a, key, kept, full, old
    <3>6. thReplies' \in [AccountKeys -> [Times -> Nat]] /\ DOMAIN thAccounts' = AccountKeys
      BY <1>1, <1>2, <1>3, <3>2, <3>3
    <3>7. ASSUME NEW k \in AccountKeys PROVE Paid(thReplies'[k], thAccounts'[k], thNow)
      <4>1. CASE k = key
        <5>1. thReplies'[k] = g /\ thAccounts'[k] = a
          BY <4>1, <1>1, <1>2, <1>3, <3>2, <3>3
        <5>2. QED
          BY <5>1, <3>5
      <4>2. CASE k # key
        <5>1. thReplies'[k] = thReplies[k] /\ thAccounts'[k] = kept[k]
          BY <4>2, <1>1, <1>2, <1>3, <3>2, <3>3
        <5>2. Paid(thReplies[k], kept[k], thNow)
          BY <1>3 DEF AllPaid
        <5>3. QED
          BY <5>1, <5>2
      <4>3. QED
        BY <4>1, <4>2
    <3>8. AllPaid(thReplies', thAccounts', thNow)
      BY <3>7 DEF AllPaid
    <3>9. QED
      BY <3>6, <3>8
  <2>4. QED
    BY <2>2, <2>3
<1>6. QED
  BY <1>4, <1>5

\* A query: its buckets and its account move with what it is let have.
LEMMA ThQueryKeeps ==
  ASSUME ThAssumption, ThInv, NEW c \in ThClients, NEW name \in ThNames, NEW class \in Classes,
         NEW udp \in BOOLEAN, NEW cookie, ThQuery(c, name, class, udp, cookie)
  PROVE  ThInv'
<1> DEFINE verified == CookieValid(cookie, c)
           factor == IF verified THEN ThAllowance ELSE 1
           which == IF verified THEN "verified" ELSE "plain"
           held == [clients |-> thClients, domains |-> thDomains, at |-> thSwept]
           client == CheckClient(c, factor, held)
           domain == IF client.ok THEN CheckDomain(name, client.left) ELSE [ok |-> FALSE, left |-> client.left]
           n == ThNetwork[c]
           adm2 == IF client.ok /\ client.tracked THEN AdmittedOne(thAdmitted, n, thNow, which) ELSE thAdmitted
<1>1. /\ thNow \in Times /\ thAdmitted \in Admissions /\ Keyed(thClients) /\ AllMetered(thAdmitted, thClients, thNow)
  BY DEF ThInv
<1>2. n \in Networks
  BY DEF Networks
<1>3. /\ thClients' = domain.left.clients /\ thAdmitted' = adm2 /\ thNow' = thNow
      /\ SendResponse(c, name, IF domain.ok THEN class ELSE "error", udp /\ ~verified)
  BY DEF ThQuery, AdmittedOne
<1>4. (IF domain.ok THEN class ELSE "error") \in Classes
  BY DEF Classes
<1>5. /\ thReplies' \in [AccountKeys -> [Times -> Nat]] /\ DOMAIN thAccounts' = AccountKeys
      /\ AllPaid(thReplies', thAccounts', thNow)
  <2> HIDE DEF domain, verified
  <2>1. QED
    BY <1>3, <1>4, SendKeeps
<1>6. \/ which = "plain" /\ factor = 1
      \/ which = "verified" /\ factor = ThAllowance
  OBVIOUS
<1>7. adm2 \in Admissions /\ Keyed(client.left.clients) /\ AllMetered(adm2, client.left.clients, thNow)
  <2>1. CASE ~thSettings.limits \/ c \in ThExempt
    <3>1. client = [ok |-> TRUE, tracked |-> FALSE, left |-> held]
      BY <2>1, Zenon DEF CheckClient
    <3>2. client.tracked = FALSE /\ client.left.clients = thClients
      <4>1. client.tracked = FALSE /\ client.left = held
        <5> HIDE DEF client, held
        <5>1. QED
          BY <3>1
      <4>2. held.clients = thClients
        OBVIOUS
      <4>3. QED
        BY <4>1, <4>2
    <3>3. adm2 = thAdmitted
      BY <3>2, Zenon
    <3>4. QED
      BY <3>2, <3>3, <1>1
  <2>2. CASE ~(~thSettings.limits \/ c \in ThExempt)
    <3> DEFINE r == Checked(thClients, n, ThWindow, ThLimit * factor)
               left == [held EXCEPT !.clients = r.table]
               adm3 == IF r.ok /\ r.tracked THEN AdmittedOne(thAdmitted, n, thNow, which) ELSE thAdmitted
    <3>1. client = [ok |-> r.ok, tracked |-> r.tracked, left |-> Sweep(left)]
      <4>1. held.clients = thClients
        OBVIOUS
      <4> HIDE DEF held
      <4>2. QED
        BY <2>2, <4>1, Zenon DEF CheckClient
    <3>2. client.ok = r.ok /\ client.tracked = r.tracked /\ client.left = Sweep(left)
      <4> HIDE DEF client, r, left
      <4>1. QED
        BY <3>1
    <3>3. adm3 \in Admissions /\ Keyed(r.table) /\ AllMetered(adm3, r.table, thNow)
      <4> HIDE DEF factor, which, n
      <4>1. QED
        BY <1>1, <1>2, <1>6, CheckedKeeps
    <3>4. adm2 = adm3
      <4> HIDE DEF client, r, left
      <4>1. QED
        BY <3>2
    <3>5. left.clients = r.table
      <4> HIDE DEF r
      <4>1. QED
        OBVIOUS
    <3>6. Keyed(Sweep(left).clients) /\ AllMetered(adm3, Sweep(left).clients, thNow)
      <4> HIDE DEF r, left, adm3
      <4>1. QED
        BY <1>1, <3>3, <3>5, SweepKeeps
    <3>7. QED
      <4> HIDE DEF client, r, left, adm3, adm2
      <4>1. QED
        BY <3>2, <3>3, <3>4, <3>6
  <2>3. QED
    BY <2>1, <2>2
<1> HIDE DEF adm2, client
<1>8. Keyed(domain.left.clients) /\ AllMetered(adm2, domain.left.clients, thNow)
  <2>1. CASE ~client.ok
    <3>1. domain = [ok |-> FALSE, left |-> client.left]
      BY <2>1, Zenon
    <3>2. domain.left = client.left
      <4> HIDE DEF domain
      <4>1. QED
        BY <3>1
    <3>3. QED
      BY <3>2, <1>7
  <2>2. CASE client.ok
    <3>1. domain = CheckDomain(name, client.left)
      BY <2>2, Zenon
    <3>2. CASE ~thSettings.limits
      <4>1. domain = [ok |-> TRUE, left |-> client.left]
        BY <3>1, <3>2, Zenon DEF CheckDomain
      <4>2. domain.left = client.left
        <5> HIDE DEF domain
        <5>1. QED
          BY <4>1
      <4>3. QED
        BY <4>2, <1>7
    <3>3. CASE thSettings.limits
      <4> DEFINE r == Checked(client.left.domains, name, ThDomainWindow, ThDomainLimit)
                 left == [client.left EXCEPT !.domains = r.table]
      <4>1. domain = [ok |-> r.ok, left |-> Sweep(left)]
        BY <3>1, <3>3, Zenon DEF CheckDomain
      <4>2. left.clients = client.left.clients
        <5> HIDE DEF r
        <5>1. QED
          OBVIOUS
      <4>3. Keyed(Sweep(left).clients) /\ AllMetered(adm2, Sweep(left).clients, thNow)
        <5> HIDE DEF left
        <5>1. QED
          BY <1>1, <1>7, <4>2, SweepKeeps
      <4>4. domain.left = Sweep(left)
        <5> HIDE DEF domain, left, r
        <5>1. QED
          BY <4>1
      <4>5. QED
        BY <4>3, <4>4
    <3>4. QED
      BY <3>2, <3>3
  <2>3. QED
    BY <2>1, <2>2
<1> HIDE DEF domain
<1>9. QED
  BY <1>1, <1>3, <1>5, <1>7, <1>8 DEF ThInv

\* The clock moves on: buckets and accounts only age.
LEMMA ThTickKeeps ==
  ASSUME ThAssumption, ThInv, ThTick
  PROVE  ThInv'
<1>1. /\ thNow \in Times /\ thAdmitted \in Admissions /\ Keyed(thClients) /\ AllMetered(thAdmitted, thClients, thNow)
      /\ thReplies \in [AccountKeys -> [Times -> Nat]] /\ DOMAIN thAccounts = AccountKeys
      /\ AllPaid(thReplies, thAccounts, thNow)
  BY DEF ThInv
<1>2. /\ thNow < ThMaxTime /\ thNow' = thNow + 1
      /\ thClients' = thClients /\ thAccounts' = thAccounts /\ thAdmitted' = thAdmitted /\ thReplies' = thReplies
  BY DEF ThTick
<1>3. thNow + 1 \in Times
  BY <1>1, <1>2 DEF ThAssumption, Times
<1>4. ASSUME NEW n \in Networks
      PROVE  /\ Metered(PlainIn(thAdmitted, n), thClients[n], ThLimit, thNow + 1)
             /\ Metered(AllIn(thAdmitted, n), thClients[n], ThLimit * ThAllowance, thNow + 1)
  <2>1. PlainIn(thAdmitted, n) \in [Times -> Nat] /\ AllIn(thAdmitted, n) \in [Times -> Nat]
    BY <1>1, PartsTyped
  <2>2. ThLimit \in Nat /\ ThLimit * ThAllowance \in Nat
    BY LimitsPositive
  <2>3. /\ Metered(PlainIn(thAdmitted, n), thClients[n], ThLimit, thNow)
        /\ Metered(AllIn(thAdmitted, n), thClients[n], ThLimit * ThAllowance, thNow)
    BY <1>1 DEF AllMetered
  <2>4. QED
    BY <1>1, <1>3, <2>1, <2>2, <2>3, MeteredTick
<1>5. ASSUME NEW k \in AccountKeys PROVE Paid(thReplies[k], thAccounts[k], thNow + 1)
  <2>1. thReplies[k] \in [Times -> Nat] /\ Paid(thReplies[k], thAccounts[k], thNow)
    BY <1>1 DEF AllPaid
  <2>2. QED
    BY <1>1, <1>3, <2>1, PaidTick
<1>6. AllMetered(thAdmitted, thClients, thNow + 1) /\ AllPaid(thReplies, thAccounts, thNow + 1)
  BY <1>4, <1>5 DEF AllMetered, AllPaid
<1>7. QED
  BY <1>1, <1>2, <1>3, <1>6 DEF ThInv

\* Nothing let through, with no buckets and no accounts, agrees.
LEMMA EmptyAgrees ==
  ASSUME ThAssumption, thNow \in Times
  PROVE  /\ Keyed(Fresh(Networks, NoBucket))
         /\ LET adm == Fresh(Networks, [t \in Times |-> [plain |-> 0, verified |-> 0]]) IN
            adm \in Admissions /\ AllMetered(adm, Fresh(Networks, NoBucket), thNow)
         /\ LET sent == Fresh(AccountKeys, [t \in Times |-> 0]) IN
            /\ sent \in [AccountKeys -> [Times -> Nat]] /\ DOMAIN Fresh(AccountKeys, NoAccount) = AccountKeys
            /\ AllPaid(sent, Fresh(AccountKeys, NoAccount), thNow)
<1> DEFINE none == [t \in Times |-> 0]
           adm == Fresh(Networks, [t \in Times |-> [plain |-> 0, verified |-> 0]])
           sent == Fresh(AccountKeys, none)
<1>0. ThMaxTime \in Nat /\ thNow \in Nat /\ ThLimit \in Nat /\ ThLimit * ThAllowance \in Nat /\ ThRate \in Nat
  BY LimitsPositive DEF Times, ThAssumption
<1>1. \A t \in Ends : t \in Nat /\ Since(none, t) = 0
  <2>1. \A t \in Ends : Before(none)[t] = 0
    BY <1>0, BeforeOfNothing
  <2>2. ThMaxTime + 1 \in Ends /\ \A t \in Ends : t \in Nat
    BY <1>0 DEF Ends
  <2> HIDE DEF none
  <2>3. QED
    BY <2>1, <2>2 DEF Since
<1>2. none \in [Times -> Nat]
  OBVIOUS
<1>3. thNow \in Ends /\ WindowBefore(thNow) \in Ends
  BY WindowBeforeIn
<1>4. \A limit \in Nat : Metered(none, NoBucket, limit, thNow)
  <2> HIDE DEF none
  <2>1. QED
    BY <1>1, <1>3 DEF Metered
<1>5. Paid(none, NoAccount, thNow)
  <2>1. ASSUME NEW t \in Ends, t <= thNow PROVE ThRate * (thNow - t) >= 0
    <3>1. thNow - t \in Nat
      BY <1>0, <1>1, <2>1
    <3>2. QED
      BY <1>0, <3>1, RateTimes
  <2> HIDE DEF none
  <2>2. QED
    BY <1>1, <2>1 DEF Paid
<1>6. Keyed(Fresh(Networks, NoBucket)) /\ \A n \in Networks : Fresh(Networks, NoBucket)[n] = NoBucket
  BY DEF Keyed, Fresh
<1>7. adm \in Admissions
  BY DEF Admissions, Fresh
<1>8. \A n \in Networks : PlainIn(adm, n) = none /\ AllIn(adm, n) = none
  <2>1. \A n \in Networks, u \in Times : adm[n][u].plain = 0 /\ adm[n][u].plain + adm[n][u].verified = 0
    BY DEF Fresh
  <2> HIDE DEF adm
  <2>2. QED
    BY <2>1 DEF PlainIn, AllIn
<1>9. AllMetered(adm, Fresh(Networks, NoBucket), thNow)
  <2> HIDE DEF adm, none
  <2>1. QED
    BY <1>0, <1>4, <1>6, <1>8 DEF AllMetered
<1>10. sent \in [AccountKeys -> [Times -> Nat]] /\ DOMAIN Fresh(AccountKeys, NoAccount) = AccountKeys
  <2> HIDE DEF none
  <2>1. QED
    BY <1>2 DEF Fresh
<1>11. AllPaid(sent, Fresh(AccountKeys, NoAccount), thNow)
  <2> HIDE DEF none
  <2>1. \A k \in AccountKeys : sent[k] = none /\ Fresh(AccountKeys, NoAccount)[k] = NoAccount
    BY DEF Fresh
  <2> HIDE DEF sent
  <2>2. QED
    BY <2>1, <1>5 DEF AllPaid
<1>12. QED
  BY <1>6, <1>7, <1>9, <1>10, <1>11

\* The limits start, and stay, in agreement with what they let through.
LEMMA ThInvInductive ==
  ASSUME ThAssumption
  PROVE  (ThInit => ThInv) /\ (ThInv /\ [ThNext]_thVars => ThInv')
<1>1. ThInit => ThInv
  <2> SUFFICES ASSUME ThInit PROVE ThInv
    OBVIOUS
  <2>1. thNow = 0 /\ thNow \in Times
    BY LimitsPositive DEF ThInit, Times
  <2>2. /\ thClients = Fresh(Networks, NoBucket) /\ thAccounts = Fresh(AccountKeys, NoAccount)
        /\ thAdmitted = Fresh(Networks, [t \in Times |-> [plain |-> 0, verified |-> 0]])
        /\ thReplies = Fresh(AccountKeys, [t \in Times |-> 0])
    BY DEF ThInit
  <2>3. QED
    BY <2>1, <2>2, EmptyAgrees DEF ThInv
<1>2. ASSUME ThInv, [ThNext]_thVars PROVE ThInv'
  <2>0. ThInv
    BY <1>2
  <2>1. CASE UNCHANGED thVars
    <3>1. /\ thNow' = thNow /\ thAdmitted' = thAdmitted /\ thClients' = thClients
          /\ thReplies' = thReplies /\ thAccounts' = thAccounts
      BY <2>1 DEF thVars
    <3>2. QED
      BY <2>0, <3>1 DEF ThInv
  <2>2. ASSUME NEW c \in ThClients, NEW q \in ThQueries, NEW cookie \in {NoCookie} \cup {Shown(d) : d \in ThClients},
               ThQuery(c, q.name, q.class, q.udp, cookie)
        PROVE  ThInv'
    <3>1. q \in [name : ThNames, class : {"answer", "nxdomain", "error"}, udp : BOOLEAN]
      BY DEF ThAssumption
    <3>2. q.name \in ThNames /\ q.class \in Classes /\ q.udp \in BOOLEAN
      BY <3>1 DEF Classes
    <3>3. QED
      BY <2>0, <2>2, <3>2, ThQueryKeeps
  <2>3. CASE ThTick
    BY <2>0, <2>3, ThTickKeeps
  <2>4. ASSUME NEW new \in ThChoices, ThSettings(new) PROVE ThInv'
    <3>1. /\ thNow' = thNow /\ thAdmitted' = thAdmitted /\ thClients' = thClients
          /\ thAccounts' = IF new.rrl THEN thAccounts ELSE Fresh(AccountKeys, NoAccount)
          /\ thReplies' = IF new.rrl THEN thReplies ELSE Fresh(AccountKeys, [t \in Times |-> 0])
      BY <2>4 DEF ThSettings
    <3>2. \/ thAccounts' = thAccounts /\ thReplies' = thReplies
          \/ thAccounts' = Fresh(AccountKeys, NoAccount) /\ thReplies' = Fresh(AccountKeys, [t \in Times |-> 0])
      BY <3>1, Zenon
    <3>3. /\ thReplies' \in [AccountKeys -> [Times -> Nat]] /\ DOMAIN thAccounts' = AccountKeys
          /\ AllPaid(thReplies', thAccounts', thNow)
      <4>1. thNow \in Times
        BY <2>0 DEF ThInv
      <4>2. CASE thAccounts' = thAccounts /\ thReplies' = thReplies
        BY <2>0, <4>2 DEF ThInv
      <4>3. CASE thAccounts' = Fresh(AccountKeys, NoAccount) /\ thReplies' = Fresh(AccountKeys, [t \in Times |-> 0])
        BY <4>1, <4>3, EmptyAgrees
      <4>4. QED
        BY <3>2, <4>2, <4>3
    <3>4. QED
      BY <2>0, <3>1, <3>3 DEF ThInv
  <2>5. CASE ThRestart
    <3>1. /\ thNow' = thNow /\ thClients' = Fresh(Networks, NoBucket) /\ thAccounts' = Fresh(AccountKeys, NoAccount)
          /\ thAdmitted' = Fresh(Networks, [t \in Times |-> [plain |-> 0, verified |-> 0]])
          /\ thReplies' = Fresh(AccountKeys, [t \in Times |-> 0])
      BY <2>5 DEF ThRestart
    <3>2. thNow \in Times
      BY <2>0 DEF ThInv
    <3>3. QED
      BY <3>1, <3>2, EmptyAgrees DEF ThInv
  <2>6. QED
    BY <1>2, <2>1, <2>2, <2>3, <2>4, <2>5 DEF ThNext
<1>3. QED
  BY <1>1, <1>2

\* The limits on clients hold over every stretch of time: a tracked network is
\* let through at most two windows' worth of queries in one window's length (each
\* window counted from its own start), ThAllowance times as many with verified
\* ones, and no account is sent more full responses than its rate (rate_limit.rs,
\* rrl.rs), whatever sweeps, clock ticks, settings and restarts come between.
THEOREM ThrottlesHoldCorrect == ThSpec => []ThrottlesHold
<1>1. ThAssumption
  BY ThAssumption
<1>2. ThInit => ThInv
  BY <1>1, ThInvInductive
<1>3. ThInv /\ [ThNext]_thVars => ThInv'
  BY <1>1, ThInvInductive
<1>4. ThInv => ThrottlesHold
  <2> SUFFICES ASSUME ThInv PROVE ThrottlesHold
    OBVIOUS
  <2>1. /\ thNow \in Times /\ thAdmitted \in Admissions /\ AllMetered(thAdmitted, thClients, thNow)
        /\ thReplies \in [AccountKeys -> [Times -> Nat]] /\ AllPaid(thReplies, thAccounts, thNow)
    BY DEF ThInv
  <2>2. Max({0, thNow - ThWindow + 1}) = WindowBefore(thNow)
    <3>1. thNow \in Nat /\ ThWindow \in Nat
      BY <1>1, <2>1, LimitsPositive DEF Times
    <3>2. Max({0, thNow - ThWindow + 1}) = IF 0 <= thNow - ThWindow + 1 THEN thNow - ThWindow + 1 ELSE 0
      <4>1. 0 \in Int /\ thNow - ThWindow + 1 \in Int
        BY <3>1
      <4>2. QED
        BY <4>1, MinMaxOfTwo
    <3>3. QED
      BY <3>1, <3>2 DEF WindowBefore
  <2>3. ASSUME NEW n \in Networks
        PROVE  /\ SumOver(PlainOf(n), Max({0, thNow - ThWindow + 1}), thNow) <= 2 * ThLimit
               /\ SumOver(AllOf(n), Max({0, thNow - ThWindow + 1}), thNow) <= 2 * ThLimit * ThAllowance
    <3>1. PlainIn(thAdmitted, n) \in [Times -> Nat] /\ AllIn(thAdmitted, n) \in [Times -> Nat]
      BY <2>1, PartsTyped
    <3>2. ThLimit \in Nat /\ ThLimit * ThAllowance \in Nat /\ ThAllowance \in Nat
      BY <1>1, LimitsPositive
    <3>3. /\ Metered(PlainIn(thAdmitted, n), thClients[n], ThLimit, thNow)
          /\ Metered(AllIn(thAdmitted, n), thClients[n], ThLimit * ThAllowance, thNow)
      BY <2>1 DEF AllMetered
    <3>4. /\ SumOver(PlainIn(thAdmitted, n), WindowBefore(thNow), thNow) <= 2 * ThLimit
          /\ SumOver(AllIn(thAdmitted, n), WindowBefore(thNow), thNow) <= 2 * (ThLimit * ThAllowance)
      BY <1>1, <2>1, <3>1, <3>2, <3>3, MeteredHolds
    <3>5. PlainOf(n) = PlainIn(thAdmitted, n) /\ AllOf(n) = AllIn(thAdmitted, n)
      BY DEF PlainOf, AllOf, PlainIn, AllIn
    <3>6. 2 * ThLimit * ThAllowance = 2 * (ThLimit * ThAllowance)
      BY <3>2
    <3>7. QED
      BY <2>2, <3>4, <3>5, <3>6
  <2>4. ASSUME NEW k \in AccountKeys, NEW t \in 0 .. thNow
        PROVE  SumOver(thReplies[k], t, thNow) <= ThRate * (thNow - t + 1)
    <3>1. thReplies[k] \in [Times -> Nat] /\ Paid(thReplies[k], thAccounts[k], thNow)
      BY <2>1 DEF AllPaid
    <3>2. QED
      BY <1>1, <2>1, <3>1, PaidHolds
  <2>5. QED
    BY <2>3, <2>4 DEF ThrottlesHold
<1>5. QED
  BY <1>2, <1>3, <1>4, PTL DEF ThSpec

----------------------------------------------------------------------------
(* The encrypted listeners: what their connections take is given back.        *)

CsConns ==
    [stage : {"none", "proxy", "tls", "preface", "open", "closing"}, client : CsClients,
     slot : BOOLEAN, busy : Nat, queue : Nat, writer : BOOLEAN, held : BOOLEAN, stuck : Nat, pings : BOOLEAN]

(* What is true of every connection: before its client is known it holds      *)
(* nothing of the client's, a stopped writer's queue is empty, a reader waits *)
(* only while queries of its own are in flight, and of the streams some wait  *)
(* for the client to take an answer.                                          *)
Sound(conn) ==
    /\ conn \in CsConns
    /\ conn.stage \in {"none", "proxy"} => conn.slot = FALSE /\ conn.busy = 0 /\ conn.queue = 0
    /\ conn.writer = TRUE \/ conn.queue = 0
    /\ conn.held = FALSE \/ (conn.busy # 0 /\ csKind = "dot")
    /\ conn.stage = "closing" => csKind = "dot"
    /\ csKind # "dot" => conn.queue = 0 /\ conn.writer = TRUE
    /\ csKind = "doq" => conn.busy <= CsStreams
    /\ conn.stuck <= conn.busy /\ (csKind # "doq" => conn.stuck = 0 /\ conn.pings = FALSE)

CsTyped ==
    /\ csConns \in [CsIds -> CsConns]
    /\ csFree \in Nat /\ csSlots \in [CsClients -> Int] /\ csStreams \in Int /\ csOrphans \in Int
    /\ \A i \in CsIds : Sound(csConns[i])
CsInv == CsTyped /\ SessionsAccounted

One(b) == IF b THEN 1 ELSE 0
LiveOnes == {i \in CsIds : Live(i)}
SlotsOf(c) == {i \in CsIds : csConns[i].slot /\ csConns[i].client = c}

\* Two finite sets that differ in at most one element: what one holds more.
LEMMA OneApart ==
  ASSUME NEW S, NEW T, NEW x, IsFiniteSet(S), IsFiniteSet(T), S \ {x} = T \ {x}
  PROVE  /\ Cardinality(S) \in Nat /\ Cardinality(T) \in Nat
         /\ Cardinality(T) = Cardinality(S) + One(x \in T) - One(x \in S)
<1> DEFINE R == S \ {x}
<1>1. Cardinality(S) \in Nat /\ Cardinality(T) \in Nat
  BY FS_CardinalityType
<1>2. Cardinality(R) = IF x \in S THEN Cardinality(S) - 1 ELSE Cardinality(S)
  BY FS_RemoveElement
<1>3. Cardinality(R) = IF x \in T THEN Cardinality(T) - 1 ELSE Cardinality(T)
  BY FS_RemoveElement
<1> QED
  BY <1>1, <1>2, <1>3 DEF One

\* The streams of one connection are as many as it is busy with.
LEMMA StreamsOfOne ==
  ASSUME NEW i, NEW n \in Nat
  PROVE  IsFiniteSet({i} \X (1 .. n)) /\ Cardinality({i} \X (1 .. n)) = n
<1>1. IsFiniteSet({i}) /\ Cardinality({i}) = 1
  BY FS_Singleton
<1>2. IsFiniteSet(1 .. n) /\ Cardinality(1 .. n) = n
  BY FS_Interval
<1> DEFINE A == {i}
           B == 1 .. n
<1>3. IsFiniteSet(A \X B) /\ Cardinality(A \X B) = Cardinality(A) * Cardinality(B)
  <2>1. IsFiniteSet(A) /\ IsFiniteSet(B)
    BY <1>1, <1>2
  <2> HIDE DEF A, B
  <2> QED
    BY <2>1, FS_Product
<1>4. Cardinality(A) * Cardinality(B) = n
  BY <1>1, <1>2
<1> QED
  BY <1>3, <1>4

\* The streams of the other connections R, and the first k of connection i.
Joined(R, i, k) == R \cup ({i} \X (1 .. k))

\* They are k more than R.
LEMMA StreamsJoined ==
  ASSUME NEW R, NEW i, NEW k \in Nat, IsFiniteSet(R), \A r \in R : r[1] # i
  PROVE  Cardinality(R) \in Nat /\ Cardinality(Joined(R, i, k)) = Cardinality(R) + k
<1> DEFINE K == {i} \X (1 .. k)
<1>1. IsFiniteSet(K) /\ Cardinality(K) = k
  BY StreamsOfOne
<1>2. R \cap K = {}
  OBVIOUS
<1>3. Cardinality(R) \in Nat
  BY FS_CardinalityType
<1>4. Joined(R, i, k) = R \cup K
  BY DEF Joined
<1> HIDE DEF K
<1>5. Cardinality(R \cup K) = Cardinality(R) + Cardinality(K) - Cardinality(R \cap K)
  BY <1>1, FS_Union
<1>6. Cardinality(R \cap K) = 0
  BY <1>2, FS_EmptySet
<1> QED
  BY <1>1, <1>3, <1>4, <1>5, <1>6

\* The number of connections a client may have is a positive number.
LEMMA PerClientLimitIs ==
  ASSUME CsAssumption
  PROVE  PerClientLimit \in Nat
<1>1. CsMax \div 8 \in Nat /\ CsClientFloor \in Nat
  BY DEF CsAssumption
<1>2. \A x, y \in Nat : Max({x, y}) \in Nat
  <2> TAKE x, y \in Nat
  <2>1. CASE x <= y
    <3>1. Max({x, y}) = y
      BY <2>1 DEF Max
    <3> QED
      BY <3>1
  <2>2. CASE ~(x <= y)
    <3>1. Max({x, y}) = x
      BY <2>2 DEF Max
    <3> QED
      BY <3>1
  <2> QED
    BY <2>1, <2>2
<1> QED
  BY <1>1, <1>2 DEF PerClientLimit

\* The sets that are counted are finite.
LEMMA CountedAreFinite ==
  ASSUME CsAssumption
  PROVE  /\ IsFiniteSet(LiveOnes) /\ IsFiniteSet(OpenStreams)
         /\ \A c : IsFiniteSet(SlotsOf(c))
<1>1. LiveOnes \in SUBSET CsIds /\ \A c : SlotsOf(c) \in SUBSET CsIds
  BY DEF LiveOnes, SlotsOf
<1>2. IsFiniteSet(CsIds) /\ IsFiniteSet(1 .. CsStreams)
  <2>1. CsStreams \in Int
    BY DEF CsAssumption
  <2> QED
    BY <2>1, FS_Interval DEF CsAssumption
<1>3. IsFiniteSet(CsIds \X (1 .. CsStreams))
  <2> DEFINE B == 1 .. CsStreams
  <2>1. IsFiniteSet(B)
    BY <1>2
  <2> HIDE DEF B
  <2>2. IsFiniteSet(CsIds \X B)
    BY <1>2, <2>1, FS_Product
  <2> QED
    BY <2>2 DEF B
<1>4. OpenStreams \in SUBSET (CsIds \X (1 .. CsStreams))
  BY DEF OpenStreams
<1>5. IsFiniteSet(LiveOnes)
  BY <1>1, <1>2, FS_Subset
<1>6. ASSUME NEW c PROVE IsFiniteSet(SlotsOf(c))
  BY <1>1, <1>2, FS_Subset
<1>7. IsFiniteSet(OpenStreams)
  <2> DEFINE B == CsIds \X (1 .. CsStreams)
  <2>1. IsFiniteSet(B) /\ OpenStreams \in SUBSET B
    BY <1>3, <1>4
  <2> HIDE DEF B
  <2> QED
    BY <2>1, FS_Subset
<1> QED
  BY <1>5, <1>6, <1>7

\* One connection changes, and the permits change by just that: the invariant
\* is kept.
LEMMA OneConnection ==
  ASSUME CsAssumption, CsInv, NEW i \in CsIds, NEW n, Sound(n),
         csKind' = csKind, csConns' = [csConns EXCEPT ![i] = n],
         csFree' = csFree + One(Live(i)) - One(n.stage # "none"),
         csFree > 0 \/ Live(i) \/ n.stage = "none",
         csSlots' \in [CsClients -> Int],
         \A c \in CsClients : csSlots'[c] =
             csSlots[c] + One(n.slot /\ n.client = c) - One(csConns[i].slot /\ csConns[i].client = c),
         \A c \in CsClients \ CsPrivate : csSlots'[c] <= csSlots[c] \/ csSlots'[c] <= PerClientLimit,
         csStreams' \in Int, csOrphans' \in Int,
         csKind = "doq" => csStreams' + csOrphans' = csStreams + csOrphans + csConns[i].busy - n.busy
  PROVE  CsInv'
<1> USE DEF CsInv
<1> DEFINE o == csConns[i]
<1>1. CsTyped /\ SessionsAccounted /\ n \in CsConns /\ o \in CsConns
  BY DEF CsTyped, Sound
<1>11. Sound(n)'
  BY DEF Sound
<1>2. CsTyped'
  <2>1. csConns' \in [CsIds -> CsConns]
    BY <1>1 DEF CsTyped
  <2>2. csFree' \in Nat
    BY <1>1 DEF CsTyped, One
  <2>3. ASSUME NEW j \in CsIds PROVE Sound(csConns[j])'
    <3>1. CASE j = i
      <4>1. csConns'[j] = n
        BY <1>1, <3>1 DEF CsTyped
      <4> QED
        BY <1>11, <4>1 DEF Sound
    <3>2. CASE j # i
      <4>1. csConns'[j] = csConns[j] /\ Sound(csConns[j])
        BY <1>1, <3>2 DEF CsTyped
      <4> QED
        BY <4>1 DEF Sound
    <3> QED
      BY <3>1, <3>2
  <2> QED
    BY <2>1, <2>2, <2>3 DEF CsTyped
<1>3. csConns'[i] = n /\ \A j \in CsIds : j # i => csConns'[j] = csConns[j]
  BY <1>1 DEF CsTyped
<1>4. /\ IsFiniteSet(LiveOnes) /\ IsFiniteSet(OpenStreams)
      /\ \A c : IsFiniteSet(SlotsOf(c))
  BY CountedAreFinite
<1>5. /\ IsFiniteSet(LiveOnes)' /\ IsFiniteSet(OpenStreams)'
      /\ \A c : IsFiniteSet(SlotsOf(c)')
  <2>1. /\ LiveOnes' \in SUBSET CsIds /\ \A c : SlotsOf(c)' \in SUBSET CsIds
        /\ OpenStreams' \in SUBSET (CsIds \X (1 .. CsStreams))
    BY DEF LiveOnes, SlotsOf, OpenStreams
  <2>2. IsFiniteSet(CsIds) /\ IsFiniteSet(CsIds \X (1 .. CsStreams))
    <3> DEFINE B == 1 .. CsStreams
    <3>1. CsStreams \in Int /\ IsFiniteSet(CsIds)
      BY DEF CsAssumption
    <3>2. IsFiniteSet(B)
      BY <3>1, FS_Interval
    <3> HIDE DEF B
    <3>3. IsFiniteSet(CsIds \X B)
      BY <3>1, <3>2, FS_Product
    <3> QED
      BY <3>1, <3>3 DEF B
  <2>3. IsFiniteSet(LiveOnes')
    BY <2>1, <2>2, FS_Subset
  <2>4. ASSUME NEW c PROVE IsFiniteSet(SlotsOf(c)')
    BY <2>1, <2>2, FS_Subset
  <2>5. IsFiniteSet(OpenStreams')
    <3> DEFINE B == CsIds \X (1 .. CsStreams)
    <3>1. IsFiniteSet(B) /\ OpenStreams' \in SUBSET B
      BY <2>1, <2>2
    <3> HIDE DEF B
    <3> QED
      BY <3>1, FS_Subset
  <2> QED
    BY <2>3, <2>4, <2>5
<1>6. csFree' + Cardinality(LiveOnes') = CsMax
  <2>1. LiveOnes \ {i} = LiveOnes' \ {i}
    BY <1>3 DEF LiveOnes, Live, Stage
  <2>2. (i \in LiveOnes <=> Live(i)) /\ (i \in LiveOnes' <=> n.stage # "none")
    BY <1>3 DEF LiveOnes, Live, Stage
  <2>3. /\ Cardinality(LiveOnes) \in Nat /\ Cardinality(LiveOnes') \in Nat
        /\ Cardinality(LiveOnes') = Cardinality(LiveOnes) + One(i \in LiveOnes') - One(i \in LiveOnes)
    BY <1>4, <1>5, <2>1, OneApart
  <2>4. One(i \in LiveOnes') = One(n.stage # "none") /\ One(i \in LiveOnes) = One(Live(i))
    BY <2>2 DEF One
  <2>5. One(n.stage # "none") \in Int /\ One(Live(i)) \in Int
    BY DEF One
  <2>6. csFree + Cardinality(LiveOnes) = CsMax /\ csFree \in Int /\ csFree' \in Int
    BY <1>1, <1>2 DEF SessionsAccounted, LiveOnes, CsTyped
  <2> QED
    BY <2>3, <2>4, <2>5, <2>6
<1>7. ASSUME NEW c \in CsClients
      PROVE  csSlots'[c] = Cardinality(SlotsOf(c)')
  <2>1. SlotsOf(c) \ {i} = SlotsOf(c)' \ {i}
    BY <1>3 DEF SlotsOf
  <2>2. (i \in SlotsOf(c) <=> o.slot /\ o.client = c) /\ (i \in SlotsOf(c)' <=> n.slot /\ n.client = c)
    BY <1>3 DEF SlotsOf
  <2>3. /\ Cardinality(SlotsOf(c)) \in Nat /\ Cardinality(SlotsOf(c)') \in Nat
        /\ Cardinality(SlotsOf(c)') = Cardinality(SlotsOf(c)) + One(i \in SlotsOf(c)') - One(i \in SlotsOf(c))
    BY <1>4, <1>5, <2>1, OneApart
  <2>4. One(i \in SlotsOf(c)') = One(n.slot /\ n.client = c) /\ One(i \in SlotsOf(c)) = One(o.slot /\ o.client = c)
    BY <2>2 DEF One
  <2>5. One(n.slot /\ n.client = c) \in Int /\ One(o.slot /\ o.client = c) \in Int
    BY DEF One
  <2>6. csSlots[c] = Cardinality(SlotsOf(c))
    BY <1>1 DEF SessionsAccounted, SlotsOf
  <2>7. csSlots'[c] = csSlots[c] + One(n.slot /\ n.client = c) - One(o.slot /\ o.client = c)
    OBVIOUS
  <2> QED
    BY <2>3, <2>4, <2>5, <2>6, <2>7
<1>8. ASSUME NEW c \in CsClients \ CsPrivate
      PROVE  csSlots'[c] <= PerClientLimit
  <2>1. csSlots[c] <= PerClientLimit /\ csSlots[c] \in Int /\ csSlots'[c] \in Int /\ PerClientLimit \in Int
    BY <1>1, <1>2, PerClientLimitIs DEF SessionsAccounted, CsTyped
  <2> QED
    BY <2>1
<1>9. ASSUME csKind' = "doq"
      PROVE  /\ \A j \in CsIds : csConns'[j].busy <= CsStreams
             /\ csStreams' + csOrphans' + Cardinality(OpenStreams') = StreamLimit
  <2>1. csKind = "doq"
    BY <1>9
  <2>2. \A j \in CsIds : csConns'[j].busy <= CsStreams
    BY <1>2, <1>9 DEF CsTyped, Sound
  <2>3. o.busy \in Nat /\ n.busy \in Nat /\ o.busy <= CsStreams /\ n.busy <= CsStreams
    BY <1>1, <1>2, <1>3, <2>1, <2>2 DEF CsConns, SessionsAccounted
  <2> DEFINE R == {s \in OpenStreams : s[1] # i}
  <2>4. OpenStreams = R \cup ({i} \X (1 .. o.busy))
    <3>1. ASSUME NEW s \in OpenStreams, s[1] = i PROVE s \in {i} \X (1 .. o.busy)
      <4>1. s = <<s[1], s[2]>> /\ s[2] \in 1 .. CsStreams /\ s[2] <= csConns[s[1]].busy
        BY DEF OpenStreams
      <4>2. s[2] \in 1 .. o.busy
        BY <2>3, <3>1, <4>1
      <4> QED
        BY <3>1, <4>1, <4>2
    <3>2. ASSUME NEW s \in {i} \X (1 .. o.busy) PROVE s \in OpenStreams
      <4>1. s = <<i, s[2]>> /\ s[1] = i /\ s[2] \in 1 .. o.busy
        OBVIOUS
      <4>2. s[2] \in 1 .. CsStreams /\ s[2] <= o.busy
        <5>1. CsStreams \in Nat
          BY DEF CsAssumption
        <5> QED
          BY <2>3, <4>1, <5>1
      <4> QED
        BY <4>1, <4>2 DEF OpenStreams
    <3> QED
      BY <3>1, <3>2
  <2>5. OpenStreams' = R \cup ({i} \X (1 .. n.busy))
    <3>1. ASSUME NEW s \in OpenStreams', s[1] = i PROVE s \in {i} \X (1 .. n.busy)
      <4>1. s = <<s[1], s[2]>> /\ s[2] \in 1 .. CsStreams /\ s[2] <= csConns'[s[1]].busy
        BY DEF OpenStreams
      <4>2. s[2] \in 1 .. n.busy
        BY <1>3, <2>3, <3>1, <4>1
      <4> QED
        BY <3>1, <4>1, <4>2
    <3>2. ASSUME NEW s \in {i} \X (1 .. n.busy) PROVE s \in OpenStreams'
      <4>1. s = <<i, s[2]>> /\ s[1] = i /\ s[2] \in 1 .. n.busy
        OBVIOUS
      <4>2. s[2] \in 1 .. CsStreams /\ s[2] <= n.busy
        <5>1. CsStreams \in Nat
          BY DEF CsAssumption
        <5> QED
          BY <2>3, <4>1, <5>1
      <4> QED
        BY <1>3, <4>1, <4>2 DEF OpenStreams
    <3>3. ASSUME NEW s \in OpenStreams', s[1] # i PROVE s \in R
      <4>1. s \in CsIds \X (1 .. CsStreams) /\ s[1] \in CsIds /\ s[2] <= csConns'[s[1]].busy
        BY DEF OpenStreams
      <4>2. csConns'[s[1]] = csConns[s[1]]
        BY <1>3, <3>3, <4>1
      <4> QED
        BY <3>3, <4>1, <4>2 DEF OpenStreams
    <3>4. ASSUME NEW s \in R PROVE s \in OpenStreams'
      <4>1. s \in CsIds \X (1 .. CsStreams) /\ s[1] \in CsIds /\ s[2] <= csConns[s[1]].busy /\ s[1] # i
        BY DEF OpenStreams
      <4>2. csConns'[s[1]] = csConns[s[1]]
        BY <1>3, <4>1
      <4> QED
        BY <4>1, <4>2 DEF OpenStreams
    <3> QED
      BY <3>1, <3>2, <3>3, <3>4
  <2>6. \A r \in R : r[1] # i
    OBVIOUS
  <2>7. /\ Cardinality(OpenStreams) \in Nat /\ Cardinality(OpenStreams') \in Nat
        /\ Cardinality(OpenStreams') = Cardinality(OpenStreams) - o.busy + n.busy
    <3>1. IsFiniteSet(R)
      <4>1. R \in SUBSET OpenStreams
        OBVIOUS
      <4> HIDE DEF R
      <4> QED
        BY <1>4, <4>1, FS_Subset
    <3>2. OpenStreams = Joined(R, i, o.busy) /\ OpenStreams' = Joined(R, i, n.busy)
      <4> HIDE DEF R, o
      <4> QED
        BY <2>4, <2>5 DEF Joined
    <3> HIDE DEF R, o
    <3>3. /\ Cardinality(R) \in Nat /\ Cardinality(Joined(R, i, o.busy)) = Cardinality(R) + o.busy
          /\ Cardinality(Joined(R, i, n.busy)) = Cardinality(R) + n.busy
      BY <2>3, <2>6, <3>1, StreamsJoined
    <3> QED
      BY <2>3, <3>2, <3>3
  <2>8. csStreams + csOrphans + Cardinality(OpenStreams) = StreamLimit
    BY <1>1, <2>1 DEF SessionsAccounted
  <2>9. /\ csStreams' + csOrphans' = csStreams + csOrphans + o.busy - n.busy
        /\ csStreams \in Int /\ csOrphans \in Int /\ csStreams' \in Int /\ csOrphans' \in Int
    BY <1>1, <2>1 DEF CsTyped
  <2>10. csStreams' + csOrphans' + Cardinality(OpenStreams') = StreamLimit
    <3> HIDE DEF o
    <3> QED
      BY <2>3, <2>7, <2>8, <2>9
  <2> QED
    BY <2>2, <2>10
<1>10. SessionsAccounted'
  BY <1>6, <1>7, <1>8, <1>9 DEF SessionsAccounted, LiveOnes, SlotsOf, StreamLimit
<1> QED
  BY <1>2, <1>10

\* A step inside one live connection, which takes and gives back nothing.
LEMMA SessionKept ==
  ASSUME CsAssumption, CsInv, NEW i \in CsIds, Live(i), NEW n, Sound(n), Session(i, n), n.stage # "none",
         n.slot = csConns[i].slot, n.client = csConns[i].client,
         csKind = "doq" => n.busy = csConns[i].busy
  PROVE  CsInv'
<1>1. /\ csKind' = csKind /\ csConns' = [csConns EXCEPT ![i] = n]
      /\ csFree' = csFree /\ csSlots' = csSlots /\ csStreams' = csStreams /\ csOrphans' = csOrphans
  BY DEF Session, Conn, Quiet
<1>2. /\ csFree \in Int /\ csSlots \in [CsClients -> Int] /\ csStreams \in Int /\ csOrphans \in Int
      /\ csConns[i].busy \in Nat
  BY DEF CsInv, CsTyped, Sound, CsConns
<1>3. csFree' = csFree + One(Live(i)) - One(n.stage # "none")
  BY <1>1, <1>2 DEF One
<1>4. ASSUME NEW c \in CsClients
      PROVE  csSlots'[c] = csSlots[c] + One(n.slot /\ n.client = c) - One(csConns[i].slot /\ csConns[i].client = c)
  <2>1. One(n.slot /\ n.client = c) = One(csConns[i].slot /\ csConns[i].client = c)
    OBVIOUS
  <2>2. One(n.slot /\ n.client = c) \in Int /\ csSlots[c] \in Int
    BY <1>2 DEF One
  <2> QED
    BY <1>1, <2>1, <2>2
<1>5. \A c \in CsClients \ CsPrivate : csSlots'[c] <= csSlots[c] \/ csSlots'[c] <= PerClientLimit
  BY <1>1, <1>2
<1>6. csKind = "doq" => csStreams' + csOrphans' = csStreams + csOrphans + csConns[i].busy - n.busy
  BY <1>1, <1>2
<1> QED
  BY <1>1, <1>2, <1>3, <1>4, <1>5, <1>6, OneConnection

\* A connection ends: its guards give back what it held.
LEMMA EndKept ==
  ASSUME CsAssumption, CsInv, NEW i \in CsIds, Live(i), End(i), Quiet
  PROVE  CsInv'
<1> DEFINE o == csConns[i]
           n == NoConn
<1>1. /\ csKind' = csKind /\ csConns' = [csConns EXCEPT ![i] = n]
      /\ csFree' = csFree + 1 /\ csStreams' = csStreams
      /\ csSlots' = IF o.slot THEN [csSlots EXCEPT ![o.client] = @ - 1] ELSE csSlots
      /\ csOrphans' = csOrphans + (IF csKind = "doq" THEN o.busy ELSE 0)
  BY DEF End, Conn, Quiet
<1>2. /\ csFree \in Int /\ csSlots \in [CsClients -> Int] /\ csStreams \in Int /\ csOrphans \in Int
      /\ o \in CsConns /\ o.busy \in Nat /\ o.client \in CsClients /\ o.slot \in BOOLEAN
  BY DEF CsInv, CsTyped, Sound, CsConns
<1>3. n.stage = "none" /\ n.slot = FALSE /\ n.busy = 0 /\ Sound(n)
  BY DEF NoConn, Sound, CsConns, CsAssumption
<1>4. csFree' = csFree + One(Live(i)) - One(n.stage # "none")
  BY <1>1, <1>2, <1>3 DEF One
<1>5. csSlots' \in [CsClients -> Int]
  BY <1>1, <1>2
<1>6. ASSUME NEW c \in CsClients
      PROVE  /\ csSlots'[c] = csSlots[c] + One(n.slot /\ n.client = c) - One(o.slot /\ o.client = c)
             /\ csSlots'[c] <= csSlots[c]
  <2>1. One(n.slot /\ n.client = c) = 0 /\ csSlots[c] \in Int
    BY <1>2, <1>3 DEF One
  <2>2. CASE o.slot
    BY <1>1, <1>2, <2>1, <2>2 DEF One
  <2>3. CASE ~o.slot
    BY <1>1, <1>2, <2>1, <2>3 DEF One
  <2> QED
    BY <2>2, <2>3
<1>7. csStreams' \in Int /\ csOrphans' \in Int
      /\ (csKind = "doq" => csStreams' + csOrphans' = csStreams + csOrphans + o.busy - n.busy)
  BY <1>1, <1>2, <1>3
<1> HIDE DEF n
<1> QED
  BY <1>1, <1>3, <1>4, <1>5, <1>6, <1>7, OneConnection

\* A client is admitted, or refused, on a connection that held no slot.
LEMMA AdmitKept ==
  ASSUME CsAssumption, CsInv, NEW i \in CsIds, NEW c \in CsClients, NEW had \in BOOLEAN, Admit(i, c, had),
         had => Stage(i) = "proxy", ~had => Stage(i) = "none" /\ csFree > 0,
         UNCHANGED <<csStreams, csOrphans>>, Quiet
  PROVE  CsInv'
<1> DEFINE got == Acquire(c)
           o == csConns[i]
           n == IF got.ok THEN [NoConn EXCEPT !.stage = "tls", !.client = c, !.slot = got.capped] ELSE NoConn
<1>1. /\ csKind' = csKind /\ csConns' = [csConns EXCEPT ![i] = n] /\ csSlots' = got.slots
      /\ csFree' = csFree - (IF got.ok THEN 1 ELSE 0) + (IF had THEN 1 ELSE 0)
      /\ csStreams' = csStreams /\ csOrphans' = csOrphans
  BY DEF Admit, Conn, Quiet
<1>2. /\ csFree \in Int /\ csSlots \in [CsClients -> Int] /\ csStreams \in Int /\ csOrphans \in Int
      /\ o \in CsConns /\ ~o.slot /\ o.busy = 0 /\ (Live(i) <=> had)
  <2>1. /\ csFree \in Int /\ csSlots \in [CsClients -> Int] /\ csStreams \in Int /\ csOrphans \in Int
        /\ Sound(o)
    BY DEF CsInv, CsTyped
  <2>2. o \in CsConns /\ (o.stage \in {"none", "proxy"} => o.slot = FALSE /\ o.busy = 0)
    BY <2>1 DEF Sound
  <2>3. Live(i) <=> had
    <3>1. CASE had
      BY <3>1 DEF Live, Stage
    <3>2. CASE ~had
      BY <3>2 DEF Live, Stage
    <3> QED
      BY <3>1, <3>2
  <2>4. o.stage \in {"none", "proxy"}
    <3>1. CASE had
      BY <3>1 DEF Stage
    <3>2. CASE ~had
      BY <3>2 DEF Stage
    <3> QED
      BY <3>1, <3>2
  <2> QED
    BY <2>1, <2>2, <2>3, <2>4
<1>3. Sound(n) /\ n.busy = 0
  <2>1. got.ok \in BOOLEAN /\ got.capped \in BOOLEAN
    BY DEF Acquire
  <2> HIDE DEF got
  <2>2. CASE got.ok
    <3>1. n = [stage |-> "tls", client |-> c, slot |-> got.capped, busy |-> 0, queue |-> 0, writer |-> TRUE,
               held |-> FALSE, stuck |-> 0, pings |-> FALSE]
      BY <2>2 DEF NoConn
    <3> HIDE DEF n
    <3> QED
      BY <2>1, <3>1 DEF Sound, CsConns, CsAssumption
  <2>3. CASE ~got.ok
    <3>1. n = NoConn
      BY <2>3
    <3> HIDE DEF n
    <3> QED
      BY <3>1 DEF NoConn, Sound, CsConns, CsAssumption
  <2> QED
    BY <2>2, <2>3
<1>4. csFree' = csFree + One(Live(i)) - One(n.stage # "none")
  <2>1. CASE got.ok
    <3>1. n.stage = "tls"
      BY <2>1 DEF NoConn
    <3> QED
      BY <1>1, <1>2, <2>1, <3>1 DEF One
  <2>2. CASE ~got.ok
    <3>1. n.stage = "none"
      BY <2>2 DEF NoConn
    <3> QED
      BY <1>1, <1>2, <2>2, <3>1 DEF One
  <2> QED
    BY <2>1, <2>2
<1>5. csSlots' \in [CsClients -> Int]
  BY <1>1, <1>2 DEF Acquire
<1>6. PerClientLimit \in Nat
  BY PerClientLimitIs
<1>7. ASSUME NEW d \in CsClients
      PROVE  /\ csSlots'[d] = csSlots[d] + One(n.slot /\ n.client = d) - One(o.slot /\ o.client = d)
             /\ csSlots'[d] <= csSlots[d] \/ csSlots'[d] <= PerClientLimit
  <2>1. One(o.slot /\ o.client = d) = 0 /\ csSlots[d] \in Int
    BY <1>2 DEF One
  <2>2. CASE c \in CsPrivate
    <3>1. got.slots = csSlots /\ n.slot = FALSE
      BY <2>2 DEF Acquire, NoConn
    <3> QED
      BY <1>1, <2>1, <3>1 DEF One
  <2>3. CASE c \notin CsPrivate /\ csSlots[c] >= PerClientLimit
    <3>1. got.slots = csSlots /\ n.slot = FALSE
      BY <2>3 DEF Acquire, NoConn
    <3> QED
      BY <1>1, <2>1, <3>1 DEF One
  <2>4. CASE c \notin CsPrivate /\ ~(csSlots[c] >= PerClientLimit)
    <3>1. got.slots = [csSlots EXCEPT ![c] = @ + 1] /\ n.slot = TRUE /\ n.client = c
      BY <2>4 DEF Acquire, NoConn
    <3> HIDE DEF n, got
    <3>2. csSlots'[d] = csSlots[d] + One(c = d)
      BY <1>1, <1>2, <3>1 DEF One
    <3>3. csSlots[c] \in Int /\ csSlots[c] + 1 <= PerClientLimit
      BY <1>2, <1>6, <2>4
    <3>4. CASE c = d
      BY <1>6, <2>1, <3>1, <3>2, <3>3, <3>4 DEF One
    <3>5. CASE c # d
      BY <1>6, <2>1, <3>1, <3>2, <3>5 DEF One
    <3> QED
      BY <3>4, <3>5
  <2> QED
    BY <2>2, <2>3, <2>4
<1>8. csStreams' \in Int /\ csOrphans' \in Int
      /\ (csKind = "doq" => csStreams' + csOrphans' = csStreams + csOrphans + o.busy - n.busy)
  BY <1>1, <1>2, <1>3
<1>9. csFree > 0 \/ Live(i)
  BY <1>2
<1> HIDE DEF n
<1> QED
  BY <1>1, <1>3, <1>4, <1>5, <1>7, <1>8, <1>9, OneConnection

\* Each step of a connection keeps the invariant.
LEMMA ConnectionKept ==
  ASSUME CsAssumption, CsInv, NEW i \in CsIds,
         \/ \E c \in CsClients : CsAccept(i, c) \/ CsIncoming(i, c) \/ CsProxyHeader(i, c)
         \/ CsHandshake(i) \/ CsPreface(i) \/ CsRead(i) \/ CsIgnored(i) \/ CsWrite(i) \/ CsStream(i)
         \/ CsPings(i) \/ CsStreamTaken(i) \/ CsOwnStep(i)
  PROVE  CsInv'
<1> DEFINE o == csConns[i]
<1> USE DEF Live, Stage
<1>1. /\ csFree \in Int /\ csSlots \in [CsClients -> Int] /\ csStreams \in Int /\ csOrphans \in Int
      /\ Sound(o) /\ {CsInFlight, CsQueue, CsStreams} \subseteq Nat \ {0}
  BY DEF CsInv, CsTyped, CsAssumption
<1>2. /\ o \in CsConns /\ o.busy \in Nat /\ o.queue \in Nat
      /\ o.slot \in BOOLEAN /\ o.writer \in BOOLEAN /\ o.held \in BOOLEAN
      /\ (o.stage \in {"none", "proxy"} => o.slot = FALSE /\ o.busy = 0 /\ o.queue = 0)
      /\ (o.writer = TRUE \/ o.queue = 0) /\ (o.held = FALSE \/ (o.busy # 0 /\ csKind = "dot"))
      /\ (o.stage = "closing" => csKind = "dot") /\ (csKind = "doq" => o.busy <= CsStreams)
      /\ (csKind # "dot" => o.queue = 0 /\ o.writer = TRUE)
      /\ o.stuck \in Nat /\ o.pings \in BOOLEAN /\ o.stuck <= o.busy
      /\ (csKind # "doq" => o.stuck = 0 /\ o.pings = FALSE)
  BY <1>1 DEF Sound, CsConns
<1>3. ASSUME NEW c \in CsClients, CsAccept(i, c) PROVE CsInv'
  <2>1. CASE c # CsBalancer
    <3>1. Admit(i, c, FALSE) /\ UNCHANGED <<csStreams, csOrphans>> /\ Quiet /\ Stage(i) = "none" /\ csFree > 0
      BY <1>3, <2>1 DEF CsAccept
    <3> QED
      BY <3>1, AdmitKept
  <2>2. CASE c = CsBalancer
    <3> DEFINE n == [NoConn EXCEPT !.stage = "proxy"]
    <3>1. /\ csKind # "doq" /\ ~Live(i) /\ csFree > 0 /\ csConns' = [csConns EXCEPT ![i] = n] /\ csKind' = csKind
          /\ csFree' = csFree - 1 /\ csSlots' = csSlots /\ csStreams' = csStreams /\ csOrphans' = csOrphans
      BY <1>3, <2>2 DEF CsAccept, Conn, Quiet
    <3>2. n.stage = "proxy" /\ n.slot = FALSE /\ n.busy = 0 /\ Sound(n)
      <4>1. NoConn \in CsConns
        BY DEF NoConn, CsConns, CsAssumption
      <4>2. n \in CsConns
        BY <4>1 DEF CsConns
      <4>3. /\ n.stage = "proxy" /\ n.slot = FALSE /\ n.busy = 0 /\ n.queue = 0 /\ n.writer = TRUE
            /\ n.held = FALSE /\ n.stuck = 0 /\ n.pings = FALSE
        BY DEF NoConn
      <4> HIDE DEF n
      <4> QED
        BY <1>1, <4>2, <4>3 DEF Sound
    <3>3. csFree' = csFree + One(Live(i)) - One(n.stage # "none")
      BY <1>1, <3>1, <3>2 DEF One
    <3>4. \A d \in CsClients : csSlots'[d] = csSlots[d] + One(n.slot /\ n.client = d) - One(o.slot /\ o.client = d)
      BY <1>1, <1>2, <3>1, <3>2 DEF One
    <3>5. \A d \in CsClients \ CsPrivate : csSlots'[d] <= csSlots[d] \/ csSlots'[d] <= PerClientLimit
      BY <1>1, <3>1
    <3> HIDE DEF n
    <3> QED
      BY <1>1, <3>1, <3>2, <3>3, <3>4, <3>5, OneConnection
  <2> QED
    BY <2>1, <2>2
<1>4. ASSUME NEW c \in CsClients, CsIncoming(i, c) PROVE CsInv'
  <2> DEFINE n == [NoConn EXCEPT !.stage = "tls", !.client = c]
  <2>1. /\ csKind = "doq" /\ ~Live(i) /\ csFree > 0 /\ csConns' = [csConns EXCEPT ![i] = n] /\ csKind' = csKind
        /\ csFree' = csFree - 1 /\ csSlots' = csSlots /\ csStreams' = csStreams /\ csOrphans' = csOrphans
    BY <1>4 DEF CsIncoming, Conn, Quiet
  <2>2. n.stage = "tls" /\ n.slot = FALSE /\ n.busy = 0 /\ Sound(n)
    <3>1. NoConn \in CsConns
      BY DEF NoConn, CsConns, CsAssumption
    <3>2. n \in CsConns
      BY <3>1 DEF CsConns
    <3>3. /\ n.stage = "tls" /\ n.slot = FALSE /\ n.busy = 0 /\ n.queue = 0 /\ n.writer = TRUE /\ n.held = FALSE
          /\ n.stuck = 0 /\ n.pings = FALSE
      BY DEF NoConn
    <3> HIDE DEF n
    <3> QED
      BY <1>1, <2>1, <3>2, <3>3 DEF Sound
  <2>3. csFree' = csFree + One(Live(i)) - One(n.stage # "none")
    BY <1>1, <2>1, <2>2 DEF One
  <2>4. \A d \in CsClients : csSlots'[d] = csSlots[d] + One(n.slot /\ n.client = d) - One(o.slot /\ o.client = d)
    BY <1>1, <1>2, <2>1, <2>2 DEF One
  <2>5. \A d \in CsClients \ CsPrivate : csSlots'[d] <= csSlots[d] \/ csSlots'[d] <= PerClientLimit
    BY <1>1, <2>1
  <2>6. csStreams' + csOrphans' = csStreams + csOrphans + o.busy - n.busy
    BY <1>1, <1>2, <2>1, <2>2
  <2> HIDE DEF n
  <2> QED
    BY <1>1, <2>1, <2>2, <2>3, <2>4, <2>5, <2>6, OneConnection
<1>5. ASSUME NEW c \in CsClients, CsProxyHeader(i, c) PROVE CsInv'
  BY <1>5, AdmitKept DEF CsProxyHeader
<1>6. CASE CsHandshake(i)
  <2> DEFINE n == [o EXCEPT !.stage = IF csKind = "doh" THEN "preface" ELSE "open"]
  <2>1. Session(i, n) /\ Live(i) /\ o.stage = "tls"
    BY <1>6 DEF CsHandshake, Session
  <2>2. n.stage # "none" /\ n.slot = o.slot /\ n.client = o.client /\ n.busy = o.busy /\ Sound(n)
    BY <1>1, <1>2, <2>1 DEF Sound, CsConns
  <2> HIDE DEF n
  <2> QED
    BY <2>1, <2>2, SessionKept
<1>7. CASE CsPreface(i)
  <2> DEFINE n == [o EXCEPT !.stage = "open"]
  <2>1. Live(i) /\ (Session(i, n) \/ (End(i) /\ Quiet))
    BY <1>7 DEF CsPreface, Session
  <2>2. n.stage # "none" /\ n.slot = o.slot /\ n.client = o.client /\ n.busy = o.busy /\ Sound(n)
    BY <1>1, <1>2, <2>1 DEF Sound, CsConns
  <2> HIDE DEF n
  <2> QED
    BY <2>1, <2>2, SessionKept, EndKept
<1>8. CASE CsRead(i)
  <2> DEFINE n == IF o.busy < CsInFlight THEN [o EXCEPT !.busy = @ + 1] ELSE [o EXCEPT !.held = TRUE]
  <2>1. Session(i, n) /\ Live(i) /\ o.stage = "open" /\ csKind = "dot" /\ ~o.held
    BY <1>8 DEF CsRead
  <2>2. n.stage # "none" /\ n.slot = o.slot /\ n.client = o.client /\ Sound(n)
    <3>1. CASE o.busy < CsInFlight
      <4>1. n = [o EXCEPT !.busy = o.busy + 1]
        BY <3>1
      <4>2. o.held = FALSE
        BY <1>2, <2>1
      <4> HIDE DEF n
      <4>3. /\ n \in CsConns /\ n.stage = o.stage /\ n.slot = o.slot /\ n.client = o.client
            /\ n.busy = o.busy + 1 /\ n.queue = o.queue /\ n.writer = o.writer /\ n.held = o.held
            /\ n.stuck = o.stuck /\ n.pings = o.pings
        BY <1>2, <4>1 DEF CsConns
      <4> HIDE DEF o
      <4> QED
        BY <1>2, <2>1, <4>2, <4>3 DEF Sound
    <3>2. CASE ~(o.busy < CsInFlight)
      <4>1. n = [o EXCEPT !.held = TRUE]
        BY <3>2
      <4>2. o.busy # 0
        BY <1>1, <1>2, <3>2
      <4> HIDE DEF n
      <4>3. /\ n \in CsConns /\ n.stage = o.stage /\ n.slot = o.slot /\ n.client = o.client
            /\ n.busy = o.busy /\ n.queue = o.queue /\ n.writer = o.writer
            /\ n.stuck = o.stuck /\ n.pings = o.pings
        BY <1>2, <4>1 DEF CsConns
      <4> HIDE DEF o
      <4> QED
        BY <1>2, <2>1, <4>2, <4>3 DEF Sound
    <3> QED
      BY <3>1, <3>2
  <2> HIDE DEF n
  <2> QED
    BY <2>1, <2>2, SessionKept
<1>9. ASSUME csKind = "dot", o.busy > 0
      PROVE  /\ Freed(o).stage = o.stage /\ Freed(o).stage # "none" /\ Freed(o).slot = o.slot
             /\ Freed(o).client = o.client /\ Freed(o).queue = o.queue /\ Freed(o).writer = o.writer /\ Sound(Freed(o))
  <2>1. CASE o.held
    BY <1>1, <1>2, <1>9, <2>1 DEF Sound, CsConns, Freed
  <2>2. CASE ~o.held
    BY <1>1, <1>2, <1>9, <2>2 DEF Sound, CsConns, Freed
  <2> QED
    BY <2>1, <2>2
<1>10. CASE CsIgnored(i)
  <2> DEFINE n == Freed(o)
  <2>1. Session(i, n) /\ o.busy > 0 /\ csKind = "dot"
    BY <1>10 DEF CsIgnored
  <2>2. n.stage # "none" /\ n.slot = o.slot /\ n.client = o.client /\ Sound(n) /\ Live(i)
    BY <1>2, <1>9, <2>1
  <2> HIDE DEF n
  <2> QED
    BY <2>1, <2>2, SessionKept
<1>11. CASE CsWrite(i)
  <2> DEFINE n == [o EXCEPT !.queue = @ - 1]
  <2>1. Session(i, n) /\ o.writer /\ o.queue > 0
    BY <1>11 DEF CsWrite
  <2>2. n.stage # "none" /\ n.slot = o.slot /\ n.client = o.client /\ n.busy = o.busy /\ Sound(n) /\ Live(i)
    BY <1>1, <1>2, <2>1 DEF Sound, CsConns
  <2> HIDE DEF n
  <2> QED
    BY <2>1, <2>2, SessionKept
<1>12. ASSUME NEW n, NEW d \in {-1, 1}, Sound(n), csKind = "doq", Live(i), n.stage # "none",
              n.slot = o.slot, n.client = o.client, n.busy = o.busy - d,
              csConns' = [csConns EXCEPT ![i] = n], csKind' = csKind, csFree' = csFree, csSlots' = csSlots,
              csStreams' = csStreams + d, csOrphans' = csOrphans
       PROVE  CsInv'
  <2>1. csFree' = csFree + One(Live(i)) - One(n.stage # "none")
    BY <1>1, <1>12 DEF One
  <2>2. ASSUME NEW c \in CsClients
        PROVE  csSlots'[c] = csSlots[c] + One(n.slot /\ n.client = c) - One(o.slot /\ o.client = c)
    <3>1. One(n.slot /\ n.client = c) = One(o.slot /\ o.client = c)
      BY <1>12
    <3>2. One(n.slot /\ n.client = c) \in Int /\ csSlots[c] \in Int
      BY <1>1 DEF One
    <3> QED
      BY <1>12, <3>1, <3>2
  <2>3. \A c \in CsClients \ CsPrivate : csSlots'[c] <= csSlots[c] \/ csSlots'[c] <= PerClientLimit
    BY <1>1, <1>12
  <2>4. /\ csStreams' + csOrphans' = csStreams + csOrphans + o.busy - n.busy
        /\ csStreams' \in Int /\ csOrphans' \in Int
    BY <1>1, <1>2, <1>12
  <2> QED
    BY <1>1, <1>12, <2>1, <2>2, <2>3, <2>4, OneConnection
<1>13. CASE CsStream(i)
  <2> DEFINE n == [o EXCEPT !.busy = @ + 1]
  <2>1. /\ csKind = "doq" /\ Live(i) /\ o.stage = "open" /\ o.busy < CsStreams
        /\ csConns' = [csConns EXCEPT ![i] = n] /\ csKind' = csKind /\ csFree' = csFree /\ csSlots' = csSlots
        /\ csStreams' = csStreams + (-1) /\ csOrphans' = csOrphans
    BY <1>1, <1>13 DEF CsStream, Conn, Quiet
  <2>2. n.stage # "none" /\ n.slot = o.slot /\ n.client = o.client /\ n.busy = o.busy - (-1) /\ Sound(n)
    BY <1>1, <1>2, <2>1 DEF Sound, CsConns
  <2> HIDE DEF n
  <2> QED
    BY <1>12, <2>1, <2>2
<1>14. CASE CsStreamEnds(i)
  <2> DEFINE n == [o EXCEPT !.busy = @ - 1]
  <2>1. /\ csKind = "doq" /\ o.busy > o.stuck /\ csConns' = [csConns EXCEPT ![i] = n] /\ csKind' = csKind
        /\ csFree' = csFree /\ csSlots' = csSlots /\ csStreams' = csStreams + 1 /\ csOrphans' = csOrphans
    BY <1>1, <1>14 DEF CsStreamEnds, UnderWay, Conn, Quiet
  <2>2. n.stage # "none" /\ n.slot = o.slot /\ n.client = o.client /\ n.busy = o.busy - 1 /\ Sound(n) /\ Live(i)
    BY <1>1, <1>2, <2>1 DEF Sound, CsConns
  <2> HIDE DEF n
  <2> QED
    BY <1>12, <2>1, <2>2
<1>15. CASE CsAnswered(i)
  <2>1. csKind = "dot" /\ o.busy > 0
    BY <1>15 DEF CsAnswered, AnswerMayGo
  <2>2. CASE o.writer /\ Session(i, [Freed(o) EXCEPT !.queue = @ + 1])
    <3> DEFINE f == Freed(o)
               n == [f EXCEPT !.queue = @ + 1]
    <3>1. n.stage # "none" /\ n.slot = o.slot /\ n.client = o.client /\ Sound(n) /\ Live(i)
      <4>1. /\ f.stage = o.stage /\ f.stage # "none" /\ f.slot = o.slot /\ f.client = o.client
            /\ f.queue = o.queue /\ f.writer = o.writer /\ Sound(f)
        BY <1>9, <2>1
      <4>2. f.writer = TRUE /\ f.queue \in Nat
        BY <1>2, <2>2, <4>1
      <4> HIDE DEF f
      <4>3. /\ n \in CsConns /\ n.stage = f.stage /\ n.slot = f.slot /\ n.client = f.client
            /\ n.busy = f.busy /\ n.queue = f.queue + 1 /\ n.writer = TRUE /\ n.held = f.held
            /\ n.stuck = f.stuck /\ n.pings = f.pings
        BY <4>1, <4>2 DEF CsConns, Sound
      <4> HIDE DEF n
      <4>4. n.stage \notin {"none", "proxy"}
        BY <1>2, <2>1, <4>1, <4>3
      <4>5. Sound(n)
        BY <2>1, <4>1, <4>3, <4>4 DEF Sound
      <4> QED
        BY <4>1, <4>3, <4>5
    <3> HIDE DEF n
    <3> QED
      BY <2>1, <2>2, <3>1, SessionKept DEF n
  <2>3. CASE ~o.writer /\ Session(i, Freed(o))
    <3> DEFINE n == Freed(o)
    <3>1. n.stage # "none" /\ n.slot = o.slot /\ n.client = o.client /\ Sound(n) /\ Live(i) /\ Session(i, n)
      BY <1>2, <1>9, <2>1, <2>3
    <3> HIDE DEF n
    <3> QED
      BY <2>1, <3>1, SessionKept
  <2> QED
    BY <1>15, <2>2, <2>3 DEF CsAnswered
<1>16. CASE CsWriteFails(i)
  <2> DEFINE n == [o EXCEPT !.writer = FALSE, !.queue = 0]
  <2>1. Session(i, n) /\ Live(i) /\ o.queue > 0
    BY <1>16 DEF CsWriteFails, WriteMayFail
  <2>2. n.stage # "none" /\ n.slot = o.slot /\ n.client = o.client /\ n.busy = o.busy /\ Sound(n)
    <3>1. /\ n \in CsConns /\ n.stage = o.stage /\ n.slot = o.slot /\ n.client = o.client
          /\ n.busy = o.busy /\ n.queue = 0 /\ n.held = o.held /\ n.stuck = o.stuck /\ n.pings = o.pings
      BY <1>2 DEF CsConns
    <3>2. o.stage \notin {"none", "proxy"} /\ csKind = "dot"
      BY <1>2, <2>1
    <3> HIDE DEF n
    <3> QED
      BY <1>2, <2>1, <3>1, <3>2 DEF Sound
  <2> HIDE DEF n
  <2> QED
    BY <2>1, <2>2, SessionKept
<1>17. CASE CsWriterGone(i)
  <2> DEFINE n == [o EXCEPT !.stage = "closing", !.held = FALSE]
  <2>1. Session(i, n) /\ o.stage = "open" /\ ~o.writer
    BY <1>17 DEF CsWriterGone
  <2>2. n.stage # "none" /\ n.slot = o.slot /\ n.client = o.client /\ n.busy = o.busy /\ Sound(n) /\ Live(i)
    BY <1>1, <1>2, <2>1 DEF Sound, CsConns
  <2> HIDE DEF n
  <2> QED
    BY <2>1, <2>2, SessionKept
<1>18. CASE CsReadEnds(i)
  <2> DEFINE n == [o EXCEPT !.stage = "closing"]
  <2>1. o.stage = "open" /\ Live(i) /\ ((csKind = "dot" /\ Session(i, n)) \/ (End(i) /\ Quiet))
    BY <1>18 DEF CsReadEnds, ReadMayEnd
  <2>2. CASE csKind = "dot" /\ Session(i, n)
    <3>1. n.stage # "none" /\ n.slot = o.slot /\ n.client = o.client /\ n.busy = o.busy /\ Sound(n)
      BY <1>1, <1>2, <2>1, <2>2 DEF Sound, CsConns
    <3> HIDE DEF n
    <3> QED
      BY <2>1, <2>2, <3>1, SessionKept
  <2> QED
    BY <2>1, <2>2, EndKept
<1>19. CASE CsPings(i)
  <2> DEFINE n == [o EXCEPT !.pings = ~@]
  <2>1. Session(i, n) /\ csKind = "doq" /\ Live(i)
    BY <1>19 DEF CsPings
  <2>2. n.stage # "none" /\ n.slot = o.slot /\ n.client = o.client /\ n.busy = o.busy /\ Sound(n)
    BY <1>1, <1>2, <2>1 DEF Sound, CsConns
  <2> HIDE DEF n
  <2> QED
    BY <2>1, <2>2, SessionKept
<1>20. CASE CsStreamWaits(i)
  <2> DEFINE n == [o EXCEPT !.stuck = @ + 1]
  <2>1. Session(i, n) /\ csKind = "doq" /\ o.busy > o.stuck
    BY <1>20 DEF CsStreamWaits, UnderWay
  <2>2. n.stage # "none" /\ n.slot = o.slot /\ n.client = o.client /\ n.busy = o.busy /\ Sound(n) /\ Live(i)
    BY <1>1, <1>2, <2>1 DEF Sound, CsConns
  <2> HIDE DEF n
  <2> QED
    BY <2>1, <2>2, SessionKept
<1>21. CASE CsStreamTaken(i)
  <2> DEFINE n == [o EXCEPT !.busy = @ - 1, !.stuck = @ - 1]
  <2>1. /\ o.stuck > 0 /\ csConns' = [csConns EXCEPT ![i] = n] /\ csKind' = csKind
        /\ csFree' = csFree /\ csSlots' = csSlots /\ csStreams' = csStreams + 1 /\ csOrphans' = csOrphans
    BY <1>1, <1>21 DEF CsStreamTaken, Conn, Quiet
  <2>2. csKind = "doq" /\ Live(i) /\ o.busy - 1 \in Nat /\ o.stuck - 1 \in Nat
    BY <1>2, <2>1
  <2>3. /\ n \in CsConns /\ n.stage = o.stage /\ n.slot = o.slot /\ n.client = o.client /\ n.busy = o.busy - 1
        /\ n.queue = o.queue /\ n.writer = o.writer /\ n.held = o.held /\ n.stuck = o.stuck - 1
    BY <1>2, <2>2 DEF CsConns
  <2>4. n.busy <= CsStreams /\ n.stuck <= n.busy
    <3>1. CsStreams \in Nat /\ o.busy <= CsStreams
      BY <1>1, <1>2, <2>2
    <3> HIDE DEF o, n
    <3> QED
      BY <1>2, <2>3, <3>1
  <2>5. n.stage \notin {"none", "proxy", "closing"} /\ o.held = FALSE
    BY <1>2, <2>1, <2>2, <2>3
  <2>6. Sound(n)
    BY <1>2, <2>2, <2>3, <2>4, <2>5 DEF Sound
  <2> HIDE DEF n
  <2> QED
    BY <1>12, <2>1, <2>2, <2>3, <2>5, <2>6
<1>22. CASE CsProxyFails(i) \/ CsHandshakeFails(i) \/ CsDrained(i)
  <2>1. End(i) /\ Quiet /\ Live(i)
    BY <1>22 DEF CsProxyFails, CsHandshakeFails, HandshakeMayFail, CsDrained, Drained
  <2> QED
    BY <2>1, EndKept
<1> QED
  BY <1>3, <1>4, <1>5, <1>6, <1>7, <1>8, <1>10, <1>11, <1>13, <1>14, <1>15, <1>16, <1>17, <1>18,
     <1>19, <1>20, <1>21, <1>22 DEF CsOwnStep

\* No connection is open.
Closed ==
    /\ csKind \in {"dot", "doh", "doq"}
    /\ csConns = [i \in CsIds |-> NoConn] /\ csSlots = [c \in CsClients |-> 0]
    /\ csFree = CsMax /\ csStreams = StreamLimit /\ csOrphans = 0

\* The invariant holds at the start, and again after the listener was rebuilt.
LEMMA ClosedIsSound == Closed => CsInv
<1> USE CsAssumption
<1> SUFFICES ASSUME Closed PROVE CsInv
  OBVIOUS
<1> USE DEF Closed
<1>1. NoConn \in CsConns /\ Sound(NoConn)
  BY DEF CsConns, Sound, NoConn, CsAssumption
<1>2. CsMax \in Nat /\ CsStreams \in Nat /\ StreamLimit \in Nat
  <2>1. CsMax \in Nat /\ CsStreams \in Nat
    BY DEF CsAssumption
  <2> QED
    BY <2>1 DEF StreamLimit
<1>3. CsTyped
  BY <1>1, <1>2 DEF CsTyped
<1>4. LiveOnes = {} /\ \A c : SlotsOf(c) = {}
  BY DEF LiveOnes, SlotsOf, Live, Stage, NoConn
<1>5. OpenStreams = {}
  BY DEF OpenStreams, NoConn
<1>6. Cardinality({}) = 0
  BY FS_EmptySet
<1>7. csFree + Cardinality(LiveOnes) = CsMax /\ \A c \in CsClients : csSlots[c] = Cardinality(SlotsOf(c))
  BY <1>2, <1>4, <1>6
<1>8. \A c \in CsClients \ CsPrivate : csSlots[c] <= PerClientLimit
  BY PerClientLimitIs
<1>9. (\A i \in CsIds : csConns[i].busy <= CsStreams) /\ csStreams + csOrphans + Cardinality(OpenStreams) = StreamLimit
  BY <1>2, <1>5, <1>6 DEF NoConn
<1> QED
  BY <1>3, <1>7, <1>8, <1>9 DEF CsInv, SessionsAccounted, LiveOnes, SlotsOf

\* Every step of the listener keeps the invariant.
LEMMA ListenerKept ==
  ASSUME CsAssumption, CsInv, csKind \in {"dot", "doh", "doq"}, [CsNext]_csVars
  PROVE  CsInv' /\ csKind' \in {"dot", "doh", "doq"}
<1>1. csKind' = csKind
  BY DEF CsNext, csVars, CsAccept, CsIncoming, CsProxyHeader, CsHandshake, CsPreface, CsRead, CsIgnored, CsWrite,
     CsStream, CsOwnStep, CsProxyFails, CsHandshakeFails, CsAnswered, CsWriteFails, CsWriterGone, CsReadEnds,
     CsDrained, CsStreamEnds, CsStreamWaits, CsStreamTaken, CsPings, CsOrphanEnds, CsRebuild, Session, Quiet
<1>2. ASSUME NEW i \in CsIds,
             \/ \E c \in CsClients : CsAccept(i, c) \/ CsIncoming(i, c) \/ CsProxyHeader(i, c)
             \/ CsHandshake(i) \/ CsPreface(i) \/ CsRead(i) \/ CsIgnored(i) \/ CsWrite(i) \/ CsStream(i)
             \/ CsPings(i) \/ CsStreamTaken(i) \/ CsOwnStep(i)
      PROVE  CsInv'
  BY <1>2, ConnectionKept
<1>3. CASE CsOrphanEnds
  <2>1. /\ csOrphans' = csOrphans - 1 /\ csStreams' = csStreams + 1
        /\ csConns' = csConns /\ csFree' = csFree /\ csSlots' = csSlots
    BY <1>3 DEF CsOrphanEnds
  <2>2. csStreams \in Int /\ csOrphans \in Int /\ Cardinality(OpenStreams) \in Nat
    BY CountedAreFinite, FS_CardinalityType DEF CsInv, CsTyped
  <2>3. CsTyped'
    BY <1>1, <2>1, <2>2 DEF CsInv, CsTyped, Sound
  <2>4. OpenStreams' = OpenStreams
    BY <2>1 DEF OpenStreams
  <2>5. csStreams' + csOrphans' + Cardinality(OpenStreams') = csStreams + csOrphans + Cardinality(OpenStreams)
    BY <2>1, <2>2, <2>4
  <2>6. SessionsAccounted
    BY DEF CsInv
  <2>7. LiveOnes' = LiveOnes /\ \A c : SlotsOf(c)' = SlotsOf(c)
    BY <2>1 DEF LiveOnes, SlotsOf, Live, Stage
  <2>8. csFree' + Cardinality(LiveOnes') = CsMax
    BY <2>1, <2>6, <2>7 DEF SessionsAccounted, LiveOnes
  <2>9. ASSUME NEW c \in CsClients PROVE csSlots'[c] = Cardinality(SlotsOf(c)')
    BY <2>1, <2>6, <2>7 DEF SessionsAccounted, SlotsOf
  <2>10. ASSUME NEW c \in CsClients \ CsPrivate PROVE csSlots'[c] <= PerClientLimit
    BY <2>1, <2>6 DEF SessionsAccounted
  <2>11. ASSUME csKind' = "doq"
         PROVE  /\ \A i \in CsIds : csConns'[i].busy <= CsStreams
                /\ csStreams' + csOrphans' + Cardinality(OpenStreams') = StreamLimit
    BY <1>1, <2>11, <2>1, <2>5, <2>6 DEF SessionsAccounted
  <2>12. SessionsAccounted'
    BY <2>8, <2>9, <2>10, <2>11 DEF SessionsAccounted, LiveOnes, SlotsOf, StreamLimit
  <2> QED
    BY <1>1, <2>3, <2>12 DEF CsInv
<1>4. CASE CsRebuild
  <2>1. /\ csConns' = [i \in CsIds |-> NoConn] /\ csFree' = CsMax /\ csSlots' = [c \in CsClients |-> 0]
        /\ csStreams' = StreamLimit /\ csOrphans' = 0 /\ csKind' \in {"dot", "doh", "doq"}
    BY <1>1, <1>4 DEF CsRebuild
  <2>2. Closed'
    BY <2>1 DEF Closed, NoConn, StreamLimit
  <2>3. (Closed => CsInv)'
    BY ClosedIsSound, PTL
  <2> QED
    BY <2>1, <2>2, <2>3
<1>5. CASE UNCHANGED csVars
  BY <1>5 DEF csVars, CsInv, CsTyped, Sound, SessionsAccounted, OpenStreams, Live, Stage
<1> QED
  BY <1>1, <1>2, <1>3, <1>4, <1>5 DEF CsNext

\* A live connection always has a step of its own to take.
LEMMA OwnStepFollows ==
  ASSUME CsAssumption, CsInv
  PROVE  SilentClientsLetGo
<1> SUFFICES ASSUME NEW i \in CsIds, Live(i), Stage(i) # "preface", ~KeptByClient(i)
             PROVE  OwnStepDue(i)
  BY DEF SilentClientsLetGo
<1> DEFINE o == csConns[i]
<1>1. Sound(o) /\ CsQueue \in Nat \ {0}
  BY DEF CsInv, CsTyped, CsAssumption
<1>2. /\ o.stage \in {"proxy", "tls", "open", "closing"} /\ o.busy \in Nat /\ o.queue \in Nat
      /\ o.writer \in BOOLEAN /\ o.held \in BOOLEAN /\ o.stuck \in Nat /\ o.stuck <= o.busy
  BY <1>1 DEF Sound, CsConns, Live, Stage
<1>3. ASSUME o.busy > 0, csKind = "dot" PROVE AnswerMayGo(i) \/ WriteMayFail(i)
  BY <1>1, <1>2, <1>3 DEF AnswerMayGo, WriteMayFail
<1>4. o.pings => UnderWay(i)
  BY <1>1, <1>2 DEF KeptByClient, UnderWay, Sound
<1>5. CASE o.stage \in {"proxy", "tls"}
  BY <1>5, <1>4 DEF OwnStepDue, HandshakeMayFail, Stage
<1>6. CASE o.stage = "open"
  <2>1. CASE o.held
    <3>1. o.busy # 0 /\ csKind = "dot"
      BY <1>1, <2>1 DEF Sound
    <3>2. o.busy > 0
      BY <1>2, <3>1
    <3> QED
      BY <1>3, <3>1, <3>2 DEF OwnStepDue
  <2>2. CASE ~o.held
    BY <1>6, <1>4, <2>2 DEF OwnStepDue, ReadMayEnd, Stage
  <2> QED
    BY <2>1, <2>2
<1>7. CASE o.stage = "closing"
  <2>1. csKind = "dot" /\ (o.writer = TRUE \/ o.queue = 0)
    BY <1>1, <1>7 DEF Sound
  <2>2. CASE o.busy > 0
    BY <1>3, <2>1, <2>2 DEF OwnStepDue
  <2>3. CASE o.busy = 0 /\ o.queue = 0
    BY <1>7, <2>3 DEF OwnStepDue, Drained, Stage
  <2>4. CASE o.queue > 0
    <3>1. o.writer
      BY <1>2, <2>1, <2>4
    <3> QED
      BY <2>4, <3>1 DEF OwnStepDue, WriteMayFail
  <2> QED
    BY <1>2, <2>2, <2>3, <2>4
<1> QED
  BY <1>2, <1>5, <1>6, <1>7

\* A connection below its own limit leaves one of the listener's stream permits.
LEMMA StreamsLeft ==
  ASSUME CsAssumption, CsInv
  PROVE  StreamsLeftForOthers
<1> SUFFICES ASSUME NEW i \in CsIds, csKind = "doq", Stage(i) = "open", csConns[i].busy < CsStreams
             PROVE  csStreams > 0 \/ csOrphans > 0
  BY DEF StreamsLeftForOthers
<1> DEFINE B == 1 .. CsStreams
           held == OpenStreams \cup {<<i, CsStreams>>}
<1>1. CsStreams \in Nat /\ CsMax \in Nat /\ CsStreams > 0
  BY DEF CsAssumption
<1>2. IsFiniteSet(B) /\ Cardinality(B) = CsStreams
  BY <1>1, FS_Interval
<1>3. IsFiniteSet(LiveOnes) /\ IsFiniteSet(OpenStreams)
  BY CountedAreFinite
<1>4. held \in SUBSET (LiveOnes \X B)
  <2>1. ASSUME NEW s \in OpenStreams PROVE s \in LiveOnes \X B
    <3>1. s = <<s[1], s[2]>> /\ s[1] \in CsIds /\ s[2] \in B /\ s[2] <= csConns[s[1]].busy
      BY DEF OpenStreams
    <3>2. Sound(csConns[s[1]])
      BY <3>1 DEF CsInv, CsTyped
    <3>3. csConns[s[1]].busy # 0
      BY <1>1, <3>1
    <3>4. s[1] \in LiveOnes
      BY <3>1, <3>2, <3>3 DEF Sound, LiveOnes, Live, Stage
    <3> QED
      BY <3>1, <3>4
  <2>2. i \in LiveOnes /\ CsStreams \in B
    BY <1>1 DEF LiveOnes, Live
  <2> QED
    BY <2>1, <2>2
<1>5. Cardinality(held) = Cardinality(OpenStreams) + 1 /\ Cardinality(OpenStreams) \in Nat
  <2>1. csConns[i].busy \in Nat
    BY DEF CsInv, CsTyped, Sound, CsConns
  <2>2. <<i, CsStreams>> \notin OpenStreams
    BY <1>1, <2>1 DEF OpenStreams
  <2> QED
    BY <1>3, <2>2, FS_AddElement, FS_CardinalityType
<1>6. Cardinality(held) <= Cardinality(LiveOnes) * CsStreams /\ Cardinality(LiveOnes) \in Nat
  <2> HIDE DEF held, B
  <2>1. IsFiniteSet(LiveOnes \X B) /\ Cardinality(LiveOnes \X B) = Cardinality(LiveOnes) * Cardinality(B)
    BY <1>2, <1>3, FS_Product
  <2>2. Cardinality(held) <= Cardinality(LiveOnes \X B)
    BY <1>4, <2>1, FS_Subset
  <2> QED
    BY <1>2, <1>3, <2>1, <2>2, FS_CardinalityType
<1>7. Cardinality(LiveOnes) <= CsMax
  <2>1. csFree \in Nat /\ csFree + Cardinality(LiveOnes) = CsMax
    BY DEF CsInv, CsTyped, SessionsAccounted, LiveOnes
  <2> QED
    BY <1>1, <1>6, <2>1
<1>8. Cardinality(LiveOnes) * CsStreams <= CsMax * CsStreams
  <2>1. \A m, n, k \in Nat : m <= n => m * k <= n * k
    <3> TAKE m, n, k \in Nat
    <3> HAVE m <= n
    <3>1. PICK e \in Nat : n = m + e
      <4>1. n - m \in Nat /\ n = m + (n - m)
        OBVIOUS
      <4> QED
        BY <4>1
    <3>2. n * k = m * k + e * k /\ e * k \in Nat /\ m * k \in Nat
      BY <3>1
    <3> QED
      BY <3>2
  <2> QED
    BY <1>1, <1>6, <1>7, <2>1
<1>9. /\ csStreams + csOrphans + Cardinality(OpenStreams) = CsMax * CsStreams
      /\ csStreams \in Int /\ csOrphans \in Int
  BY DEF CsInv, CsTyped, SessionsAccounted, StreamLimit
<1>10. PICK limit \in Nat : limit = CsMax * CsStreams
  BY <1>1
<1>11. PICK mine \in Nat : mine = Cardinality(LiveOnes) * CsStreams
  BY <1>1, <1>6
<1>12. Cardinality(OpenStreams) + 1 <= mine /\ mine <= limit
  BY <1>5, <1>6, <1>8, <1>10, <1>11
<1> QED
  BY <1>5, <1>9, <1>10, <1>12

(* What a connection of an encrypted listener takes, the session permit, the  *)
(* client's slot, a stream permit, is given back once, whatever order         *)
(* connections are refused, fail, stall and end in; a client that stops       *)
(* reading or sending cannot keep it, but for a DoQ client that keeps its     *)
(* connection alive, which leaves the others theirs (dot.rs, doh.rs, doq.rs). *)
THEOREM SessionsHoldCorrect == CsSpec => []SessionsHold
<1> USE CsAssumption
<1>1. CsInit => CsInv /\ csKind \in {"dot", "doh", "doq"}
  BY ClosedIsSound DEF CsInit, Closed
<1>2. CsInv /\ csKind \in {"dot", "doh", "doq"} /\ [CsNext]_csVars
        => CsInv' /\ (csKind \in {"dot", "doh", "doq"})'
  BY ListenerKept
<1>3. CsInv => SessionsHold
  BY OwnStepFollows, StreamsLeft DEF SessionsHold, CsInv
<1> QED
  BY <1>1, <1>2, <1>3, PTL DEF CsSpec
============================================================================
