--------------------------- MODULE ResolverCache ---------------------------
(* The recursive resolver as clients see it: the route a query takes (client  *)
(* policies, conditional and stub zones, the default backend), and the cache  *)
(* assistant beside Hickory's own caches: snapshots of the last good answers  *)
(* for serve-stale, cached failures, prefetching of popular names, and the    *)
(* snapshot file that carries them over a restart or a rebuild.  Time is one  *)
(* clock; answers are known by the upstream they came from and their birth.   *)
EXTENDS Naturals, Sequences, FiniteSets, SequencesExt

CONSTANTS
    RcBuilds,       \* the settings a resolver may be built from
    RcFirst,        \* the one it starts with
    RcNames, RcClients,
    RcTtl,          \* the lifetime of an upstream answer
    RcMaxTracked,   \* MAX_TRACKED_ENTRIES
    RcMaxTime, RcMaxRebuilds, RcMaxLookups

ASSUME RcAssumption ==
    /\ RcTtl \in Nat
    /\ \A b \in RcBuilds \cup {RcFirst} : {"policies", "window", "maxTtl"} \subseteq DOMAIN b /\ {b.window, b.maxTtl} \subseteq Nat

VARIABLES
    rcNow, rcBuild,
    rcSnaps,      \* cache key -> snapshot
    rcPopular,    \* cache key -> [count, start]
    rcInFlight,   \* the keys marked as being prefetched
    rcRefreshes,  \* the prefetch tasks at work
    rcHickory,    \* <<upstream, name>> -> the answer Hickory's cache holds
    rcLook,       \* the lookup of a client
    rcReply,      \* what this step gave to a client
    rcFile,       \* the entries of the snapshot file
    rcRebuilds, rcLookups

rcAssist == <<rcSnaps, rcPopular, rcInFlight, rcRefreshes>>
rcVars == <<rcNow, rcBuild, rcAssist, rcHickory, rcLook, rcReply, rcFile, rcRebuilds, rcLookups>>
rcRest == <<rcFile, rcRebuilds, rcLookups>>

(* ------------------------------- routing -------------------------------- *)

ScopeDefault == 0
ScopeRecursor == 1
ScopePolicy == 2

\* Disabled policies are left out when a resolver is built, so the others move up.
BuildPolicies(b) == [b EXCEPT !.policies = SelectSeq(b.policies, LAMBDA p : p.enabled)]

\* The first policy that covers the client; 0 for none.
PolicyFor(b, c) == SelectInSeq(b.policies, LAMBDA p : c \in p.clients)

PolicyForScope(b, scope) ==
    IF scope = ScopeDefault THEN 0
    ELSE IF scope = ScopeRecursor THEN SelectInSeq(b.policies, LAMBDA p : p.backend = "recursive")
    ELSE scope - ScopePolicy + 1

\* The deepest conditional or stub zone over a name; conditional ones win a tie.
ZoneResolver(b, n) ==
    LET best(zs) == {z \in zs : n \in z.names /\ \A y \in zs : n \in y.names => y.depth <= z.depth}
        cond == best(b.conditional)
        stub == {z \in best(b.stubs) : \A y \in cond : y.depth < z.depth}
    IN  IF stub # {} THEN stub ELSE cond

To(kind, up, scope) == [kind |-> kind, up |-> up, scope |-> scope]

\* Mutant of RouteOf: a policy's answers are kept with everyone's.
RouteOfUnscoped(b, n, i) ==
    IF ZoneResolver(b, n) # {} THEN To("forward", (CHOOSE z \in ZoneResolver(b, n) : TRUE).up, ScopeDefault)
    ELSE IF i # 0 /\ b.policies[i].backend = "forward" THEN To("forward", b.policies[i].up, ScopeDefault)
    ELSE IF i # 0 \/ b.mode = "recursive" THEN To("recursor", "root", ScopeDefault)
    ELSE To("forward", b.up, ScopeDefault)

RouteOf(b, n, i) ==
    LET forward(up, scope) == IF n \in b.noTld THEN To("notld", "none", ScopeDefault)
                              ELSE To("forward", up, scope)
    IN  IF ZoneResolver(b, n) # {} THEN To("forward", (CHOOSE z \in ZoneResolver(b, n) : TRUE).up, ScopeDefault)
        ELSE IF i # 0 /\ b.policies[i].backend = "forward"
        THEN forward(b.policies[i].up, ScopePolicy + i - 1)
        ELSE IF i # 0 THEN To("recursor", "root", IF b.mode = "recursive" THEN ScopeDefault ELSE ScopeRecursor)
        ELSE IF b.mode = "recursive" THEN To("recursor", "root", ScopeDefault)
        ELSE forward(b.up, ScopeDefault)

RcAllowsClient(b, c) ==
    /\ c \in b.access
    /\ PolicyFor(b, c) # 0 => b.policies[PolicyFor(b, c)].backend # "refuse"

(* ------------------------- the cache assistant -------------------------- *)

NoData == [from |-> "none"]
NoSnapshot == [data |-> NoData, until |-> 0, fetched |-> 0, failUntil |-> 0, restored |-> FALSE]

\* f with k |-> v: a full table first drops an entry of the lowest
\* rank (the field of that name).
Inserted(f, k, v, rank) ==
    LET put(keep) == [j \in keep \cup {k} |-> IF j = k THEN v ELSE f[j]]
    IN  IF k \in DOMAIN f \/ Cardinality(DOMAIN f) < RcMaxTracked THEN {put(DOMAIN f)}
        ELSE {put(DOMAIN f \ {old}) : old \in {j \in DOMAIN f : \A i \in DOMAIN f : f[j][rank] <= f[i][rank]}}

Without(f, gone) == [k \in DOMAIN f \ gone |-> f[k]]

Deadline(b, until) ==
    IF b.maxTtl > 0 /\ until > rcNow + b.maxTtl THEN rcNow + b.maxTtl ELSE until

Count(b, k) ==
    IF k \in DOMAIN rcPopular /\ rcNow - rcPopular[k].start < b.popWindow
    THEN [rcPopular[k] EXCEPT !.count = @ + 1] ELSE [count |-> 1, start |-> rcNow]

\* Less than the configured share of the answer's TTL is left: the TTL counts
\* from the previous snapshot when that one has the same deadline.
NearExpiry(b, k, until) ==
    LET since == IF k \in DOMAIN rcSnaps /\ rcSnaps[k].until = until /\ until > rcNow
                 THEN rcSnaps[k].fetched ELSE rcNow
    IN  (until - rcNow) * 100 < (until - since) * b.pct

\* on_success, then the prefetch a popular name may start; `spawn` is false in a
\* prefetch itself.
OnSuccess(k, data, until, spawn, tasks) ==
    LET b == rcBuild
        dead == Deadline(b, until)
        pop == Count(b, k)
        fire == /\ spawn /\ b.prefetch /\ pop.count >= b.minQueries
                /\ NearExpiry(b, k, dead) /\ k \notin rcInFlight
    IN  /\ rcSnaps' \in Inserted(rcSnaps, k, [NoSnapshot EXCEPT !.data = data, !.until = dead, !.fetched = rcNow],
                                 "fetched")
        /\ rcPopular' \in Inserted(rcPopular, k, pop, "count")
        /\ rcInFlight' = (IF spawn THEN rcInFlight ELSE rcInFlight \ {k}) \cup (IF fire THEN {k} ELSE {})
        /\ rcRefreshes' = tasks \cup (IF fire THEN {k} ELSE {})

FailureCached(k) == k \in DOMAIN rcSnaps /\ rcSnaps[k].failUntil > rcNow /\ rcBuild.failTtl > 0

\* Only an entry restored from the file is handed out while it is fresh.
FreshAnswer(k) ==
    /\ k \in DOMAIN rcSnaps /\ rcSnaps[k].restored
    /\ rcSnaps[k].data # NoData /\ rcSnaps[k].until >= rcNow

\* Mutant of StaleAnswer: however long ago it expired.
StaleAnswerUnbounded(k) == k \in DOMAIN rcSnaps /\ rcBuild.window > 0 /\ rcSnaps[k].until < rcNow

StaleAnswer(k) ==
    /\ k \in DOMAIN rcSnaps /\ rcBuild.window > 0
    /\ rcSnaps[k].until < rcNow /\ rcNow - rcSnaps[k].until <= rcBuild.window

RecordFailure(k) ==
    LET old == IF k \in DOMAIN rcSnaps THEN rcSnaps[k]
               ELSE [NoSnapshot EXCEPT !.until = rcNow - 1, !.fetched = rcNow]
    IN  rcSnaps' \in Inserted(rcSnaps, k, [old EXCEPT !.failUntil = rcNow + rcBuild.failTtl], "fetched")

(* -------------------------------- lookups ------------------------------- *)

IdleLook == [pc |-> "idle"]
KeyOf(n, route) == <<n, route.scope>>
NoReply == rcReply' = [kind |-> "none"]
Reply(kind, client, name, data, b) ==
    rcReply' = [kind |-> kind, client |-> client, name |-> name, data |-> data, at |-> rcNow, by |-> b]

\* A client's lookup up to the first await.  With its own subnet sent upstream it
\* takes the uncached forwarder and leaves the shared caches alone.
RcBegin(c, n, subnet) ==
    LET b == rcBuild
        route == RouteOf(b, n, PolicyFor(b, c))
        shared == ~(subnet /\ route.kind = "forward")
        k == KeyOf(n, route)
        wait == [pc |-> "wait", client |-> c, name |-> n, route |-> route, shared |-> shared, by |-> b, old |-> FALSE]
    IN  /\ rcLook.pc = "idle"
        /\ RcAllowsClient(b, c)
        /\ IF shared /\ FailureCached(k)
           THEN Reply("negative", c, n, NoData, b) /\ UNCHANGED <<rcLook, rcAssist>>
           ELSE IF shared /\ FreshAnswer(k)
           THEN /\ Reply("data", c, n, rcSnaps[k].data, b)
                /\ OnSuccess(k, rcSnaps[k].data, rcSnaps[k].until, TRUE, rcRefreshes)
                /\ UNCHANGED rcLook
           ELSE rcLook' = wait /\ NoReply /\ UNCHANGED rcAssist
        /\ rcLookups < RcMaxLookups /\ rcLookups' = rcLookups + 1
        /\ UNCHANGED <<rcNow, rcBuild, rcHickory, rcFile, rcRebuilds>>

\* What a lookup of n over `route` finds: Hickory's cached answer, or a new one.
Fetched(route, n, owner) ==
    LET slot == <<route.up, n>>
        cached == owner = "shared" /\ slot \in DOMAIN rcHickory /\ rcHickory[slot].until > rcNow
    IN  IF cached THEN rcHickory[slot]
        ELSE [data |-> [from |-> route.up, owner |-> owner, born |-> rcNow, carried |-> FALSE],
              until |-> rcNow + RcTtl]

Remember(route, n, got) ==
    rcHickory' = [s \in DOMAIN rcHickory \cup {<<route.up, n>>} |->
                    IF s = <<route.up, n>> THEN got ELSE rcHickory[s]]

\* The client may have stopped waiting ("late"): the answer is still recorded,
\* unless the resolver was replaced meanwhile.
Deliver(kind, data) ==
    IF rcLook.pc = "wait" THEN Reply(kind, rcLook.client, rcLook.name, data, rcLook.by) ELSE NoReply

RcAnswered ==
    LET k == KeyOf(rcLook.name, rcLook.route)
        got == Fetched(rcLook.route, rcLook.name, IF rcLook.shared THEN "shared" ELSE rcLook.client)
    IN  /\ rcLook.pc \in {"wait", "late"} /\ rcLook.route.kind # "notld"
        /\ rcLook' = IdleLook
        /\ Deliver("data", got.data)
        /\ IF rcLook.shared /\ ~rcLook.old
           THEN OnSuccess(k, got.data, got.until, TRUE, rcRefreshes) /\ Remember(rcLook.route, rcLook.name, got)
           ELSE UNCHANGED <<rcAssist, rcHickory>>
        /\ UNCHANGED <<rcNow, rcBuild, rcRest>>

\* NXDOMAIN, NODATA or an error code: a real answer, cached as a failure.
RcNegative ==
    LET k == KeyOf(rcLook.name, rcLook.route) IN
    /\ rcLook.pc \in {"wait", "late"}
    /\ rcLook' = IdleLook
    /\ Deliver("negative", NoData)
    /\ IF rcLook.shared /\ ~rcLook.old /\ rcBuild.failTtl > 0 THEN RecordFailure(k) ELSE UNCHANGED rcSnaps
    /\ UNCHANGED <<rcNow, rcBuild, rcPopular, rcInFlight, rcRefreshes, rcHickory, rcRest>>

\* No answer at all: the last good one, if it expired not too long ago.
RcUnreachable ==
    LET k == KeyOf(rcLook.name, rcLook.route) IN
    /\ rcLook.pc \in {"wait", "late"} /\ rcLook.route.kind # "notld"
    /\ rcLook' = IdleLook
    /\ IF ~rcLook.old /\ StaleAnswer(k) THEN Deliver("stale", rcSnaps[k].data) ELSE Deliver("fail", NoData)
    /\ UNCHANGED <<rcNow, rcBuild, rcAssist, rcHickory, rcRest>>

\* The dispatcher's client timeout: it asks for the stale answer itself, by the
\* resolver of the lookup, while the lookup goes on.
RcClientTimeout ==
    LET k == KeyOf(rcLook.name, RouteOf(rcLook.by, rcLook.name, PolicyFor(rcLook.by, rcLook.client))) IN
    /\ rcLook.pc = "wait" /\ ~rcLook.old
    /\ rcLook' = [rcLook EXCEPT !.pc = "late"]
    /\ IF StaleAnswer(k) THEN Deliver("stale", rcSnaps[k].data) ELSE Deliver("fail", NoData)
    /\ UNCHANGED <<rcNow, rcBuild, rcAssist, rcHickory, rcRest>>

\* A prefetch routes by the scope of its key; failures are swallowed.
RcRefresh(k, ok) ==
    LET route == RouteOf(rcBuild, k[1], PolicyForScope(rcBuild, k[2]))
        got == [Fetched(route, k[1], "refresh") EXCEPT !.data.owner = "shared"]
    IN  /\ k \in rcRefreshes
        /\ IF ok /\ route.kind # "notld"
           THEN OnSuccess(k, got.data, got.until, FALSE, rcRefreshes \ {k}) /\ Remember(route, k[1], got)
           ELSE /\ rcInFlight' = rcInFlight \ {k} /\ rcRefreshes' = rcRefreshes \ {k}
                /\ UNCHANGED <<rcSnaps, rcPopular, rcHickory>>
        /\ UNCHANGED <<rcNow, rcBuild, rcLook, rcRest>> /\ NoReply

(* --------------------- flushing, rebuilding, restarting ------------------ *)

RcClear ==
    /\ rcSnaps' = <<>> /\ rcPopular' = <<>> /\ rcInFlight' = {} /\ rcHickory' = <<>>
    /\ rcSnaps # <<>>
    /\ UNCHANGED <<rcNow, rcBuild, rcRefreshes, rcLook, rcRest>> /\ NoReply

\* The recursor has no per-name removal and keeps what it holds.
RcFlush(n) ==
    LET of(f) == {k \in DOMAIN f : k[1] = n} IN
    /\ rcSnaps' = Without(rcSnaps, of(rcSnaps)) /\ rcPopular' = Without(rcPopular, of(rcPopular))
    /\ rcHickory' = Without(rcHickory, {s \in DOMAIN rcHickory : s[2] = n /\ s[1] # "root"})
    /\ rcSnaps' # rcSnaps
    /\ UNCHANGED <<rcNow, rcBuild, rcInFlight, rcRefreshes, rcLook, rcRest>> /\ NoReply

\* Absolute expiries, in whole seconds from now: one already past becomes now.
Export ==
    [k \in DOMAIN rcSnaps |->
       [data |-> rcSnaps[k].data,
        through |-> IF rcSnaps[k].until > rcNow THEN rcSnaps[k].until ELSE rcNow,
        failThrough |-> IF rcSnaps[k].failUntil >= rcNow THEN rcSnaps[k].failUntil ELSE 0]]

Persist == IF rcBuild.persist THEN Export ELSE rcFile

Restorable(b, e) ==
    LET failing == e.failThrough > rcNow /\ b.failTtl > 0 IN
    failing \/ (e.data # NoData /\ ~(e.through < rcNow /\ rcNow - e.through > b.window))

\* What a resolver built from b takes from the file (it holds no more entries than
\* the table).
Import(b, file) ==
    [k \in {j \in DOMAIN file : b.persist /\ Restorable(b, file[j])} |->
       LET e == file[k]
           left == IF e.through > rcNow THEN e.through - rcNow ELSE 0
           cap(x, top) == IF top > 0 /\ x > top THEN top ELSE x
       IN  [data |-> IF e.data = NoData THEN NoData ELSE [e.data EXCEPT !.carried = TRUE],
            until |-> IF left > 0 THEN rcNow + cap(left, b.maxTtl) ELSE rcNow - 1,
            fetched |-> rcNow,
            failUntil |-> IF e.failThrough > rcNow /\ b.failTtl > 0
                          THEN rcNow + cap(e.failThrough - rcNow, b.failTtl) ELSE 0,
            restored |-> TRUE]]

\* A new resolver starts with empty Hickory caches; lookups under way end with
\* the old one.
Built(b, snaps) ==
    /\ rcRebuilds < RcMaxRebuilds /\ rcRebuilds' = rcRebuilds + 1
    /\ rcBuild' = BuildPolicies(b) /\ rcSnaps' = snaps
    /\ rcPopular' = <<>> /\ rcInFlight' = {} /\ rcRefreshes' = {} /\ rcHickory' = <<>>

Replaced == rcLook' = IF rcLook.pc = "idle" THEN rcLook ELSE [rcLook EXCEPT !.old = TRUE]

\* A file reload hands the cache over through the snapshot file.
RcReload(b) ==
    /\ Built(b, Import(b, Persist)) /\ rcFile' = Persist /\ Replaced
    /\ NoReply /\ UNCHANGED <<rcNow, rcLookups>>

\* A console save does not.
RcSwap(b) == Built(b, <<>>) /\ Replaced /\ NoReply /\ UNCHANGED <<rcNow, rcFile, rcLookups>>

\* Stop (the file is written) or crash (the last one stays), then start; a file
\* that cannot be read is dropped.
RcRestart(b, clean, readable) ==
    LET file == IF clean THEN Persist ELSE rcFile IN
    /\ Built(b, IF readable THEN Import(b, file) ELSE <<>>)
    /\ rcFile' = file /\ rcLook' = IdleLook
    /\ NoReply /\ UNCHANGED <<rcNow, rcLookups>>

RcTick == rcNow < RcMaxTime /\ rcNow' = rcNow + 1 /\ UNCHANGED <<rcBuild, rcAssist, rcHickory, rcLook, rcRest>> /\ NoReply

RcInit ==
    /\ rcNow = 1 /\ rcBuild = BuildPolicies(RcFirst) /\ rcSnaps = <<>> /\ rcPopular = <<>> /\ rcInFlight = {}
    /\ rcRefreshes = {} /\ rcHickory = <<>> /\ rcLook = IdleLook /\ rcFile = <<>> /\ rcRebuilds = 0 /\ rcLookups = 0
    /\ rcReply = [kind |-> "none"]

RcNext ==
    \/ \E c \in RcClients, n \in RcNames, s \in BOOLEAN : (s => c \in rcBuild.ecs) /\ RcBegin(c, n, s)
    \/ RcAnswered \/ RcNegative \/ RcUnreachable \/ RcClientTimeout
    \/ \E k \in rcRefreshes, ok \in BOOLEAN : RcRefresh(k, ok)
    \/ RcClear \/ (\E n \in RcNames : RcFlush(n))
    \/ \E b \in RcBuilds : RcReload(b) \/ RcSwap(b) \/ (\E cl, rd \in BOOLEAN : RcRestart(b, cl, rd))
    \/ RcTick

RcSpec == RcInit /\ [][RcNext]_rcVars

(* ------------------------------ properties ------------------------------ *)

Given == rcReply.kind \in {"data", "stale"} /\ rcReply.data # NoData

\* An answer handed to a client was fetched over that client's own route (its
\* policy's upstream, not another's), and not for another client's subnet.
AnswersStayInScope ==
    Given => LET r == RouteOf(rcReply.by, rcReply.name, PolicyFor(rcReply.by, rcReply.client))
             IN  rcReply.data.from = r.up /\ rcReply.data.owner \in {"shared", rcReply.client}

\* An answer that no snapshot file has carried is given to nobody once its lifetime
\* and the serve-stale window are over.
StaleWithinWindow ==
    Given /\ ~rcReply.data.carried => rcReply.at <= rcReply.data.born + RcTtl + rcReply.by.window

(* ------------- the settings under which answers stay in scope ------------ *)

\* What resolvers are built with.
Builds == {BuildPolicies(b) : b \in RcBuilds \cup {RcFirst}}

\* Where a name is looked up for a key of scope s.
UpOf(b, n, s) == RouteOf(b, n, PolicyForScope(b, s)).up

\* Policies have one of three backends.  The settings under which a snapshot file
\* is read or written agree on where queries go: the mode, the default upstreams,
\* the lists of policies and zones, and the top-level domains the local root lacks.
\* A recursive default beside a forwarding policy goes without the last check.
RoutesKept ==
  /\ \A b \in RcBuilds : "persist" \in DOMAIN b
  /\ \A b \in Builds :
       /\ Len(b.policies) \in Nat
       /\ \A i \in 1 .. Len(b.policies) : b.policies[i].backend \in {"forward", "recursive", "refuse"}
       /\ b.mode = "recursive" /\ (\E i \in 1 .. Len(b.policies) : b.policies[i].backend = "forward") => b.noTld = {}
  /\ \A b, d \in Builds : b.persist /\ d.persist =>
       /\ b.mode = d.mode /\ b.up = d.up /\ b.policies = d.policies
       /\ b.conditional = d.conditional /\ b.stubs = d.stubs /\ b.noTld = d.noTld
=============================================================================
