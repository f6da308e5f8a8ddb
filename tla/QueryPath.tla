----------------------------- MODULE QueryPath -----------------------------
(* One query's way through DnsDispatcher::handle_request, step by step, while *)
(* the console republishes the settings it reads: the policy engine, what its *)
(* AI plugin blocks, the filtering groups, the response policy zones, the     *)
(* resolver and the configuration are each swapped atomically, so a query may *)
(* see an old value of one and a new value of another.  Queries come one      *)
(* after the other; the lookups they leave behind keep their admission        *)
(* permits.                                                                   *)
EXTENDS PolicyRules

CONSTANTS
    Requests,        \* the requests clients may send
    InitialSettings, \* [policy, plugin, groups, lists, rpz, resolver, config] at start
    PolicyChanges, PluginChanges, GroupChanges, RpzChanges, ResolverChanges, ConfigChanges,
    Outcomes,        \* what a lookup may end with
    Zones,           \* [hosted, aliases, weighted, ptr, split, search, tsig]
    MaxQueries, MaxChanges

\* The kind of answer, the names its CNAMEs lead through, and what the answer checks
\* tell apart: a local address, a large payload, an AAAA record, an expired answer.
ASSUME OutcomesAssumption == \A out \in Outcomes :
    out \in [kind : {"data", "nodata", "nxdomain", "fail"}, chain : Seq(Range(out.chain)),
            local : BOOLEAN, big : BOOLEAN, aaaa : BOOLEAN, stale : BOOLEAN]

\* A policy's rules, the groups built from those that are saved, and the labels of a
\* name that is asked for, are each in an order.
ASSUME SettingsAssumption ==
    /\ \A p \in PolicyChanges \cup {InitialSettings.policy} : p.rules \in Seq(Range(p.rules))
    /\ \A gs \in GroupChanges \cup {InitialSettings.groups} : BuildGroups(gs) \in Seq(Range(BuildGroups(gs)))
    /\ \A r \in Requests : r.name \in Seq(Range(r.name))

VARIABLES
    policy, groups, lists, rpz, resolver, config,   \* what is published now
    plugin,   \* the names the AI plugin blocks now, for each client
    q,        \* the query being handled
    tasks,    \* lookups running, each holding a permit
    asked, changes

queryVars == <<policy, plugin, groups, lists, rpz, resolver, config, q, tasks, asked, changes>>
settings == <<policy, plugin, groups, lists, rpz, resolver, config, changes>>

(* --------------------------- the query record --------------------------- *)

NoAnswer == [kind |-> "fail", chain |-> <<>>, local |-> FALSE, big |-> FALSE, aaaa |-> FALSE, stale |-> FALSE]
NoResponse == [data |-> "none", rcode |-> "none", chain |-> <<>>]

NewQuery(r) ==
    [stage |-> "gates", req |-> r, account |-> "none", listenerOk |-> "none",
     policy |-> policy, trusted |-> FALSE, rpz |-> rpz, rpzDone |-> FALSE,
     resolver |-> resolver, found |-> NoAnswer, alias |-> "none",
     resp |-> NoResponse, log |-> <<>>,
     \* what was published at some time of this query's life
     seenPolicy |-> {policy}, seenPlugin |-> {plugin}, seenGroups |-> {groups}, seenResolver |-> {resolver}]

IdleQuery == [NewQuery([op |-> "none"]) EXCEPT !.stage = "idle"]

Listener(proto) == IF proto \in {"dot", "doh", "doq"} THEN proto ELSE "none"
At(stage) == q.stage = stage
Goto(stage) == q' = [q EXCEPT !.stage = stage]

\* Send a response and record it in the query logs (`observe`).
Answer(data, rcode) == [data |-> data, rcode |-> rcode, chain |-> <<>>]
Observed(outcome, rcode) == <<[outcome |-> outcome, rcode |-> rcode]>>
RespondWith(resp, log) == q' = [q EXCEPT !.stage = "done", !.resp = resp, !.log = q.log \o log]
Respond(data, rcode, outcome) == RespondWith(Answer(data, rcode), Observed(outcome, rcode))
Silently(rcode) == RespondWith(Answer("none", rcode), <<>>)

Same == UNCHANGED <<settings, tasks, asked>>

(* ------------------------- before the question -------------------------- *)

\* Some(false) refuses, Some(true) grants recursion later, None decides nothing.
ListenerGate(client, listener) ==
    LET nets == config.listenerNets
    IN  IF listener = "none" \/ nets = {} THEN "none"
        ELSE IF client \in nets THEN "allowed" ELSE "denied"

\* Who a connection is: the account of the client ID it gave, if there is one now.
Identify(r) == IF r.id \in DOMAIN config.accounts THEN config.accounts[r.id] ELSE "none"

AccountGate(r, account) == Listener(r.proto) # "none" /\ config.accountsRequired /\ account = "none"

Arrive(r) ==
    /\ q.stage \in {"idle", "done"}
    /\ asked < MaxQueries
    /\ asked' = asked + 1
    /\ q' = [NewQuery(r) EXCEPT !.account = Identify(r)]
    /\ UNCHANGED <<settings, tasks>>

\* Listener list, DNS account, cookie and the per-client rate limit, in order.
Gates ==
    LET r == q.req
        gate == ListenerGate(r.client, Listener(r.proto)) IN
    /\ At("gates")
    /\ IF gate = "denied" \/ AccountGate(r, q.account) THEN Respond("none", "REFUSED", "blocked")
       ELSE IF r.cookie = "malformed" THEN Silently("FORMERR")
       ELSE IF r.rate = "client" THEN Respond("none", "SERVFAIL", "rate_limited")
       ELSE q' = [q EXCEPT !.stage = "opcode", !.listenerOk = gate]
    /\ Same

\* UPDATE and NOTIFY leave here; the rest is parsed once.
Opcode ==
    LET r == q.req IN
    /\ At("opcode")
    /\ CASE r.op = "update" -> RespondWith(Answer("update", "NOERROR"), <<>>)
         [] r.op = "notify" -> RespondWith(Answer("notify", IF config.notifyIn THEN "NOERROR" ELSE "NOTIMP"), <<>>)
         [] r.op = "malformed" -> Silently("FORMERR")
         [] OTHER -> IF r.rate = "domain" THEN Respond("none", "SERVFAIL", "rate_limited")
                     ELSE Goto("ddr")
    /\ Same

\* The encrypted listeners that are on, and the name each goes by.
DdrTargets == IF config.ddr THEN config.encrypted ELSE [l \in {} |-> <<>>]

\* _dns.<a name of this server>, unless a hosted zone has it.
IsDdrName(n) == n # <<>> /\ Head(n) = "_dns" /\ n \notin Zones.hosted /\ Tail(n) \in Range(DdrTargets)

\* The listeners told to a client: those it is allowed on.
DdrRecords(client) == {l \in DOMAIN DdrTargets : ListenerGate(client, l) # "denied"}

\* resolver.arpa is answered here and never forwarded.
Ddr ==
    LET n == q.req.name
        special == IsSuffix(<<"resolver", "arpa">>, n)
        ddr == n = <<"_dns", "resolver", "arpa">> \/ (~special /\ IsDdrName(n)) IN
    /\ At("ddr")
    /\ IF ~special /\ ~ddr THEN Goto("policy")
       ELSE IF ~ddr /\ n # <<"resolver", "arpa">> THEN Respond("none", "NXDOMAIN", "authoritative")
       ELSE Respond(IF ddr /\ q.req.type = "SVCB" /\ DdrRecords(q.req.client) # {} THEN "ddr" ELSE "none",
                    "NOERROR", "authoritative")
    /\ Same

(* ------------------------------ filtering ------------------------------- *)

\* With the block page on: its address, an empty answer, or no page.
BlockPageAnswer(t) ==
    LET v4 == config.page \in {"v4", "both"}  v6 == config.page \in {"v6", "both"} IN
    CASE t = "A" /\ v4 -> "page"
      [] t = "AAAA" /\ v6 -> "page"
      [] t = "AAAA" /\ v4 /\ ~v6 -> "empty"
      [] t \in {"HTTPS", "SVCB"} /\ (v4 \/ v6) -> "empty"
      [] OTHER -> "off"

\* Carry out a blocking decision of the policy, a group or CNAME inspection.
ServeBlock(action) ==
    LET page == BlockPageAnswer(q.req.type) IN
    CASE action = "refused" -> Respond("none", "REFUSED", "blocked")
      [] action = "redirect" -> Respond("redirect", "NOERROR", "blocked")
      [] action = "nodata" -> Respond("none", "NOERROR", "blocked")
      [] action = "block" /\ page = "off" -> Respond("none", "NXDOMAIN", "blocked")
      [] OTHER -> Respond(IF page = "page" THEN "page" ELSE "none", "NOERROR", "blocked")

\* The policy's decision, while its plugin blocks what `a` says.
PolicyDecision(p, a, d, t) ==
    EvaluateOn(p, a[q.req.client], q.req.client, d, t, Listener(q.req.proto))
GroupDecision(gs, d) ==
    GroupEvaluate(gs, lists, q.req.client, d, Listener(q.req.proto), q.account)

\* The policy is loaded once; the rest of the query keeps that snapshot, but not
\* what its plugin blocks.
EvaluatePolicy ==
    LET p == policy
        d == PolicyDecision(p, plugin, q.req.name, q.req.type)
    IN  /\ At("policy")
        /\ IF d.action # "allow" THEN ServeBlock(d.action)
           ELSE q' = [q EXCEPT !.stage = "groups", !.policy = p,
                               !.trusted = IsAllowlisted(p, q.req.name)]
        /\ Same

\* Mutant of EvaluateGroups: only the plain block action is carried out.
EvaluateGroupsBlockOnly ==
    LET d == GroupDecision(groups, q.req.name) IN
    /\ At("groups")
    /\ IF ~q.trusted /\ d.action = "block" THEN ServeBlock(d.action) ELSE Goto("rpz")
    /\ Same

EvaluateGroups ==
    LET d == GroupDecision(groups, q.req.name) IN
    /\ At("groups")
    /\ IF ~q.trusted /\ d.action # "allow" THEN ServeBlock(d.action) ELSE Goto("rpz")
    /\ Same

\* Carry out a response policy zone's action; "garden" is a CNAME to be resolved.
ServeRpz(action) ==
    CASE action = "nxdomain" -> Respond("none", "NXDOMAIN", "blocked")
      [] action = "nodata" -> Respond("none", "NOERROR", "blocked")
      [] action = "drop" -> RespondWith(NoResponse, Observed("blocked", "DROPPED"))
      [] action = "tcponly" -> RespondWith(Answer("none", "TC"), Observed("blocked", "TRUNCATED"))
      [] action = "garden" /\ q.req.type # "CNAME" -> q' = [q EXCEPT !.stage = "alias", !.alias = "rpz"]
      [] OTHER -> Respond("local", "NOERROR", "blocked")

\* Mutant of RpzQuery: the allowlist is forgotten.
RpzQueryUntrusting ==
    LET hit == CheckQuery(rpz, q.req.client, q.req.name)
        through == hit # NoHit /\ RpzLetsThrough(hit, q.req.proto)
    IN  /\ At("rpz")
        /\ IF hit # NoHit /\ ~through THEN ServeRpz(hit)
           ELSE q' = [q EXCEPT !.stage = "safe", !.rpz = rpz, !.rpzDone = rpz = <<>> \/ through]
        /\ Same

RpzQuery ==
    LET done == rpz = <<>> \/ q.trusted
        hit == IF done THEN NoHit ELSE CheckQuery(rpz, q.req.client, q.req.name)
        through == hit # NoHit /\ RpzLetsThrough(hit, q.req.proto)
    IN  /\ At("rpz")
        /\ IF hit # NoHit /\ ~through THEN ServeRpz(hit)
           ELSE q' = [q EXCEPT !.stage = "safe", !.rpz = rpz, !.rpzDone = done \/ through]
        /\ Same

\* Recursion for this client, on this listener.
AllowsClient(r, c, listenerOk) == r.on /\ (c \in r.access \/ listenerOk = "allowed")

SafeSearchTarget ==
    /\ q.req.name \in Zones.search
    /\ \/ q.policy.safe
       \/ GroupSafeSearch(groups, q.req.client, Listener(q.req.proto), q.account)

SafeSearch ==
    /\ At("safe")
    /\ IF /\ SafeSearchTarget
          /\ AllowsClient(resolver, q.req.client, q.listenerOk)
          /\ q.req.name \notin Zones.hosted
       THEN CASE q.req.type \in {"HTTPS", "SVCB"} -> Respond("none", "NOERROR", "recursive")
              [] q.req.type = "CNAME" -> Respond("safe", "NOERROR", "recursive")
              [] q.req.type \in {"A", "AAAA"} -> q' = [q EXCEPT !.stage = "alias", !.alias = "safe"]
              [] OTHER -> Goto("split")
       ELSE Goto("split")
    /\ Same

(* ---------------------------- local answers ----------------------------- *)

\* Entries for the name itself come first, then wildcards, the closest first; an
\* entry answers its own types, and any with a CNAME.
SplitAnswers(e, domain, t) ==
    e.domain = domain /\ q.req.client \in e.clients /\ e.types \cap {t, "CNAME"} # {}
SplitLookup(n, t) ==
    \E i \in 1..Len(n), e \in Zones.split :
        SplitAnswers(e, IF i = 1 THEN n ELSE <<"*">> \o SubSeq(n, i, Len(n)), t)

SplitHorizon ==
    /\ At("split")
    /\ IF q.req.type \in {"A", "AAAA", "CNAME", "TXT"} /\ SplitLookup(q.req.name, q.req.type)
       THEN Respond("split", "NOERROR", "split_horizon") ELSE Goto("transfer")
    /\ Same

\* An empty list of networks lets everyone transfer.
TransferClientAllowed(client) == config.axfr = {} \/ client \in config.axfr

\* verify_request: which key signed a request, or why it does not count.
VerifyRequest(sig) ==
    IF sig.key = "none" THEN "unsigned"
    ELSE IF sig.key \notin Zones.tsig.keys \/ ~sig.good \/ ~sig.timely THEN "invalid" ELSE sig.key

\* AXFR and IXFR: the transfer list, then the zone's TSIG key.  Not logged.
HandleTransfer ==
    LET n == q.req.name
        signed == n \in DOMAIN Zones.tsig.of => VerifyRequest(q.req.sig) = Zones.tsig.of[n]
    IN  /\ At("transfer")
        /\ IF q.req.type # "AXFR" THEN Goto("zones")
           ELSE IF ~config.axfrOn \/ ~TransferClientAllowed(q.req.client) \/ ~signed \/ n \notin Zones.hosted
           THEN Silently("REFUSED")
           ELSE RespondWith(Answer("axfr", "NOERROR"), <<>>)
        /\ Same

\* A name for one address, at or under an AUTOPTR record and without a PTR of its own.
AutoPtr(n) ==
    /\ n \in Zones.ptr.addresses /\ n \notin Zones.ptr.own
    /\ \E owner \in Zones.ptr.rules : IsSuffix(owner, n)

\* The longest of the configured empty zones over a reverse name; <<>> for none.
EmptyZoneCovering(n) ==
    LET over == {z \in config.empty : IsSuffix(z, n)} IN
    IF over = {} \/ ~IsSuffix(<<"in-addr", "arpa">>, n) THEN <<>>
    ELSE CHOOSE z \in over : \A y \in over : Len(y) <= Len(z)

\* Its SOA or NS at the apex, NXDOMAIN below.
ServeEmptyZone(apex, t) ==
    IF ~apex THEN Respond("none", "NXDOMAIN", "authoritative")
    ELSE Respond(IF t \in {"SOA", "NS"} THEN "zone" ELSE "none", "NOERROR", "authoritative")

\* ALIAS, weighted records, AUTOPTR, hosted zones and RFC 6303 empty zones.
LocalZones ==
    LET n == q.req.name  t == q.req.type IN
    /\ At("zones")
    /\ CASE t \in {"A", "AAAA"} /\ n \in DOMAIN Zones.aliases -> q' = [q EXCEPT !.stage = "alias", !.alias = "zone"]
         [] t \in {"A", "AAAA"} /\ n \notin DOMAIN Zones.aliases /\ n \in Zones.weighted
              -> Respond("zone", "NOERROR", "authoritative")
         [] t = "PTR" /\ AutoPtr(n) -> Respond("zone", "NOERROR", "authoritative")
         [] OTHER -> IF n \in Zones.hosted
                     THEN RespondWith(Answer("zone", "NOERROR"), Observed("authoritative", "none"))
                     ELSE IF EmptyZoneCovering(n) # <<>> THEN ServeEmptyZone(n = EmptyZoneCovering(n), t)
                     ELSE Goto("recursion")
    /\ Same

(* ------------------- lookups: permits, answers, timeouts ----------------- *)

HasPermit == tasks < config.limit
Spawn == tasks' = tasks + 1
TaskDone == tasks' = tasks - 1

\* Where each ALIAS ends: its target, followed over at most 8 further aliases.
AliasEnd ==
    LET step(n) == IF n \in DOMAIN Zones.aliases THEN Zones.aliases[n] ELSE n
        hop[i \in 0..8] == [n \in DOMAIN Zones.aliases |->
                              IF i = 0 THEN Zones.aliases[n] ELSE step(hop[i - 1][n])]
    IN  hop[8]

\* Mutant of ServeAlias: the answer of a garden is sent before it is logged.
ServeAliasUnlogged(rcode, records) ==
    CASE q.alias = "rpz" -> RespondWith(Answer("local", "NOERROR"), <<>>)
      [] q.alias = "safe" -> Respond(IF rcode = "NOERROR" THEN "safe" ELSE "none", rcode, "recursive")
      [] OTHER -> Respond(IF rcode = "NOERROR" /\ records THEN "zone" ELSE "none", rcode, "authoritative")

\* The answer made of an alias lookup that ended with rcode and `records`.
ServeAlias(rcode, records) ==
    CASE q.alias = "rpz" -> Respond("local", "NOERROR", "blocked")
      [] q.alias = "safe" -> Respond(IF rcode = "NOERROR" THEN "safe" ELSE "none", rcode, "recursive")
      [] OTHER -> Respond(IF rcode = "NOERROR" /\ records THEN "zone" ELSE "none", rcode, "authoritative")

\* A hosted target is read here; else a lookup is started with the resolver that
\* is published now, if there is one and a permit is free.
StartAlias ==
    LET n == IF q.alias = "zone" THEN AliasEnd[q.req.name] ELSE q.req.name IN
    /\ At("alias")
    /\ IF q.alias = "zone" /\ n \in Zones.hosted
       THEN ServeAlias("NOERROR", n \notin DOMAIN Zones.aliases) /\ UNCHANGED tasks
       ELSE IF ~resolver.on \/ ~HasPermit THEN ServeAlias("SERVFAIL", FALSE) /\ UNCHANGED tasks
       ELSE Goto("aliaswait") /\ Spawn
    /\ UNCHANGED <<settings, asked>>

AliasAnswers(out) ==
    /\ At("aliaswait")
    /\ TaskDone
    /\ CASE out.kind = "data" -> ServeAlias("NOERROR", TRUE)
         [] out.kind \in {"nxdomain", "nodata"} -> ServeAlias("NOERROR", FALSE)
         [] OTHER -> ServeAlias("SERVFAIL", FALSE)
    /\ UNCHANGED <<settings, asked>>

AliasTimeout == At("aliaswait") /\ ServeAlias("SERVFAIL", FALSE) /\ Same

\* Mutant of RecursionGate: the access list is read after the lookup is under way.
RecursionGateOpen ==
    /\ At("recursion")
    /\ IF ~resolver.on \/ ~HasPermit THEN Respond("none", "SERVFAIL", "error") /\ UNCHANGED tasks
       ELSE q' = [q EXCEPT !.stage = "wait", !.resolver = resolver] /\ Spawn
    /\ UNCHANGED <<settings, asked>>

\* The resolver is loaded once, then its access list and the admission limit.
RecursionGate ==
    /\ At("recursion")
    /\ IF ~AllowsClient(resolver, q.req.client, q.listenerOk)
       THEN Respond("none", "REFUSED", "error") /\ UNCHANGED tasks
       ELSE IF ~HasPermit THEN Respond("none", "SERVFAIL", "error") /\ UNCHANGED tasks
       ELSE q' = [q EXCEPT !.stage = "wait", !.resolver = resolver] /\ Spawn
    /\ UNCHANGED <<settings, asked>>

\* After a lookup: an answer goes to the inspections; NODATA for AAAA may be
\* answered by DNS64; anything else is an error or a negative answer.
Dns64Applies == q.req.type = "AAAA" /\ q.req.client \in config.dns64

AfterLookup(out) ==
    CASE out.kind = "data" -> q' = [q EXCEPT !.stage = "cname", !.found = out]
      [] out.kind = "nodata" /\ Dns64Applies -> q' = [q EXCEPT !.stage = "dns64", !.found = out]
      [] out.kind = "fail" -> Respond("none", "SERVFAIL", "error")
      [] OTHER -> Respond("none", IF out.kind = "nxdomain" THEN "NXDOMAIN" ELSE "NOERROR", "recursive")

LookupAnswers(out) ==
    /\ At("wait")
    /\ TaskDone
    /\ AfterLookup(out)
    /\ UNCHANGED <<settings, asked>>

\* Out of time: an expired cached answer, or SERVFAIL; the lookup carries on.
ClientTimeout(out) ==
    /\ At("wait")
    /\ out.kind \in {"data", "fail"}
    /\ AfterLookup([out EXCEPT !.stale = TRUE])
    /\ Same

\* A lookup nobody waits for any more ends and gives its permit back.
TaskEnds ==
    /\ tasks > (IF q.stage \in {"wait", "aliaswait", "dns64wait"} THEN 1 ELSE 0)
    /\ TaskDone
    /\ UNCHANGED <<settings, asked, q>>

(* ------------------------- inspecting the answer ------------------------ *)

\* Mutant of CnameBlock: the policy is loaded again.
CnameBlockReloaded(d) ==
    LET p == PolicyDecision(policy, plugin, d, "A") IN
    IF IsAllowlisted(policy, d) THEN Undecided
    ELSE IF p.action # "allow" THEN p ELSE GroupDecision(groups, d)

\* The first CNAME target that the policy snapshot, with what the plugin blocks by
\* now, or the groups block.
CnameBlock(d) ==
    LET p == PolicyDecision(q.policy, plugin, d, "A") IN
    IF IsAllowlisted(q.policy, d) THEN Undecided
    ELSE IF p.action # "allow" THEN p ELSE GroupDecision(groups, d)

InspectCnames ==
    LET chain == q.found.chain
        i == SelectInSeq(chain, LAMBDA d : CnameBlock(d).action # "allow")
    IN  /\ At("cname")
        /\ IF q.policy.cname /\ ~q.trusted /\ i # 0
           THEN ServeBlock(CnameBlock(chain[i]).action) ELSE Goto("rpzanswer")
        /\ Same

\* The name servers of a name are looked up under a permit: found, not found, or not
\* in time, and then the last lookup is left behind.
NameServersOf(ns) ==
    CASE ns = "found" -> HasPermit /\ UNCHANGED tasks
      [] ns = "none" -> UNCHANGED tasks
      [] ns = "late" -> HasPermit /\ Spawn

\* The RPZ snapshot's answer triggers.
RpzAnswer(ns) ==
    LET looked == ~q.rpzDone /\ ChecksAnswers(q.rpz)
        hit == IF looked THEN CheckAnswer(q.rpz, q.found.chain, q.found.local, ns = "found") ELSE NoHit
    IN  /\ At("rpzanswer")
        /\ IF looked /\ ChecksNameServers(q.rpz) THEN NameServersOf(ns) ELSE ns = "none" /\ UNCHANGED tasks
        /\ IF hit # NoHit /\ ~RpzLetsThrough(hit, q.req.proto) THEN ServeRpz(hit) ELSE Goto("filter")
        /\ UNCHANGED <<settings, asked>>

\* Names local by nature may have local addresses.
IsLocalName(n) == Len(n) = 1 \/ Last(n) \in config.localSuffixes

\* A CNAME target that is a known tracker under another registered domain.
DisguisedTracker(n, targets) ==
    LET domain(d) == SubSeq(d, Len(d) - 1, Len(d)) IN
    Len(n) > 1 /\ \E i \in DOMAIN targets : targets[i] \in config.trackers /\ domain(targets[i]) # domain(n)

\* What the client's groups and rebinding protection say of an answer.
FilterHit(filters) ==
    \/ /\ q.found.local /\ (config.rebinding \/ "local" \in filters)
       /\ ~IsLocalName(q.req.name)
    \/ q.found.big /\ "payload" \in filters
    \/ "tracker" \in filters /\ DisguisedTracker(q.req.name, q.found.chain)
    \/ "new" \in filters /\ q.req.name \in config.newDomains

\* Safe Browsing, for the groups that use it.
SafeBrowsingBlock(filters) == "threat" \in filters /\ q.req.name \in config.threats

\* The answer checks, unless the name is trusted or routed to the operator's own
\* servers.
FilterResponse ==
    LET filters == ResponseFilters(groups, q.req.client, q.req.name, Listener(q.req.proto), q.account)
        filtered == /\ ~q.trusted /\ q.req.name \notin q.resolver.routed
                    /\ FilterHit(filters) \/ SafeBrowsingBlock(filters)
    IN  /\ At("filter")
        /\ IF filtered THEN Respond("none", "NOERROR", "blocked") ELSE Goto("dns64")
        /\ Same

Recursive(data, chain) ==
    RespondWith([data |-> data, rcode |-> "NOERROR", chain |-> chain], Observed("recursive", "NOERROR"))

\* No AAAA in the answer: look up the A records and map them.
Dns64 ==
    /\ At("dns64")
    /\ IF Dns64Applies /\ ~q.found.aaaa /\ HasPermit
       THEN Goto("dns64wait") /\ Spawn
       ELSE Recursive(IF q.found.kind = "data" THEN "recursive" ELSE "none", q.found.chain) /\ UNCHANGED tasks
    /\ UNCHANGED <<settings, asked>>

Dns64Answers(out) ==
    /\ At("dns64wait")
    /\ TaskDone
    /\ IF out.kind = "data" THEN Recursive("synthesized", out.chain)
       ELSE Recursive(IF q.found.kind = "data" THEN "recursive" ELSE "none", q.found.chain)
    /\ UNCHANGED <<settings, asked>>

Dns64Timeout ==
    /\ At("dns64wait")
    /\ Recursive(IF q.found.kind = "data" THEN "recursive" ELSE "none", q.found.chain)
    /\ Same

(* ------------------------- settings are republished ---------------------- *)

Change == changes < MaxChanges /\ changes' = changes + 1 /\ UNCHANGED <<tasks, asked>>

\* A rebuilt engine is stored in place of the one in force.
PublishPolicy(p) ==
    /\ Change /\ p # policy /\ policy' = p
    /\ q' = [q EXCEPT !.seenPolicy = @ \cup {p}]
    /\ UNCHANGED <<plugin, groups, lists, rpz, resolver, config>>

\* The scanner's snapshots, its settings or the operator's exemptions are swapped:
\* the plugin that every policy shares blocks other names from now on.
PublishPlugin(a) ==
    /\ Change /\ a # plugin /\ plugin' = a
    /\ q' = [q EXCEPT !.seenPlugin = @ \cup {a}]
    /\ UNCHANGED <<policy, groups, lists, rpz, resolver, config>>

\* upsert_blocking_group takes a group whose accounts and blocklists there are.
GroupAccepted(g) == g.accounts \subseteq Range(config.accounts) /\ g.blocklists \subseteq DOMAIN lists

\* A group is saved, moved or deleted, and the engine rebuilt from all of them; one
\* saved before is not looked at again.
PublishGroups(gs) ==
    /\ \A i \in DOMAIN gs : gs[i] \in Range(groups) \/ GroupAccepted(gs[i])
    /\ Change /\ BuildGroups(gs) # groups /\ groups' = BuildGroups(gs)
    /\ q' = [q EXCEPT !.seenGroups = @ \cup {BuildGroups(gs)}]
    /\ UNCHANGED <<policy, plugin, lists, rpz, resolver, config>>

PublishRpz(zs) ==
    /\ Change /\ zs # rpz /\ rpz' = zs
    /\ UNCHANGED <<policy, plugin, groups, lists, resolver, config, q>>

SwapResolver(r) ==
    /\ Change /\ r # resolver /\ resolver' = r
    /\ q' = [q EXCEPT !.seenResolver = @ \cup {r}]
    /\ UNCHANGED <<policy, plugin, groups, lists, rpz, config>>

PublishConfig(c) ==
    /\ Change /\ c # config /\ config' = c
    /\ UNCHANGED <<policy, plugin, groups, lists, rpz, resolver, q>>

(* ----------------------------- specification ----------------------------- *)

QueryInit ==
    /\ policy = InitialSettings.policy /\ plugin = InitialSettings.plugin
    /\ groups = BuildGroups(InitialSettings.groups)
    /\ lists = InitialSettings.lists /\ rpz = InitialSettings.rpz
    /\ resolver = InitialSettings.resolver /\ config = InitialSettings.config
    /\ q = IdleQuery /\ tasks = 0 /\ asked = 0 /\ changes = 0

\* The steps of the query itself, its timers included.
QueryStep ==
    \/ Gates \/ Opcode \/ Ddr \/ EvaluatePolicy \/ EvaluateGroups \/ RpzQuery \/ SafeSearch
    \/ SplitHorizon \/ HandleTransfer \/ LocalZones \/ StartAlias \/ AliasTimeout \/ RecursionGate
    \/ \E out \in Outcomes : ClientTimeout(out)
    \/ InspectCnames \/ (\E ns \in {"found", "none", "late"} : RpzAnswer(ns)) \/ FilterResponse \/ Dns64 \/ Dns64Timeout

Republish ==
    \/ \E p \in PolicyChanges : PublishPolicy(p)
    \/ \E a \in PluginChanges : PublishPlugin(a)
    \/ \E gs \in GroupChanges : PublishGroups(gs)
    \/ \E zs \in RpzChanges : PublishRpz(zs)
    \/ \E r \in ResolverChanges : SwapResolver(r)
    \/ \E c \in ConfigChanges : PublishConfig(c)

QueryNext ==
    \/ \E r \in Requests : Arrive(r)
    \/ QueryStep
    \/ \E out \in Outcomes : AliasAnswers(out) \/ LookupAnswers(out) \/ Dns64Answers(out)
    \/ TaskEnds
    \/ Republish

QuerySpec == QueryInit /\ [][QueryNext]_queryVars

(* ------------------------------ properties ------------------------------- *)

\* The policy lets a name through, by what its plugin blocked at some moment of the
\* query's life.
PolicyAllows(p, d, t) == \E a \in q.seenPlugin : PolicyDecision(p, a, d, t).action = "allow"

\* A resolved answer agrees with ONE policy that was published during the query
\* (handle_request clones the engine out once): that policy lets through the name
\* asked and, with CNAME inspection on, every name the answer leads through.  What
\* the AI plugin blocks is no part of the snapshot: each name is judged by what it
\* blocked at some moment of the query, not all of them at the same.  (An AAAA that
\* DNS64 synthesizes from an A lookup is sent uninspected.)
OneSnapshot ==
    q.resp.data = "recursive" =>
      \E p \in q.seenPolicy :
        /\ PolicyAllows(p, q.req.name, q.req.type)
        /\ p.cname /\ ~IsAllowlisted(p, q.req.name) =>
             \A i \in 1..Len(q.resp.chain) :
                IsAllowlisted(p, q.resp.chain[i]) \/ PolicyAllows(p, q.resp.chain[i], "A")

\* A name that the groups blocked at every moment of the query's life, whatever was
\* republished meanwhile, is not resolved for the client unless it is allowlisted.
GroupsHold ==
    q.resp.data \in {"recursive", "safe", "synthesized"} /\ ~q.trusted =>
      \E gs \in q.seenGroups : GroupDecision(gs, q.req.name).action = "allow"

\* An allowlisted name a client may ask for is never answered by a block: not by a
\* group, a response policy zone, CNAME inspection or a response filter.
TrustedUntouched ==
    q.stage = "done" /\ q.trusted => \A i \in 1..Len(q.log) : q.log[i].outcome # "blocked"

\* Recursive data goes only to a client that a resolver in force during the query
\* gives recursion to, or that its encrypted listener lists.
NotOpenResolver ==
    q.resp.data \in {"recursive", "synthesized", "safe"} =>
      \E r \in q.seenResolver : AllowsClient(r, q.req.client, q.listenerOk)

\* A finished ordinary query is in the query log exactly once, with the response
\* code that was sent; transfers, updates and malformed requests are not logged.
LoggedOnce ==
    q.stage = "done" /\ q.req.op = "query" /\ q.req.type # "AXFR" /\ q.resp.rcode # "FORMERR" =>
      /\ Len(q.log) = 1
      /\ \/ q.log[1].rcode = q.resp.rcode
         \/ <<q.log[1].rcode, q.resp.rcode>> \in
               {<<"none", "NOERROR">>, <<"DROPPED", "none">>, <<"TRUNCATED", "TC">>}

\* What the policy tester says of the query: the group that stops a name which is
\* not allowlisted.
TestVerdict(r, account) ==
    IF IsAllowlisted(policy, r.name) THEN Undecided
    ELSE GroupEvaluate(groups, lists, r.client, r.name, Listener(r.proto), account)

\* The verdict of explain_blocking_as: the policy, then, for a name that is not
\* allowlisted, the groups and the response policy zones.
ExplainVerdict(r, account) ==
    LET d == PolicyDecision(policy, plugin, r.name, r.type)
        g == TestVerdict(r, account)
        hit == CheckQuery(rpz, r.client, r.name)
    IN  IF d.action # "allow" THEN d
        ELSE IF IsAllowlisted(policy, r.name) THEN Undecided
        ELSE IF g.action # "allow" THEN g
        ELSE IF hit \notin {NoHit, "passthru"} THEN Decide(hit, "rpz") ELSE Undecided

\* What is published has not changed since the query met it.
Unchanged == policy = q.policy /\ rpz = q.rpz /\ q.seenPlugin = {plugin} /\ q.seenGroups = {groups}

\* The console's explanation names the decision that is really taken, by the policy
\* (with what its plugin blocks now) and by the groups, for whatever client, name
\* and listener a query comes from and whatever has been published by then; and a
\* query that has passed all the filters is one its verdict lets through (it takes
\* the query to come over UDP).
ExplainAgrees ==
    /\ At("safe") /\ Unchanged =>
          LET verdict == ExplainVerdict(q.req, q.account).action
          IN  verdict = "allow" \/ RpzLetsThrough(verdict, q.req.proto)
    /\ At("gates") /\ q.req.op = "query" =>
      LET r == q.req
          l == Listener(r.proto)
          e == EvaluateOn(policy, plugin[r.client], r.client, r.name, r.type, l)
          x == Explain(policy, plugin[r.client], r.client, r.name, r.type, l)
          g == GroupEvaluate(groups, lists, r.client, r.name, l, q.account)
          y == GroupExplain(groups, lists, r.client, r.name, l, q.account)
      IN  /\ IF Decisive(x) = 0 THEN e = Undecided
             ELSE e.source = x[Decisive(x)].source
                  /\ (e.action = "allow") = (x[Decisive(x)].result = "allow")
          /\ IF Decisive(y) = 0 \/ (Decisive(y) # 0 /\ y[Decisive(y)].result = "allow")
             THEN g = Undecided ELSE g.source = y[Decisive(y)].source
=============================================================================
