---------------------------- MODULE PolicyRules ----------------------------
(* The decisions of the filtering engine as functions of the published       *)
(* settings: the base policy (engine.rs), the filtering groups (advanced.rs) *)
(* and the response policy zones (rpz.rs), each with the "explain" view the   *)
(* console shows for it.  A domain name is the sequence of its labels, the    *)
(* leftmost first; a client network is the set of the clients it contains.   *)
EXTENDS Naturals, Sequences, FiniteSets, SequencesExt

CONSTANTS
    Clients,      \* the client addresses
    V4Clients     \* those of them that 0.0.0.0/0 contains: the IPv4 ones

ASSUME V4ClientsAssumption == V4Clients \subseteq Clients

(* ---------------------------- domain lists ------------------------------ *)

\* The proper parents of a name, nearest first by position.
ParentAt(d, i) == SubSeq(d, i, Len(d))

ParentMatches(suffixes, d) == {i \in 2..Len(d) : ParentAt(d, i) \in suffixes}

\* A list made of entries [except, wild, name]: `@@` marks an exception, `*.`
\* a suffix.
FromSet(entries) ==
    LET of(x, w) == {e.name : e \in {f \in entries : f.except = x /\ f.wild = w}}
    IN  [exact |-> of(FALSE, FALSE), suffixes |-> of(FALSE, TRUE),
         exceptExact |-> of(TRUE, FALSE), exceptSuffixes |-> of(TRUE, TRUE)]

EmptyList == FromSet({})

ListEmpty(list) == list.exact = {} /\ list.suffixes = {}

Listed(list, d) ==
    /\ d \in list.exact \/ ParentMatches(list.suffixes, d) # {}
    /\ ~(d \in list.exceptExact \/ ParentMatches(list.exceptSuffixes, d) # {})

\* The entry that lists d, if any: d itself before the nearest listed parent.
MatchingEntry(list, d) ==
    IF ~Listed(list, d) THEN {}
    ELSE IF d \in list.exact THEN {d}
    ELSE {ParentAt(d, i) : i \in {j \in ParentMatches(list.suffixes, d) :
                                  \A k \in ParentMatches(list.suffixes, d) : j <= k}}

(* ----------------------------- base policy ------------------------------ *)

Decide(action, source) == [action |-> action, source |-> source]
Undecided == Decide("allow", "none")

AclAllowed(p, c) == c \notin p.denied /\ (p.allowed = {} \/ c \in p.allowed)

\* An empty client list is compiled to the one network 0.0.0.0/0.
RuleClients(r) == IF r.clients = {} THEN V4Clients ELSE r.clients
RuleMatches(r, c, d) ==
    /\ c \in RuleClients(r)
    /\ ListEmpty(r.domains) \/ Listed(r.domains, d)

FirstRule(p, c, d) == SelectInSeq(p.rules, LAMBDA r : RuleMatches(r, c, d))

AaaaFiltered(p, d, t) == p.aaaa /\ t = "AAAA" /\ ~Listed(p.aaaaBypass, d)

IsAllowlisted(p, d) == Listed(p.allow, d)

\* The checks in order; the first that applies decides.  `ai` holds the names that
\* the plugin (the AI blocker) blocks for this client at this moment: every policy
\* shares the one plugin, which reads its own state at each evaluation.
EvaluateWith(p, ai, c, d, t, l) ==
    IF ~AclAllowed(p, c) THEN Decide("refused", "denied_network")
    ELSE IF MatchingEntry(p.allow, d) # {} THEN Decide("allow", "allowlist")
    ELSE IF MatchingEntry(p.block, d) # {} THEN Decide("block", "blocklist")
    ELSE IF Listed(p.remote, d) THEN Decide("block", "blocklist_source")
    ELSE IF l = "dot" /\ Listed(p.dot, d) THEN Decide("block", "blocklist_source")
    ELSE IF FirstRule(p, c, d) # 0 THEN Decide(p.rules[FirstRule(p, c, d)].action, "client_rule")
    ELSE IF AaaaFiltered(p, d, t) THEN Decide("nodata", "aaaa_filter")
    ELSE IF d \in ai THEN Decide("block", "ai")
    ELSE Undecided

EvaluateOn(p, ai, c, d, t, l) ==
    IF ~p.enabled THEN Undecided ELSE EvaluateWith(p, ai, c, d, t, l)

\* What the console's explain shows: one check per rule that is configured.
Check(source, result) == <<[source |-> source, result |-> result]>>

ListCheck(list, d, source, found) ==
    IF ListEmpty(list) THEN <<>>
    ELSE Check(source, IF Listed(list, d) THEN found ELSE "none")

ExplainRules(p, c, d) ==
    LET shown(r) == IF RuleMatches(r, c, d)
                    THEN Check("client_rule", IF r.action = "allow" THEN "allow" ELSE "block") ELSE <<>>
    IN  FlattenSeq([i \in 1..Len(p.rules) |-> shown(p.rules[i])])

\* Mutant of AaaaCheck: the bypass list is forgotten.
AaaaCheckNoBypass(p, d, t) ==
    IF p.aaaa /\ t = "AAAA" THEN Check("aaaa_filter", "block") ELSE <<>>

AaaaCheck(p, d, t) ==
    IF p.aaaa /\ t = "AAAA"
    THEN Check("aaaa_filter", IF AaaaFiltered(p, d, t) THEN "block" ELSE "none") ELSE <<>>

Explain(p, ai, c, d, t, l) ==
    IF ~p.enabled THEN Check("blocklist", "off")
    ELSE Check("denied_network", IF AclAllowed(p, c) THEN "none" ELSE "block")
         \o ListCheck(p.allow, d, "allowlist", "allow")
         \o ListCheck(p.block, d, "blocklist", "block")
         \o ListCheck(p.remote, d, "blocklist_source", "block")
         \o (IF l = "dot" THEN ListCheck(p.dot, d, "blocklist_source", "block") ELSE <<>>)
         \o ExplainRules(p, c, d)
         \o AaaaCheck(p, d, t)
         \o (IF ai = {} THEN <<>> ELSE Check("ai", IF d \in ai THEN "block" ELSE "none"))

(* --------------------------- filtering groups --------------------------- *)

\* A group with no client, listener or account entry is for everyone.
MatchesClient(g, c, l, acct) ==
    \/ g.clients = {} /\ g.listeners = {} /\ g.accounts = {}
    \/ c \in g.clients
    \/ l \in g.listeners
    \/ acct \in g.accounts

\* g.awake: one of its schedule's windows is open now, or it has no schedule.
Applies(g, c, l, acct) == MatchesClient(g, c, l, acct) /\ g.awake

Allows(g, d) == Listed(g.allow, d)

\* What in the group blocks d: its own list, a blocked service, a category's
\* feed, a top-level domain, or a shared blocklist it selects.
Found(g, lists, d) ==
    IF MatchingEntry(g.block, d) # {} THEN "group"
    ELSE IF Listed(g.services, d) THEN "service"
    ELSE IF Listed(g.feeds, d) THEN "security"
    ELSE IF Listed(g.tlds, d) THEN "tld"
    ELSE IF \E s \in g.blocklists : Listed(lists[s], d) THEN "group_blocklist"
    ELSE "none"

\* Disabled groups are left out when the groups are built.
BuildGroups(gs) == SelectSeq(gs, LAMBDA g : g.enabled)

\* The first group that applies and either allows or blocks the name decides;
\* a name it allows is not blocked by a later group.
GroupEvaluate(gs, lists, c, d, l, acct) ==
    LET i == SelectInSeq(gs, LAMBDA g : Applies(g, c, l, acct)
                                        /\ (Allows(g, d) \/ Found(g, lists, d) # "none"))
    IN  IF i = 0 \/ (i # 0 /\ Allows(gs[i], d)) THEN Undecided
        ELSE Decide(gs[i].action, Found(gs[i], lists, d))

FirstGroup(gs, c, l, acct) == SelectInSeq(gs, LAMBDA g : Applies(g, c, l, acct))

GroupSafeSearch(gs, c, l, acct) ==
    LET i == FirstGroup(gs, c, l, acct) IN i # 0 /\ gs[i].safe

\* The answer checks in force for d: those of the applying groups before the
\* first that allows d.
ResponseFilters(gs, c, d, l, acct) ==
    LET stop == SelectInSeq(gs, LAMBDA g : Applies(g, c, l, acct) /\ Allows(g, d))
        upto == IF stop = 0 THEN Len(gs) ELSE stop - 1
    IN  UNION {gs[i].filters : i \in {j \in 1..upto : Applies(gs[j], c, l, acct)}}

BlockCheck(blocks, source) == IF blocks THEN Check(source, "block") ELSE <<>>

ExplainGroup(g, lists, d) ==
    LET shown == (IF Allows(g, d) THEN Check("group", "allow") ELSE <<>>)
                 \o BlockCheck(Listed(g.block, d), "group")
                 \o BlockCheck(Listed(g.services, d), "service")
                 \o BlockCheck(Listed(g.feeds, d), "security")
                 \o BlockCheck(Listed(g.tlds, d), "tld")
                 \o BlockCheck(\E s \in g.blocklists : Listed(lists[s], d), "group_blocklist")
    IN  IF shown = <<>> THEN Check("group", "none") ELSE shown

GroupExplain(gs, lists, c, d, l, acct) ==
    LET shown(g) == IF ~MatchesClient(g, c, l, acct) THEN <<>>
                    ELSE IF ~g.awake THEN Check("group", "off")
                    ELSE ExplainGroup(g, lists, d)
    IN  FlattenSeq([i \in 1..Len(gs) |-> shown(gs[i])])

\* The check the console reader takes as the decision: the first that allows or
\* blocks.
Decisive(checks) == SelectInSeq(checks, LAMBDA x : x.result \in {"allow", "block"})

(* ------------------------- response policy zones ------------------------ *)

NoHit == "none"

\* Exact names first, then the nearest wildcard: [exact, wild] are functions
\* from names to actions.
MatchName(exact, wild, d) ==
    IF d \in DOMAIN exact THEN exact[d]
    ELSE IF ParentMatches(DOMAIN wild, d) = {} THEN NoHit
    ELSE wild[ParentAt(d, CHOOSE i \in ParentMatches(DOMAIN wild, d) :
                              \A j \in ParentMatches(DOMAIN wild, d) : i <= j)]

\* What the zone's policy makes of a trigger's action.
ApplyZonePolicy(z, action) ==
    IF action = NoHit \/ z.policy = "disabled" THEN NoHit
    ELSE IF z.policy = "given" THEN action ELSE z.policy

OrElse(a, b) == IF a # NoHit THEN a ELSE b

\* The action of the first zone (in order) whose verdict is not "none".
FirstZone(zs, Verdict(_)) ==
    LET i == SelectInSeq(zs, LAMBDA z : Verdict(z) # NoHit)
    IN  IF i = 0 THEN NoHit ELSE Verdict(zs[i])

CheckQuery(zs, c, d) ==
    FirstZone(zs, LAMBDA z : ApplyZonePolicy(z,
        OrElse(IF c \in DOMAIN z.clientIp THEN z.clientIp[c] ELSE NoHit,
               MatchName(z.exact, z.wild, d))))

\* The first name of a sequence that a trigger matches.
FirstName(z, names) ==
    LET i == SelectInSeq(names, LAMBDA n : MatchName(z.exact, z.wild, n) # NoHit)
    IN  IF i = 0 THEN NoHit ELSE MatchName(z.exact, z.wild, names[i])

\* CNAME targets, then answer addresses (`local`: the answer holds one of the
\* addresses of a response-IP trigger), then the domain's name servers.
CheckAnswer(zs, names, local, ns) ==
    FirstZone(zs, LAMBDA z : ApplyZonePolicy(z,
        OrElse(FirstName(z, names),
               OrElse(IF local THEN z.answerIp ELSE NoHit,
                      IF ns THEN z.nsName ELSE NoHit))))

ChecksNameServers(zs) == \E i \in 1..Len(zs) : zs[i].nsName # NoHit
ChecksAnswers(zs) ==
    \E i \in 1..Len(zs) : \/ DOMAIN zs[i].exact # {} \/ DOMAIN zs[i].wild # {}
                          \/ zs[i].answerIp # NoHit \/ zs[i].nsName # NoHit

\* PASSTHRU, and TCP-only over anything but UDP, let the query go on.
RpzLetsThrough(action, proto) == action = "passthru" \/ (action = "tcponly" /\ proto # "udp")
=============================================================================
