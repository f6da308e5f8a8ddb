----------------------------- MODULE MCUpkeep -----------------------------
(* One instance each of the resolver's cache and of the background jobs,      *)
(* which share no state at this level of detail: DNSSEC maintenance, catalog  *)
(* zones, health checks, blocklist feeds, self-update, ACME, the query logs,  *)
(* the local root zone, response policy zones, Safe Browsing and backups.     *)
(* `part`, chosen at the start, says which of them takes steps, so that the   *)
(* state space is the sum and not the product of theirs.                      *)
EXTENDS MCResolverCache, DnssecRollover, CatalogMembers, HealthFailover, BlocklistFeeds,
        SelfUpdate, AcmeCerts, QueryLogs, RootCopy, PolicyZones, SafeBrowsing, BackupRestore, TLC

\* The resolver's settings below are ones AnswersStayInScopeCorrect speaks of.
ASSUME UpkeepRoutes == RoutesKept

(* Blocklists: two sources and four lists of them, in each format. *)
Line(shape, name) ==
    [shape |-> shape, name |-> name, wild |-> FALSE, dotted |-> TRUE, odd |-> FALSE,
     below |-> FALSE, except |-> FALSE, action |-> "block"]
AdBody ==
    {[Line("rule", "ads") EXCEPT !.below = TRUE], [Line("rule", "shop") EXCEPT !.except = TRUE],
     [Line("rule", "cdn") EXCEPT !.odd = TRUE], Line("cosmetic", "page")}
HostBody == {Line("host", "ads"), [Line("host", "localhost") EXCEPT !.dotted = FALSE]}
RpzBody == {Line("trigger", "bad"), [Line("trigger", "fine") EXCEPT !.action = "passthru"], Line("trigger", "fine")}
FeedBodies ==
    ("u" :> {AdBody}) @@ ("v" :> {HostBody, {}}) @@ ("w" :> {RpzBody}) @@ ("x" :> {{Line("name", "list")}})

FeedSource(name, url, format, scope) ==
    [name |-> name, url |-> url, format |-> format, on |-> TRUE, scope |-> scope]
AdFeed == FeedSource("ads", "u", "adblock", "everyone")
FeedLists ==
    {<<AdFeed>>, <<[AdFeed EXCEPT !.on = FALSE]>>,
     <<FeedSource("ads", "v", "hosts", "groups"), FeedSource("rpz", "w", "rpz", "dot")>>,
     <<FeedSource("rpz", "w", "rpz", "everyone"), AdFeed>>}

(* ACME: the console's certificate by HTTP, the DoT one by DNS for two names. *)
CertChallenges == ("web" :> "http") @@ ("dot" :> "dns")
CertNames == ("web" :> {"www"}) @@ ("dot" :> {"apex", "wild"})

(* The root zone: two genuine versions, one altered on the way, and one made  *)
(* and signed by somebody else.                                               *)
GenuineRoot(n) ==
    [serial |-> n, soa |-> TRUE, body |-> n, keys |-> {"ksk"}, signer |-> "ksk", from |-> 0, until |-> 9,
     md |-> [supported |-> TRUE, serial |-> n, digest |-> <<n, n>>],
     apex |-> {"NS"}, tlds |-> ("org" :> TRUE) @@ ("test" :> FALSE), genuine |-> TRUE]
RootVersions ==
    {GenuineRoot(1), GenuineRoot(2),
     [GenuineRoot(2) EXCEPT !.body = 3, !.genuine = FALSE, !.tlds = "org" :> FALSE],
     [GenuineRoot(2) EXCEPT !.body = 4, !.md.digest = <<2, 4>>, !.keys = {"other"}, !.signer = "other", !.genuine = FALSE]}
RootServers == <<"lag", "main">>
RootQuestions == {[tld |-> ".", type |-> "NS", below |-> FALSE], [tld |-> "nope", type |-> "NS", below |-> FALSE],
                  [tld |-> "org", type |-> "DS", below |-> FALSE], [tld |-> "org", type |-> "DS", below |-> TRUE]}

(* Response policy zones: a text typed in, a URL and a primary whose serial wraps. *)
PolicyRecord(kind, name, parses, target) == [trigger |-> [kind |-> kind, name |-> name, parses |-> parses], target |-> target]
PolicyBody(serial, records) == [serial |-> serial, parses |-> TRUE, complete |-> TRUE, records |-> records]
PolicyBodies ==
    ("typed" :> {PolicyBody(0, {PolicyRecord("qname", "bad", TRUE, "."), PolicyRecord("qname", "*", TRUE, ".")})})
    @@ ("url" :> {PolicyBody(0, {PolicyRecord("rpz-ip", "net", FALSE, "*."), PolicyRecord("qname", "ok", TRUE, "ok")}),
                  [PolicyBody(0, {}) EXCEPT !.parses = FALSE]})
    @@ ("primary" :> {PolicyBody(7, {PolicyRecord("rpz-nsdname", "ns", TRUE, "data")}),
                      PolicyBody(1, {PolicyRecord("rpz-nsdname", "ns", TRUE, "rpz-drop"), PolicyRecord("rpz-later", "x", TRUE, ".")}),
                      [PolicyBody(1, {}) EXCEPT !.complete = FALSE]})
PolicyZone(name, source, place) == [name |-> name, source |-> source, place |-> place, on |-> TRUE, policy |-> "given"]
PolicyLists ==
    {<<PolicyZone("a", "url", "url"), PolicyZone("b", "transfer", "primary")>>,
     <<PolicyZone("a", "transfer", "primary")>>,
     <<PolicyZone("b", "transfer", "primary"), [PolicyZone("a", "local", "typed") EXCEPT !.policy = "nxdomain"]>>,
     <<[PolicyZone("a", "url", "url") EXCEPT !.on = FALSE]>>}

(* Safe Browsing: `site` and `twin` have hashes with the same prefix. *)
ThreatVersions == ("malware" :> <<{"bad", "worse"}, {"worse", "newer"}, {"bad"}>>) @@ ("phishing" :> <<{"fake"}>>)
ThreatHashes == ("site" :> {"bad", "parent"}) @@ ("twin" :> {"clean"}) @@ ("shop" :> {"fake"})
ThreatPrefixes == ("bad" :> 2) @@ ("clean" :> 2) @@ ("parent" :> 5) @@ ("worse" :> 3) @@ ("newer" :> 1) @@ ("fake" :> 4)

(* Self-update: a host that has all it needs, one nobody can tell the room of, *)
(* one without the update service and one that is not installed.              *)
Host == [installed |-> TRUE, tools |-> TRUE, unit |-> TRUE, staging |-> TRUE, space |-> "enough", models |-> TRUE,
         network |-> TRUE]
Hosts == {Host, [Host EXCEPT !.space = "unknown", !.network = FALSE], [Host EXCEPT !.unit = FALSE],
          [Host EXCEPT !.installed = FALSE]}

(* Backups: a file that is none. *)
NoBackup == {[v |-> 9, ai |-> 9, state |-> "foreign"]}

VARIABLE part

UpkeepInit ==
    /\ part \in {"cache", "dnssec", "catalog", "health", "feeds", "update", "acme", "logs", "root", "zones", "threats", "backup"}
    /\ RcInit /\ DkInit /\ CmInit /\ HfInit /\ BfInit /\ SuInit /\ AcInit /\ QlInit /\ RzInit /\ PzInit /\ SbInit /\ BrInit
    /\ part = "health" \/ hfChecks = HfRecords
    /\ part = "update" \/ suGood
    /\ part = "logs" \/ qlSink = "file"
    /\ part = "zones" \/ \A p \in Places : pzHas[p] = CHOOSE body \in PzBodies[p] : TRUE

UpkeepNext ==
    /\ UNCHANGED part
    /\ \/ part = "cache" /\ RcNext /\ UNCHANGED <<dkVars, cmVars, hfVars, bfVars, suVars, acVars, qlVars, rzVars, pzVars, sbVars, brVars>>
       \/ part = "dnssec" /\ DkNext /\ UNCHANGED <<rcVars, cmVars, hfVars, bfVars, suVars, acVars, qlVars, rzVars, pzVars, sbVars, brVars>>
       \/ part = "catalog" /\ CmNext /\ UNCHANGED <<rcVars, dkVars, hfVars, bfVars, suVars, acVars, qlVars, rzVars, pzVars, sbVars, brVars>>
       \/ part = "health" /\ HfNext /\ UNCHANGED <<rcVars, dkVars, cmVars, bfVars, suVars, acVars, qlVars, rzVars, pzVars, sbVars, brVars>>
       \/ part = "feeds" /\ BfNext /\ UNCHANGED <<rcVars, dkVars, cmVars, hfVars, suVars, acVars, qlVars, rzVars, pzVars, sbVars, brVars>>
       \/ part = "update" /\ SuNext /\ UNCHANGED <<rcVars, dkVars, cmVars, hfVars, bfVars, acVars, qlVars, rzVars, pzVars, sbVars, brVars>>
       \/ part = "acme" /\ AcNext /\ UNCHANGED <<rcVars, dkVars, cmVars, hfVars, bfVars, suVars, qlVars, rzVars, pzVars, sbVars, brVars>>
       \/ part = "logs" /\ QlNext /\ UNCHANGED <<rcVars, dkVars, cmVars, hfVars, bfVars, suVars, acVars, rzVars, pzVars, sbVars, brVars>>
       \/ part = "root" /\ RzNext /\ UNCHANGED <<rcVars, dkVars, cmVars, hfVars, bfVars, suVars, acVars, qlVars, pzVars, sbVars, brVars>>
       \/ part = "zones" /\ PzNext /\ UNCHANGED <<rcVars, dkVars, cmVars, hfVars, bfVars, suVars, acVars, qlVars, rzVars, sbVars, brVars>>
       \/ part = "threats" /\ SbNext /\ UNCHANGED <<rcVars, dkVars, cmVars, hfVars, bfVars, suVars, acVars, qlVars, rzVars, pzVars, brVars>>
       \/ part = "backup" /\ BrNext /\ UNCHANGED <<rcVars, dkVars, cmVars, hfVars, bfVars, suVars, acVars, qlVars, rzVars, pzVars, sbVars>>

UpkeepSpec ==
    UpkeepInit /\ [][UpkeepNext]_<<part, rcVars, dkVars, cmVars, hfVars, bfVars, suVars, acVars, qlVars, rzVars, pzVars, sbVars, brVars>>
=============================================================================
