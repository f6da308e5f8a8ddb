---------------------------- MODULE MCQueryPath ----------------------------
(* A small instance of QueryPath: a home network with an IPv4 client, an IPv6 *)
(* client and one from outside, a hosted zone with an ALIAS, a blocklist, two *)
(* groups and one response policy zone.                                       *)
EXTENDS QueryPath

Site == <<"www", "shop", "com">>
Tracker == <<"t", "ads", "net">>
Home == <<"home", "lan">>
Search == <<"google", "com">>
Loop == <<"loop", "lan">>

Plain(n) == [except |-> FALSE, wild |-> FALSE, name |-> n]
Wild(n) == [except |-> FALSE, wild |-> TRUE, name |-> n]
Except(n) == [except |-> TRUE, wild |-> FALSE, name |-> n]
Ads == FromSet({Wild(<<"ads", "net">>)})
Shop == FromSet({Wild(<<"shop", "com">>)})

MCClients == {"lan", "six", "wan"}
MCV4 == {"lan", "wan"}

BasePolicy ==
    [enabled |-> TRUE, denied |-> {}, allowed |-> {}, allow |-> EmptyList, block |-> EmptyList,
     remote |-> EmptyList, dot |-> EmptyList, rules |-> <<>>, aaaa |-> FALSE, aaaaBypass |-> EmptyList,
     cname |-> TRUE, safe |-> FALSE]

Rule(clients, domains, action) == [clients |-> clients, domains |-> domains, action |-> action]

MCPolicies ==
    {BasePolicy,
     [BasePolicy EXCEPT !.remote = FromSet({Plain(Site)})],
     [BasePolicy EXCEPT !.block = Shop, !.allow = FromSet({Plain(Site)})],
     [BasePolicy EXCEPT !.remote = FromSet({Wild(<<"shop", "com">>), Except(Site)}), !.dot = Ads],
     [BasePolicy EXCEPT !.rules = <<Rule({"lan"}, Ads, "redirect"), Rule({}, EmptyList, "nodata")>>],
     [BasePolicy EXCEPT !.denied = {"wan"}, !.aaaa = TRUE, !.aaaaBypass = Ads, !.safe = TRUE],
     [BasePolicy EXCEPT !.allowed = {"lan", "six"}, !.block = FromSet({Plain(Search)})]}

\* What the AI plugin may block: nothing, or a tracker, or one client's sites.
MCPlugins ==
    {[c \in MCClients |-> {Tracker}],
     [c \in MCClients |-> IF c = "lan" THEN {Site, Search} ELSE {}]}

BaseGroup ==
    [enabled |-> TRUE, awake |-> TRUE, clients |-> {}, listeners |-> {}, accounts |-> {},
     allow |-> EmptyList, block |-> EmptyList, services |-> EmptyList, feeds |-> EmptyList,
     tlds |-> EmptyList, blocklists |-> {}, action |-> "block", safe |-> FALSE, filters |-> {}]

MCGroups ==
    {<<>>,
     <<[BaseGroup EXCEPT !.clients = {"lan"}, !.block = Shop], [BaseGroup EXCEPT !.services = Ads]>>,
     <<[BaseGroup EXCEPT !.allow = Shop, !.filters = {"local"}],
       [BaseGroup EXCEPT !.tlds = FromSet({Wild(<<"com">>)}), !.action = "refused"]>>,
     <<[BaseGroup EXCEPT !.listeners = {"dot"}, !.blocklists = {"src"}, !.filters = {"local", "threat", "payload"}],
       [BaseGroup EXCEPT !.enabled = FALSE, !.block = Ads],
       [BaseGroup EXCEPT !.awake = FALSE, !.feeds = Shop]>>,
     <<[BaseGroup EXCEPT !.safe = TRUE, !.filters = {"local", "tracker", "new"}], [BaseGroup EXCEPT !.accounts = {"kid"}, !.feeds = Ads]>>}

NoNames == [n \in {} |-> "x"]
BaseZone ==
    [policy |-> "given", clientIp |-> NoNames, exact |-> NoNames, wild |-> NoNames,
     answerIp |-> NoHit, nsName |-> NoHit]

MCRpz ==
    {<<>>,
     <<[BaseZone EXCEPT !.wild = [n \in {<<"ads", "net">>} |-> "nxdomain"], !.policy = "disabled"],
       [BaseZone EXCEPT !.exact = [n \in {Site} |-> "passthru"], !.answerIp = "drop"]>>,
     <<[BaseZone EXCEPT !.clientIp = [c \in {"wan"} |-> "tcponly"], !.wild = [n \in {<<"ads", "net">>} |-> "garden"]]>>,
     <<[BaseZone EXCEPT !.nsName = "nodata", !.exact = [n \in {Tracker} |-> "given"]]>>}

MCResolvers ==
    {[on |-> TRUE, access |-> {"lan", "six"}, routed |-> {}],
     [on |-> TRUE, access |-> {"lan"}, routed |-> {Site}],
     [on |-> FALSE, access |-> {}, routed |-> {}]}

BaseConfig ==
    [limit |-> 1, listenerNets |-> {}, accountsRequired |-> FALSE, notifyIn |-> TRUE, ddr |-> TRUE,
     page |-> "off", axfrOn |-> TRUE, axfr |-> {"lan"}, dns64 |-> {}, rebinding |-> FALSE, threats |-> {Site},
     accounts |-> [i \in {"k1"} |-> "kid"], encrypted |-> [l \in {"dot"} |-> <<"dns", "lan">>],
     empty |-> {<<"10", "in-addr", "arpa">>}, localSuffixes |-> {"lan"}, trackers |-> {Tracker}, newDomains |-> {Search}]

MCConfigs ==
    {BaseConfig,
     [BaseConfig EXCEPT !.page = "v4", !.listenerNets = {"wan"}, !.limit = 2, !.axfrOn = FALSE,
                        !.accounts = [i \in {} |-> "kid"]],
     [BaseConfig EXCEPT !.page = "both", !.accountsRequired = TRUE, !.notifyIn = FALSE, !.rebinding = TRUE],
     [BaseConfig EXCEPT !.page = "v6", !.dns64 = {"six", "lan"}, !.limit = 2, !.ddr = FALSE, !.axfr = {}]}

Out(kind, chain, local, aaaa) ==
    [kind |-> kind, chain |-> chain, local |-> local, big |-> kind = "data" /\ chain # <<>>, aaaa |-> aaaa, stale |-> FALSE]

MCOutcomes ==
    {Out("data", <<>>, FALSE, TRUE), Out("data", <<Tracker>>, FALSE, FALSE), Out("data", <<>>, TRUE, TRUE),
     Out("nodata", <<>>, FALSE, FALSE), Out("nxdomain", <<>>, FALSE, FALSE), Out("fail", <<>>, FALSE, FALSE)}

Sig(key, timely) == [key |-> key, good |-> TRUE, timely |-> timely]
Req(client, proto, name, type) ==
    [op |-> "query", client |-> client, proto |-> proto, name |-> name, type |-> type,
     id |-> "none", cookie |-> "absent", rate |-> "ok", sig |-> Sig("none", FALSE)]

ReverseName(i) == <<i, "10", "in-addr", "arpa">>

MCRequests ==
    {Req("lan", "udp", Site, "A"), Req("six", "udp", Site, "AAAA"), Req("wan", "dot", Site, "A"),
     Req("lan", "udp", Tracker, "A"), Req("six", "dot", Tracker, "HTTPS"), Req("wan", "udp", Home, "A"),
     Req("lan", "udp", Search, "A"), Req("lan", "udp", Search, "CNAME"), Req("lan", "tcp", Loop, "A"),
     Req("lan", "udp", Search, "HTTPS"), Req("lan", "udp", <<"_dns", "resolver", "arpa">>, "SVCB"),
     Req("wan", "dot", <<"_dns", "dns", "lan">>, "SVCB"), Req("lan", "udp", <<"x", "resolver", "arpa">>, "A"),
     Req("lan", "udp", ReverseName("1"), "PTR"), Req("wan", "udp", ReverseName("2"), "PTR"),
     Req("lan", "udp", <<"10", "in-addr", "arpa">>, "SOA"), Req("six", "udp", <<"a", "shop", "com">>, "TXT"),
     Req("wan", "tcp", Home, "AXFR"), Req("lan", "tcp", Home, "AXFR"), Req("lan", "udp", Home, "TXT"),
     Req("six", "udp", Tracker, "AAAA"), Req("lan", "udp", <<"lb", "lan">>, "A"),
     [Req("lan", "tcp", Home, "AXFR") EXCEPT !.sig = Sig("key", TRUE)],
     [Req("lan", "tcp", Home, "AXFR") EXCEPT !.sig = Sig("key", FALSE)],
     [Req("six", "dot", Site, "A") EXCEPT !.id = "k1"],
     [Req("lan", "udp", Site, "A") EXCEPT !.cookie = "malformed"],
     [Req("lan", "udp", Site, "A") EXCEPT !.rate = "client"],
     [Req("lan", "udp", Site, "A") EXCEPT !.rate = "domain"],
     [Req("lan", "udp", Site, "A") EXCEPT !.op = "update"],
     [Req("lan", "udp", Site, "A") EXCEPT !.op = "notify"],
     [Req("lan", "udp", Site, "A") EXCEPT !.op = "malformed"]}

MCZones ==
    [hosted |-> {Home, Loop}, aliases |-> (Loop :> Loop) @@ (Home :> Site), weighted |-> {<<"lb", "lan">>},
     ptr |-> [addresses |-> {ReverseName("1"), ReverseName("2")}, own |-> {ReverseName("2")}, rules |-> {<<"10", "in-addr", "arpa">>}],
     split |-> {[domain |-> Home, clients |-> {"six"}, types |-> {"A"}],
                [domain |-> <<"*", "shop", "com">>, clients |-> {"six"}, types |-> {"CNAME"}]},
     search |-> {Search}, tsig |-> [keys |-> {"key", "other"}, of |-> (Home :> "key")]]

MCSettings ==
    [policy |-> [BasePolicy EXCEPT !.block = Ads], plugin |-> [c \in MCClients |-> {}], groups |-> <<>>, lists |-> [s \in {"src"} |-> Ads], rpz |-> <<>>,
     resolver |-> [on |-> TRUE, access |-> {"lan", "six"}, routed |-> {}], config |-> BaseConfig]
=============================================================================
