--------------------------- MODULE QueryPathProofs --------------------------
(***************************************************************************)
(* Proofs about QueryPath: what a client is sent agrees with what was      *)
(* published while its query was handled, for every set of requests,       *)
(* policies, groups, response policy zones, resolvers and configurations,  *)
(* however often they are republished in the middle of a query.            *)
(*                                                                         *)
(* The invariant says for each stage what has been established by then and *)
(* with which of the published values (Path); a step either goes on to a   *)
(* stage of which it establishes that (Onward, Moves) or ends the query    *)
(* with a response that what is known justifies (Ends).                    *)
(*                                                                         *)
(* The console's explanation is a sequence of checks, put together from    *)
(* one or more for each rule; which of them decides is found part by part  *)
(* (Joined, FlattenedFirst) and is the one the engine stops at.            *)
(***************************************************************************)
EXTENDS QueryPath, WellFoundedInduction, TLAPS

\* The fields of a query.
Fields == {"stage", "req", "account", "listenerOk", "policy", "trusted", "rpz", "rpzDone", "resolver",
           "found", "alias", "resp", "log", "seenPolicy", "seenPlugin", "seenGroups", "seenResolver"}

\* The stages: before the policy, after it, after the groups, after the response policy
\* zones, from the lookup on, and from the inspection of its answer on.
Early     == {"idle", "gates", "opcode", "ddr", "policy"}
Inspected == {"rpzanswer", "filter", "dns64", "dns64wait"}
Looked    == {"wait", "cname"} \cup Inspected
Aliased   == {"alias", "aliaswait"}
RpzPast   == {"safe", "split", "transfer", "zones", "recursion"} \cup Aliased \cup Looked
Passed    == {"rpz"} \cup RpzPast
Filtered  == {"groups"} \cup Passed

\* Data that comes from a lookup for the client.
Resolved == {"recursive", "safe", "synthesized"}
----------------------------------------------------------------------------
(* What is known of a query *)

\* A policy, with what its plugin blocked at one of the moments `as`, and a set of
\* groups, that let the request r through.
Lets(p, as, r, d, t) ==
  \E a \in as : EvaluateOn(p, a[r.client], r.client, d, t, Listener(r.proto)).action = "allow"
GroupLets(gs, ls, r, account) ==
  GroupEvaluate(gs, ls, r.client, r.name, Listener(r.proto), account).action = "allow"

\* The policy lets every name of a chain through.
ChainLets(p, as, r, chain) ==
  \A i \in 1 .. Len(chain) : IsAllowlisted(p, chain[i]) \/ Lets(p, as, r, chain[i], "A")

\* The policy a query keeps let its name through, and says whether it is trusted.
PolicyKept(x) ==
  /\ x.policy \in x.seenPolicy
  /\ x.stage \in Early => ~x.trusted
  /\ x.stage \in Filtered => /\ Lets(x.policy, x.seenPlugin, x.req, x.req.name, x.req.type)
                             /\ x.trusted <=> IsAllowlisted(x.policy, x.req.name)

\* Some groups did too.
GroupsKept(x, ls) ==
  x.stage \in Passed /\ ~x.trusted => \E gs \in x.seenGroups : GroupLets(gs, ls, x.req, x.account)

\* No response policy zone is asked about a trusted name.
RpzKept(x) ==
  /\ x.stage \in RpzPast /\ x.trusted => x.rpzDone
  /\ x.stage \in Aliased /\ x.alias = "rpz" => ~x.trusted

\* Where a lookup is made for the client, a resolver gave it recursion.
ResolverKept(x) ==
  /\ x.stage \in Aliased /\ x.alias = "safe" =>
       \E r \in x.seenResolver : AllowsClient(r, x.req.client, x.listenerOk)
  /\ x.stage \in Looked =>
       x.resolver \in x.seenResolver /\ AllowsClient(x.resolver, x.req.client, x.listenerOk)

\* The chain of an answer that was inspected.
ChainKept(x) ==
  /\ x.stage \in Looked \ {"wait"} => Len(x.found.chain) \in Nat
  /\ x.stage \in Inspected /\ x.found.kind = "data" /\ x.policy.cname /\ ~x.trusted =>
       ChainLets(x.policy, x.seenPlugin, x.req, x.found.chain)

\* Nothing is sent or logged before the end.
Unanswered(x) == x.stage # "done" => x.log = <<>> /\ x.resp = NoResponse

\* The properties, of a finished query x and the shared blocklists ls.
Snapshot(x) ==
  x.resp.data = "recursive" =>
    \E p \in x.seenPolicy :
      /\ Lets(p, x.seenPlugin, x.req, x.req.name, x.req.type)
      /\ p.cname /\ ~IsAllowlisted(p, x.req.name) => ChainLets(p, x.seenPlugin, x.req, x.resp.chain)

GroupsAgree(x, ls) ==
  x.resp.data \in Resolved /\ ~x.trusted => \E gs \in x.seenGroups : GroupLets(gs, ls, x.req, x.account)

Untouched(x) == x.trusted => \A i \in 1 .. Len(x.log) : x.log[i].outcome # "blocked"

Granted(x) ==
  x.resp.data \in Resolved => \E r \in x.seenResolver : AllowsClient(r, x.req.client, x.listenerOk)

LogAgrees(log, rcode) ==
  /\ Len(log) = 1
  /\ \/ log[1].rcode = rcode
     \/ <<log[1].rcode, rcode>> \in {<<"none", "NOERROR">>, <<"DROPPED", "none">>, <<"TRUNCATED", "TC">>}

Accounted(x) ==
  x.req.op = "query" /\ x.req.type # "AXFR" /\ x.resp.rcode # "FORMERR" => LogAgrees(x.log, x.resp.rcode)

Answered(x, ls) ==
  x.stage = "done" => Snapshot(x) /\ GroupsAgree(x, ls) /\ Untouched(x) /\ Granted(x) /\ Accounted(x)

\* What is published now is among what the query has seen.
Current ==
  /\ policy \in q.seenPolicy /\ plugin \in q.seenPlugin
  /\ groups \in q.seenGroups /\ resolver \in q.seenResolver

Path(x, ls) == PolicyKept(x) /\ GroupsKept(x, ls) /\ RpzKept(x) /\ ResolverKept(x) /\ ChainKept(x)

QInv == DOMAIN q = Fields /\ Current /\ Path(q, lists) /\ Unanswered(q) /\ Answered(q, lists)
----------------------------------------------------------------------------
(* A query goes on, or ends *)

\* Every field stays but those of F.
Keeps(F) == DOMAIN q' = Fields /\ \A f \in Fields \ F : q'[f] = q[f]

\* A query that goes on to another stage.
LEMMA Onward ==
  ASSUME QInv, q.stage # "done", q'.stage # "done", UNCHANGED settings, Path(q', lists),
         Keeps({"stage", "listenerOk", "policy", "trusted", "rpz", "rpzDone", "resolver", "found", "alias"})
  PROVE  QInv'
<1>1. /\ DOMAIN q' = Fields /\ q'.log = q.log /\ q'.resp = q.resp /\ q'.seenPolicy = q.seenPolicy
      /\ q'.seenPlugin = q.seenPlugin
      /\ q'.seenGroups = q.seenGroups /\ q'.seenResolver = q.seenResolver
  BY DEF Keeps, Fields
<1>2. policy' = policy /\ plugin' = plugin /\ groups' = groups /\ resolver' = resolver /\ lists' = lists
  BY DEF settings
<1>3. Current' /\ Unanswered(q') /\ Answered(q', lists)
  BY <1>1, <1>2 DEF QInv, Current, Unanswered, Answered
<1>4. QED
  BY <1>1, <1>2, <1>3 DEF QInv

\* ... and nothing of it changes but the stage.
LEMMA Moves ==
  ASSUME QInv, NEW s \in (Early \cup Filtered) \ {"idle"}, Goto(s), UNCHANGED settings, q.stage # "done",
         s \in Early => q.stage \in Early, s \in Filtered => q.stage \in Filtered,
         s \in Passed /\ ~q.trusted => q.stage \in Passed \/ GroupLets(groups, lists, q.req, q.account),
         s \in RpzPast => q.stage \in RpzPast,
         s \in Aliased => q.stage \in Aliased,
         s \in Looked => q.stage \in Looked \ {"wait"},
         s \in Inspected /\ q.found.kind = "data" /\ q.policy.cname /\ ~q.trusted =>
           q.stage \in Inspected \/ ChainLets(q.policy, q.seenPlugin, q.req, q.found.chain)
  PROVE  QInv'
<1>1. q'.stage = s /\ Keeps({"stage"})
  BY DEF QInv, Goto, Keeps, Fields
<1>2. /\ q'.req = q.req /\ q'.account = q.account /\ q'.listenerOk = q.listenerOk /\ q'.policy = q.policy
      /\ q'.trusted = q.trusted /\ q'.rpzDone = q.rpzDone /\ q'.resolver = q.resolver /\ q'.found = q.found
      /\ q'.alias = q.alias /\ q'.seenPolicy = q.seenPolicy
      /\ q'.seenPlugin = q.seenPlugin /\ q'.seenGroups = q.seenGroups
      /\ q'.seenResolver = q.seenResolver
  BY <1>1 DEF Keeps, Fields
<1>3. PolicyKept(q')
  BY <1>1, <1>2 DEF QInv, Path, PolicyKept
<1>4. GroupsKept(q', lists)
  BY <1>1, <1>2 DEF QInv, Path, GroupsKept, Current
<1>5. RpzKept(q')
  BY <1>1, <1>2 DEF QInv, Path, RpzKept
<1>6. ResolverKept(q')
  BY <1>1, <1>2 DEF QInv, Path, ResolverKept
<1>7. ChainKept(q')
  BY <1>1, <1>2 DEF QInv, Path, ChainKept
<1>8. Path(q', lists)
  BY <1>3, <1>4, <1>5, <1>6, <1>7 DEF Path
<1>9. s # "done"
  BY DEF Early, Filtered, Passed, RpzPast, Aliased, Looked, Inspected
<1>10. QED
  BY <1>1, <1>8, <1>9, Onward DEF Keeps

\* A response is sent and recorded.
LEMMA Ends ==
  ASSUME QInv, q.stage # "done", NEW resp, NEW log, RespondWith(resp, log), UNCHANGED settings,
         log = <<>> \/ \E e : log = <<e>>,
         resp.data = "recursive" => q.stage \in Inspected /\ q.found.kind = "data" /\ resp.chain = q.found.chain,
         resp.data = "synthesized" => q.stage \in Inspected,
         resp.data = "safe" =>
           q.stage \in Passed /\ \E r \in q.seenResolver : AllowsClient(r, q.req.client, q.listenerOk),
         q.trusted => \A i \in 1 .. Len(log) : log[i].outcome # "blocked",
         q.req.op = "query" /\ q.req.type # "AXFR" /\ resp.rcode # "FORMERR" => LogAgrees(log, resp.rcode)
  PROVE  QInv'
<1>1. /\ DOMAIN q' = Fields /\ q'.stage = "done" /\ q'.resp = resp /\ q'.log = <<>> \o log
      /\ q'.req = q.req /\ q'.account = q.account /\ q'.listenerOk = q.listenerOk /\ q'.policy = q.policy
      /\ q'.trusted = q.trusted /\ q'.seenPolicy = q.seenPolicy
      /\ q'.seenPlugin = q.seenPlugin /\ q'.seenGroups = q.seenGroups
      /\ q'.seenResolver = q.seenResolver
  BY DEF QInv, RespondWith, Fields, Unanswered
<1>2. q'.log = log
  BY <1>1
<1>3. policy' = policy /\ plugin' = plugin /\ groups' = groups /\ resolver' = resolver /\ lists' = lists
  BY DEF settings
<1>4. Path(q', lists)
  BY <1>1 DEF QInv, Path, PolicyKept, GroupsKept, RpzKept, ResolverKept, ChainKept, Early, Filtered, Passed,
     RpzPast, Aliased, Looked, Inspected
<1>5. q.stage \in Inspected => q.stage \in Looked /\ q.stage \in Passed /\ q.stage \in Filtered
  BY DEF Filtered, Passed, RpzPast, Looked
<1>6. Snapshot(q')
  <2>1. SUFFICES ASSUME resp.data = "recursive" PROVE Snapshot(q')
    BY <1>1 DEF Snapshot
  <2>2. /\ q.policy \in q.seenPolicy /\ Lets(q.policy, q.seenPlugin, q.req, q.req.name, q.req.type)
        /\ q.trusted <=> IsAllowlisted(q.policy, q.req.name)
    BY <1>5, <2>1 DEF QInv, Path, PolicyKept
  <2>3. q.policy.cname /\ ~q.trusted => ChainLets(q.policy, q.seenPlugin, q.req, q.found.chain)
    BY <2>1 DEF QInv, Path, ChainKept
  <2>4. QED
    BY <1>1, <2>1, <2>2, <2>3 DEF Snapshot
<1>7. GroupsAgree(q', lists)
  BY <1>1, <1>5 DEF QInv, Path, GroupsKept, GroupsAgree, Resolved
<1>8. Untouched(q')
  BY <1>1, <1>2 DEF Untouched
<1>9. Granted(q')
  BY <1>1, <1>5 DEF QInv, Path, ResolverKept, Granted, Resolved
<1>10. Accounted(q')
  BY <1>1, <1>2 DEF Accounted
<1>11. Current' /\ Unanswered(q')
  BY <1>1, <1>3 DEF QInv, Current, Unanswered
<1>12. QED
  BY <1>1, <1>3, <1>4, <1>6, <1>7, <1>8, <1>9, <1>10, <1>11 DEF QInv, Answered

\* A response with its entry in the logs; of the data of a lookup, only that of safe
\* search.
LEMMA RespondsAs ==
  ASSUME QInv, q.stage # "done", NEW resp, NEW e, RespondWith(resp, <<e>>), UNCHANGED settings,
         resp.data \in Resolved => /\ resp.data = "safe" /\ q.stage \in Passed
                                   /\ \E r \in q.seenResolver : AllowsClient(r, q.req.client, q.listenerOk),
         e.outcome = "blocked" => ~q.trusted,
         \/ e.rcode = resp.rcode
         \/ <<e.rcode, resp.rcode>> \in {<<"none", "NOERROR">>, <<"DROPPED", "none">>, <<"TRUNCATED", "TC">>}
  PROVE  QInv'
<1> DEFINE log == <<e>>
<1>1. Len(log) = 1 /\ log[1] = e /\ log = <<e>> /\ RespondWith(resp, log)
  OBVIOUS
<1> HIDE DEF log
<1>2. LogAgrees(log, resp.rcode)
  BY <1>1 DEF LogAgrees
<1>3. q.trusted => \A i \in 1 .. Len(log) : log[i].outcome # "blocked"
  BY <1>1
<1>4. QED
  BY <1>1, <1>2, <1>3, Ends DEF Resolved

\* The usual one.
LEMMA Responds ==
  ASSUME QInv, q.stage # "done", NEW data, NEW rcode, NEW outcome, Respond(data, rcode, outcome),
         UNCHANGED settings,
         data \in Resolved => /\ data = "safe" /\ q.stage \in Passed
                              /\ \E r \in q.seenResolver : AllowsClient(r, q.req.client, q.listenerOk),
         outcome = "blocked" => ~q.trusted
  PROVE  QInv'
<1> DEFINE resp == Answer(data, rcode)
           e == [outcome |-> outcome, rcode |-> rcode]
<1>1. resp.data = data /\ resp.rcode = rcode /\ e.outcome = outcome /\ e.rcode = rcode
  BY DEF Answer
<1>2. RespondWith(resp, <<e>>)
  BY DEF Respond, Observed
<1> HIDE DEF resp, e
<1>3. QED
  BY <1>1, <1>2, RespondsAs

\* A response that is not logged: it is not to a query, or to a transfer, or the request
\* was malformed.
LEMMA RespondsUnlogged ==
  ASSUME QInv, q.stage # "done", NEW data, NEW rcode, RespondWith(Answer(data, rcode), <<>>),
         UNCHANGED settings, data \notin Resolved,
         q.req.op # "query" \/ q.req.type = "AXFR" \/ rcode = "FORMERR"
  PROVE  QInv'
<1> DEFINE resp == Answer(data, rcode)
<1>1. resp.data = data /\ resp.rcode = rcode /\ RespondWith(resp, <<>>)
  BY DEF Answer
<1> HIDE DEF resp
<1>2. \A i \in 1 .. Len(<<>>) : <<>>[i].outcome # "blocked"
  OBVIOUS
<1>3. QED
  BY <1>1, <1>2, Ends DEF Resolved
----------------------------------------------------------------------------
(* The stages before the answer is looked up *)

\* A blocking decision is carried out.
LEMMA Blocks ==
  ASSUME QInv, q.stage # "done", NEW action, ServeBlock(action), UNCHANGED settings, ~q.trusted
  PROVE  QInv'
<1>1. PICK data \in {"none", "redirect", "page"}, rcode \in {"REFUSED", "NOERROR", "NXDOMAIN"} :
        Respond(data, rcode, "blocked")
  BY DEF ServeBlock
<1>2. QED
  BY <1>1, Responds DEF Resolved

\* Nothing is known of an early query.
LEMMA GatesStep ==
  ASSUME QInv, Gates \/ Opcode \/ Ddr
  PROVE  QInv'
<1>1. q.stage \in Early /\ q.stage # "done" /\ UNCHANGED settings /\ ~q.trusted
  BY DEF Gates, Opcode, Ddr, At, Same, Early, QInv, Path, PolicyKept
<1>2. CASE Gates
  <2> DEFINE gate == ListenerGate(q.req.client, Listener(q.req.proto))
  <2>1. \/ Respond("none", "REFUSED", "blocked") \/ Respond("none", "SERVFAIL", "rate_limited")
        \/ Silently("FORMERR")
        \/ q' = [q EXCEPT !.stage = "opcode", !.listenerOk = gate]
    BY <1>2 DEF Gates
  <2>2. CASE Respond("none", "REFUSED", "blocked") \/ Respond("none", "SERVFAIL", "rate_limited")
    BY <1>1, <2>2, Responds DEF Resolved
  <2>3. CASE Silently("FORMERR")
    BY <1>1, <2>3, RespondsUnlogged DEF Silently, Resolved
  <2>4. CASE q' = [q EXCEPT !.stage = "opcode", !.listenerOk = gate]
    <3>1. /\ q'.stage = "opcode" /\ Keeps({"stage", "listenerOk"}) /\ q'.trusted = q.trusted
          /\ q'.policy = q.policy /\ q'.seenPolicy = q.seenPolicy /\ q'.seenPlugin = q.seenPlugin
      BY <2>4 DEF QInv, Keeps, Fields
    <3>2. Path(q', lists)
      BY <1>1, <3>1 DEF QInv, Path, PolicyKept, GroupsKept, RpzKept, ResolverKept, ChainKept, Filtered,
         Passed, RpzPast, Aliased, Looked, Inspected
    <3>3. QED
      BY <1>1, <3>1, <3>2, Onward DEF Keeps
  <2>5. QED
    BY <2>1, <2>2, <2>3, <2>4
<1>3. CASE Opcode
  <2>1. \/ q.req.op # "query" /\ \E d \in {"update", "notify"}, c \in {"NOERROR", "NOTIMP"} :
                                     RespondWith(Answer(d, c), <<>>)
        \/ Silently("FORMERR")
        \/ Respond("none", "SERVFAIL", "rate_limited")
        \/ Goto("ddr")
    BY <1>3 DEF Opcode
  <2>2. CASE q.req.op # "query" /\ \E d \in {"update", "notify"}, c \in {"NOERROR", "NOTIMP"} :
                                      RespondWith(Answer(d, c), <<>>)
    BY <1>1, <2>2, RespondsUnlogged DEF Resolved
  <2>3. CASE Silently("FORMERR")
    BY <1>1, <2>3, RespondsUnlogged DEF Silently, Resolved
  <2>4. CASE Respond("none", "SERVFAIL", "rate_limited")
    BY <1>1, <2>4, Responds DEF Resolved
  <2>5. CASE Goto("ddr")
    BY <1>1, <2>5, Moves DEF Early, Filtered, Passed, RpzPast, Aliased, Looked, Inspected
  <2>6. QED
    BY <2>1, <2>2, <2>3, <2>4, <2>5
<1>4. CASE Ddr
  <2>1. \/ Goto("policy")
        \/ \E d \in {"none", "ddr"}, c \in {"NOERROR", "NXDOMAIN"} : Respond(d, c, "authoritative")
    BY <1>4 DEF Ddr
  <2>2. CASE Goto("policy")
    BY <1>1, <2>2, Moves DEF Early, Filtered, Passed, RpzPast, Aliased, Looked, Inspected
  <2>3. CASE \E d \in {"none", "ddr"}, c \in {"NOERROR", "NXDOMAIN"} : Respond(d, c, "authoritative")
    BY <1>1, <2>3, Responds DEF Resolved
  <2>4. QED
    BY <2>1, <2>2, <2>3
<1>5. QED
  BY <1>2, <1>3, <1>4

\* The policy is loaded, and kept.
LEMMA PolicyStep ==
  ASSUME QInv, EvaluatePolicy
  PROVE  QInv'
<1>1. q.stage = "policy" /\ q.stage # "done" /\ UNCHANGED settings /\ ~q.trusted
  BY DEF EvaluatePolicy, At, Same, Early, QInv, Path, PolicyKept
<1>2. CASE PolicyDecision(policy, plugin, q.req.name, q.req.type).action # "allow"
  <2>1. PICK a : ServeBlock(a)
    BY <1>2 DEF EvaluatePolicy
  <2>2. QED
    BY <1>1, <2>1, Blocks
<1>3. CASE PolicyDecision(policy, plugin, q.req.name, q.req.type).action = "allow"
  <2>1. q' = [q EXCEPT !.stage = "groups", !.policy = policy, !.trusted = IsAllowlisted(policy, q.req.name)]
    BY <1>3 DEF EvaluatePolicy
  <2>2. /\ q'.stage = "groups" /\ q'.policy = policy /\ q'.trusted = IsAllowlisted(policy, q.req.name)
        /\ q'.req = q.req /\ q'.seenPolicy = q.seenPolicy
        /\ q'.seenPlugin = q.seenPlugin /\ Keeps({"stage", "policy", "trusted"})
    BY <2>1 DEF QInv, Keeps, Fields
  <2>3. Lets(policy, q.seenPlugin, q.req, q.req.name, q.req.type)
    BY <1>3 DEF QInv, Current, PolicyDecision, Lets
  <2>4. Path(q', lists)
    BY <2>2, <2>3 DEF QInv, Current, Path, PolicyKept, GroupsKept, RpzKept, ResolverKept, ChainKept, Early,
       Filtered, Passed, RpzPast, Aliased, Looked, Inspected
  <2>5. QED
    BY <1>1, <2>2, <2>4, Onward DEF Keeps
<1>4. QED
  BY <1>2, <1>3

\* The groups are asked, unless the name is trusted.
LEMMA GroupsStep ==
  ASSUME QInv, EvaluateGroups
  PROVE  QInv'
<1>1. q.stage = "groups" /\ q.stage # "done" /\ UNCHANGED settings
  BY DEF EvaluateGroups, At, Same
<1>2. CASE ~q.trusted /\ GroupDecision(groups, q.req.name).action # "allow"
  <2>1. PICK a : ServeBlock(a)
    BY <1>2 DEF EvaluateGroups
  <2>2. QED
    BY <1>1, <1>2, <2>1, Blocks
<1>3. CASE ~(~q.trusted /\ GroupDecision(groups, q.req.name).action # "allow")
  <2>1. Goto("rpz")
    BY <1>3 DEF EvaluateGroups
  <2>2. ~q.trusted => GroupLets(groups, lists, q.req, q.account)
    BY <1>3 DEF GroupDecision, GroupLets
  <2>3. QED
    BY <1>1, <2>1, <2>2, Moves DEF Early, Filtered, Passed, RpzPast, Aliased, Looked, Inspected
<1>4. QED
  BY <1>2, <1>3

\* A query whose answer takes the lookup of another name.
LEMMA ToAlias ==
  ASSUME QInv, q.stage \in Passed, UNCHANGED settings, NEW a, q' = [q EXCEPT !.stage = "alias", !.alias = a],
         a = "rpz" => ~q.trusted,
         a # "rpz" => q.stage \in RpzPast,
         a = "safe" => \E r \in q.seenResolver : AllowsClient(r, q.req.client, q.listenerOk)
  PROVE  QInv'
<1>1. q.stage # "done" /\ q.stage \in Filtered
  BY DEF Filtered, Passed, RpzPast, Aliased, Looked, Inspected
<1>2. /\ q'.stage = "alias" /\ q'.alias = a /\ q'.req = q.req /\ q'.account = q.account
      /\ q'.policy = q.policy /\ q'.trusted = q.trusted /\ q'.seenPolicy = q.seenPolicy
      /\ q'.seenPlugin = q.seenPlugin
      /\ q'.seenGroups = q.seenGroups /\ q'.seenResolver = q.seenResolver /\ q'.listenerOk = q.listenerOk
      /\ q'.rpzDone = q.rpzDone /\ Keeps({"stage", "alias"})
  BY DEF QInv, Keeps, Fields
<1>3. /\ "alias" \in Filtered /\ "alias" \in Passed /\ "alias" \notin Early /\ "alias" \notin Looked
      /\ "alias" \notin Inspected
  BY DEF Filtered, Passed, RpzPast, Aliased, Looked, Inspected, Early
<1>4. Path(q', lists)
  BY <1>1, <1>2, <1>3 DEF QInv, Path, PolicyKept, GroupsKept, RpzKept, ResolverKept, ChainKept
<1>5. QED
  BY <1>1, <1>2, <1>4, Onward DEF Keeps

\* The action of a response policy zone is carried out.
LEMMA ServesRpz ==
  ASSUME QInv, q.stage \in Passed, NEW action, ServeRpz(action), UNCHANGED settings, ~q.trusted
  PROVE  QInv'
<1>1. q.stage # "done"
  BY DEF Passed, RpzPast, Aliased, Looked, Inspected
<1>2. \/ \E d \in {"none", "local"}, c \in {"NXDOMAIN", "NOERROR"} : Respond(d, c, "blocked")
      \/ RespondWith(NoResponse, Observed("blocked", "DROPPED"))
      \/ RespondWith(Answer("none", "TC"), Observed("blocked", "TRUNCATED"))
      \/ q' = [q EXCEPT !.stage = "alias", !.alias = "rpz"]
  BY DEF ServeRpz
<1>3. CASE \E d \in {"none", "local"}, c \in {"NXDOMAIN", "NOERROR"} : Respond(d, c, "blocked")
  BY <1>1, <1>3, Responds DEF Resolved
<1>4. CASE RespondWith(NoResponse, Observed("blocked", "DROPPED"))
  BY <1>1, <1>4, RespondsAs DEF Observed, NoResponse, Resolved
<1>5. CASE RespondWith(Answer("none", "TC"), Observed("blocked", "TRUNCATED"))
  <2> DEFINE resp == Answer("none", "TC")
             e == [outcome |-> "blocked", rcode |-> "TRUNCATED"]
  <2>1. resp.data = "none" /\ resp.rcode = "TC" /\ e.rcode = "TRUNCATED" /\ RespondWith(resp, <<e>>)
    BY <1>5 DEF Answer, Observed
  <2> HIDE DEF resp, e
  <2>2. QED
    BY <1>1, <2>1, RespondsAs DEF Resolved
<1>6. CASE q' = [q EXCEPT !.stage = "alias", !.alias = "rpz"]
  <2>1. "rpz" # "safe"
    OBVIOUS
  <2>2. QED
    BY <1>6, <2>1, ToAlias
<1>7. QED
  BY <1>2, <1>3, <1>4, <1>5, <1>6

\* The response policy zones are asked, unless the name is trusted.
LEMMA RpzStep ==
  ASSUME QInv, RpzQuery
  PROVE  QInv'
<1> DEFINE done == rpz = <<>> \/ q.trusted
           hit == IF done THEN NoHit ELSE CheckQuery(rpz, q.req.client, q.req.name)
           through == hit # NoHit /\ RpzLetsThrough(hit, q.req.proto)
<1>1. q.stage = "rpz" /\ UNCHANGED settings
  BY DEF RpzQuery, At, Same
<1>2. q.stage \in Passed /\ q.stage # "done"
  BY <1>1 DEF Passed
<1>3. CASE hit # NoHit /\ ~through
  <2>1. ServeRpz(hit) /\ ~q.trusted
    BY <1>3 DEF RpzQuery
  <2>2. QED
    BY <1>1, <1>2, <2>1, ServesRpz
<1>4. CASE ~(hit # NoHit /\ ~through)
  <2>1. q' = [q EXCEPT !.stage = "safe", !.rpz = rpz, !.rpzDone = done \/ through]
    BY <1>4 DEF RpzQuery
  <2>2. /\ q'.stage = "safe" /\ q'.req = q.req /\ q'.account = q.account
        /\ q'.policy = q.policy /\ q'.trusted = q.trusted /\ q'.seenPolicy = q.seenPolicy
        /\ q'.seenPlugin = q.seenPlugin
        /\ q'.seenGroups = q.seenGroups /\ Keeps({"stage", "rpz", "rpzDone"})
        /\ (q.trusted => q'.rpzDone)
    BY <2>1 DEF QInv, Keeps, Fields
  <2>3. /\ "safe" \in Filtered /\ "safe" \in Passed /\ "safe" \notin Early /\ "safe" \notin Looked
        /\ "safe" \notin Inspected /\ "safe" \notin Aliased /\ q.stage \in Filtered
    BY <1>1 DEF Filtered, Passed, RpzPast, Aliased, Looked, Inspected, Early
  <2>4. Path(q', lists)
    BY <1>2, <2>2, <2>3 DEF QInv, Path, PolicyKept, GroupsKept, RpzKept, ResolverKept, ChainKept
  <2>5. QED
    BY <1>2, <1>1, <2>2, <2>4, Onward DEF Keeps
<1>5. QED
  BY <1>3, <1>4

\* Safe search answers in the place of the recursion the client is allowed.
LEMMA SafeStep ==
  ASSUME QInv, SafeSearch
  PROVE  QInv'
<1>1. q.stage = "safe" /\ UNCHANGED settings
  BY DEF SafeSearch, At, Same
<1>2. /\ q.stage # "done" /\ q.stage \in Passed /\ q.stage \in RpzPast /\ q.stage \in Filtered
  BY <1>1 DEF Passed, RpzPast, Filtered
<1>3. CASE Goto("split")
  BY <1>1, <1>2, <1>3, Moves DEF Early, Filtered, Passed, RpzPast, Aliased, Looked, Inspected
<1>4. CASE ~Goto("split")
  <2>1. /\ AllowsClient(resolver, q.req.client, q.listenerOk)
        /\ \/ Respond("none", "NOERROR", "recursive")
           \/ Respond("safe", "NOERROR", "recursive")
           \/ q' = [q EXCEPT !.stage = "alias", !.alias = "safe"]
    BY <1>4 DEF SafeSearch
  <2>2. \E r \in q.seenResolver : AllowsClient(r, q.req.client, q.listenerOk)
    BY <2>1 DEF QInv, Current
  <2>3. CASE Respond("none", "NOERROR", "recursive")
    BY <1>1, <1>2, <2>3, Responds DEF Resolved
  <2>4. CASE Respond("safe", "NOERROR", "recursive")
    BY <1>1, <1>2, <2>2, <2>4, Responds
  <2>5. CASE q' = [q EXCEPT !.stage = "alias", !.alias = "safe"]
    BY <1>1, <1>2, <2>2, <2>5, ToAlias
  <2>6. QED
    BY <2>1, <2>3, <2>4, <2>5
<1>5. QED
  BY <1>3, <1>4

\* The answers this server has itself.
LEMMA LocalStep ==
  ASSUME QInv, SplitHorizon \/ HandleTransfer \/ LocalZones
  PROVE  QInv'
<1>1. q.stage \in {"split", "transfer", "zones"} /\ UNCHANGED settings
  BY DEF SplitHorizon, HandleTransfer, LocalZones, At, Same
<1>2. /\ q.stage # "done" /\ q.stage \in Passed /\ q.stage \in RpzPast /\ q.stage \in Filtered
  BY <1>1 DEF Passed, RpzPast, Filtered
<1>3. CASE Goto("transfer") \/ Goto("zones") \/ Goto("recursion")
  BY <1>1, <1>2, <1>3, Moves DEF Early, Filtered, Passed, RpzPast, Aliased, Looked, Inspected
<1>4. CASE SplitHorizon
  <2>1. Respond("split", "NOERROR", "split_horizon") \/ Goto("transfer")
    BY <1>4 DEF SplitHorizon
  <2>2. CASE Respond("split", "NOERROR", "split_horizon")
    BY <1>1, <1>2, <2>2, Responds DEF Resolved
  <2>3. QED
    BY <1>3, <2>1, <2>2
<1>5. CASE HandleTransfer
  <2>1. \/ Goto("zones")
        \/ q.req.type = "AXFR" /\ (Silently("REFUSED") \/ RespondWith(Answer("axfr", "NOERROR"), <<>>))
    BY <1>5 DEF HandleTransfer
  <2>2. CASE q.req.type = "AXFR" /\ Silently("REFUSED")
    BY <1>1, <1>2, <2>2, RespondsUnlogged DEF Silently, Resolved
  <2>3. CASE q.req.type = "AXFR" /\ RespondWith(Answer("axfr", "NOERROR"), <<>>)
    BY <1>1, <1>2, <2>3, RespondsUnlogged DEF Resolved
  <2>4. QED
    BY <1>3, <2>1, <2>2, <2>3
<1>6. CASE LocalZones
  <2>1. \/ q' = [q EXCEPT !.stage = "alias", !.alias = "zone"]
        \/ \E d \in {"none", "zone"}, c \in {"NOERROR", "NXDOMAIN"} : Respond(d, c, "authoritative")
        \/ RespondWith(Answer("zone", "NOERROR"), Observed("authoritative", "none"))
        \/ Goto("recursion")
    BY <1>6 DEF LocalZones, ServeEmptyZone
  <2>2. CASE q' = [q EXCEPT !.stage = "alias", !.alias = "zone"]
    <3>1. "zone" # "safe" /\ "zone" # "rpz"
      OBVIOUS
    <3>2. QED
      BY <1>1, <1>2, <2>2, <3>1, ToAlias
  <2>3. CASE \E d \in {"none", "zone"}, c \in {"NOERROR", "NXDOMAIN"} : Respond(d, c, "authoritative")
    BY <1>1, <1>2, <2>3, Responds DEF Resolved
  <2>4. CASE RespondWith(Answer("zone", "NOERROR"), Observed("authoritative", "none"))
    <3> DEFINE resp == Answer("zone", "NOERROR")
               e == [outcome |-> "authoritative", rcode |-> "none"]
    <3>1. /\ resp.data = "zone" /\ resp.rcode = "NOERROR" /\ e.rcode = "none" /\ e.outcome = "authoritative"
          /\ RespondWith(resp, <<e>>)
      BY <2>4 DEF Answer, Observed
    <3> HIDE DEF resp, e
    <3>2. QED
      BY <1>1, <1>2, <3>1, RespondsAs DEF Resolved
  <2>5. QED
    BY <1>3, <2>1, <2>2, <2>3, <2>4
<1>7. QED
  BY <1>4, <1>5, <1>6

\* The answer made of an alias lookup: what made it necessary says what it may hold.
LEMMA ServesAlias ==
  ASSUME QInv, q.stage \in Aliased, UNCHANGED settings, NEW rcode, NEW records, ServeAlias(rcode, records)
  PROVE  QInv'
<1>1. q.stage # "done" /\ q.stage \in Passed
  BY DEF Passed, RpzPast, Aliased
<1>2. CASE q.alias = "rpz"
  <2>1. Respond("local", "NOERROR", "blocked") /\ ~q.trusted
    BY <1>2 DEF ServeAlias, QInv, Path, RpzKept
  <2>2. QED
    BY <1>1, <2>1, Responds DEF Resolved
<1>3. CASE q.alias = "safe"
  <2>1. /\ Respond("safe", rcode, "recursive") \/ Respond("none", rcode, "recursive")
        /\ \E r \in q.seenResolver : AllowsClient(r, q.req.client, q.listenerOk)
    BY <1>3 DEF ServeAlias, QInv, Path, ResolverKept
  <2>2. CASE Respond("safe", rcode, "recursive")
    BY <1>1, <2>1, <2>2, Responds
  <2>3. CASE Respond("none", rcode, "recursive")
    BY <1>1, <2>3, Responds DEF Resolved
  <2>4. QED
    BY <2>1, <2>2, <2>3
<1>4. CASE q.alias \notin {"rpz", "safe"}
  <2>1. Respond("zone", rcode, "authoritative") \/ Respond("none", rcode, "authoritative")
    BY <1>4 DEF ServeAlias
  <2>2. QED
    BY <1>1, <2>1, Responds DEF Resolved
<1>5. QED
  BY <1>2, <1>3, <1>4

\* The lookup of another name is started, answered or given up.
LEMMA AliasStep ==
  ASSUME QInv, StartAlias \/ AliasTimeout \/ \E out \in Outcomes : AliasAnswers(out)
  PROVE  QInv'
<1>1. q.stage \in Aliased /\ UNCHANGED settings
  BY DEF StartAlias, AliasTimeout, AliasAnswers, At, Same, Aliased
<1>2. \/ \E rcode, records : ServeAlias(rcode, records)
      \/ Goto("aliaswait")
  <2>1. CASE StartAlias
    BY <2>1 DEF StartAlias
  <2>2. CASE AliasTimeout
    BY <2>2 DEF AliasTimeout
  <2>3. ASSUME NEW out \in Outcomes, AliasAnswers(out)
        PROVE  ServeAlias("NOERROR", TRUE) \/ ServeAlias("NOERROR", FALSE) \/ ServeAlias("SERVFAIL", FALSE)
    BY <2>3 DEF AliasAnswers
  <2>4. QED
    BY <2>1, <2>2, <2>3
<1>3. CASE Goto("aliaswait")
  <2>1. q.stage # "done" /\ q.stage \in Passed /\ q.stage \in RpzPast /\ q.stage \in Filtered
    BY <1>1 DEF Filtered, Passed, RpzPast, Aliased
  <2>2. QED
    BY <1>1, <1>3, <2>1, Moves DEF Early, Filtered, Passed, RpzPast, Aliased, Looked, Inspected
<1>4. QED
  BY <1>1, <1>2, <1>3, ServesAlias
----------------------------------------------------------------------------
(* The lookup, and the inspection of its answer *)

\* The resolver is loaded, asked whether the client may use it, and kept.
LEMMA RecursionStep ==
  ASSUME QInv, RecursionGate
  PROVE  QInv'
<1>1. q.stage = "recursion" /\ UNCHANGED settings
  BY DEF RecursionGate, At
<1>2. /\ q.stage # "done" /\ q.stage \in Passed /\ q.stage \in RpzPast /\ q.stage \in Filtered
  BY <1>1 DEF Passed, RpzPast, Filtered
<1>3. \/ Respond("none", "REFUSED", "error") \/ Respond("none", "SERVFAIL", "error")
      \/ /\ AllowsClient(resolver, q.req.client, q.listenerOk)
         /\ q' = [q EXCEPT !.stage = "wait", !.resolver = resolver]
  BY DEF RecursionGate
<1>4. CASE Respond("none", "REFUSED", "error") \/ Respond("none", "SERVFAIL", "error")
  BY <1>1, <1>2, <1>4, Responds DEF Resolved
<1>5. CASE /\ AllowsClient(resolver, q.req.client, q.listenerOk)
           /\ q' = [q EXCEPT !.stage = "wait", !.resolver = resolver]
  <2>1. /\ q'.stage = "wait" /\ q'.resolver = resolver /\ q'.req = q.req /\ q'.account = q.account
        /\ q'.policy = q.policy /\ q'.trusted = q.trusted /\ q'.seenPolicy = q.seenPolicy
        /\ q'.seenPlugin = q.seenPlugin
        /\ q'.seenGroups = q.seenGroups /\ q'.seenResolver = q.seenResolver /\ q'.listenerOk = q.listenerOk
        /\ q'.rpzDone = q.rpzDone /\ Keeps({"stage", "resolver"})
    BY <1>5 DEF QInv, Keeps, Fields
  <2>2. "wait" \notin Early /\ "wait" \notin Aliased /\ "wait" \notin Inspected
    BY DEF Early, Aliased, Inspected
  <2>3. Path(q', lists)
    BY <1>2, <1>5, <2>1, <2>2 DEF QInv, Current, Path, PolicyKept, GroupsKept, RpzKept, ResolverKept, ChainKept
  <2>4. QED
    BY <1>1, <1>2, <2>1, <2>3, Onward DEF Keeps
<1>6. QED
  BY <1>3, <1>4, <1>5

\* A lookup has ended, or an expired answer takes its place.
LEMMA AfterLookupStep ==
  ASSUME QInv, q.stage = "wait", UNCHANGED settings, NEW out, Len(out.chain) \in Nat, AfterLookup(out)
  PROVE  QInv'
<1>1. /\ q.stage # "done" /\ q.stage \in Passed /\ q.stage \in RpzPast /\ q.stage \in Filtered /\ q.stage \in Looked
  BY DEF Passed, RpzPast, Filtered, Looked
<1>2. \/ q' = [q EXCEPT !.stage = "cname", !.found = out]
      \/ out.kind = "nodata" /\ q' = [q EXCEPT !.stage = "dns64", !.found = out]
      \/ Respond("none", "SERVFAIL", "error")
      \/ \E c \in {"NXDOMAIN", "NOERROR"} : Respond("none", c, "recursive")
  BY DEF AfterLookup
<1>3. CASE \/ Respond("none", "SERVFAIL", "error")
           \/ \E c \in {"NXDOMAIN", "NOERROR"} : Respond("none", c, "recursive")
  BY <1>1, <1>3, Responds DEF Resolved
<1>4. ASSUME NEW s \in {"cname", "dns64"}, q' = [q EXCEPT !.stage = s, !.found = out],
             s = "dns64" => out.kind = "nodata"
      PROVE  QInv'
  <2>1. /\ q'.stage = s /\ q'.found = out /\ q'.req = q.req /\ q'.account = q.account
        /\ q'.policy = q.policy /\ q'.trusted = q.trusted /\ q'.seenPolicy = q.seenPolicy
        /\ q'.seenPlugin = q.seenPlugin
        /\ q'.seenGroups = q.seenGroups /\ q'.seenResolver = q.seenResolver /\ q'.listenerOk = q.listenerOk
        /\ q'.rpzDone = q.rpzDone /\ q'.resolver = q.resolver /\ Keeps({"stage", "found"})
    BY <1>4 DEF QInv, Keeps, Fields
  <2>2. s \notin Early /\ s \notin Aliased /\ s \in Looked /\ (s \in Inspected => s = "dns64") /\ s # "done"
    BY DEF Early, Aliased, Inspected, Looked
  <2>3. Path(q', lists)
    BY <1>1, <1>4, <2>1, <2>2 DEF QInv, Path, PolicyKept, GroupsKept, RpzKept, ResolverKept, ChainKept
  <2>4. QED
    BY <1>1, <2>1, <2>2, <2>3, Onward DEF Keeps
<1>5. QED
  BY <1>2, <1>3, <1>4

\* The client's lookup is answered, or takes too long.
LEMMA LookupStep ==
  ASSUME QInv, NEW out \in Outcomes, LookupAnswers(out) \/ ClientTimeout(out)
  PROVE  QInv'
<1>1. q.stage = "wait" /\ UNCHANGED settings
  BY DEF LookupAnswers, ClientTimeout, At, Same
<1>2. /\ out \in [kind : {"data", "nodata", "nxdomain", "fail"}, chain : Seq(Range(out.chain)),
                  local : BOOLEAN, big : BOOLEAN, aaaa : BOOLEAN, stale : BOOLEAN]
      /\ out.chain \in Seq(Range(out.chain))
  BY OutcomesAssumption
<1>3. Len(out.chain) \in Nat
  BY <1>2
<1>4. CASE LookupAnswers(out)
  BY <1>1, <1>3, <1>4, AfterLookupStep DEF LookupAnswers
<1>5. CASE ClientTimeout(out)
  <2> DEFINE late == [out EXCEPT !.stale = TRUE]
  <2>1. late.chain = out.chain /\ AfterLookup(late)
    BY <1>2, <1>5 DEF ClientTimeout
  <2> HIDE DEF late
  <2>2. QED
    BY <1>1, <1>3, <2>1, AfterLookupStep
<1>6. QED
  BY <1>4, <1>5

\* The least of a set of positive numbers is one of them, and no greater than any.
LEMMA LeastIs ==
  ASSUME NEW I, I \subseteq Nat \ {0}, I # {}
  PROVE  Min(I) \in I /\ \A y \in I : Min(I) <= y
<1> DEFINE R == {ss \in Nat \X Nat : ss[1] < ss[2]}
<1>1. IsWellFoundedOn(R, Nat)
  BY NatLessThanWellFounded DEF OpToRel
<1>2. PICK x \in I : \A y \in I : <<y, x>> \notin R
  <2> HIDE DEF R
  <2>1. QED
    BY <1>1, WFMin
<1>3. \A y \in I : <<y, x>> \in Nat \X Nat
  OBVIOUS
<1>4. \A y \in I : ~(y < x)
  BY <1>2, <1>3
<1>5. \E z \in I : \A y \in I : z =< y
  BY <1>4
<1>6. QED
  <2> HIDE DEF R
  <2>1. QED
    BY <1>5, Zenon DEF Min

\* CNAME inspection found nothing: the kept policy lets every name of the chain through.
LEMMA NothingFound ==
  ASSUME Current, NEW chain, Len(chain) \in Nat,
         SelectInSeq(chain, LAMBDA d : CnameBlock(d).action # "allow") = 0
  PROVE  ChainLets(q.policy, q.seenPlugin, q.req, chain)
<1> DEFINE I == {i \in 1 .. Len(chain) : CnameBlock(chain[i]).action # "allow"}
<1>1. (IF I # {} THEN Min(I) ELSE 0) = 0
  BY DEF SelectInSeq
<1>2. I \subseteq Nat \ {0}
  OBVIOUS
<1>3. I = {}
  <2> HIDE DEF I
  <2>1. SUFFICES ASSUME I # {} PROVE FALSE
    OBVIOUS
  <2>2. Min(I) \in I
    BY <1>2, <2>1, LeastIs
  <2>3. QED
    BY <1>1, <1>2, <2>1, <2>2
<1>4. \A i \in 1 .. Len(chain) : CnameBlock(chain[i]).action = "allow"
  BY <1>3
<1>5. ASSUME NEW d, CnameBlock(d).action = "allow"
      PROVE  IsAllowlisted(q.policy, d) \/ Lets(q.policy, q.seenPlugin, q.req, d, "A")
  BY <1>5 DEF CnameBlock, PolicyDecision, Lets, Current
<1>6. QED
  BY <1>4, <1>5 DEF ChainLets

\* The names an answer leads through.
LEMMA InspectStep ==
  ASSUME QInv, InspectCnames
  PROVE  QInv'
<1> DEFINE chain == q.found.chain
           i == SelectInSeq(chain, LAMBDA d : CnameBlock(d).action # "allow")
<1>1. q.stage = "cname" /\ UNCHANGED settings
  BY DEF InspectCnames, At, Same
<1>2. /\ q.stage # "done" /\ q.stage \in Passed /\ q.stage \in RpzPast /\ q.stage \in Filtered
      /\ q.stage \in Looked \ {"wait"}
  BY <1>1 DEF Passed, RpzPast, Filtered, Looked
<1>3. Len(chain) \in Nat
  BY <1>2 DEF QInv, Path, ChainKept
<1>4. CASE q.policy.cname /\ ~q.trusted /\ i # 0
  <2>1. PICK a : ServeBlock(a)
    BY <1>4 DEF InspectCnames
  <2>2. QED
    BY <1>1, <1>2, <1>4, <2>1, Blocks
<1>5. CASE ~(q.policy.cname /\ ~q.trusted /\ i # 0)
  <2>1. Goto("rpzanswer")
    BY <1>5 DEF InspectCnames
  <2>2. q.policy.cname /\ ~q.trusted => ChainLets(q.policy, q.seenPlugin, q.req, chain)
    <3>1. SUFFICES ASSUME i = 0 PROVE ChainLets(q.policy, q.seenPlugin, q.req, chain)
      BY <1>5
    <3>2. QED
      BY <1>3, <3>1, NothingFound DEF QInv
  <2>3. /\ "rpzanswer" \in (Early \cup Filtered) \ {"idle"} /\ "rpzanswer" \notin Early
        /\ "rpzanswer" \notin Aliased
    BY DEF Early, Filtered, Passed, RpzPast, Looked, Inspected, Aliased
  <2>4. QED
    BY <1>1, <1>2, <2>1, <2>2, <2>3, Moves
<1>6. QED
  BY <1>4, <1>5

\* The response policy zones on the answer, and the response filters: neither looks at
\* a trusted name.
LEMMA AnswerChecksStep ==
  ASSUME QInv, FilterResponse \/ \E ns \in {"found", "none", "late"} : RpzAnswer(ns)
  PROVE  QInv'
<1>1. q.stage \in {"rpzanswer", "filter"} /\ UNCHANGED settings
  BY DEF FilterResponse, RpzAnswer, At, Same
<1>2. /\ q.stage # "done" /\ q.stage \in Passed /\ q.stage \in RpzPast /\ q.stage \in Filtered
      /\ q.stage \in Looked \ {"wait"} /\ q.stage \in Inspected
  BY <1>1 DEF Passed, RpzPast, Filtered, Looked, Inspected
<1>3. ASSUME NEW s \in {"filter", "dns64"}, Goto(s) PROVE QInv'
  <2>1. s \in (Early \cup Filtered) \ {"idle"} /\ s \notin Early /\ s \notin Aliased
    BY DEF Early, Filtered, Passed, RpzPast, Looked, Inspected, Aliased
  <2>2. QED
    BY <1>1, <1>2, <1>3, <2>1, Moves
<1>4. CASE FilterResponse
  <2>1. Goto("dns64") \/ (~q.trusted /\ Respond("none", "NOERROR", "blocked"))
    BY <1>4 DEF FilterResponse
  <2>2. CASE ~q.trusted /\ Respond("none", "NOERROR", "blocked")
    BY <1>1, <1>2, <2>2, Responds DEF Resolved
  <2>3. QED
    BY <1>3, <2>1, <2>2
<1>5. ASSUME NEW ns, RpzAnswer(ns) PROVE QInv'
  <2>1. Goto("filter") \/ (~q.rpzDone /\ \E hit : ServeRpz(hit))
    BY <1>5 DEF RpzAnswer
  <2>2. CASE ~q.rpzDone /\ \E hit : ServeRpz(hit)
    <3>1. ~q.trusted
      BY <1>2, <2>2 DEF QInv, Path, RpzKept
    <3>2. QED
      BY <1>1, <1>2, <2>2, <3>1, ServesRpz
  <2>3. QED
    BY <1>3, <2>1, <2>2
<1>6. QED
  BY <1>4, <1>5

\* An answer that passed everything is sent.
LEMMA SendsRecursive ==
  ASSUME QInv, q.stage \in Inspected, UNCHANGED settings, NEW data, NEW chain, Recursive(data, chain),
         \/ data = "none" \/ data = "synthesized"
         \/ data = "recursive" /\ q.found.kind = "data" /\ chain = q.found.chain
  PROVE  QInv'
<1> DEFINE resp == [data |-> data, rcode |-> "NOERROR", chain |-> chain]
           e == [outcome |-> "recursive", rcode |-> "NOERROR"]
           log == <<e>>
<1>1. /\ resp.data = data /\ resp.rcode = "NOERROR" /\ resp.chain = chain
      /\ e.outcome = "recursive" /\ e.rcode = "NOERROR" /\ RespondWith(resp, log)
  BY DEF Recursive, Observed
<1> HIDE DEF resp, e
<1>2. Len(log) = 1 /\ log[1] = e /\ log = <<e>>
  OBVIOUS
<1> HIDE DEF log
<1>3. LogAgrees(log, resp.rcode) /\ q.stage # "done"
  BY <1>1, <1>2 DEF LogAgrees, Inspected
<1>4. q.trusted => \A i \in 1 .. Len(log) : log[i].outcome # "blocked"
  BY <1>1, <1>2
<1>5. log = <<>> \/ \E x : log = <<x>>
  BY <1>2
<1>6. /\ resp.data = "recursive" => q.found.kind = "data" /\ resp.chain = q.found.chain
      /\ resp.data # "safe"
  BY <1>1
<1>7. QED
  BY <1>1, <1>3, <1>4, <1>5, <1>6, Ends

\* DNS64: the answer as it was found, or one made of A records.
LEMMA Dns64Step ==
  ASSUME QInv, Dns64 \/ Dns64Timeout \/ \E out \in Outcomes : Dns64Answers(out)
  PROVE  QInv'
<1>1. q.stage \in {"dns64", "dns64wait"} /\ UNCHANGED settings
  BY DEF Dns64, Dns64Timeout, Dns64Answers, At, Same
<1>2. /\ q.stage # "done" /\ q.stage \in Passed /\ q.stage \in RpzPast /\ q.stage \in Filtered
      /\ q.stage \in Looked \ {"wait"} /\ q.stage \in Inspected
  BY <1>1 DEF Passed, RpzPast, Filtered, Looked, Inspected
<1>3. \/ Goto("dns64wait")
      \/ Recursive(IF q.found.kind = "data" THEN "recursive" ELSE "none", q.found.chain)
      \/ \E chain : Recursive("synthesized", chain)
  <2>1. CASE Dns64
    BY <2>1 DEF Dns64
  <2>2. CASE Dns64Timeout
    BY <2>2 DEF Dns64Timeout
  <2>3. ASSUME NEW out \in Outcomes, Dns64Answers(out)
        PROVE  \/ Recursive(IF q.found.kind = "data" THEN "recursive" ELSE "none", q.found.chain)
               \/ \E chain : Recursive("synthesized", chain)
    BY <2>3 DEF Dns64Answers
  <2>4. QED
    BY <2>1, <2>2, <2>3
<1>4. CASE Goto("dns64wait")
  <2>1. /\ "dns64wait" \in (Early \cup Filtered) \ {"idle"} /\ "dns64wait" \notin Early
        /\ "dns64wait" \notin Aliased
    BY DEF Early, Filtered, Passed, RpzPast, Looked, Inspected, Aliased
  <2>2. QED
    BY <1>1, <1>2, <1>4, <2>1, Moves
<1>5. CASE Recursive(IF q.found.kind = "data" THEN "recursive" ELSE "none", q.found.chain)
  <2>1. CASE q.found.kind = "data"
    BY <1>1, <1>2, <1>5, <2>1, SendsRecursive
  <2>2. CASE q.found.kind # "data"
    BY <1>1, <1>2, <1>5, <2>2, SendsRecursive
  <2>3. QED
    BY <2>1, <2>2
<1>6. CASE \E chain : Recursive("synthesized", chain)
  BY <1>1, <1>2, <1>6, SendsRecursive
<1>7. QED
  BY <1>3, <1>4, <1>5, <1>6
----------------------------------------------------------------------------
(* Arrivals, and settings that are republished *)

\* A query arrives: nothing of the last one is left.
LEMMA ArriveStep ==
  ASSUME NEW r, Arrive(r)
  PROVE  QInv'
<1>1. /\ DOMAIN q' = Fields /\ q'.stage = "gates" /\ q'.policy = policy /\ q'.trusted = FALSE
      /\ q'.seenPolicy = {policy}
      /\ q'.seenPlugin = {plugin} /\ q'.seenGroups = {groups} /\ q'.seenResolver = {resolver}
      /\ q'.log = <<>> /\ q'.resp = NoResponse
  BY DEF Arrive, NewQuery, Fields
<1>2. policy' = policy /\ plugin' = plugin /\ groups' = groups /\ resolver' = resolver /\ lists' = lists
  BY DEF Arrive, settings
<1>3. Current' /\ Unanswered(q') /\ Answered(q', lists)
  BY <1>1, <1>2 DEF Current, Unanswered, Answered
<1>4. Path(q', lists)
  BY <1>1 DEF Path, PolicyKept, GroupsKept, RpzKept, ResolverKept, ChainKept, Filtered, Passed, RpzPast,
     Aliased, Looked, Inspected
<1>5. QED
  BY <1>1, <1>2, <1>3, <1>4 DEF QInv

\* What was let through stays so when more has been seen of the plugin.
LEMMA LetsStay ==
  ASSUME NEW as, NEW bs, as \subseteq bs, NEW p, NEW x
  PROVE  /\ \A d, t : Lets(p, as, x, d, t) => Lets(p, bs, x, d, t)
         /\ \A chain : ChainLets(p, as, x, chain) => ChainLets(p, bs, x, chain)
<1>1. \A d, t : Lets(p, as, x, d, t) => Lets(p, bs, x, d, t)
  BY DEF Lets
<1>2. QED
  BY <1>1 DEF ChainLets

\* What has been seen only grows.
LEMMA Republished ==
  ASSUME QInv, lists' = lists, Keeps({"seenPolicy", "seenPlugin", "seenGroups", "seenResolver"}),
         q.seenPolicy \subseteq q'.seenPolicy, q.seenPlugin \subseteq q'.seenPlugin,
         q.seenGroups \subseteq q'.seenGroups,
         q.seenResolver \subseteq q'.seenResolver, Current'
  PROVE  QInv'
<1>1. /\ DOMAIN q' = Fields /\ q'.stage = q.stage /\ q'.req = q.req /\ q'.account = q.account
      /\ q'.listenerOk = q.listenerOk /\ q'.policy = q.policy /\ q'.trusted = q.trusted
      /\ q'.rpzDone = q.rpzDone /\ q'.resolver = q.resolver /\ q'.found = q.found /\ q'.alias = q.alias
      /\ q'.resp = q.resp /\ q'.log = q.log
  BY DEF Keeps, Fields
<1>2. PolicyKept(q') /\ RpzKept(q') /\ ChainKept(q')
  <2>1. PolicyKept(q')
    BY <1>1, LetsStay DEF QInv, Path, PolicyKept
  <2>2. RpzKept(q')
    BY <1>1 DEF QInv, Path, RpzKept
  <2>3. ChainKept(q')
    BY <1>1, LetsStay DEF QInv, Path, ChainKept
  <2>4. QED
    BY <2>1, <2>2, <2>3
<1>3. GroupsKept(q', lists)
  BY <1>1 DEF QInv, Path, GroupsKept
<1>4. ResolverKept(q')
  BY <1>1 DEF QInv, Path, ResolverKept
<1>5. Unanswered(q')
  BY <1>1 DEF QInv, Unanswered
<1>6. Answered(q', lists)
  <2>1. SUFFICES ASSUME q.stage = "done" PROVE Answered(q', lists)
    BY <1>1 DEF Answered
  <2>2. Snapshot(q') /\ GroupsAgree(q', lists)
    <3>1. Snapshot(q')
      BY <1>1, <2>1, LetsStay DEF QInv, Answered, Snapshot
    <3>2. GroupsAgree(q', lists)
      BY <1>1, <2>1 DEF QInv, Answered, GroupsAgree
    <3>3. QED
      BY <3>1, <3>2
  <2>3. Untouched(q') /\ Accounted(q')
    BY <1>1, <2>1 DEF QInv, Answered, Untouched, Accounted
  <2>4. Granted(q')
    BY <1>1, <2>1 DEF QInv, Answered, Granted
  <2>5. QED
    BY <2>2, <2>3, <2>4 DEF Answered
<1>7. QED
  BY <1>1, <1>2, <1>3, <1>4, <1>5, <1>6 DEF QInv, Path

\* Each of the published values is swapped.
LEMMA RepublishStep ==
  ASSUME QInv, Republish
  PROVE  QInv'
<1> DEFINE F == {"seenPolicy", "seenPlugin", "seenGroups", "seenResolver"}
<1>1. ASSUME NEW p, PublishPolicy(p) PROVE QInv'
  <2>1. /\ Keeps(F) /\ q'.seenPolicy = q.seenPolicy \cup {p} /\ q'.seenPlugin = q.seenPlugin
        /\ q'.seenGroups = q.seenGroups /\ q'.seenResolver = q.seenResolver
        /\ policy' = p /\ plugin' = plugin /\ groups' = groups /\ resolver' = resolver /\ lists' = lists
    BY <1>1 DEF PublishPolicy, QInv, Keeps, Fields
  <2>2. QED
    BY <2>1, Republished DEF QInv, Current
<1>2. ASSUME NEW gs, PublishGroups(gs) PROVE QInv'
  <2>1. /\ Keeps(F) /\ q'.seenGroups = q.seenGroups \cup {BuildGroups(gs)}
        /\ q'.seenPolicy = q.seenPolicy /\ q'.seenPlugin = q.seenPlugin /\ q'.seenResolver = q.seenResolver
        /\ policy' = policy /\ plugin' = plugin /\ groups' = BuildGroups(gs) /\ resolver' = resolver
        /\ lists' = lists
    BY <1>2 DEF PublishGroups, QInv, Keeps, Fields
  <2>2. QED
    BY <2>1, Republished DEF QInv, Current
<1>3. ASSUME NEW r, SwapResolver(r) PROVE QInv'
  <2>1. /\ Keeps(F) /\ q'.seenResolver = q.seenResolver \cup {r} /\ q'.seenGroups = q.seenGroups
        /\ q'.seenPolicy = q.seenPolicy /\ q'.seenPlugin = q.seenPlugin
        /\ policy' = policy /\ plugin' = plugin /\ groups' = groups /\ resolver' = r /\ lists' = lists
    BY <1>3 DEF SwapResolver, QInv, Keeps, Fields
  <2>2. QED
    BY <2>1, Republished DEF QInv, Current
<1>4. ASSUME NEW a, PublishPlugin(a) PROVE QInv'
  <2>1. /\ Keeps(F) /\ q'.seenPlugin = q.seenPlugin \cup {a} /\ q'.seenPolicy = q.seenPolicy
        /\ q'.seenGroups = q.seenGroups /\ q'.seenResolver = q.seenResolver
        /\ policy' = policy /\ plugin' = a /\ groups' = groups /\ resolver' = resolver /\ lists' = lists
    BY <1>4 DEF PublishPlugin, QInv, Keeps, Fields
  <2>2. QED
    BY <2>1, Republished DEF QInv, Current
<1>5. ASSUME q' = q, UNCHANGED <<policy, plugin, groups, resolver, lists>> PROVE QInv'
  BY <1>5 DEF QInv, Current
<1>6. QED
  BY <1>1, <1>2, <1>3, <1>4, <1>5 DEF Republish, PublishRpz, PublishConfig
----------------------------------------------------------------------------
(* What the console explains *)

\* The checks of an explanation, those that decide, and the first of them that does.
Sources == {"denied_network", "allowlist", "blocklist", "blocklist_source", "client_rule", "aaaa_filter", "ai",
            "group", "service", "security", "tld", "group_blocklist"}
Results == {"allow", "block", "none", "off"}
Checks == [source : Sources, result : Results]
Decided == {"allow", "block"}
NoCheck == [source |-> "none", result |-> "none"]
FirstOf(s) == IF Decisive(s) = 0 THEN NoCheck ELSE s[Decisive(s)]

\* The check that decides is the first with a result that does.
LEMMA DecisiveIs ==
  ASSUME NEW s \in Seq(Checks)
  PROVE  \/ Decisive(s) = 0 /\ \A i \in 1 .. Len(s) : s[i].result \notin Decided
         \/ /\ Decisive(s) \in 1 .. Len(s) /\ s[Decisive(s)].result \in Decided
            /\ \A i \in 1 .. Decisive(s) - 1 : s[i].result \notin Decided
<1> DEFINE I == {i \in 1 .. Len(s) : s[i].result \in {"allow", "block"}}
<1>1. Decisive(s) = IF I # {} THEN Min(I) ELSE 0
  BY DEF Decisive, SelectInSeq
<1>2. I \subseteq Nat \ {0} /\ I \subseteq 1 .. Len(s) /\ Len(s) \in Nat
  OBVIOUS
<1>3. CASE I = {}
  BY <1>1, <1>3 DEF Decided
<1>4. CASE I # {}
  <2>1. Min(I) \in I /\ \A y \in I : Min(I) <= y
    <3> HIDE DEF I
    <3>1. QED
      BY <1>2, <1>4, LeastIs
  <2>2. Decisive(s) = Min(I)
    BY <1>1, <1>4
  <2>3. Decisive(s) \in 1 .. Len(s) /\ s[Decisive(s)].result \in Decided
    BY <2>1, <2>2 DEF Decided
  <2>4. ASSUME NEW i \in 1 .. Decisive(s) - 1 PROVE s[i].result \notin Decided
    <3>1. i \in 1 .. Len(s) /\ ~(Decisive(s) <= i)
      BY <1>2, <2>3
    <3>2. i \notin I
      BY <2>1, <2>2, <3>1
    <3>3. QED
      BY <3>1, <3>2 DEF Decided
  <2>5. QED
    BY <2>3, <2>4
<1>5. QED
  BY <1>3, <1>4

\* Hence: what the first check is says which one it is.
LEMMA FirstIs ==
  ASSUME NEW s \in Seq(Checks)
  PROVE  /\ Decisive(s) = 0 <=> FirstOf(s) = NoCheck
         /\ FirstOf(s) # NoCheck => FirstOf(s) = s[Decisive(s)] /\ FirstOf(s) \in Checks /\ FirstOf(s).result \in Decided
         /\ (\A i \in 1 .. Len(s) : s[i].result \notin Decided) => FirstOf(s) = NoCheck
         /\ \A k \in 1 .. Len(s) :
              s[k].result \in Decided /\ (\A i \in 1 .. k - 1 : s[i].result \notin Decided) => FirstOf(s) = s[k]
<1>1. NoCheck.result \notin Decided
  BY DEF NoCheck, Decided
<1>2. Len(s) \in Nat /\ \A i \in 1 .. Len(s) : s[i] \in Checks
  OBVIOUS
<1>3. CASE Decisive(s) = 0 /\ \A i \in 1 .. Len(s) : s[i].result \notin Decided
  BY <1>1, <1>2, <1>3 DEF FirstOf
<1>4. CASE /\ Decisive(s) \in 1 .. Len(s) /\ s[Decisive(s)].result \in Decided
           /\ \A i \in 1 .. Decisive(s) - 1 : s[i].result \notin Decided
  <2>1. FirstOf(s) = s[Decisive(s)] /\ Decisive(s) # 0
    BY <1>2, <1>4 DEF FirstOf
  <2>2. ASSUME NEW k \in 1 .. Len(s), s[k].result \in Decided, \A i \in 1 .. k - 1 : s[i].result \notin Decided
        PROVE  Decisive(s) = k
    <3>1. ~(k < Decisive(s)) /\ ~(Decisive(s) < k)
      BY <1>2, <1>4, <2>2
    <3>2. QED
      BY <1>2, <1>4, <3>1
  <2>3. QED
    BY <1>1, <1>2, <1>4, <2>1, <2>2
<1>5. QED
  BY <1>3, <1>4, DecisiveIs

\* One explanation after another.
LEMMA Joined ==
  ASSUME NEW a \in Seq(Checks), NEW b \in Seq(Checks)
  PROVE  /\ a \o b \in Seq(Checks)
         /\ FirstOf(a \o b) = IF FirstOf(a) # NoCheck THEN FirstOf(a) ELSE FirstOf(b)
<1> DEFINE s == a \o b
<1>1. /\ s \in Seq(Checks) /\ Len(s) = Len(a) + Len(b) /\ Len(a) \in Nat /\ Len(b) \in Nat
      /\ \A i \in 1 .. Len(a) : s[i] = a[i]
      /\ \A i \in 1 .. Len(s) : i > Len(a) => s[i] = b[i - Len(a)] /\ i - Len(a) \in 1 .. Len(b)
      /\ \A i \in 1 .. Len(b) : s[i + Len(a)] = b[i] /\ i + Len(a) \in 1 .. Len(s)
  OBVIOUS
<1> HIDE DEF s
<1>2. CASE FirstOf(a) # NoCheck
  <2> DEFINE k == Decisive(a)
  <2>1. /\ k \in 1 .. Len(a) /\ a[k].result \in Decided /\ FirstOf(a) = a[k]
        /\ \A i \in 1 .. k - 1 : a[i].result \notin Decided
    BY <1>2, DecisiveIs, FirstIs
  <2> HIDE DEF k
  <2>2. k \in 1 .. Len(s) /\ s[k] = a[k] /\ \A i \in 1 .. k - 1 : s[i] = a[i]
    BY <1>1, <2>1
  <2>3. FirstOf(s) = s[k]
    BY <1>1, <2>1, <2>2, FirstIs
  <2>4. QED
    BY <1>1, <1>2, <2>1, <2>2, <2>3 DEF s
<1>3. CASE FirstOf(a) = NoCheck /\ FirstOf(b) = NoCheck
  <2>1. /\ \A i \in 1 .. Len(a) : a[i].result \notin Decided
        /\ \A i \in 1 .. Len(b) : b[i].result \notin Decided
    BY <1>3, DecisiveIs, FirstIs DEF Decided
  <2>2. ASSUME NEW i \in 1 .. Len(s) PROVE s[i].result \notin Decided
    <3>1. CASE i <= Len(a)
      BY <1>1, <2>1, <3>1
    <3>2. CASE i > Len(a)
      BY <1>1, <2>1, <3>2
    <3>3. QED
      BY <1>1, <3>1, <3>2
  <2>3. FirstOf(s) = NoCheck
    BY <1>1, <2>2, FirstIs
  <2>4. QED
    BY <1>1, <1>3, <2>3 DEF s
<1>4. CASE FirstOf(a) = NoCheck /\ FirstOf(b) # NoCheck
  <2> DEFINE k == Decisive(b)
  <2>1. /\ k \in 1 .. Len(b) /\ b[k].result \in Decided /\ FirstOf(b) = b[k]
        /\ \A i \in 1 .. k - 1 : b[i].result \notin Decided
        /\ \A i \in 1 .. Len(a) : a[i].result \notin Decided
    BY <1>4, DecisiveIs, FirstIs
  <2> HIDE DEF k
  <2>2. k + Len(a) \in 1 .. Len(s) /\ s[k + Len(a)] = b[k]
    BY <1>1, <2>1
  <2>3. ASSUME NEW i \in 1 .. (k + Len(a)) - 1 PROVE s[i].result \notin Decided
    <3>1. CASE i <= Len(a)
      BY <1>1, <2>1, <2>3, <3>1
    <3>2. CASE i > Len(a)
      <4>1. i \in 1 .. Len(s) /\ i - Len(a) \in 1 .. k - 1
        BY <1>1, <2>1, <2>2, <2>3, <3>2
      <4>2. QED
        BY <1>1, <2>1, <3>2, <4>1
    <3>3. QED
      BY <1>1, <2>1, <2>3, <3>1, <3>2
  <2>4. FirstOf(s) = s[k + Len(a)]
    BY <1>1, <2>1, <2>2, <2>3, FirstIs
  <2>5. QED
    BY <1>1, <1>4, <2>1, <2>2, <2>4 DEF s
<1>5. QED
  BY <1>2, <1>3, <1>4

\* An explanation of one check, or of none.
LEMMA SingleCheck ==
  ASSUME NEW source \in Sources, NEW result \in Results
  PROVE  /\ Check(source, result) \in Seq(Checks)
         /\ FirstOf(Check(source, result)) =
              IF result \in Decided THEN [source |-> source, result |-> result] ELSE NoCheck
<1> DEFINE e == [source |-> source, result |-> result]
           s == <<e>>
<1>1. Check(source, result) = s
  BY DEF Check
<1>2. e \in Checks /\ e.result = result
  BY DEF Checks
<1> HIDE DEF e
<1>3. s \in Seq(Checks) /\ Len(s) = 1 /\ s[1] = e
  BY <1>2
<1> HIDE DEF s
<1>4. CASE result \in Decided
  <2>1. 1 \in 1 .. Len(s) /\ \A i \in 1 .. 1 - 1 : s[i].result \notin Decided
    BY <1>3
  <2>2. FirstOf(s) = s[1]
    BY <1>2, <1>3, <1>4, <2>1, FirstIs
  <2>3. QED
    BY <1>1, <1>3, <1>4, <2>2 DEF e
<1>5. CASE result \notin Decided
  <2>1. \A i \in 1 .. Len(s) : s[i].result \notin Decided
    BY <1>2, <1>3, <1>5
  <2>2. FirstOf(s) = NoCheck
    BY <1>3, <2>1, FirstIs
  <2>3. QED
    BY <1>1, <1>3, <1>5, <2>2
<1>6. QED
  BY <1>4, <1>5

\* No check at all.
LEMMA NoChecks == <<>> \in Seq(Checks) /\ FirstOf(<<>>) = NoCheck
<1> DEFINE s == <<>>
<1>1. s \in Seq(Checks) /\ Len(s) = 0
  OBVIOUS
<1> HIDE DEF s
<1>2. \A i \in 1 .. Len(s) : s[i].result \notin Decided
  BY <1>1
<1>3. FirstOf(s) = NoCheck
  BY <1>1, <1>2, FirstIs
<1>4. QED
  BY <1>1, <1>3 DEF s

\* Explanations put together up to the m-th.
FlatTo(ss, f, m) ==
  DOMAIN f = 1 .. m /\ \A i \in 1 .. m : f[i] = IF i = 1 THEN ss[i] ELSE f[i - 1] \o ss[i]

\* They can be, up to any: a first to fail would follow one that does not.
LEMMA FlatExists ==
  ASSUME NEW ss, NEW n \in Nat
  PROVE  \E f : FlatTo(ss, f, n)
<1> DEFINE Bad == {m \in Nat \ {0} : ~ \E f : FlatTo(ss, f, m)}
<1>1. n # 0 => n \notin Bad
  <2>1. SUFFICES ASSUME Bad # {} PROVE FALSE
    OBVIOUS
  <2> DEFINE m == Min(Bad)
  <2>2. m \in Bad /\ \A k \in Bad : m <= k
    <3>1. Bad \subseteq Nat \ {0}
      OBVIOUS
    <3> HIDE DEF Bad
    <3>2. QED
      BY <2>1, <3>1, LeastIs
  <2> HIDE DEF m
  <2>3. m \in Nat \ {0} /\ ~ \E f : FlatTo(ss, f, m)
    BY <2>2
  <2>4. CASE m = 1
    <3> DEFINE f == [i \in 1 .. 1 |-> ss[i]]
    <3>1. FlatTo(ss, f, 1)
      BY DEF FlatTo
    <3>2. QED
      BY <2>3, <2>4, <3>1
  <2>5. CASE m # 1
    <3>1. m - 1 \in Nat \ {0} /\ ~(m <= m - 1)
      BY <2>3, <2>5
    <3>2. PICK f : FlatTo(ss, f, m - 1)
      BY <2>2, <3>1
    <3> DEFINE g == [i \in 1 .. m |-> IF i = m THEN f[m - 1] \o ss[m] ELSE f[i]]
    <3>3. ASSUME NEW i \in 1 .. m PROVE g[i] = IF i = 1 THEN ss[i] ELSE g[i - 1] \o ss[i]
      <4>1. CASE i = m
        <5>1. g[i] = f[m - 1] \o ss[m] /\ g[i - 1] = f[m - 1] /\ i # 1
          <6>1. i \in 1 .. m /\ i - 1 \in 1 .. m /\ i - 1 # m /\ i - 1 = m - 1 /\ i # 1
            BY <2>3, <2>5, <3>1, <4>1
          <6>2. QED
            BY <4>1, <6>1
        <5>2. QED
          BY <4>1, <5>1
      <4>2. CASE i # m
        <5>1. i \in 1 .. m - 1 /\ g[i] = f[i] /\ (i # 1 => g[i - 1] = f[i - 1])
          BY <2>3, <3>1, <3>3, <4>2
        <5>2. f[i] = IF i = 1 THEN ss[i] ELSE f[i - 1] \o ss[i]
          BY <3>2, <5>1 DEF FlatTo
        <5> HIDE DEF g
        <5>3. QED
          BY <5>1, <5>2
      <4>3. QED
        BY <4>1, <4>2
    <3>4. DOMAIN g = 1 .. m
      OBVIOUS
    <3> HIDE DEF g
    <3>5. FlatTo(ss, g, m)
      BY <3>3, <3>4 DEF FlatTo
    <3>6. QED
      BY <2>3, <3>5
  <2>6. QED
    BY <2>4, <2>5
<1>2. CASE n = 0
  <2> DEFINE f == [i \in 1 .. 0 |-> 0]
  <2>1. FlatTo(ss, f, 0)
    BY DEF FlatTo
  <2>2. QED
    BY <1>2, <2>1
<1>3. QED
  BY <1>1, <1>2

\* FlattenSeq gives the last of them.
LEMMA FlattenIs ==
  ASSUME NEW ss, Len(ss) \in Nat \ {0}
  PROVE  \E f : FlatTo(ss, f, Len(ss)) /\ FlattenSeq(ss) = f[Len(ss)]
<1> DEFINE Body(f) == [i \in 1 .. Len(ss) |-> IF i = 1 THEN ss[i] ELSE f[i - 1] \o ss[i]]
           flat == CHOOSE f : f = Body(f)
<1>1. FlattenSeq(ss) = flat[Len(ss)]
  BY DEF FlattenSeq
<1>2. PICK g : FlatTo(ss, g, Len(ss)) /\ g = [i \in 1 .. Len(ss) |-> g[i]]
  <2>1. PICK f : FlatTo(ss, f, Len(ss))
    BY FlatExists
  <2> DEFINE g == [i \in 1 .. Len(ss) |-> f[i]]
  <2>2. /\ DOMAIN g = 1 .. Len(ss) /\ \A i \in 1 .. Len(ss) : g[i] = f[i] /\ (i # 1 => g[i - 1] = f[i - 1])
        /\ g = [i \in 1 .. Len(ss) |-> g[i]]
    OBVIOUS
  <2> HIDE DEF g
  <2>3. FlatTo(ss, g, Len(ss))
    BY <2>1, <2>2 DEF FlatTo
  <2>4. QED
    BY <2>2, <2>3
<1>3. g = Body(g)
  BY <1>2 DEF FlatTo
<1>4. flat = Body(flat)
  <2> HIDE DEF Body
  <2>1. QED
    BY <1>3, Zenon
<1> HIDE DEF flat
<1>5. FlatTo(ss, flat, Len(ss))
  <2> DEFINE body == [i \in 1 .. Len(ss) |-> IF i = 1 THEN ss[i] ELSE flat[i - 1] \o ss[i]]
  <2>1. DOMAIN body = 1 .. Len(ss) /\ \A i \in 1 .. Len(ss) : body[i] = IF i = 1 THEN ss[i] ELSE flat[i - 1] \o ss[i]
    OBVIOUS
  <2>2. flat = body
    BY <1>4
  <2> HIDE DEF body
  <2>3. QED
    BY <2>1, <2>2 DEF FlatTo
<1>6. QED
  BY <1>1, <1>5

\* The k-th part is the first with a check that decides; 0 if there is none.
FirstPart(ss, n, k) ==
  /\ k \in 0 .. n
  /\ \A i \in 1 .. n : k = 0 \/ i < k => FirstOf(ss[i]) = NoCheck
  /\ k # 0 => FirstOf(ss[k]) # NoCheck

\* The first check that decides is that of the first part that has one.
LEMMA FirstOfParts ==
  ASSUME NEW ss, NEW f, NEW n \in Nat, FlatTo(ss, f, n), \A i \in 1 .. n : ss[i] \in Seq(Checks),
         NEW k, FirstPart(ss, n, k)
  PROVE  \A m \in 1 .. n : /\ f[m] \in Seq(Checks)
                           /\ FirstOf(f[m]) = IF k = 0 \/ m < k THEN NoCheck ELSE FirstOf(ss[k])
<1> DEFINE Fine(m) == /\ f[m] \in Seq(Checks)
                      /\ FirstOf(f[m]) = IF k = 0 \/ m < k THEN NoCheck ELSE FirstOf(ss[k])
           Bad == {m \in 1 .. n : ~Fine(m)}
<1>1. SUFFICES ASSUME Bad # {} PROVE FALSE
  OBVIOUS
<1> DEFINE m == Min(Bad)
<1>2. m \in Bad /\ \A j \in Bad : m <= j
  <2>1. Bad \subseteq Nat \ {0}
    OBVIOUS
  <2> HIDE DEF Bad
  <2>2. QED
    BY <1>1, <2>1, LeastIs
<1> HIDE DEF m
<1>3. m \in 1 .. n /\ ~Fine(m) /\ (m # 1 => m - 1 \in 1 .. n /\ Fine(m - 1))
  BY <1>2
<1>4. ss[m] \in Seq(Checks)
  BY <1>3
<1>6. CASE m = 1
  <2>1. f[m] = ss[m]
    BY <1>3, <1>6 DEF FlatTo
  <2>2. k \in 0 .. n /\ (k = 0 \/ m < k => FirstOf(ss[m]) = NoCheck)
    BY <1>3 DEF FirstPart
  <2>3. QED
    BY <1>3, <1>4, <1>6, <2>1, <2>2
<1>7. CASE m # 1
  <2>1. f[m] = f[m - 1] \o ss[m]
    BY <1>3, <1>7 DEF FlatTo
  <2>2. f[m - 1] \in Seq(Checks) /\ FirstOf(f[m - 1]) = IF k = 0 \/ m - 1 < k THEN NoCheck ELSE FirstOf(ss[k])
    BY <1>3, <1>7
  <2>3. f[m] \in Seq(Checks) /\ FirstOf(f[m]) = IF FirstOf(f[m - 1]) # NoCheck THEN FirstOf(f[m - 1]) ELSE FirstOf(ss[m])
    BY <1>4, <2>1, <2>2, Joined
  <2>4. k \in 0 .. n /\ (k = 0 \/ m < k => FirstOf(ss[m]) = NoCheck) /\ (k # 0 => FirstOf(ss[k]) # NoCheck)
    BY <1>3 DEF FirstPart
  <2>5. QED
    BY <1>3, <1>7, <2>2, <2>3, <2>4
<1>8. QED
  BY <1>6, <1>7

\* The same of FlattenSeq.
LEMMA FlattenedFirst ==
  ASSUME NEW ss, Len(ss) \in Nat, Len(ss) = 0 => ss = <<>>, \A i \in 1 .. Len(ss) : ss[i] \in Seq(Checks),
         NEW k, FirstPart(ss, Len(ss), k)
  PROVE  /\ FlattenSeq(ss) \in Seq(Checks)
         /\ FirstOf(FlattenSeq(ss)) = IF k = 0 THEN NoCheck ELSE FirstOf(ss[k])
<1>1. CASE Len(ss) = 0
  <2>1. FlattenSeq(ss) = <<>> /\ k = 0
    BY <1>1 DEF FlattenSeq, FirstPart
  <2>2. QED
    BY <2>1, NoChecks
<1>2. CASE Len(ss) # 0
  <2>1. PICK f : FlatTo(ss, f, Len(ss)) /\ FlattenSeq(ss) = f[Len(ss)]
    BY <1>2, FlattenIs
  <2>2. /\ f[Len(ss)] \in Seq(Checks)
        /\ FirstOf(f[Len(ss)]) = IF k = 0 \/ Len(ss) < k THEN NoCheck ELSE FirstOf(ss[k])
    <3>1. \A m \in 1 .. Len(ss) : /\ f[m] \in Seq(Checks)
                                  /\ FirstOf(f[m]) = IF k = 0 \/ m < k THEN NoCheck ELSE FirstOf(ss[k])
      BY <1>2, <2>1, FirstOfParts
    <3>2. QED
      BY <1>2, <3>1
  <2>3. k = 0 <=> (k = 0 \/ Len(ss) < k)
    BY DEF FirstPart
  <2>4. QED
    BY <2>1, <2>2, <2>3
<1>3. QED
  BY <1>1, <1>2

\* The parts of an explanation, one for each element of a list.
LEMMA PartsFirst ==
  ASSUME NEW n \in Nat, NEW shown, shown = [i \in 1 .. n |-> shown[i]],
         \A i \in 1 .. n : shown[i] \in Seq(Checks), NEW k, FirstPart(shown, n, k)
  PROVE  /\ FlattenSeq(shown) \in Seq(Checks)
         /\ FirstOf(FlattenSeq(shown)) = IF k = 0 THEN NoCheck ELSE FirstOf(shown[k])
<1>1. shown \in Seq(Seq(Checks)) /\ Len(shown) = n
  OBVIOUS
<1>2. Len(shown) = 0 => shown = <<>>
  BY <1>1
<1>3. QED
  BY <1>1, <1>2, FlattenedFirst

\* The rule that decides is the one the explanation shows first.
LEMMA RulesExplained ==
  ASSUME NEW p, Len(p.rules) \in Nat, NEW c, NEW d
  PROVE  LET k == FirstRule(p, c, d) IN
         /\ ExplainRules(p, c, d) \in Seq(Checks)
         /\ FirstOf(ExplainRules(p, c, d)) =
              IF k = 0 THEN NoCheck
              ELSE [source |-> "client_rule", result |-> IF p.rules[k].action = "allow" THEN "allow" ELSE "block"]
<1> DEFINE n == Len(p.rules)
           I == {i \in 1 .. n : RuleMatches(p.rules[i], c, d)}
           k == FirstRule(p, c, d)
           said(i) == IF p.rules[i].action = "allow" THEN "allow" ELSE "block"
           shown == [i \in 1 .. n |-> IF RuleMatches(p.rules[i], c, d) THEN Check("client_rule", said(i)) ELSE <<>>]
<1>1. k = IF I # {} THEN Min(I) ELSE 0
  BY DEF FirstRule, SelectInSeq
<1>2. ExplainRules(p, c, d) = FlattenSeq(shown)
  BY DEF ExplainRules
<1>3. \A i : said(i) \in Results /\ said(i) \in Decided
  BY DEF Results, Decided
<1>4. \A i \in 1 .. n : shown[i] = IF i \in I THEN Check("client_rule", said(i)) ELSE <<>>
  OBVIOUS
<1>5. \A i \in 1 .. n : i \in I => shown[i] \in Seq(Checks) /\ FirstOf(shown[i]) = [source |-> "client_rule", result |-> said(i)]
  <2> HIDE DEF shown, said, I
  <2>1. "client_rule" \in Sources
    BY DEF Sources
  <2>2. QED
    BY <1>3, <1>4, <2>1, SingleCheck
<1>6. \A i \in 1 .. n : i \notin I => shown[i] \in Seq(Checks) /\ FirstOf(shown[i]) = NoCheck
  <2> HIDE DEF shown, said, I
  <2>1. QED
    BY <1>4, NoChecks
<1>7. \A i : [source |-> "client_rule", result |-> said(i)] # NoCheck
  BY DEF NoCheck
<1>8. FirstPart(shown, n, k) /\ (k # 0 => k \in I)
  <2>1. I \subseteq Nat \ {0} /\ I \subseteq 1 .. n
    OBVIOUS
  <2> HIDE DEF I, shown, said, k
  <2>2. CASE I = {}
    BY <1>1, <1>6, <2>2 DEF FirstPart
  <2>3. CASE I # {}
    <3>1. k \in I /\ \A y \in I : k <= y
      BY <1>1, <2>1, <2>3, LeastIs
    <3>2. k \in 1 .. n /\ k # 0
      BY <2>1, <3>1
    <3>3. ASSUME NEW i \in 1 .. n, i < k PROVE FirstOf(shown[i]) = NoCheck
      BY <1>6, <3>1, <3>2, <3>3
    <3>4. FirstOf(shown[k]) # NoCheck
      BY <1>5, <1>7, <3>1, <3>2
    <3>5. QED
      BY <3>1, <3>2, <3>3, <3>4 DEF FirstPart
  <2>4. QED
    BY <2>2, <2>3
<1>9. shown = [i \in 1 .. n |-> shown[i]]
  OBVIOUS
<1> HIDE DEF shown, said, I, k
<1>10. /\ FlattenSeq(shown) \in Seq(Checks)
       /\ FirstOf(FlattenSeq(shown)) = IF k = 0 THEN NoCheck ELSE FirstOf(shown[k])
  BY <1>5, <1>6, <1>8, <1>9, PartsFirst
<1>11. k # 0 => FirstOf(shown[k]) = [source |-> "client_rule", result |-> said(k)]
  BY <1>5, <1>8 DEF FirstPart
<1>12. FirstOf(FlattenSeq(shown)) = IF k = 0 THEN NoCheck ELSE [source |-> "client_rule", result |-> said(k)]
  BY <1>10, <1>11
<1>13. QED
  BY <1>2, <1>10, <1>12 DEF k, said

\* A list, and a filter that is on, say themselves whether they hold the name.
LEMMA ListExplained ==
  ASSUME NEW list, NEW d, NEW source \in Sources, NEW found \in Decided
  PROVE  /\ ListCheck(list, d, source, found) \in Seq(Checks)
         /\ FirstOf(ListCheck(list, d, source, found)) =
              IF Listed(list, d) THEN [source |-> source, result |-> found] ELSE NoCheck
<1>1. found \in Results /\ "none" \in Results /\ "none" \notin Decided
  BY DEF Results, Decided
<1>2. CASE ListEmpty(list)
  <2>1. ~Listed(list, d)
    BY <1>2 DEF ListEmpty, Listed, ParentMatches
  <2>2. QED
    BY <1>2, <2>1, NoChecks DEF ListCheck
<1>3. CASE ~ListEmpty(list) /\ Listed(list, d)
  BY <1>1, <1>3, SingleCheck DEF ListCheck
<1>4. CASE ~ListEmpty(list) /\ ~Listed(list, d)
  BY <1>1, <1>4, SingleCheck DEF ListCheck
<1>5. QED
  BY <1>2, <1>3, <1>4

\* Whether there is an entry is whether the list holds the name.
LEMMA EntryListed ==
  ASSUME NEW list, NEW d, Len(d) \in Nat
  PROVE  (MatchingEntry(list, d) # {}) <=> Listed(list, d)
<1>1. CASE ~Listed(list, d)
  BY <1>1 DEF MatchingEntry
<1>2. CASE Listed(list, d) /\ d \in list.exact
  BY <1>2 DEF MatchingEntry
<1>3. CASE Listed(list, d) /\ d \notin list.exact
  <2> DEFINE I == ParentMatches(list.suffixes, d)
  <2>1. I # {} /\ I \subseteq Nat \ {0}
    BY <1>3 DEF Listed, ParentMatches
  <2>2. MatchingEntry(list, d) = {ParentAt(d, i) : i \in {j \in I : \A k \in I : j <= k}}
    BY <1>3 DEF MatchingEntry
  <2> HIDE DEF I
  <2>3. Min(I) \in {j \in I : \A k \in I : j <= k}
    BY <2>1, LeastIs
  <2>4. QED
    BY <1>3, <2>2, <2>3
<1>4. QED
  BY <1>1, <1>2, <1>3

\* A filter that is on says whether it blocks the name; one that blocks says only that.
LEMMA FilterExplained ==
  ASSUME NEW source \in Sources, NEW blocks \in BOOLEAN
  PROVE  /\ Check(source, IF blocks THEN "block" ELSE "none") \in Seq(Checks)
         /\ FirstOf(Check(source, IF blocks THEN "block" ELSE "none")) =
              IF blocks THEN [source |-> source, result |-> "block"] ELSE NoCheck
         /\ BlockCheck(blocks, source) \in Seq(Checks)
         /\ FirstOf(BlockCheck(blocks, source)) = IF blocks THEN [source |-> source, result |-> "block"] ELSE NoCheck
<1>1. "block" \in Results /\ "none" \in Results /\ "block" \in Decided /\ "none" \notin Decided
  BY DEF Results, Decided
<1>2. CASE blocks
  BY <1>1, <1>2, SingleCheck DEF BlockCheck
<1>3. CASE ~blocks
  BY <1>1, <1>3, SingleCheck, NoChecks DEF BlockCheck
<1>4. QED
  BY <1>2, <1>3

\* The first of two that there is.
Else(x, y) == IF x # NoCheck THEN x ELSE y

LEMMA JoinedElse ==
  ASSUME NEW a \in Seq(Checks), NEW b \in Seq(Checks), NEW x, NEW y, FirstOf(a) = x, FirstOf(b) = y
  PROVE  a \o b \in Seq(Checks) /\ FirstOf(a \o b) = Else(x, y)
BY Joined DEF Else

\* A decision is the one the check x names.
Agrees(e, x) ==
  IF x = NoCheck THEN e = Undecided
  ELSE e.source = x.source /\ ((e.action = "allow") = (x.result = "allow"))

Said(source, result) == [source |-> source, result |-> result]
SaidIf(holds, source, result) == IF holds THEN Said(source, result) ELSE NoCheck

LEMMA SaidIs ==
  ASSUME NEW source \in Sources, NEW result
  PROVE  /\ Said(source, result) # NoCheck
         /\ Said(source, result).source = source /\ Said(source, result).result = result
<1>1. source # "none"
  BY DEF Sources
<1>2. QED
  BY <1>1 DEF Said, NoCheck

\* What the policy's explanation comes to.
PolicySaid(p, ai, c, d, t, l) ==
  LET k == FirstRule(p, c, d) IN
  Else(Else(Else(Else(Else(Else(Else(
    SaidIf(~AclAllowed(p, c), "denied_network", "block"),
    SaidIf(Listed(p.allow, d), "allowlist", "allow")),
    SaidIf(Listed(p.block, d), "blocklist", "block")),
    SaidIf(Listed(p.remote, d), "blocklist_source", "block")),
    SaidIf(l = "dot" /\ Listed(p.dot, d), "blocklist_source", "block")),
    SaidIf(k # 0, "client_rule", IF p.rules[k].action = "allow" THEN "allow" ELSE "block")),
    SaidIf(AaaaFiltered(p, d, t), "aaaa_filter", "block")),
    SaidIf(d \in ai, "ai", "block"))

LEMMA PolicyExplained ==
  ASSUME NEW p, NEW ai, p.enabled, Len(p.rules) \in Nat, NEW c, NEW d, NEW t, NEW l
  PROVE  Explain(p, ai, c, d, t, l) \in Seq(Checks) /\ FirstOf(Explain(p, ai, c, d, t, l)) = PolicySaid(p, ai, c, d, t, l)
<1> DEFINE k == FirstRule(p, c, d)
           a1 == Check("denied_network", IF AclAllowed(p, c) THEN "none" ELSE "block")
           a2 == ListCheck(p.allow, d, "allowlist", "allow")
           a3 == ListCheck(p.block, d, "blocklist", "block")
           a4 == ListCheck(p.remote, d, "blocklist_source", "block")
           a5 == IF l = "dot" THEN ListCheck(p.dot, d, "blocklist_source", "block") ELSE <<>>
           a6 == ExplainRules(p, c, d)
           a7 == AaaaCheck(p, d, t)
           a8 == IF ai = {} THEN <<>> ELSE Check("ai", IF d \in ai THEN "block" ELSE "none")
           x1 == SaidIf(~AclAllowed(p, c), "denied_network", "block")
           x2 == SaidIf(Listed(p.allow, d), "allowlist", "allow")
           x3 == SaidIf(Listed(p.block, d), "blocklist", "block")
           x4 == SaidIf(Listed(p.remote, d), "blocklist_source", "block")
           x5 == SaidIf(l = "dot" /\ Listed(p.dot, d), "blocklist_source", "block")
           x6 == SaidIf(k # 0, "client_rule", IF p.rules[k].action = "allow" THEN "allow" ELSE "block")
           x7 == SaidIf(AaaaFiltered(p, d, t), "aaaa_filter", "block")
           x8 == SaidIf(d \in ai, "ai", "block")
<1>1. /\ "denied_network" \in Sources /\ "allowlist" \in Sources /\ "blocklist" \in Sources
      /\ "blocklist_source" \in Sources /\ "aaaa_filter" \in Sources /\ "ai" \in Sources
      /\ "allow" \in Decided /\ "block" \in Decided
  BY DEF Sources, Decided
<1>2. a1 \in Seq(Checks) /\ FirstOf(a1) = x1
  <2>1. "block" \in Results /\ "none" \in Results /\ "none" \notin Decided
    BY DEF Results, Decided
  <2>2. CASE AclAllowed(p, c)
    BY <1>1, <2>1, <2>2, SingleCheck DEF SaidIf, Said
  <2>3. CASE ~AclAllowed(p, c)
    BY <1>1, <2>1, <2>3, SingleCheck DEF SaidIf, Said
  <2>4. QED
    BY <2>2, <2>3
<1>3. a2 \in Seq(Checks) /\ FirstOf(a2) = x2
  BY <1>1, ListExplained DEF SaidIf, Said
<1>4. a3 \in Seq(Checks) /\ FirstOf(a3) = x3
  BY <1>1, ListExplained DEF SaidIf, Said
<1>5. a4 \in Seq(Checks) /\ FirstOf(a4) = x4
  BY <1>1, ListExplained DEF SaidIf, Said
<1>6. a5 \in Seq(Checks) /\ FirstOf(a5) = x5
  <2>1. CASE l = "dot"
    BY <1>1, <2>1, ListExplained DEF SaidIf, Said
  <2>2. CASE l # "dot"
    BY <2>2, NoChecks DEF SaidIf, Said
  <2>3. QED
    BY <2>1, <2>2
<1>7. a6 \in Seq(Checks) /\ FirstOf(a6) = x6
  BY RulesExplained DEF SaidIf, Said
<1>8. a7 \in Seq(Checks) /\ FirstOf(a7) = x7
  <2>1. AaaaFiltered(p, d, t) \in BOOLEAN
    BY DEF AaaaFiltered
  <2>2. CASE p.aaaa /\ t = "AAAA"
    BY <1>1, <2>1, <2>2, FilterExplained DEF AaaaCheck, SaidIf, Said
  <2>3. CASE ~(p.aaaa /\ t = "AAAA")
    BY <2>3, NoChecks DEF AaaaCheck, AaaaFiltered, SaidIf, Said
  <2>4. QED
    BY <2>2, <2>3
<1>9. a8 \in Seq(Checks) /\ FirstOf(a8) = x8
  <2>1. CASE ai = {}
    BY <2>1, NoChecks DEF SaidIf, Said
  <2>2. CASE ai # {}
    BY <1>1, <2>2, FilterExplained DEF SaidIf, Said
  <2>3. QED
    BY <2>1, <2>2
<1>10. Explain(p, ai, c, d, t, l) = a1 \o a2 \o a3 \o a4 \o a5 \o a6 \o a7 \o a8
  BY DEF Explain
<1>11. PolicySaid(p, ai, c, d, t, l) = Else(Else(Else(Else(Else(Else(Else(x1, x2), x3), x4), x5), x6), x7), x8)
  BY DEF PolicySaid
<1> HIDE DEF k, a1, a2, a3, a4, a5, a6, a7, a8, x1, x2, x3, x4, x5, x6, x7, x8
<1> DEFINE b2 == a1 \o a2
           b3 == b2 \o a3
           b4 == b3 \o a4
           b5 == b4 \o a5
           b6 == b5 \o a6
           b7 == b6 \o a7
           b8 == b7 \o a8
           y2 == Else(x1, x2)
           y3 == Else(y2, x3)
           y4 == Else(y3, x4)
           y5 == Else(y4, x5)
           y6 == Else(y5, x6)
           y7 == Else(y6, x7)
           y8 == Else(y7, x8)
<1>12. b8 = Explain(p, ai, c, d, t, l) /\ y8 = PolicySaid(p, ai, c, d, t, l)
  BY <1>10, <1>11
<1>13. b2 \in Seq(Checks) /\ FirstOf(b2) = y2
  BY <1>2, <1>3, JoinedElse
<1> HIDE DEF b2, y2
<1>14. b3 \in Seq(Checks) /\ FirstOf(b3) = y3
  BY <1>4, <1>13, JoinedElse
<1> HIDE DEF b3, y3
<1>15. b4 \in Seq(Checks) /\ FirstOf(b4) = y4
  BY <1>5, <1>14, JoinedElse
<1> HIDE DEF b4, y4
<1>16. b5 \in Seq(Checks) /\ FirstOf(b5) = y5
  BY <1>6, <1>15, JoinedElse
<1> HIDE DEF b5, y5
<1>17. b6 \in Seq(Checks) /\ FirstOf(b6) = y6
  BY <1>7, <1>16, JoinedElse
<1> HIDE DEF b6, y6
<1>18. b7 \in Seq(Checks) /\ FirstOf(b7) = y7
  BY <1>8, <1>17, JoinedElse
<1> HIDE DEF b7, y7
<1>19. b8 \in Seq(Checks) /\ FirstOf(b8) = y8
  BY <1>9, <1>18, JoinedElse
<1>20. QED
  BY <1>12, <1>19

\* The policy's decision is the one its explanation names.
LEMMA PolicyAgrees ==
  ASSUME NEW p, NEW ai, Len(p.rules) \in Nat, NEW c, NEW d, Len(d) \in Nat, NEW t, NEW l
  PROVE  /\ Explain(p, ai, c, d, t, l) \in Seq(Checks)
         /\ Agrees(EvaluateOn(p, ai, c, d, t, l), FirstOf(Explain(p, ai, c, d, t, l)))
<1> DEFINE e == EvaluateOn(p, ai, c, d, t, l)
           x == Explain(p, ai, c, d, t, l)
<1>1. CASE ~p.enabled
  <2>1. x = Check("blocklist", "off") /\ e = Undecided
    BY <1>1 DEF Explain, EvaluateOn
  <2>2. x \in Seq(Checks) /\ FirstOf(x) = NoCheck
    <3>1. "blocklist" \in Sources /\ "off" \in Results /\ "off" \notin Decided
      BY DEF Sources, Results, Decided
    <3>2. QED
      BY <2>1, <3>1, SingleCheck
  <2>3. QED
    BY <2>1, <2>2 DEF Agrees
<1>2. CASE p.enabled
  <2>1. x \in Seq(Checks) /\ FirstOf(x) = PolicySaid(p, ai, c, d, t, l)
    BY <1>2, PolicyExplained
  <2>2. e = EvaluateWith(p, ai, c, d, t, l)
    BY <1>2 DEF EvaluateOn
  <2> DEFINE k == FirstRule(p, c, d)
             y == PolicySaid(p, ai, c, d, t, l)
  <2>3. /\ (MatchingEntry(p.allow, d) # {}) <=> Listed(p.allow, d)
        /\ (MatchingEntry(p.block, d) # {}) <=> Listed(p.block, d)
    BY EntryListed
  <2>4. ASSUME NEW r PROVE /\ Said("denied_network", r) # NoCheck /\ Said("allowlist", r) # NoCheck
                           /\ Said("blocklist", r) # NoCheck /\ Said("blocklist_source", r) # NoCheck
                           /\ Said("client_rule", r) # NoCheck /\ Said("aaaa_filter", r) # NoCheck
                           /\ Said("ai", r) # NoCheck
    BY SaidIs DEF Sources
  <2>5. ASSUME NEW source \in Sources, NEW result \in Decided, NEW action, (action = "allow") = (result = "allow"),
               e = Decide(action, source), y = Said(source, result)
        PROVE  Agrees(e, y)
    BY <2>5, SaidIs DEF Agrees, Decide
  <2>6. CASE ~AclAllowed(p, c)
    <3>1. e = Decide("refused", "denied_network")
      BY <2>2, <2>6, Zenon DEF EvaluateWith
    <3>2. y = Said("denied_network", "block")
      BY <2>4, <2>6 DEF PolicySaid, SaidIf, Else
    <3>3. Agrees(e, y)
      BY <2>5, <3>1, <3>2 DEF Sources, Decided
    <3>4. QED
      BY <2>1, <3>3
  <2>7. CASE AclAllowed(p, c) /\ Listed(p.allow, d)
    <3>1. e = Decide("allow", "allowlist")
      BY <2>2, <2>3, <2>7, Zenon DEF EvaluateWith
    <3>2. y = Said("allowlist", "allow")
      BY <2>4, <2>7 DEF PolicySaid, SaidIf, Else
    <3>3. Agrees(e, y)
      BY <2>5, <3>1, <3>2 DEF Sources, Decided
    <3>4. QED
      BY <2>1, <3>3
  <2>8. CASE AclAllowed(p, c) /\ ~Listed(p.allow, d) /\ Listed(p.block, d)
    <3>1. e = Decide("block", "blocklist")
      BY <2>2, <2>3, <2>8 DEF EvaluateWith
    <3>2. y = Said("blocklist", "block")
      BY <2>4, <2>8 DEF PolicySaid, SaidIf, Else
    <3>3. Agrees(e, y)
      BY <2>5, <3>1, <3>2 DEF Sources, Decided
    <3>4. QED
      BY <2>1, <3>3
  <2>9. CASE /\ AclAllowed(p, c) /\ ~Listed(p.allow, d) /\ ~Listed(p.block, d)
             /\ Listed(p.remote, d) \/ (l = "dot" /\ Listed(p.dot, d))
    <3>1. e = Decide("block", "blocklist_source")
      BY <2>2, <2>3, <2>9 DEF EvaluateWith
    <3>2. y = Said("blocklist_source", "block")
      BY <2>4, <2>9 DEF PolicySaid, SaidIf, Else
    <3>3. Agrees(e, y)
      BY <2>5, <3>1, <3>2 DEF Sources, Decided
    <3>4. QED
      BY <2>1, <3>3
  <2>10. CASE /\ AclAllowed(p, c) /\ ~Listed(p.allow, d) /\ ~Listed(p.block, d)
              /\ ~Listed(p.remote, d) /\ ~(l = "dot" /\ Listed(p.dot, d)) /\ k # 0
    <3> DEFINE result == IF p.rules[k].action = "allow" THEN "allow" ELSE "block"
    <3>1. e = Decide(p.rules[k].action, "client_rule")
      BY <2>2, <2>3, <2>10, Zenon DEF EvaluateWith
    <3>2. y = Said("client_rule", result)
      BY <2>4, <2>10 DEF PolicySaid, SaidIf, Else
    <3>3. "client_rule" \in Sources /\ result \in Decided /\ (p.rules[k].action = "allow") = (result = "allow")
      BY DEF Sources, Decided
    <3> HIDE DEF result
    <3>4. Agrees(e, y)
      BY <2>5, <3>1, <3>2, <3>3
    <3>5. QED
      BY <2>1, <3>4
  <2>11. CASE /\ AclAllowed(p, c) /\ ~Listed(p.allow, d) /\ ~Listed(p.block, d)
              /\ ~Listed(p.remote, d) /\ ~(l = "dot" /\ Listed(p.dot, d)) /\ k = 0
    <3>1. CASE AaaaFiltered(p, d, t)
      <4>1. e = Decide("nodata", "aaaa_filter")
        BY <2>2, <2>3, <2>11, <3>1, Zenon DEF EvaluateWith
      <4>2. y = Said("aaaa_filter", "block")
        BY <2>4, <2>11, <3>1 DEF PolicySaid, SaidIf, Else
      <4>3. Agrees(e, y)
        BY <2>5, <4>1, <4>2 DEF Sources, Decided
      <4>4. QED
        BY <2>1, <4>3
    <3>2. CASE ~AaaaFiltered(p, d, t) /\ d \in ai
      <4>1. e = Decide("block", "ai")
        BY <2>2, <2>3, <2>11, <3>2, Zenon DEF EvaluateWith
      <4>2. y = Said("ai", "block")
        BY <2>4, <2>11, <3>2 DEF PolicySaid, SaidIf, Else
      <4>3. Agrees(e, y)
        BY <2>5, <4>1, <4>2 DEF Sources, Decided
      <4>4. QED
        BY <2>1, <4>3
    <3>3. CASE ~AaaaFiltered(p, d, t) /\ d \notin ai
      <4>1. e = Undecided
        BY <2>2, <2>3, <2>11, <3>3, Zenon DEF EvaluateWith
      <4>2. y = NoCheck
        BY <2>11, <3>3 DEF PolicySaid, SaidIf, Else
      <4>3. QED
        BY <2>1, <4>1, <4>2 DEF Agrees
    <3>4. QED
      BY <3>1, <3>2, <3>3
  <2>12. QED
    BY <2>6, <2>7, <2>8, <2>9, <2>10, <2>11
<1>3. QED
  BY <1>1, <1>2

\* What a group's explanation comes to.
LEMMA GroupSaid ==
  ASSUME NEW g, NEW ls, NEW d, Len(d) \in Nat
  PROVE  LET found == Found(g, ls, d) IN
         /\ ExplainGroup(g, ls, d) \in Seq(Checks)
         /\ FirstOf(ExplainGroup(g, ls, d)) =
              IF Allows(g, d) THEN Said("group", "allow") ELSE SaidIf(found # "none", found, "block")
         /\ found # "none" => found \in Sources
<1> DEFINE found == Found(g, ls, d)
           shared == \E s \in g.blocklists : Listed(ls[s], d)
           a1 == IF Allows(g, d) THEN Check("group", "allow") ELSE <<>>
           a2 == BlockCheck(Listed(g.block, d), "group")
           a3 == BlockCheck(Listed(g.services, d), "service")
           a4 == BlockCheck(Listed(g.feeds, d), "security")
           a5 == BlockCheck(Listed(g.tlds, d), "tld")
           a6 == BlockCheck(shared, "group_blocklist")
           x1 == SaidIf(Allows(g, d), "group", "allow")
           x2 == SaidIf(Listed(g.block, d), "group", "block")
           x3 == SaidIf(Listed(g.services, d), "service", "block")
           x4 == SaidIf(Listed(g.feeds, d), "security", "block")
           x5 == SaidIf(Listed(g.tlds, d), "tld", "block")
           x6 == SaidIf(shared, "group_blocklist", "block")
           all == a1 \o a2 \o a3 \o a4 \o a5 \o a6
           said == Else(Else(Else(Else(Else(x1, x2), x3), x4), x5), x6)
<1>1. /\ "group" \in Sources /\ "service" \in Sources /\ "security" \in Sources /\ "tld" \in Sources
      /\ "group_blocklist" \in Sources
      /\ "allow" \in Decided /\ "block" \in Decided /\ "allow" \in Results
      /\ "none" \in Results /\ "none" \notin Decided
  BY DEF Sources, Decided, Results
<1>2. \A list : Listed(list, d) \in BOOLEAN
  BY DEF Listed
<1>3. a1 \in Seq(Checks) /\ FirstOf(a1) = x1
  <2>1. CASE Allows(g, d)
    BY <1>1, <2>1, SingleCheck DEF SaidIf, Said
  <2>2. CASE ~Allows(g, d)
    BY <2>2, NoChecks DEF SaidIf, Said
  <2>3. QED
    BY <2>1, <2>2
<1>4. a2 \in Seq(Checks) /\ FirstOf(a2) = x2
  BY <1>1, <1>2, FilterExplained DEF SaidIf, Said
<1>5. a3 \in Seq(Checks) /\ FirstOf(a3) = x3
  BY <1>1, <1>2, FilterExplained DEF SaidIf, Said
<1>6. a4 \in Seq(Checks) /\ FirstOf(a4) = x4
  BY <1>1, <1>2, FilterExplained DEF SaidIf, Said
<1>7. a5 \in Seq(Checks) /\ FirstOf(a5) = x5
  BY <1>1, <1>2, FilterExplained DEF SaidIf, Said
<1>8. a6 \in Seq(Checks) /\ FirstOf(a6) = x6
  <2>1. shared \in BOOLEAN
    OBVIOUS
  <2> HIDE DEF shared
  <2>2. QED
    BY <1>1, <2>1, FilterExplained DEF SaidIf, Said
<1>9. ExplainGroup(g, ls, d) = IF all = <<>> THEN Check("group", "none") ELSE all
  BY DEF ExplainGroup
<1>10. (MatchingEntry(g.block, d) # {}) <=> Listed(g.block, d)
  BY EntryListed
<1>11. found = IF Listed(g.block, d) THEN "group"
               ELSE IF Listed(g.services, d) THEN "service"
               ELSE IF Listed(g.feeds, d) THEN "security"
               ELSE IF Listed(g.tlds, d) THEN "tld"
               ELSE IF shared THEN "group_blocklist" ELSE "none"
  BY <1>10 DEF Found
<1>12. found # "none" => found \in Sources
  BY <1>1, <1>11
<1>13. said = IF Allows(g, d) THEN Said("group", "allow") ELSE SaidIf(found # "none", found, "block")
  <2>1. ASSUME NEW r PROVE /\ Said("group", r) # NoCheck /\ Said("service", r) # NoCheck
                           /\ Said("security", r) # NoCheck /\ Said("tld", r) # NoCheck
                           /\ Said("group_blocklist", r) # NoCheck
    BY <1>1, SaidIs
  <2> HIDE DEF shared, found
  <2>2. QED
    BY <1>11, <2>1 DEF Else, SaidIf
<1>14. all \in Seq(Checks) /\ FirstOf(all) = said
  <2> HIDE DEF a1, a2, a3, a4, a5, a6, x1, x2, x3, x4, x5, x6, shared, found
  <2> DEFINE b2 == a1 \o a2
             b3 == b2 \o a3
             b4 == b3 \o a4
             b5 == b4 \o a5
             b6 == b5 \o a6
             y2 == Else(x1, x2)
             y3 == Else(y2, x3)
             y4 == Else(y3, x4)
             y5 == Else(y4, x5)
             y6 == Else(y5, x6)
  <2>1. b6 = all /\ y6 = said
    OBVIOUS
  <2> HIDE DEF all, said
  <2>2. b2 \in Seq(Checks) /\ FirstOf(b2) = y2
    BY <1>3, <1>4, JoinedElse
  <2> HIDE DEF b2, y2
  <2>3. b3 \in Seq(Checks) /\ FirstOf(b3) = y3
    BY <1>5, <2>2, JoinedElse
  <2> HIDE DEF b3, y3
  <2>4. b4 \in Seq(Checks) /\ FirstOf(b4) = y4
    BY <1>6, <2>3, JoinedElse
  <2> HIDE DEF b4, y4
  <2>5. b5 \in Seq(Checks) /\ FirstOf(b5) = y5
    BY <1>7, <2>4, JoinedElse
  <2> HIDE DEF b5, y5
  <2>6. b6 \in Seq(Checks) /\ FirstOf(b6) = y6
    BY <1>8, <2>5, JoinedElse
  <2>7. QED
    BY <2>1, <2>6
<1> HIDE DEF all, said, found
<1>15. CASE all = <<>>
  <2>1. FirstOf(all) = NoCheck
    BY <1>15, NoChecks
  <2>2. Check("group", "none") \in Seq(Checks) /\ FirstOf(Check("group", "none")) = NoCheck
    BY <1>1, SingleCheck
  <2>3. QED
    BY <1>9, <1>12, <1>13, <1>14, <1>15, <2>1, <2>2 DEF found
<1>16. CASE all # <<>>
  BY <1>9, <1>12, <1>13, <1>14, <1>16 DEF found
<1>17. QED
  BY <1>15, <1>16

\* The group that decides is the one whose explanation is the first to say something.
LEMMA GroupsAgreed ==
  ASSUME NEW gs, Len(gs) \in Nat, NEW ls, NEW c, NEW d, Len(d) \in Nat, NEW l, NEW acct
  PROVE  LET y == GroupExplain(gs, ls, c, d, l, acct)
             g == GroupEvaluate(gs, ls, c, d, l, acct) IN
         /\ y \in Seq(Checks)
         /\ IF FirstOf(y) = NoCheck \/ FirstOf(y).result = "allow"
            THEN g = Undecided ELSE g.source = FirstOf(y).source
<1> DEFINE n == Len(gs)
           test(g) == Applies(g, c, l, acct) /\ (Allows(g, d) \/ Found(g, ls, d) # "none")
           I == {i \in 1 .. n : test(gs[i])}
           k == SelectInSeq(gs, LAMBDA g : Applies(g, c, l, acct) /\ (Allows(g, d) \/ Found(g, ls, d) # "none"))
           say(g) == IF ~MatchesClient(g, c, l, acct) THEN <<>>
                     ELSE IF ~g.awake THEN Check("group", "off")
                     ELSE ExplainGroup(g, ls, d)
           shown == [i \in 1 .. n |-> say(gs[i])]
           word(g) == IF Allows(g, d) THEN Said("group", "allow") ELSE Said(Found(g, ls, d), "block")
<1>1. k = IF I # {} THEN Min(I) ELSE 0
  BY DEF SelectInSeq
<1>2. GroupExplain(gs, ls, c, d, l, acct) = FlattenSeq(shown)
  BY DEF GroupExplain
<1>3. GroupEvaluate(gs, ls, c, d, l, acct) =
        IF k = 0 \/ (k # 0 /\ Allows(gs[k], d)) THEN Undecided ELSE Decide(gs[k].action, Found(gs[k], ls, d))
  BY DEF GroupEvaluate
<1>4. ASSUME NEW g
      PROVE  say(g) \in Seq(Checks) /\ FirstOf(say(g)) = IF test(g) THEN word(g) ELSE NoCheck
  <2>1. CASE ~MatchesClient(g, c, l, acct)
    <3>1. say(g) = <<>> /\ ~test(g)
      BY <2>1 DEF Applies
    <3> HIDE DEF say, test
    <3>2. QED
      BY <3>1, NoChecks
  <2>2. CASE MatchesClient(g, c, l, acct) /\ ~g.awake
    <3>1. say(g) = Check("group", "off") /\ ~test(g)
      BY <2>2 DEF Applies
    <3>2. "group" \in Sources /\ "off" \in Results /\ "off" \notin Decided
      BY DEF Sources, Results, Decided
    <3> HIDE DEF say, test
    <3>3. QED
      BY <3>1, <3>2, SingleCheck
  <2>3. CASE MatchesClient(g, c, l, acct) /\ g.awake
    <3>1. say(g) = ExplainGroup(g, ls, d) /\ (test(g) <=> (Allows(g, d) \/ Found(g, ls, d) # "none"))
      BY <2>3 DEF Applies
    <3>2. /\ ExplainGroup(g, ls, d) \in Seq(Checks)
          /\ FirstOf(ExplainGroup(g, ls, d)) =
               IF Allows(g, d) THEN Said("group", "allow") ELSE SaidIf(Found(g, ls, d) # "none", Found(g, ls, d), "block")
      BY GroupSaid
    <3> HIDE DEF say, test
    <3>3. QED
      BY <3>1, <3>2 DEF SaidIf
  <2>4. QED
    BY <2>1, <2>2, <2>3
<1>5. ASSUME NEW g, test(g)
      PROVE  /\ word(g) # NoCheck
             /\ (word(g).result = "allow") = Allows(g, d)
             /\ ~Allows(g, d) => word(g).source = Found(g, ls, d)
  <2>1. CASE Allows(g, d)
    <3>1. word(g) = Said("group", "allow") /\ "group" \in Sources
      BY <2>1 DEF Sources
    <3> HIDE DEF word
    <3>2. word(g) # NoCheck /\ word(g).result = "allow"
      BY <3>1, SaidIs
    <3>3. Allows(g, d) = TRUE
      BY <2>1 DEF Allows, Listed
    <3>4. QED
      BY <3>2, <3>3
  <2>2. CASE ~Allows(g, d)
    <3>1. word(g) = Said(Found(g, ls, d), "block") /\ Found(g, ls, d) \in Sources
      BY <1>5, <2>2, GroupSaid
    <3> HIDE DEF word
    <3>2. word(g) # NoCheck /\ word(g).result = "block" /\ word(g).source = Found(g, ls, d)
      BY <3>1, SaidIs
    <3>3. Allows(g, d) = FALSE /\ "block" # "allow"
      BY <2>2 DEF Allows, Listed
    <3>4. QED
      BY <3>2, <3>3
  <2>3. QED
    BY <2>1, <2>2
<1>6. /\ \A i \in 1 .. n : shown[i] = say(gs[i])
      /\ I \subseteq Nat \ {0} /\ I \subseteq 1 .. n /\ \A i \in 1 .. n : i \in I <=> test(gs[i])
      /\ shown = [i \in 1 .. n |-> shown[i]]
  OBVIOUS
<1> HIDE DEF shown, say, test, word, I, k
<1>7. \A i \in 1 .. n : /\ shown[i] \in Seq(Checks)
                        /\ FirstOf(shown[i]) = IF i \in I THEN word(gs[i]) ELSE NoCheck
  BY <1>4, <1>6
<1>8. FirstPart(shown, n, k) /\ (k # 0 => k \in I)
  <2>1. CASE I = {}
    BY <1>1, <1>7, <2>1 DEF FirstPart
  <2>2. CASE I # {}
    <3>1. k \in I /\ \A y \in I : k <= y
      BY <1>1, <1>6, <2>2, LeastIs
    <3>2. k \in 1 .. n /\ k # 0
      BY <1>6, <3>1
    <3>3. ASSUME NEW i \in 1 .. n, i < k PROVE FirstOf(shown[i]) = NoCheck
      BY <1>7, <3>1, <3>2, <3>3
    <3>4. FirstOf(shown[k]) # NoCheck
      BY <1>5, <1>6, <1>7, <3>1, <3>2
    <3>5. QED
      BY <3>1, <3>2, <3>3, <3>4 DEF FirstPart
  <2>3. QED
    BY <2>1, <2>2
<1>9. /\ FlattenSeq(shown) \in Seq(Checks)
      /\ FirstOf(FlattenSeq(shown)) = IF k = 0 THEN NoCheck ELSE FirstOf(shown[k])
  BY <1>6, <1>7, <1>8, PartsFirst
<1>10. CASE k = 0
  BY <1>2, <1>3, <1>9, <1>10
<1>11. CASE k # 0
  <2>1. k \in I /\ k \in 1 .. n /\ test(gs[k]) /\ FirstOf(shown[k]) = word(gs[k])
    BY <1>6, <1>7, <1>8, <1>11
  <2>2. FirstOf(FlattenSeq(shown)) = word(gs[k])
    BY <1>9, <1>11, <2>1
  <2>3. CASE Allows(gs[k], d)
    <3>1. GroupEvaluate(gs, ls, c, d, l, acct) = Undecided /\ word(gs[k]).result = "allow"
      BY <1>3, <1>5, <2>1, <2>3 DEF Allows, Listed
    <3>2. QED
      BY <1>2, <1>9, <2>2, <3>1
  <2>4. CASE ~Allows(gs[k], d)
    <3>1. /\ GroupEvaluate(gs, ls, c, d, l, acct) = Decide(gs[k].action, Found(gs[k], ls, d))
          /\ word(gs[k]).result # "allow" /\ word(gs[k]) # NoCheck /\ word(gs[k]).source = Found(gs[k], ls, d)
      BY <1>3, <1>5, <1>11, <2>1, <2>4
    <3>2. GroupEvaluate(gs, ls, c, d, l, acct).source = Found(gs[k], ls, d)
      BY <3>1 DEF Decide
    <3>3. QED
      BY <1>2, <1>9, <2>2, <3>1, <3>2
  <2>5. QED
    BY <2>3, <2>4
<1>12. QED
  BY <1>10, <1>11
----------------------------------------------------------------------------
(* What it has to do with the queries *)

\* The response policy zones let a query through that has passed them.
ZonesLet(x) ==
  x.stage = "safe" /\ ~x.trusted =>
    LET hit == CheckQuery(x.rpz, x.req.client, x.req.name) IN hit = NoHit \/ RpzLetsThrough(hit, x.req.proto)

\* What is published, and what is asked, is in an order.
Ordered == Len(policy.rules) \in Nat /\ Len(groups) \in Nat /\ (q.stage = "gates" => Len(q.req.name) \in Nat)

XInv == ZonesLet(q) /\ Ordered

\* A step of a query comes neither back to its start nor to the safe search.
Leaves == q'.stage \notin {"gates", "safe"}

LEMMA Answers ==
  ASSUME DOMAIN q = Fields
  PROVE  /\ \A resp, log : RespondWith(resp, log) => Leaves
         /\ \A data, rcode, outcome : Respond(data, rcode, outcome) => Leaves
         /\ \A rcode : Silently(rcode) => Leaves
         /\ \A action : ServeBlock(action) \/ ServeRpz(action) => Leaves
         /\ \A rcode, records : ServeAlias(rcode, records) => Leaves
         /\ \A s : Goto(s) => q'.stage = s
<1>1. \A resp, log : RespondWith(resp, log) => Leaves
  BY DEF RespondWith, Leaves, Fields
<1>2. \A data, rcode, outcome : Respond(data, rcode, outcome) => Leaves
  BY <1>1 DEF Respond
<1>3. \A rcode : Silently(rcode) => Leaves
  BY <1>1 DEF Silently
<1>4. ASSUME NEW action, ServeBlock(action) PROVE Leaves
  BY <1>2, <1>4 DEF ServeBlock
<1>5. ASSUME NEW action, ServeRpz(action) PROVE Leaves
  <2>1. \/ \E d, c : Respond(d, c, "blocked")
        \/ \E resp, log : RespondWith(resp, log)
        \/ q' = [q EXCEPT !.stage = "alias", !.alias = "rpz"]
    BY <1>5 DEF ServeRpz
  <2>2. QED
    BY <1>1, <1>2, <2>1 DEF Leaves, Fields
<1>6. ASSUME NEW rcode, NEW records, ServeAlias(rcode, records) PROVE Leaves
  BY <1>2, <1>6 DEF ServeAlias
<1>7. \A s : Goto(s) => q'.stage = s
  BY DEF Goto, Fields
<1>8. QED
  BY <1>1, <1>2, <1>3, <1>4, <1>5, <1>6, <1>7

\* All of a query's steps but the one that asks the response policy zones.
LEMMA StepsLeave ==
  ASSUME DOMAIN q = Fields, QueryStep \/ \E out \in Outcomes : AliasAnswers(out) \/ LookupAnswers(out) \/ Dns64Answers(out),
         ~RpzQuery
  PROVE  Leaves /\ UNCHANGED settings
<1>1. CASE Gates
  BY <1>1, Answers DEF Gates, Same, Leaves, Fields
<1>2. CASE Opcode
  <2>1. \/ \E resp, log : RespondWith(resp, log)
        \/ Silently("FORMERR") \/ Respond("none", "SERVFAIL", "rate_limited") \/ Goto("ddr")
    BY <1>2 DEF Opcode
  <2>2. QED
    BY <1>2, <2>1, Answers DEF Opcode, Same, Leaves
<1>3. CASE Ddr
  BY <1>3, Answers DEF Ddr, Same, Leaves
<1>4. CASE EvaluatePolicy
  BY <1>4, Answers DEF EvaluatePolicy, Same, Leaves, Fields
<1>5. CASE EvaluateGroups
  BY <1>5, Answers DEF EvaluateGroups, Same, Leaves
<1>6. CASE SafeSearch
  <2>1. \/ \E d, c, o : Respond(d, c, o)
        \/ q' = [q EXCEPT !.stage = "alias", !.alias = "safe"]
        \/ Goto("split")
    BY <1>6 DEF SafeSearch
  <2>2. QED
    BY <1>6, <2>1, Answers DEF SafeSearch, Same, Leaves, Fields
<1>7. CASE SplitHorizon \/ HandleTransfer
  BY <1>7, Answers DEF SplitHorizon, HandleTransfer, Same, Leaves
<1>8. CASE LocalZones
  <2>1. \/ \E d, c, o : Respond(d, c, o)
        \/ \E resp, log : RespondWith(resp, log)
        \/ q' = [q EXCEPT !.stage = "alias", !.alias = "zone"]
        \/ Goto("recursion")
    BY <1>8 DEF LocalZones, ServeEmptyZone
  <2>2. QED
    BY <1>8, <2>1, Answers DEF LocalZones, Same, Leaves, Fields
<1>9. CASE StartAlias \/ AliasTimeout
  BY <1>9, Answers DEF StartAlias, AliasTimeout, Same, Leaves
<1>10. CASE RecursionGate
  BY <1>10, Answers DEF RecursionGate, Leaves, Fields
<1>11. ASSUME NEW out, AfterLookup(out) PROVE Leaves
  <2>1. \/ \E s \in {"cname", "dns64"} : q' = [q EXCEPT !.stage = s, !.found = out]
        \/ \E d, c, o : Respond(d, c, o)
    BY <1>11 DEF AfterLookup
  <2>2. QED
    BY <2>1, Answers DEF Leaves, Fields
<1>12. CASE \E out \in Outcomes : ClientTimeout(out) \/ LookupAnswers(out)
  BY <1>11, <1>12 DEF ClientTimeout, LookupAnswers, Same
<1>13. CASE \E out \in Outcomes : AliasAnswers(out)
  <2>1. \E c, r : ServeAlias(c, r)
    BY <1>13 DEF AliasAnswers
  <2>2. QED
    BY <1>13, <2>1, Answers DEF AliasAnswers
<1>14. CASE InspectCnames
  BY <1>14, Answers DEF InspectCnames, Same, Leaves
<1>15. CASE \E ns \in {"found", "none", "late"} : RpzAnswer(ns)
  BY <1>15, Answers DEF RpzAnswer, Leaves
<1>16. CASE FilterResponse
  BY <1>16, Answers DEF FilterResponse, Same, Leaves
<1>17. ASSUME NEW data, NEW chain, Recursive(data, chain) PROVE Leaves
  BY <1>17, Answers DEF Recursive
<1>18. CASE Dns64 \/ Dns64Timeout
  BY <1>17, <1>18, Answers DEF Dns64, Dns64Timeout, Same, Leaves
<1>19. CASE \E out \in Outcomes : Dns64Answers(out)
  BY <1>17, <1>19 DEF Dns64Answers
<1>20. QED
  BY <1>1, <1>2, <1>3, <1>4, <1>5, <1>6, <1>7, <1>8, <1>9, <1>10, <1>12, <1>13, <1>14, <1>15, <1>16,
     <1>18, <1>19 DEF QueryStep

\* No zone has a say where there is none.
LEMMA NoZones ==
  ASSUME NEW c, NEW d
  PROVE  CheckQuery(<<>>, c, d) = NoHit
<1> DEFINE zs == <<>>
<1>1. Len(zs) = 0 /\ 1 .. Len(zs) = {}
  OBVIOUS
<1> HIDE DEF zs
<1>2. CheckQuery(zs, c, d) = NoHit
  BY <1>1 DEF CheckQuery, FirstZone, SelectInSeq
<1>3. QED
  BY <1>2 DEF zs

\* Asking them.
LEMMA RpzLeaves ==
  ASSUME DOMAIN q = Fields, RpzQuery
  PROVE  (Leaves \/ (q'.stage = "safe" /\ ZonesLet(q'))) /\ UNCHANGED settings
<1> DEFINE done == rpz = <<>> \/ q.trusted
           zones == CheckQuery(rpz, q.req.client, q.req.name)
           hit == IF done THEN NoHit ELSE zones
           through == hit # NoHit /\ RpzLetsThrough(hit, q.req.proto)
<1>1. UNCHANGED settings
  BY DEF RpzQuery, Same
<1>2. CASE hit # NoHit /\ ~through
  BY <1>1, <1>2, Answers DEF RpzQuery
<1>3. CASE ~(hit # NoHit /\ ~through)
  <2>1. q' = [q EXCEPT !.stage = "safe", !.rpz = rpz, !.rpzDone = done \/ through]
    BY <1>3 DEF RpzQuery
  <2>2. q'.stage = "safe" /\ q'.rpz = rpz /\ q'.req = q.req /\ q'.trusted = q.trusted
    BY <2>1 DEF Fields
  <2>3. rpz = <<>> => zones = NoHit
    BY NoZones
  <2>4. ~q.trusted => zones = NoHit \/ RpzLetsThrough(zones, q.req.proto)
    BY <1>3, <2>3
  <2>5. QED
    BY <1>1, <2>2, <2>4 DEF ZonesLet
<1>4. QED
  BY <1>2, <1>3

\* Every step keeps this.
LEMMA ExplainStep ==
  ASSUME QInv, XInv, [QueryNext]_queryVars
  PROVE  XInv'
<1>1. DOMAIN q = Fields
  BY DEF QInv
<1>2. ASSUME NEW r \in Requests, Arrive(r) PROVE XInv'
  <2>1. q'.stage = "gates" /\ q'.req = r /\ policy' = policy /\ groups' = groups
    BY <1>2 DEF Arrive, NewQuery, settings
  <2>2. Len(r.name) \in Nat
    <3>1. r.name \in Seq(Range(r.name))
      BY SettingsAssumption
    <3>2. QED
      BY <3>1
  <2>3. QED
    BY <2>1, <2>2 DEF XInv, ZonesLet, Ordered
<1>3. CASE QueryStep \/ \E out \in Outcomes : AliasAnswers(out) \/ LookupAnswers(out) \/ Dns64Answers(out)
  <2>1. (Leaves \/ (q'.stage = "safe" /\ ZonesLet(q'))) /\ policy' = policy /\ groups' = groups
    BY <1>1, <1>3, StepsLeave, RpzLeaves DEF settings
  <2>2. QED
    BY <2>1 DEF XInv, ZonesLet, Ordered, Leaves
<1>4. CASE TaskEnds \/ UNCHANGED queryVars
  <2>1. q' = q /\ policy' = policy /\ groups' = groups
    BY <1>4 DEF TaskEnds, settings, queryVars
  <2>2. QED
    BY <2>1 DEF XInv, ZonesLet, Ordered
<1>5. CASE Republish
  <2>1. /\ q'.stage = q.stage /\ q'.trusted = q.trusted /\ q'.rpz = q.rpz /\ q'.req = q.req
    BY <1>1, <1>5 DEF Republish, PublishPolicy, PublishPlugin, PublishGroups, PublishRpz, SwapResolver, PublishConfig, Fields
  <2>2. /\ policy' = policy \/ policy' \in PolicyChanges
        /\ groups' = groups \/ \E gs \in GroupChanges : groups' = BuildGroups(gs)
    BY <1>5 DEF Republish, PublishPolicy, PublishPlugin, PublishGroups, PublishRpz, SwapResolver, PublishConfig
  <2>3. ASSUME NEW p \in PolicyChanges PROVE Len(p.rules) \in Nat
    <3>1. p.rules \in Seq(Range(p.rules))
      BY SettingsAssumption
    <3>2. QED
      BY <3>1
  <2>4. ASSUME NEW gs \in GroupChanges PROVE Len(BuildGroups(gs)) \in Nat
    <3>1. BuildGroups(gs) \in Seq(Range(BuildGroups(gs)))
      BY SettingsAssumption
    <3>2. QED
      BY <3>1
  <2>5. Ordered'
    BY <2>1, <2>2, <2>3, <2>4 DEF XInv, Ordered
  <2>6. ZonesLet(q')
    BY <2>1 DEF XInv, ZonesLet
  <2>7. QED
    BY <2>5, <2>6 DEF XInv
<1>6. QED
  BY <1>2, <1>3, <1>4, <1>5 DEF QueryNext

LEMMA ExplainInit == QueryInit => XInv
<1> SUFFICES ASSUME QueryInit PROVE XInv
  OBVIOUS
<1>1. q.stage = "idle" /\ policy = InitialSettings.policy /\ groups = BuildGroups(InitialSettings.groups)
  BY DEF QueryInit, IdleQuery, NewQuery
<1>2. policy.rules \in Seq(Range(policy.rules)) /\ groups \in Seq(Range(groups))
  BY <1>1, SettingsAssumption
<1>3. Len(policy.rules) \in Nat /\ Len(groups) \in Nat
  BY <1>2
<1>4. QED
  BY <1>1, <1>3 DEF XInv, ZonesLet, Ordered

\* A query that has passed the filters is one its verdict lets through.
LEMMA VerdictLets ==
  ASSUME QInv, XInv, At("safe"), Unchanged
  PROVE  LET verdict == ExplainVerdict(q.req, q.account).action
         IN  verdict = "allow" \/ RpzLetsThrough(verdict, q.req.proto)
<1> DEFINE d == PolicyDecision(policy, plugin, q.req.name, q.req.type)
           g == TestVerdict(q.req, q.account)
           hit == CheckQuery(rpz, q.req.client, q.req.name)
           v == ExplainVerdict(q.req, q.account)
<1>1. q.stage = "safe" /\ q.stage \in Filtered /\ q.stage \in Passed
  BY DEF At, Filtered, Passed, RpzPast
<1>2. policy = q.policy /\ rpz = q.rpz /\ q.seenPlugin = {plugin} /\ q.seenGroups = {groups}
  BY DEF Unchanged
<1>3. d.action = "allow" /\ (q.trusted <=> IsAllowlisted(policy, q.req.name))
  BY <1>1, <1>2 DEF QInv, Path, PolicyKept, Lets, PolicyDecision
<1>4. Undecided.action = "allow"
  BY DEF Undecided, Decide
<1>5. v = IF IsAllowlisted(policy, q.req.name) THEN Undecided
          ELSE IF g.action # "allow" THEN g
          ELSE IF hit \notin {NoHit, "passthru"} THEN Decide(hit, "rpz") ELSE Undecided
  BY <1>3 DEF ExplainVerdict
<1>6. CASE IsAllowlisted(policy, q.req.name)
  BY <1>4, <1>5, <1>6
<1>7. CASE ~IsAllowlisted(policy, q.req.name)
  <2>1. g.action = "allow"
    <3>1. PICK gs \in q.seenGroups : GroupLets(gs, lists, q.req, q.account)
      BY <1>1, <1>3, <1>7 DEF QInv, Path, GroupsKept
    <3>2. QED
      BY <1>2, <1>7, <3>1 DEF GroupLets, TestVerdict
  <2>2. hit = NoHit \/ RpzLetsThrough(hit, q.req.proto)
    BY <1>1, <1>2, <1>3, <1>7 DEF XInv, ZonesLet
  <2>3. Decide(hit, "rpz").action = hit
    BY DEF Decide
  <2>4. CASE hit \notin {NoHit, "passthru"}
    <3>1. v.action = hit
      BY <1>5, <1>7, <2>1, <2>3, <2>4
    <3>2. QED
      BY <2>2, <2>4, <3>1
  <2>5. CASE hit \in {NoHit, "passthru"}
    <3>1. v = Undecided
      BY <1>5, <1>7, <2>1, <2>5
    <3>2. QED
      BY <1>4, <3>1
  <2>6. QED
    BY <2>4, <2>5
<1>8. QED
  BY <1>6, <1>7
----------------------------------------------------------------------------
(* The theorems *)

\* Before the first query.
LEMMA QueryInitInv == QueryInit => QInv
<1> SUFFICES ASSUME QueryInit PROVE QInv
  OBVIOUS
<1>1. /\ DOMAIN q = Fields /\ q.stage = "idle" /\ q.policy = policy /\ q.trusted = FALSE
      /\ q.seenPolicy = {policy}
      /\ q.seenPlugin = {plugin} /\ q.seenGroups = {groups} /\ q.seenResolver = {resolver}
      /\ q.log = <<>> /\ q.resp = NoResponse
  BY DEF QueryInit, IdleQuery, NewQuery, Fields
<1>2. Path(q, lists)
  BY <1>1 DEF Path, PolicyKept, GroupsKept, RpzKept, ResolverKept, ChainKept, Filtered, Passed, RpzPast,
     Aliased, Looked, Inspected
<1>3. QED
  BY <1>1, <1>2 DEF QInv, Current, Unanswered, Answered

\* Every step keeps what is known of the query.
LEMMA QueryStepInv ==
  ASSUME QInv, [QueryNext]_queryVars
  PROVE  QInv'
<1>1. CASE \E r \in Requests : Arrive(r)
  BY <1>1, ArriveStep
<1>2. CASE QueryStep
  BY <1>2, GatesStep, PolicyStep, GroupsStep, RpzStep, SafeStep, LocalStep, AliasStep, RecursionStep,
     LookupStep, InspectStep, AnswerChecksStep, Dns64Step DEF QueryStep
<1>3. CASE \E out \in Outcomes : AliasAnswers(out) \/ LookupAnswers(out) \/ Dns64Answers(out)
  BY <1>3, AliasStep, LookupStep, Dns64Step
<1>4. CASE TaskEnds \/ UNCHANGED queryVars
  <2>1. UNCHANGED <<policy, plugin, groups, lists, resolver, q>>
    BY <1>4 DEF TaskEnds, settings, queryVars
  <2>2. QED
    BY <2>1 DEF QInv, Current
<1>5. CASE Republish
  BY <1>5, RepublishStep
<1>6. QED
  BY <1>1, <1>2, <1>3, <1>4, <1>5 DEF QueryNext

\* What is known of a query at each of its stages holds in every run.
THEOREM QueryInvCorrect == QuerySpec => []QInv
<1>1. QInv /\ [QueryNext]_queryVars => QInv'
  BY QueryStepInv
<1>2. QED
  BY <1>1, QueryInitInv, PTL DEF QuerySpec

\* Data of a lookup is only in the response of a query that has ended.
LEMMA EndedQuery ==
  ASSUME QInv, q.resp.data # "none"
  PROVE  q.stage = "done"
BY DEF QInv, Unanswered, NoResponse

\* OneSnapshot: a resolved answer agrees with one policy that was published during the
\* query, for its name and for every name its CNAMEs lead through, however often the
\* settings are republished meanwhile.
THEOREM OneSnapshotCorrect == QuerySpec => []OneSnapshot
<1>1. QInv => OneSnapshot
  <2>1. SUFFICES ASSUME QInv, q.resp.data = "recursive" PROVE OneSnapshot
    BY DEF OneSnapshot
  <2>2. Snapshot(q)
    BY <2>1, EndedQuery DEF QInv, Answered
  <2>3. QED
    BY <2>1, <2>2 DEF Snapshot, OneSnapshot, Lets, ChainLets, PolicyAllows, PolicyDecision
<1>2. QED
  BY <1>1, QueryInvCorrect, PTL

\* GroupsHold: nothing is resolved for a client whose groups blocked the name at every
\* moment of the query, unless the name is allowlisted.
THEOREM GroupsHoldCorrect == QuerySpec => []GroupsHold
<1>1. QInv => GroupsHold
  <2>1. SUFFICES ASSUME QInv, q.resp.data \in Resolved PROVE GroupsHold
    BY DEF GroupsHold, Resolved
  <2>2. GroupsAgree(q, lists)
    BY <2>1, EndedQuery DEF QInv, Answered, Resolved
  <2>3. QED
    BY <2>1, <2>2 DEF GroupsAgree, GroupsHold, GroupLets, GroupDecision
<1>2. QED
  BY <1>1, QueryInvCorrect, PTL

\* TrustedUntouched: a name the policy in force allowlists is not answered by a block of
\* a group, a response policy zone, CNAME inspection or a response filter.
THEOREM TrustedUntouchedCorrect == QuerySpec => []TrustedUntouched
<1>1. QInv => TrustedUntouched
  BY DEF QInv, Answered, Untouched, TrustedUntouched
<1>2. QED
  BY <1>1, QueryInvCorrect, PTL

\* NotOpenResolver: data of a lookup goes only to a client that a resolver in force
\* during the query gives recursion to, or that its encrypted listener lists.
THEOREM NotOpenResolverCorrect == QuerySpec => []NotOpenResolver
<1>1. QInv => NotOpenResolver
  <2>1. SUFFICES ASSUME QInv, q.resp.data \in Resolved PROVE NotOpenResolver
    BY DEF NotOpenResolver, Resolved
  <2>2. Granted(q)
    BY <2>1, EndedQuery DEF QInv, Answered, Resolved
  <2>3. QED
    BY <2>1, <2>2 DEF Granted, NotOpenResolver
<1>2. QED
  BY <1>1, QueryInvCorrect, PTL

\* LoggedOnce: an ordinary query that has ended is in the query log exactly once, with
\* the response code that was sent.
THEOREM LoggedOnceCorrect == QuerySpec => []LoggedOnce
<1>1. QInv => LoggedOnce
  BY DEF QInv, Answered, Accounted, LogAgrees, LoggedOnce
<1>2. QED
  BY <1>1, QueryInvCorrect, PTL

\* ExplainAgrees: the console's explanation names the decision the policy and the groups
\* really take, and a query that has passed the filters is one its verdict lets through.
THEOREM ExplainAgreesCorrect == QuerySpec => []ExplainAgrees
<1>1. XInv /\ QInv /\ [QueryNext]_queryVars => XInv'
  BY ExplainStep
<1>2. QInv /\ XInv => ExplainAgrees
  <2> SUFFICES ASSUME QInv, XInv PROVE ExplainAgrees
    OBVIOUS
  <2> DEFINE r == q.req
             l == Listener(r.proto)
             e == EvaluateOn(policy, plugin[r.client], r.client, r.name, r.type, l)
             x == Explain(policy, plugin[r.client], r.client, r.name, r.type, l)
             g == GroupEvaluate(groups, lists, r.client, r.name, l, q.account)
             y == GroupExplain(groups, lists, r.client, r.name, l, q.account)
  <2>1. ASSUME At("gates")
        PROVE  /\ IF Decisive(x) = 0 THEN e = Undecided
                  ELSE /\ e.source = x[Decisive(x)].source
                       /\ (e.action = "allow") = (x[Decisive(x)].result = "allow")
               /\ IF Decisive(y) = 0 \/ (Decisive(y) # 0 /\ y[Decisive(y)].result = "allow")
                  THEN g = Undecided ELSE g.source = y[Decisive(y)].source
    <3>1. Len(policy.rules) \in Nat /\ Len(groups) \in Nat /\ Len(r.name) \in Nat
      BY <2>1 DEF XInv, Ordered, At
    <3>2. x \in Seq(Checks) /\ Agrees(e, FirstOf(x))
      BY <3>1, PolicyAgrees
    <3>3. /\ y \in Seq(Checks)
          /\ IF FirstOf(y) = NoCheck \/ FirstOf(y).result = "allow"
             THEN g = Undecided ELSE g.source = FirstOf(y).source
      BY <3>1, GroupsAgreed
    <3> HIDE DEF x, y, e, g
    <3>4. /\ Decisive(x) = 0 <=> FirstOf(x) = NoCheck
          /\ FirstOf(x) # NoCheck => FirstOf(x) = x[Decisive(x)]
          /\ Decisive(y) = 0 <=> FirstOf(y) = NoCheck
          /\ FirstOf(y) # NoCheck => FirstOf(y) = y[Decisive(y)]
      BY <3>2, <3>3, FirstIs
    <3>5. QED
      BY <3>2, <3>3, <3>4 DEF Agrees
  <2>2. QED
    BY <2>1, VerdictLets DEF ExplainAgrees
<1>3. QED
  BY <1>1, <1>2, ExplainInit, QueryInvCorrect, PTL DEF QuerySpec
=============================================================================
