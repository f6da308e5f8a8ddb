----------------------------- MODULE MCServing -----------------------------
(* One instance each of the query path, of the control plane that puts new    *)
(* settings under it, of the connections queries come in on, of the limits on *)
(* how many are answered and of the AI scanner.  The query path sees a change *)
(* of settings as one step (its Republish), a query as one arrival and what   *)
(* the scanner blocks as a set of names swapped in one step, so they need not *)
(* run at once: `part`, chosen at the start, says which of them takes steps,  *)
(* and the state space is the sum and not the product of theirs.              *)
EXTENDS MCQueryPath, ControlPlane, ClientSessions, ClientThrottles, AiScanner

(* Limits: two clients, one of them on loopback, and two names below one parent. *)
Nets == ("a" :> "n") @@ ("local" :> "l")
Parents == ("x" :> "p") @@ ("y" :> "p")
Asked(name, class, udp) == [name |-> name, class |-> class, udp |-> udp]
AskedQueries == {Asked("x", "answer", TRUE), Asked("y", "nxdomain", TRUE)}
AllOn == [limits |-> TRUE, rrl |-> TRUE, logOnly |-> FALSE, cookies |-> TRUE]
Knobs == {AllOn, [AllOn EXCEPT !.rrl = FALSE], [AllOn EXCEPT !.logOnly = TRUE, !.cookies = FALSE, !.limits = FALSE]}

(* The scanner: a site, a name below it and a name of this server's own. *)
Verdict(status, cat, disputed) == [status |-> status, cat |-> cat, sure |-> 2, disputed |-> disputed]
Backends ==
    ("content" :> {Verdict("classified", "games", FALSE)})
    @@ ("threat" :> {Verdict("classified", "phishing", FALSE), Verdict("classified", "phishing", TRUE)})
FreshFor == ("content" :> 2) @@ ("threat" :> 1)
Above == ("bad" :> <<"bad">>) @@ ("www" :> <<"www", "bad">>) @@ ("own" :> <<"own">>)
Enforcing == [on |-> TRUE, enforce |-> TRUE, auto |-> {"phishing"}, least |-> 1]
ScannerSaves == {Enforcing, [Enforcing EXCEPT !.enforce = FALSE], [Enforcing EXCEPT !.on = FALSE]}
ScannerClients == {[mode |-> "inherit", cats |-> {"games"}]}

VARIABLE part

ServingInit ==
    /\ part \in {"query", "control", "sessions", "throttles", "scanner"}
    /\ QueryInit /\ CpInit /\ CsInit /\ ThInit /\ AiInit
    /\ part = "sessions" \/ csKind = "dot"
    /\ part = "scanner" \/ aiAllow = {}

ServingNext ==
    /\ UNCHANGED part
    /\ \/ part = "query" /\ QueryNext /\ UNCHANGED <<cpVars, csVars, thVars, aiVars>>
       \/ part = "control" /\ CpNext /\ UNCHANGED <<queryVars, csVars, thVars, aiVars>>
       \/ part = "sessions" /\ CsNext /\ UNCHANGED <<queryVars, cpVars, thVars, aiVars>>
       \/ part = "throttles" /\ ThNext /\ UNCHANGED <<queryVars, cpVars, csVars, aiVars>>
       \/ part = "scanner" /\ AiNext /\ UNCHANGED <<queryVars, cpVars, csVars, thVars>>

ServingSpec == ServingInit /\ [][ServingNext]_<<part, queryVars, cpVars, csVars, thVars, aiVars>>
=============================================================================
