--------------------------- MODULE MCResolverCache ---------------------------
(* Clients under a forwarding policy with a filtering upstream, under one that *)
(* walks from the root, and under none; and a conditional zone that one of the *)
(* settings puts over the name they ask for.                                   *)
EXTENDS ResolverCache

Filtered == [enabled |-> TRUE, clients |-> {"kid"}, backend |-> "forward", up |-> "filter"]
Walked == [enabled |-> TRUE, clients |-> {"adult"}, backend |-> "recursive", up |-> "root"]

BaseBuild ==
    [mode |-> "forwarding", up |-> "isp", policies |-> <<Filtered, Walked>>, access |-> {"kid", "adult", "guest"}, ecs |-> {"guest"},
     conditional |-> {}, stubs |-> {}, noTld |-> {},
     window |-> 1, failTtl |-> 1, maxTtl |-> 0, prefetch |-> TRUE, pct |-> 60, minQueries |-> 2, popWindow |-> 3,
     persist |-> TRUE]

OneList ==
    {BaseBuild, [BaseBuild EXCEPT !.maxTtl = 1, !.window = 0, !.failTtl = 0],
     [BaseBuild EXCEPT !.persist = FALSE, !.prefetch = FALSE, !.window = 2,
                        !.policies = <<[Walked EXCEPT !.enabled = FALSE, !.clients = {"kid"}], Filtered, Walked>>],
     [BaseBuild EXCEPT !.persist = FALSE, !.conditional = {[names |-> {"site"}, depth |-> 1, up |-> "office"]}]}

\* The same settings with another policy put first.
TwoLists ==
    {BaseBuild, [BaseBuild EXCEPT !.policies = <<[Filtered EXCEPT !.clients = {"guest"}, !.up = "open"], Filtered>>]}
=============================================================================
