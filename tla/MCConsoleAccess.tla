-------------------------- MODULE MCConsoleAccess --------------------------
(* Instances of ConsoleAccess for TLC. *)
EXTENDS ConsoleAccess, TLC

\* What administrators send: rights are taken away, or given back, or a password
\* is set and rights are taken away in one request.
SomeUpdates == {<<"viewer">>, <<"disable">>, <<"password", "viewer">>, <<"admin", "enable">>}

Symmetry == Permutations(Threads) \cup Permutations(Users)
============================================================================
