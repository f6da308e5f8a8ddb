------------------------- MODULE MCSecondaryRefresh -------------------------
(* Instances of SecondaryRefresh for TLC *)
EXTENDS SecondaryRefresh

CONSTANTS m1, m2

OneMaster  == <<m1>>
TwoMasters == <<m1, m2>>
=============================================================================
