------------------------------- MODULE MCAccess -------------------------------
(***************************************************************************)
(* Access with two browsers, two accounts and a window of two ticks.       *)
(***************************************************************************)
EXTENDS Access, TLC

CONSTANTS b1, b2, root, ana

MCBrowsers == {b1, b2}
MCUsers == {root, ana}
MCActiveValues == {TRUE, FALSE, None, Zero}

\* Browsers are alike, and only invariants are checked.
MCSymmetry == Permutations(MCBrowsers)
=============================================================================
