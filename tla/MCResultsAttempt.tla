-------------------------- MODULE MCResultsAttempt --------------------------
(* Three evaluations, so that one begins between the begin of another and   *)
(* the end of a third, and two gates.  Attempts and gates are alike.        *)
EXTENDS ResultsAttempt, TLC

CONSTANTS a1, a2, a3, g1, g2

MCAttempts == {a1, a2, a3}
MCGates == {g1, g2}

AlikeSymmetry == Permutations(MCAttempts) \cup Permutations(MCGates)
=============================================================================
