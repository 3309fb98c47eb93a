-------------------------- MODULE MCSessionLedger --------------------------
(* The instances of SessionLedger for TLC: the turns are interchangeable.    *)
EXTENDS SessionLedger, TLC

CONSTANTS t1, t2, t3

Symmetry == Permutations(Turns)

=============================================================================
