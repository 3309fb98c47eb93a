-------------------------- MODULE LoopEngineClaims --------------------------
(***************************************************************************)
(* What the repository says of loops and the code does not keep.           *)
(***************************************************************************)
EXTENDS LoopEngine

\* engine.rs:95: "so loop.resume re-enters at the first uncompleted slice".
\* What a resumed engine leaves out of the slices an earlier engine had to
\* drive passed before, under some policy.  The checkpoint counts slices of a
\* list from which the ticked ones are gone when the resume reads it again.
ReentersAtFirstUncompleted ==
    \A e, d \in Engines : pc[e] = "slicing" =>
        \A p \in 1..Len(list[e]), q \in 1..Len(list[d]) :
            d # e /\ p <= first[e] /\ list[e][p] = list[d][q] =>
                \E h \in Policies : <<Change(e), list[e][p], h>> \in passed

=============================================================================
