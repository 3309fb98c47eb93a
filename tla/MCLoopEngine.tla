---------------------------- MODULE MCLoopEngine ----------------------------
(* Small instances of LoopEngine for TLC.                                    *)
EXTENDS LoopEngineClaims, TLC

CONSTANTS e1, e2

\* One loop, which two engines may drive.
OneChange == ("l1" :> "c1")

\* h1 plans and requires review, h2 does not review, h3 lets the implementer review.
Reviews == ("h1" :> "required") @@ ("h2" :> "none") @@ ("h3" :> "advisory")

\* loop: nothing to do, or two slices.
TaskLists == {<<>>, <<"a", "b">>}

\* claim_resume: two slices; the first may be ticked off.
TickedLists == {<<"a", "b">>, <<"b">>}

\* loop: engines are alike.
Symmetry == Permutations(Engines)

=============================================================================
