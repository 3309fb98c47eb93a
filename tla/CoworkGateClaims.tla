-------------------------- MODULE CoworkGateClaims --------------------------
(***************************************************************************)
(* What a comment of the gate says that its code does not keep.            *)
(***************************************************************************)
EXTENDS CoworkGate

\* approve_always: "The flag is inserted *before* resolving so it is guaranteed
\* visible when the suspended intercept_tracked wakes."
FlagVisibleOnWake ==
    \A c \in Calls : \A r \in Resolvers(c) :
        pc[c] = "woken" /\ rpc[r].op = "always" => c \in always

=============================================================================
