---------------------------- MODULE MCCoworkGate ----------------------------
(* Small instances of CoworkGate for TLC: each gives the calls their         *)
(* attributes.  Model values only where symmetry is used.                    *)
EXTENDS CoworkGateClaims, TLC

CONSTANTS c1, c2, t1, t2, r1, r2

Symmetry == Permutations(Requests)

\* gate_safety: a high-risk exec call of the turn loop and an @shell fragment, on
\* two scopes, one of which a hand-written Ask rule covers.
MixedKind == (c1 :> "exec") @@ (c2 :> "exec")
MixedPath == (c1 :> "single") @@ (c2 :> "shell")
MixedTarget == (c1 :> t1) @@ (c2 :> t2)
AskSecond == (t1 :> "none") @@ (t2 :> "ask")
DenySecond == (t1 :> "none") @@ (t2 :> "deny")

\* gate_paths: what a batch of tool calls can hold; the human may rewrite the
\* edit on t1 into one on t2, which a Deny rule covers as it covers the exec call,
\* and an allow-always on one of them truncates the file the other reads.
PathsCalls == {"role", "read", "edit", "exec"}
PathsKind == [c \in PathsCalls |->
    CASE c = "read" -> "read" [] c = "edit" -> "edit" [] OTHER -> "exec"]
PathsPath == [c \in PathsCalls |-> "batch"]
PathsTarget == [c \in PathsCalls |-> IF c = "exec" THEN t2 ELSE t1]

=============================================================================
