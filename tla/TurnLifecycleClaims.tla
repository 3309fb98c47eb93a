------------------------ MODULE TurnLifecycleClaims ------------------------
(* What a comment says of the life of a turn and the code does not keep.     *)
EXTENDS TurnLifecycle

\* acp.rs: "spawn_worker picks up the Started event and calls run_turn".  So
\* a prompt submitted over ACP is run.
AcpPromptsRun == \A t \in Turns :
    (sub[t] = "streaming") ~> (run[t] # "none" \/ crashes > 0)

=============================================================================
