-------------------------- MODULE MCTurnLifecycle --------------------------
(* Small instances of TurnLifecycle for TLC.                                 *)
EXTENDS TurnLifecycleClaims, TLC

CONSTANTS t1, t2

\* turn_pair: two submissions contend for a work channel of capacity one.
RpcTurns == (t1 :> "rpc") @@ (t2 :> "rpc")

\* turn_life and claim_acp_prompt: one submission over each transport.
MixedTurns == (t1 :> "rpc") @@ (t2 :> "acp")

TwoProviders == (t1 :> 2) @@ (t2 :> 2)

\* turn_pair: the second turn finds no provider at all.
OneWithout == (t1 :> 2) @@ (t2 :> 0)

=============================================================================
