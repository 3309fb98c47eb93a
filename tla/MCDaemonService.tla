-------------------------- MODULE MCDaemonService --------------------------
(* A small instance of DaemonService for TLC.                                *)
EXTENDS DaemonServiceClaims, TLC

\* A client that submits a turn behind a slow call, and one that competes with
\* it for the work channel and the only permit.
TwoKinds == ("c1" :> <<"slow", "turn">>) @@ ("c2" :> <<"turn", "loop">>)

=============================================================================
