------------------------ MODULE DaemonServiceClaims ------------------------
(***************************************************************************)
(* What a comment of the RPC client says and the code does not keep.       *)
(***************************************************************************)
EXTENDS DaemonService

\* Client::call: "Send a request and return the result value, or an RpcError
\* from the server".  The result is that request's.
OwnAnswer == \A c \in Clients : \A k \in Calls : got[c][k] \in {0, k}

=============================================================================
