--------------------------- MODULE MCDeltaStream ---------------------------
(* Small instances of DeltaStream for TLC.                                   *)
EXTENDS DeltaStream
=============================================================================
