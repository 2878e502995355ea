--------------------------- MODULE MCLoadedLatency --------------------------
(* LoadedLatency with two bandwidth threads.                               *)
EXTENDS LoadedLatency
=============================================================================
