--------------------------- MODULE MCCoherencyRun ---------------------------
(* CoherencyRun on a machine of six processors.                            *)
EXTENDS CoherencyRun
=============================================================================
