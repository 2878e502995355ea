---------------------------- MODULE MCBouncePair ----------------------------
(* BouncePair on a small number of round trips.                            *)
EXTENDS BouncePair
=============================================================================
