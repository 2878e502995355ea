---------------------------- MODULE MCMemoryTests ---------------------------
(* MemoryTests on pages of four cache lines and lines of three words.      *)
EXTENDS MemoryTests
=============================================================================
