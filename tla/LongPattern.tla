----------------------------- MODULE LongPattern ----------------------------
(***************************************************************************)
(* FillPatternArr64 and longpatternlatencytest (-test longpattern).  Every *)
(* 8-byte word of a cache line belongs to a chain of its own, filled with  *)
(* an independent random pattern.  The assembly loop follows one chain and *)
(* moves to the next word of the line when it is back at the first line,   *)
(* so its pattern is Words times as long as the region has lines.          *)
(***************************************************************************)
EXTENDS PatternOps

CONSTANTS
  LineCount,  (* element_count: cache lines in the region                  *)
  Words       (* increment: words in a cache line                          *)

VARIABLES
  chain,             (* chain[o]: the pattern of word o of the lines       *)
  increment_offset,  (* the word the fill is at                            *)
  r15,               (* the asm loop's pointer: <<line, word>>             *)
  rax,               (* the asm loop's index into the first line, in words *)
  seen               (* history: the words loaded in this lap              *)

Lines == 0 .. LineCount - 1
Offsets == 0 .. Words - 1

\* A mutant: the loop stays on the last word.
NextWord_Stays(o) == IF o + 1 < Words THEN o + 1 ELSE o

\* add $8, %rax; and $63, %rax
NextWord(o) == (o + 1) % Words

\* increment_offset < increment
LastOffset == Words

\* RunAsmTest zeroes the array.
Init ==
  /\ chain = [o \in Offsets |-> [l \in Lines |-> 0]]
  /\ increment_offset = 0
  /\ r15 = <<0, 0>>
  /\ rax = 0
  /\ seen = {}

\* One turn of FillPatternArr64's outer loop.
FillOffset ==
  /\ increment_offset < LastOffset
  /\ \E p \in Patterns(LineCount) :
       chain' = [chain EXCEPT ![increment_offset] = p]
  /\ increment_offset' = increment_offset + 1
  /\ UNCHANGED <<r15, rax, seen>>

Filled == increment_offset = LastOffset

Load == chain[r15[2]][r15[1]]

\* The load of the current word, which moves the pointer.
Follow(next, word) ==
  /\ r15' = <<next, word>>
  /\ seen' = (IF seen = Lines \X Offsets THEN {} ELSE seen) \cup {r15}

\* One turn of longpatternlatencytest_loop (the opening load, which is not
\* followed by the test, cannot reach the first line).
Chase ==
  /\ Filled
  /\ IF Load # 0
     THEN Follow(Load, r15[2]) /\ UNCHANGED rax
     ELSE Follow(0, NextWord(rax)) /\ rax' = NextWord(rax)
  /\ UNCHANGED <<chain, increment_offset>>

Next == FillOffset \/ Chase

-----------------------------------------------------------------------------
\* Type invariant: the index into the line stays inside it.
TypeOK ==
  /\ chain \in [Offsets -> [Lines -> Lines]]
  /\ increment_offset \in 0 .. Words
  /\ r15 \in Lines \X Offsets
  /\ rax \in Offsets
  /\ seen \in SUBSET (Lines \X Offsets)

\* The loop loads no word of the region twice before it has loaded all.
WholeFootprint == Filled /\ r15 \in seen => seen = Lines \X Offsets

=============================================================================
