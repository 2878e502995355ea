-------------------------- MODULE InstructionArray -------------------------
(***************************************************************************)
(* FillInstructionArray of MemoryBandwidth.c: an array of sizeKb KB is     *)
(* filled with NOPs or with calls, and instr_read calls its first byte.    *)
(* The array is seen as lines of 64 bytes; a line may begin with a call to *)
(* another and may end with a return.                                      *)
(***************************************************************************)
EXTENDS Integers, FiniteSets

\* NOPs all the way, with a return in the last eight bytes.
Nops(kb) ==
  [l \in 0 .. 16 * kb - 1 |-> [call |-> -1, ret |-> l = 16 * kb - 1]]

\* The first half calls into the second half, block by block; the last of
\* the calling blocks returns, and so does every block that is called.
callCount(kb) == kb * 8
CallDestination(kb, l) == 8 * kb + l
Calls(kb) ==
  [l \in 0 .. 16 * kb - 1 |->
     IF l < callCount(kb)
     THEN [call |-> CallDestination(kb, l), ret |-> l = callCount(kb) - 1]
     ELSE [call |-> -1, ret |-> TRUE]]

Layout(kb, nopSize) == IF nopSize = -1 THEN Calls(kb) ELSE Nops(kb)

\* The lines that one execution of the array fetches, from line l on.
Fetched(array) ==
  LET f[l \in DOMAIN array] ==
        {l} \union (IF array[l].call = -1 THEN {} ELSE f[array[l].call])
            \union (IF array[l].ret THEN {} ELSE f[l + 1])
  IN  f[0]

FetchedKb(kb, nopSize) == Cardinality(Fetched(Layout(kb, nopSize))) \div 16

=============================================================================
