---------------------------- MODULE PatternFill -----------------------------
(***************************************************************************)
(* FillPatternArr and the pointer chase that reads what it wrote.          *)
(*                                                                         *)
(* A latency test times `current = A[current]`.  The number means nothing  *)
(* unless the chase visits the whole region: a pattern of several cycles   *)
(* would measure a smaller, faster one.  The fill starts from the identity *)
(* and swaps each element, from the last down, with a random earlier one.  *)
(*                                                                         *)
(* Elements are numbered in units of `increment` (one per cache line): the *)
(* code touches no other word of the array.                                *)
(***************************************************************************)
EXTENDS PatternOps

CONSTANT ElementCount  (* element_count, list_size / increment             *)

\* The smallest region tested is 2 KB, so there is at least one element.
ASSUME ElementCountAssumption == ElementCount \in Nat \ {0}

VARIABLES
  pattern_arr,  (* the array being filled, then chased                     *)
  iter,         (* elements 0 .. iter - 1 are still to be swapped          *)
  current,      (* the chase's cursor; element 0 until the chase starts    *)
  seen          (* history: the elements loaded in this lap                *)

vars == <<pattern_arr, iter, current, seen>>

Elements == 0 .. ElementCount - 1

\* while (iter > 1)
LoopTest(k) == k > 1

Init ==
  /\ pattern_arr = Identity(ElementCount)
  /\ iter = ElementCount
  /\ current = 0
  /\ seen = {}

\* One turn of the while loop.
SwapDown ==
  /\ LoopTest(iter)
  /\ iter' = iter - 1
  /\ \E j \in RandChoices(iter - 1) :
       pattern_arr' = Swap(pattern_arr, iter - 1, j)
  /\ UNCHANGED <<current, seen>>

Filled == ~ LoopTest(iter)

\* One load of the timed loop.  A lap ends when every element was loaded.
Chase ==
  /\ Filled
  /\ current' = pattern_arr[current]
  /\ seen' = (IF seen = Elements THEN {} ELSE seen) \cup {current}
  /\ UNCHANGED <<pattern_arr, iter>>

Next == SwapDown \/ Chase

Spec == Init /\ [][Next]_vars

-----------------------------------------------------------------------------
\* Type invariant: the array always holds indexes of its own elements.
TypeOK ==
  /\ pattern_arr \in [Elements -> Elements]
  /\ iter \in 1 .. ElementCount
  /\ current \in Elements
  /\ seen \in SUBSET Elements

\* The elements a chase that starts in S never leaves.
Closed(S) == \A x \in S : pattern_arr[x] \in S

\* The finished pattern is one cycle: a chase that starts anywhere cannot
\* stay inside a part of the region (FillPatternArr).
OneCycle ==
  Filled => \A S \in SUBSET Elements : S # {} /\ Closed(S) => S = Elements

\* No element is lost or doubled while elements are being swapped.
NoElementLost ==
  \A x, y \in Elements : pattern_arr[x] = pattern_arr[y] => x = y

\* The chase loads no element a second time before it has loaded them all,
\* so the footprint it times is the size that is reported (RunTest).
WholeFootprint == Filled /\ current \in seen => seen = Elements

=============================================================================
