----------------------------- MODULE PatternOps -----------------------------
(***************************************************************************)
(* The random pattern that FillPatternArr, FillPatternArr64, RunTlbTest    *)
(* and RunAopTest all build with the same loop, as operators on functions  *)
(* from 0 .. n - 1: the swap, the indexes rand() can pick, and the set of  *)
(* patterns a whole run of the loop can leave.                             *)
(***************************************************************************)
EXTENDS Integers

\* Mutants: a plain shuffle, elements that are counted from 1.
RandChoices_Shuffle(k) == 0 .. k
Identity_OneBased(n) == [i \in 0 .. n - 1 |-> i + 1]

\* j = iter - 1 == 0 ? 0 : rand() % (iter - 1), with iter already lowered to k.
RandChoices(k) == IF k = 1 THEN {0} ELSE 0 .. k - 2

Swap(a, i, j) == [a EXCEPT ![i] = a[j], ![j] = a[i]]

Identity(n) == [i \in 0 .. n - 1 |-> i]

\* Every pattern the loop can leave in an array of n elements: after[k] are
\* the arrays possible once elements k and above have been swapped.
Patterns(n) ==
  LET after[k \in 1 .. n] ==
        IF k = n
        THEN {Identity(n)}
        ELSE UNION {{Swap(a, k, j) : j \in RandChoices(k)} : a \in after[k + 1]}
  IN  after[1]

=============================================================================
