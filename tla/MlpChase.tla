------------------------------ MODULE MlpChase -----------------------------
(***************************************************************************)
(* RunMlpTest: parallelism chases through one pattern, taken in turns, to  *)
(* measure memory level parallelism.  The chains start at neighbouring     *)
(* lines.  Indexes are in cache lines.                                     *)
(***************************************************************************)
EXTENDS PatternOps, FiniteSets

CONSTANTS
  LineCount,       (* lines in the region                                  *)
  MaxParallelism   (* mlpTest: main tries 1 .. mlpTest chains              *)

VARIABLES
  parallelism,  (* the chains of this measurement                          *)
  A,            (* the pattern                                             *)
  offsets,      (* offsets[j]: the cursor of chain j                       *)
  j,            (* the chain that loads next                               *)
  loaded        (* history: the lines loaded in this round                 *)

Lines == 0 .. LineCount - 1
Chains == 0 .. parallelism - 1

\* A mutant: the chains start at the same line.
StartOf_Same(c) == 0

\* offsets[i] = i * (CACHELINE_SIZE / sizeof(uint32_t))
StartOf(c) == c

Init ==
  /\ parallelism \in 1 .. MaxParallelism
  /\ A \in Patterns(LineCount)
  /\ offsets = [c \in Chains |-> StartOf(c)]
  /\ j = 0
  /\ loaded = {}

\* offsets[j] = A[offsets[j]]: one turn of the inner loop; a round ends with
\* the last chain.
Load ==
  /\ offsets' = [offsets EXCEPT ![j] = A[@]]
  /\ j' = (j + 1) % parallelism
  /\ loaded' = (IF j = 0 THEN {} ELSE loaded) \cup {offsets[j]}
  /\ UNCHANGED <<parallelism, A>>

-----------------------------------------------------------------------------
\* Type invariant: no chain starts or ends up outside the region.
TypeOK ==
  /\ offsets \in [Chains -> Lines]
  /\ j \in Chains
  /\ loaded \in SUBSET Lines

\* "independent pointer chasing chains": the loads of a round go to as many
\* different lines as there are chains, so none can be served by another's.
IndependentChains == j # 0 => Cardinality(loaded) = j /\ offsets[j] \notin loaded

=============================================================================
