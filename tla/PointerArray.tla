---------------------------- MODULE PointerArray ---------------------------
(***************************************************************************)
(* RunAopTest: the random pattern is turned into an array of pointers to   *)
(* lines, which a loop goes through from its start, lap after lap.  Each   *)
(* line holds the number of its pointer, counted from 1.                   *)
(***************************************************************************)
EXTENDS PatternOps

CONSTANT LineCount  (* element_count                                       *)

VARIABLES
  pattern_arr,  (* pointer_arr[i] points to line pattern_arr[i]            *)
  pointer_idx,  (* the pointer that is followed next                       *)
  seen          (* history: the lines loaded in this lap                   *)

Lines == 0 .. LineCount - 1

Init ==
  /\ pattern_arr \in Patterns(LineCount)
  /\ pointer_idx = 0
  /\ seen = {}

\* sum += *pointer_arr[pointer_idx], and round again after the last pointer.
Load ==
  /\ seen' = (IF pointer_idx = 0 THEN {} ELSE seen) \cup {pattern_arr[pointer_idx]}
  /\ pointer_idx' = (pointer_idx + 1) % LineCount
  /\ UNCHANGED pattern_arr

-----------------------------------------------------------------------------
TypeOK == pattern_arr \in [Lines -> Lines] /\ pointer_idx \in Lines

\* A lap loads every line of the region, and none of them twice.
EveryLineOnce == pointer_idx # 0 => pattern_arr[pointer_idx] \notin seen

=============================================================================
