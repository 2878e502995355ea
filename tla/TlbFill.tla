------------------------------ MODULE TlbFill -------------------------------
(***************************************************************************)
(* RunTlbTest: a chase that touches one cache line in each 4 KB page.  The *)
(* line moves by one from page to page, so that the lines do not compete   *)
(* for the same set of a virtually indexed cache.                          *)
(*                                                                         *)
(* Indexes are in cache lines: the array has element_count pages of        *)
(* PageLines lines.                                                        *)
(***************************************************************************)
EXTENDS PatternOps

CONSTANTS
  PageLines,     (* pageIncrement, in lines                                *)
  ElementCounts  (* the numbers of pages tried                             *)

VARIABLES
  element_count,  (* pages in the region                                   *)
  pattern_arr,    (* the pattern of pages                                  *)
  i,              (* the page linked next                                  *)
  A,              (* the test array                                        *)
  current,        (* the chase's cursor                                    *)
  seen            (* history: the lines loaded in this lap                 *)

Pages == 0 .. element_count - 1
Lines == 0 .. element_count * PageLines - 1
Unset == -1   (* whatever malloc returned                                  *)
Poison == -2  (* the bytes of memset(A, INT_MAX, ...)                      *)

\* i * pageIncrement + ((i * 16) & (pageIncrement - 1))
LineOf(p) == p * PageLines + (p % PageLines)

Target(p) == pattern_arr[p]

\* memset(A, INT_MAX, list_size) has list_size bytes, a quarter of the array.
Init ==
  /\ element_count \in ElementCounts
  /\ pattern_arr \in Patterns(element_count)
  /\ i = 0
  /\ A = [l \in Lines |->
            IF l < (element_count * PageLines) \div 4 THEN Poison ELSE Unset]
  /\ current = 0
  /\ seen = {}

\* One turn of the loop that translates the pattern into the test array.
LinkPage ==
  /\ i < element_count
  /\ A' = [A EXCEPT ![LineOf(i)] = LineOf(Target(i))]
  /\ i' = i + 1
  /\ UNCHANGED <<element_count, pattern_arr, current, seen>>

Filled == i = element_count

\* One load of the timed loop.  A lap ends when every page was loaded.
Chase ==
  /\ Filled
  /\ current' = A[current]
  /\ seen' = (IF seen = {LineOf(p) : p \in Pages} THEN {} ELSE seen) \cup {current}
  /\ UNCHANGED <<element_count, pattern_arr, i, A>>

Next == LinkPage \/ Chase

-----------------------------------------------------------------------------
\* Type invariant: the cursor is always an element that was linked.
TypeOK ==
  /\ i \in 0 .. element_count
  /\ A \in [Lines -> Lines \cup {Unset, Poison}]
  /\ current \in {LineOf(p) : p \in Pages}

PageOf(l) == l \div PageLines

\* The chase returns to a page only after it has loaded one element of every
\* page: each load of a lap needs a translation of its own.
OneLoadPerPage ==
  Filled /\ (\E l \in seen : PageOf(l) = PageOf(current))
    => \A p \in Pages : \E l \in seen : PageOf(l) = p

\* The lines loaded from any PageLines consecutive pages have different
\* places in their pages, so they fall into different sets.
SetsSpread ==
  \A l, m \in seen :
    l # m /\ PageOf(l) - PageOf(m) \in 0 .. PageLines - 1
      => l % PageLines # m % PageLines

=============================================================================
