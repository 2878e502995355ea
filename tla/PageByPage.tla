----------------------------- MODULE PageByPage -----------------------------
(***************************************************************************)
(* FillPageByPage and FillPageByPage64 (-pagebypage): a random pattern     *)
(* inside each page, and a random pattern of pages that leads the chase    *)
(* from one page to the next.                                              *)
(*                                                                         *)
(* Indexes are in cache lines, the stride of every caller: a page has      *)
(* PageLines lines and the array list_size lines.  The 32-bit filler       *)
(* writes into uninitialised memory (RunTest), the 64-bit one into memory  *)
(* that RunAsmTest has zeroed.                                             *)
(***************************************************************************)
EXTENDS PatternOps

CONSTANTS
  PageLines,  (* cache lines in a page                                     *)
  ListSizes,  (* the region sizes tried, in lines                          *)
  Fillers     (* the fill functions tried                                  *)

VARIABLES
  filler,          (* which of the two functions fills the array           *)
  list_size,       (* the region's size                                    *)
  pagePatternArr,  (* the pattern of pages; <<>> until it is made          *)
  page_idx,        (* the page filled next                                 *)
  filled,          (* the fill has returned                                *)
  pattern_arr,     (* the array                                            *)
  current,         (* the chase's cursor                                   *)
  seen             (* history: the lines loaded in this lap                *)

Lines == 0 .. list_size - 1
Stale == -1  (* whatever the memory held: no index of the array            *)

pageCount == list_size \div PageLines
extraPage == IF pageCount * PageLines < list_size THEN 1 ELSE 0

\* A mutant: the page's last element is taken for the one that points to 1.
EndsPage_One(v) == v = 1

OffsetInPage(v, p) == v + p * PageLines
PagesToFill == pageCount
EndsPage(v) == v = 0

Init ==
  /\ filler \in Fillers
  /\ list_size \in ListSizes
  /\ pagePatternArr = <<>>
  /\ page_idx = 0
  /\ \E memory \in IF filler = "FillPageByPage" THEN {0, Stale} ELSE {0} :
       pattern_arr = [l \in Lines |-> memory]
  /\ filled = FALSE
  /\ current = 0
  /\ seen = {}

\* Up to two pages: one pattern over the whole region.
FillSmall ==
  /\ pageCount <= 2
  /\ ~ filled
  /\ pattern_arr' \in Patterns(list_size)
  /\ filled' = TRUE
  /\ UNCHANGED <<filler, list_size, pagePatternArr, page_idx, current, seen>>

\* The pattern of pages, the extra page included.
LinkPages ==
  /\ pageCount > 2
  /\ pagePatternArr = <<>>
  /\ pagePatternArr' \in Patterns(pageCount + extraPage)
  /\ UNCHANGED <<filler, list_size, page_idx, filled, pattern_arr, current, seen>>

\* What the fill of one page leaves before it is linked, in lines from the
\* page's start.  FillPageByPage64 calls the 32-bit filler: it writes as many
\* 4-byte indexes as the page has 8-byte elements, so half the page, each
\* index counting 4-byte elements where the chase counts 8-byte ones.
PageFills ==
  IF filler = "FillPageByPage"
  THEN Patterns(PageLines)
  ELSE {[i \in 0 .. PageLines - 1 |-> IF i < PageLines \div 2 THEN 2 * f[i] ELSE 0] :
          f \in Patterns(PageLines \div 2)}

\* One turn of the page loop: fill the page, then link it.
FillPage ==
  /\ pagePatternArr # <<>>
  /\ page_idx < PagesToFill
  /\ \E f \in PageFills :
       pattern_arr' =
         [l \in Lines |->
            IF l \div PageLines # page_idx THEN pattern_arr[l]
            ELSE IF EndsPage(f[l % PageLines])
                 THEN pagePatternArr[page_idx] * PageLines
                 ELSE OffsetInPage(f[l % PageLines], page_idx)]
  /\ page_idx' = page_idx + 1
  /\ filled' = (page_idx + 1 = PagesToFill)
  /\ UNCHANGED <<filler, list_size, pagePatternArr, current, seen>>

\* One load of the timed loop.  A lap ends when every line was loaded.  A
\* stale index leads out of the array, where the load is undefined: it stops.
Chase ==
  /\ filled
  /\ current \in Lines
  /\ current' = pattern_arr[current]
  /\ seen' = (IF seen = Lines THEN {} ELSE seen) \cup {current}
  /\ UNCHANGED <<filler, list_size, pagePatternArr, page_idx, filled, pattern_arr>>

Next == FillSmall \/ LinkPages \/ FillPage \/ Chase

-----------------------------------------------------------------------------
\* Type invariant: the chase never follows an element the fill left
\* unwritten out of the region.
TypeOK ==
  /\ pattern_arr \in [Lines -> Lines \cup {Stale}]
  /\ page_idx \in 0 .. pageCount
  /\ filled \in BOOLEAN
  /\ current \in Lines
  /\ seen \in SUBSET Lines

\* The chase loads no line twice before it has loaded the whole region.
WholeFootprint == filled /\ current \in seen => seen = Lines

PageOf(l) == l \div PageLines

\* "traversal completes within one page before going to another random page"
\* (the comment on both functions): the chase leaves a page only when it has
\* loaded all of it.
LeavesOnlyFinishedPage ==
  pageCount > 2 /\ filled /\ PageOf(current') # PageOf(current)
    => \A l \in Lines : PageOf(l) = PageOf(current) => l \in seen'

=============================================================================
