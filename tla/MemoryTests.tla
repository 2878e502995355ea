---------------------------- MODULE MemoryTests -----------------------------
(***************************************************************************)
(* main of MemoryLatency.c chooses one test by its options, which fills    *)
(* the array its own way and then chases through it.  This module composes *)
(* the tests: a run of the program executes one of them.  The plain random *)
(* fill is the module PatternFill, which this one extends; the others      *)
(* share the array, the region's size and the cursor.                      *)
(***************************************************************************)
EXTENDS PatternFill, Sequences

CONSTANTS
  Tests,           (* the tests that main may be asked for                 *)
  PageLines,       (* cache lines in a page                                *)
  ListSizes,       (* -pagebypage: the region sizes, in lines              *)
  ElementCounts,   (* tlb: the numbers of pages                            *)
  MlpLines,        (* mlp: lines in the region                             *)
  MaxParallelism,  (* mlp: the most chains tried (mlpTest, 32)             *)
  LineCount,       (* longpattern: lines in the region                     *)
  Words            (* longpattern: words in a cache line                   *)

\* No region tested is smaller than 2 KB, which is 32 lines, and main tries
\* at most 32 chains.
ASSUME MemoryTestsAssumption ==
  /\ Tests \subseteq {"FillPatternArr", "FillPageByPage", "FillPageByPage64",
                      "RunTlbTest", "RunMlpTest", "RunAopTest", "longpattern"}
  /\ PageLines \in Nat \ {0} /\ PageLines % 2 = 0
  /\ ListSizes \subseteq Nat \ {0}
  /\ ElementCounts \subseteq Nat \ {0}
  /\ MlpLines \in Nat /\ MaxParallelism \in 1 .. MlpLines
  /\ LineCount \in Nat \ {0, 1} /\ Words \in Nat \ {0}

VARIABLES
  test,    (* the test main runs                                           *)
  size,    (* how large the region is, or how many chains are run          *)
  arr,     (* the test array                                               *)
  pages,   (* the pattern of pages, where the test makes one               *)
  idx,     (* the page or word filled next, or the chain that loads next   *)
  aux,     (* the fill has returned, or the index into the first line      *)
  cursor,  (* where the chase is                                           *)
  lap      (* history: what was loaded in this lap                         *)

mainVars == <<test, size, arr, pages, idx, aux, cursor, lap>>

PageByPage == INSTANCE PageByPage WITH
  Fillers <- Tests \intersect {"FillPageByPage", "FillPageByPage64"},
  filler <- test, list_size <- size, pagePatternArr <- pages, page_idx <- idx,
  filled <- aux, pattern_arr <- arr, current <- cursor, seen <- lap

Tlb == INSTANCE TlbFill WITH
  element_count <- size, pattern_arr <- pages, i <- idx, A <- arr,
  current <- cursor, seen <- lap

Mlp == INSTANCE MlpChase WITH
  LineCount <- MlpLines,
  parallelism <- size, A <- arr, offsets <- cursor, j <- idx, loaded <- lap

Long == INSTANCE LongPattern WITH
  chain <- arr, increment_offset <- idx, r15 <- cursor, rax <- aux,
  seen <- lap

Aop == INSTANCE PointerArray WITH
  LineCount <- MlpLines, pattern_arr <- arr, pointer_idx <- cursor, seen <- lap

None == <<>>  (* a variable the test does not have                         *)

Paged == test \in {"FillPageByPage", "FillPageByPage64"}

\* Its own test, or none: then the plain fill's array waits unused.
MainInit ==
  /\ Init
  /\ \/ /\ test \in Tests \intersect {"FillPatternArr"}
        /\ size = None /\ arr = None /\ pages = None /\ idx = None
        /\ aux = None /\ cursor = None /\ lap = None
     \/ /\ test \in Tests \intersect {"FillPageByPage", "FillPageByPage64"}
        /\ PageByPage!Init
     \/ /\ test \in Tests \intersect {"RunTlbTest"}
        /\ aux = None /\ Tlb!Init
     \/ /\ test \in Tests \intersect {"RunMlpTest"}
        /\ pages = None /\ aux = None /\ Mlp!Init
     \/ /\ test \in Tests \intersect {"RunAopTest"}
        /\ size = None /\ pages = None /\ idx = None /\ aux = None /\ Aop!Init
     \/ /\ test \in Tests \intersect {"longpattern"}
        /\ size = None /\ pages = None /\ Long!Init

MainNext ==
  \/ test = "FillPatternArr" /\ Next /\ UNCHANGED mainVars
  \/ /\ UNCHANGED vars
     /\ \/ Paged /\ PageByPage!Next
        \/ test = "RunTlbTest" /\ Tlb!Next /\ UNCHANGED <<test, aux>>
        \/ test = "RunMlpTest" /\ Mlp!Load /\ UNCHANGED <<test, pages, aux>>
        \/ test = "RunAopTest" /\ Aop!Load /\ UNCHANGED <<test, size, pages, idx, aux>>
        \/ test = "longpattern" /\ Long!Next /\ UNCHANGED <<test, size, pages>>

MainSpec == MainInit /\ [][MainNext]_<<vars, mainVars>>

-----------------------------------------------------------------------------
\* Type invariant: the state of the test that runs has its type; no cursor
\* leaves the region and every chase stays on elements the fill has written.
MainTypeOK ==
  /\ TypeOK
  /\ Paged => PageByPage!TypeOK
  /\ test = "RunTlbTest" => Tlb!TypeOK
  /\ test = "RunMlpTest" => Mlp!TypeOK
  /\ test = "RunAopTest" => Aop!TypeOK
  /\ test = "longpattern" => Long!TypeOK

\* The latency is printed for a region of a certain size: every chase loads
\* nothing twice before it has loaded the whole region, or, in the TLB test,
\* an element of every page (RunTest, RunAsmTest, RunTlbTest).
LapIsWhole ==
  /\ Paged => PageByPage!WholeFootprint
  /\ test = "RunTlbTest" => Tlb!OneLoadPerPage
  /\ test = "longpattern" => Long!WholeFootprint

\* One load is not served, nor its line evicted, by another: the chains of
\* RunMlpTest and the pointers of RunAopTest load different lines in a round,
\* and RunTlbTest's lines on neighbouring pages are in different cache sets.
LoadsIndependent ==
  /\ test = "RunTlbTest" => Tlb!SetsSpread
  /\ test = "RunMlpTest" => Mlp!IndependentChains
  /\ test = "RunAopTest" => Aop!EveryLineOnce

\* "traversal completes within one page before going to another random page"
\* (the comment on FillPageByPage and FillPageByPage64): the chase leaves a
\* page only when it has loaded all of it.
PageLocality == [][Paged => PageByPage!LeavesOnlyFinishedPage]_<<vars, mainVars>>

=============================================================================
