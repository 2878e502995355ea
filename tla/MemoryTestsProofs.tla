-------------------------- MODULE MemoryTestsProofs -------------------------
(***************************************************************************)
(* Proofs about the memory latency tests for regions of any size and       *)
(* whatever rand() returns.  OperatorLemmas has what they need to know of  *)
(* patterns; here each test adds how it lays a pattern out in memory and   *)
(* what a lap through it has loaded.                                       *)
(***************************************************************************)
EXTENDS MemoryTests, OperatorLemmas

-----------------------------------------------------------------------------
\* The tests share the operators on patterns.
LEMMA SamePatterns ==
  ASSUME NEW n
  PROVE  /\ Aop!Patterns(n) = Ops!Patterns(n)
         /\ Mlp!Patterns(n) = Ops!Patterns(n)
         /\ Tlb!Patterns(n) = Ops!Patterns(n)
         /\ Long!Patterns(n) = Ops!Patterns(n)
         /\ PageByPage!Patterns(n) = Ops!Patterns(n)
<1>1. Aop!Patterns(n) = Ops!Patterns(n)
  BY DEF Aop!Patterns, Aop!Swap, Aop!RandChoices, Aop!Identity,
         Ops!Patterns, Ops!Swap, Ops!RandChoices, Ops!Identity
<1>2. Mlp!Patterns(n) = Ops!Patterns(n)
  BY DEF Mlp!Patterns, Mlp!Swap, Mlp!RandChoices, Mlp!Identity,
         Ops!Patterns, Ops!Swap, Ops!RandChoices, Ops!Identity
<1>3. Tlb!Patterns(n) = Ops!Patterns(n)
  BY DEF Tlb!Patterns, Tlb!Swap, Tlb!RandChoices, Tlb!Identity,
         Ops!Patterns, Ops!Swap, Ops!RandChoices, Ops!Identity
<1>4. Long!Patterns(n) = Ops!Patterns(n)
  BY DEF Long!Patterns, Long!Swap, Long!RandChoices, Long!Identity,
         Ops!Patterns, Ops!Swap, Ops!RandChoices, Ops!Identity
<1>5. PageByPage!Patterns(n) = Ops!Patterns(n)
  BY DEF PageByPage!Patterns, PageByPage!Swap, PageByPage!RandChoices, PageByPage!Identity,
         Ops!Patterns, Ops!Swap, Ops!RandChoices, Ops!Identity
<1>6. QED
  BY <1>1, <1>2, <1>3, <1>4, <1>5

-----------------------------------------------------------------------------
(* The plain random fill.                                                  *)

FillInv ==
  /\ TypeOK
  /\ Merged(pattern_arr, ElementCount, iter)
  /\ seen # {} => Filled
  /\ Path(pattern_arr, seen, current)

LEMMA ElementsAre == Elements = Span(ElementCount) /\ ElementCount \in Nat \ {0}
  BY ElementCountAssumption DEF Elements, Span

LEMMA FillInitially == Init => FillInv
<1> SUFFICES ASSUME Init PROVE FillInv
  OBVIOUS
<1>1. Merged(pattern_arr, ElementCount, iter)
  BY IdentityMerged, ElementsAre DEF Init, Identity, Ops!Identity
<1>2. TypeOK
  BY <1>1, ElementsAre, SMT DEF Init, TypeOK, Merged, Permutes, Span
<1>3. QED
  BY <1>1, <1>2 DEF Init, FillInv, Path

LEMMA SwapDownKeeps == FillInv /\ SwapDown => FillInv'
<1> SUFFICES ASSUME FillInv, SwapDown PROVE FillInv'
  OBVIOUS
<1> DEFINE k == iter - 1
<1>1. /\ k \in 1 .. ElementCount - 1 /\ iter' = k /\ iter = k + 1
      /\ k \in 1 .. ElementCount
  BY ElementsAre, SMT DEF FillInv, TypeOK, SwapDown, LoopTest
<1>2. PICK j \in Ops!RandChoices(k) : pattern_arr' = Ops!Swap(pattern_arr, k, j)
  BY DEF SwapDown, Swap, RandChoices, Ops!Swap, Ops!RandChoices
<1> HIDE DEF k
<1>3. Merged(pattern_arr', ElementCount, iter')
  BY <1>1, <1>2, ElementsAre, SwapMerges DEF FillInv
<1>4. TypeOK'
  BY <1>1, <1>3, ElementsAre DEF FillInv, TypeOK, SwapDown, Merged, Permutes
<1>5. seen = {} /\ seen' = {}
  BY DEF FillInv, Filled, SwapDown
<1>6. QED
  BY <1>3, <1>4, <1>5 DEF FillInv, Path

LEMMA ChaseKeeps == FillInv /\ Chase => FillInv'
<1> SUFFICES ASSUME FillInv, Chase PROVE FillInv'
  OBVIOUS
<1>1. TypeOK'
  BY DEF FillInv, TypeOK, Chase
<1>2. Path(pattern_arr', seen', current')
  BY PathGoesOn DEF FillInv, Chase
<1>3. QED
  BY <1>1, <1>2 DEF FillInv, Chase, Filled

LEMMA FillStutters == FillInv /\ UNCHANGED vars => FillInv'
  BY DEF FillInv, TypeOK, Filled, vars

LEMMA FillKept == FillInv /\ [Next]_vars => FillInv'
  BY SwapDownKeeps, ChaseKeeps, FillStutters DEF Next

\* With the last swap made, the pattern is one cycle.
LEMMA FilledIsCyclic ==
  ASSUME FillInv, Filled
  PROVE  Cyclic(pattern_arr, ElementCount)
<1>1. iter = 1
  BY ElementsAre, SMT DEF FillInv, TypeOK, Filled, LoopTest
<1>2. QED
  BY <1>1, ElementsAre, MergedIsCyclic DEF FillInv

LEMMA FillIsOneCycle == FillInv => OneCycle
  BY FilledIsCyclic, ElementsAre DEF OneCycle, Cyclic, ClosedIn, Closed

LEMMA Invariant == Spec => []FillInv
  BY FillInitially, FillKept, PTL DEF Spec

\* FillPatternArr only ever stores indexes of its own elements, for every
\* region size.
THEOREM TypeCorrect == Spec => []TypeOK
<1>1. FillInv => TypeOK  BY DEF FillInv
<1> QED  BY <1>1, Invariant, PTL

\* No element is lost or doubled by the swaps.
THEOREM ElementsKept == Spec => []NoElementLost
<1>1. FillInv => NoElementLost
  BY ElementsAre DEF FillInv, NoElementLost, Merged, Permutes
<1> QED  BY <1>1, Invariant, PTL

\* The timed loop loads no element twice before it has loaded every one.
THEOREM FootprintIsWhole == Spec => []WholeFootprint
<1>1. FillInv => WholeFootprint
  <2> SUFFICES ASSUME FillInv, Filled, current \in seen PROVE seen = Elements
    BY DEF WholeFootprint
  <2>1. seen \in SUBSET Span(ElementCount) /\ Path(pattern_arr, seen, current)
    BY ElementsAre DEF FillInv, TypeOK
  <2>2. QED
    BY <2>1, FilledIsCyclic, LapCloses, ElementsAre
<1> QED  BY <1>1, Invariant, PTL

-----------------------------------------------------------------------------
(* RunAopTest and RunMlpTest.                                              *)

LEMMA MlpLinesType == MlpLines \in Nat \ {0} /\ MaxParallelism \in 1 .. MlpLines
  BY MemoryTestsAssumption, SMT

AopInv ==
  /\ Permutes(arr, MlpLines)
  /\ cursor \in Span(MlpLines)
  /\ cursor # 0 => lap = {arr[i] : i \in Span(cursor)}

LEMMA AopInitially ==
  ASSUME Aop!Init PROVE AopInv
<1>1. Permutes(arr, MlpLines)
  BY MlpLinesType, SamePatterns, PatternsAreCyclic DEF Aop!Init, Cyclic
<1>2. 0 \in Span(MlpLines)
  BY MlpLinesType, SMT DEF Span
<1>3. QED
  BY <1>1, <1>2 DEF Aop!Init, AopInv

LEMMA AopKept ==
  ASSUME AopInv, Aop!Load PROVE AopInv'
<1>1. cursor' = IF cursor + 1 = MlpLines THEN 0 ELSE cursor + 1
  BY MlpLinesType, NextTurn DEF AopInv, Aop!Load
<1>2. cursor' \in Span(MlpLines)
  BY <1>1, MlpLinesType, SMT DEF AopInv, Span
<1>3. ASSUME cursor' # 0 PROVE lap' = {arr[i] : i \in Span(cursor')}
  <2>1. Span(cursor') = Span(cursor) \cup {cursor} /\ (cursor = 0 => Span(cursor) = {})
    BY <1>1, <1>3, MlpLinesType, SMT DEF AopInv, Span
  <2>2. CASE cursor = 0
    BY <2>1, <2>2 DEF Aop!Load
  <2>3. CASE cursor # 0
    BY <2>1, <2>3 DEF AopInv, Aop!Load
  <2>4. QED
    BY <2>2, <2>3
<1>4. QED
  BY <1>2, <1>3 DEF AopInv, Aop!Load

LEMMA AopTypes == AopInv => Aop!TypeOK
  BY DEF AopInv, Permutes, Span, Aop!TypeOK, Aop!Lines

\* The lines of a lap are those of the pointers before the next one.
LEMMA AopOnce == AopInv => Aop!EveryLineOnce
<1> SUFFICES ASSUME AopInv, cursor # 0, arr[cursor] \in lap PROVE FALSE
  BY DEF Aop!EveryLineOnce
<1>1. PICK i \in Span(cursor) : arr[cursor] = arr[i]
  BY DEF AopInv
<1>2. i \in Span(MlpLines) /\ i # cursor
  BY MlpLinesType, SMT DEF AopInv, Span
<1>3. QED
  BY <1>1, <1>2 DEF AopInv, Permutes

\* Where the chains were when the round began: those before the next one have
\* moved on from there.
RoundFrom(s) ==
  /\ s \in [Span(size) -> Span(MlpLines)]
  /\ \A b, c \in Span(size) : s[b] = s[c] => b = c
  /\ \A c \in Span(size) : cursor[c] = IF c < idx THEN arr[s[c]] ELSE s[c]
  /\ idx # 0 => lap = {s[c] : c \in Span(idx)}

MlpInv ==
  /\ size \in 1 .. MaxParallelism
  /\ Permutes(arr, MlpLines)
  /\ idx \in Span(size)
  /\ cursor \in [Span(size) -> Span(MlpLines)]
  /\ lap \in SUBSET Span(MlpLines)
  /\ \E s : RoundFrom(s)

LEMMA MlpInitially ==
  ASSUME Mlp!Init PROVE MlpInv
<1>1. Permutes(arr, MlpLines)
  BY MlpLinesType, SamePatterns, PatternsAreCyclic DEF Mlp!Init, Cyclic
<1>2. size \in 1 .. MaxParallelism /\ idx = 0 /\ lap = {}
  BY DEF Mlp!Init
<1>3. /\ 0 \in Span(size) /\ Span(size) \subseteq Span(MlpLines)
      /\ \A c \in Span(size) : ~ c < 0
  BY <1>2, MlpLinesType, SMT DEF Span
<1>4. cursor = [c \in Span(size) |-> c]
  BY DEF Mlp!Init, Mlp!Chains, Mlp!StartOf, Span
<1>5. RoundFrom(cursor) /\ cursor \in [Span(size) -> Span(MlpLines)]
  BY <1>2, <1>3, <1>4 DEF RoundFrom
<1>6. QED
  BY <1>1, <1>2, <1>3, <1>5 DEF MlpInv

LEMMA MlpKept ==
  ASSUME MlpInv, Mlp!Load PROVE MlpInv'
<1> PICK s : RoundFrom(s)
  BY DEF MlpInv
<1>1. /\ size \in Nat \ {0} /\ idx \in Span(size) /\ idx \in Nat
      /\ size' = size /\ arr' = arr
  BY SMT DEF MlpInv, Mlp!Load, Span
<1>2. idx' = IF idx + 1 = size THEN 0 ELSE idx + 1
  BY <1>1, NextTurn DEF Mlp!Load
<1>3. idx' \in Span(size)
  BY <1>1, <1>2, SMT DEF Span
<1>4. /\ cursor' = [cursor EXCEPT ![idx] = arr[cursor[idx]]]
      /\ cursor[idx] = s[idx] /\ s[idx] \in Span(MlpLines)
      /\ arr[s[idx]] \in Span(MlpLines)
  <2>1. cursor[idx] = s[idx]
    BY <1>1, SMT DEF RoundFrom
  <2>2. QED
    BY <1>1, <2>1 DEF MlpInv, RoundFrom, Permutes, Mlp!Load
<1>5. cursor' \in [Span(size) -> Span(MlpLines)] /\ cursor'[idx] = arr[s[idx]]
  BY <1>1, <1>4 DEF MlpInv
<1>6. lap' = (IF idx = 0 THEN {} ELSE lap) \cup {s[idx]}
  BY <1>4 DEF Mlp!Load
<1>7. CASE idx + 1 = size
  <2>1. \A c \in Span(size) : cursor'[c] = arr[s[c]]
    <3> TAKE c \in Span(size)
    <3>1. c = idx \/ c < idx
      BY <1>1, <1>7, SMT DEF Span
    <3>2. CASE c = idx
      BY <1>5, <3>2
    <3>3. CASE c # idx
      BY <1>4, <3>1, <3>3 DEF MlpInv, RoundFrom
    <3>4. QED
      BY <3>2, <3>3
  <2>2. idx' = 0 /\ \A c \in Span(size) : ~ c < 0
    BY <1>2, <1>7, SMT DEF Span
  <2>3. \A b, c \in Span(size) : cursor'[b] = cursor'[c] => b = c
    BY <2>1 DEF MlpInv, Permutes, RoundFrom
  <2>4. ASSUME NEW t, t = cursor' PROVE RoundFrom(t)'
    BY <1>1, <1>5, <2>2, <2>3, <2>4 DEF RoundFrom
  <2>5. QED
    BY <1>1, <1>3, <1>4, <1>5, <1>6, <2>4 DEF MlpInv
<1>8. CASE idx + 1 # size
  <2>1. idx' = idx + 1 /\ idx' # 0
    BY <1>1, <1>2, <1>8, SMT
  <2>2. \A c \in Span(size) : cursor'[c] = IF c < idx' THEN arr[s[c]] ELSE s[c]
    <3> TAKE c \in Span(size)
    <3>1. c < idx' <=> c = idx \/ c < idx
      BY <1>1, <2>1, SMT DEF Span
    <3>2. CASE c = idx
      BY <1>5, <3>1, <3>2
    <3>3. CASE c # idx
      BY <1>4, <3>1, <3>3 DEF MlpInv, RoundFrom
    <3>4. QED
      BY <3>2, <3>3
  <2>3. lap' = {s[c] : c \in Span(idx')}
    <3>1. Span(idx') = Span(idx) \cup {idx} /\ (idx = 0 => Span(idx) = {})
      BY <1>1, <2>1, SMT DEF Span
    <3>2. QED
      BY <1>6, <3>1 DEF RoundFrom
  <2>4. RoundFrom(s)'
    BY <1>1, <2>2, <2>3 DEF RoundFrom
  <2>5. QED
    BY <1>1, <1>3, <1>4, <1>5, <1>6, <2>4 DEF MlpInv
<1>9. QED
  BY <1>7, <1>8

LEMMA MlpTypes == MlpInv => Mlp!TypeOK
  BY DEF MlpInv, Span, Mlp!TypeOK, Mlp!Lines, Mlp!Chains

\* No two chains are at the same line when a round begins.
LEMMA MlpIndependent == MlpInv => Mlp!IndependentChains
<1> SUFFICES ASSUME MlpInv, idx # 0
             PROVE  Cardinality(lap) = idx /\ cursor[idx] \notin lap
  BY DEF Mlp!IndependentChains, Mlp!Cardinality, Cardinality
<1> PICK s : RoundFrom(s)
  BY DEF MlpInv
<1>1. /\ idx \in Nat /\ idx \in Span(size) /\ ~ idx < idx /\ idx \notin Span(idx)
      /\ Span(idx) \subseteq Span(size)
  BY SMT DEF MlpInv, Span
<1>2. lap = {s[c] : c \in Span(idx)} /\ cursor[idx] = s[idx]
  BY <1>1 DEF RoundFrom
<1>3. cursor[idx] \notin lap
  BY <1>1, <1>2 DEF RoundFrom
<1> DEFINE f == [c \in Span(idx) |-> s[c]]
<1>4. f \in Bijection(Span(idx), lap)
  <2>1. f \in [Span(idx) -> lap]
    BY <1>2
  <2>2. \A b, c \in Span(idx) : f[b] = f[c] => b = c
    BY <1>1 DEF RoundFrom
  <2>3. \A x \in lap : \E c \in Span(idx) : f[c] = x
    BY <1>2
  <2> HIDE DEF f
  <2>4. f \in Injection(Span(idx), lap) /\ f \in Surjection(Span(idx), lap)
    BY <2>1, <2>2, <2>3 DEF Injection, IsInjective, Surjection
  <2>5. QED
    BY <2>4 DEF Bijection
<1>5. ExistsBijection(Span(idx), lap)
  BY <1>4 DEF ExistsBijection
<1>6. Cardinality(lap) = idx
  BY <1>1, <1>5, SpanFinite, FS_Bijection
<1>7. QED
  BY <1>3, <1>6


-----------------------------------------------------------------------------
(* RunTlbTest.                                                             *)

\* The line of page q that is loaded.
PlaceIn(q) == q * PageLines + (q % PageLines)

LEMMA PageLinesType == PageLines \in Nat \ {0} /\ PageLines % 2 = 0
  BY MemoryTestsAssumption

\* A line below a page's bound is in the page.
LEMMA BelowPage ==
  ASSUME NEW q \in Nat, NEW n \in Nat, q < n, NEW r \in 0 .. PageLines - 1
  PROVE  q * PageLines + r \in Span(n * PageLines)
<1>1. /\ n - q - 1 \in Nat /\ PageLines \in Nat
  BY PageLinesType, SMT
<1>2. /\ (n - q - 1) * PageLines \in Nat
      /\ (n - q - 1) * PageLines = n * PageLines - q * PageLines - PageLines
  BY <1>1, SMT
<1>3. q * PageLines \in Nat /\ n * PageLines \in Nat
  BY <1>1, SMT
<1>4. QED
  BY <1>1, <1>2, <1>3, SMT DEF Span

LEMMA Places ==
  ASSUME NEW q \in Nat
  PROVE  /\ PlaceIn(q) \div PageLines = q
         /\ PlaceIn(q) % PageLines = q % PageLines
         /\ \A n \in Nat : q < n => PlaceIn(q) \in Span(n * PageLines)
         /\ Tlb!LineOf(q) = PlaceIn(q)
<1>1. q % PageLines \in 0 .. PageLines - 1
  BY PageLinesType, Division
<1>2. QED
  BY <1>1, PageLinesType, Quotient, BelowPage DEF PlaceIn, Tlb!LineOf

\* Pages closer than the lines of a page have different remainders.
LEMMA Remainders ==
  ASSUME NEW a \in Nat, NEW b \in Nat, a # b, a - b \in 0 .. PageLines - 1
  PROVE  a % PageLines # b % PageLines
<1> DEFINE n == PageLines
           qa == a \div n
           qb == b \div n
<1>1. SUFFICES ASSUME a % n = b % n PROVE FALSE
  OBVIOUS
<1>2. /\ n \in Nat \ {0} /\ qa \in Nat /\ qb \in Nat
      /\ a % n \in 0 .. n - 1
      /\ a = n * qa + (a % n) /\ b = n * qb + (b % n)
  BY PageLinesType, Division
<1>3. a - b \in 1 .. n - 1
  BY SMT
<1> HIDE DEF n, qa, qb
<1>4. n * qa \in Nat /\ n * qb \in Nat
  BY <1>2, SMT
<1>5. a - b = n * qa - n * qb
  BY <1>1, <1>2, <1>4, SMT
<1>6. CASE qa <= qb
  <2>1. qb - qa \in Nat
    BY <1>2, <1>6, SMT
  <2>2. n * (qb - qa) \in Nat /\ n * (qb - qa) = n * qb - n * qa
    BY <1>2, <2>1, SMT
  <2>3. QED
    BY <1>3, <1>4, <1>5, <2>2, SMT
<1>7. CASE ~ qa <= qb
  <2>1. qa - qb - 1 \in Nat
    BY <1>2, <1>7, SMT
  <2>2. /\ n * (qa - qb - 1) \in Nat
        /\ n * (qa - qb - 1) = n * qa - n * qb - n
    BY <1>2, <2>1, SMT
  <2>3. QED
    BY <1>2, <1>3, <1>4, <1>5, <2>2, SMT
<1>8. QED
  BY <1>6, <1>7

PlacesIn(S) == {PlaceIn(q) : q \in S}

\* The lap has loaded the pages in S, and the cursor is in page at.
TlbAt(S, at) ==
  /\ cursor = PlaceIn(at)
  /\ lap = PlacesIn(S)
  /\ S # {} => idx = size
  /\ Path(pages, S, at)

TlbInv ==
  /\ size \in Nat \ {0}
  /\ Cyclic(pages, size)
  /\ idx \in 0 .. size
  /\ arr \in [Span(size * PageLines) -> Span(size * PageLines) \cup {-1, -2}]
  /\ \A q \in Span(idx) : arr[PlaceIn(q)] = PlaceIn(pages[q])
  /\ \E S \in SUBSET Span(size), at \in Span(size) : TlbAt(S, at)

LEMMA SpanIn ==
  ASSUME NEW n \in Nat, NEW q \in Span(n)
  PROVE  q \in Nat /\ q < n
  BY SMT DEF Span

LEMMA TlbInitially ==
  ASSUME Tlb!Init PROVE TlbInv
<1>1. size \in Nat \ {0} /\ idx = 0 /\ cursor = 0 /\ lap = {}
  BY MemoryTestsAssumption DEF Tlb!Init
<1>2. Cyclic(pages, size)
  BY <1>1, SamePatterns, PatternsAreCyclic DEF Tlb!Init
<1>3. arr \in [Span(size * PageLines) -> Span(size * PageLines) \cup {-1, -2}]
  BY DEF Tlb!Init, Tlb!Lines, Span, Tlb!Poison, Tlb!Unset
<1>4. 0 \in Span(size) /\ Span(0) = {} /\ idx \in 0 .. size
  BY <1>1, SMT DEF Span
<1>5. PlaceIn(0) = 0
  <2>1. PlaceIn(0) = 0 * PageLines + (0 % PageLines)
    BY DEF PlaceIn
  <2>2. 0 \in 0 .. PageLines - 1 /\ 0 \in Nat /\ 0 * PageLines + 0 = 0
    BY PageLinesType, SMT
  <2>3. (0 * PageLines + 0) % PageLines = 0
    BY <2>2, PageLinesType, Quotient
  <2>4. QED
    BY <2>1, <2>2, <2>3
<1>6. TlbAt({}, 0)
  BY <1>1, <1>5 DEF TlbAt, PlacesIn, Path
<1>7. QED
  BY <1>1, <1>2, <1>3, <1>4, <1>6 DEF TlbInv

\* One page is linked to the next of the pattern.
LEMMA LinkPageKeeps ==
  ASSUME TlbInv, Tlb!LinkPage PROVE TlbInv'
<1>1. /\ size \in Nat \ {0} /\ idx \in Span(size) /\ idx # size
      /\ idx' = idx + 1 /\ idx' \in 0 .. size
      /\ size' = size /\ pages' = pages /\ cursor' = cursor /\ lap' = lap
      /\ Span(idx') = Span(idx) \cup {idx} /\ Span(idx) \subseteq Span(size)
      /\ idx \in Nat /\ idx \notin Span(idx)
  BY SMT DEF TlbInv, Tlb!LinkPage, Span
<1>2. pages[idx] \in Span(size)
  BY <1>1 DEF TlbInv, Cyclic, Permutes
<1>3. pages[idx] \in Nat /\ pages[idx] < size /\ idx < size /\ size \in Nat
  BY <1>1, <1>2, SpanIn
<1>4. /\ arr' = [arr EXCEPT ![PlaceIn(idx)] = PlaceIn(pages[idx])]
      /\ PlaceIn(idx) \in Span(size * PageLines)
      /\ PlaceIn(pages[idx]) \in Span(size * PageLines)
  BY <1>1, <1>3, Places DEF Tlb!LinkPage, Tlb!Target
<1>5. arr' \in [Span(size * PageLines) -> Span(size * PageLines) \cup {-1, -2}]
  BY <1>4 DEF TlbInv
<1>6. \A q \in Span(idx') : arr'[PlaceIn(q)] = PlaceIn(pages[q])
  <2> TAKE q \in Span(idx')
  <2>1. CASE q = idx
    BY <1>4, <2>1 DEF TlbInv
  <2>2. CASE q # idx
    <3>1. q \in Span(idx) /\ q \in Span(size) /\ q \in Nat
      BY <1>1, <2>2, SpanIn
    <3>2. PlaceIn(q) # PlaceIn(idx)
      BY <1>1, <2>2, <3>1, Places
    <3>3. PlaceIn(q) \in Span(size * PageLines)
      BY <1>1, <3>1, SpanIn, Places
    <3>4. arr'[PlaceIn(q)] = arr[PlaceIn(q)]
      BY <1>4, <3>2, <3>3 DEF TlbInv
    <3>5. QED
      BY <3>1, <3>4 DEF TlbInv
  <2>3. QED
    BY <2>1, <2>2
<1>7. PICK S \in SUBSET Span(size), at \in Span(size) : TlbAt(S, at)
  BY DEF TlbInv
<1>8. S = {}
  BY <1>1, <1>7 DEF TlbAt
<1>9. TlbAt(S, at)'
  BY <1>1, <1>7, <1>8 DEF TlbAt
<1>10. QED
  BY <1>1, <1>5, <1>6, <1>7, <1>9 DEF TlbInv

LEMMA TlbChaseKeeps ==
  ASSUME TlbInv, Tlb!Chase PROVE TlbInv'
<1> PICK S \in SUBSET Span(size), at \in Span(size) : TlbAt(S, at)
  BY DEF TlbInv
<1>1. /\ idx = size /\ idx' = idx /\ size' = size /\ pages' = pages /\ arr' = arr
  BY DEF Tlb!Chase, Tlb!Filled
<1>2. /\ arr[PlaceIn(at)] = PlaceIn(pages[at]) /\ pages[at] \in Span(size)
  BY <1>1 DEF TlbInv, Cyclic, Permutes
<1>3. cursor' = PlaceIn(pages[at])
  BY <1>2 DEF Tlb!Chase, TlbAt
<1>4. PICK R \in {{}, S} : lap' = PlacesIn(R) \cup {PlaceIn(at)}
  <2>1. lap' = {} \cup {cursor} \/ lap' = lap \cup {cursor}
    BY DEF Tlb!Chase
  <2>2. PlacesIn({}) = {}
    BY DEF PlacesIn
  <2>3. QED
    BY <2>1, <2>2 DEF TlbAt
<1> DEFINE T == R \cup {at}
<1>5. T \in SUBSET Span(size) /\ lap' = PlacesIn(T)
  BY <1>4 DEF PlacesIn
<1>6. Path(pages, T, pages[at])
  BY <1>4 DEF TlbAt, Path
<1> HIDE DEF T
<1>7. TlbAt(T, pages[at])'
  <2>1. ASSUME NEW next, next = pages[at] PROVE TlbAt(T, next)'
    BY <1>1, <1>3, <1>5, <1>6, <2>1 DEF TlbAt
  <2>2. pages[at]' = pages[at]
    BY <1>1
  <2>3. QED
    BY <1>1, <1>3, <1>5, <1>6, <2>2 DEF TlbAt
<1>8. QED
  BY <1>1, <1>2, <1>5, <1>7 DEF TlbInv

LEMMA TlbTypes == TlbInv => Tlb!TypeOK
<1> SUFFICES ASSUME TlbInv PROVE Tlb!TypeOK
  OBVIOUS
<1>1. PICK S \in SUBSET Span(size), at \in Span(size) : TlbAt(S, at)
  BY DEF TlbInv
<1>2. at \in Nat /\ at \in Tlb!Pages
  BY SpanIn DEF TlbInv, Tlb!Pages, Span
<1>3. cursor \in {Tlb!LineOf(p) : p \in Tlb!Pages}
  BY <1>1, <1>2, Places DEF TlbAt
<1>4. QED
  BY <1>3 DEF TlbInv, Tlb!TypeOK, Tlb!Lines, Span, Tlb!Poison, Tlb!Unset

\* A page that is loaded again was the first of the lap.
LEMMA TlbOnce == TlbInv => Tlb!OneLoadPerPage
<1> SUFFICES ASSUME TlbInv, NEW l \in lap, Tlb!PageOf(l) = Tlb!PageOf(cursor),
                    NEW p \in Tlb!Pages
             PROVE  \E m \in lap : Tlb!PageOf(m) = p
  BY DEF Tlb!OneLoadPerPage
<1>1. PICK S \in SUBSET Span(size), at \in Span(size) : TlbAt(S, at)
  BY DEF TlbInv
<1>2. PICK q \in S : l = PlaceIn(q)
  BY <1>1 DEF TlbAt, PlacesIn
<1>3. /\ q \in Nat /\ at \in Nat /\ p \in Nat /\ p \in Span(size)
  BY SpanIn DEF TlbInv, Tlb!Pages, Span
<1>4. q = at
  BY <1>1, <1>2, <1>3, Places DEF TlbAt, Tlb!PageOf
<1>5. S = Span(size)
  BY <1>1, <1>2, <1>4, LapCloses DEF TlbInv, TlbAt
<1>6. PlaceIn(p) \in lap /\ Tlb!PageOf(PlaceIn(p)) = p
  BY <1>1, <1>3, <1>5, Places DEF TlbAt, PlacesIn, Tlb!PageOf
<1>7. QED
  BY <1>6

LEMMA TlbSpread == TlbInv => Tlb!SetsSpread
<1> SUFFICES ASSUME TlbInv, NEW l \in lap, NEW m \in lap, l # m,
                    Tlb!PageOf(l) - Tlb!PageOf(m) \in 0 .. PageLines - 1
             PROVE  l % PageLines # m % PageLines
  BY DEF Tlb!SetsSpread
<1>1. PICK S \in SUBSET Span(size), at \in Span(size) : TlbAt(S, at)
  BY DEF TlbInv
<1>2. PICK a \in S : l = PlaceIn(a)
  BY <1>1 DEF TlbAt, PlacesIn
<1>3. PICK b \in S : m = PlaceIn(b)
  BY <1>1 DEF TlbAt, PlacesIn
<1>4. a \in Nat /\ b \in Nat /\ a # b
  BY <1>2, <1>3, SpanIn DEF TlbInv
<1>5. a - b \in 0 .. PageLines - 1
  BY <1>2, <1>3, <1>4, Places DEF Tlb!PageOf
<1>6. QED
  BY <1>2, <1>3, <1>4, <1>5, Places, Remainders

-----------------------------------------------------------------------------
(* The long pattern.                                                       *)

AllWords == Span(LineCount) \X Span(Words)

\* The lap has loaded the words before this one in all lines, and this one in
\* the lines of S, which it went through from the first.
LongLap(loads, S) ==
  /\ loads \in SUBSET AllWords
  /\ \A l \in Span(LineCount), w \in Span(Words) :
       <<l, w>> \in loads <=> w < aux \/ (w = aux /\ l \in S)
  /\ S \in SUBSET Span(LineCount)
  /\ Path(arr[aux], S, cursor[1])
  /\ \A l \in S : arr[aux][l] # 0
  /\ 0 \in S \cup {cursor[1]}

LongInv ==
  /\ idx \in 0 .. Words
  /\ arr \in [Span(Words) -> [Span(LineCount) -> Span(LineCount)]]
  /\ \A w \in Span(idx) : Cyclic(arr[w], LineCount)
  /\ aux \in Span(Words)
  /\ cursor = <<cursor[1], aux>> /\ cursor[1] \in Span(LineCount)
  /\ idx # Words => lap = {} /\ cursor = <<0, 0>> /\ aux = 0
  /\ \E loads, S : (lap = loads \/ (lap = AllWords /\ loads = {})) /\ LongLap(loads, S)

LEMMA LongType ==
  /\ LineCount \in Nat \ {0} /\ Words \in Nat \ {0}
  /\ 0 \in Span(LineCount) /\ 1 \in Span(LineCount) /\ 0 \in Span(Words)
  /\ \A w \in Span(Words) : w \in Nat /\ w < Words /\ ~ w < w /\ ~ w < 0
  BY MemoryTestsAssumption, SMT DEF Span

LEMMA EmptyLap ==
  ASSUME cursor[1] = 0, aux = 0
  PROVE  LongLap({}, {})
  BY LongType DEF LongLap, Path

LEMMA LongInitially ==
  ASSUME Long!Init PROVE LongInv
<1>1. /\ idx = 0 /\ cursor = <<0, 0>> /\ aux = 0 /\ lap = {} /\ cursor[1] = 0
      /\ idx \in 0 .. Words /\ Span(0) = {}
  BY LongType, SMT DEF Long!Init, Span
<1>2. arr \in [Span(Words) -> [Span(LineCount) -> Span(LineCount)]]
  BY LongType DEF Long!Init, Long!Lines, Long!Offsets, Span
<1>3. LongLap({}, {})
  BY <1>1, EmptyLap
<1>4. QED
  BY <1>1, <1>2, <1>3, LongType DEF LongInv

LEMMA FillOffsetKeeps ==
  ASSUME LongInv, Long!FillOffset PROVE LongInv'
<1>1. /\ idx \in Span(Words) /\ idx # Words /\ idx' = idx + 1 /\ idx' \in 0 .. Words
      /\ Span(idx') = Span(idx) \cup {idx} /\ idx \notin Span(idx)
      /\ Span(idx) \subseteq Span(Words)
      /\ cursor' = cursor /\ aux' = aux /\ lap' = lap
  BY LongType, SMT DEF LongInv, Long!FillOffset, Long!LastOffset, Span
<1>2. PICK p \in Ops!Patterns(LineCount) : arr' = [arr EXCEPT ![idx] = p]
  BY SamePatterns DEF Long!FillOffset
<1>3. Cyclic(p, LineCount) /\ p \in [Span(LineCount) -> Span(LineCount)]
  BY LongType, PatternsAreCyclic DEF Cyclic, Permutes
<1>4. arr' \in [Span(Words) -> [Span(LineCount) -> Span(LineCount)]]
  BY <1>1, <1>2, <1>3 DEF LongInv
<1>5. \A w \in Span(idx') : Cyclic(arr'[w], LineCount)
  <2> TAKE w \in Span(idx')
  <2>1. CASE w = idx
    <3>1. arr'[w] = p
      BY <1>1, <1>2, <2>1 DEF LongInv
    <3>2. QED
      BY <1>3, <3>1
  <2>2. CASE w # idx
    <3>1. w \in Span(idx) /\ arr'[w] = arr[w]
      BY <1>1, <1>2, <2>2 DEF LongInv
    <3>2. QED
      BY <3>1 DEF LongInv
  <2>3. QED
    BY <2>1, <2>2
<1>6. lap = {} /\ cursor = <<0, 0>> /\ aux = 0 /\ cursor[1] = 0
  BY <1>1 DEF LongInv
<1>7. LongLap({}, {})'
  BY <1>1, <1>6, LongType DEF LongLap, Path
<1>8. QED
  BY <1>1, <1>4, <1>5, <1>6, <1>7 DEF LongInv

\* Where the chase is has not been loaded.
LEMMA NotLoaded ==
  ASSUME LongInv, NEW loads, NEW S, LongLap(loads, S),
         idx = Words
  PROVE  cursor \notin loads
<1>1. Cyclic(arr[aux], LineCount)
  BY DEF LongInv
<1>2. ASSUME cursor[1] \in S PROVE FALSE
  <2>1. S = Span(LineCount)
    BY <1>1, <1>2, LapCloses DEF LongLap
  <2> DEFINE T == Span(LineCount) \ {0}
  <2>2. ClosedIn(arr[aux], T) /\ 1 \in T
    BY <1>1, <2>1, LongType DEF LongLap, ClosedIn, Cyclic, Permutes
  <2>3. T = Span(LineCount)
    BY <1>1, <2>2 DEF Cyclic
  <2>4. QED
    BY <2>3, LongType
<1>3. QED
  BY <1>2, LongType DEF LongInv, LongLap

LEMMA LongChaseKeeps ==
  ASSUME LongInv, Long!Chase PROVE LongInv'
<1>1. /\ idx = Words /\ idx' = idx /\ arr' = arr
  BY DEF Long!Chase, Long!Filled, Long!LastOffset
<1> DEFINE l == cursor[1]
           p == arr[aux]
<1>2. /\ Cyclic(p, LineCount) /\ l \in Span(LineCount) /\ p[l] \in Span(LineCount)
      /\ cursor = <<l, aux>> /\ cursor[2] = aux /\ Long!Load = p[l]
      /\ aux \in Span(Words)
  BY <1>1 DEF LongInv, Cyclic, Permutes, Long!Load
<1> PICK loads, S : /\ lap = loads \/ (lap = AllWords /\ loads = {})
                    /\ LongLap(loads, S)
  BY DEF LongInv
<1>3. cursor \notin loads /\ cursor \in AllWords
  BY <1>1, <1>2, NotLoaded DEF AllWords
<1>4. lap' = loads \cup {<<l, aux>>}
  <2>1. lap' = (IF lap = AllWords THEN {} ELSE lap) \cup {cursor}
    BY DEF Long!Chase, Long!Follow, AllWords, Long!Lines, Long!Offsets, Span
  <2>2. lap # AllWords => lap = loads
    OBVIOUS
  <2>3. lap = AllWords => loads = {}
    BY <1>3
  <2>4. QED
    BY <1>2, <2>1, <2>2, <2>3
<1> HIDE DEF l, p
<1>5. CASE p[l] # 0
  <2>1. cursor' = <<p[l], aux>> /\ aux' = aux /\ cursor'[1] = p[l]
    BY <1>2, <1>5 DEF Long!Chase, Long!Follow
  <2>2. ASSUME NEW q, NEW next, NEW more, NEW T, q = p, next = p[l],
               more = loads \cup {<<l, aux>>}, T = S \cup {l}
        PROVE  LongLap(more, T)'
    <3>1. more \in SUBSET AllWords
      BY <1>2, <1>3, <2>2 DEF LongLap
    <3>2. ASSUME NEW m \in Span(LineCount), NEW w \in Span(Words)
          PROVE  <<m, w>> \in more <=> w < aux \/ (w = aux /\ m \in T)
      <4>1. <<m, w>> \in loads <=> w < aux \/ (w = aux /\ m \in S)
        BY DEF LongLap
      <4>2. QED
        BY <2>2, <4>1, LongType, <1>2
    <3>3. T \in SUBSET Span(LineCount) /\ 0 \in T
      BY <1>2, <2>2 DEF LongLap, l
    <3>4. \A m \in T : q[m] # 0 /\ q[m] \in T \cup {next}
      BY <1>5, <2>2 DEF LongLap, Path, l, p
    <3>5. arr[aux]' = q /\ cursor[1]' = next /\ aux' = aux
      BY <1>1, <2>1, <2>2 DEF p
    <3>6. QED
      BY <3>1, <3>2, <3>3, <3>4, <3>5 DEF LongLap, Path, AllWords
  <2>3. QED
    BY <1>1, <1>2, <1>4, <2>1, <2>2 DEF LongInv
<1>6. CASE p[l] = 0
  <2>1. /\ aux' = IF aux + 1 = Words THEN 0 ELSE aux + 1
        /\ cursor' = <<0, aux'>> /\ cursor'[1] = 0
    <3>1. (aux + 1) % Words = IF aux + 1 = Words THEN 0 ELSE aux + 1
      BY <1>2, LongType, NextTurn
    <3>2. QED
      BY <1>2, <1>6, <3>1 DEF Long!Chase, Long!Follow, Long!NextWord
  <2>2. aux' \in Span(Words)
    BY <1>2, <2>1, LongType, SMT DEF Span
  <2> DEFINE T == S \cup {l}
  <2>3. T = Span(LineCount)
    <3>1. ClosedIn(p, T) /\ T \in SUBSET Span(LineCount) /\ T # {}
      BY <1>2, <1>6 DEF LongLap, ClosedIn, Path, l, p
    <3>2. QED
      BY <1>2, <3>1 DEF Cyclic
  <2>4. lap' \in SUBSET AllWords
    BY <1>2, <1>3, <1>4 DEF LongLap
  <2>5. \A m \in Span(LineCount), w \in Span(Words) : <<m, w>> \in lap' <=> w < aux + 1
    <3> TAKE m \in Span(LineCount), w \in Span(Words)
    <3>1. <<m, w>> \in loads <=> w < aux \/ (w = aux /\ m \in S)
      BY DEF LongLap
    <3>2. w < aux + 1 <=> w < aux \/ w = aux
      BY <1>2, LongType, SMT
    <3>3. m = l \/ m \in S
      BY <2>3
    <3>4. QED
      BY <1>2, <1>4, <3>1, <3>2, <3>3, LongType
  <2>6. CASE aux + 1 = Words
    <3>1. lap' = AllWords
      BY <2>4, <2>5, <2>6, LongType DEF AllWords
    <3>2. aux' = 0
      BY <2>1, <2>6
    <3>3. LongLap({}, {})'
      BY <1>1, <2>1, <3>2, LongType DEF LongLap, Path
    <3>4. AllWords' = AllWords
      BY DEF AllWords
    <3>5. QED
      BY <1>1, <1>2, <2>1, <2>2, <3>1, <3>3, <3>4, LongType DEF LongInv
  <2>7. CASE aux + 1 # Words
    <3>1. aux' = aux + 1
      BY <2>1, <2>7
    <3>2. ASSUME NEW more, more = lap' PROVE LongLap(more, {})'
      <4>1. \A w \in Span(Words) : w # aux' \/ ~ w < aux'
        BY <2>2, LongType
      <4>2. \A m \in Span(LineCount), w \in Span(Words) : <<m, w>> \in more <=> w < aux'
        BY <2>5, <3>1, <3>2
      <4>3. QED
        BY <1>1, <2>1, <2>4, <3>2, <4>2, LongType DEF LongLap, Path, AllWords
    <3>3. QED
      BY <1>1, <1>2, <2>1, <2>2, <3>2, LongType DEF LongInv
  <2>8. QED
    BY <2>6, <2>7
<1>7. QED
  BY <1>5, <1>6

LEMMA LongTypes == LongInv => Long!TypeOK
<1> SUFFICES ASSUME LongInv PROVE Long!TypeOK
  OBVIOUS
<1>1. lap \in SUBSET AllWords
  BY DEF LongInv, LongLap
<1>2. cursor \in AllWords
  BY DEF LongInv, AllWords
<1>3. QED
  BY <1>1, <1>2 DEF LongInv, AllWords, Span, Long!TypeOK, Long!Lines, Long!Offsets

\* A word that is loaded again ends the lap.
LEMMA LongWhole == LongInv => Long!WholeFootprint
<1> SUFFICES ASSUME LongInv, idx = Words, cursor \in lap PROVE lap = AllWords
  BY DEF Long!WholeFootprint, Long!Filled, Long!LastOffset, AllWords, Long!Lines,
         Long!Offsets, Span
<1> PICK loads, S : /\ lap = loads \/ (lap = AllWords /\ loads = {})
                    /\ LongLap(loads, S)
  BY DEF LongInv
<1>1. cursor \notin loads
  BY NotLoaded
<1>2. QED
  BY <1>1

-----------------------------------------------------------------------------
(* The pattern of FillPageByPage.                                          *)

\* Regions of at least three pages end with a page (FillPageByPage links an
\* extra page that it does not fill), and the 64-bit filler, which fills half
\* of each page, is left out.
WholePages ==
  /\ "FillPageByPage64" \notin Tests
  /\ \A s \in ListSizes : s \div PageLines <= 2 \/ s % PageLines = 0

PageCount == size \div PageLines

Address(q, r) == q * PageLines + r

LEMMA PageType ==
  /\ PageLines \in Nat \ {0} /\ 0 \in Span(PageLines) /\ 1 \in Span(PageLines)
<1>1. PageLines # 1
  <2>1. 1 \in 0 .. 2 - 1 /\ 0 * 2 + 1 = 1 /\ 2 \in Nat \ {0} /\ 0 \in Nat
    BY SMT
  <2>2. (0 * 2 + 1) % 2 = 1
    BY <2>1, Quotient
  <2>3. QED
    BY <2>1, <2>2, PageLinesType
<1>2. QED
  BY <1>1, PageLinesType, SMT DEF Span

LEMMA Addresses ==
  ASSUME NEW n \in Nat, NEW q \in Span(n), NEW r \in Span(PageLines)
  PROVE  /\ Address(q, r) \in Span(n * PageLines)
         /\ Address(q, r) \div PageLines = q
         /\ Address(q, r) % PageLines = r
<1>1. q \in Nat /\ q < n /\ r \in 0 .. PageLines - 1
  BY SpanIn DEF Span
<1>2. QED
  BY <1>1, BelowPage, PageLinesType, Quotient DEF Address

LEMMA Located ==
  ASSUME NEW n \in Nat, NEW l \in Span(n * PageLines)
  PROVE  /\ l \div PageLines \in Span(n) /\ l % PageLines \in Span(PageLines)
         /\ l = Address(l \div PageLines, l % PageLines)
<1> DEFINE b == PageLines
           q == l \div b
           r == l % b
<1>1. b \in Nat \ {0} /\ n * b \in Nat
  BY PageLinesType, SMT
<1>2. l \in Nat /\ l < n * b
  BY <1>1, SMT DEF Span
<1>3. q \in Nat /\ r \in 0 .. b - 1 /\ l = b * q + r
  BY <1>1, <1>2, Division
<1> HIDE DEF b, q, r
<1>4. b * q \in Nat /\ q * b = b * q
  BY <1>1, <1>3, SMT
<1>5. q < n
  <2>1. SUFFICES ASSUME ~ q < n PROVE FALSE
    OBVIOUS
  <2>2. q - n \in Nat
    BY <1>3, <2>1, SMT
  <2>3. (q - n) * b \in Nat /\ (q - n) * b = b * q - n * b
    BY <1>1, <1>3, <2>2, SMT
  <2>4. QED
    BY <1>1, <1>2, <1>3, <1>4, <2>3, SMT
<1>6. q \in Span(n) /\ r \in Span(b) /\ l = q * b + r
  BY <1>1, <1>3, <1>4, <1>5, SMT DEF Span
<1>7. QED
  BY <1>6 DEF b, q, r, Address

\* Page q is filled with the cycle f and linked to the next page.
PageDone(q, f) ==
  /\ Cyclic(f, PageLines)
  /\ \A r \in Span(PageLines) :
       arr[Address(q, r)] = IF f[r] = 0 THEN Address(pages[q], 0) ELSE Address(q, f[r])

\* The lap has loaded the pages in Q, and of page at the lines in S, which it
\* went through from the page's first line; it is at line r of the page.
PagedLap(loads, Q, at, f, S, r) ==
  /\ loads \in SUBSET Span(size)
  /\ at \in Span(PageCount) /\ r \in Span(PageLines) /\ cursor = Address(at, r)
  /\ Q \in SUBSET Span(PageCount) /\ S \in SUBSET Span(PageLines)
  /\ \A q \in Span(PageCount), x \in Span(PageLines) :
       Address(q, x) \in loads <=> q \in Q \/ (q = at /\ x \in S)
  /\ at \notin Q /\ Path(pages, Q, at)
  /\ aux => PageDone(at, f)
  /\ Path(f, S, r)
  /\ \A x \in S : f[x] # 0
  /\ 0 \in S \cup {r}

SmallInv ==
  /\ pages = <<>>
  /\ aux => Cyclic(arr, size)
  /\ Path(arr, lap, cursor)

LargeInv ==
  /\ size = PageCount * PageLines
  /\ pages = <<>> => idx = 0
  /\ pages # <<>> => Cyclic(pages, PageCount)
  /\ aux <=> idx = PageCount
  /\ \A q \in Span(idx) : \E f : PageDone(q, f)
  /\ \E loads, Q, at, f, S, r :
       /\ lap = loads \/ (lap = Span(size) /\ loads = {})
       /\ PagedLap(loads, Q, at, f, S, r)

PagedInv ==
  /\ test = "FillPageByPage"
  /\ size \in Nat \ {0}
  /\ PageCount <= 2 \/ size = PageCount * PageLines
  /\ arr \in [Span(size) -> Span(size) \cup {-1}]
  /\ idx \in 0 .. PageCount
  /\ aux \in BOOLEAN
  /\ cursor \in Span(size)
  /\ lap \in SUBSET Span(size)
  /\ ~ aux => cursor = 0 /\ lap = {}
  /\ IF PageCount <= 2 THEN SmallInv ELSE LargeInv

LEMMA PageCountType ==
  ASSUME size \in Nat \ {0}
  PROVE  PageCount \in Nat /\ PageByPage!pageCount = PageCount
  BY PageLinesType, Division DEF PageCount, PageByPage!pageCount

LEMMA PagedInitially ==
  ASSUME WholePages, test \in Tests, PageByPage!Init PROVE PagedInv
<1>1. test = "FillPageByPage"
  BY DEF WholePages, PageByPage!Init
<1>2. /\ size \in ListSizes /\ size \in Nat \ {0}
      /\ pages = <<>> /\ idx = 0 /\ aux = FALSE /\ cursor = 0 /\ lap = {}
  BY MemoryTestsAssumption DEF PageByPage!Init
<1>3. /\ PageCount \in Nat /\ idx \in 0 .. PageCount /\ 0 \in Span(size)
      /\ Span(0) = {} /\ idx = 0
  BY <1>2, PageCountType, SMT DEF Span
<1>4. arr \in [Span(size) -> Span(size) \cup {-1}]
  BY <1>3 DEF PageByPage!Init, PageByPage!Lines, PageByPage!Stale, Span
<1>5. PageCount <= 2 \/ size = PageCount * PageLines
  <2>1. SUFFICES ASSUME size % PageLines = 0 PROVE size = PageCount * PageLines
    BY <1>2 DEF WholePages, PageCount
  <2>2. size = PageLines * PageCount + 0
    BY <1>2, <2>1, PageLinesType, Division DEF PageCount
  <2>3. QED
    BY <1>3, <2>2, PageLinesType, SMT
<1>6. PageCount <= 2 => SmallInv
  BY <1>2 DEF SmallInv, Path
<1>7. ASSUME ~ PageCount <= 2 PROVE LargeInv
  <2>1. 0 \in Span(PageCount) /\ 0 # PageCount /\ Address(0, 0) = 0
    BY <1>3, <1>7, PageLinesType, SMT DEF Span, Address
  <2>2. PagedLap({}, {}, 0, <<>>, {}, 0)
    BY <1>2, <2>1, PageType DEF PagedLap, Path
  <2>3. QED
    BY <1>2, <1>3, <1>5, <1>7, <2>1, <2>2 DEF LargeInv
<1>8. QED
  BY <1>1, <1>2, <1>3, <1>4, <1>5, <1>6, <1>7 DEF PagedInv

LEMMA FillSmallKeeps ==
  ASSUME PagedInv, PageByPage!FillSmall PROVE PagedInv'
<1>1. /\ size \in Nat \ {0} /\ PageCount <= 2 /\ size' = size /\ PageCount' = PageCount
      /\ aux' = TRUE /\ cursor' = cursor /\ lap' = lap /\ pages' = pages /\ idx' = idx
      /\ test' = test /\ cursor = 0 /\ lap = {}
  BY PageCountType DEF PagedInv, PageByPage!FillSmall, PageCount
<1>2. Cyclic(arr', size)
  BY <1>1, SamePatterns, PatternsAreCyclic DEF PageByPage!FillSmall
<1>3. arr' \in [Span(size) -> Span(size) \cup {-1}]
  BY <1>2 DEF Cyclic, Permutes
<1>4. SmallInv'
  BY <1>1, <1>2 DEF PagedInv, SmallInv, Path
<1>5. QED
  BY <1>1, <1>3, <1>4 DEF PagedInv

LEMMA LinkPagesKeeps ==
  ASSUME PagedInv, PageByPage!LinkPages PROVE PagedInv'
<1>1. /\ size \in Nat \ {0} /\ PageCount \in Nat /\ PageCount > 2 /\ ~ PageCount <= 2
      /\ PageCount # 0 /\ size' = size /\ PageCount' = PageCount
      /\ pages = <<>>
      /\ aux' = aux /\ cursor' = cursor /\ lap' = lap /\ idx' = idx
      /\ test' = test /\ arr' = arr
  BY PageCountType DEF PagedInv, PageByPage!LinkPages, PageCount
<1>2. /\ LargeInv /\ idx = 0 /\ aux = FALSE /\ cursor = 0 /\ lap = {}
  BY <1>1 DEF PagedInv, LargeInv
<1>3. PageByPage!pageCount + PageByPage!extraPage = PageCount
  <2>1. PageByPage!pageCount * PageLines = size
    BY <1>1, <1>2, PageCountType DEF LargeInv
  <2>2. PageByPage!extraPage = 0
    BY <1>1, <2>1, SMT DEF PageByPage!extraPage
  <2>3. QED
    BY <1>1, <2>2, PageCountType
<1>4. Cyclic(pages', PageCount)
  BY <1>1, <1>3, SamePatterns, PatternsAreCyclic DEF PageByPage!LinkPages
<1>5. 0 \in Span(PageCount) /\ Address(0, 0) = 0 /\ Span(0) = {}
  BY <1>1, PageLinesType, SMT DEF Span, Address
<1>6. PagedLap({}, {}, 0, <<>>, {}, 0)'
  BY <1>1, <1>2, <1>5, PageType DEF PagedLap, Path
<1>7. LargeInv'
  BY <1>1, <1>2, <1>4, <1>5, <1>6 DEF LargeInv
<1>8. QED
  BY <1>1, <1>7 DEF PagedInv

\* One page is filled and linked; the others stay as they are.
LEMMA FillPageKeeps ==
  ASSUME PagedInv, PageByPage!FillPage PROVE PagedInv'
<1>1. /\ size \in Nat \ {0} /\ PageCount \in Nat /\ pages # <<>>
      /\ size' = size /\ PageCount' = PageCount
      /\ pages' = pages /\ cursor' = cursor /\ lap' = lap /\ test' = test
  BY PageCountType DEF PagedInv, PageByPage!FillPage, PageCount
<1>2. /\ LargeInv /\ ~ PageCount <= 2
  BY <1>1 DEF PagedInv, SmallInv
<1>3. /\ idx \in Span(PageCount) /\ idx # PageCount
      /\ idx' = idx + 1 /\ idx' \in 0 .. PageCount
      /\ Span(idx') = Span(idx) \cup {idx} /\ idx \notin Span(idx)
      /\ Span(idx) \subseteq Span(PageCount)
      /\ aux' = (idx' = PageCount)
  BY <1>1, PageCountType, SMT DEF PagedInv, PageByPage!FillPage, PageByPage!PagesToFill, Span
<1>4. aux = FALSE /\ cursor = 0 /\ lap = {}
  BY <1>2, <1>3 DEF PagedInv, LargeInv
<1>5. PICK f \in PageByPage!PageFills :
        arr' = [l \in Span(size) |->
                  IF l \div PageLines # idx THEN arr[l]
                  ELSE IF f[l % PageLines] = 0
                       THEN pages[idx] * PageLines
                       ELSE f[l % PageLines] + idx * PageLines]
  BY DEF PageByPage!FillPage, PageByPage!Lines, PageByPage!EndsPage,
         PageByPage!OffsetInPage, Span
<1>6. Cyclic(f, PageLines)
  BY PageLinesType, SamePatterns, PatternsAreCyclic DEF PagedInv, PageByPage!PageFills
<1>7. \A x \in Span(PageLines) :
        /\ f[x] \in Span(PageLines)
        /\ Address(idx, f[x]) \in Span(size)
        /\ f[x] + idx * PageLines = Address(idx, f[x])
  <2> TAKE x \in Span(PageLines)
  <2>1. f[x] \in Span(PageLines)
    BY <1>6 DEF Cyclic, Permutes
  <2>2. Address(idx, f[x]) \in Span(size)
    BY <1>1, <1>2, <1>3, <2>1, Addresses DEF LargeInv
  <2>3. f[x] \in Nat /\ idx \in Nat /\ idx * PageLines \in Nat
    BY <1>1, <1>3, <2>1, PageLinesType, SpanIn, SMT
  <2>4. QED
    BY <2>1, <2>2, <2>3, SMT DEF Address
<1>8. /\ pages[idx] \in Span(PageCount)
      /\ Address(pages[idx], 0) \in Span(size)
      /\ pages[idx] * PageLines = Address(pages[idx], 0)
  <2>1. pages[idx] \in Span(PageCount)
    BY <1>1, <1>2, <1>3 DEF LargeInv, Cyclic, Permutes
  <2>2. Address(pages[idx], 0) \in Span(size)
    BY <1>1, <1>2, <2>1, PageType, Addresses DEF LargeInv
  <2>3. pages[idx] * PageLines \in Nat
    BY <1>1, <2>1, PageLinesType, SpanIn, SMT
  <2>4. QED
    BY <2>1, <2>2, <2>3, SMT DEF Address
<1>9. \A q \in Span(PageCount), x \in Span(PageLines) :
        arr'[Address(q, x)] =
          IF q # idx THEN arr[Address(q, x)]
          ELSE IF f[x] = 0 THEN Address(pages[idx], 0) ELSE Address(idx, f[x])
  <2> TAKE q \in Span(PageCount), x \in Span(PageLines)
  <2>1. /\ Address(q, x) \in Span(size)
        /\ Address(q, x) \div PageLines = q /\ Address(q, x) % PageLines = x
    BY <1>1, <1>2, Addresses DEF LargeInv
  <2>2. QED
    BY <1>5, <1>7, <1>8, <2>1
<1>10. arr' \in [Span(size) -> Span(size) \cup {-1}]
  <2>1. \A l \in Span(size) : arr'[l] \in Span(size) \cup {-1}
    <3> TAKE l \in Span(size)
    <3> DEFINE q == l \div PageLines
               x == l % PageLines
    <3>1. /\ q \in Span(PageCount) /\ x \in Span(PageLines) /\ l = Address(q, x)
      BY <1>1, <1>2, Located DEF LargeInv
    <3> HIDE DEF q, x
    <3>2. arr[l] \in Span(size) \cup {-1}
      BY DEF PagedInv
    <3>3. QED
      BY <1>7, <1>8, <1>9, <3>1, <3>2
  <2>2. QED
    BY <1>5, <2>1
<1>11. \A q \in Span(idx') : \E g : PageDone(q, g)'
  <2> TAKE q \in Span(idx')
  <2>1. CASE q = idx
    <3>1. \A x \in Span(PageLines) :
            arr'[Address(q, x)] = IF f[x] = 0 THEN Address(pages[q], 0) ELSE Address(q, f[x])
      BY <1>3, <1>9, <2>1
    <3>2. ASSUME NEW p, p = q PROVE PageDone(p, f)'
      BY <1>1, <1>6, <3>1, <3>2 DEF PageDone, Address
    <3>3. QED
      BY <3>2
  <2>2. CASE q # idx
    <3>1. q \in Span(idx) /\ q \in Span(PageCount)
      BY <1>3, <2>2
    <3>2. PICK g : PageDone(q, g)
      BY <1>2, <3>1 DEF LargeInv
    <3>3. \A x \in Span(PageLines) : arr'[Address(q, x)] = arr[Address(q, x)]
      BY <1>9, <2>2, <3>1
    <3>4. ASSUME NEW p, p = q PROVE PageDone(p, g)'
      BY <1>1, <3>2, <3>3, <3>4 DEF PageDone, Address
    <3>5. QED
      BY <3>4
  <2>3. QED
    BY <2>1, <2>2
<1>12. 0 \in Span(PageCount) /\ Address(0, 0) = 0
  BY <1>1, <1>3, PageLinesType, SMT DEF Span, Address
<1>13. \E g : aux' => PageDone(0, g)'
  <2>1. SUFFICES ASSUME aux' PROVE \E g : PageDone(0, g)'
    OBVIOUS
  <2>2. 0 \in Span(idx')
    BY <1>3, <1>12, <2>1
  <2>3. QED
    BY <1>11, <2>2
<1>14. PICK g : aux' => PageDone(0, g)'
  BY <1>13
<1>15. PagedLap({}, {}, 0, g, {}, 0)'
  BY <1>1, <1>4, <1>12, <1>14, PageType DEF PagedLap, Path
<1>16. LargeInv'
  BY <1>1, <1>2, <1>3, <1>4, <1>11, <1>15 DEF LargeInv
<1>17. QED
  BY <1>1, <1>2, <1>3, <1>4, <1>10, <1>16 DEF PagedInv

\* With the page's cycle followed back to its first line, all of it is loaded.
LEMMA PageLoaded ==
  ASSUME NEW f, Cyclic(f, PageLines), NEW S \in SUBSET Span(PageLines),
         NEW r \in Span(PageLines), Path(f, S, r), 0 \in S \cup {r}, f[r] = 0
  PROVE  S \cup {r} = Span(PageLines)
<1>1. ClosedIn(f, S \cup {r})
  BY DEF ClosedIn, Path
<1>2. QED
  BY <1>1 DEF Cyclic

\* Before, the line the chase is at has not been loaded.
LEMMA LineNotLoaded ==
  ASSUME NEW f, Cyclic(f, PageLines), NEW S \in SUBSET Span(PageLines),
         NEW r \in S, Path(f, S, r), \A x \in S : f[x] # 0
  PROVE  FALSE
<1>1. S = Span(PageLines)
  BY LapCloses
<1> DEFINE T == Span(PageLines) \ {0}
<1>2. ClosedIn(f, T) /\ 1 \in T
  BY <1>1, PageType DEF ClosedIn, Cyclic, Permutes
<1>3. T = Span(PageLines)
  BY <1>2 DEF Cyclic
<1>4. QED
  BY <1>3, PageType

LEMMA AddressNotLoaded ==
  ASSUME LargeInv, aux, NEW loads, NEW Q, NEW at, NEW f, NEW S, NEW r,
         PagedLap(loads, Q, at, f, S, r)
  PROVE  cursor \notin loads
<1>1. Cyclic(f, PageLines)
  BY DEF PagedLap, PageDone
<1>2. r \notin S
  BY <1>1, LineNotLoaded DEF PagedLap
<1>3. QED
  BY <1>2 DEF PagedLap

LEMMA SmallChaseKeeps ==
  ASSUME PagedInv, PageCount <= 2, PageByPage!Chase PROVE PagedInv'
<1>1. /\ size' = size /\ PageCount' = PageCount /\ aux' = aux /\ pages' = pages
      /\ idx' = idx /\ test' = test /\ arr' = arr /\ aux
      /\ cursor' = arr[cursor]
      /\ lap' = (IF lap = Span(size) THEN {} ELSE lap) \cup {cursor}
  BY DEF PageByPage!Chase, PageByPage!Lines, Span, PageCount
<1>2. SmallInv /\ Cyclic(arr, size)
  BY <1>1 DEF PagedInv, SmallInv
<1>3. cursor' \in Span(size) /\ lap' \in SUBSET Span(size)
  BY <1>1, <1>2 DEF PagedInv, Cyclic, Permutes
<1>4. Path(arr, lap', cursor')
  BY <1>1, <1>2, PathGoesOn DEF SmallInv
<1>5. SmallInv'
  BY <1>1, <1>2, <1>4 DEF SmallInv, Path
<1>6. QED
  BY <1>1, <1>3, <1>5 DEF PagedInv

LEMMA LargeChaseKeeps ==
  ASSUME PagedInv, ~ PageCount <= 2, PageByPage!Chase
  PROVE  PagedInv' /\ PageByPage!LeavesOnlyFinishedPage
<1>1. /\ size' = size /\ PageCount' = PageCount /\ aux' = aux /\ pages' = pages
      /\ idx' = idx /\ test' = test /\ arr' = arr /\ aux
      /\ cursor' = arr[cursor]
      /\ lap' = (IF lap = Span(size) THEN {} ELSE lap) \cup {cursor}
      /\ PageCount \in Nat /\ PageByPage!pageCount = PageCount
  BY PageCountType DEF PagedInv, PageByPage!Chase, PageByPage!Lines, Span, PageCount
<1>2. LargeInv
  BY DEF PagedInv
<1>3. PICK loads, Q, at, f, S, r :
        /\ lap = loads \/ (lap = Span(size) /\ loads = {})
        /\ PagedLap(loads, Q, at, f, S, r)
  BY <1>2 DEF LargeInv
<1>4. /\ cursor \notin loads /\ cursor \in Span(size) /\ cursor = Address(at, r)
      /\ at \in Span(PageCount) /\ r \in Span(PageLines)
  BY <1>1, <1>2, <1>3, AddressNotLoaded DEF PagedInv, PagedLap
<1>5. lap' = loads \cup {Address(at, r)}
  <2>1. lap # Span(size) => lap = loads
    BY <1>3
  <2>2. lap = Span(size) => loads = {}
    BY <1>3, <1>4
  <2>3. QED
    BY <1>1, <1>4, <2>1, <2>2
<1>6. /\ PageDone(at, f) /\ Cyclic(f, PageLines) /\ f[r] \in Span(PageLines)
  BY <1>1, <1>3, <1>4 DEF PagedLap, PageDone, Cyclic, Permutes
<1>7. /\ Cyclic(pages, PageCount) /\ pages[at] \in Span(PageCount)
      /\ idx = PageCount /\ size = PageCount * PageLines
  <2>1. pages # <<>>
    BY <1>1, <1>2, SMT DEF LargeInv
  <2>2. QED
    BY <1>1, <1>2, <1>4, <2>1 DEF LargeInv, Cyclic, Permutes
<1>8. \A q \in Span(PageCount), x \in Span(PageLines) :
        /\ Address(q, x) \in Span(size)
        /\ Address(q, x) \div PageLines = q /\ Address(q, x) % PageLines = x
  BY <1>1, <1>7, Addresses
<1>9. lap' \in SUBSET Span(size)
  BY <1>3, <1>4, <1>5 DEF PagedLap
<1>10. \A q \in Span(PageCount), x \in Span(PageLines) :
         Address(q, x) \in lap' <=> q \in Q \/ (q = at /\ x \in S \cup {r})
  <2> TAKE q \in Span(PageCount), x \in Span(PageLines)
  <2>1. Address(q, x) \in loads <=> q \in Q \/ (q = at /\ x \in S)
    BY <1>3 DEF PagedLap
  <2>2. Address(q, x) = Address(at, r) => q = at /\ x = r
    BY <1>4, <1>8
  <2>3. QED
    BY <1>5, <2>1, <2>2
<1>11. CASE f[r] # 0
  <2>1. cursor' = Address(at, f[r])
    BY <1>1, <1>4, <1>6, <1>11 DEF PageDone
  <2>2. cursor' \in Span(size) /\ cursor' \div PageLines = cursor \div PageLines
    BY <1>4, <1>6, <1>8, <2>1
  <2>3. PageByPage!LeavesOnlyFinishedPage
    BY <2>2 DEF PageByPage!LeavesOnlyFinishedPage, PageByPage!PageOf
  <2>4. ASSUME NEW next, next = f[r], NEW more, more = lap', NEW T, T = S \cup {r}
        PROVE  PagedLap(more, Q, at, f, T, next)'
    <3>1. /\ T \in SUBSET Span(PageLines) /\ 0 \in T
          /\ Path(f, T, next) /\ \A x \in T : f[x] # 0
      BY <1>3, <1>4, <1>11, <2>4 DEF PagedLap, Path
    <3>2. PageDone(at, f)'
      BY <1>1, <1>6 DEF PageDone, Address
    <3>3. /\ at \notin Q /\ Path(pages, Q, at) /\ Q \in SUBSET Span(PageCount)
      BY <1>3 DEF PagedLap
    <3>4. cursor' = Address(at, next) /\ next \in Span(PageLines)
      BY <1>6, <2>1, <2>4
    <3>5. \A q \in Span(PageCount), x \in Span(PageLines) :
            Address(q, x) \in more <=> q \in Q \/ (q = at /\ x \in T)
      BY <1>10, <2>4
    <3> HIDE <1>10, <1>8
    <3>6. QED
      BY <1>1, <1>4, <1>9, <2>4, <3>1, <3>2, <3>3, <3>4, <3>5 DEF PagedLap
  <2>5. \E more, O, b, h, T, z :
          /\ lap' = more \/ (lap' = Span(size) /\ more = {})
          /\ PagedLap(more, O, b, h, T, z)'
    <3>1. PICK more, T, next : more = lap' /\ T = S \cup {r} /\ next = f[r]
      OBVIOUS
    <3>2. PagedLap(more, Q, at, f, T, next)'
      BY <2>4, <3>1
    <3>3. QED
      BY <3>1, <3>2
  <2>6. LargeInv'
    <3>1. \A q \in Span(idx) : (\E g : PageDone(q, g))'
      BY <1>1, <1>2 DEF LargeInv, PageDone, Address
    <3>2. QED
      BY <1>1, <1>2, <2>5, <3>1 DEF LargeInv
  <2>7. QED
    BY <1>1, <1>9, <2>2, <2>3, <2>6 DEF PagedInv
<1>12. CASE f[r] = 0
  <2>1. cursor' = Address(pages[at], 0) /\ cursor' \in Span(size)
    BY <1>1, <1>4, <1>6, <1>7, <1>8, <1>12, PageType DEF PageDone
  <2>2. S \cup {r} = Span(PageLines)
    BY <1>3, <1>4, <1>6, <1>12, PageLoaded DEF PagedLap
  <2> DEFINE R == Q \cup {at}
  <2>3. \A q \in Span(PageCount), x \in Span(PageLines) : Address(q, x) \in lap' <=> q \in R
    BY <1>10, <2>2
  <2>4. /\ R \in SUBSET Span(PageCount) /\ Path(pages, R, pages[at])
    BY <1>3, <1>4 DEF PagedLap, Path
  <2>5. PageByPage!LeavesOnlyFinishedPage
    <3> SUFFICES ASSUME NEW l \in Span(size), PageByPage!PageOf(l) = PageByPage!PageOf(cursor)
                 PROVE  l \in lap'
      BY DEF PageByPage!LeavesOnlyFinishedPage, PageByPage!Lines, Span
    <3> DEFINE q == l \div PageLines
               x == l % PageLines
    <3>1. q \in Span(PageCount) /\ x \in Span(PageLines) /\ l = Address(q, x)
      BY <1>1, <1>7, Located
    <3>2. q = at
      BY <1>4, <1>8 DEF PageByPage!PageOf
    <3> HIDE DEF q, x
    <3>3. QED
      BY <2>3, <3>1, <3>2
  <2>6. PICK g : PageDone(pages[at], g)
    BY <1>2, <1>7 DEF LargeInv
  <2>7. \A next : next = pages[at] => PageDone(next, g)'
    BY <1>1, <2>6 DEF PageDone, Address
  <2>8. \E more, O, next, h, T, z :
          /\ lap' = more \/ (lap' = Span(size) /\ more = {})
          /\ PagedLap(more, O, next, h, T, z)'
    <3>1. CASE pages[at] \notin R
      <4>1. ASSUME NEW more, more = lap', NEW next, next = pages[at],
                   NEW O, O = R
            PROVE  PagedLap(more, O, next, g, {}, 0)'
        <5>1. /\ next \in Span(PageCount) /\ next \notin O /\ cursor' = Address(next, 0)
              /\ O \in SUBSET Span(PageCount) /\ Path(pages, O, next)
              /\ \A q \in Span(PageCount), x \in Span(PageLines) :
                   Address(q, x) \in more <=> q \in O
          BY <1>7, <2>1, <2>3, <2>4, <3>1, <4>1
        <5>2. PageDone(next, g)'
          BY <2>7, <4>1
        <5> HIDE DEF R
        <5>3. QED
          BY <1>1, <1>9, <4>1, <5>1, <5>2, PageType DEF PagedLap, Path
      <4>2. QED
        BY <4>1
    <3>2. CASE pages[at] \in R
      <4>1. R = Span(PageCount)
        <5> HIDE DEF R
        <5>1. QED
          BY <1>7, <2>4, <3>2, LapCloses
      <4>2. lap' = Span(size)
        <5>1. ASSUME NEW l \in Span(size) PROVE l \in lap'
          <6>1. /\ l \div PageLines \in Span(PageCount) /\ l % PageLines \in Span(PageLines)
                /\ l = Address(l \div PageLines, l % PageLines)
            BY <1>1, <1>7, Located
          <6>2. QED
            BY <2>3, <4>1, <6>1
        <5>2. QED
          BY <1>9, <5>1
      <4>3. ASSUME NEW next, next = pages[at] PROVE PagedLap({}, {}, next, g, {}, 0)'
        <5>1. next \in Span(PageCount) /\ cursor' = Address(next, 0)
          BY <1>7, <2>1, <4>3
        <5>2. PageDone(next, g)'
          BY <2>7, <4>3
        <5>3. QED
          BY <1>1, <5>1, <5>2, PageType DEF PagedLap, Path
      <4>4. QED
        BY <4>2, <4>3
    <3>3. QED
      BY <3>1, <3>2
  <2>9. LargeInv'
    <3>1. \A q \in Span(idx) : (\E h : PageDone(q, h))'
      BY <1>1, <1>2 DEF LargeInv, PageDone, Address
    <3>2. QED
      BY <1>1, <1>2, <2>8, <3>1 DEF LargeInv
  <2>10. QED
    BY <1>1, <1>9, <2>1, <2>5, <2>9 DEF PagedInv
<1>13. QED
  BY <1>11, <1>12

\* No step of the fill moves the cursor.
LEMMA PagedKept ==
  ASSUME PagedInv, PageByPage!Next
  PROVE  PagedInv' /\ PageByPage!LeavesOnlyFinishedPage
<1>1. CASE PageByPage!FillSmall
  BY <1>1, FillSmallKeeps DEF PageByPage!FillSmall, PageByPage!LeavesOnlyFinishedPage
<1>2. CASE PageByPage!LinkPages
  BY <1>2, LinkPagesKeeps DEF PageByPage!LinkPages, PageByPage!LeavesOnlyFinishedPage
<1>3. CASE PageByPage!FillPage
  BY <1>3, FillPageKeeps DEF PageByPage!FillPage, PageByPage!LeavesOnlyFinishedPage
<1>4. CASE PageByPage!Chase /\ PageCount <= 2
  <2>1. ~ PageByPage!pageCount > 2
    BY <1>4, PageCountType, SMT DEF PagedInv
  <2>2. QED
    BY <1>4, <2>1, SmallChaseKeeps DEF PageByPage!LeavesOnlyFinishedPage
<1>5. CASE PageByPage!Chase /\ ~ PageCount <= 2
  BY <1>5, LargeChaseKeeps
<1>6. QED
  BY <1>1, <1>2, <1>3, <1>4, <1>5 DEF PageByPage!Next

LEMMA PagedTypes == PagedInv => PageByPage!TypeOK
<1> SUFFICES ASSUME PagedInv PROVE PageByPage!TypeOK
  OBVIOUS
<1>1. PageByPage!pageCount = PageCount
  BY PageCountType DEF PagedInv
<1>2. QED
  BY <1>1 DEF PagedInv, Span, PageByPage!TypeOK, PageByPage!Lines, PageByPage!Stale

\* A line that is loaded again was the first of the lap.
LEMMA PagedWhole == PagedInv => PageByPage!WholeFootprint
<1> SUFFICES ASSUME PagedInv, aux, cursor \in lap PROVE lap = Span(size)
  BY DEF PageByPage!WholeFootprint, PageByPage!Lines, Span
<1>1. CASE PageCount <= 2
  <2>1. /\ Cyclic(arr, size) /\ Path(arr, lap, cursor) /\ lap \in SUBSET Span(size)
    BY <1>1 DEF PagedInv, SmallInv
  <2>2. QED
    BY <2>1, LapCloses
<1>2. CASE ~ PageCount <= 2
  <2>1. LargeInv
    BY <1>2 DEF PagedInv
  <2>2. PICK loads, Q, at, f, S, r :
          /\ lap = loads \/ (lap = Span(size) /\ loads = {})
          /\ PagedLap(loads, Q, at, f, S, r)
    BY <2>1 DEF LargeInv
  <2>3. QED
    BY <2>1, <2>2, AddressNotLoaded
<1>3. QED
  BY <1>1, <1>2

-----------------------------------------------------------------------------
(* The program, whichever test it is asked for.                            *)

TestsInv ==
  /\ test \in Tests
  /\ FillInv
  /\ test = "RunTlbTest" => TlbInv
  /\ test = "RunMlpTest" => MlpInv
  /\ test = "RunAopTest" => AopInv
  /\ test = "longpattern" => LongInv

PagedTestInv == Paged => PagedInv

LEMMA TestsInitially == MainInit => TestsInv
<1> SUFFICES ASSUME MainInit PROVE TestsInv
  OBVIOUS
<1>1. FillInv
  BY FillInitially DEF MainInit
<1>2. test \in Tests
  BY DEF MainInit, PageByPage!Init
<1>3. test = "RunTlbTest" => TlbInv
  BY TlbInitially DEF MainInit, PageByPage!Init
<1>4. test = "RunMlpTest" => MlpInv
  BY MlpInitially DEF MainInit, PageByPage!Init
<1>5. test = "RunAopTest" => AopInv
  BY AopInitially DEF MainInit, PageByPage!Init
<1>6. test = "longpattern" => LongInv
  BY LongInitially DEF MainInit, PageByPage!Init
<1>7. QED
  BY <1>1, <1>2, <1>3, <1>4, <1>5, <1>6 DEF TestsInv

LEMMA TlbStutters == TlbInv /\ UNCHANGED mainVars => TlbInv'
  BY DEF TlbInv, TlbAt, PlacesIn, PlaceIn, mainVars

LEMMA MlpStutters == MlpInv /\ UNCHANGED mainVars => MlpInv'
  BY DEF MlpInv, RoundFrom, mainVars

LEMMA AopStutters == AopInv /\ UNCHANGED mainVars => AopInv'
  BY DEF AopInv, mainVars

LEMMA LongStutters == LongInv /\ UNCHANGED mainVars => LongInv'
<1> SUFFICES ASSUME LongInv, UNCHANGED mainVars PROVE LongInv'
  OBVIOUS
<1>1. /\ arr' = arr /\ idx' = idx /\ cursor' = cursor /\ aux' = aux /\ lap' = lap
      /\ AllWords' = AllWords
  BY DEF mainVars, AllWords
<1>2. PICK loads, S : (lap = loads \/ (lap = AllWords /\ loads = {})) /\ LongLap(loads, S)
  BY DEF LongInv
<1>3. LongLap(loads, S)'
  BY <1>1, <1>2 DEF LongLap
<1>4. QED
  BY <1>1, <1>2, <1>3 DEF LongInv

LEMMA PagedStutters == PagedInv /\ UNCHANGED mainVars => PagedInv'
<1> SUFFICES ASSUME PagedInv, UNCHANGED mainVars PROVE PagedInv'
  OBVIOUS
<1>1. /\ test' = test /\ size' = size /\ arr' = arr /\ pages' = pages /\ idx' = idx
      /\ aux' = aux /\ cursor' = cursor /\ lap' = lap /\ PageCount' = PageCount
  BY DEF mainVars, PageCount
<1>2. SmallInv => SmallInv'
  BY <1>1 DEF SmallInv
<1>3. ASSUME LargeInv PROVE LargeInv'
  <2>1. \A q \in Span(idx) : (\E f : PageDone(q, f))'
    BY <1>1, <1>3 DEF LargeInv, PageDone, Address
  <2>2. PICK loads, Q, at, f, S, r :
          /\ lap = loads \/ (lap = Span(size) /\ loads = {})
          /\ PagedLap(loads, Q, at, f, S, r)
    BY <1>3 DEF LargeInv
  <2>3. PageDone(at, f) => PageDone(at, f)'
    BY <1>1 DEF PageDone, Address
  <2>4. PagedLap(loads, Q, at, f, S, r)'
    BY <1>1, <2>2, <2>3 DEF PagedLap, Address
  <2>5. QED
    BY <1>1, <1>3, <2>1, <2>2, <2>4 DEF LargeInv
<1>4. QED
  BY <1>1, <1>2, <1>3 DEF PagedInv

\* A step is one of the test that runs, and leaves alone what the others use.
LEMMA TestsKept == TestsInv /\ [MainNext]_<<vars, mainVars>> => TestsInv'
<1> SUFFICES ASSUME TestsInv, [MainNext]_<<vars, mainVars>> PROVE TestsInv'
  OBVIOUS
<1>1. CASE test = "FillPatternArr" /\ Next /\ UNCHANGED mainVars
  BY <1>1, FillKept DEF TestsInv, mainVars
<1>2. ASSUME UNCHANGED vars PROVE FillInv'
  BY <1>2, FillStutters DEF TestsInv
<1>3. CASE UNCHANGED vars /\ Paged /\ PageByPage!Next
  <2>1. test' = test /\ test \in {"FillPageByPage", "FillPageByPage64"}
    BY <1>3 DEF Paged, PageByPage!Next, PageByPage!FillSmall, PageByPage!LinkPages,
                PageByPage!FillPage, PageByPage!Chase
  <2>2. QED
    BY <1>2, <1>3, <2>1 DEF TestsInv
<1>4. CASE /\ UNCHANGED vars
           /\ test = "RunTlbTest" /\ Tlb!Next /\ UNCHANGED <<test, aux>>
  <2>1. TlbInv'
    BY <1>4, LinkPageKeeps, TlbChaseKeeps DEF TestsInv, Tlb!Next
  <2>2. QED
    BY <1>2, <1>4, <2>1 DEF TestsInv
<1>5. CASE /\ UNCHANGED vars
           /\ test = "RunMlpTest" /\ Mlp!Load /\ UNCHANGED <<test, pages, aux>>
  <2>1. MlpInv'
    BY <1>5, MlpKept DEF TestsInv
  <2>2. QED
    BY <1>2, <1>5, <2>1 DEF TestsInv
<1>6. CASE /\ UNCHANGED vars
           /\ test = "RunAopTest" /\ Aop!Load /\ UNCHANGED <<test, size, pages, idx, aux>>
  <2>1. AopInv'
    BY <1>6, AopKept DEF TestsInv
  <2>2. QED
    BY <1>2, <1>6, <2>1 DEF TestsInv
<1>7. CASE /\ UNCHANGED vars
           /\ test = "longpattern" /\ Long!Next /\ UNCHANGED <<test, size, pages>>
  <2>1. LongInv'
    BY <1>7, FillOffsetKeeps, LongChaseKeeps DEF TestsInv, Long!Next
  <2>2. QED
    BY <1>2, <1>7, <2>1 DEF TestsInv
<1>8. CASE UNCHANGED <<vars, mainVars>>
  <2>1. UNCHANGED vars /\ UNCHANGED mainVars /\ test' = test
    BY <1>8 DEF mainVars
  <2>2. QED
    BY <1>2, <2>1, TlbStutters, MlpStutters, AopStutters, LongStutters DEF TestsInv
<1>9. QED
  BY <1>1, <1>3, <1>4, <1>5, <1>6, <1>7, <1>8 DEF MainNext

LEMMA TestsInvariant == MainSpec => []TestsInv
  BY TestsInitially, TestsKept, PTL DEF MainSpec

LEMMA PagedTestInitially ==
  ASSUME WholePages
  PROVE  MainInit => PagedTestInv
<1> SUFFICES ASSUME MainInit, Paged PROVE PagedInv
  BY DEF PagedTestInv
<1>1. PageByPage!Init /\ test \in Tests
  BY DEF MainInit, Paged
<1>2. QED
  BY <1>1, PagedInitially

\* What a step does with the pages, whichever test it is of.
LEMMA PagedSteps ==
  ASSUME PagedTestInv, [MainNext]_<<vars, mainVars>>
  PROVE  PagedTestInv' /\ (Paged => PageByPage!LeavesOnlyFinishedPage)
<1>1. CASE Paged /\ PageByPage!Next
  BY <1>1, PagedKept DEF PagedTestInv
<1>2. CASE UNCHANGED mainVars
  <2>1. test' = test /\ cursor' = cursor
    BY <1>2 DEF mainVars
  <2>2. QED
    BY <1>2, <2>1, PagedStutters DEF PagedTestInv, Paged, PageByPage!LeavesOnlyFinishedPage
<1>3. CASE ~ Paged /\ test' = test
  BY <1>3 DEF PagedTestInv, Paged
<1>4. QED
  BY <1>1, <1>2, <1>3 DEF MainNext, Paged, mainVars

LEMMA PagedTestInvariant ==
  ASSUME WholePages
  PROVE  MainSpec => []PagedTestInv
<1>1. MainInit => PagedTestInv
  BY PagedTestInitially
<1>2. PagedTestInv /\ [MainNext]_<<vars, mainVars>> => PagedTestInv'
  BY PagedSteps
<1>3. QED
  BY <1>1, <1>2, PTL DEF MainSpec

\* FillPatternArr leaves one cycle through the whole region, for every region
\* size and whatever rand() returns.
THEOREM PatternIsOneCycle == MainSpec => []OneCycle
<1>1. TestsInv => OneCycle
  BY FillIsOneCycle DEF TestsInv
<1>2. QED
  BY <1>1, TestsInvariant, PTL

\* The loads of a round of RunMlpTest and of a lap of RunAopTest go to
\* different lines, and those of RunTlbTest from neighbouring pages to
\* different sets, for regions, pages and numbers of chains of any size.
THEOREM LoadsAreIndependent == MainSpec => []LoadsIndependent
<1>1. TestsInv => LoadsIndependent
  BY TlbSpread, MlpIndependent, AopOnce DEF TestsInv, LoadsIndependent
<1>2. QED
  BY <1>1, TestsInvariant, PTL

\* No cursor leaves its region and every chase stays on elements the fill has
\* written (all tests of main).
THEOREM MainTypeCorrect ==
  ASSUME WholePages
  PROVE  MainSpec => []MainTypeOK
<1>1. TestsInv /\ PagedTestInv => MainTypeOK
  BY TlbTypes, MlpTypes, AopTypes, LongTypes, PagedTypes
  DEF TestsInv, PagedTestInv, FillInv, MainTypeOK
<1>2. QED
  BY <1>1, TestsInvariant, PagedTestInvariant, PTL

\* Every chase loads nothing twice before it has loaded its whole region, or,
\* in the TLB test, an element of every page: the latency that is printed is
\* one of a footprint of that size (RunTest, RunAsmTest, RunTlbTest).
THEOREM LapsAreWhole ==
  ASSUME WholePages
  PROVE  MainSpec => []LapIsWhole
<1>1. TestsInv /\ PagedTestInv => LapIsWhole
  BY TlbOnce, LongWhole, PagedWhole DEF TestsInv, PagedTestInv, LapIsWhole
<1>2. QED
  BY <1>1, TestsInvariant, PagedTestInvariant, PTL

\* FillPageByPage's chase leaves a page only when it has loaded all of it.
THEOREM PagesAreFinished ==
  ASSUME WholePages
  PROVE  MainSpec => PageLocality
<1>1. PagedTestInv /\ [MainNext]_<<vars, mainVars>>
        => [Paged => PageByPage!LeavesOnlyFinishedPage]_<<vars, mainVars>>
  BY PagedSteps
<1>2. QED
  BY <1>1, PagedTestInvariant, PTL DEF MainSpec, PageLocality
=============================================================================
