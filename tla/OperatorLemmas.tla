--------------------------- MODULE OperatorLemmas ---------------------------
(***************************************************************************)
(* Lemmas about what the models compute with, for the proofs of several of *)
(* them: numbers and division, sums over the threads, permutations that    *)
(* are one cycle, the patterns of PatternOps, and laps through a cycle.    *)
(*                                                                         *)
(* All tests build their patterns with the same loop of swaps.  While it   *)
(* runs, the array is a permutation with one cycle for each element below  *)
(* k, the element swapped last.  The proof names the cycle of an element   *)
(* by that low element, its root: following the array does not change the  *)
(* root, every low element is its own root, and nothing that is closed     *)
(* under the array avoids all roots.  One swap merges the cycle of the     *)
(* highest root into that of a lower one.                                  *)
(***************************************************************************)
EXTENDS Integers, FiniteSetsExt, FunctionTheorems, FiniteSetTheorems,
        WellFoundedInduction, TLAPS

Ops == INSTANCE PatternOps

-----------------------------------------------------------------------------
(* Numbers.                                                                *)

\* A set of numbers has a least one.
Less == {p \in Nat \X Nat : p[1] < p[2]}

LEMMA Least ==
  ASSUME NEW S, S \subseteq Nat, S # {}
  PROVE  \E m \in S : \A n \in S : m <= n
<1>1. IsWellFoundedOn(Less, Nat)
  BY NatLessThanWellFounded DEF OpToRel, Less
<1>2. PICK m \in S : \A n \in S : ~ (<<n, m>> \in Less)
  BY <1>1, WFMin
<1>3. ASSUME NEW n \in S, n < m PROVE FALSE
  <2>1. <<n, m>> \in Nat \X Nat
    OBVIOUS
  <2>2. <<n, m>>[1] < <<n, m>>[2]
    BY <1>3
  <2>3. <<n, m>> \in Less
    BY <2>1, <2>2, Zenon DEF Less
  <2>4. QED
    BY <2>3, <1>2
<1>4. m \in Nat /\ \A n \in S : n \in Nat
  OBVIOUS
<1>5. QED
  BY <1>3, <1>4, SMT

Span(n) == 0 .. n - 1

LEMMA SpanFinite ==
  ASSUME NEW n \in Nat
  PROVE  IsFiniteSet(Span(n)) /\ Cardinality(Span(n)) = n
<1>1. /\ 0 \in Int /\ n - 1 \in Int
      /\ 0 > n - 1 => n = 0
      /\ n - 1 - 0 + 1 = n
  BY SMT
<1>2. QED
  BY <1>1, FS_Interval DEF Span

\* Division by a positive number: the quotient and what is left.
LEMMA Division ==
  ASSUME NEW a \in Nat, NEW b \in Nat \ {0}
  PROVE  /\ a \div b \in Nat /\ a % b \in 0 .. b - 1
         /\ a = b * (a \div b) + (a % b)
<1>1. /\ a \div b \in Int
      /\ a % b \in 0 .. b - 1
      /\ a = b * (a \div b) + (a % b)
  BY SMT
<1>2. a \div b >= 0
  <2>1. SUFFICES ASSUME a \div b <= 0 - 1 PROVE FALSE
    BY <1>1
  <2>2. b * (a \div b) <= b * (0 - 1)
    BY <1>1, <2>1, Z3
  <2>3. QED
    BY <1>1, <2>2, SMT
<1>3. QED
  BY <1>1, <1>2

\* There is only one way to write a number as a multiple and a rest.
LEMMA Quotient ==
  ASSUME NEW b \in Nat \ {0}, NEW q \in Nat, NEW r \in 0 .. b - 1
  PROVE  (q * b + r) \div b = q /\ (q * b + r) % b = r
<1> DEFINE a == q * b + r
           d == a \div b
           e == a % b
<1>1. q * b \in Nat
  BY SMT
<1>2. a \in Nat
  BY <1>1, SMT
<1>3. d \in Nat /\ e \in 0 .. b - 1 /\ a = b * d + e
  BY <1>2, Division
<1> HIDE DEF d, e
<1>4. ~ d < q
  <2>1. SUFFICES ASSUME d < q PROVE FALSE
    OBVIOUS
  <2>2. q - d - 1 \in Nat
    BY <1>3, <2>1, SMT
  <2>3. (q - d - 1) * b \in Nat /\ (q - d - 1) * b = q * b - b * d - b
    BY <1>3, <2>2, SMT
  <2>4. b * d \in Nat
    BY <1>3, SMT
  <2>5. QED
    BY <1>1, <1>3, <2>3, <2>4, SMT
<1>5. ~ q < d
  <2>1. SUFFICES ASSUME q < d PROVE FALSE
    OBVIOUS
  <2>2. d - q - 1 \in Nat
    BY <1>3, <2>1, SMT
  <2>3. (d - q - 1) * b \in Nat /\ (d - q - 1) * b = b * d - q * b - b
    BY <1>3, <2>2, SMT
  <2>4. b * d \in Nat
    BY <1>3, SMT
  <2>5. QED
    BY <1>1, <1>3, <2>3, <2>4, SMT
<1>6. d = q
  BY <1>3, <1>4, <1>5, SMT
<1>7. b * d = q * b
  BY <1>3, <1>6, SMT
<1>8. e = r
  BY <1>1, <1>3, <1>7, SMT
<1>9. QED
  BY <1>6, <1>8 DEF d, e

\* The next of n things that are taken in turns.
LEMMA NextTurn ==
  ASSUME NEW n \in Nat \ {0}, NEW i \in Span(n)
  PROVE  (i + 1) % n = IF i + 1 = n THEN 0 ELSE i + 1
<1>1. CASE i + 1 = n
  <2>1. 1 \in Nat /\ 0 \in 0 .. n - 1 /\ 1 * n + 0 = n
    BY SMT
  <2>2. QED
    BY <1>1, <2>1, Quotient
<1>2. CASE i + 1 # n
  <2>1. 0 \in Nat /\ i + 1 \in 0 .. n - 1 /\ 0 * n + (i + 1) = i + 1
    BY <1>2, SMT DEF Span
  <2>2. QED
    BY <1>2, <2>1, Quotient
<1>3. QED
  BY <1>1, <1>2

-----------------------------------------------------------------------------
(* Sums, as MapThenSumSet makes them.                                      *)

SumOver(f, S) == MapThenSumSet(LAMBDA t : f[t], S)

\* The steps of a sum over a set.
Pick(s) == CHOOSE x \in s : TRUE
Step(f, g, s) == IF s = {} THEN 0 ELSE f[Pick(s)] + g[s \ {Pick(s)}]
Sums(f, S, g) == g = [s \in SUBSET S |-> Step(f, g, s)]

\* What is left of a set when an element is taken out of it.
LEMMA Rest ==
  ASSUME NEW S, IsFiniteSet(S), NEW s \in SUBSET S, s # {}
  PROVE  /\ Pick(s) \in s
         /\ s \ {Pick(s)} \in SUBSET S
         /\ Cardinality(s) \in Nat
         /\ Cardinality(s \ {Pick(s)}) = Cardinality(s) - 1
         /\ Cardinality(s) <= Cardinality(S)
<1>1. Pick(s) \in s
  BY DEF Pick
<1>2. IsFiniteSet(s) /\ Cardinality(s) <= Cardinality(S)
  BY FS_Subset
<1>3. Cardinality(s) \in Nat
  BY <1>2, FS_CardinalityType
<1>4. Cardinality(s \ {Pick(s)}) = Cardinality(s) - 1
  BY <1>1, <1>2, FS_RemoveElement
<1>5. QED
  BY <1>1, <1>2, <1>3, <1>4

\* The sums up to a size, one size after the other.
LEMMA SumsUpTo ==
  ASSUME NEW S, IsFiniteSet(S), NEW n \in Nat, NEW f, \A x \in S : f[x] \in Nat
  PROVE  \E g : \A s \in SUBSET S : Cardinality(s) <= n => g[s] \in Nat /\ g[s] = Step(f, g, s)
<1> DEFINE Upto(m, g) == \A s \in SUBSET S :
             Cardinality(s) <= m => g[s] \in Nat /\ g[s] = Step(f, g, s)
           Bad == {m \in Nat : ~ \E g : Upto(m, g)}
<1>1. SUFFICES ASSUME Bad # {} PROVE FALSE
  <2>1. Bad = {} => \E g : Upto(n, g)
    OBVIOUS
  <2>2. QED
    BY <1>1, <2>1
<1>2. PICK m \in Bad : \A k \in Bad : m <= k
  BY <1>1, Least
<1>3. PICK g : \A s \in SUBSET S : Cardinality(s) <= m - 1 => g[s] \in Nat /\ g[s] = Step(f, g, s)
  <2>1. CASE m = 0
    <3>1. ASSUME NEW s \in SUBSET S, Cardinality(s) <= m - 1 PROVE FALSE
      BY <2>1, <3>1, FS_Subset, FS_CardinalityType, SMT
    <3>2. QED
      BY <3>1
  <2>2. CASE m # 0
    <3>1. m - 1 \in Nat /\ ~ m <= m - 1
      BY <2>2, SMT
    <3>2. m - 1 \notin Bad
      BY <1>2, <3>1
    <3>3. \E h : Upto(m - 1, h)
      BY <3>1, <3>2
    <3>4. QED
      BY <3>3
  <2>3. QED
    BY <2>1, <2>2
<1> DEFINE h == [s \in SUBSET S |-> Step(f, g, s)]
<1>4. ASSUME NEW s \in SUBSET S, Cardinality(s) <= m
      PROVE  h[s] \in Nat /\ h[s] = Step(f, h, s)
  <2>1. CASE s = {}
    BY <2>1 DEF Step
  <2>2. CASE s # {}
    <3> DEFINE r == s \ {Pick(s)}
    <3>1. /\ Pick(s) \in S /\ r \in SUBSET S
          /\ Cardinality(r) <= m - 1
      BY <1>4, <2>2, Rest, SMT
    <3>2. g[r] \in Nat /\ g[r] = Step(f, g, r)
      BY <1>3, <3>1
    <3>3. h[r] = g[r]
      BY <3>1, <3>2
    <3>4. h[s] = f[Pick(s)] + g[r] /\ Step(f, h, s) = f[Pick(s)] + h[r]
      BY <2>2 DEF Step
    <3>5. f[Pick(s)] \in Nat
      BY <3>1
    <3>6. QED
      BY <3>2, <3>3, <3>4, <3>5, SMT
  <2>3. QED
    BY <2>1, <2>2
<1>5. Upto(m, h)
  BY <1>4
<1>6. QED
  BY <1>2, <1>5


\* A sum follows these steps: the function that MapThenSumSet chooses exists.
LEMMA SumSteps ==
  ASSUME NEW S, IsFiniteSet(S), NEW f, \A x \in S : f[x] \in Nat
  PROVE  \E g : /\ \A s \in SUBSET S : g[s] = Step(f, g, s)
                /\ SumOver(f, S) = g[S]
<1> DEFINE n == Cardinality(S)
<1>1. n \in Nat
  BY FS_CardinalityType
<1>2. PICK g : \A s \in SUBSET S : Cardinality(s) <= n => g[s] \in Nat /\ g[s] = Step(f, g, s)
  BY <1>1, SumsUpTo
<1>3. \A s \in SUBSET S : Cardinality(s) <= n
  BY FS_Subset
<1> DEFINE h == [s \in SUBSET S |-> g[s]]
           IsSum(i) == i = [s \in SUBSET S |-> Step(f, i, s)]
<1>4. ASSUME NEW s \in SUBSET S PROVE h[s] = Step(f, h, s)
  BY <1>2, <1>3 DEF Step
<1>5. IsSum(h)
  BY <1>4
<1>6. PICK i : IsSum(i) /\ SumOver(f, S) = i[S]
  BY <1>5 DEF SumOver, MapThenSumSet, MapThenFoldSet, Step, Pick
<1>7. QED
  BY <1>6

\* A sum of numbers is a number.
LEMMA SumIsNat ==
  ASSUME NEW S, IsFiniteSet(S), NEW f, \A x \in S : f[x] \in Nat
  PROVE  SumOver(f, S) \in Nat
<1>1. PICK g : /\ \A s \in SUBSET S : g[s] = Step(f, g, s)
               /\ SumOver(f, S) = g[S]
  BY SumSteps
<1> DEFINE Bad == {m \in Nat : \E s \in SUBSET S : Cardinality(s) = m /\ g[s] \notin Nat}
<1>2. SUFFICES ASSUME Bad # {} PROVE FALSE
  <2>1. Cardinality(S) \in Nat /\ S \in SUBSET S
    BY FS_CardinalityType
  <2>2. Bad = {} => g[S] \in Nat
    BY <2>1
  <2>3. QED
    BY <1>1, <1>2, <2>2
<1>3. PICK m \in Bad : \A k \in Bad : m <= k
  BY <1>2, Least
<1>4. PICK s \in SUBSET S : Cardinality(s) = m /\ g[s] \notin Nat
  BY <1>3
<1>5. s # {}
  <2>1. g[s] = Step(f, g, s)
    BY <1>1
  <2>2. s = {} => g[s] = 0
    BY <2>1 DEF Step
  <2>3. QED
    BY <1>4, <2>2
<1> DEFINE r == s \ {Pick(s)}
<1>6. /\ Pick(s) \in S /\ r \in SUBSET S
      /\ Cardinality(r) = m - 1 /\ m # 0
  BY <1>4, <1>5, Rest, FS_Subset, FS_EmptySet
<1>7. Cardinality(r) \in Nat /\ ~ m <= Cardinality(r)
  BY <1>6, SMT
<1>8. g[r] \in Nat
  BY <1>3, <1>6, <1>7
<1>9. g[s] = f[Pick(s)] + g[r]
  BY <1>1, <1>5 DEF Step
<1>10. f[Pick(s)] \in Nat
  BY <1>6
<1>11. QED
  BY <1>4, <1>8, <1>9, <1>10, SMT

\* A sum is at most the bound of what is added up, that many times.
LEMMA SumBounds ==
  ASSUME NEW S, IsFiniteSet(S), NEW high \in Nat, NEW f \in [S -> 0 .. high]
  PROVE  /\ SumOver(f, S) \in Nat
         /\ SumOver(f, S) <= high * Cardinality(S)
<1>1. \A x \in S : f[x] \in Nat
  BY SMT
<1>2. PICK g : /\ \A s \in SUBSET S : g[s] = Step(f, g, s)
               /\ SumOver(f, S) = g[S]
  BY <1>1, SumSteps
<1> DEFINE Good(s) == /\ g[s] \in Nat
                      /\ g[s] <= high * Cardinality(s)
           Bad == {m \in Nat : \E s \in SUBSET S : Cardinality(s) = m /\ ~ Good(s)}
<1>3. SUFFICES ASSUME Bad # {} PROVE FALSE
  <2>1. Cardinality(S) \in Nat /\ S \in SUBSET S
    BY FS_CardinalityType
  <2>2. Bad = {} => Good(S)
    BY <2>1
  <2>3. QED
    BY <1>2, <1>3, <2>2
<1>4. PICK m \in Bad : \A k \in Bad : m <= k
  BY <1>3, Least
<1>5. PICK s \in SUBSET S : Cardinality(s) = m /\ ~ Good(s)
  BY <1>4
<1>6. CASE s = {}
  <2>1. g[s] = 0 /\ Cardinality(s) = 0
    BY <1>2, <1>6, FS_EmptySet DEF Step
  <2>2. QED
    BY <1>5, <2>1, SMT
<1>7. CASE s # {}
  <2> DEFINE r == s \ {Pick(s)}
             c == Cardinality(r)
             x == f[Pick(s)]
  <2>1. /\ Pick(s) \in S /\ r \in SUBSET S
        /\ m \in Nat /\ c = m - 1 /\ m # 0
    <3>1. /\ Pick(s) \in s /\ r \in SUBSET S
          /\ Cardinality(s) \in Nat /\ c = Cardinality(s) - 1
      BY <1>7, Rest
    <3>2. Cardinality(s) # 0
      BY <1>7, FS_Subset, FS_EmptySet
    <3>3. QED
      BY <1>5, <3>1, <3>2
  <2>2. c \in Nat /\ ~ m <= c
    BY <2>1, SMT
  <2>3. Good(r)
    BY <1>4, <2>1, <2>2
  <2>4. g[s] = x + g[r]
    BY <1>2, <1>7 DEF Step
  <2>5. x \in 0 .. high
    BY <2>1
  <2> HIDE DEF r, c, x
  <2>6. high * m = high * c + high
    BY <2>1, SMT
  <2>7. high * c \in Nat
    BY <2>2, SMT
  <2>8. /\ g[r] \in Nat /\ g[r] <= high * c
    BY <2>3 DEF c
  <2>9. Good(s)
    BY <1>5, <2>4, <2>5, <2>6, <2>7, <2>8, SMT
  <2>10. QED
    BY <1>5, <2>9
<1>8. QED
  BY <1>6, <1>7

\* A sum of the same number is that many times the number.
LEMMA SumOfSame ==
  ASSUME NEW S, IsFiniteSet(S), NEW f, NEW c \in Nat, \A x \in S : f[x] = c
  PROVE  SumOver(f, S) = c * Cardinality(S)
<1>1. PICK g : /\ \A s \in SUBSET S : g[s] = Step(f, g, s)
               /\ SumOver(f, S) = g[S]
  BY SumSteps
<1> DEFINE Good(s) == g[s] = c * Cardinality(s)
           Bad == {m \in Nat : \E s \in SUBSET S : Cardinality(s) = m /\ ~ Good(s)}
<1>2. SUFFICES ASSUME Bad # {} PROVE FALSE
  <2>1. Cardinality(S) \in Nat /\ S \in SUBSET S
    BY FS_CardinalityType
  <2>2. Bad = {} => Good(S)
    BY <2>1
  <2> QED  BY <1>1, <1>2, <2>2
<1>3. PICK m \in Bad : \A k \in Bad : m <= k
  BY <1>2, Least
<1>4. PICK s \in SUBSET S : Cardinality(s) = m /\ ~ Good(s)
  BY <1>3
<1>5. s # {}
  <2>1. s = {} => g[s] = 0 /\ Cardinality(s) = 0
    BY <1>1, FS_EmptySet DEF Step
  <2>2. c * 0 = 0
    BY SMT
  <2> QED  BY <1>4, <2>1, <2>2
<1> DEFINE r == s \ {Pick(s)}
           d == Cardinality(r)
<1>6. /\ Pick(s) \in S /\ r \in SUBSET S
      /\ m \in Nat /\ d = m - 1 /\ m # 0
  <2>1. /\ Pick(s) \in s /\ r \in SUBSET S
        /\ Cardinality(s) \in Nat /\ d = Cardinality(s) - 1
    BY <1>5, Rest
  <2>2. Cardinality(s) # 0
    BY <1>5, FS_Subset, FS_EmptySet
  <2> QED  BY <1>4, <2>1, <2>2
<1>7. d \in Nat /\ ~ m <= d
  BY <1>6, SMT
<1>8. Good(r)
  BY <1>3, <1>6, <1>7
<1>9. g[s] = c + g[r]
  BY <1>1, <1>5, <1>6 DEF Step
<1> HIDE DEF r, d
<1>10. c * m = c * d + c
  BY <1>6, <1>7, SMT
<1>11. c * d \in Nat /\ g[r] = c * d
  BY <1>7, <1>8, SMT DEF d
<1> QED  BY <1>4, <1>9, <1>10, <1>11, SMT

-----------------------------------------------------------------------------
(* Patterns of n elements.                                                 *)

Permutes(p, n) ==
  /\ p \in [Span(n) -> Span(n)]
  /\ \A x, y \in Span(n) : p[x] = p[y] => x = y

ClosedIn(p, S) == \A x \in S : p[x] \in S

RootsOf(p, n, k, r) ==
  /\ r \in [Span(n) -> Span(k)]
  /\ \A x \in Span(n) : r[p[x]] = r[x]
  /\ \A x \in Span(k) : r[x] = x

\* Every nonempty closed set has an element below k.
RootedAt(p, n, k) ==
  \A S \in SUBSET Span(n) : S # {} /\ ClosedIn(p, S) => \E x \in S : x \in Span(k)

\* A permutation with one cycle for each element below k.
Merged(p, n, k) ==
  Permutes(p, n) /\ (\E r : RootsOf(p, n, k, r)) /\ RootedAt(p, n, k)

\* A permutation with a single cycle.
Cyclic(p, n) ==
  /\ Permutes(p, n)
  /\ \A S \in SUBSET Span(n) : S # {} /\ ClosedIn(p, S) => S = Span(n)

\* A swap of two different elements keeps a permutation a permutation.
LEMMA SwapPermutes ==
  ASSUME NEW n, NEW p, Permutes(p, n), NEW i \in Span(n), NEW j \in Span(n), i # j
  PROVE  LET q == Ops!Swap(p, i, j)
         IN  /\ Permutes(q, n)
             /\ q[i] = p[j] /\ q[j] = p[i]
             /\ \A x \in Span(n) \ {i, j} : q[x] = p[x]
<1> DEFINE q == Ops!Swap(p, i, j)
<1>1. q \in [Span(n) -> Span(n)]
  BY DEF Ops!Swap, Permutes
<1>2. /\ q[i] = p[j] /\ q[j] = p[i]
      /\ \A x \in Span(n) \ {i, j} : q[x] = p[x]
  BY DEF Ops!Swap, Permutes
<1> HIDE DEF q
<1>3. \A x, y \in Span(n) : q[x] = q[y] => x = y
  BY <1>1, <1>2 DEF Permutes
<1>4. QED
  BY <1>1, <1>2, <1>3 DEF Permutes, q

\* A closed set of a permutation has a closed complement.
LEMMA ComplementClosed ==
  ASSUME NEW n \in Nat, NEW p, Permutes(p, n),
         NEW S \in SUBSET Span(n), ClosedIn(p, S)
  PROVE  ClosedIn(p, Span(n) \ S)
<1> DEFINE f == [x \in S |-> p[x]]
<1>1. IsFiniteSet(S)
  BY SpanFinite, FS_Subset
<1>2. f \in [S -> S]
  BY DEF ClosedIn
<1>3. f \in Injection(S, S)
  BY <1>2 DEF Injection, IsInjective, Permutes
<1>4. f \in Surjection(S, S)
  <2> HIDE DEF f
  <2> QED  BY <1>1, <1>3, FS_Injection
<1>5. ASSUME NEW x \in Span(n) \ S, p[x] \in S PROVE FALSE
  <2>1. PICK y \in S : f[y] = p[x]
    BY <1>4, <1>5 DEF Surjection
  <2> QED  BY <2>1 DEF Permutes
<1> QED  BY <1>5 DEF ClosedIn, Permutes

LEMMA IdentityMerged ==
  ASSUME NEW n \in Nat \ {0}
  PROVE  Merged(Ops!Identity(n), n, n)
<1> DEFINE p == Ops!Identity(n)
<1>1. p \in [Span(n) -> Span(n)] /\ \A x \in Span(n) : p[x] = x
  BY DEF Ops!Identity, Span
<1> HIDE DEF p
<1>2. Permutes(p, n) /\ RootsOf(p, n, n, p) /\ RootedAt(p, n, n)
  BY <1>1 DEF Permutes, RootsOf, RootedAt
<1>3. QED
  BY <1>2 DEF Merged, p

\* One turn of the loop: element k is swapped with a lower one.
LEMMA SwapMerges ==
  ASSUME NEW n \in Nat \ {0}, NEW k \in 1 .. n - 1, NEW p, Merged(p, n, k + 1),
         NEW j \in Ops!RandChoices(k)
  PROVE  Merged(Ops!Swap(p, k, j), n, k)
<1> DEFINE q == Ops!Swap(p, k, j)
<1>1. j \in Nat /\ j < k
  BY SMT DEF Ops!RandChoices
<1>2. /\ k \in Span(n) /\ j \in Span(n) /\ k # j
      /\ k \in Span(k + 1) /\ j \in Span(k + 1) /\ j \in Span(k)
  BY <1>1, SMT DEF Span
<1>3. /\ \A x : x \in Span(k) <=> x \in Span(k + 1) /\ x # k
      /\ Span(k) \subseteq Span(n)
  BY SMT DEF Span
<1>4. /\ Permutes(p, n) /\ Permutes(q, n)
      /\ q[k] = p[j] /\ q[j] = p[k]
      /\ \A x \in Span(n) \ {k, j} : q[x] = p[x]
  BY <1>2, SwapPermutes DEF Merged
<1> PICK r : RootsOf(p, n, k + 1, r)
  BY DEF Merged
<1>5. /\ r \in [Span(n) -> Span(k + 1)]
      /\ \A x \in Span(n) : r[p[x]] = r[x]
      /\ r[k] = k /\ r[j] = j /\ \A x \in Span(k + 1) : r[x] = x
  BY <1>2 DEF RootsOf
<1> HIDE DEF q
<1>6. \E s : RootsOf(q, n, k, s)
  <2> DEFINE s == [x \in Span(n) |-> IF r[x] = k THEN j ELSE r[x]]
  <2>1. s \in [Span(n) -> Span(k)]
    BY <1>2, <1>3, <1>5
  <2>2. \A x \in Span(n) : s[q[x]] = s[x]
    <3> TAKE x \in Span(n)
    <3>1. p[x] \in Span(n) /\ p[k] \in Span(n) /\ p[j] \in Span(n)
      BY <1>2, <1>4 DEF Permutes
    <3>2. CASE x = k  BY <3>1, <3>2, <1>2, <1>4, <1>5
    <3>3. CASE x = j  BY <3>1, <3>3, <1>2, <1>4, <1>5
    <3>4. CASE x \notin {k, j}  BY <3>1, <3>4, <1>4, <1>5
    <3> QED  BY <3>2, <3>3, <3>4
  <2>3. \A x \in Span(k) : s[x] = x
    BY <1>3, <1>5
  <2> QED  BY <2>1, <2>2, <2>3 DEF RootsOf
<1>7. RootedAt(q, n, k)
  <2> SUFFICES ASSUME NEW S \in SUBSET Span(n), S # {},
                      \A x \in S : q[x] \in S,
                      \A x \in S : x \notin Span(k)
               PROVE  FALSE
    BY DEF RootedAt, ClosedIn
  <2>1. j \notin S
    BY <1>2
  <2>2. CASE k \notin S
    <3>1. ClosedIn(p, S)
      BY <1>4, <2>1, <2>2 DEF ClosedIn
    <3> QED  BY <3>1, <2>2, <1>3 DEF Merged, RootedAt
  <2>3. CASE k \in S
    <3> DEFINE T == {x \in S : r[x] = j}
    <3>1. p[j] \in T
      BY <1>2, <1>4, <1>5, <2>3
    <3>2. \A x \in T : p[x] \in T
      <4> TAKE x \in T
      <4>1. x # k /\ x # j
        BY <1>2, <1>5, <2>1
      <4> QED  BY <4>1, <1>4, <1>5
    <3>3. PICK x \in T : x \in Span(k + 1)
      BY <3>1, <3>2 DEF Merged, RootedAt, ClosedIn
    <3> QED  BY <3>3, <1>2, <1>3, <1>5
  <2> QED  BY <2>2, <2>3
<1>8. QED
  BY <1>4, <1>6, <1>7 DEF Merged, q

\* With one root left, only the whole region is closed.
LEMMA MergedIsCyclic ==
  ASSUME NEW n \in Nat \ {0}, NEW p, Merged(p, n, 1)
  PROVE  Cyclic(p, n)
<1> SUFFICES ASSUME NEW S \in SUBSET Span(n), S # {}, ClosedIn(p, S), S # Span(n)
             PROVE  FALSE
  BY DEF Merged, Cyclic
<1>1. \A x : x \in Span(1) => x = 0
  BY SMT DEF Span
<1>2. 0 \in S
  BY <1>1 DEF Merged, RootedAt
<1>3. ClosedIn(p, Span(n) \ S) /\ Span(n) \ S # {}
  BY ComplementClosed DEF Merged
<1>4. 0 \in Span(n) \ S
  BY <1>1, <1>3 DEF Merged, RootedAt
<1> QED  BY <1>2, <1>4

-----------------------------------------------------------------------------
(* Patterns(n), which the loop can leave.                                  *)

\* What the arrays are once elements k and above have been swapped.
AfterStep(g, k, n) ==
  IF k = n
  THEN {Ops!Identity(n)}
  ELSE UNION {{Ops!Swap(a, k, j) : j \in Ops!RandChoices(k)} : a \in g[k + 1]}

LEMMA StepsFrom ==
  ASSUME NEW n \in Nat \ {0}, NEW d \in Nat
  PROVE  \E g : \A k \in 1 .. n : n - k <= d => g[k] = AfterStep(g, k, n)
<1> DEFINE Down(e, g) == \A k \in 1 .. n : n - k <= e => g[k] = AfterStep(g, k, n)
           Bad == {e \in Nat : ~ \E g : Down(e, g)}
<1>1. SUFFICES ASSUME Bad # {} PROVE FALSE
  <2>1. Bad = {} => \E g : Down(d, g)
    OBVIOUS
  <2>2. QED
    BY <1>1, <2>1
<1>2. PICK e \in Bad : \A f \in Bad : e <= f
  BY <1>1, Least
<1>3. PICK g : \A k \in 1 .. n : n - k <= e - 1 => g[k] = AfterStep(g, k, n)
  <2>1. CASE e = 0
    <3>1. ASSUME NEW k \in 1 .. n, n - k <= e - 1 PROVE FALSE
      BY <2>1, <3>1, SMT
    <3>2. QED
      BY <3>1
  <2>2. CASE e # 0
    <3>1. e - 1 \in Nat /\ ~ e <= e - 1
      BY <2>2, SMT
    <3>2. e - 1 \notin Bad
      BY <1>2, <3>1
    <3>3. \E h : Down(e - 1, h)
      BY <3>1, <3>2
    <3>4. QED
      BY <3>3
  <2>3. QED
    BY <2>1, <2>2
<1> DEFINE h == [k \in 1 .. n |-> AfterStep(g, k, n)]
<1>4. ASSUME NEW k \in 1 .. n, n - k <= e PROVE h[k] = AfterStep(h, k, n)
  <2>1. h[k] = AfterStep(g, k, n)
    OBVIOUS
  <2>2. CASE k = n
    BY <2>1, <2>2 DEF AfterStep
  <2>3. CASE k # n
    <3>1. k + 1 \in 1 .. n /\ n - (k + 1) <= e - 1
      BY <1>4, <2>3, SMT
    <3>2. h[k + 1] = g[k + 1]
      BY <1>3, <3>1
    <3>3. QED
      BY <2>1, <3>2 DEF AfterStep
  <2>4. QED
    BY <2>2, <2>3
<1>5. Down(e, h)
  BY <1>4
<1>6. QED
  BY <1>2, <1>5

\* The recursive function of Patterns exists.
LEMMA PatternSteps ==
  ASSUME NEW n \in Nat \ {0}
  PROVE  \E g : /\ \A k \in 1 .. n : g[k] = AfterStep(g, k, n)
                /\ Ops!Patterns(n) = g[1]
<1>1. PICK g : \A k \in 1 .. n : n - k <= n => g[k] = AfterStep(g, k, n)
  BY StepsFrom
<1>2. \A k \in 1 .. n : n - k <= n
  BY SMT
<1> DEFINE h == [k \in 1 .. n |-> g[k]]
           IsAfter(f) == f = [k \in 1 .. n |-> AfterStep(f, k, n)]
<1>3. ASSUME NEW k \in 1 .. n PROVE h[k] = AfterStep(h, k, n)
  <2>1. g[k] = AfterStep(g, k, n)
    BY <1>1, <1>2
  <2>2. k # n => k + 1 \in 1 .. n
    BY SMT
  <2>3. QED
    BY <2>1, <2>2 DEF AfterStep
<1>4. IsAfter(h)
  BY <1>3
<1>5. PICK f : IsAfter(f) /\ Ops!Patterns(n) = f[1]
  BY <1>4 DEF Ops!Patterns, AfterStep
<1>6. QED
  BY <1>5

\* Every pattern the loop can leave has a single cycle.
LEMMA PatternsAreCyclic ==
  ASSUME NEW n \in Nat \ {0}, NEW p \in Ops!Patterns(n)
  PROVE  Cyclic(p, n)
<1>1. PICK g : /\ \A k \in 1 .. n : g[k] = AfterStep(g, k, n)
               /\ Ops!Patterns(n) = g[1]
  BY PatternSteps
<1> DEFINE Good(k) == \A a \in g[k] : Merged(a, n, k)
           Bad == {d \in Nat : d < n /\ ~ Good(n - d)}
<1>2. Bad = {}
  <2>1. SUFFICES ASSUME Bad # {} PROVE FALSE
    OBVIOUS
  <2>2. PICK d \in Bad : \A e \in Bad : d <= e
    BY <2>1, Least
  <2> DEFINE k == n - d
  <2>3. k \in 1 .. n /\ d \in Nat
    BY <2>2, SMT
  <2>4. PICK a \in g[k] : ~ Merged(a, n, k)
    BY <2>2
  <2>5. CASE k = n
    <3>1. g[k] = {Ops!Identity(n)}
      BY <1>1, <2>3, <2>5 DEF AfterStep
    <3>2. QED
      BY <2>4, <2>5, <3>1, IdentityMerged
  <2>6. CASE k # n
    <3>1. g[k] = UNION {{Ops!Swap(b, k, j) : j \in Ops!RandChoices(k)} : b \in g[k + 1]}
      BY <1>1, <2>3, <2>6 DEF AfterStep
    <3>2. PICK b \in g[k + 1] : \E j \in Ops!RandChoices(k) : a = Ops!Swap(b, k, j)
      BY <2>4, <3>1
    <3>3. PICK j \in Ops!RandChoices(k) : a = Ops!Swap(b, k, j)
      BY <3>2
    <3>4. d - 1 \in Nat /\ d - 1 < n /\ ~ d <= d - 1 /\ n - (d - 1) = k + 1
          /\ k \in 1 .. n - 1
      BY <2>2, <2>3, <2>6, SMT
    <3>5. Good(n - (d - 1))
      BY <2>2, <3>4
    <3>6. Merged(b, n, k + 1)
      BY <3>2, <3>4, <3>5
    <3> HIDE DEF k
    <3>7. Merged(a, n, k)
      BY <3>3, <3>4, <3>6, SwapMerges
    <3>8. QED
      BY <2>4, <3>7
  <2>7. QED
    BY <2>5, <2>6
<1>3. n - 1 \in Nat /\ n - 1 < n /\ n - (n - 1) = 1
  BY SMT
<1>4. Good(1)
  BY <1>2, <1>3
<1>5. QED
  BY <1>1, <1>4, MergedIsCyclic

-----------------------------------------------------------------------------
(* A lap of a chase through one cycle.                                     *)

\* What the lap has loaded leads to itself and to the cursor.
Path(p, loads, at) == \A x \in loads : p[x] \in loads \cup {at}

LEMMA LapCloses ==
  ASSUME NEW n, NEW p, Cyclic(p, n), NEW loads \in SUBSET Span(n),
         NEW at \in loads, Path(p, loads, at)
  PROVE  loads = Span(n)
  BY DEF Cyclic, Path, ClosedIn

LEMMA PathGoesOn ==
  ASSUME NEW p, NEW loads, NEW at, NEW all, Path(p, loads, at)
  PROVE  Path(p, (IF loads = all THEN {} ELSE loads) \cup {at}, p[at])
  BY DEF Path

-----------------------------------------------------------------------------
(* A chase that goes on and on.                                            *)

\* c is the way of m steps from s that p leads.
WayFrom(c, S, p, s, m) ==
  /\ c \in [0 .. m -> S]
  /\ c[0] = s
  /\ \A k \in 0 .. m - 1 : c[k + 1] = p[c[k]]

\* From a place in a set that a function does not leave one can follow it as
\* far as one likes.
LEMMA WayExists ==
  ASSUME NEW S, NEW p \in [S -> S], NEW s \in S, NEW m \in Nat
  PROVE  \E c : WayFrom(c, S, p, s, m)
<1> DEFINE Reach(e) == \E c : WayFrom(c, S, p, s, e)
           Bad == {e \in Nat : ~ Reach(e)}
<1>1. SUFFICES ASSUME Bad # {} PROVE FALSE
  <2>1. Bad = {} => Reach(m)
    OBVIOUS
  <2> QED  BY <1>1, <2>1
<1>2. PICK e \in Bad : \A f \in Bad : e <= f
  BY <1>1, Least
<1>3. CASE e = 0
  <2> DEFINE c == [k \in 0 .. 0 |-> s]
  <2>1. c \in [0 .. 0 -> S] /\ c[0] = s /\ \A k \in 0 .. 0 - 1 : FALSE
    BY SMT
  <2> HIDE DEF c
  <2>2. WayFrom(c, S, p, s, e)
    BY <1>3, <2>1 DEF WayFrom
  <2> QED  BY <1>2, <2>2
<1>4. CASE e # 0
  <2>1. e - 1 \in Nat /\ ~ e <= e - 1
    BY <1>2, <1>4, SMT
  <2>2. Reach(e - 1)
    BY <1>2, <2>1
  <2>3. PICK c : WayFrom(c, S, p, s, e - 1)
    BY <2>2
  <2> DEFINE d == [k \in 0 .. e |-> IF k = e THEN p[c[e - 1]] ELSE c[k]]
  <2>4. e - 1 \in 0 .. e - 1 /\ p[c[e - 1]] \in S
    BY <2>1, <2>3, SMT DEF WayFrom
  <2>5. \A k \in 0 .. e : k # e => k \in 0 .. e - 1
    BY <2>1, SMT
  <2>6. d \in [0 .. e -> S]
    BY <2>3, <2>4, <2>5 DEF WayFrom
  <2>7. 0 \in 0 .. e /\ 0 # e
    BY <1>4, <2>1, SMT
  <2>8. d[0] = s
    BY <2>3, <2>7 DEF WayFrom
  <2>9. ASSUME NEW k \in 0 .. e - 1 PROVE d[k + 1] = p[d[k]]
    <3>1. k \in 0 .. e /\ k # e /\ k + 1 \in 0 .. e
          /\ (k + 1 = e <=> k = e - 1) /\ (k # e - 1 => k \in 0 .. e - 1 - 1)
      BY <2>1, SMT
    <3>2. CASE k = e - 1
      BY <3>1, <3>2
    <3>3. CASE k # e - 1
      BY <2>3, <3>1, <3>3 DEF WayFrom
    <3> QED  BY <3>2, <3>3
  <2> HIDE DEF d
  <2>10. WayFrom(d, S, p, s, e)
    BY <2>6, <2>8, <2>9 DEF WayFrom
  <2> QED  BY <1>2, <2>10
<1> QED  BY <1>3, <1>4

=============================================================================
