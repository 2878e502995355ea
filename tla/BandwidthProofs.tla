--------------------------- MODULE BandwidthProofs --------------------------
(***************************************************************************)
(* Proofs about the memory bandwidth test.                                 *)
(*                                                                         *)
(* BandwidthRun, for any sizes, threads, amounts of data and widths of int *)
(* and uint64_t, with allocations that fail and counters that do not open: *)
(* threads run with even counts, what is reported is what was moved, and   *)
(* each line carries the counters of its own run.                          *)
(*                                                                         *)
(* BandwidthLoops, for arrays of any length and any even count: a loop     *)
(* whose stride, limit and laps agree (SoundLoop) stays inside its array,  *)
(* spreads the load evenly and does the work that its caller counts; and   *)
(* the loops of the sources, but two, are of that kind.                    *)
(***************************************************************************)
EXTENDS BandwidthRun, BandwidthLoops, OperatorLemmas, SequenceTheorems

\* Division with a remainder, of negative numbers too.
LEMMA IntDivision ==
  ASSUME NEW a \in Int, NEW b \in Nat \ {0}
  PROVE  /\ a \div b \in Int /\ a % b \in 0 .. b - 1
         /\ a = b * (a \div b) + (a % b)
  BY SMT

LEMMA IsMultiple ==
  ASSUME NEW a \in Nat, NEW b \in Nat \ {0}, a % b = 0
  PROVE  \E q \in Nat \ {0} : a # 0 => a = b * q
<1> DEFINE q == a \div b
           r == a % b
<1>1. q \in Nat /\ a = b * q
  <2>1. q \in Nat /\ r = 0 /\ a = b * q + r
    BY Division
  <2> HIDE DEF q, r
  <2>2. b * q \in Nat
    BY <2>1, SMT
  <2> QED  BY <2>1, <2>2, SMT
<1>2. a # 0 => q # 0
  <2>1. b * 0 = 0
    BY SMT
  <2> QED  BY <1>1, <2>1
<1> HIDE DEF q
<1>3. CASE a = 0
  BY <1>3, SMT
<1>4. CASE a # 0
  BY <1>1, <1>2, <1>4
<1> QED  BY <1>3, <1>4

\* A remainder of a multiple is a multiple.
LEMMA RestOfMultiple ==
  ASSUME NEW m \in Nat \ {0}, NEW k \in Int, NEW q \in Nat \ {0}
  PROVE  \E j \in Nat : j < q /\ (m * k) % (m * q) = m * j
<1> DEFINE a == m * k
           b == m * q
           d == a \div b
           r == a % b
<1>1. a \in Int /\ b \in Nat \ {0}
  BY SMT
<1> HIDE DEF a, b
<1>2. d \in Int /\ r \in 0 .. b - 1 /\ a = b * d + r
  BY <1>1, IntDivision
<1> HIDE DEF d, r
<1> DEFINE j == k - q * d
<1>3. j \in Int
  BY <1>2, SMT
<1>4. m * j = m * k - m * (q * d) /\ m * (q * d) = (m * q) * d
  BY <1>2, SMT
<1>5. b * d \in Int /\ m * j \in Int
  BY <1>1, <1>2, <1>3, SMT
<1>6. r = m * j
  BY <1>1, <1>2, <1>4, <1>5, SMT DEF a, b
<1> HIDE DEF j
<1>7. ~ j < 0
  <2> SUFFICES ASSUME j < 0 PROVE FALSE
    OBVIOUS
  <2>1. 0 - 1 - j \in Nat
    BY <1>3, SMT
  <2>2. m * (0 - 1 - j) \in Nat /\ m * (0 - 1 - j) = 0 - m - m * j
    BY <1>3, <2>1, SMT
  <2> QED  BY <1>2, <1>5, <1>6, <2>2, SMT
<1>8. j < q
  <2> SUFFICES ASSUME ~ j < q PROVE FALSE
    OBVIOUS
  <2>1. j - q \in Nat
    BY <1>3, SMT
  <2>2. m * (j - q) \in Nat /\ m * (j - q) = m * j - m * q
    BY <1>3, <2>1, SMT
  <2> QED  BY <1>1, <1>2, <1>5, <1>6, <2>2, SMT DEF b
<1>9. j \in Nat
  BY <1>3, <1>7, SMT
<1> QED  BY <1>6, <1>8, <1>9 DEF r, a, b

-----------------------------------------------------------------------------
(* The tests, and what GetIterationCount computes for one.                 *)

Sized(n, t) == sizeKb = n /\ threads = t /\ n \in Nat \ {0} /\ t \in 1 .. MaxThreads

LEMMA ConstantTypes ==
  /\ MaxThreads \in Nat \ {0} /\ MaxThreads < Mega /\ 8 * MaxThreads < LongSpan
  /\ SmallSize \in Nat /\ MaxFailures \in Nat
  /\ Mega \in Nat \ {0} /\ IntSpan \in Nat \ {0} /\ LongSpan \in Nat \ {0}
  /\ Len(Sizes) \in Nat \ {0} /\ 1 \in Events
  /\ \A i \in 1 .. Len(Sizes) : Sizes[i] \in Nat \ {0}
  BY BandwidthRunAssumption, SMT

\* The tests are numbered from one, and each has a size and threads.
LEMMA TestsAre ==
  ASSUME mode \in {"sizes", "single", "auto"}
  PROVE  /\ Len(Tests) \in Nat \ {0} /\ DOMAIN Tests = 1 .. Len(Tests)
         /\ \A i \in 1 .. Len(Tests) :
              Tests[i][1] \in Nat \ {0} /\ Tests[i][2] \in 1 .. MaxThreads
<1> DEFINE n == Len(Sizes)
           m == n * MaxThreads
<1>1. n \in Nat \ {0} /\ MaxThreads \in 1 .. MaxThreads /\ n \in 1 .. n
      /\ \A i \in 1 .. n : Sizes[i] \in Nat \ {0}
  BY ConstantTypes, SMT
<1>2. CASE mode = "sizes"
  <2>1. Tests = [i \in 1 .. n |-> <<Sizes[i], MaxThreads>>]
    BY <1>2 DEF Tests
  <2> HIDE DEF n
  <2>2. Len(Tests) = n /\ DOMAIN Tests = 1 .. n
    BY <1>1, <2>1, SMT
  <2>3. \A i \in 1 .. n : Tests[i][1] = Sizes[i] /\ Tests[i][2] = MaxThreads
    BY <2>1
  <2> QED  BY <1>1, <2>2, <2>3
<1>3. CASE mode = "single"
  <2>1. Tests = << <<Sizes[n], MaxThreads>> >>
    BY <1>3 DEF Tests
  <2> HIDE DEF n
  <2>2. Len(Tests) = 1 /\ DOMAIN Tests = 1 .. 1
        /\ Tests[1] = <<Sizes[n], MaxThreads>> /\ \A i \in 1 .. 1 : i = 1
    BY <2>1, SMT
  <2>3. Tests[1][1] = Sizes[n] /\ Tests[1][2] = MaxThreads
    BY <2>2
  <2> QED  BY <1>1, <2>2, <2>3
<1>4. CASE mode = "auto"
  <2>1. Tests = [i \in 1 .. m |-> <<Sizes[1 + ((i - 1) % n)], 1 + (i - 1) \div n>>]
    BY <1>4 DEF Tests
  <2>2. m \in Nat \ {0}
    BY <1>1, ConstantTypes, SMT
  <2>3. Len(Tests) = m /\ DOMAIN Tests = 1 .. m
    <3> HIDE DEF m, n
    <3> QED  BY <2>1, <2>2, SMT
  <2>4. ASSUME NEW i \in 1 .. m
        PROVE  1 + ((i - 1) % n) \in 1 .. n /\ 1 + (i - 1) \div n \in 1 .. MaxThreads
    <3> DEFINE q == (i - 1) \div n
               r == (i - 1) % n
    <3>1. i - 1 \in Nat /\ i - 1 < m
      BY <2>2, <2>4, SMT
    <3>2. q \in Nat /\ r \in 0 .. n - 1 /\ i - 1 = n * q + r
      BY <1>1, <3>1, Division
    <3>3. 1 + r \in 1 .. n
      <4> HIDE DEF r, n
      <4> QED  BY <1>1, <3>2, SMT
    <3>4. q < MaxThreads
      <4> SUFFICES ASSUME ~ q < MaxThreads PROVE FALSE
        OBVIOUS
      <4> HIDE DEF q, r, n, m
      <4>1. q - MaxThreads \in Nat /\ MaxThreads \in Nat
        BY <3>2, ConstantTypes, SMT
      <4>2. n * (q - MaxThreads) \in Nat /\ n * (q - MaxThreads) = n * q - n * MaxThreads
        BY <1>1, <3>2, <4>1, SMT
      <4>3. n * q \in Nat /\ n * MaxThreads \in Nat
        BY <1>1, <3>2, <4>1, SMT
      <4> QED  BY <3>1, <3>2, <4>2, <4>3, SMT DEF m
    <3>5. 1 + q \in 1 .. MaxThreads
      <4> HIDE DEF q
      <4> QED  BY <3>2, <3>4, ConstantTypes, SMT
    <3> QED  BY <3>3, <3>5
  <2>5. \A i \in 1 .. m : Tests[i][1] \in Nat \ {0} /\ Tests[i][2] \in 1 .. MaxThreads
    <3> TAKE i \in 1 .. m
    <3>1. Tests[i] = <<Sizes[1 + ((i - 1) % n)], 1 + (i - 1) \div n>>
      BY <2>1
    <3> QED  BY <1>1, <2>4, <3>1
  <2> QED  BY <2>2, <2>3, <2>5
<1> QED  BY <1>2, <1>3, <1>4

\* What is divided by the size is a multiple of Mega, negative products that
\* are converted to a uint64_t included.
LEMMA Dividend ==
  ASSUME NEW scaled \in Nat
  PROVE  LET x == AsInt(scaled * Mega) % LongSpan
         IN  x \in Nat /\ x <= LongSpan - Mega
<1>1. PICK p \in Nat \ {0} : IntSpan = Mega * p
  BY BandwidthRunAssumption, IsMultiple
<1>2. PICK q \in Nat \ {0} : LongSpan = IntSpan * q
  BY BandwidthRunAssumption, IsMultiple
<1> DEFINE h == IntSpan \div 2
           n == scaled * Mega
           d == (n + h) \div IntSpan
<1>3. h \in Nat /\ n \in Nat /\ Mega \in Nat \ {0}
  BY ConstantTypes, SMT
<1>4. d \in Int /\ AsInt(n) = n - IntSpan * d
  <2>1. n + h \in Int
    BY <1>3
  <2>2. /\ d \in Int /\ (n + h) % IntSpan \in 0 .. IntSpan - 1
        /\ n + h = IntSpan * d + ((n + h) % IntSpan)
    BY <2>1, IntDivision, ConstantTypes
  <2>3. IntSpan * d \in Int
    BY <2>2, ConstantTypes, SMT
  <2>4. AsInt(n) = ((n + h) % IntSpan) - h
    BY DEF AsInt
  <2> HIDE DEF d, n, h
  <2> QED  BY <1>3, <2>2, <2>3, <2>4, SMT
<1> DEFINE k == scaled - p * d
<1>5. k \in Int
  BY <1>4, SMT
<1>6. AsInt(n) = Mega * k
  <2> HIDE DEF d
  <2>1. Mega * k = Mega * scaled - (Mega * p) * d
    BY <1>3, <1>4, SMT
  <2>2. n = Mega * scaled
    BY <1>3, SMT
  <2> QED  BY <1>1, <1>4, <2>1, <2>2
<1>7. p * q \in Nat \ {0} /\ LongSpan = Mega * (p * q)
  BY <1>1, <1>2, <1>3, SMT
<1> DEFINE l == p * q
           x == AsInt(n) % LongSpan
<1> HIDE DEF k, n, l, x
<1>8. PICK j \in Nat : j < l /\ x = Mega * j
  <2>1. x = (Mega * k) % (Mega * l)
    BY <1>6, <1>7 DEF x, l
  <2>2. l \in Nat \ {0}
    BY <1>7 DEF l
  <2> HIDE DEF x
  <2> QED  BY <1>3, <1>5, <2>1, <2>2, RestOfMultiple
<1>9. l - 1 - j \in Nat /\ l \in Nat
  BY <1>7, <1>8, SMT DEF l
<1>10. Mega * (l - 1 - j) \in Nat /\ Mega * (l - 1 - j) = Mega * l - Mega - Mega * j
  BY <1>3, <1>9, SMT
<1>11. Mega * j \in Nat /\ Mega * l = LongSpan
  BY <1>3, <1>7, <1>8, SMT DEF l
<1>12. x \in Nat /\ x <= LongSpan - Mega
  BY <1>3, <1>8, <1>10, <1>11, ConstantTypes, SMT
<1> QED  BY <1>12 DEF x, n

LEMMA EvenUpIs ==
  ASSUME NEW n \in Nat
  PROVE  EvenUp(n) \in {n, n + 1} /\ EvenUp(n) % 2 = 0
  BY SMT DEF EvenUp

\* The count is even, at least eight, and the threads' share of a private run
\* is a whole multiple of it: nothing wraps.
LEMMA CountIs ==
  ASSUME gbToTransfer \in Nat, NEW n, NEW t, Sized(n, t)
  PROVE  /\ GetIterationCount \in Nat /\ GetIterationCount >= 8
         /\ GetIterationCount % 2 = 0
         /\ t <= n => GetIterationCount * t < LongSpan
<1> DEFINE scaled == IF sizeKb > SmallSize THEN gbToTransfer \div 8 ELSE gbToTransfer
           x == AsInt(scaled * Mega) % LongSpan
           q == x \div n
           e == EvenUp(q)
<1>1. scaled \in Nat
  BY Division
<1>2. x \in Nat /\ x <= LongSpan - Mega
  <2> HIDE DEF scaled
  <2> QED  BY <1>1, Dividend
<1>3. n \in Nat \ {0} /\ sizeKb = n /\ t \in 1 .. MaxThreads
  BY DEF Sized
<1> DEFINE nq == n * q
<1>4. q \in Nat /\ nq \in Nat /\ nq <= x
  <2> DEFINE r == x % n
  <2>1. q \in Nat /\ r \in 0 .. n - 1 /\ x = nq + r
    BY <1>2, <1>3, Division
  <2>2. nq \in Nat
    <3> HIDE DEF q
    <3> QED  BY <1>3, <2>1, SMT
  <2> HIDE DEF q, nq, r, x
  <2> QED  BY <1>3, <2>1, <2>2, SMT
<1>5. e \in {q, q + 1} /\ e % 2 = 0
  BY <1>4, EvenUpIs
<1>6. q <= x
  <2> HIDE DEF x
  <2>1. n - 1 \in Nat
    BY <1>3, SMT
  <2> HIDE DEF q
  <2>2. (n - 1) * q \in Nat /\ (n - 1) * q = n * q - q
    BY <1>3, <1>4, <2>1, SMT
  <2> QED  BY <1>2, <1>4, <2>2, SMT
<1> HIDE DEF scaled, x, q, e
<1>7. e \in Nat /\ e < LongSpan /\ Mega >= 2
  BY <1>2, <1>4, <1>5, <1>6, ConstantTypes, SMT
<1>8. e % LongSpan = e
  BY <1>7, ConstantTypes, SMT
<1>9. GetIterationCount = IF e < 8 THEN 8 ELSE e
  BY <1>3, <1>8 DEF GetIterationCount, scaled, x, q, e
<1>10. ASSUME t <= n PROVE GetIterationCount * t < LongSpan
  <2>0. t \in Nat \ {0} /\ t <= MaxThreads
    BY <1>3, ConstantTypes, SMT
  <2>1. 8 * t < LongSpan
    BY <2>0, ConstantTypes, SMT
  <2>2. n - t \in Nat
    BY <1>3, <1>10, <2>0, SMT
  <2>3. (n - t) * q \in Nat /\ (n - t) * q = n * q - q * t /\ q * t \in Nat
    BY <1>3, <1>4, <2>0, <2>2, SMT
  <2>4. (q + 1) * t = q * t + t
    BY <1>4, <2>0, SMT
  <2>5. q * t <= x
    BY <1>2, <1>4, <2>3, SMT
  <2>6. q * t < LongSpan /\ (q + 1) * t < LongSpan
    BY <1>2, <2>0, <2>3, <2>4, <2>5, ConstantTypes, SMT
  <2> QED  BY <1>5, <1>9, <2>1, <2>6
<1> QED  BY <1>5, <1>7, <1>9, <1>10, SMT

-----------------------------------------------------------------------------
(* What one execution of an instruction array fetches.                     *)

\* One level of Fetched: a line, what it calls and what follows it.
FetchStep(array, f, l) ==
  {l} \union (IF array[l].call = -1 THEN {} ELSE f[array[l].call])
      \union (IF array[l].ret THEN {} ELSE f[l + 1])

\* In an array whose calls all go forward there is one way to fetch.
LEMMA FetchedIs ==
  ASSUME NEW n \in Nat \ {0}, NEW array, DOMAIN array = 0 .. n - 1,
         \A l \in 0 .. n - 1 :
           /\ array[l].call = -1 \/ array[l].call \in l + 1 .. n - 1
           /\ array[l].ret \/ l + 1 \in 0 .. n - 1,
         NEW h, h = [l \in 0 .. n - 1 |-> FetchStep(array, h, l)]
  PROVE  Fetched(array) = h[0]
<1> DEFINE Fetches(f) == f = [l \in DOMAIN array |-> FetchStep(array, f, l)]
<1>1. PICK f : Fetches(f) /\ Fetched(array) = f[0]
  <2>1. Fetches(h)
    OBVIOUS
  <2> QED  BY <2>1 DEF Fetched, FetchStep
<1>2. \A l \in 0 .. n - 1 : f[l] = FetchStep(array, f, l)
  BY <1>1
<1>3. \A l \in 0 .. n - 1 : h[l] = FetchStep(array, h, l)
  OBVIOUS
<1> DEFINE Bad == {d \in Nat : d < n /\ f[n - 1 - d] # h[n - 1 - d]}
<1>4. Bad = {}
  <2> SUFFICES ASSUME Bad # {} PROVE FALSE
    OBVIOUS
  <2>1. PICK d \in Bad : \A e \in Bad : d <= e
    BY Least
  <2> DEFINE l == n - 1 - d
  <2>2. l \in 0 .. n - 1
    BY <2>1, SMT
  <2>3. ASSUME NEW k \in l + 1 .. n - 1 PROVE f[k] = h[k]
    <3>1. n - 1 - k \in Nat /\ n - 1 - k < n /\ ~ d <= n - 1 - k
          /\ n - 1 - (n - 1 - k) = k
      BY <2>1, <2>2, SMT
    <3> QED  BY <2>1, <3>1
  <2>4. /\ array[l].call = -1 \/ array[l].call \in l + 1 .. n - 1
        /\ array[l].ret \/ l + 1 \in l + 1 .. n - 1
    BY <2>2, SMT
  <2>5. f[l] = FetchStep(array, f, l) /\ h[l] = FetchStep(array, h, l)
    BY <1>2, <1>3, <2>2
  <2>6. FetchStep(array, f, l) = FetchStep(array, h, l)
    <3> HIDE DEF l
    <3> QED  BY <2>3, <2>4 DEF FetchStep
  <2> QED  BY <2>1, <2>5, <2>6
<1>5. n - 1 \in Nat /\ n - 1 < n /\ n - 1 - (n - 1) = 0
  BY SMT
<1> QED  BY <1>1, <1>4, <1>5

\* An array of NOPs is fetched as a whole.
LEMMA NopsFetched ==
  ASSUME NEW kb \in Nat \ {0}
  PROVE  Fetched(Nops(kb)) = 0 .. 16 * kb - 1
<1> DEFINE n == 16 * kb
           array == Nops(kb)
           h == [l \in 0 .. n - 1 |-> l .. n - 1]
<1>1. n \in Nat \ {0}
  BY SMT
<1>2. /\ DOMAIN array = 0 .. n - 1
      /\ \A l \in 0 .. n - 1 : array[l].call = -1 /\ (array[l].ret <=> l = n - 1)
  BY DEF Nops
<1> HIDE DEF n, array
<1>3. \A l \in 0 .. n - 1 : array[l].ret \/ l + 1 \in 0 .. n - 1
  BY <1>1, <1>2, SMT
<1>4. ASSUME NEW l \in 0 .. n - 1 PROVE FetchStep(array, h, l) = l .. n - 1
  <2>1. CASE l = n - 1
    <3>1. {l} = l .. n - 1
      BY <1>1, <2>1, SMT
    <3> QED  BY <1>2, <2>1, <3>1 DEF FetchStep
  <2>2. CASE l # n - 1
    <3>1. l + 1 \in 0 .. n - 1 /\ l .. n - 1 = {l} \union (l + 1 .. n - 1)
      BY <1>1, <2>2, SMT
    <3> QED  BY <1>2, <2>2, <3>1 DEF FetchStep
  <2> QED  BY <2>1, <2>2
<1>5. h = [l \in 0 .. n - 1 |-> FetchStep(array, h, l)]
  BY <1>4
<1>6. h[0] = 0 .. n - 1
  BY <1>1, SMT
<1> HIDE DEF h
<1>7. Fetched(array) = h[0]
  BY <1>1, <1>2, <1>3, <1>5, FetchedIs
<1> QED  BY <1>6, <1>7 DEF array, n

\* So is an array of calls.
LEMMA CallsFetched ==
  ASSUME NEW kb \in Nat \ {0}
  PROVE  Fetched(Calls(kb)) = 0 .. 16 * kb - 1
<1> DEFINE n == 16 * kb
           c == 8 * kb
           array == Calls(kb)
           h == [l \in 0 .. n - 1 |->
                  IF l < c THEN (l .. c - 1) \union (c + l .. n - 1) ELSE {l}]
<1>1. n \in Nat \ {0} /\ c \in Nat \ {0} /\ n = c + c /\ kb * 8 = c
  BY SMT
<1>2. /\ DOMAIN array = 0 .. n - 1
      /\ \A l \in 0 .. n - 1 :
           IF l < c THEN array[l].call = c + l /\ (array[l].ret <=> l = c - 1)
                    ELSE array[l].call = -1 /\ array[l].ret
  BY <1>1 DEF Calls, callCount, CallDestination
<1> HIDE DEF n, c, array
<1>3. \A l \in 0 .. n - 1 :
        /\ array[l].call = -1 \/ array[l].call \in l + 1 .. n - 1
        /\ array[l].ret \/ l + 1 \in 0 .. n - 1
  <2> TAKE l \in 0 .. n - 1
  <2>1. CASE l < c
    <3>1. /\ c + l \in l + 1 .. n - 1
          /\ l # c - 1 => l + 1 \in 0 .. n - 1
      BY <1>1, <2>1, SMT
    <3> QED  BY <1>2, <2>1, <3>1
  <2> QED  BY <1>2, <2>1
<1>4. ASSUME NEW l \in 0 .. n - 1 PROVE FetchStep(array, h, l) = h[l]
  <2>1. CASE ~ l < c
    BY <1>2, <2>1 DEF FetchStep
  <2>2. CASE l < c
    <3>1. c + l \in 0 .. n - 1 /\ ~ c + l < c /\ ~ c + l = -1
      BY <1>1, <2>2, SMT
    <3>2. h[c + l] = {c + l}
      BY <3>1
    <3>3. CASE l = c - 1
      <4>1. (l .. c - 1) \union (c + l .. n - 1) = {l} \union {c + l}
        BY <1>1, <3>3, SMT
      <4>2. FetchStep(array, h, l) = {l} \union {c + l}
        BY <1>2, <2>2, <3>1, <3>2, <3>3 DEF FetchStep
      <4> QED  BY <2>2, <4>1, <4>2
    <3>4. CASE l # c - 1
      <4>1. l + 1 \in 0 .. n - 1 /\ l + 1 < c
        BY <1>1, <2>2, <3>4, SMT
      <4>2. h[l + 1] = (l + 1 .. c - 1) \union (c + (l + 1) .. n - 1)
        BY <4>1
      <4>3. FetchStep(array, h, l) = {l} \union {c + l} \union h[l + 1]
        BY <1>2, <2>2, <3>1, <3>2, <3>4 DEF FetchStep
      <4>4. /\ l .. c - 1 = {l} \union (l + 1 .. c - 1)
            /\ c + l .. n - 1 = {c + l} \union (c + (l + 1) .. n - 1)
        BY <1>1, <2>2, <4>1, SMT
      <4>5. h[l] = (l .. c - 1) \union (c + l .. n - 1)
        BY <2>2
      <4> HIDE DEF h
      <4> QED  BY <4>2, <4>3, <4>4, <4>5
    <3> QED  BY <3>3, <3>4
  <2> QED  BY <2>1, <2>2
<1>5. h = [l \in 0 .. n - 1 |-> FetchStep(array, h, l)]
  BY <1>4
<1>6. h[0] = 0 .. n - 1
  <2>1. 0 \in 0 .. n - 1 /\ 0 < c
        /\ (0 .. c - 1) \union (c + 0 .. n - 1) = 0 .. n - 1
    BY <1>1, SMT
  <2> QED  BY <2>1
<1> HIDE DEF h
<1>7. Fetched(array) = h[0]
  <2>1. n \in Nat \ {0} /\ DOMAIN array = 0 .. n - 1
    BY <1>1, <1>2
  <2> QED  BY <2>1, <1>3, <1>5, FetchedIs
<1> QED  BY <1>6, <1>7 DEF array, n

\* Whatever it is made of, what an execution fetches is the array's size.
LEMMA FetchedKbIs ==
  ASSUME NEW kb \in Nat \ {0}, NEW nopSize
  PROVE  FetchedKb(kb, nopSize) = kb
<1> DEFINE n == 16 * kb
<1>1. Fetched(Layout(kb, nopSize)) = Span(n)
  BY NopsFetched, CallsFetched DEF Layout, Span
<1>2. n \in Nat /\ n \div 16 = kb
  BY SMT
<1> HIDE DEF n
<1>3. Cardinality(Span(n)) = n
  BY <1>2, SpanFinite
<1> QED  BY <1>1, <1>2, <1>3 DEF FetchedKb

-----------------------------------------------------------------------------
(* The inductive invariant.                                                *)

Options ==
  /\ mode \in {"sizes", "single", "auto"} /\ shared \in BOOLEAN
  /\ gbToTransfer \in Gigabytes

Places == {"open", "allocate", "start", "create", "join", "stop", "report",
           "row", "close", "end"}

\* Where a test has allocated nothing yet, or has given everything back.
Empty == phase \in {"open", "row"} \/ (phase = "allocate" /\ (turn = 1 \/ TooMany))

RowLines == [bw : Nat, value : [Events -> Nat]]

Types ==
  /\ Options /\ Perf!CountersOK
  /\ phase \in Places /\ test \in 1 .. Len(Tests) /\ turn \in Threads
  /\ phase \notin {"allocate", "create", "join"} => turn = 1
  /\ arrays \subseteq Threads /\ (Empty => arrays = {})
  /\ leaked \in Nat /\ failures \in 0 .. MaxFailures
  /\ threadData \in [1 .. MaxThreads -> Nat]
  /\ moved \in [1 .. MaxThreads -> Nat]
  /\ bw \in Nat /\ rows \in Seq(RowLines)

\* The lines printed are those of the tests before this one.
Printed ==
  /\ phase \notin {"close", "end"} => Len(rows) = test - 1
  /\ phase \in {"close", "end"} => Len(rows) = Len(Tests)
  /\ phase = "open" => rows = <<>>

\* Threads run only between their creation and their join.
Running ==
  /\ running \subseteq Threads
  /\ phase \notin {"create", "join"} => running = {}
  /\ phase = "create" => \A t \in running : t < turn
  /\ phase = "join" => \A t \in running : turn <= t

Measuring == phase \in {"start", "create", "join", "stop", "report"}

\* Each thread has been given this test's iterations before it is created.
Given ==
  /\ phase = "allocate" => \A t \in Threads : t < turn => threadData[t] = ThreadIterations
  /\ Measuring => ~ TooMany /\ \A t \in Threads : threadData[t] = ThreadIterations

\* What a thread has moved when it has ended.
Share == ThreadIterations * Elements

Moved ==
  /\ phase = "create" => \A t \in Threads \ running : t < turn => moved[t] = Share
  /\ phase \in {"join", "stop", "report"} =>
       \A t \in Threads \ running : moved[t] = Share
  /\ phase = "row" /\ bw # 0 =>
       /\ ~ TooMany /\ bw = Total(GetIterationCount)
       /\ \A t \in Threads : moved[t] = Share

\* The counters read after this test's run, until its line is printed.
Monitored == pmon /\ fds[1] = "open"
ReadFor(i, v) == \A e \in Events : fds[e] = "open" => v[e] = i

Metered ==
  /\ phase = "report" /\ Monitored => ReadFor(test, value)
  /\ phase = "row" /\ bw # 0 /\ Monitored => ReadFor(test, value)
  /\ \A i \in 1 .. Len(rows) : rows[i].bw # 0 /\ Monitored => ReadFor(i, rows[i].value)

IInv == Types /\ Printed /\ Running /\ Given /\ Moved /\ Metered

-----------------------------------------------------------------------------
(* What a test amounts to.                                                 *)

LEMMA TestNumbers ==
  ASSUME Options, test \in 1 .. Len(Tests)
  PROVE  /\ Sized(sizeKb, threads) /\ sizeKb \in Nat \ {0} /\ threads \in Nat \ {0}
         /\ threads <= MaxThreads /\ Threads \subseteq 1 .. MaxThreads
         /\ Elements \in Nat \ {0}
         /\ GetIterationCount \in Nat /\ ThreadIterations \in Nat
         /\ Total(GetIterationCount) \in Nat /\ Share \in Nat
<1>1. Sized(sizeKb, threads)
  BY TestsAre DEF Options, Sized, sizeKb, threads
<1>2. sizeKb \in Nat \ {0} /\ threads \in Nat \ {0} /\ threads <= MaxThreads
  BY <1>1, ConstantTypes, SMT DEF Sized
<1>3. Threads \subseteq 1 .. MaxThreads
  BY <1>2, ConstantTypes, SMT DEF Threads
<1>4. Elements \in Nat \ {0}
  <2> DEFINE n == sizeKb + threads - 1
             q == n \div threads
             r == n % threads
  <2>1. n \in Nat
    BY <1>2, SMT
  <2>2. q \in Nat /\ r \in 0 .. threads - 1 /\ n = threads * q + r
    BY <1>2, <2>1, Division
  <2>3. q # 0
    <3> SUFFICES ASSUME q = 0 PROVE FALSE
      OBVIOUS
    <3>1. threads * q = 0 /\ n = sizeKb + threads - 1
      BY <1>2, SMT
    <3> HIDE DEF n, q, r
    <3> QED  BY <1>2, <2>2, <3>1, SMT
  <2> QED  BY <1>2, <2>2, <2>3 DEF Elements
<1>5. GetIterationCount \in Nat
  BY <1>1, CountIs, BandwidthRunAssumption DEF Options
<1>6. ThreadIterations \in Nat
  <2> DEFINE p == GetIterationCount * threads
  <2>1. p \in Nat
    BY <1>2, <1>5, SMT
  <2> HIDE DEF p
  <2>2. p % LongSpan \in Nat
    BY <2>1, ConstantTypes, SMT
  <2> QED  BY <1>5, <2>2 DEF ThreadIterations, p
<1>7. Total(GetIterationCount) \in Nat
  <2> DEFINE a == GetIterationCount * Elements
             b == a * threads
             c == IF shared THEN 1 ELSE threads
  <2>1. a \in Nat
    BY <1>4, <1>5, SMT
  <2> HIDE DEF a
  <2>2. b \in Nat /\ c \in Nat
    BY <1>2, <2>1, SMT
  <2> HIDE DEF b, c
  <2>3. b * c \in Nat
    BY <2>2, SMT
  <2> QED  BY <2>3 DEF Total, a, b, c
<1>8. Share \in Nat
  BY <1>4, <1>6, SMT DEF Share
<1> QED  BY <1>1, <1>2, <1>3, <1>4, <1>5, <1>6, <1>7, <1>8

\* With no more threads than KB the threads' share does not wrap.
LEMMA IterationsAre ==
  ASSUME Options, test \in 1 .. Len(Tests), ~ TooMany
  PROVE  /\ ThreadIterations = IF shared THEN GetIterationCount ELSE GetIterationCount * threads
         /\ ThreadIterations >= 8 /\ ThreadIterations % 2 = 0
<1> DEFINE g == GetIterationCount
<1>1. /\ Sized(sizeKb, threads) /\ g \in Nat /\ ThreadIterations \in Nat
      /\ sizeKb \in Nat \ {0} /\ threads \in Nat \ {0}
  BY TestNumbers
<1>2. g >= 8 /\ g % 2 = 0 /\ (threads <= sizeKb => g * threads < LongSpan)
  BY <1>1, CountIs, BandwidthRunAssumption DEF Options
<1>3. CASE shared
  BY <1>1, <1>2, <1>3 DEF ThreadIterations
<1>4. CASE ~ shared
  <2> DEFINE h == g \div 2
             p == g * threads
  <2>0. threads <= sizeKb
    BY <1>1, <1>4, SMT DEF TooMany
  <2> HIDE DEF g
  <2>1. h \in Nat /\ g = 2 * h
    BY <1>1, <1>2, SMT
  <2>2. p \in Nat /\ p < LongSpan
    BY <1>1, <1>2, <2>0, SMT
  <2>3. p >= 8
    <3>1. threads - 1 \in Nat
      BY <1>1, SMT
    <3>2. g * (threads - 1) \in Nat /\ g * (threads - 1) = g * threads - g
      BY <1>1, <3>1, SMT
    <3> QED  BY <1>1, <1>2, <2>2, <3>2, SMT
  <2>4. p % 2 = 0
    <3> HIDE DEF h
    <3>1. h * threads \in Nat /\ p = 2 * (h * threads)
      BY <1>1, <2>1, SMT
    <3> DEFINE k == h * threads
    <3> HIDE DEF k, p
    <3> QED  BY <3>1, SMT DEF k
  <2>5. p % LongSpan = p
    <3> HIDE DEF p
    <3> QED  BY <2>2, ConstantTypes, SMT
  <2>6. ThreadIterations = p
    BY <1>4, <2>5 DEF ThreadIterations, g
  <2> HIDE DEF p
  <2>7. ThreadIterations >= 8 /\ ThreadIterations % 2 = 0
    BY <2>3, <2>4, <2>6
  <2> QED  BY <1>4, <2>6, <2>7 DEF g, p
<1> QED  BY <1>3, <1>4

\* A step that stays with the test leaves what it amounts to.
LEMMA SameTest ==
  ASSUME UNCHANGED <<options, test>>
  PROVE  /\ UNCHANGED <<mode, shared, pmon, nopBytes, gbToTransfer>>
         /\ Tests' = Tests /\ sizeKb' = sizeKb /\ threads' = threads
         /\ Threads' = Threads /\ Elements' = Elements /\ TooMany' = TooMany
         /\ GetIterationCount' = GetIterationCount /\ ThreadIterations' = ThreadIterations
         /\ Share' = Share /\ Options' = Options
         /\ Total(GetIterationCount)' = Total(GetIterationCount)
  BY DEF options, Tests, sizeKb, threads, Threads, Elements, TooMany,
     GetIterationCount, ThreadIterations, Share, Options, Total

-----------------------------------------------------------------------------
(* It is inductive.                                                        *)

\* What the steps need of the constants and of the first turn.
LEMMA Numbers ==
  ASSUME IInv
  PROVE  /\ Options /\ test \in Nat \ {0} /\ test <= Len(Tests) /\ Len(Tests) \in Nat
         /\ threads \in Nat \ {0} /\ turn \in Nat \ {0} /\ turn <= threads
         /\ 1 \in Threads /\ Threads \subseteq 1 .. MaxThreads
         /\ Elements \in Nat \ {0} /\ ThreadIterations \in Nat /\ Share \in Nat
         /\ Total(GetIterationCount) \in Nat
<1>1. /\ Options /\ test \in 1 .. Len(Tests) /\ turn \in Threads
  BY DEF IInv, Types
<1>2. Len(Tests) \in Nat
  BY <1>1, TestsAre DEF Options
<1>3. /\ threads \in Nat \ {0} /\ Threads \subseteq 1 .. MaxThreads
      /\ Elements \in Nat \ {0} /\ ThreadIterations \in Nat /\ Share \in Nat
      /\ Total(GetIterationCount) \in Nat
  BY <1>1, TestNumbers
<1>4. turn \in Nat \ {0} /\ turn <= threads /\ 1 \in Threads
  BY <1>1, <1>3, SMT DEF Threads
<1>5. test \in Nat \ {0} /\ test <= Len(Tests)
  BY <1>1, <1>2, SMT
<1> QED  BY <1>1, <1>2, <1>3, <1>4, <1>5

LEMMA NextTurnOf ==
  ASSUME IInv, ~ LastTurn
  PROVE  /\ turn + 1 \in Threads
         /\ \A t \in Threads : (t < turn + 1 <=> t < turn \/ t = turn)
         /\ \A t \in Threads : (turn + 1 <= t <=> turn <= t /\ t # turn)
  BY Numbers, SMT DEF LastTurn, Threads

LEMMA AtTheLast ==
  ASSUME IInv, LastTurn
  PROVE  /\ \A t \in Threads : t < turn \/ t = turn
         /\ \A t \in Threads : turn <= t => t = turn
  BY Numbers, SMT DEF LastTurn, Threads

LEMMA AtTheFirst ==
  ASSUME IInv
  PROVE  \A t \in Threads : ~ t < 1 /\ 1 <= t
  BY Numbers, SMT DEF Threads

LEMMA Initially == MainInit => IInv
<1> SUFFICES ASSUME MainInit PROVE IInv
  OBVIOUS
<1>1. Options
  BY DEF MainInit, Options
<1>2. Len(Tests) \in Nat \ {0}
  BY <1>1, TestsAre DEF Options
<1>3. 1 \in 1 .. Len(Tests) /\ test = 1 /\ turn = 1
  BY <1>2, SMT DEF MainInit
<1>4. 1 \in Threads
  BY <1>1, <1>3, TestNumbers, SMT DEF Threads
<1>5. Perf!CountersOK
  BY DEF MainInit, Perf!InitCounters, Perf!CountersOK
<1>6. rows = <<>> /\ Len(rows) = 0 /\ rows \in Seq(RowLines)
  <2>1. rows = <<>>
    BY DEF MainInit
  <2>2. <<>> \in Seq(RowLines) /\ Len(<<>>) = 0
    BY EmptySeq, SMT
  <2> QED  BY <2>1, <2>2
<1>7. Types
  <2>1. /\ threadData \in [1 .. MaxThreads -> Nat] /\ moved \in [1 .. MaxThreads -> Nat]
        /\ failures \in 0 .. MaxFailures /\ leaked \in Nat /\ bw \in Nat
    BY ConstantTypes, SMT DEF MainInit
  <2>2. phase = "open" /\ arrays = {}
    BY DEF MainInit
  <2> QED  BY <1>1, <1>3, <1>4, <1>5, <1>6, <2>1, <2>2 DEF Types, Places, Empty
<1>8. Printed
  BY <1>3, <1>6, SMT DEF MainInit, Printed
<1>9. Running /\ Given /\ Moved
  BY DEF MainInit, Running, Given, Measuring, Moved
<1>10. Metered
  BY <1>6, SMT DEF MainInit, Metered
<1> QED  BY <1>7, <1>8, <1>9, <1>10 DEF IInv

\* The calls to the counters keep their types.
LEMMA CountersStay ==
  ASSUME Perf!CountersOK, UNCHANGED counters
  PROVE  Perf!CountersOK' /\ UNCHANGED <<fds, value>>
  BY DEF Perf!CountersOK, counters

LEMMA OpenCountersKeeps ==
  ASSUME IInv, OpenCounters PROVE IInv'
<1>1. /\ phase = "open" /\ phase' = "allocate" /\ turn' = 1
      /\ UNCHANGED <<options, test>>
      /\ UNCHANGED <<arrays, leaked, failures, threadData, moved, running, bw, rows>>
  BY DEF OpenCounters, GoTo, work
<1>2. /\ UNCHANGED pmon /\ Threads' = Threads /\ Tests' = Tests /\ Options' = Options
      /\ ThreadIterations' = ThreadIterations
  BY <1>1, SameTest
<1>3. Perf!CountersOK'
  <2>1. CASE pmon
    BY <2>1, SMT DEF OpenCounters, IfMonitored, Perf!Open, Perf!CountersOK, IInv, Types
  <2>2. CASE ~ pmon
    BY <2>2, CountersStay DEF OpenCounters, IfMonitored, IInv, Types
  <2> QED  BY <2>1, <2>2
<1>4. rows = <<>> /\ Len(rows) = 0
  BY <1>1, EmptySeq DEF IInv, Printed
<1>5. Types'
  BY <1>1, <1>2, <1>3, Numbers DEF IInv, Types, Places, Empty
<1>6. Printed' /\ Running'
  BY <1>1, <1>2 DEF IInv, Printed, Running
<1>7. Given' /\ Moved'
  BY <1>1, <1>2, AtTheFirst DEF IInv, Given, Moved, Measuring
<1>8. Metered'
  <2>1. 1 .. Len(rows') = {}
    BY <1>1, <1>4, SMT
  <2> QED  BY <1>1, <2>1 DEF Metered
<1> QED  BY <1>5, <1>6, <1>7, <1>8 DEF IInv

\* The steps that leave the counters and the lines have to say only what
\* becomes of the last line's values.
LEMMA CountedStays ==
  ASSUME IInv, UNCHANGED <<pmon, fds, value, test, rows>>,
         phase' # "report", phase' = "row" => bw' = 0
  PROVE  Metered'
  BY DEF IInv, Metered, Monitored, ReadFor

LEMMA RefuseKeeps ==
  ASSUME IInv, Refuse PROVE IInv'
<1>1. /\ phase = "allocate" /\ phase' = "row" /\ turn' = 1 /\ bw' = 0
      /\ UNCHANGED <<options, test>> /\ UNCHANGED counters
      /\ UNCHANGED <<arrays, leaked, failures, threadData, moved, running, rows>>
  BY DEF Refuse, GoTo, work
<1>2. /\ UNCHANGED pmon /\ Threads' = Threads /\ Tests' = Tests /\ Options' = Options
  BY <1>1, SameTest
<1>3. Perf!CountersOK' /\ UNCHANGED <<fds, value>>
  BY <1>1, CountersStay DEF IInv, Types
<1>4. Types'
  <2>1. arrays = {}
    BY <1>1 DEF Refuse, IInv, Types, Empty
  <2>2. bw' \in Nat
    BY <1>1, SMT
  <2> QED  BY <1>1, <1>2, <1>3, <2>1, <2>2, Numbers DEF IInv, Types, Places
<1>5. Printed' /\ Running' /\ Given' /\ Moved'
  BY <1>1, <1>2 DEF IInv, Printed, Running, Given, Measuring, Moved
<1>6. Metered'
  BY <1>1, <1>2, <1>3, CountedStays
<1> QED  BY <1>4, <1>5, <1>6 DEF IInv

LEMMA AllocateKeeps ==
  ASSUME IInv, Allocate PROVE IInv'
<1>1. /\ phase = "allocate" /\ ~ TooMany /\ arrays' = arrays \union {turn}
      /\ threadData' = [t \in DOMAIN threadData |->
           IF t = turn \/ (shared /\ t \in Threads) THEN ThreadIterations ELSE threadData[t]]
      /\ moved' = [t \in DOMAIN moved |-> IF turn = 1 THEN 0 ELSE moved[t]]
      /\ UNCHANGED <<options, test>> /\ UNCHANGED counters
      /\ UNCHANGED <<leaked, failures, running, bw, rows>>
  BY DEF Allocate
<1>2. \/ (shared \/ LastTurn) /\ phase' = "start" /\ turn' = 1
      \/ ~ shared /\ ~ LastTurn /\ phase' = "allocate" /\ turn' = turn + 1
  BY <1>1 DEF Allocate, GoTo, Turn
<1>3. /\ UNCHANGED <<pmon, shared>> /\ Threads' = Threads /\ Tests' = Tests
      /\ Options' = Options /\ ThreadIterations' = ThreadIterations /\ TooMany' = TooMany
  BY <1>1, SameTest
<1>4. Perf!CountersOK' /\ UNCHANGED <<fds, value>>
  BY <1>1, CountersStay DEF IInv, Types
<1>5. /\ threadData' \in [1 .. MaxThreads -> Nat] /\ moved' \in [1 .. MaxThreads -> Nat]
      /\ turn' \in Threads /\ turn \in Threads /\ ~ Empty'
  <2>1. /\ threadData \in [1 .. MaxThreads -> Nat] /\ moved \in [1 .. MaxThreads -> Nat]
        /\ turn \in Threads
    BY DEF IInv, Types
  <2>2. ThreadIterations \in Nat /\ 1 \in Threads
    BY Numbers
  <2>3. threadData' \in [1 .. MaxThreads -> Nat]
    BY <1>1, <2>1, <2>2
  <2>4. moved' \in [1 .. MaxThreads -> Nat]
    BY <1>1, <2>1, SMT
  <2>5. turn' \in Threads
    BY <1>2, <2>1, <2>2, NextTurnOf
  <2>6. turn + 1 # 1
    BY Numbers, SMT
  <2> QED  BY <1>1, <1>2, <1>3, <2>1, <2>3, <2>4, <2>5, <2>6 DEF Empty
<1>6. phase' \notin {"allocate", "create", "join"} => turn' = 1
  BY <1>2
<1>7. Types'
  BY <1>1, <1>2, <1>3, <1>4, <1>5, <1>6 DEF IInv, Types, Places, Empty
<1>8. Printed' /\ Running' /\ Moved'
  BY <1>1, <1>2, <1>3 DEF IInv, Printed, Running, Moved
<1>9. \A t \in Threads : threadData'[t] =
        IF t = turn \/ shared THEN ThreadIterations ELSE threadData[t]
  BY <1>1, Numbers DEF IInv, Types
<1>10. Given'
  <2>1. CASE phase' = "start"
    <3>1. \A t \in Threads : threadData'[t] = ThreadIterations
      BY <1>1, <1>2, <1>9, <2>1, AtTheLast DEF IInv, Given
    <3> QED  BY <1>1, <1>3, <2>1, <3>1 DEF Given, Measuring
  <2>2. CASE phase' = "allocate"
    <3>1. ~ LastTurn /\ turn' = turn + 1
      BY <1>2, <2>2
    <3>2. \A t \in Threads : t < turn' => threadData'[t] = ThreadIterations
      BY <1>1, <1>9, <3>1, NextTurnOf DEF IInv, Given
    <3> QED  BY <1>3, <2>2, <3>2 DEF Given, Measuring
  <2> QED  BY <1>2, <2>1, <2>2
<1>11. Metered'
  BY <1>1, <1>2, <1>3, <1>4, CountedStays
<1> QED  BY <1>7, <1>8, <1>10, <1>11 DEF IInv

LEMMA AllocateFailsKeeps ==
  ASSUME IInv, AllocateFails PROVE IInv'
<1>1. /\ phase = "allocate" /\ phase' = "row" /\ turn' = 1 /\ bw' = 0
      /\ failures < MaxFailures /\ failures' = failures + 1
      /\ leaked' = leaked + Cardinality(arrays) /\ arrays' = {}
      /\ UNCHANGED <<options, test>> /\ UNCHANGED counters
      /\ UNCHANGED <<threadData, moved, running, rows>>
  BY DEF AllocateFails, GoTo, work
<1>2. /\ UNCHANGED pmon /\ Threads' = Threads /\ Tests' = Tests /\ Options' = Options
  BY <1>1, SameTest
<1>3. Perf!CountersOK' /\ UNCHANGED <<fds, value>>
  BY <1>1, CountersStay DEF IInv, Types
<1>4. leaked' \in Nat /\ failures' \in 0 .. MaxFailures
  <2>1. IsFiniteSet(Threads)
    BY Numbers, FS_Interval DEF Threads
  <2>2. Cardinality(arrays) \in Nat
    BY <2>1, FS_Subset, FS_CardinalityType DEF IInv, Types
  <2> QED  BY <1>1, <2>2, ConstantTypes, SMT DEF IInv, Types
<1>5. Types'
  BY <1>1, <1>2, <1>3, <1>4, Numbers DEF IInv, Types, Places, Empty
<1>6. Printed' /\ Running' /\ Given' /\ Moved'
  BY <1>1, <1>2 DEF IInv, Printed, Running, Given, Measuring, Moved
<1>7. Metered'
  BY <1>1, <1>2, <1>3, CountedStays
<1> QED  BY <1>5, <1>6, <1>7 DEF IInv

LEMMA StartCountersKeeps ==
  ASSUME IInv, StartCounters PROVE IInv'
<1>1. /\ phase = "start" /\ phase' = "create" /\ turn' = 1
      /\ UNCHANGED <<options, test>>
      /\ UNCHANGED <<arrays, leaked, failures, threadData, moved, running, bw, rows>>
  BY DEF StartCounters, GoTo, work
<1>2. /\ UNCHANGED pmon /\ Threads' = Threads /\ Tests' = Tests /\ Options' = Options
      /\ ThreadIterations' = ThreadIterations /\ TooMany' = TooMany
  BY <1>1, SameTest
<1>3. Perf!CountersOK' /\ UNCHANGED <<fds, value>>
  <2>1. CASE pmon
    <3>1. Perf!Start
      BY <2>1 DEF StartCounters, IfMonitored
    <3> QED  BY <3>1 DEF Perf!Start, Perf!Leading, Perf!CountersOK, IInv, Types
  <2>2. CASE ~ pmon
    BY <2>2, CountersStay DEF StartCounters, IfMonitored, IInv, Types
  <2> QED  BY <2>1, <2>2
<1>4. Types'
  BY <1>1, <1>2, <1>3, Numbers DEF IInv, Types, Places, Empty
<1>5. Printed' /\ Running'
  BY <1>1, <1>2 DEF IInv, Printed, Running
<1>6. Given' /\ Moved'
  BY <1>1, <1>2, AtTheFirst DEF IInv, Given, Moved, Measuring
<1>7. Metered'
  BY <1>1, <1>2, <1>3, CountedStays
<1> QED  BY <1>4, <1>5, <1>6, <1>7 DEF IInv

\* A loop that creates or joins goes on to the next turn or to what follows.
LEMMA TurnOf ==
  ASSUME NEW next, Turn(next)
  PROVE  \/ LastTurn /\ phase' = next /\ turn' = 1
         \/ ~ LastTurn /\ phase' = phase /\ turn' = turn + 1
  BY DEF Turn, GoTo

LEMMA CreateKeeps ==
  ASSUME IInv, Create PROVE IInv'
<1>1. /\ phase = "create" /\ running' = running \union {turn}
      /\ UNCHANGED <<options, test>> /\ UNCHANGED counters
      /\ UNCHANGED <<arrays, leaked, failures, threadData, moved, bw, rows>>
  BY DEF Create
<1>2. \/ LastTurn /\ phase' = "join" /\ turn' = 1
      \/ ~ LastTurn /\ phase' = "create" /\ turn' = turn + 1
  BY <1>1, TurnOf DEF Create
<1>3. /\ UNCHANGED pmon /\ Threads' = Threads /\ Tests' = Tests /\ Options' = Options
      /\ ThreadIterations' = ThreadIterations /\ TooMany' = TooMany /\ Share' = Share
  BY <1>1, SameTest
<1>4. Perf!CountersOK' /\ UNCHANGED <<fds, value>>
  BY <1>1, CountersStay DEF IInv, Types
<1>5. turn' \in Threads /\ turn \in Threads
  BY <1>2, Numbers, NextTurnOf DEF IInv, Types
<1>6. Types'
  BY <1>1, <1>2, <1>3, <1>4, <1>5 DEF IInv, Types, Places, Empty
<1>7. Printed' /\ Given'
  BY <1>1, <1>2, <1>3 DEF IInv, Printed, Given, Measuring
<1>8. Running' /\ Moved'
  <2>1. /\ running' \subseteq Threads
        /\ \A t \in running : t \in Threads /\ t < turn
        /\ \A t \in Threads \ running : t < turn => moved[t] = Share
    BY <1>1, <1>5 DEF IInv, Running, Moved
  <2>2. CASE phase' = "join"
    <3>1. \A t \in Threads : turn' <= t
      BY <1>2, <2>2, AtTheFirst
    <3>2. \A t \in Threads \ running' : moved'[t] = Share
      BY <1>1, <1>2, <2>1, <2>2, AtTheLast
    <3> QED  BY <1>3, <2>1, <2>2, <3>1, <3>2 DEF Running, Moved
  <2>3. CASE phase' = "create"
    <3>1. ~ LastTurn /\ turn' = turn + 1
      BY <1>2, <2>3
    <3>2. \A t \in running' : t < turn'
      BY <1>1, <1>5, <2>1, <3>1, NextTurnOf
    <3>3. \A t \in Threads \ running' : t < turn' => moved'[t] = Share
      BY <1>1, <2>1, <3>1, NextTurnOf
    <3> QED  BY <1>3, <2>1, <2>3, <3>2, <3>3 DEF Running, Moved
  <2> QED  BY <1>2, <2>2, <2>3
<1>9. Metered'
  BY <1>1, <1>2, <1>3, <1>4, CountedStays
<1> QED  BY <1>6, <1>7, <1>8, <1>9 DEF IInv

\* A thread ends with its share: the whole array, as often as it was told.
LEMMA ReadBandwidthKeeps ==
  ASSUME IInv, NEW u \in 1 .. MaxThreads, ReadBandwidth(u) PROVE IInv'
<1>1. /\ u \in running /\ running' = running \ {u}
      /\ UNCHANGED <<options, test>> /\ UNCHANGED counters
      /\ UNCHANGED <<phase, turn, arrays, leaked, failures, threadData, bw, rows>>
  BY DEF ReadBandwidth
<1>2. phase \in {"create", "join"} /\ u \in Threads /\ u \in 1 .. MaxThreads
  BY <1>1 DEF IInv, Running
<1>3. threadData[u] = ThreadIterations
  BY <1>2 DEF IInv, Given, Measuring
<1>4. moved' = [moved EXCEPT ![u] = Share]
  <2>1. FetchedKb(Elements, nopBytes) = Elements
    BY Numbers, FetchedKbIs
  <2> QED  BY <1>3, <2>1 DEF ReadBandwidth, Share
<1>5. /\ UNCHANGED pmon /\ Threads' = Threads /\ Tests' = Tests /\ Options' = Options
      /\ ThreadIterations' = ThreadIterations /\ TooMany' = TooMany /\ Share' = Share
  BY <1>1, SameTest
<1>6. Perf!CountersOK' /\ UNCHANGED <<fds, value>>
  BY <1>1, CountersStay DEF IInv, Types
<1>7. /\ moved' \in [1 .. MaxThreads -> Nat]
      /\ \A t \in Threads : moved'[t] = IF t = u THEN Share ELSE moved[t]
  BY <1>2, <1>4, Numbers DEF IInv, Types
<1>8. Types'
  BY <1>1, <1>2, <1>5, <1>6, <1>7 DEF IInv, Types, Empty
<1>9. Printed' /\ Running' /\ Given'
  BY <1>1, <1>5 DEF IInv, Printed, Running, Given, Measuring
<1>10. Moved'
  BY <1>1, <1>2, <1>5, <1>7 DEF IInv, Moved
<1>11. Metered'
  BY <1>1, <1>2, <1>5, <1>6, CountedStays
<1> QED  BY <1>8, <1>9, <1>10, <1>11 DEF IInv

LEMMA JoinKeeps ==
  ASSUME IInv, Join PROVE IInv'
<1>1. /\ phase = "join" /\ turn \notin running
      /\ UNCHANGED <<options, test>> /\ UNCHANGED counters
      /\ UNCHANGED <<arrays, leaked, failures, threadData, moved, running, bw, rows>>
  BY DEF Join, Joined, work
<1>2. \/ LastTurn /\ phase' = "stop" /\ turn' = 1
      \/ ~ LastTurn /\ phase' = "join" /\ turn' = turn + 1
  BY <1>1, TurnOf DEF Join, AfterJoin
<1>3. /\ UNCHANGED pmon /\ Threads' = Threads /\ Tests' = Tests /\ Options' = Options
      /\ ThreadIterations' = ThreadIterations /\ TooMany' = TooMany /\ Share' = Share
  BY <1>1, SameTest
<1>4. Perf!CountersOK' /\ UNCHANGED <<fds, value>>
  BY <1>1, CountersStay DEF IInv, Types
<1>5. turn' \in Threads
  BY <1>2, Numbers, NextTurnOf DEF IInv, Types
<1>6. Types'
  BY <1>1, <1>2, <1>3, <1>4, <1>5 DEF IInv, Types, Places, Empty
<1>7. Printed' /\ Given' /\ Moved'
  BY <1>1, <1>2, <1>3 DEF IInv, Printed, Given, Measuring, Moved
<1>8. Running'
  <2>1. running \subseteq Threads /\ \A t \in running : turn <= t /\ t # turn
    BY <1>1 DEF IInv, Running
  <2>2. CASE phase' = "stop"
    <3>1. running = {}
      BY <1>2, <2>1, <2>2, AtTheLast
    <3> QED  BY <1>1, <1>3, <2>2, <3>1 DEF Running
  <2>3. CASE phase' = "join"
    <3>1. \A t \in running : turn' <= t
      BY <1>2, <2>1, <2>3, NextTurnOf
    <3> QED  BY <1>1, <1>3, <2>1, <2>3, <3>1 DEF Running
  <2> QED  BY <1>2, <2>2, <2>3
<1>9. Metered'
  BY <1>1, <1>2, <1>3, <1>4, CountedStays
<1> QED  BY <1>6, <1>7, <1>8, <1>9 DEF IInv

LEMMA StopCountersKeeps ==
  ASSUME IInv, StopCounters PROVE IInv'
<1>1. /\ phase = "stop" /\ phase' = "report" /\ turn' = 1
      /\ UNCHANGED <<options, test>>
      /\ UNCHANGED <<arrays, leaked, failures, threadData, moved, running, bw, rows>>
  BY DEF StopCounters, GoTo, work
<1>2. /\ UNCHANGED pmon /\ Threads' = Threads /\ Tests' = Tests /\ Options' = Options
      /\ ThreadIterations' = ThreadIterations /\ TooMany' = TooMany /\ Share' = Share
  BY <1>1, SameTest
<1>3. /\ Perf!CountersOK' /\ UNCHANGED fds
      /\ pmon /\ fds[1] = "open" => ReadFor(test, value')
  <2>1. CASE pmon
    <3>1. Perf!Stop(test)
      BY <2>1 DEF StopCounters, IfMonitored
    <3>2. Perf!CountersOK /\ test \in Nat
      BY Numbers DEF IInv, Types
    <3>3. Perf!CountersOK' /\ UNCHANGED fds
      BY <3>1, <3>2 DEF Perf!Stop, Perf!CountersOK
    <3>4. fds[1] = "open" => ReadFor(test, value')
      BY <3>1 DEF Perf!Stop, Perf!Leading, ReadFor
    <3> QED  BY <3>3, <3>4
  <2>2. CASE ~ pmon
    BY <2>2, CountersStay DEF StopCounters, IfMonitored, IInv, Types
  <2> QED  BY <2>1, <2>2
<1>4. Types'
  BY <1>1, <1>2, <1>3, Numbers DEF IInv, Types, Places, Empty
<1>5. Printed' /\ Running' /\ Given' /\ Moved'
  BY <1>1, <1>2 DEF IInv, Printed, Running, Given, Measuring, Moved
<1>6. Metered'
  <2>1. Monitored' => ReadFor(test, value)'
    BY <1>1, <1>2, <1>3 DEF Monitored, ReadFor
  <2>2. \A i \in 1 .. Len(rows) : rows[i].bw # 0 /\ Monitored => ReadFor(i, rows[i].value)
    BY DEF IInv, Metered
  <2> QED  BY <1>1, <1>2, <1>3, <2>1, <2>2 DEF Metered, Monitored, ReadFor
<1> QED  BY <1>4, <1>5, <1>6 DEF IInv

LEMMA ReportKeeps ==
  ASSUME IInv, Report PROVE IInv'
<1>1. /\ phase = "report" /\ phase' = "row" /\ turn' = 1 /\ arrays' = {}
      /\ bw' = Total(GetIterationCount)
      /\ UNCHANGED <<options, test>> /\ UNCHANGED counters
      /\ UNCHANGED <<leaked, failures, threadData, moved, running, rows>>
  BY DEF Report, GoTo, work
<1>2. /\ UNCHANGED pmon /\ Threads' = Threads /\ Tests' = Tests /\ Options' = Options
      /\ TooMany' = TooMany /\ Share' = Share
      /\ Total(GetIterationCount)' = Total(GetIterationCount)
  BY <1>1, SameTest
<1>3. Perf!CountersOK' /\ UNCHANGED <<fds, value>>
  BY <1>1, CountersStay DEF IInv, Types
<1>4. Types'
  BY <1>1, <1>2, <1>3, Numbers DEF IInv, Types, Places, Empty
<1>5. Printed' /\ Running' /\ Given'
  BY <1>1, <1>2 DEF IInv, Printed, Running, Given, Measuring
<1>6. Moved'
  BY <1>1, <1>2 DEF IInv, Moved, Running, Given, Measuring
<1>7. Metered'
  BY <1>1, <1>2, <1>3 DEF IInv, Metered, Monitored, ReadFor
<1> QED  BY <1>4, <1>5, <1>6, <1>7 DEF IInv

LEMMA PrintRowKeeps ==
  ASSUME IInv, PrintRow PROVE IInv'
<1> DEFINE line == [bw |-> bw, value |-> value]
           n == Len(rows)
<1>1. /\ phase = "row" /\ rows' = Append(rows, line) /\ turn' = 1 /\ turn = 1
      /\ UNCHANGED options /\ UNCHANGED counters
      /\ UNCHANGED <<arrays, leaked, failures, threadData, moved, running, bw>>
  BY DEF PrintRow, GoTo, work, IInv, Types
<1>2. \/ test = Len(Tests) /\ phase' = "close" /\ test' = test
      \/ test # Len(Tests) /\ phase' = "allocate" /\ test' = test + 1
  BY DEF PrintRow, GoTo
<1>3. /\ UNCHANGED <<mode, shared, pmon, nopBytes, gbToTransfer>>
      /\ Tests' = Tests /\ Options' = Options
  BY <1>1 DEF options, Tests, Options
<1>4. Perf!CountersOK' /\ UNCHANGED <<fds, value>>
  BY <1>1, CountersStay DEF IInv, Types
<1>5. test' \in 1 .. Len(Tests)' /\ test' \in 1 .. Len(Tests)
  BY <1>2, <1>3, Numbers, SMT
<1>6. turn' \in Threads'
  <2>1. Threads' = 1 .. threads' /\ threads' \in Nat \ {0}
    <3>1. Options' /\ DOMAIN Tests' = 1 .. Len(Tests') /\ Tests'[test'][2] \in 1 .. MaxThreads
      BY <1>3, <1>5, Numbers, TestsAre DEF Options
    <3>2. threads' \in 1 .. MaxThreads
      BY <3>1 DEF threads
    <3> QED  BY <3>2, ConstantTypes, SMT DEF Threads
  <2> QED  BY <1>1, <2>1, SMT
<1>7. running = {} /\ n = test - 1 /\ n \in Nat /\ rows \in Seq(RowLines)
  BY <1>1, Numbers, SMT DEF IInv, Running, Printed, Types
<1>8. /\ rows' \in Seq(RowLines) /\ Len(rows') = n + 1
      /\ \A i \in 1 .. n : rows'[i] = rows[i]
      /\ rows'[n + 1] = line
  <2>1. line \in RowLines
    BY DEF RowLines, IInv, Types, Perf!CountersOK
  <2> HIDE DEF line
  <2> QED  BY <1>1, <1>7, <2>1, AppendProperties
<1>9. Types'
  <2>1. arrays' \subseteq Threads' /\ arrays' = {}
    BY <1>1 DEF IInv, Types, Empty
  <2> QED  BY <1>1, <1>2, <1>3, <1>4, <1>5, <1>6, <1>8, <2>1 DEF IInv, Types, Places, Empty
<1>10. Printed'
  <2>1. n + 1 = test
    BY <1>7, Numbers, SMT
  <2> QED  BY <1>2, <1>3, <1>8, <2>1, Numbers, SMT DEF Printed
<1>11. Running'
  BY <1>1, <1>2, <1>7 DEF Running
<1>12. Given' /\ Moved'
  <2>1. \A t \in Threads' : ~ t < turn'
    BY <1>1, SMT DEF Threads
  <2> QED  BY <1>2, <2>1 DEF Given, Moved, Measuring
<1>13. Metered'
  <2>1. \A i \in 1 .. Len(rows') :
          rows'[i].bw # 0 /\ Monitored' => ReadFor(i, rows'[i].value)
    <3> TAKE i \in 1 .. Len(rows')
    <3>1. Monitored' = Monitored
      BY <1>3, <1>4 DEF Monitored
    <3>2. CASE i \in 1 .. n
      BY <1>8, <3>1, <3>2 DEF IInv, Metered
    <3>3. CASE i = n + 1
      <4>1. i = test
        BY <1>7, <3>3, Numbers, SMT
      <4>2. rows'[i].bw = bw /\ rows'[i].value = value
        BY <1>8, <3>3
      <4> QED  BY <1>1, <3>1, <4>1, <4>2 DEF IInv, Metered
    <3> QED  BY <1>7, <1>8, <3>2, <3>3, SMT
  <2> QED  BY <1>2, <1>4, <2>1 DEF Metered, ReadFor
<1> QED  BY <1>9, <1>10, <1>11, <1>12, <1>13 DEF IInv

LEMMA CloseCountersKeeps ==
  ASSUME IInv, CloseCounters PROVE IInv'
<1>1. /\ phase = "close" /\ phase' = "end" /\ turn' = 1
      /\ UNCHANGED <<options, test>>
      /\ UNCHANGED <<arrays, leaked, failures, threadData, moved, running, bw, rows>>
  BY DEF CloseCounters, GoTo, work
<1>2. /\ UNCHANGED <<mode, pmon>> /\ Threads' = Threads /\ Tests' = Tests
      /\ Options' = Options
  BY <1>1, SameTest
<1>3. /\ Perf!CountersOK'
      /\ UNCHANGED <<fds, value>> \/ fds' = [e \in Events |-> "closed"]
  <2>1. CASE mode = "auto"
    BY <2>1, CountersStay DEF CloseCounters, IInv, Types
  <2>2. CASE mode # "auto"
    BY <2>2 DEF CloseCounters, Perf!Close, Perf!CountersOK, IInv, Types
  <2> QED  BY <2>1, <2>2
<1>4. Types'
  BY <1>1, <1>2, <1>3, Numbers DEF IInv, Types, Places, Empty
<1>5. Printed' /\ Running' /\ Given' /\ Moved'
  BY <1>1, <1>2 DEF IInv, Printed, Running, Given, Measuring, Moved
<1>6. Metered'
  <2>1. CASE UNCHANGED <<fds, value>>
    BY <1>1, <1>2, <2>1, CountedStays
  <2>2. CASE fds' = [e \in Events |-> "closed"]
    <3>1. ~ Monitored'
      BY <2>2, ConstantTypes DEF Monitored
    <3> QED  BY <3>1 DEF Metered
  <2> QED  BY <1>3, <2>1, <2>2
<1> QED  BY <1>4, <1>5, <1>6 DEF IInv

LEMMA Unchanged ==
  ASSUME IInv, UNCHANGED mainVars PROVE IInv'
<1>1. /\ UNCHANGED <<options, test>> /\ UNCHANGED counters
      /\ UNCHANGED <<phase, turn, arrays, leaked, failures, threadData, moved, running,
                     bw, rows>>
  BY DEF mainVars, work
<1>2. /\ UNCHANGED pmon /\ Threads' = Threads /\ Tests' = Tests /\ Options' = Options
      /\ ThreadIterations' = ThreadIterations /\ TooMany' = TooMany /\ Share' = Share
      /\ Total(GetIterationCount)' = Total(GetIterationCount)
  BY <1>1, SameTest
<1>3. Perf!CountersOK' /\ UNCHANGED <<fds, value>>
  BY <1>1, CountersStay DEF IInv, Types
<1>4. Types'
  BY <1>1, <1>2, <1>3 DEF IInv, Types, Empty
<1>5. Printed' /\ Running' /\ Given' /\ Moved'
  BY <1>1, <1>2 DEF IInv, Printed, Running, Given, Measuring, Moved
<1>6. Metered'
  BY <1>1, <1>2, <1>3 DEF IInv, Metered, Monitored, ReadFor
<1> QED  BY <1>4, <1>5, <1>6 DEF IInv

LEMMA Invariant == MainSpec => []IInv
<1>1. ASSUME IInv, [MainNext]_mainVars PROVE IInv'
  <2>1. CASE MainStep
    BY <1>1, <2>1, OpenCountersKeeps, RefuseKeeps, AllocateKeeps, AllocateFailsKeeps,
       StartCountersKeeps, CreateKeeps, JoinKeeps, StopCountersKeeps, ReportKeeps,
       PrintRowKeeps, CloseCountersKeeps DEF MainStep
  <2>2. ASSUME NEW t \in 1 .. MaxThreads, ReadBandwidth(t) PROVE IInv'
    BY <1>1, <2>2, ReadBandwidthKeeps
  <2>3. CASE MainEnded \/ UNCHANGED mainVars
    BY <1>1, <2>3, Unchanged DEF MainEnded
  <2> QED  BY <1>1, <2>1, <2>2, <2>3 DEF MainNext
<1> QED  BY <1>1, Initially, PTL DEF MainSpec

-----------------------------------------------------------------------------
(* What follows from it.                                                   *)

\* What is reported is the share of a thread, that many times.
LEMMA TotalIs ==
  ASSUME Options, test \in 1 .. Len(Tests), ~ TooMany
  PROVE  Total(GetIterationCount) = Share * threads
<1> DEFINE g == GetIterationCount
           e == Elements
           t == threads
<1>1. g \in Nat /\ e \in Nat /\ t \in Nat
  BY TestNumbers
<1>2. ThreadIterations = IF shared THEN g ELSE g * t
  BY IterationsAre
<1>3. CASE shared
  <2>1. Total(g) = g * e * t * 1 /\ Share = g * e
    BY <1>2, <1>3 DEF Total, Share
  <2> HIDE DEF g, e, t
  <2>2. g * e \in Nat /\ (g * e) * t \in Nat
    BY <1>1, SMT
  <2>3. g * e * t * 1 = (g * e) * t
    BY <2>2, SMT
  <2> QED  BY <2>1, <2>3 DEF g, t
<1>4. CASE ~ shared
  <2>1. Total(g) = g * e * t * t /\ Share = g * t * e
    BY <1>2, <1>4 DEF Total, Share
  <2> HIDE DEF g, e, t
  <2>2. g * e * t * t = (g * t * e) * t
    BY <1>1, SMT
  <2> QED  BY <2>1, <2>2 DEF g, t
<1> QED  BY <1>3, <1>4

LEMMA IInvTypeOK == IInv => MainTypeOK
<1> SUFFICES ASSUME IInv PROVE MainTypeOK
  OBVIOUS
<1>1. test \in DOMAIN Tests
  BY TestsAre DEF IInv, Types, Options
<1>2. \A t \in running : threadData[t] >= 8 /\ threadData[t] % 2 = 0
  <2> SUFFICES ASSUME NEW t \in running PROVE threadData[t] >= 8 /\ threadData[t] % 2 = 0
    OBVIOUS
  <2>1. phase \in {"create", "join"} /\ t \in Threads
    BY DEF IInv, Running
  <2>2. ~ TooMany /\ threadData[t] = ThreadIterations
    BY <2>1 DEF IInv, Given, Measuring
  <2> QED  BY <2>2, IterationsAre DEF IInv, Types
<1>3. Len(rows) <= Len(Tests)
  <2>1. Len(rows) = test - 1 \/ Len(rows) = Len(Tests)
    BY DEF IInv, Printed
  <2> QED  BY <2>1, Numbers, SMT
<1> QED  BY <1>1, <1>2, <1>3 DEF IInv, Types, Running, Options, MainTypeOK

\* main never indexes the thread table behind its end, and whatever the integer
\* widths do to the product, a thread runs with an even count of at least eight,
\* in private mode too, where the count is multiplied by the threads.
THEOREM MainTypeCorrect == MainSpec => []MainTypeOK
  BY Invariant, IInvTypeOK, PTL

LEMMA IInvReportedIsMoved == IInv => ReportedIsMoved
<1> SUFFICES ASSUME IInv, phase = "row", bw # 0
             PROVE  bw = MapThenSumSet(LAMBDA t : moved[t], Threads)
  BY DEF ReportedIsMoved
<1>1. /\ ~ TooMany /\ bw = Total(GetIterationCount)
      /\ \A t \in Threads : moved[t] = Share
  BY DEF IInv, Moved
<1>2. bw = Share * threads
  BY <1>1, TotalIs DEF IInv, Types
<1>3. threads \in Nat \ {0} /\ Share \in Nat
  BY Numbers
<1>4. IsFiniteSet(Threads) /\ Cardinality(Threads) = threads
  <2>1. 1 \in Int /\ threads \in Int /\ ~ 1 > threads /\ threads - 1 + 1 = threads
    BY <1>3, SMT
  <2> QED  BY <2>1, FS_Interval DEF Threads
<1>5. SumOver(moved, Threads) = Share * Cardinality(Threads)
  BY <1>1, <1>3, <1>4, SumOfSame
<1> QED  BY <1>2, <1>4, <1>5 DEF SumOver

\* What a line reports is what the threads moved, all of them together, in
\* shared and in private mode, for data, for NOPs and for calls.
THEOREM ReportsWhatIsMoved == MainSpec => []ReportedIsMoved
  BY Invariant, IInvReportedIsMoved, PTL

LEMMA IInvRowsOwnCounters == IInv => RowsOwnCounters
<1> SUFFICES ASSUME IInv PROVE RowsOwnCounters
  OBVIOUS
<1>1. DOMAIN rows = 1 .. Len(rows)
  BY LenProperties DEF IInv, Types
<1> QED  BY <1>1 DEF IInv, Metered, Monitored, ReadFor, RowsOwnCounters

\* A line with a bandwidth carries the counters of its own run, whichever of
\* the counters could be opened and whatever was refused before it.
THEOREM RowsCarryTheirCounters == MainSpec => []RowsOwnCounters
  BY Invariant, IInvRowsOwnCounters, PTL

-----------------------------------------------------------------------------
(* The loops.                                                              *)

\* The pointer and the index move alike, and the last pass begins exactly
\* where no more than "keep" lines are left.
SoundLoop(lp) ==
  /\ lp.area \in Nat /\ lp.step \in Nat \ {0} /\ lp.keep \in Nat
  /\ lp.advance = lp.step
  /\ lp.step <= lp.keep /\ lp.keep <= lp.area
  /\ \E q \in Nat : lp.area - lp.keep = q * lp.step
  /\ lp.accesses \in {1, 2} /\ lp.lap \in {0, 1, 2}
  /\ lp.done \in {"zero", "positive", "flag"}

\* A lap takes as much off the count as it accesses each line.
SoundCount(lp) == lp.lap = lp.accesses /\ lp.done # "flag"

AllSound == \A n \in Lengths : \A lp \in Loops(n) : SoundLoop(lp)
AllCount == \A n \in Lengths : \A lp \in Loops(n) : SoundCount(lp)

\* The inductive invariant.  TypeOK is not inductive: the pointer stays
\* inside because it is the index, and the index is bounded by the limit.
Placed ==
  /\ pointer = index
  /\ index <= loop.area - loop.keep
  /\ \E k \in Nat : index = k * loop.step

\* In the lap after n laps the reached lines below m have been swept once more.
SweptTo(n, m) ==
  \A l \in Reached : sweeps[l] = IF l < m THEN n + 1 ELSE n

\* While the loop runs m is its pointer, and the laps done are missing from
\* what is left; when a counting loop has ended, nothing is.
Progress(n, m) ==
  /\ SweptTo(n, m)
  /\ pc = "pass" => m = pointer
  /\ SoundCount(loop) =>
       /\ m = pointer
       /\ left = count - n * loop.lap
       /\ pc = "pass" => left > 0 /\ left % loop.lap = 0
       /\ pc = "end" => left = 0 /\ pointer = 0

LoopInv ==
  /\ TypeOK
  /\ SoundLoop(loop)
  /\ count \in Nat
  /\ Placed
  /\ \E n, m \in Nat : Progress(n, m)

-----------------------------------------------------------------------------
LEMMA ProductType ==
  ASSUME NEW a \in Nat, NEW b \in Nat PROVE a * b \in Nat
  BY SMT

LEMMA NextProduct ==
  ASSUME NEW k \in Nat, NEW s \in Nat PROVE k * s + s = (k + 1) * s
  BY SMT

\* Of the places k * s, the last one not behind q * s is q * s itself.
LEMMA LastPlace ==
  ASSUME NEW s \in Nat \ {0}, NEW k \in Nat, NEW q \in Nat,
         k * s <= q * s, k * s + s > q * s
  PROVE  k = q
<1>1. CASE k < q
  <2>1. PICK d \in Nat : q = k + 1 + d
    BY <1>1, SMT
  <2>2. q * s = k * s + s + d * s
    BY <2>1, SMT
  <2> QED  BY <2>2, ProductType, SMT
<1>2. CASE k > q
  <2>1. PICK d \in Nat : k = q + 1 + d
    BY <1>2, SMT
  <2>2. k * s = q * s + s + d * s
    BY <2>1, SMT
  <2> QED  BY <2>2, ProductType, SMT
<1> QED  BY <1>1, <1>2, SMT

\* The loop goes back exactly from its last place.
LEMMA BackFromLast ==
  ASSUME LoopInv, GoesBack PROVE index = loop.area - loop.keep
<1>1. PICK k \in Nat : index = k * loop.step
  BY DEF LoopInv, Placed
<1>2. PICK q \in Nat : loop.area - loop.keep = q * loop.step
  BY DEF LoopInv, SoundLoop
<1>3. k * loop.step <= q * loop.step /\ k * loop.step + loop.step > q * loop.step
  BY <1>1, <1>2, SMT DEF LoopInv, Placed, GoesBack
<1>4. k = q
  BY <1>3, LastPlace DEF LoopInv, SoundLoop
<1> QED  BY <1>1, <1>2, <1>4

LEMMA LoopInitially ==
  ASSUME AllSound, Init PROVE LoopInv
<1>1. SoundLoop(loop) /\ count \in Iterations
  BY DEF Init, AllSound
<1>2. count \in Nat \ {0} /\ count % 2 = 0
  BY <1>1, BandwidthLoopsAssumption
<1>3. TypeOK
  BY <1>1, <1>2, SMT DEF Init, TypeOK, SoundLoop, Lines
<1>4. Placed
  <2>1. 0 = 0 * loop.step
    BY <1>1, SMT DEF SoundLoop
  <2> QED  BY <1>1, <2>1, SMT DEF Init, Placed, SoundLoop
<1>5. Progress(0, 0)
  <2>1. SweptTo(0, 0)
    BY <1>1, SMT DEF Init, SweptTo, Reached, Lines, SoundLoop
  <2>2. SoundCount(loop) => count > 0 /\ count % loop.lap = 0 /\ count = count - 0 * loop.lap
    BY <1>1, <1>2, SMT DEF SoundCount, SoundLoop
  <2> QED  BY <2>1, <2>2 DEF Init, Progress
<1> QED  BY <1>1, <1>2, <1>3, <1>4, <1>5 DEF LoopInv

\* A pass sweeps the lines from m on: after it those below m + step are done.
LEMMA SweepsOn ==
  ASSUME LoopInv, pc = "pass", Sweep, NEW n \in Nat, NEW m \in Nat, Progress(n, m)
  PROVE  /\ \A l \in Reached :
              sweeps'[l] = IF l < pointer + loop.step THEN n + 1 ELSE n
         /\ sweeps' \in [Lines -> Nat]
<1>1. m = pointer /\ SweptTo(n, m)
  BY DEF Progress
<1>2. Reached \subseteq Lines
  BY SMT DEF LoopInv, SoundLoop, Reached, Lines
<1>3. ASSUME NEW l \in Reached
      PROVE  sweeps'[l] = IF l < pointer + loop.step THEN n + 1 ELSE n
  <2>1. sweeps'[l] = IF l \in Touched THEN sweeps[l] + 1 ELSE sweeps[l]
    BY <1>2 DEF Sweep
  <2>2. sweeps[l] = IF l < pointer THEN n + 1 ELSE n
    BY <1>1 DEF SweptTo
  <2>3. l \in Int /\ pointer \in Int /\ loop.step \in Nat
    BY SMT DEF LoopInv, TypeOK, SoundLoop, Lines, Reached
  <2>4. l \in Touched <=> pointer <= l /\ l < pointer + loop.step
    BY <2>3, SMT DEF Touched
  <2> QED  BY <2>1, <2>2, <2>3, <2>4, SMT
<1>4. sweeps' \in [Lines -> Nat]
  BY SMT DEF LoopInv, TypeOK, Sweep
<1> QED  BY <1>3, <1>4

\* The next pass has a place inside the array.
LEMMA MovesOn ==
  ASSUME LoopInv, Advance, UNCHANGED loop
  PROVE  /\ Placed'
         /\ index' \in Nat /\ pointer' \in Lines /\ pointer' + loop.step <= loop.area
<1>1. CASE GoesBack
  <2>1. index' = 0 /\ pointer' = 0
    BY <1>1 DEF Advance, FirstLine
  <2>2. \E k \in Nat : index' = k * loop.step
    <3>1. 0 = 0 * loop.step
      BY SMT DEF LoopInv, SoundLoop
    <3> QED  BY <2>1, <3>1, SMT
  <2>3. Placed'
    BY <2>1, <2>2, SMT DEF Placed, LoopInv, SoundLoop
  <2> QED  BY <2>1, <2>3, SMT DEF LoopInv, SoundLoop, Lines
<1>2. CASE ~ GoesBack
  <2>1. PICK k \in Nat : index = k * loop.step
    BY DEF LoopInv, Placed
  <2>2. index' = index + loop.step /\ pointer' = pointer + loop.step
    BY <1>2 DEF Advance, LoopInv, SoundLoop
  <2>3. \E i \in Nat : index' = i * loop.step
    <3>1. index + loop.step = (k + 1) * loop.step
      BY <2>1, NextProduct DEF LoopInv, SoundLoop
    <3> QED  BY <2>2, <3>1, SMT
  <2>4. index' <= loop.area - loop.keep /\ pointer' = index' /\ index' \in Nat
    BY <1>2, <2>2, SMT DEF LoopInv, TypeOK, GoesBack, Placed, SoundLoop
  <2>5. Placed'
    BY <2>3, <2>4 DEF Placed
  <2> QED  BY <2>4, <2>5, SMT DEF LoopInv, SoundLoop, Lines
<1> QED  BY <1>1, <1>2

LEMMA CountedPassKeeps ==
  ASSUME LoopInv, CountedPass PROVE LoopInv'
<1>0. UNCHANGED <<loop, count>> /\ pc = "pass" /\ Sweep /\ Advance
  BY DEF CountedPass
<1>1. PICK n, m \in Nat : Progress(n, m)
  BY DEF LoopInv
<1>2. Placed' /\ index' \in Nat /\ pointer' \in Lines /\ pointer' + loop.step <= loop.area
  BY <1>0, MovesOn
<1>3. /\ \A l \in Reached :
           sweeps'[l] = IF l < pointer + loop.step THEN n + 1 ELSE n
      /\ sweeps' \in [Lines -> Nat]
  BY <1>0, <1>1, SweepsOn
<1>4. TypeOK'
  <2>1. left' \in Int
    <3>1. left \in Int /\ loop.lap \in Int
      BY SMT DEF LoopInv, TypeOK, SoundLoop
    <3>2. left - loop.lap \in Int
      BY <3>1, SMT
    <3> QED  BY <3>1, <3>2 DEF CountedPass, LeftAfterLap
  <2>2. pc' \in {"pass", "end"} /\ UNCHANGED <<bytes, flag>>
    BY DEF CountedPass
  <2>3. bytes \in Nat /\ flag \in {0, 1}
    BY DEF LoopInv, TypeOK
  <2>4. Lines' = Lines
    BY <1>0 DEF Lines
  <2> QED  BY <1>0, <1>2, <1>3, <2>1, <2>2, <2>3, <2>4 DEF TypeOK
<1>5. \E k, p \in Nat : Progress(k, p)'
  <2>1. CASE GoesBack
    <3>1. index = loop.area - loop.keep
      BY <2>1, BackFromLast
    <3>2. SweptTo(n + 1, 0)'
      BY <1>0, <1>3, <3>1, SMT DEF SweptTo, Reached, LoopInv, Placed,
         SoundLoop, TypeOK
    <3>3. pointer' = 0 /\ left' = left - loop.lap
      BY <1>0, <2>1 DEF Advance, FirstLine, CountedPass,
         LeftAfterLap
    <3>4. ASSUME SoundCount(loop)
          PROVE  /\ left' = count - (n + 1) * loop.lap
                 /\ pc' = "pass" => left' > 0 /\ left' % loop.lap = 0
                 /\ pc' = "end" => left' = 0
      <4>1. left = count - n * loop.lap /\ left > 0 /\ left % loop.lap = 0
        BY <1>0, <1>1, <3>4 DEF Progress
      <4>2. loop.lap \in {1, 2}
        BY <3>4, SMT DEF SoundCount, LoopInv, SoundLoop
      <4>3. left' >= 0 /\ left' % loop.lap = 0 /\ left' \in Int
        BY <3>3, <4>1, <4>2, SMT DEF LoopInv, TypeOK
      <4>4. left' = count - (n + 1) * loop.lap
        BY <3>3, <4>1, <4>2, SMT DEF LoopInv
      <4>5. ~ (left' < 0)
        BY <4>3, SMT
      <4>6. pc' = IF left' = 0 THEN "end" ELSE "pass"
        BY <2>1, <4>5 DEF CountedPass
      <4> QED  BY <4>3, <4>4, <4>6, SMT
    <3>5. Progress(n + 1, 0)'
      BY <1>0, <3>2, <3>3, <3>4 DEF Progress, SoundCount
    <3> QED  BY <3>5, SMT
  <2>2. CASE ~ GoesBack
    <3>1. pointer' = pointer + loop.step /\ pc' = "pass" /\ left' = left
      BY <1>0, <2>2 DEF Advance, CountedPass, LoopInv, SoundLoop
    <3>2. \A l \in Reached' : sweeps'[l] = IF l < pointer' THEN n + 1 ELSE n
      BY <1>0, <1>3, <3>1 DEF Reached
    <3>3. ASSUME NEW p \in Nat, p = pointer' PROVE Progress(n, p)'
      BY <1>0, <1>1, <3>1, <3>2, <3>3 DEF Progress, SweptTo, SoundCount
    <3>4. pointer' \in Nat
      BY <1>2, SMT DEF Lines, LoopInv, SoundLoop
    <3> QED  BY <3>3, <3>4
  <2> QED  BY <2>1, <2>2
<1> QED  BY <1>0, <1>2, <1>4, <1>5 DEF LoopInv

\* A loop of the loaded test does not count; it may stop short of its index.
LEMMA FlaggedPassKeeps ==
  ASSUME LoopInv, FlaggedPass PROVE LoopInv'
<1>0. UNCHANGED <<loop, count, left, flag>> /\ pc = "pass" /\ Sweep /\ Flagged
  BY DEF FlaggedPass
<1>1. PICK n, m \in Nat : Progress(n, m)
  BY DEF LoopInv
<1>2. ~ SoundCount(loop)
  BY <1>0 DEF SoundCount, Flagged
<1>3. /\ \A l \in Reached :
           sweeps'[l] = IF l < pointer + loop.step THEN n + 1 ELSE n
      /\ sweeps' \in [Lines -> Nat]
  BY <1>0, <1>1, SweepsOn
<1>4. bytes' \in Nat
  <2>1. 64 * loop.step \in Nat /\ loop.accesses \in Nat
    BY SMT DEF LoopInv, SoundLoop
  <2>2. 64 * loop.step * loop.accesses \in Nat
    BY <2>1, ProductType
  <2> QED  BY <2>2, SMT DEF FlaggedPass, Counted, LoopInv, TypeOK
<1>5. CASE flag # 0
  <2>1. pc' = "end" /\ UNCHANGED <<index, pointer>>
    BY <1>5 DEF FlaggedPass
  <2>2. Placed' /\ TypeOK'
    BY <1>0, <1>3, <1>4, <2>1 DEF LoopInv, Placed, TypeOK, Lines
  <2>3. ASSUME NEW p \in Nat, p = pointer + loop.step PROVE Progress(n, p)'
    BY <1>0, <1>2, <1>3, <2>1, <2>3 DEF Progress, SweptTo, SoundCount,
       Reached
  <2>4. pointer + loop.step \in Nat
    BY SMT DEF LoopInv, TypeOK, SoundLoop, Lines
  <2> QED  BY <1>0, <2>2, <2>3, <2>4 DEF LoopInv
<1>6. CASE flag = 0
  <2>1. Advance /\ UNCHANGED pc
    BY <1>6 DEF FlaggedPass
  <2>2. Placed' /\ index' \in Nat /\ pointer' \in Lines /\ pointer' + loop.step <= loop.area
    BY <1>0, <2>1, MovesOn
  <2>3. TypeOK'
    BY <1>0, <1>3, <1>4, <2>1, <2>2 DEF LoopInv, TypeOK, Lines
  <2>4. \E k, p \in Nat : Progress(k, p)'
    <3>1. CASE GoesBack
      <4>1. index = loop.area - loop.keep
        BY <3>1, BackFromLast
      <4>2. SweptTo(n + 1, 0)'
        BY <1>0, <1>3, <4>1, SMT DEF SweptTo, Reached, LoopInv, Placed,
           SoundLoop, TypeOK
      <4>3. pointer' = 0
        BY <2>1, <3>1 DEF Advance, FirstLine
      <4>4. Progress(n + 1, 0)'
        BY <1>0, <1>2, <4>2, <4>3 DEF Progress, SoundCount
      <4> QED  BY <4>4, SMT
    <3>2. CASE ~ GoesBack
      <4>1. pointer' = pointer + loop.step
        BY <2>1, <3>2 DEF Advance, LoopInv, SoundLoop
      <4>2. \A l \in Reached' : sweeps'[l] = IF l < pointer' THEN n + 1 ELSE n
        BY <1>0, <1>3, <4>1 DEF Reached
      <4>3. ASSUME NEW p \in Nat, p = pointer' PROVE Progress(n, p)'
        BY <1>0, <1>2, <4>2, <4>3 DEF Progress, SweptTo, SoundCount
      <4>4. pointer' \in Nat
        BY <2>2, SMT DEF Lines, LoopInv, SoundLoop
      <4> QED  BY <4>3, <4>4
    <3> QED  BY <3>1, <3>2
  <2> QED  BY <1>0, <2>2, <2>3, <2>4 DEF LoopInv
<1> QED  BY <1>5, <1>6

LEMMA Preserved ==
  ASSUME LoopInv, [Next]_(vars) PROVE LoopInv'
<1>1. CASE CountedPass
  BY <1>1, CountedPassKeeps
<1>2. CASE FlaggedPass
  BY <1>2, FlaggedPassKeeps
<1>3. CASE Stop
  BY <1>3 DEF LoopInv, Stop, FlagAfter, TypeOK, Lines, Placed,
     Progress, SweptTo, Reached, SoundCount
<1>4. CASE UNCHANGED vars
  BY <1>4 DEF LoopInv, vars, TypeOK, Lines, Placed, Progress,
     SweptTo, Reached, SoundCount
<1> QED  BY <1>1, <1>2, <1>3, <1>4 DEF Next, Ended

-----------------------------------------------------------------------------
\* Whatever its length, an array is neither read nor written behind its end by
\* a loop whose limit and stride agree.
THEOREM InsideTheArray ==
  ASSUME AllSound PROVE Spec => []TypeOK
<1>1. Init => LoopInv
  BY LoopInitially
<1>2. LoopInv /\ [Next]_(vars) => LoopInv'
  BY Preserved
<1>3. LoopInv => TypeOK
  BY DEF LoopInv
<1> QED  BY <1>1, <1>2, <1>3, PTL DEF Spec

\* Such a loop sweeps the lines that it reaches evenly, for ever.
THEOREM LoadIsEven ==
  ASSUME AllSound PROVE Spec => []EvenSweep
<1>1. Init => LoopInv
  BY LoopInitially
<1>2. LoopInv /\ [Next]_(vars) => LoopInv'
  BY Preserved
<1>3. LoopInv => EvenSweep
  <2>1. SUFFICES ASSUME LoopInv PROVE EvenSweep
    OBVIOUS
  <2>2. PICK n, m \in Nat : SweptTo(n, m)
    BY <2>1 DEF LoopInv, Progress
  <2> QED  BY <2>2, SMT DEF SweptTo, EvenSweep
<1> QED  BY <1>1, <1>2, <1>3, PTL DEF Spec

\* A counting loop whose laps agree with its accesses has accessed each line
\* once for each iteration when it returns: the quotient that MeasureBw makes
\* of iterations, size and time is the bandwidth.
THEOREM WorkIsExact ==
  ASSUME AllSound, AllCount PROVE Spec => []ExactWork
<1>1. Init => LoopInv /\ SoundCount(loop)
  BY LoopInitially DEF Init, AllCount
<1>2. LoopInv /\ SoundCount(loop) /\ [Next]_(vars) => LoopInv' /\ SoundCount(loop)'
  BY Preserved DEF Next, CountedPass, FlaggedPass, Stop,
     Ended, vars, SoundCount
<1>3. LoopInv /\ SoundCount(loop) => ExactWork
  <2>1. SUFFICES ASSUME LoopInv, SoundCount(loop), pc = "end",
                        NEW l \in Reached
                 PROVE  sweeps[l] * loop.accesses = count
    BY DEF ExactWork, SoundCount, Flagged
  <2>2. PICK n, m \in Nat : Progress(n, m)
    BY <2>1 DEF LoopInv
  <2>3. count - n * loop.lap = 0 /\ sweeps[l] = IF l < 0 THEN n + 1 ELSE n
    BY <2>1, <2>2 DEF Progress, SweptTo
  <2>4. l >= 0 /\ count \in Nat /\ loop.lap = loop.accesses /\ loop.accesses \in {1, 2}
    BY <2>1, SMT
    DEF Reached, SoundCount, LoopInv, SoundLoop
  <2>5. sweeps[l] = n
    BY <2>3, <2>4, SMT DEF Reached
  <2>6. CASE loop.accesses = 1
    BY <2>3, <2>4, <2>5, <2>6, SMT
  <2>7. CASE loop.accesses = 2
    BY <2>3, <2>4, <2>5, <2>7, SMT
  <2> QED  BY <2>4, <2>6, <2>7
<1> QED  BY <1>1, <1>2, <1>3, PTL DEF Spec

-----------------------------------------------------------------------------
\* What the theorems ask of a loop holds of the counting loops, for an array of
\* any multiple of 1 KB; arm_copy and the RISC-V reads among them keep back
\* more than a pass.  Missing are avx512_copy and riscv_add.
CountingLoops(n) ==
  {asm_read(n), asm_write(n), asm_cflip(n), sse_read(n), sse_write(n),
   sse_ntwrite(n), avx512_read(n), avx512_write(n), clzero_write(n),
   avx_read_win(n), avx_write_win(n), avx_ntwrite_win(n), avx_cflip_win(n),
   avx_add_win(n), avx512_read_win(n), sse_read_win(n), sse_write_win(n),
   sse_ntwrite_win(n), sse_add_win(n), sse_read32(n), arm_read(n),
   arm_write(n), arm_cflip(n), asm_add(n), avx512_add(n), arm_add(n)}
NarrowLoops(n) == {mmx_read32(n), scalar_read32(n)}
CopyLoops(n) == {asm_copy(n), avx_copy_win(n), sse_copy_win(n), arm_copy(n)}
StringLoops(n) ==
  {repmovsb_copy(n), repmovsd_copy(n), repstosb_write(n), repstosd_write(n),
   repmovsb_win(n), repstosb_win(n)}
RiscvLoops(n) == {riscv_read(n), riscv_write(n)}
LoadedLoops(n) ==
  {loaded_read(n), loaded_add(n), loaded_win_read(n), loaded_arm_read(n),
   loaded_arm_add(n)}

\* The loops of the sources fulfil the hypotheses of the theorems above.
THEOREM LoopsAreSound ==
  ASSUME NEW n \in Nat \ {0}, n % 16 = 0
  PROVE  /\ \A lp \in CountingLoops(n) \cup NarrowLoops(n) \cup CopyLoops(n)
                        \cup StringLoops(n) \cup RiscvLoops(n) :
               SoundLoop(lp) /\ SoundCount(lp)
         /\ \A lp \in LoadedLoops(n) : SoundLoop(lp)
<1>1. PICK m \in Nat : m > 0 /\ n = 16 * m
  BY SMT
<1>2. ASSUME NEW lp \in CountingLoops(n) PROVE SoundLoop(lp) /\ SoundCount(lp)
  <2>1. /\ lp.area = n /\ lp.step = 8 /\ lp.keep = 8 /\ lp.advance = 8
        /\ lp.accesses \in {1, 2} /\ lp.lap = lp.accesses
        /\ lp.done \in {"zero", "positive"}
    BY DEF CountingLoops, asm_read, asm_write, asm_cflip,
       sse_read, sse_write, sse_ntwrite, avx512_read,
       avx512_write, clzero_write, avx_read_win, avx_write_win,
       avx_ntwrite_win, avx_cflip_win, avx_add_win,
       avx512_read_win, sse_read_win, sse_write_win,
       sse_ntwrite_win, sse_add_win, sse_read32, arm_read,
       arm_write, arm_cflip, asm_add, avx512_add, arm_add,
       Loop
  <2>2. 2 * m - 1 \in Nat /\ n - 8 = (2 * m - 1) * 8
    BY <1>1, SMT
  <2> QED  BY <1>1, <2>1, <2>2, SMT DEF SoundLoop, SoundCount
<1>3. ASSUME NEW lp \in CopyLoops(n) PROVE SoundLoop(lp) /\ SoundCount(lp)
  <2>1. /\ lp.area = n \div 2 /\ lp.step = 4 /\ lp.keep \in {4, 8} /\ lp.advance = 4
        /\ lp.accesses = 1 /\ lp.lap = 1 /\ lp.done = "zero"
    BY DEF CopyLoops, asm_copy, avx_copy_win, sse_copy_win,
       arm_copy, Loop
  <2>2. /\ n \div 2 = 8 * m
        /\ 2 * m - 1 \in Nat /\ 8 * m - 4 = (2 * m - 1) * 4
        /\ 2 * m - 2 \in Nat /\ 8 * m - 8 = (2 * m - 2) * 4
    BY <1>1, SMT
  <2>3. \E q \in Nat : lp.area - lp.keep = q * lp.step
    BY <2>1, <2>2
  <2>4. lp.area \in Nat /\ lp.keep <= lp.area
    BY <1>1, <2>1, <2>2, SMT
  <2> QED  BY <2>1, <2>3, <2>4, SMT DEF SoundLoop, SoundCount
<1>4. ASSUME NEW lp \in StringLoops(n) PROVE SoundLoop(lp) /\ SoundCount(lp)
  <2>1. /\ lp.area \in {n, n \div 2} /\ lp.step = lp.area /\ lp.keep = lp.area
        /\ lp.advance = lp.area
        /\ lp.accesses = 1 /\ lp.lap = 1 /\ lp.done = "zero"
    BY DEF StringLoops, repmovsb_copy, repmovsd_copy,
       repstosb_write, repstosd_write, repmovsb_win,
       repstosb_win, Loop
  <2>2. lp.area \in Nat \ {0} /\ lp.area - lp.keep = 0 * lp.step
    BY <1>1, <2>1, SMT
  <2> QED  BY <2>1, <2>2, SMT DEF SoundLoop, SoundCount
<1>5. ASSUME NEW lp \in RiscvLoops(n) PROVE SoundLoop(lp) /\ SoundCount(lp)
  <2>1. /\ lp.area = n /\ lp.step = 1 /\ lp.keep = 2 /\ lp.advance = 1
        /\ lp.accesses = 1 /\ lp.lap = 1 /\ lp.done = "positive"
    BY DEF RiscvLoops, riscv_read, riscv_write, Loop
  <2>2. n - 2 \in Nat /\ n - 2 = (n - 2) * 1
    BY <1>1, SMT
  <2> QED  BY <1>1, <2>1, <2>2, SMT DEF SoundLoop, SoundCount
<1>6. ASSUME NEW lp \in LoadedLoops(n) PROVE SoundLoop(lp)
  <2>1. /\ lp.area = n /\ lp.step = 2 /\ lp.keep \in {2, 4} /\ lp.advance = 2
        /\ lp.accesses \in {1, 2} /\ lp.lap = 0 /\ lp.done = "flag"
    BY DEF LoadedLoops, loaded_read, loaded_add, loaded_win_read,
           loaded_arm_read, loaded_arm_add, Loop
  <2>2. /\ 8 * m - 1 \in Nat /\ n - 2 = (8 * m - 1) * 2
        /\ 8 * m - 2 \in Nat /\ n - 4 = (8 * m - 2) * 2
    BY <1>1, SMT
  <2>3. \E q \in Nat : lp.area - lp.keep = q * lp.step
    BY <2>1, <2>2
  <2>4. lp.area \in Nat /\ lp.keep <= lp.area
    BY <1>1, <2>1, SMT
  <2> QED  BY <2>1, <2>3, <2>4, SMT DEF SoundLoop
<1>7. ASSUME NEW lp \in NarrowLoops(n) PROVE SoundLoop(lp) /\ SoundCount(lp)
  <2>1. /\ lp.area = n /\ lp.step \in {2, 4} /\ lp.keep = lp.step
        /\ lp.advance = lp.step
        /\ lp.accesses = 1 /\ lp.lap = 1 /\ lp.done = "zero"
    BY DEF NarrowLoops, mmx_read32, scalar_read32, Loop
  <2>2. /\ 8 * m - 1 \in Nat /\ n - 2 = (8 * m - 1) * 2
        /\ 4 * m - 1 \in Nat /\ n - 4 = (4 * m - 1) * 4
    BY <1>1, SMT
  <2>3. \E q \in Nat : lp.area - lp.keep = q * lp.step
    BY <2>1, <2>2
  <2>4. lp.keep <= lp.area
    BY <1>1, <2>1, SMT
  <2> QED  BY <2>1, <2>3, <2>4, SMT DEF SoundLoop, SoundCount
<1> QED  BY <1>2, <1>3, <1>4, <1>5, <1>6, <1>7

=============================================================================
