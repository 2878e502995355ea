--------------------------- MODULE RescalingProofs --------------------------
(***************************************************************************)
(* Proofs about Rescaling for any number of threads, any costs, iteration  *)
(* counts and times, and about the functions its runs measure: what they   *)
(* execute, that no count is scaled down to nothing, and that the result   *)
(* of a measurement is the rate of its last round.                         *)
(***************************************************************************)
EXTENDS MCRescaling, OperatorLemmas

\* The least and the greatest value of a table of n > 0 numbers.
LEMMA Extremes ==
  ASSUME NEW n \in Nat \ {0}, NEW f \in [1 .. n -> Nat]
  PROVE  LET S == {f[t] : t \in 1 .. n}
         IN  /\ Max(S) \in S /\ \A x \in S : x <= Max(S)
             /\ Min(S) \in S /\ \A x \in S : Min(S) <= x
<1> DEFINE S == {f[t] : t \in 1 .. n}
           Highest(k) == \E t \in 1 .. k : \A u \in 1 .. k : f[u] <= f[t]
           Bad == {k \in 1 .. n : ~ Highest(k)}
<1>1. S \subseteq Nat /\ 1 \in 1 .. n /\ f[1] \in S
  BY SMT
<1>2. PICK m \in S : \A x \in S : m <= x
  BY <1>1, Least
<1>3. Min(S) \in S /\ \A x \in S : Min(S) <= x
  BY <1>2 DEF Min
<1>4. Bad = {}
  <2>1. SUFFICES ASSUME Bad # {} PROVE FALSE
    OBVIOUS
  <2>2. PICK k \in Bad : \A j \in Bad : k <= j
    <3>1. Bad \subseteq Nat
      BY SMT
    <3>2. QED
      BY <2>1, <3>1, Least
  <2>3. CASE k = 1
    <3>1. \A u \in 1 .. 1 : u = 1
      BY SMT
    <3>2. f[1] \in Nat /\ f[1] <= f[1] /\ 1 \in 1 .. 1
      BY <1>1, SMT
    <3>3. Highest(1)
      BY <3>1, <3>2
    <3>4. QED
      BY <2>2, <2>3, <3>3
  <2>4. CASE k # 1
    <3>1. /\ k - 1 \in 1 .. n /\ ~ k <= k - 1
          /\ \A u \in 1 .. k : u \in 1 .. k - 1 \/ u = k
          /\ 1 .. k - 1 \subseteq 1 .. k /\ 1 .. k \subseteq 1 .. n /\ k \in 1 .. k
      BY <2>2, <2>4, SMT
    <3>2. Highest(k - 1)
      BY <2>2, <3>1
    <3>3. PICK t \in 1 .. k - 1 : \A u \in 1 .. k - 1 : f[u] <= f[t]
      BY <3>2
    <3>4. \A u \in 1 .. k : f[u] \in Nat
      BY <3>1
    <3>5. CASE f[k] <= f[t]
      <4>1. t \in 1 .. k /\ \A u \in 1 .. k : f[u] <= f[t]
        BY <3>1, <3>3, <3>5
      <4>2. QED
        BY <2>2, <4>1
    <3>6. CASE ~ f[k] <= f[t]
      <4>1. \A u \in 1 .. k : f[u] <= f[k]
        BY <3>1, <3>3, <3>4, <3>6, SMT
      <4>2. QED
        BY <2>2, <3>1, <4>1
    <3>7. QED
      BY <3>5, <3>6
  <2>5. QED
    BY <2>3, <2>4
<1>5. n \in 1 .. n
  BY SMT
<1>6. PICK t \in 1 .. n : \A u \in 1 .. n : f[u] <= f[t]
  BY <1>4, <1>5
<1>7. f[t] \in S /\ \A x \in S : f[t] >= x
  BY <1>1, <1>6, SMT
<1>8. Max(S) \in S /\ \A x \in S : Max(S) >= x
  BY <1>7 DEF Max
<1> HIDE DEF S
<1>9. \A x \in S : x <= Max(S)
  BY <1>1, <1>8, SMT
<1>10. QED
  BY <1>3, <1>8, <1>9 DEF S

-----------------------------------------------------------------------------
\* What division by a positive number leaves.
LEMMA QuotientBounds ==
  ASSUME NEW a \in Nat, NEW b \in Nat \ {0}
  PROVE  /\ a \div b \in Nat
         /\ b * (a \div b) <= a
         /\ a < b * (a \div b) + b
         /\ a % b = 0 => b * (a \div b) = a
<1> DEFINE q == a \div b
           r == a % b
<1>1. q \in Nat /\ r \in 0 .. b - 1 /\ a = b * q + r
  BY Division
<1>2. b * q \in Nat
  BY <1>1, SMT
<1> HIDE DEF q, r
<1>3. b * q <= a /\ a < b * q + b /\ (r = 0 => b * q = a)
  BY <1>1, <1>2, SMT
<1>4. QED
  BY <1>1, <1>3 DEF q, r

\* What a function with stride c takes off the count n before it leaves.
LEMMA PassesCover ==
  ASSUME NEW c \in Nat \ {0}, NEW n \in Nat \ {0}, NEW late \in 0 .. c,
         late = 0 => n % c = 0
  PROVE  LET p == (n + late) \div c
         IN  /\ p \in Nat
             /\ c * p <= n + late
             /\ late \in {0, c - 1, c} => n <= c * p
<1> DEFINE p == (n + late) \div c
           cp == c * p
<1>1. /\ n + late \in Nat
      /\ p \in Nat
      /\ cp <= n + late
      /\ n + late < cp + c
      /\ (n + late) % c = 0 => cp = n + late
  <2>1. n + late \in Nat
    BY SMT
  <2>2. QED
    BY <2>1, QuotientBounds
<1>2. cp \in Int
  BY <1>1, SMT
<1> HIDE DEF cp
<1>3. late = 0 => cp = n
  BY <1>1, SMT
<1>4. late \in {c - 1, c} => n <= cp
  BY <1>1, <1>2, SMT
<1>5. late \in {0, c - 1, c} => n <= cp
  BY <1>2, <1>3, <1>4, SMT
<1>6. QED
  BY <1>1, <1>5 DEF cp

\* A function that counts each measured instruction once, makes all of its
\* passes alike and returns has executed what was asked and, unless it waits
\* for zero, at most one pass more: "test function must perform iterations ops".
THEOREM ExecutesIterations ==
  ASSUME NEW c \in Nat \ {0}, NEW n \in Nat \ {0},
         NEW exit \in {"zero", "positive", "nonnegative"},
         Ends(Kernel(c, c, exit), n)
  PROVE  /\ n <= Executed(Kernel(c, c, exit), n)
         /\ Executed(Kernel(c, c, exit), n) <= n + c
         /\ exit = "zero" => Executed(Kernel(c, c, exit), n) = n
         /\ exit = "positive" => Executed(Kernel(c, c, exit), n) < n + c
<1> DEFINE k == Kernel(c, c, exit)
           late == Late(k)
           p == (n + late) \div c
           e == Executed(k, n)
<1>1. /\ k.first = c /\ k.measured = c
      /\ k.counted = c /\ k.exit = exit
  BY DEF Kernel, Astray
<1>2. /\ exit = "zero" => late = 0
      /\ exit = "positive" => late = c - 1
      /\ exit = "nonnegative" => late = c
  BY <1>1 DEF Late
<1>3. late \in {0, c - 1, c} /\ late \in 0 .. c
  BY <1>2, SMT
<1>4. late = 0 => n % c = 0
  <2>1. CASE exit = "zero"
    BY <1>1, <2>1 DEF Ends
  <2>2. CASE exit # "zero" /\ late = 0
    <3>1. c = 1
      BY <1>2, <2>2, SMT
    <3>2. QED
      BY <3>1, SMT
  <2>3. QED
    BY <2>1, <2>2
<1>5. p \in Nat /\ c * p <= n + late /\ n <= c * p
  BY <1>3, <1>4, PassesCover
<1>6. e = c + (p - 1) * c
  BY <1>1 DEF Executed, Passes
<1> HIDE DEF p
<1>7. c + (p - 1) * c = c * p
  BY <1>5, SMT
<1>8. n <= e /\ e <= n + late /\ e \in Int
  BY <1>5, <1>6, <1>7, SMT
<1> HIDE DEF late, e
<1>9. /\ n <= e /\ e <= n + c
      /\ exit = "zero" => e = n
      /\ exit = "positive" => e < n + c
  BY <1>2, <1>3, <1>8, SMT
<1>10. QED
  BY <1>9 DEF e

-----------------------------------------------------------------------------
(* The functions that are measured.                                        *)

\* Passes that are all alike, of which up to a sixteenth is taken up by the
\* instructions of the loop itself.
SoundKernel(k) ==
  /\ k.first = k.measured
  /\ k.measured \in Nat /\ k.counted \in Nat \ {0}
  /\ 15 * k.counted <= 16 * k.measured /\ k.measured <= k.counted
  /\ k.exit \in {"zero", "positive", "nonnegative"}

\* What such a function executes for n iterations, if it returns.
LEMMA SoundExecutes ==
  ASSUME NEW k, SoundKernel(k), NEW n \in Nat \ {0}, Ends(k, n)
  PROVE  /\ Executed(k, n) \in Nat
         /\ 15 * n <= 16 * Executed(k, n)
         /\ Executed(k, n) <= n + k.counted
<1> DEFINE late == Late(k)
           p == Passes(k, n)
           m == k.measured
           c == k.counted
           a == c * p
           b == m * p
<1>1. /\ m \in Nat /\ c \in Nat \ {0}
      /\ 15 * c <= 16 * m /\ m <= c /\ k.first = m
  BY DEF SoundKernel
<1>2. /\ late \in {0, c - 1, c} /\ late \in 0 .. c
      /\ late = 0 => n % c = 0
  <2>1. CASE k.exit = "zero"
    <3>1. late = 0 /\ n % c = 0
      BY <2>1 DEF Late, Ends
    <3>2. QED
      BY <1>1, <3>1, SMT
  <2>2. CASE k.exit = "positive"
    <3>1. late = c - 1
      BY <2>2 DEF Late
    <3>2. late = 0 => n % c = 0
      <4>1. late = 0 => c = 1
        BY <1>1, <3>1, SMT
      <4>2. QED
        BY <4>1, SMT
    <3>3. late \in 0 .. c
      BY <1>1, <3>1, SMT
    <3>4. QED
      BY <3>1, <3>2, <3>3
  <2>3. CASE k.exit = "nonnegative"
    <3>1. late = c
      BY <2>3 DEF Late
    <3>2. QED
      BY <1>1, <3>1, SMT
  <2>4. QED
    BY <2>1, <2>2, <2>3 DEF SoundKernel
<1>3. p \in Nat /\ a <= n + late /\ n <= a
  <2>1. p = (n + late) \div c
    BY DEF Passes
  <2> HIDE DEF late, p
  <2>2. QED
    BY <1>1, <1>2, <2>1, PassesCover
<1>4. Executed(k, n) = m + (p - 1) * m
  BY <1>1 DEF Executed
<1> HIDE DEF late, p, m, c
<1>5. Executed(k, n) = b /\ a \in Nat /\ b \in Nat
  BY <1>1, <1>3, <1>4, SMT
<1>6. (16 * m - 15 * c) * p \in Nat /\ (c - m) * p \in Nat
  BY <1>1, <1>3, SMT
<1>7. (16 * m - 15 * c) * p = 16 * b - 15 * a /\ (c - m) * p = a - b
  BY <1>1, <1>3, SMT
<1> HIDE DEF a, b
<1>8. 15 * a <= 16 * b /\ b <= a
  BY <1>5, <1>6, <1>7, SMT
<1>9. 15 * n <= 16 * b /\ b <= n + c
  BY <1>1, <1>2, <1>3, <1>5, <1>8, SMT
<1>10. QED
  BY <1>5, <1>9 DEF c

\* The bandwidth functions of Measure2TBw.
LEMMA SweepsExecute ==
  ASSUME NEW n \in Nat \ {0}
  PROVE  Executed(bw_func, n) = n
<1>1. /\ bw_func.first = 1 /\ bw_func.measured = 1
      /\ bw_func.counted = 1 /\ bw_func.exit = "zero"
  BY DEF bw_func, Kernel, Astray
<1>2. Late(bw_func) = 0
  BY <1>1 DEF Late
<1>3. Passes(bw_func, n) = n
  BY <1>1, <1>2, QuotientBounds, SMT DEF Passes
<1>4. QED
  BY <1>1, <1>3, SMT DEF Executed

-----------------------------------------------------------------------------
(* The arithmetic of the rescaling.                                        *)

LEMMA AtLeastOne ==
  ASSUME NEW a \in Nat, NEW b \in Nat \ {0}, b <= a
  PROVE  a \div b \in Nat \ {0}
<1> DEFINE q == a \div b
<1>1. q \in Nat /\ a < b * q + b
  BY QuotientBounds
<1>2. q # 0
  BY <1>1, SMT
<1>3. QED
  BY <1>1, <1>2

\* A count that is brought from one time to a longer one does not vanish.
LEMMA ScaledUp ==
  ASSUME NEW a \in Nat \ {0}, NEW b \in Nat, NEW c \in Nat \ {0}, c <= b
  PROVE  (a * b) \div c \in Nat \ {0}
<1>1. (a - 1) * b \in Nat /\ a * b = (a - 1) * b + b
  BY SMT
<1>2. a * b \in Nat /\ c <= a * b
  BY <1>1, SMT
<1>3. QED
  BY <1>2, AtLeastOne

LEMMA ScaleGrows ==
  ASSUME NEW last \in Nat \ {0}, NEW time \in Nat, NEW target \in Nat,
         time <= target
  PROVE  scale_iterations_to_target(last, time, target) \in Nat \ {0}
<1>1. ShortTime \in Nat /\ ShortTime > 0
  BY RescalingAssumption, SMT
<1>2. CASE time < ShortTime
  BY <1>2, SMT DEF scale_iterations_to_target
<1>3. CASE ~ time < ShortTime
  <2>1. time # 0
    BY <1>1, <1>3, SMT
  <2>2. (last * target) \div time \in Nat \ {0}
    BY <2>1, ScaledUp
  <2>3. QED
    BY <1>3, <2>2 DEF scale_iterations_to_target
<1>4. QED
  BY <1>2, <1>3

LEMMA ThreadsCounted ==
  \E n \in Nat \ {0} : Threads = 1 .. n
<1>1. threadCount \in Nat \ {0}
  BY RescalingAssumption
<1>2. {1, 2} = 1 .. 2 /\ 2 \in Nat \ {0}
  BY SMT
<1>3. Threads \in {1 .. 2, 1 .. threadCount}
  BY <1>2 DEF Threads
<1>4. QED
  BY <1>1, <1>2, <1>3

\* The times of the slowest and of the fastest thread.
LEMMA SlowestAndFastest ==
  ASSUME TypeOK
  PROVE  /\ maxThreadTime \in Nat /\ \E t \in Threads : threadTime[t] = maxThreadTime
         /\ minThreadTime \in Nat
         /\ \A t \in Threads : minThreadTime <= threadTime[t] /\ threadTime[t] <= maxThreadTime
<1>1. PICK n \in Nat \ {0} : Threads = 1 .. n
  BY ThreadsCounted
<1>2. threadTime \in [1 .. n -> Nat]
  BY <1>1 DEF TypeOK
<1> DEFINE S == {threadTime[t] : t \in 1 .. n}
<1>3. /\ Max(S) \in S /\ \A x \in S : x <= Max(S)
      /\ Min(S) \in S /\ \A x \in S : Min(S) <= x
  BY <1>2, Extremes
<1>4. maxThreadTime = Max(S) /\ minThreadTime = Min(S)
  BY <1>1 DEF maxThreadTime, minThreadTime
<1>5. S \subseteq Nat
  BY <1>2
<1>6. QED
  BY <1>1, <1>2, <1>3, <1>4, <1>5

-----------------------------------------------------------------------------
(* The inductive invariant.                                                *)

\* The functions under test: those that execute what they are taken for, and
\* in Measure2TBw the bandwidth functions.
SoundTests ==
  \A f \in Functions : \A k \in TestFuncs(f) :
    SoundKernel(k) /\ (f = "Measure2TBw" => k = bw_func)

\* Thread t has returned in the round its counts are set for.
RoundOf(t) ==
  /\ Ends(testfunc, iterations[t])
  /\ done[t] = Executed(testfunc, iterations[t])
  /\ threadTime[t] = done[t] * cost[t]

Rounds ==
  /\ pc \in {"start", "judge", "end"} => running = {}
  /\ pc # "start" => \A t \in Threads \ running : RoundOf(t)

\* Which counts are never changed.
Unscaled ==
  /\ function = "InstructionRate" => \A t \in Threads : iterations[t] = baseIterations
  /\ function = "Measure2TBw" => iterations[1] = baseIterations /\ Fits

Timed ==
  pc \in {"judge", "end"} => timeMs \in maxThreadTime .. maxThreadTime + Overhead

Added == SumOver(iterations, Threads)

Settled ==
  pc = "end" =>
    /\ Accepted
    /\ result = IF function = "InstructionRate" THEN baseIterations ELSE Added

IInv == TypeOK /\ Rounds /\ Unscaled /\ Timed /\ Settled

LEMMA FirstThreads ==
  /\ 1 \in Threads
  /\ function = "Measure2TBw" => 2 \in Threads /\ Threads = {1, 2}
<1>1. threadCount \in Nat \ {0}
  BY RescalingAssumption
<1>2. 1 \in 1 .. threadCount
  BY <1>1, SMT
<1>3. QED
  BY <1>2 DEF Threads

LEMMA Initially ==
  ASSUME Init
  PROVE  IInv
<1>1. Iterations \subseteq Nat \ {0}
  BY RescalingAssumption
<1>2. baseIterations \in Nat \ {0} /\ 0 \in Nat
  BY <1>1 DEF Init
<1>3. TypeOK
  BY <1>2 DEF Init, TypeOK
<1>4. Rounds
  BY DEF Init, Rounds
<1>5. Unscaled
  BY FirstThreads DEF Init, Unscaled
<1>6. Timed /\ Settled
  BY DEF Init, Timed, Settled
<1>7. QED
  BY <1>3, <1>4, <1>5, <1>6 DEF IInv

LEMMA AddedIsNat ==
  ASSUME TypeOK
  PROVE  Added \in Nat
<1>1. PICK n \in Nat \ {0} : Threads = 1 .. n
  BY ThreadsCounted
<1>2. IsFiniteSet(Threads)
  BY <1>1, FS_Interval
<1>3. iterations \in [Threads -> Nat]
  BY DEF TypeOK
<1>4. QED
  BY <1>2, <1>3, SumIsNat DEF Added

LEMMA StartKeeps ==
  ASSUME IInv, Start
  PROVE  IInv'
<1>1. Threads' = Threads
  BY DEF Start, Threads
<1>2. TypeOK'
  BY <1>1 DEF IInv, TypeOK, Start
<1>3. Rounds'
  BY <1>1 DEF Rounds, Start
<1>4. Unscaled'
  BY <1>1 DEF IInv, Unscaled, Start, Fits
<1>5. Timed' /\ Settled'
  BY DEF Timed, Settled, Start
<1>6. QED
  BY <1>2, <1>3, <1>4, <1>5 DEF IInv

LEMMA TestThreadKeeps ==
  ASSUME SoundTests, IInv, NEW t \in 1 .. threadCount, TestThread(t)
  PROVE  IInv'
<1>1. Threads' = Threads
  BY DEF TestThread, Threads
<1>2. t \in Threads /\ pc \notin {"start", "judge", "end"} /\ pc' = pc
  BY DEF IInv, TypeOK, Rounds, TestThread
<1>3. Executed(testfunc, iterations[t]) \in Nat
  <2>1. SoundKernel(testfunc)
    BY DEF IInv, TypeOK, SoundTests
  <2>2. iterations[t] \in Nat \ {0} /\ Ends(testfunc, iterations[t])
    BY <1>2 DEF IInv, TypeOK, TestThread
  <2>3. QED
    BY <2>1, <2>2, SoundExecutes
<1>4. /\ done' = [done EXCEPT ![t] = Executed(testfunc, iterations[t])]
      /\ done'[t] = Executed(testfunc, iterations[t])
      /\ threadTime' = [threadTime EXCEPT ![t] = done'[t] * cost[t]]
      /\ threadTime'[t] = done'[t] * cost[t]
  BY <1>2 DEF IInv, TypeOK, TestThread
<1>5. TypeOK'
  <2>1. cost[t] \in Nat
    BY <1>2, RescalingAssumption DEF IInv, TypeOK
  <2>2. done'[t] * cost[t] \in Nat
    BY <1>3, <1>4, <2>1, SMT
  <2>3. QED
    BY <1>1, <1>2, <1>3, <1>4, <2>2 DEF IInv, TypeOK, TestThread
<1>6. Rounds'
  <2>1. ASSUME NEW u \in Threads, u \notin running' PROVE RoundOf(u)'
    <3>1. CASE u = t
      BY <1>2, <1>4, <3>1 DEF RoundOf, TestThread
    <3>2. CASE u # t
      <4>1. RoundOf(u)
        BY <1>2, <2>1, <3>2 DEF IInv, Rounds, TestThread
      <4>2. QED
        BY <1>2, <2>1, <3>2, <4>1 DEF IInv, TypeOK, RoundOf, TestThread
    <3>3. QED
      BY <3>1, <3>2
  <2>2. QED
    BY <1>1, <1>2, <2>1 DEF Rounds
<1>7. Unscaled'
  BY <1>1 DEF IInv, Unscaled, Fits, TestThread
<1>8. Timed' /\ Settled'
  BY <1>2 DEF Timed, Settled
<1>9. QED
  BY <1>5, <1>6, <1>7, <1>8 DEF IInv

LEMMA JoinKeeps ==
  ASSUME IInv, Join
  PROVE  IInv'
<1>1. Threads' = Threads /\ maxThreadTime' = maxThreadTime
  BY DEF Join, Threads, maxThreadTime
<1>2. /\ maxThreadTime \in Nat /\ Overhead \in Nat
      /\ timeMs' \in maxThreadTime .. maxThreadTime + Overhead
  BY SlowestAndFastest, RescalingAssumption DEF IInv, Join
<1>3. timeMs' \in Nat
  BY <1>2, SMT
<1>4. TypeOK'
  BY <1>1, <1>3 DEF IInv, TypeOK, Join
<1>5. Rounds'
  BY <1>1 DEF IInv, Rounds, RoundOf, Join, Joined
<1>6. Unscaled'
  BY <1>1 DEF IInv, Unscaled, Fits, Join
<1>7. Timed' /\ Settled'
  BY <1>1, <1>2 DEF Timed, Settled, Join
<1>8. QED
  BY <1>4, <1>5, <1>6, <1>7 DEF IInv

LEMMA AcceptKeeps ==
  ASSUME IInv, Accept
  PROVE  IInv'
<1>1. /\ Threads' = Threads
      /\ maxThreadTime' = maxThreadTime /\ minThreadTime' = minThreadTime
      /\ Added' = Added
  <2>1. threadTime' = threadTime /\ iterations' = iterations /\ Threads' = Threads
    BY DEF Accept, Threads
  <2>2. maxThreadTime' = maxThreadTime
    BY <2>1 DEF maxThreadTime
  <2>3. minThreadTime' = minThreadTime
    BY <2>1 DEF minThreadTime
  <2>4. Added' = Added
    BY <2>1 DEF Added
  <2>5. QED
    BY <2>1, <2>2, <2>3, <2>4
<1>2. result' = IF function = "InstructionRate" THEN baseIterations ELSE Added
  BY DEF Accept, Added, SumOver
<1>3. result' \in Nat
  BY <1>2, AddedIsNat DEF IInv, TypeOK
<1>4. TypeOK'
  BY <1>1, <1>3 DEF IInv, TypeOK, Accept
<1>5. Rounds'
  BY <1>1 DEF IInv, Rounds, RoundOf, Accept
<1>6. Unscaled'
  BY <1>1 DEF IInv, Unscaled, Fits, Accept
<1>7. Accepted'
  BY <1>1 DEF Accept, Accepted, minTimeMet, toleranceMet, ratioMet
<1>8. Timed' /\ Settled'
  BY <1>1, <1>2, <1>7 DEF IInv, Timed, Settled, Accept
<1>9. QED
  BY <1>4, <1>5, <1>6, <1>8 DEF IInv

LEMMA ScaleAllKeeps ==
  ASSUME IInv, ScaleAll
  PROVE  IInv'
<1>1. Threads' = Threads
  BY DEF ScaleAll, Threads
<1>2. baseIterations' \in Nat \ {0}
  <2>1. timeMs <= TargetTime /\ TargetTime \in Nat
    BY RescalingAssumption, SMT DEF IInv, TypeOK, ScaleAll, minTimeMet
  <2>2. QED
    BY <2>1, ScaleGrows DEF IInv, TypeOK, ScaleAll, Scaled
<1>3. TypeOK'
  BY <1>1, <1>2 DEF IInv, TypeOK, ScaleAll
<1>4. Rounds' /\ Unscaled' /\ Timed' /\ Settled'
  BY DEF IInv, Rounds, Unscaled, Timed, Settled, ScaleAll
<1>5. QED
  BY <1>3, <1>4 DEF IInv

LEMMA ScaleThreadsKeeps ==
  ASSUME IInv, ScaleThreads
  PROVE  IInv'
<1>1. Threads' = Threads
  BY DEF ScaleThreads, Threads
<1>2. ASSUME NEW t \in Threads PROVE ScaleEach(t) \in Nat \ {0}
  BY SlowestAndFastest, ScaleGrows DEF IInv, TypeOK, ScaleEach
<1>3. TypeOK'
  BY <1>1, <1>2 DEF IInv, TypeOK, ScaleThreads
<1>4. Rounds' /\ Unscaled' /\ Timed' /\ Settled'
  BY DEF IInv, Rounds, Unscaled, Timed, Settled, ScaleThreads
<1>5. QED
  BY <1>3, <1>4 DEF IInv

\* The second thread's count is not scaled down to nothing: the first takes at
\* least eleven times as long as one of the second's iterations (Fits).
LEMMA ScaleDataKeeps ==
  ASSUME SoundTests, IInv, ScaleData
  PROVE  IInv'
<1>1. Threads' = Threads /\ function = "Measure2TBw" /\ Threads = {1, 2}
  BY FirstThreads DEF ScaleData, Threads
<1> DEFINE x == iterations[2]
           c == cost[2]
           first == threadTime[1]
           second == threadTime[2]
<1>2. /\ x \in Nat \ {0} /\ c \in Nat \ {0}
      /\ first \in Nat /\ second \in Nat \ {0}
  <2>1. second \in Nat /\ second > 0
    BY <1>1 DEF IInv, TypeOK, ScaleData
  <2>2. second \in Nat \ {0}
    BY <2>1, SMT
  <2>3. QED
    BY <1>1, <2>2, RescalingAssumption DEF IInv, TypeOK
<1>3. first = baseIterations * cost[1] /\ second = x * c
  <2>1. RoundOf(1) /\ RoundOf(2)
    BY <1>1 DEF IInv, Rounds, ScaleData
  <2>2. testfunc = bw_func
    BY <1>1 DEF IInv, TypeOK, SoundTests
  <2>3. iterations[1] = baseIterations /\ iterations[1] \in Nat \ {0}
    BY <1>1 DEF IInv, TypeOK, Unscaled
  <2>4. QED
    BY <1>2, <2>1, <2>2, <2>3, SweepsExecute DEF RoundOf
<1>4. 11 * c <= first
  BY <1>1, <1>3, <1>2, SMT DEF IInv, Unscaled, Fits
<1> HIDE DEF x, c, first, second
<1>5. c <= first
  BY <1>2, <1>4, SMT
<1>6. (first - c) * x \in Nat /\ (first - c) * x = x * first - x * c
  BY <1>2, <1>5, SMT
<1>7. x * first \in Nat /\ x * c \in Nat
  BY <1>2, SMT
<1>8. second <= x * first
  <2> DEFINE a == x * first
             b == x * c
  <2> HIDE DEF a, b
  <2>1. a - b \in Nat /\ a \in Nat /\ b \in Nat
    BY <1>6, <1>7 DEF a, b
  <2>2. b <= a
    BY <2>1, SMT
  <2>3. QED
    BY <1>3, <2>2 DEF a, b
<1>9. (x * first) \div second \in Nat \ {0}
  BY <1>2, <1>7, <1>8, AtLeastOne
<1>10. iterations' = [iterations EXCEPT ![2] = (x * first) \div second]
  BY DEF ScaleData, x, first, second
<1>11. TypeOK'
  BY <1>1, <1>9, <1>10 DEF IInv, TypeOK, ScaleData
<1>12. Unscaled'
  BY <1>1, <1>10 DEF IInv, TypeOK, Unscaled, Fits, ScaleData
<1>13. Rounds' /\ Timed' /\ Settled'
  BY DEF IInv, Rounds, Timed, Settled, ScaleData
<1>14. QED
  BY <1>11, <1>12, <1>13 DEF IInv

LEMMA StutterKeeps ==
  ASSUME IInv, UNCHANGED vars
  PROVE  IInv'
<1>1. Threads' = Threads
  BY DEF vars, Threads
<1>2. /\ maxThreadTime' = maxThreadTime /\ minThreadTime' = minThreadTime
      /\ Added' = Added
  <2>1. threadTime' = threadTime /\ iterations' = iterations
    BY DEF vars
  <2>2. maxThreadTime' = maxThreadTime
    BY <1>1, <2>1 DEF maxThreadTime
  <2>3. minThreadTime' = minThreadTime
    BY <1>1, <2>1 DEF minThreadTime
  <2>4. Added' = Added
    BY <1>1, <2>1 DEF Added
  <2>5. QED
    BY <2>2, <2>3, <2>4
<1>3. Accepted' = Accepted
  BY <1>2 DEF vars, Accepted, minTimeMet, toleranceMet, ratioMet
<1>4. TypeOK' /\ Rounds' /\ Unscaled'
  BY <1>1 DEF IInv, TypeOK, Rounds, RoundOf, Unscaled, Fits, vars
<1>5. Timed' /\ Settled'
  BY <1>2, <1>3 DEF IInv, Timed, Settled, vars
<1>6. QED
  BY <1>4, <1>5 DEF IInv

THEOREM Invariant ==
  ASSUME SoundTests
  PROVE  Spec => []IInv
<1>1. Init => IInv
  BY Initially
<1>2. IInv /\ [Next]_vars => IInv'
  BY StartKeeps, TestThreadKeeps, JoinKeeps, AcceptKeeps, ScaleAllKeeps,
     ScaleThreadsKeeps, ScaleDataKeeps, StutterKeeps
  DEF Next, MainStep, Ended
<1>3. QED
  BY <1>1, <1>2, PTL DEF Spec

-----------------------------------------------------------------------------
(* The theorems.                                                           *)

\* The types of the measurements and their threads: no count is scaled down to
\* nothing, however often it is changed (TypeOK of the three measureFunctions).
THEOREM TypeCorrect ==
  ASSUME SoundTests
  PROVE  Spec => []TypeOK
<1>1. IInv => TypeOK
  BY DEF IInv
<1>2. QED
  BY <1>1, Invariant, PTL

\* The second thread of Measure2TBw executes one sweep for each iteration: the
\* sum of the counts is the sum of what was done.
LEMMA TwoAdded ==
  ASSUME SoundTests, TypeOK, function = "Measure2TBw",
         RoundOf(1), RoundOf(2)
  PROVE  Added = done[1] + done[2]
<1>1. Threads = {1, 2}
  BY FirstThreads
<1>2. testfunc = bw_func
  BY DEF TypeOK, SoundTests
<1>3. iterations[1] = done[1] /\ iterations[2] = done[2]
  BY <1>1, <1>2, SweepsExecute DEF TypeOK, RoundOf
<1>4. iterations \in [{1, 2} -> Nat]
  BY <1>1 DEF TypeOK
<1>5. IsFiniteSet({1, 2})
  <2>1. {1, 2} = 1 .. 2 /\ 1 \in Int /\ 2 \in Int
    BY SMT
  <2>2. IsFiniteSet(1 .. 2)
    BY <2>1, FS_Interval
  <2>3. QED
    BY <2>1, <2>2
<1>6. PICK g : /\ \A s \in SUBSET {1, 2} : g[s] = Step(iterations, g, s)
               /\ SumOver(iterations, {1, 2}) = g[{1, 2}]
  BY <1>4, <1>5, SumSteps
<1>7. g[{}] = 0
  BY <1>6 DEF Step
<1>8. ASSUME NEW t \in {1, 2} PROVE g[{t}] = iterations[t]
  <2>1. Pick({t}) = t /\ {t} \ {t} = {} /\ {t} \in SUBSET {1, 2}
    BY DEF Pick
  <2>2. g[{t}] = iterations[t] + g[{}]
    BY <1>6, <2>1 DEF Step
  <2>3. iterations[t] \in Nat
    BY <1>4
  <2>4. QED
    BY <1>7, <2>2, <2>3, SMT
<1>9. g[{1, 2}] = iterations[1] + iterations[2]
  <2> DEFINE p == Pick({1, 2})
  <2>1. p \in {1, 2}
    BY DEF Pick
  <2>2. g[{1, 2}] = iterations[p] + g[{1, 2} \ {p}]
    BY <1>6 DEF Step
  <2>3. CASE p = 1
    <3>1. {1, 2} \ {p} = {2}
      BY <2>3
    <3>2. QED
      BY <1>8, <2>2, <2>3, <3>1
  <2>4. CASE p = 2
    <3>1. {1, 2} \ {p} = {1}
      BY <2>4
    <3>2. iterations[1] \in Nat /\ iterations[2] \in Nat
      BY <1>4
    <3>3. g[{1, 2}] = iterations[2] + iterations[1]
      BY <1>8, <2>2, <2>4, <3>1
    <3>4. QED
      BY <3>2, <3>3, SMT
  <2>5. QED
    BY <2>1, <2>3, <2>4
<1>10. QED
  BY <1>1, <1>3, <1>6, <1>9 DEF Added, SumOver

\* What is left of the round when a thread has returned.
LEMMA BusyThreads ==
  ASSUME TypeOK, pc = "end", Timed, Settled,
         NEW t \in Threads
  PROVE  LET rest == timeMs - Overhead - threadTime[t]
         IN  /\ threadTime[t] <= timeMs
             /\ function = "measureFunction" => 6 * rest <= timeMs
             /\ function = "Measure2TBw" => 10 * rest <= timeMs
<1> DEFINE rest == timeMs - Overhead - threadTime[t]
<1>1. /\ threadTime[t] \in Nat /\ timeMs \in Nat /\ Overhead \in Nat
      /\ maxThreadTime \in Nat /\ minThreadTime \in Nat
      /\ minThreadTime <= threadTime[t] /\ threadTime[t] <= maxThreadTime
      /\ maxThreadTime <= timeMs /\ timeMs <= maxThreadTime + Overhead
  BY SlowestAndFastest, RescalingAssumption, SMT DEF TypeOK, Timed
<1>2. threadTime[t] <= timeMs
  BY <1>1, SMT
<1>3. CASE function = "measureFunction"
  <2>1. 5 * (maxThreadTime - minThreadTime) < minThreadTime
    BY <1>3 DEF Settled, Accepted, toleranceMet
  <2>2. 6 * rest <= timeMs
    BY <1>1, <2>1, SMT
  <2>3. QED
    BY <1>2, <1>3, <2>2
<1>4. CASE function = "Measure2TBw"
  <2>1. /\ 9 * threadTime[2] < 10 * threadTime[1]
        /\ 10 * threadTime[1] < 11 * threadTime[2]
    BY <1>4 DEF Settled, Accepted, ratioMet
  <2>2. /\ threadTime[1] \in Nat /\ threadTime[2] \in Nat
        /\ maxThreadTime \in {threadTime[1], threadTime[2]} /\ t \in {1, 2}
    BY <1>4, FirstThreads, SlowestAndFastest DEF TypeOK
  <2>3. 10 * rest <= timeMs
    BY <1>1, <2>1, <2>2, SMT
  <2>4. QED
    BY <1>2, <1>4, <2>3
<1>5. CASE function \notin {"measureFunction", "Measure2TBw"}
  BY <1>2, <1>5
<1>6. QED
  BY <1>3, <1>4, <1>5

\* The result of a measurement is what its threads executed in the round it is
\* divided by the time of, and each was busy for that round ("allow 10%
\* variation?"), after any number of rescalings by any costs.
THEOREM ResultsAreRates ==
  ASSUME SoundTests
  PROVE  Spec => []ResultIsRate
<1>1. IInv => ResultIsRate
  <2> SUFFICES ASSUME IInv, pc = "end" PROVE ResultIsRate
    BY DEF ResultIsRate
  <2>1. ASSUME NEW t \in Threads
        PROVE  RoundOf(t) /\ PerformsIterations(iterations[t], done[t])
    <3>1. RoundOf(t)
      BY DEF IInv, Rounds
    <3>2. SoundKernel(testfunc) /\ iterations[t] \in Nat \ {0}
      BY DEF IInv, TypeOK, SoundTests
    <3>3. QED
      BY <3>1, <3>2, SoundExecutes DEF RoundOf, PerformsIterations
  <2>2. result = CASE function = "InstructionRate" -> iterations[1]
                   [] function = "measureFunction" -> Added
                   [] function = "Measure2TBw" -> done[1] + done[2]
    <3>1. result = IF function = "InstructionRate" THEN baseIterations ELSE Added
      BY DEF IInv, Settled
    <3>2. function \in {"InstructionRate", "measureFunction", "Measure2TBw"}
      BY RescalingAssumption DEF IInv, TypeOK
    <3>3. function = "InstructionRate" => iterations[1] = baseIterations
      BY FirstThreads DEF IInv, Unscaled
    <3>4. function = "Measure2TBw" => Added = done[1] + done[2]
      BY <2>1, FirstThreads, TwoAdded DEF IInv
    <3>5. QED
      BY <3>1, <3>2, <3>3, <3>4
  <2>3. ASSUME NEW t \in Threads
        PROVE  LET busy == done[t] * cost[t]
                   rest == timeMs - Overhead - busy
               IN  /\ busy <= timeMs
                   /\ CASE function = "InstructionRate" -> TRUE
                        [] function = "measureFunction" -> 6 * rest <= timeMs
                        [] function = "Measure2TBw" -> 10 * rest <= timeMs
    <3>1. threadTime[t] = done[t] * cost[t]
      BY <2>1 DEF RoundOf
    <3>2. function \in {"InstructionRate", "measureFunction", "Measure2TBw"}
      BY RescalingAssumption DEF IInv, TypeOK
    <3>3. LET rest == timeMs - Overhead - threadTime[t]
          IN  /\ threadTime[t] <= timeMs
              /\ function = "measureFunction" => 6 * rest <= timeMs
              /\ function = "Measure2TBw" => 10 * rest <= timeMs
      BY BusyThreads DEF IInv
    <3>4. QED
      BY <3>1, <3>2, <3>3
  <2>4. QED
    BY <2>1, <2>2, <2>3 DEF ResultIsRate, Added, SumOver
<1>2. QED
  BY <1>1, Invariant, PTL

\* All the instruction rate functions of the sources that the runs measure, and
\* the bandwidth functions, fulfil the hypothesis of the theorems above.
THEOREM FunctionsAreSound ==
  \A f \in {"InstructionRate", "measureFunction", "Measure2TBw"} :
    \A k \in SoundFunctions(f) :
      SoundKernel(k) /\ (f = "Measure2TBw" => k = bw_func)
<1>1. ASSUME NEW k \in InstructionRate PROVE SoundKernel(k)
  BY DEF InstructionRate, SoundKernel, Kernel, Astray, clktest, clkmovtest,
     noptest, noptest1b, addtest, addnoptest, addmovtest, rortest, shltest,
     mixrorshltest, mixrormultest, rorbtstest, btstest, leatest,
     leamultest, btsmultest, jmptest, ntjmptest, addjmptest, jmpmultest,
     addmultest, add256int, mul512int, muldq512int, add512int,
     mixadd256fpint, mix256faddintadd, mix256fp, mixadd256int,
     mixadd256int11, latadd256int, latmul512int, latmuldq512int,
     latmulq512int, latmul256int, latadd128int, add128int, aesenc128,
     aesencadd128, aesencfma128, aesencfadd128, aesencmul128, aesdec128,
     mul128int, latmul128int, mixaddmul128int, latadd256fp, mul256fp,
     add256fp, latmul256fp, fma512, mix21fma256fma512, mixfma256fma512,
     fma256, fma128, mixfmafadd256, mixfmaadd512, mixfma512add256,
     mixfmaadd256, mixfmaand256, mixfmaandmem256, mixfmaaddmem256,
     nemesfpu512mix21, nemesfpumix21, latfma512, latfma256, latfma128,
     latadd128fp, latmul128fp, mul128fp, add128fp, latmul64, latmul16,
     mul16, mul64, mixmul16mul64, mixmul16mul64_21, loadscalar,
     spacedstorescalar, mixedscalarloadstore, spacedload128, load128,
     load256, load512, store128, store256, store512, pdeptest, pdepmultest,
     pexttest, depmovtest, vecdepmovtest, vecindepmovtest, indepmovtest,
     movzerotest, xorzerotest, vecxorzerotest, subzerotest, depaddimmtest,
     memrenametest, depinctest, depdectest, fma4_256, fma4_128, fdivtest,
     fmuldenormlattest, fmuldenormtest, movqtoxmmtest, testfusion,
     cmpfusion, subfusion, nopfusion, clktest_fusion, noptest_fusion,
     addtest_fusion, clktest_a64, noptest_a64, addtest_a64,
     maddaddtest_a64, eortest_a64, cmptest_a64, addmultest_a64,
     addmul21test_a64, mul32test_a64, mul64test_a64, latmul64test_a64,
     vecadd128test_a64, latvecadd128test_a64, faddtest_a64,
     latfaddtest_a64, latfmultest_a64, latvecmul128test_a64,
     vecmul128test_a64, scalarfmatest_a64, latscalarfmatest_a64,
     vecfma128test_a64, mixvecfmulfma128test_a64, mixvecfaddfma128test_a64,
     latvecfma128test_a64, vecfadd128test_a64, latvecfadd128test_a64,
     vecfmul128test_a64, latvecfmul128test_a64, mixvecfaddfmul128test_a64,
     mixvecaddmul128test_a64, mixaddvecadd128test_a64,
     mix3to1addvecadd128test_a64, mix1to1addvecadd128test_a64,
     mixmulvecmultest_a64, mixvecmulfmultest_a64, mixvecaddfaddtest_a64,
     mixjmpvecaddtest_a64, mixjmpvecmultest_a64, vecloadtest_a64,
     vecstoretest_a64, loadtest_a64, mixloadstoretest_a64,
     mix21loadstoretest_a64, jmptest_a64, fusejmptest_a64,
     mixmuljmptest_a64, mixmuljmptest21_a64, mixaddjmp21test_a64,
     mixmulrortest_a64, rortest_a64, depmovtest_a64, indepmovtest_a64,
     xorzerotest_a64, movzerotest_a64, subzerotest_a64, aesetest_a64,
     mixaesevecadd128test_a64, pmulltest_a64, mixpmulladd128test_a64,
     clktest_rv, addtest_rv, faddtest_rv, faddlattest_rv, fmultest_rv,
     fmullattest_rv, mixfaddfmultest_rv, fmatest_rv, fmalattest_rv
<1>2. ASSUME NEW k \in MtInstructionRate PROVE SoundKernel(k)
  BY DEF MtInstructionRate, SoundKernel, Kernel, Astray,
     sse_int32_add_test, sse_int64_add_test, sse_int32_mul_test,
     sse_int64_mul_test, avx2_int32_add_test, avx2_int32_mul_test,
     avx2_int64_add_test, avx2_int64_mul_test, sse_fp32_add_test,
     sse_fp64_add_test, sse_fp32_mul_test, sse_fp64_mul_test,
     sse_fp32_muladd_test, sse_fp32_rsqrt_test, avx_fp32_rsqrt_test,
     sse_fp64_muladd_test, avx_fp32_add_test, avx_fp64_add_test,
     avx_fp32_mul_test, avx_fp64_mul_test, avx_fp32_muladd_test,
     avx_fp64_muladd_test, fp32_fma_test, fp64_fma_test,
     avx512_int32_add_test, avx512_int32_mul_test, avx512_int64_add_test,
     avx512_int64_mul_test, avx512_fp32_rsqrt_test, avx512_fp32_add_test,
     avx512_fp32_fma_test, sse_int32_add_test_win, sse_int64_add_test_win,
     sse_int32_mul_test_win, sse_int64_mul_test_win,
     avx2_int32_add_test_win, avx2_int32_mul_test_win,
     avx2_int64_add_test_win, avx2_int64_mul_test_win,
     sse_fp32_add_test_win, sse_fp64_add_test_win, sse_fp32_mul_test_win,
     sse_fp64_mul_test_win, sse_fp32_muladd_test_win,
     sse_fp32_rsqrt_test_win, avx_fp32_rsqrt_test_win,
     sse_fp64_muladd_test_win, avx_fp32_add_test_win,
     avx_fp64_add_test_win, avx_fp32_mul_test_win, avx_fp64_mul_test_win,
     avx_fp32_muladd_test_win, avx_fp64_muladd_test_win, fp32_fma_test_win,
     fp64_fma_test_win, avx512_int32_add_test_win,
     avx512_int32_mul_test_win, avx512_int64_add_test_win,
     avx512_int64_mul_test_win, avx512_fp32_rsqrt_test_win,
     avx512_fp32_add_test_win, avx512_fp32_fma_test_win,
     vec_int32_add_test_a64, vec_int32_mul_test_a64, vec_fp32_add_test_a64,
     vec_fp32_fma_test_a64, vec_fp32_rsqrt_test_a64,
     vec_int64_add_test_a64, vec_fp64_add_test_a64, vec_fp64_fma_test_a64,
     vec_int32_add_test_ppc, vec_int32_mul_test_ppc, vec_fp32_add_test_ppc,
     vec_fp32_isqrt_test_ppc, fp64_add_test_ppc, fp64_fma_test_ppc
<1>3. SoundKernel(bw_func)
  BY DEF bw_func, SoundKernel, Kernel, Astray
<1>4. QED
  BY <1>1, <1>2, <1>3 DEF SoundFunctions

=============================================================================
