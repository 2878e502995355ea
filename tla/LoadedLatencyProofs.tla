------------------------- MODULE LoadedLatencyProofs ------------------------
(***************************************************************************)
(* Proofs about LoadedLatency for every number of bandwidth threads, loads *)
(* and passes.                                                             *)
(***************************************************************************)
EXTENDS LoadedLatency, OperatorLemmas

\* The inductive invariant: main's place fixes what the threads may be doing.
Types ==
  /\ mode \in {"private", "shared", "bwonly"}
  /\ pc \in {"startFills", "allocate", "failed", "joinFills", "startBw",
             "joinLatency", "joinBw", "returned"}
  /\ threadIdx \in 1 .. BwThreads + 1
  /\ thread \in [Threads -> {"none", "filling", "filled", "reading", "stopped"}]
  /\ arr \in [Threads -> {"none", "allocated", "filled", "freed"}]
  /\ latencyArr \in {"none", "filled", "freed"}
  /\ chased \in -1 .. Iterations
  /\ flag \in {0, 1}
  /\ passes \in [Threads -> 0 .. MaxPasses]
  /\ read_bytes \in [Threads -> 0 .. MaxPasses]

\* The flag, main's counter between its loops, and the chase.
MainsPlace ==
  /\ flag = 1 <=> pc \in {"joinBw", "returned"}
  /\ pc \in {"allocate", "failed", "joinLatency"} => threadIdx = 1
  /\ mode = "bwonly" => chased = -1
  /\ pc \in {"startFills", "allocate", "failed", "joinFills", "startBw"} => chased = -1
  /\ pc \in {"joinBw", "returned"} => chased \in {-1, Iterations}
  /\ pc = "joinFills" /\ mode = "shared" => latencyArr = "filled"

\* Which threads there are at each of main's places, and how far main is with
\* starting or joining them.
Slot(t) ==
  /\ pc = "startFills" =>
       IF mode = "shared" \/ t >= threadIdx
       THEN thread[t] = "none" ELSE thread[t] \in {"filling", "filled"}
  /\ pc \in {"allocate", "failed", "joinFills"} =>
       IF mode = "shared"
       THEN thread[t] = "none" ELSE thread[t] \in {"filling", "filled"}
  /\ pc = "joinFills" /\ mode # "shared" /\ t < threadIdx => thread[t] = "filled"
  /\ pc = "startBw" =>
       IF t < threadIdx THEN thread[t] = "reading" ELSE thread[t] \in {"none", "filled"}
  /\ pc = "joinLatency" => thread[t] = "reading"
  /\ pc \in {"joinBw", "returned"} => thread[t] \in {"reading", "stopped"}
  /\ pc = "joinBw" /\ t < threadIdx => thread[t] = "stopped"
  /\ pc = "returned" => thread[t] = "stopped"

\* An array is filled when its fill thread is done and while it is read.
Array(t) ==
  /\ thread[t] = "filled" => arr[t] = "filled"
  /\ pc \in {"startBw", "joinLatency", "joinBw"} => arr[t] = "filled"

\* A thread that has stopped has reported what it counted.
Report(t) ==
  thread[t] = "stopped" => passes[t] > 0 /\ read_bytes[t] = passes[t]

Slots == \A t \in Threads : Slot(t) /\ Array(t) /\ Report(t)

Measured == pc = "returned" => measuredBw = Total(passes)

IInv == Types /\ MainsPlace /\ Slots /\ Measured

-----------------------------------------------------------------------------
LEMMA Initially == Init => IInv
<1>1. SUFFICES ASSUME Init PROVE IInv
  OBVIOUS
<1>2. Types
  BY LoadedLatencyAssumption, <1>1, SMT DEF Init, Types, Threads
<1>3. MainsPlace /\ Measured
  BY <1>1 DEF Init, MainsPlace, Measured
<1>4. Slots
  BY <1>1, SMT DEF Init, Slots, Slot, Array, Report, Threads
<1>5. QED
  BY <1>2, <1>3, <1>4 DEF IInv

LEMMA StartFillKeeps ==
  ASSUME IInv, StartFill PROVE IInv'
<1>1. Types'
  <2>1. CASE mode = "shared"
    BY <2>1, LoadedLatencyAssumption, SMT DEF IInv, Types, StartFill, Turn
  <2>2. CASE mode # "shared"
    <3>1. /\ threadIdx \in Threads
          /\ arr' = [arr EXCEPT ![threadIdx] = "allocated"]
          /\ thread' = [thread EXCEPT ![threadIdx] = "filling"]
      BY <2>2, SMT DEF IInv, Types, StartFill, Turn, Threads
    <3>2. /\ arr' \in [Threads -> {"none", "allocated", "filled", "freed"}]
          /\ thread' \in [Threads -> {"none", "filling", "filled", "reading", "stopped"}]
      BY <3>1 DEF IInv, Types
    <3>3. threadIdx' \in 1 .. BwThreads + 1
      BY LoadedLatencyAssumption, SMT DEF IInv, Types, StartFill, Turn
    <3>4. QED
      BY <3>2, <3>3 DEF IInv, Types, StartFill, Turn
  <2>3. QED
    BY <2>1, <2>2
<1>2. MainsPlace' /\ Measured'
  BY DEF IInv, MainsPlace, Measured, StartFill, Turn
<1>3. Slots'
  BY LoadedLatencyAssumption, SMT
  DEF IInv, Types, Slots, Slot, Array, Report, StartFill, Turn, Threads
<1>4. QED
  BY <1>1, <1>2, <1>3 DEF IInv

LEMMA StartedFillsKeeps ==
  ASSUME IInv, StartedFills PROVE IInv'
<1>1. Types'
  BY LoadedLatencyAssumption, SMT
  DEF IInv, Types, StartedFills, EndLoop, workers, arrays
<1>2. MainsPlace' /\ Measured'
  BY SMT DEF IInv, Types, MainsPlace, Measured, StartedFills, EndLoop, workers, arrays
<1>3. Slots'
  BY LoadedLatencyAssumption, SMT
  DEF IInv, Types, Slots, Slot, Array, Report, StartedFills, EndLoop, workers, arrays, Threads
<1>4. QED
  BY <1>1, <1>2, <1>3 DEF IInv

LEMMA AllocateKeeps ==
  ASSUME IInv, Allocate \/ AllocateFails PROVE IInv'
<1>1. Types'
  BY SMT DEF IInv, Types, Allocate, AllocateFails, workers, arrays
<1>2. MainsPlace' /\ Measured'
  BY SMT DEF IInv, Types, MainsPlace, Measured, Allocate, AllocateFails, workers, arrays
<1>3. /\ pc = "allocate" /\ pc' \in {"joinFills", "failed"}
      /\ threadIdx' = 1
      /\ UNCHANGED <<mode, thread, passes, read_bytes, arr>>
  BY DEF IInv, MainsPlace, Allocate, AllocateFails, workers, arrays
<1>4. ASSUME NEW t \in Threads PROVE (Slot(t) /\ Array(t) /\ Report(t))'
  <2>1. ~ t < 1
    BY SMT DEF Threads
  <2>2. Slot(t)'
    BY <1>3, <2>1 DEF IInv, Slots, Slot
  <2>3. Array(t)' /\ Report(t)'
    BY <1>3 DEF IInv, Slots, Array, Report
  <2>4. QED
    BY <2>2, <2>3
<1>5. Slots'
  BY <1>4 DEF Slots
<1>6. QED
  BY <1>1, <1>2, <1>5 DEF IInv

LEMMA JoinFillKeeps ==
  ASSUME IInv, JoinFill PROVE IInv'
<1>1. Types'
  BY LoadedLatencyAssumption, SMT DEF IInv, Types, JoinFill, Turn, workers, arrays
<1>2. MainsPlace' /\ Measured'
  BY SMT DEF IInv, Types, MainsPlace, Measured, JoinFill, Turn, workers, arrays
<1>3. Slots'
  BY LoadedLatencyAssumption, SMT
  DEF IInv, Types, Slots, Slot, Array, Report, JoinFill, Turn, Joinable,
      Threads, workers, arrays
<1>4. QED
  BY <1>1, <1>2, <1>3 DEF IInv

LEMMA JoinedFillsKeeps ==
  ASSUME IInv, JoinedFills PROVE IInv'
<1>1. Types'
  BY LoadedLatencyAssumption, SMT DEF IInv, Types, JoinedFills, EndLoop, workers
<1>2. MainsPlace' /\ Measured'
  BY SMT DEF IInv, Types, MainsPlace, Measured, JoinedFills, EndLoop, workers
<1>3. Slots'
  BY LoadedLatencyAssumption, SMT
  DEF IInv, Types, MainsPlace, Slots, Slot, Array, Report, JoinedFills, EndLoop,
      Threads, workers
<1>4. QED
  BY <1>1, <1>2, <1>3 DEF IInv

LEMMA StartBwKeeps ==
  ASSUME IInv, StartBw PROVE IInv'
<1>1. Types'
  BY LoadedLatencyAssumption, SMT DEF IInv, Types, StartBw, Turn, arrays, Threads
<1>2. MainsPlace' /\ Measured'
  BY SMT DEF IInv, Types, MainsPlace, Measured, StartBw, Turn, arrays
<1>3. Slots'
  BY LoadedLatencyAssumption, SMT
  DEF IInv, Types, Slots, Slot, Array, Report, StartBw, Turn, Threads, arrays
<1>4. QED
  BY <1>1, <1>2, <1>3 DEF IInv

LEMMA StartedBwKeeps ==
  ASSUME IInv, StartedBw PROVE IInv'
<1>1. Types'
  BY LoadedLatencyAssumption, SMT DEF IInv, Types, StartedBw, EndLoop, arrays
<1>2. MainsPlace' /\ Measured'
  BY SMT DEF IInv, Types, MainsPlace, Measured, StartedBw, EndLoop, arrays
<1>3. Slots'
  BY LoadedLatencyAssumption, SMT
  DEF IInv, Types, Slots, Slot, Array, Report, StartedBw, EndLoop, Threads, arrays
<1>4. QED
  BY <1>1, <1>2, <1>3 DEF IInv

LEMMA StopKeeps ==
  ASSUME IInv, Stop PROVE IInv'
<1>1. Types'
  BY SMT DEF IInv, Types, Stop, FlagAfter, workers, arrays
<1>2. MainsPlace' /\ Measured'
  BY SMT DEF IInv, Types, MainsPlace, Measured, Stop, StopReady, FlagAfter, workers, arrays
<1>3. Slots'
  BY LoadedLatencyAssumption, SMT
  DEF IInv, Types, MainsPlace, Slots, Slot, Array, Report, Stop, Threads, workers, arrays
<1>4. QED
  BY <1>1, <1>2, <1>3 DEF IInv

LEMMA JoinBwKeeps ==
  ASSUME IInv, JoinBw PROVE IInv'
<1>1. Types'
  BY LoadedLatencyAssumption, SMT DEF IInv, Types, JoinBw, Turn, workers, arrays
<1>2. MainsPlace' /\ Measured'
  BY SMT DEF IInv, Types, MainsPlace, Measured, JoinBw, Turn, workers, arrays
<1>3. Slots'
  BY LoadedLatencyAssumption, SMT
  DEF IInv, Types, Slots, Slot, Array, Report, JoinBw, Turn, Joinable, Threads,
      workers, arrays
<1>4. QED
  BY <1>1, <1>2, <1>3 DEF IInv

\* When main returns all threads have reported, so the sums are those of what
\* they counted.
LEMMA ReturnKeeps ==
  ASSUME IInv, Return PROVE IInv'
<1>1. Types'
  BY LoadedLatencyAssumption, SMT DEF IInv, Types, Return, EndLoop, workers, Threads
<1>2. MainsPlace'
  BY SMT DEF IInv, Types, MainsPlace, Return, EndLoop, workers
<1>3. \A t \in Threads : thread[t] = "stopped"
  BY LoadedLatencyAssumption, SMT DEF IInv, Types, Slots, Slot, Return, EndLoop, Threads
<1>4. Slots'
  BY <1>3, SMT
  DEF IInv, Types, Slots, Slot, Array, Report, Return, EndLoop, Threads, workers
<1>5. read_bytes = passes
  BY <1>3, SMT DEF IInv, Types, Slots, Report
<1>6. measuredBw' = Total(passes)
  BY <1>5 DEF Return, Total
<1>7. Measured'
  BY <1>6 DEF Measured, Total, Return, workers
<1>8. QED
  BY <1>1, <1>2, <1>4, <1>7 DEF IInv

LEMMA FillArrKeeps ==
  ASSUME IInv, NEW t \in Threads, FillArr(t) PROVE IInv'
<1>1. Types'
  BY SMT DEF IInv, Types, FillArr
<1>2. MainsPlace' /\ Measured'
  BY DEF IInv, MainsPlace, Measured, Total, FillArr
<1>3. Slots'
  BY SMT DEF IInv, Types, Slots, Slot, Array, Report, FillArr, Threads
<1>4. QED
  BY <1>1, <1>2, <1>3 DEF IInv

\* A thread makes a pass while main waits or is yet to set the flag, and stops
\* when it finds the flag set.
LEMMA PassKeeps ==
  ASSUME IInv, NEW t \in Threads, Pass(t) PROVE IInv'
<1>1. PassCount(t) \in 1 .. MaxPasses
  BY LoadedLatencyAssumption, SMT DEF IInv, Types, PassCount
<1>2. Types'
  BY <1>1, SMT DEF IInv, Types, Pass, Reported, arrays
<1>3. pc \in {"startBw", "joinLatency", "joinBw"} /\ pc' = pc
  BY SMT DEF IInv, Types, Slots, Slot, Pass
<1>4. MainsPlace' /\ Measured'
  BY <1>3 DEF IInv, MainsPlace, Measured, Pass, arrays
<1>5. Slots'
  <2>1. SUFFICES ASSUME NEW u \in Threads PROVE (Slot(u) /\ Array(u) /\ Report(u))'
    BY DEF Slots
  <2>2. CASE u # t
    BY <2>2, SMT DEF IInv, Types, Slots, Slot, Array, Report, Pass, arrays
  <2>3. CASE u = t
    <3>1. thread'[t] = IF flag = 0 THEN "reading" ELSE "stopped"
      BY SMT DEF IInv, Types, Pass
    <3>2. Slot(t)'
      BY <1>3, <3>1, SMT DEF IInv, Types, MainsPlace, Slots, Slot, Pass
    <3>3. Array(t)'
      BY <1>3, <3>1, SMT DEF IInv, Slots, Array, Pass, arrays
    <3>4. Report(t)'
      BY <1>1, <3>1, SMT DEF IInv, Types, Report, Pass, Reported
    <3>5. QED
      BY <2>3, <3>2, <3>3, <3>4
  <2>4. QED
    BY <2>2, <2>3
<1>6. QED
  BY <1>2, <1>4, <1>5 DEF IInv

LEMMA ChaseKeeps ==
  ASSUME IInv, Chase PROVE IInv'
<1>1. Types'
  BY LoadedLatencyAssumption, SMT DEF IInv, Types, Chase, ChaseGoesOn, arrays
<1>2. pc = "joinLatency" /\ mode # "bwonly"
  BY LoadedLatencyAssumption, SMT DEF IInv, Types, MainsPlace, Chase, ChaseGoesOn
<1>3. MainsPlace' /\ Measured'
  BY <1>2, SMT DEF IInv, MainsPlace, Measured, Chase, arrays
<1>4. Slots'
  BY SMT DEF IInv, Slots, Slot, Array, Report, Chase, arrays
<1>5. QED
  BY <1>1, <1>3, <1>4 DEF IInv

LEMMA StutterKeeps ==
  ASSUME IInv, UNCHANGED vars PROVE IInv'
<1>1. Types' /\ MainsPlace' /\ Measured'
  BY DEF IInv, Types, MainsPlace, Measured, Total, vars, workers, arrays
<1>2. Slots'
  BY DEF IInv, Slots, Slot, Array, Report, vars, workers, arrays
<1>3. QED
  BY <1>1, <1>2 DEF IInv

LEMMA Preserved == IInv /\ [Next]_vars => IInv'
<1>1. SUFFICES ASSUME IInv, [Next]_vars PROVE IInv'
  OBVIOUS
<1>2. CASE MainStep
  BY <1>1, <1>2, StartFillKeeps, StartedFillsKeeps, AllocateKeeps, JoinFillKeeps,
     JoinedFillsKeeps, StartBwKeeps, StartedBwKeeps, StopKeeps, JoinBwKeeps, ReturnKeeps
  DEF MainStep
<1>3. CASE Chase
  BY <1>1, <1>3, ChaseKeeps
<1>4. CASE \E t \in Threads : ThreadStep(t)
  BY <1>1, <1>4, FillArrKeeps, PassKeeps DEF ThreadStep
<1>5. CASE Ended \/ UNCHANGED vars
  BY <1>1, <1>5, StutterKeeps DEF Ended
<1>6. QED
  BY <1>1, <1>2, <1>3, <1>4, <1>5 DEF Next

LEMMA Invariant == Spec => []IInv
  BY Initially, Preserved, PTL DEF Spec

-----------------------------------------------------------------------------
\* "let bw array fills finish": a thread only reads an array that is filled and
\* not yet freed, in all three modes and for any number of threads.
THEOREM ArraysAreFilled == Spec => []ReadsFilledArray
<1>1. IInv => ReadsFilledArray
  BY SMT DEF IInv, Types, Slots, Slot, Array, ReadsFilledArray
<1>2. QED
  BY <1>1, Invariant, PTL

\* No bandwidth thread stops while the latency test is under way.
THEOREM LoadLasts == Spec => []LoadOutlastsChase
<1>1. IInv => LoadOutlastsChase
  BY LoadedLatencyAssumption, SMT
  DEF IInv, Types, MainsPlace, Slots, Slot, LoadOutlastsChase
<1>2. QED
  BY <1>1, Invariant, PTL

\* measuredBw is the sum of all passes that were made, and none made no pass.
THEOREM NothingLost == Spec => []CountsComplete
<1>1. IInv => CountsComplete
  BY SMT DEF IInv, Slots, Slot, Report, Measured, CountsComplete
<1>2. QED
  BY <1>1, Invariant, PTL

-----------------------------------------------------------------------------
\* What the types do not need the rest of the invariant for, but the bandwidth
\* needs the threads' reports for.
Bounded ==
  /\ mode \in Modes
  /\ measuredBw \in {Unset} \cup 0 .. BwThreads * MaxPasses + Iterations

\* What main reports when all threads have.
LEMMA TotalBounded ==
  ASSUME Types
  PROVE  Total(read_bytes) \in 0 .. BwThreads * MaxPasses + Iterations
<1> DEFINE a == Added(read_bytes)
           m == MaxPasses * BwThreads
<1>1. BwThreads \in Nat /\ MaxPasses \in Nat /\ Iterations \in Nat
  BY LoadedLatencyAssumption
<1>2. IsFiniteSet(Threads) /\ Cardinality(Threads) = BwThreads
  <2>1. 1 \in Int /\ BwThreads \in Int /\ (1 > BwThreads => BwThreads = 0)
        /\ BwThreads - 1 + 1 = BwThreads
    BY <1>1, SMT
  <2>2. QED
    BY <2>1, FS_Interval DEF Threads
<1>3. a \in Nat /\ a <= m
  BY <1>1, <1>2, SumBounds DEF Types, Added, SumOver
<1>4. m \in Nat /\ m = BwThreads * MaxPasses
  BY <1>1, SMT
<1> HIDE DEF a, m
<1>5. Total(read_bytes) = a + (IF mode = "bwonly" THEN 0 ELSE Iterations)
  BY DEF Total, a
<1>6. Total(read_bytes) \in 0 .. m + Iterations
  BY <1>1, <1>3, <1>4, <1>5, SMT
<1>7. QED
  BY <1>4, <1>6

\* The types of main and of all its threads; what is reported cannot exceed
\* what the threads and the latency test can have done.
THEOREM TypeCorrect == Spec => []TypeOK
<1>1. Init => Bounded
  BY DEF Init, Bounded
<1>2. IInv /\ Bounded /\ [Next]_vars => Bounded'
  <2> SUFFICES ASSUME IInv, Bounded, [Next]_vars PROVE Bounded'
    OBVIOUS
  <2>1. CASE Return
    BY <2>1, TotalBounded DEF IInv, Bounded, Return
  <2>2. mode' = mode /\ (Return \/ measuredBw' = measuredBw)
    BY DEF Next, MainStep, StartFill, StartedFills, Allocate, AllocateFails,
           JoinFill, JoinedFills, StartBw, StartedBw, Stop, JoinBw, Return, Chase,
           ThreadStep, FillArr, Pass, Ended, vars
  <2>3. QED
    BY <2>1, <2>2 DEF Bounded
<1>3. IInv /\ Bounded => TypeOK
  BY DEF IInv, Types, Bounded, TypeOK
<1>4. QED
  BY <1>1, <1>2, <1>3, Invariant, PTL DEF Spec

=============================================================================
