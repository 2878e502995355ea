------------------------------ MODULE Rescaling -----------------------------
(***************************************************************************)
(* The measurements that divide an iteration count by the time of a round  *)
(* of threads: measureFunction of InstructionRate, which makes one round,  *)
(* and the two that repeat it with other counts until its times suit them: *)
(* measureFunction of mt_instructionrate.c, whose threads shall all be     *)
(* busy for the whole round, and Measure2TBw of                            *)
(* MixedMemoryBandwidthTest.cpp, whose second thread is fitted to the      *)
(* first.                                                                  *)
(*                                                                         *)
(* An instruction of thread t takes cost[t], the same in every round;      *)
(* times are whole and their quotients exact, where the code has float and *)
(* double.  Affinity and the arrays are left out.                          *)
(***************************************************************************)
EXTENDS InstructionLoops, FiniteSetsExt

CONSTANTS
  Functions,    (* which of "InstructionRate", "measureFunction" and
                   "Measure2TBw" are run                                   *)
  TestFuncs(_), (* the assembly functions each of them is run with         *)
  threadCount,  (* -threads; Measure2TBw has two                           *)
  Costs,        (* what a measured instruction may take                    *)
  Iterations,   (* iteration counts that the callers begin with            *)
  MinTime,      (* 2000 ms                                                 *)
  TargetTime,   (* 3000 ms                                                 *)
  ShortTime,    (* 50 ms                                                   *)
  Overhead      (* bound: how much longer a round takes than its threads   *)

ASSUME RescalingAssumption ==
  /\ Functions \subseteq {"InstructionRate", "measureFunction", "Measure2TBw"}
  /\ threadCount \in Nat \ {0}
  /\ "Measure2TBw" \in Functions => threadCount > 1
  /\ Costs \subseteq Nat \ {0}
  /\ Iterations \subseteq Nat \ {0} /\ Overhead \in Nat
  /\ {MinTime, TargetTime, ShortTime} \subseteq Nat
  /\ MinTime < TargetTime /\ Overhead < ShortTime /\ ShortTime < MinTime

VARIABLES
  function,        (* the measurement that runs                            *)
  testfunc,        (* the assembly function it calls                       *)
  cost,            (* cost[t]: the time of an instruction of thread t      *)
  baseIterations,  (* measureFunction's count for all threads              *)
  iterations,      (* testData[t].iterations                               *)
  threadTime,      (* testData[t].timeMs, tsc_duration                     *)
  done,            (* history: done[t]: what t executed in the last round  *)
  running,         (* the threads that run                                 *)
  pc,              (* "start", "wait", "judge", "end"                      *)
  timeMs,          (* the time of the round                                *)
  result           (* the iterations that the result counts                *)

vars == <<function, testfunc, cost, baseIterations, iterations, threadTime,
          done, running, pc, timeMs, result>>

Threads == IF function = "Measure2TBw" THEN {1, 2} ELSE 1 .. threadCount

\* The bandwidth functions of Measure2TBw sweep their array once for each
\* iteration; BandwidthLoops has them in detail.
bw_func == Kernel(1, 1, "zero")

\* 1500000000, and its multiples by -iter, are multiples of what the functions
\* of InstructionRate that wait for zero count; no other count is given to them.
Divides == Ends(testfunc, baseIterations)

\* The first thread's round is long enough for the second to be fitted to it
\* within a tenth.  (With 8 iterations and costs of 5 and 6 the count settles
\* on 6, a ratio of 10 to 9, and Measure2TBw goes round for ever.)
Fits == baseIterations * cost[1] >= 11 * cost[2]

Init ==
  /\ function \in Functions
  /\ testfunc \in TestFuncs(function)
  /\ cost \in [Threads -> Costs]
  /\ baseIterations \in Iterations
  /\ function = "InstructionRate" => Divides
  /\ function = "Measure2TBw" => Fits
  /\ iterations = [t \in Threads |-> baseIterations]
  /\ threadTime = [t \in Threads |-> 0]
  /\ done = [t \in Threads |-> 0]
  /\ running = {}
  /\ pc = "start"
  /\ timeMs = 0
  /\ result = 0

maxThreadTime == Max({threadTime[t] : t \in Threads})
minThreadTime == Min({threadTime[t] : t \in Threads})

\* Mutants: a thread is scaled to the fastest; a round that was too short is
\* repeated with the same count; the tolerance is that of a ratio of two.
ScaleEach_ToMin(t) == (iterations[t] * minThreadTime) \div threadTime[t]
Scaled_Not(last, time) == last
toleranceMet_Wide == maxThreadTime < 2 * minThreadTime

\* scale_iterations_to_target: "safety measure to deal with nasty timer
\* precision issues".
scale_iterations_to_target(last, last_time, target_time) ==
  IF last_time < ShortTime THEN 2 * last
                           ELSE (last * target_time) \div last_time

Joined == running = {}
minTimeMet == timeMs > MinTime

\* (max - min) / min < 0.2; for min = 0 the quotient is infinite or no number.
toleranceMet == 5 * (maxThreadTime - minThreadTime) < minThreadTime

\* fabs(instr / data - 1) < .1
ratioMet == /\ 9 * threadTime[2] < 10 * threadTime[1]
            /\ 10 * threadTime[1] < 11 * threadTime[2]

Accepted ==
  CASE function = "InstructionRate" -> TRUE
    [] function = "measureFunction" -> minTimeMet /\ toleranceMet
    [] function = "Measure2TBw" -> ratioMet

Start ==
  /\ pc = "start"
  /\ running' = Threads
  /\ pc' = "wait"
  /\ UNCHANGED <<function, testfunc, cost, baseIterations, iterations,
                 threadTime, done, timeMs, result>>

\* TestThread, ReadBandwidthTestThread: the function returns, if it ever does.
TestThread(t) ==
  /\ t \in running
  /\ Ends(testfunc, iterations[t])
  /\ running' = running \ {t}
  /\ done' = [done EXCEPT ![t] = Executed(testfunc, iterations[t])]
  /\ threadTime' = [threadTime EXCEPT ![t] = done'[t] * cost[t]]
  /\ UNCHANGED <<function, testfunc, cost, baseIterations, iterations, pc,
                 timeMs, result>>

\* All threads are joined and the round's time is taken.
Join ==
  /\ pc = "wait"
  /\ Joined
  /\ timeMs' \in maxThreadTime .. maxThreadTime + Overhead
  /\ pc' = "judge"
  /\ UNCHANGED <<function, testfunc, cost, baseIterations, iterations,
                 threadTime, done, running, result>>

\* The result counts the iterations as they are set now; InstructionRate's is
\* the rate of one of its threads.
Accept ==
  /\ pc = "judge" /\ Accepted
  /\ result' = IF function = "InstructionRate" THEN baseIterations
                ELSE MapThenSumSet(LAMBDA t : iterations[t], Threads)
  /\ pc' = "end"
  /\ UNCHANGED <<function, testfunc, cost, baseIterations, iterations,
                 threadTime, done, running, timeMs>>

Scaled(last, time) == scale_iterations_to_target(last, time, TargetTime)
ScaleEach(t) == scale_iterations_to_target(iterations[t], threadTime[t], maxThreadTime)

\* "Increase iteration count with 3s target"
ScaleAll ==
  /\ pc = "judge" /\ function = "measureFunction" /\ ~ minTimeMet
  /\ baseIterations' = Scaled(baseIterations, timeMs)
  /\ iterations' = [t \in Threads |-> baseIterations']
  /\ pc' = "start"
  /\ UNCHANGED <<function, testfunc, cost, threadTime, done, running, timeMs,
                 result>>

\* Each thread is brought to the time of the slowest.
ScaleThreads ==
  /\ pc = "judge" /\ function = "measureFunction" /\ minTimeMet /\ ~ toleranceMet
  /\ iterations' = [t \in Threads |-> ScaleEach(t)]
  /\ pc' = "start"
  /\ UNCHANGED <<function, testfunc, cost, baseIterations, threadTime, done,
                 running, timeMs, result>>

\* "adjust iteration count on data thread until they finish close enough": the
\* product is truncated.
ScaleData ==
  /\ pc = "judge" /\ function = "Measure2TBw" /\ ~ ratioMet
  /\ threadTime[2] > 0
  /\ iterations' = [iterations EXCEPT ![2] = (@ * threadTime[1]) \div threadTime[2]]
  /\ pc' = "start"
  /\ UNCHANGED <<function, testfunc, cost, baseIterations, threadTime, done,
                 running, timeMs, result>>

Ended == pc = "end" /\ UNCHANGED vars

MainStep == Start \/ Join \/ Accept \/ ScaleAll \/ ScaleThreads \/ ScaleData
Next == MainStep \/ (\E t \in 1 .. threadCount : TestThread(t)) \/ Ended

Spec == Init /\ [][Next]_vars

FairSpec ==
  Spec /\ WF_vars(MainStep) /\ \A t \in 1 .. threadCount : WF_vars(TestThread(t))

-----------------------------------------------------------------------------
\* Type invariant; no count is scaled down to nothing.
TypeOK ==
  /\ function \in Functions
  /\ testfunc \in TestFuncs(function)
  /\ cost \in [Threads -> Costs]
  /\ baseIterations \in Nat \ {0}
  /\ iterations \in [Threads -> Nat \ {0}]
  /\ threadTime \in [Threads -> Nat]
  /\ done \in [Threads -> Nat]
  /\ running \subseteq Threads
  /\ pc \in {"start", "wait", "judge", "end"}
  /\ timeMs \in Nat /\ result \in Nat

\* What n iterations of the test function are taken for is what it executed:
\* "test function must perform iterations ops".  It may have executed less by
\* one of sixteen, where the loop's own instructions are counted with the
\* others, and more by its last pass.
PerformsIterations(n, ops) ==
  /\ 15 * n <= 16 * ops
  /\ ops <= n + testfunc.counted

\* The result is what the threads did in the round it is divided by the time
\* of, however often the counts were changed, and each of them was busy for all
\* of that round but a sixth (a tenth for Measure2TBw): "allow 10% variation?"
\* (the code allows 20).  The threads of InstructionRate are not balanced; each
\* did what the one result says.
ResultIsRate ==
  pc = "end" =>
    /\ \A t \in Threads : PerformsIterations(iterations[t], done[t])
    /\ result = CASE function = "InstructionRate" -> iterations[1]
                  [] function = "measureFunction" ->
                       MapThenSumSet(LAMBDA t : iterations[t], Threads)
                  [] function = "Measure2TBw" -> done[1] + done[2]
    /\ \A t \in Threads :
         LET busy == done[t] * cost[t]
             rest == timeMs - Overhead - busy
         IN  /\ busy <= timeMs
             /\ CASE function = "InstructionRate" -> TRUE
                  [] function = "measureFunction" -> 6 * rest <= timeMs
                  [] function = "Measure2TBw" -> 10 * rest <= timeMs

\* The measurement ends as long as its threads are steady.
MeasureEnds == <>(pc = "end")

=============================================================================
