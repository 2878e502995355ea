---------------------------- MODULE LoadedLatency ---------------------------
(***************************************************************************)
(* RunTest and RunBandwidthOnlyTest of LoadedMemoryLatency.c: bandwidth    *)
(* threads read (or update) their arrays until main sets a flag, while a   *)
(* latency thread chases a pattern.  main fills the arrays with a thread   *)
(* each, joins those, starts the bandwidth threads, runs the latency       *)
(* thread, sets the flag, joins the bandwidth threads and adds up what     *)
(* they counted.                                                           *)
(*                                                                         *)
(* Thread creation succeeds in this module.                                *)
(***************************************************************************)
EXTENDS Integers, FiniteSetsExt

CONSTANTS
  BwThreads,   (* bwThreadCount                                            *)
  Modes,       (* the ways of running that are tried                       *)
  Iterations,  (* loads of the latency test                                *)
  MaxPasses    (* bound: passes of a thread, counted up to it and no more  *)

ASSUME LoadedLatencyAssumption ==
  /\ BwThreads \in Nat
  /\ Modes \subseteq {"private", "shared", "bwonly"}
  /\ Iterations \in Nat
  /\ MaxPasses \in Nat \ {0}

VARIABLES
  mode,        (* private arrays, -sharedlatency, or -bwonly               *)
  pc,          (* where main is                                            *)
  threadIdx,   (* main's loop counter                                      *)
  thread,      (* thread[t]: the bandwidth slot's current thread           *)
  arr,         (* arr[t]: the slot's array                                 *)
  latencyArr,  (* the latency test's array                                 *)
  chased,      (* loads the latency thread has made; -1 before it starts   *)
  flag,        (* the stop flag                                            *)
  passes,      (* passes[t]: what the asm loop has counted                 *)
  read_bytes,  (* read_bytes[t]: what the thread has reported              *)
  measuredBw   (* *measuredBw, in passes; Unset until it is written        *)

arrays == <<arr, latencyArr>>
workers == <<thread, chased, passes, read_bytes>>
vars == <<mode, pc, threadIdx, workers, arrays, flag, measuredBw>>

Threads == 1 .. BwThreads
Unset == -1

Init ==
  /\ mode \in Modes
  /\ pc = "startFills"
  /\ threadIdx = 1
  /\ thread = [t \in Threads |-> "none"]
  /\ arr = [t \in Threads |-> "none"]
  /\ latencyArr = "none"
  /\ chased = -1
  /\ flag = 0
  /\ passes = [t \in Threads |-> 0]
  /\ read_bytes = [t \in Threads |-> 0]
  /\ measuredBw = Unset

-----------------------------------------------------------------------------
(* main.  Its loops over the threads take one step per thread.             *)

\* main's loop at `here` is past its last thread: on to `next`.
EndLoop(here, next) ==
  /\ pc = here
  /\ threadIdx > BwThreads
  /\ pc' = next
  /\ threadIdx' = 1

Turn(here) ==
  /\ pc = here
  /\ threadIdx <= BwThreads
  /\ threadIdx' = threadIdx + 1
  /\ UNCHANGED pc

\* A fill thread for each private array.
StartFill ==
  /\ Turn("startFills")
  /\ IF mode = "shared"
     THEN UNCHANGED <<arr, thread>>
     ELSE /\ arr' = [arr EXCEPT ![threadIdx] = "allocated"]
          /\ thread' = [thread EXCEPT ![threadIdx] = "filling"]
  /\ UNCHANGED <<mode, latencyArr, chased, passes, read_bytes, flag, measuredBw>>

StartedFills ==
  /\ EndLoop("startFills", IF mode = "bwonly" THEN "joinFills" ELSE "allocate")
  /\ UNCHANGED <<mode, workers, arrays, flag, measuredBw>>

\* Huge pages or posix_memalign, then FillPatternArr.
Allocate ==
  /\ pc = "allocate"
  /\ pc' = "joinFills"
  /\ latencyArr' = "filled"
  /\ UNCHANGED <<mode, threadIdx, workers, arr, flag, measuredBw>>

\* Neither can be had: return 0.0f at once.
AllocateFails ==
  /\ pc = "allocate"
  /\ pc' = "failed"
  /\ UNCHANGED <<mode, threadIdx, workers, arrays, flag, measuredBw>>

\* Mutants: a join that does not wait, a flag set too early or not at all.
Joinable_AtOnce(t) == TRUE
StopReady_AtOnce == TRUE
FlagAfter_Unset == 0

\* pthread_join: the slot's thread has returned.
Joinable(t) == thread[t] \in {"filled", "stopped"}

JoinFill ==
  /\ Turn("joinFills")
  /\ mode = "shared" \/ Joinable(threadIdx)
  /\ UNCHANGED <<mode, workers, arrays, flag, measuredBw>>

\* In shared mode all slots get the latency array.
JoinedFills ==
  /\ EndLoop("joinFills", "startBw")
  /\ arr' = IF mode = "shared" THEN [t \in Threads |-> latencyArr] ELSE arr
  /\ UNCHANGED <<mode, workers, latencyArr, flag, measuredBw>>

StartBw ==
  /\ Turn("startBw")
  /\ thread' = [thread EXCEPT ![threadIdx] = "reading"]
  /\ UNCHANGED <<mode, arrays, chased, passes, read_bytes, flag, measuredBw>>

\* The latency thread is created; in bandwidth-only mode main sleeps.
StartedBw ==
  /\ EndLoop("startBw", "joinLatency")
  /\ chased' = IF mode = "bwonly" THEN -1 ELSE 0
  /\ UNCHANGED <<mode, thread, passes, read_bytes, arrays, flag, measuredBw>>

\* The latency thread has returned, or the sleep is over.
StopReady == mode = "bwonly" \/ chased = Iterations
FlagAfter == 1

Stop ==
  /\ pc = "joinLatency"
  /\ StopReady
  /\ flag' = FlagAfter
  /\ pc' = "joinBw"
  /\ UNCHANGED <<mode, threadIdx, workers, arrays, measuredBw>>

JoinBw ==
  /\ Turn("joinBw")
  /\ Joinable(threadIdx)
  /\ UNCHANGED <<mode, workers, arrays, flag, measuredBw>>

\* What the threads reported, or counted, and the latency test's own loads.
Added(count) == MapThenSumSet(LAMBDA t : count[t], Threads)
Total(count) == Added(count) + (IF mode = "bwonly" THEN 0 ELSE Iterations)

\* The counts are added up and everything is freed.
Return ==
  /\ EndLoop("joinBw", "returned")
  /\ measuredBw' = Total(read_bytes)
  /\ arr' = [t \in Threads |-> "freed"]
  /\ latencyArr' = IF mode = "bwonly" THEN latencyArr ELSE "freed"
  /\ UNCHANGED <<mode, workers, flag>>

-----------------------------------------------------------------------------
(* The other threads.                                                      *)

\* FillBandwidthTestArr.
FillArr(t) ==
  /\ thread[t] = "filling"
  /\ arr' = [arr EXCEPT ![t] = "filled"]
  /\ thread' = [thread EXCEPT ![t] = "filled"]
  /\ UNCHANGED <<mode, pc, threadIdx, latencyArr, chased, passes, read_bytes,
                 flag, measuredBw>>

\* Mutants: the thread reports its count of the pass before; the latency test
\* makes a load too many.
Reported_Late(t) == passes[t]
ChaseGoesOn_OneMore == chased \in 0 .. Iterations

\* A pass is counted whatever the flag holds, up to the bound MaxPasses.
PassCount(t) == IF passes[t] < MaxPasses THEN passes[t] + 1 ELSE MaxPasses
Reported(t) == PassCount(t)
ChaseGoesOn == chased \in 0 .. Iterations - 1

\* One pass of asm_read or asm_add, then the test of the flag: the loop goes
\* on, or the thread stores the count and returns.
Pass(t) ==
  /\ thread[t] = "reading"
  /\ passes' = [passes EXCEPT ![t] = PassCount(t)]
  /\ IF flag = 0
     THEN UNCHANGED <<thread, read_bytes>>
     ELSE /\ thread' = [thread EXCEPT ![t] = "stopped"]
          /\ read_bytes' = [read_bytes EXCEPT ![t] = Reported(t)]
  /\ UNCHANGED <<mode, pc, threadIdx, arrays, chased, flag, measuredBw>>

\* One load of RunLatencyTest.
Chase ==
  /\ ChaseGoesOn
  /\ chased' = chased + 1
  /\ UNCHANGED <<mode, pc, threadIdx, thread, passes, read_bytes, arrays, flag,
                 measuredBw>>

Ended == pc \in {"returned", "failed"} /\ UNCHANGED vars

MainStep == StartFill \/ StartedFills \/ Allocate \/ AllocateFails \/ JoinFill
            \/ JoinedFills \/ StartBw \/ StartedBw \/ Stop \/ JoinBw \/ Return

ThreadStep(t) == FillArr(t) \/ Pass(t)

Next == MainStep \/ Chase \/ (\E t \in Threads : ThreadStep(t)) \/ Ended

Spec == Init /\ [][Next]_vars

\* main and every thread keep running.
FairSpec ==
  /\ Spec
  /\ WF_vars(MainStep)
  /\ WF_vars(Chase)
  /\ \A t \in Threads : WF_vars(ThreadStep(t))

-----------------------------------------------------------------------------
TypeOK ==
  /\ mode \in Modes
  /\ threadIdx \in 1 .. BwThreads + 1
  /\ thread \in [Threads -> {"none", "filling", "filled", "reading", "stopped"}]
  /\ arr \in [Threads -> {"none", "allocated", "filled", "freed"}]
  /\ latencyArr \in {"none", "filled", "freed"}
  /\ chased \in -1 .. Iterations
  /\ flag \in {0, 1}
  /\ passes \in [Threads -> 0 .. MaxPasses]
  /\ read_bytes \in [Threads -> 0 .. MaxPasses]
  /\ measuredBw \in {Unset} \cup 0 .. BwThreads * MaxPasses + Iterations

\* A bandwidth thread only ever reads an array that is completely filled and
\* not yet freed ("let bw array fills finish").
ReadsFilledArray == \A t \in Threads : thread[t] = "reading" => arr[t] = "filled"

\* The load on memory lasts as long as the latency test: no bandwidth thread
\* stops while the chase is under way.
LoadOutlastsChase ==
  chased \in 0 .. Iterations - 1 => \A t \in Threads : thread[t] # "stopped"

\* Every pass a thread has made is in the measured bandwidth, and each thread
\* made at least one, even one that started after the flag was set.
CountsComplete ==
  pc = "returned" =>
    measuredBw = Total(passes) /\ \A t \in Threads : passes[t] > 0

\* RunTest returns, with no thread of its own left running unless it could
\* not allocate the latency array.
RunReturns ==
  <>(\/ pc = "failed"
     \/ pc = "returned" /\ \A t \in Threads : thread[t] = "stopped")

=============================================================================
