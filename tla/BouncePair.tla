----------------------------- MODULE BouncePair -----------------------------
(***************************************************************************)
(* The two threads that TimeThreads starts on one shared word (target):    *)
(* LatencyTestThread, which bounces it with a compare-and-swap, and        *)
(* NoLockLatencyTestThread, whose load and store are two separate          *)
(* accesses that the other thread can come between.                        *)
(*                                                                         *)
(* Thread 1 is lat1 (start = 1), thread 2 is lat2 (start = 2).  The word   *)
(* is volatile and is the only location the threads share, so coherence    *)
(* alone orders the accesses.                                              *)
(***************************************************************************)
EXTENDS Integers

CONSTANT Iterations  (* LatencyData.iterations                             *)

ASSUME IterationsAssumption == Iterations \in Nat

VARIABLES
  testFunc,    (* the function the command line selects                    *)
  threadFunc,  (* the function RunTest has both threads run                *)
  target,      (* the bounced word                                         *)
  current,     (* current[t]: the value thread t publishes next            *)
  pc           (* "loop": at the while test; "store": the plain load       *)
               (* matched and the store is still to come; "done": exited   *)

funcs == <<testFunc, threadFunc>>
vars == <<funcs, target, current, pc>>

Thread == {1, 2}
ThreadFuncs == {"LatencyTestThread", "NoLockLatencyTestThread"}
Limit == 2 * Iterations

\* RunTest: *target = 0, lat1.start = 1, lat2.start = 2.  On Windows it runs
\* LatencyTestThread and there is no choice; with pthreads -nolock sets
\* testFunc, and RunTest passes NoLockLatencyTestThread whatever it holds.
Init ==
  /\ \/ threadFunc = "LatencyTestThread" /\ testFunc = threadFunc
     \/ threadFunc = "NoLockLatencyTestThread" /\ testFunc \in ThreadFuncs
  /\ target = 0
  /\ current = [t \in Thread |-> t]
  /\ pc = [t \in Thread |-> "loop"]

\* A mutant: a thread takes its own last value for the other's.
SeesPrevious_Own(t) == target \in {current[t] - 1, current[t] - 2}

WhileTest(t) == current[t] <= Limit
SeesPrevious(t) == target = current[t] - 1

Advance(t) ==
  /\ target' = current[t]
  /\ current' = [current EXCEPT ![t] = @ + 2]

\* Either function finds another value and the thread goes round again.
Spin(t) == pc[t] = "loop" /\ WhileTest(t) /\ ~ SeesPrevious(t) /\ UNCHANGED vars

\* LatencyTestThread: the compare-and-swap succeeds.
CompareAndSwap(t) ==
  /\ threadFunc = "LatencyTestThread"
  /\ pc[t] = "loop"
  /\ WhileTest(t)
  /\ SeesPrevious(t)
  /\ Advance(t)
  /\ UNCHANGED <<funcs, pc>>

\* NoLockLatencyTestThread: the load finds the value the thread waits for.
Load(t) ==
  /\ threadFunc = "NoLockLatencyTestThread"
  /\ pc[t] = "loop"
  /\ WhileTest(t)
  /\ SeesPrevious(t)
  /\ pc' = [pc EXCEPT ![t] = "store"]
  /\ UNCHANGED <<funcs, target, current>>

\* NoLockLatencyTestThread: the store, whatever happened since the load.
Store(t) ==
  /\ pc[t] = "store"
  /\ Advance(t)
  /\ pc' = [pc EXCEPT ![t] = "loop"]
  /\ UNCHANGED funcs

\* The while test fails and the thread calls pthread_exit.
Exit(t) ==
  /\ pc[t] = "loop"
  /\ ~ WhileTest(t)
  /\ pc' = [pc EXCEPT ![t] = "done"]
  /\ UNCHANGED <<funcs, target, current>>

ThreadStep(t) == CompareAndSwap(t) \/ Load(t) \/ Store(t) \/ Exit(t)

Done == \A t \in Thread : pc[t] = "done"

\* pthread_join has both threads: TimeThreads returns.
Joined == Done /\ UNCHANGED vars

Next == (\E t \in Thread : ThreadStep(t) \/ Spin(t)) \/ Joined

Spec == Init /\ [][Next]_vars

\* Each thread is scheduled for as long as it can run.
FairSpec == Spec /\ \A t \in Thread : WF_vars(ThreadStep(t))

-----------------------------------------------------------------------------
\* Type invariant: the word never leaves 0 .. 2 * iterations, and neither
\* thread's next value runs more than one turn past it (LatencyTestThread).
TypeOK ==
  /\ {testFunc, threadFunc} \subseteq ThreadFuncs
  /\ target \in 0 .. Limit
  /\ current \in [Thread -> 1 .. Limit + 2]
  /\ pc \in [Thread -> {"loop", "store", "done"}]

\* A thread that is about to store still sees the value it loaded, and it is
\* the only one about to store: the unlocked load and store lose no update
\* although nothing makes them atomic (NoLockLatencyTestThread).
NoLostUpdate ==
  \A t \in Thread :
    pc[t] = "store" => /\ target = current[t] - 1
                       /\ \A u \in Thread \ {t} : pc[u] # "store"

\* The strict alternation: whatever the word holds, the thread whose parity
\* is next waits for exactly that value and the other for the one after.
Alternation ==
  IF target % 2 = 0
  THEN current[1] = target + 1 /\ current[2] = target + 2
  ELSE current[2] = target + 1 /\ current[1] = target + 2

\* When both threads are joined the word has been bounced 2 * iterations
\* times, which is what TimeThreads divides the elapsed time by.
CompleteExchange == Done => target = Limit

\* pthread_join returns: neither thread is left spinning on a value that
\* never comes.
BothJoin == <>[]Done

\* The number of values thread t has published, read off its counter.
Published == [t \in Thread |-> (current[t] - t) \div 2]

Abstract ==
  INSTANCE PingPong WITH First <- 0, value <- target, writes <- Published

\* Both thread functions implement the abstract exchange.
ImplementsPingPong == Abstract!PPSpec

=============================================================================
