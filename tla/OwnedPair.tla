----------------------------- MODULE OwnedPair ------------------------------
(***************************************************************************)
(* RunOwnedTest of the Windows core-to-core test (-owned): each thread     *)
(* writes a word on a cache line of its own and reads the other thread's.  *)
(* Thread 1 is lat1 (start 3, writes target1, which holds 1), thread 2 is  *)
(* lat2 (start 2, writes target2, which holds 0).                          *)
(*                                                                         *)
(* The words are plain memory, so a store goes through the storing core's  *)
(* store buffer (x86-TSO).  _mm_sfence orders stores only: it does not     *)
(* make the thread wait, and the buffer is first-in first-out already.     *)
(* ReadLatencyTestThread stores through another pointer of the same type   *)
(* in its loop, so the compiler has to repeat the load of readTarget.      *)
(***************************************************************************)
EXTENDS Integers, Sequences

CONSTANT Iterations  (* LatencyData.iterations                             *)

ASSUME IterationsAssumption == Iterations \in Nat \ {0}

VARIABLES
  owned,    (* owned[t]: the word thread t writes, as memory has it        *)
  buffer,   (* buffer[t]: stores of thread t not yet in memory             *)
  current,  (* current[t]: the value thread t publishes next               *)
  pc        (* "loop": at the while test; "store": the load matched;       *)
            (* "done": returned                                            *)

vars == <<owned, buffer, current, pc>>

Thread == {1, 2}
Limit == 2 * Iterations
Other(t) == 3 - t

\* Mutants: thread 1 starts one turn early, the while test is one off.
Start_Early == [t \in Thread |-> t]
WhileTest_OneLate(t) == current[t] <= Limit + 1

\* *(latencyData->readTarget): the other thread's word, from memory.
ReadTarget(t) == owned[Other(t)]
Start == [t \in Thread |-> IF t = 1 THEN 3 ELSE 2]
SeesPrevious(t) == ReadTarget(t) = current[t] - 1
WhileTest(t) == current[t] <= Limit

Init ==
  /\ owned = [t \in Thread |-> IF t = 1 THEN 1 ELSE 0]
  /\ buffer = [t \in Thread |-> <<>>]
  /\ current = Start
  /\ pc = [t \in Thread |-> "loop"]

\* The load finds an older value and the thread goes round again.
Spin(t) == pc[t] = "loop" /\ WhileTest(t) /\ ~ SeesPrevious(t) /\ UNCHANGED vars

\* The load finds the value the thread waits for.
Load(t) ==
  /\ pc[t] = "loop"
  /\ WhileTest(t)
  /\ SeesPrevious(t)
  /\ pc' = [pc EXCEPT ![t] = "store"]
  /\ UNCHANGED <<owned, buffer, current>>

\* The store enters the thread's buffer.
Store(t) ==
  /\ pc[t] = "store"
  /\ buffer' = [buffer EXCEPT ![t] = Append(@, current[t])]
  /\ current' = [current EXCEPT ![t] = @ + 2]
  /\ pc' = [pc EXCEPT ![t] = "loop"]
  /\ UNCHANGED owned

\* The while test fails and the thread returns.
Exit(t) ==
  /\ pc[t] = "loop"
  /\ ~ WhileTest(t)
  /\ pc' = [pc EXCEPT ![t] = "done"]
  /\ UNCHANGED <<owned, buffer, current>>

ThreadStep(t) == Load(t) \/ Store(t) \/ Exit(t)

\* The core writes the oldest buffered store to memory.
Drain(t) ==
  /\ buffer[t] # <<>>
  /\ owned' = [owned EXCEPT ![t] = Head(buffer[t])]
  /\ buffer' = [buffer EXCEPT ![t] = Tail(@)]
  /\ UNCHANGED <<current, pc>>

Done == \A t \in Thread : pc[t] = "done" /\ buffer[t] = <<>>

\* WaitForMultipleObjects has both threads.
Joined == Done /\ UNCHANGED vars

Next == (\E t \in Thread : ThreadStep(t) \/ Spin(t) \/ Drain(t)) \/ Joined

Spec == Init /\ [][Next]_vars

\* Each thread keeps running and each store buffer drains.
FairSpec ==
  Spec /\ \A t \in Thread : WF_vars(ThreadStep(t)) /\ WF_vars(Drain(t))

-----------------------------------------------------------------------------
\* The latest value in memory: the words take turns at holding it.
Latest == IF owned[1] > owned[2] THEN owned[1] ELSE owned[2]

\* Type invariant: each word and each buffer holds values of its own parity.
TypeOK ==
  /\ \A t \in Thread : owned[t] \in 0 .. Limit /\ owned[t] % 2 = t % 2
  /\ \A t \in Thread : current[t] \in 1 .. Limit + 2 /\ current[t] % 2 = t % 2
  /\ \A t \in Thread : buffer[t] \in Seq(2 .. Limit)
  /\ pc \in [Thread -> {"loop", "store", "done"}]

\* At most one store of the pair is on its way to memory: the exchange is
\* strict without any help from the sfence.
OneStoreInFlight ==
  /\ \A t \in Thread : Len(buffer[t]) <= 1
  /\ \A t \in Thread : buffer[t] # <<>> => buffer[Other(t)] = <<>>

\* The number of values thread t has made visible.
Published == [t \in Thread |-> (owned[t] - IF t = 1 THEN 1 ELSE 0) \div 2]

=============================================================================
