--------------------------- MODULE DeviceExchange ---------------------------
(***************************************************************************)
(* Two workers, at least one of them on a GPU, push one word up by turns:  *)
(*   "svm_atomics"    a kernel against a CPU thread (runAtomicsTest);      *)
(*   "svm_buffer"     a kernel launched for every increment against the    *)
(*                    host itself (runBufferSharingTest);                  *)
(*   "global_atomic", "local_atomic"   two work items of one kernel        *)
(*                    (int_atomic_latency_test);                           *)
(*   "c2c_atomic"     two of the work items of one kernel, pair after pair *)
(*                    (c2c_atomic_latency_test).                           *)
(* The host fills the word, submits the kernel and waits, round by round.  *)
(* A submission may fail; the command queue runs kernels in order.         *)
(***************************************************************************)
EXTENDS Integers

CONSTANTS
  Tests,          (* the tests the program may be asked for                *)
  FailingTests,   (* those whose kernel submission may fail                *)
  CuCount,        (* compute units: one work item each in "c2c_atomic"     *)
  MaxIterations,  (* bound on the iterations that rescaling reaches        *)
  MaxFailures     (* bound on the submissions that fail                    *)

VARIABLES
  test,        (* the test that runs                                       *)
  host,        (* where the host is                                        *)
  iterations,  (* the iterations of this round                             *)
  pair,        (* the work items, or threads, with start values 1 and 2    *)
  word,        (* the bounced word (A, testptr, the local a)               *)
  current,     (* current[w]: what worker w publishes next                 *)
  pc,          (* pc[i]: "none", "run", "done"; local: "copy", "barrier"   *)
  buffer,      (* who has the word: "shared", "host", "device", "freed"    *)
  measured,    (* history: the pairs that a latency was reported for       *)
  failures     (* submissions that failed                                  *)

state == <<pair, word, current, pc, buffer>>
vars == <<test, host, iterations, state, measured, failures>>

\* Item 0 is the kernel of the svm tests, item 1 the CPU thread or the host.
Items == 0 .. (IF test = "c2c_atomic" THEN CuCount - 1 ELSE 1)
KernelItems == IF test \in {"svm_atomics", "svm_buffer"} THEN {0} ELSE Items
Workers == {pair[1], pair[2]}
Limit == 2 * iterations
Unset == 0 .. 2  (* what memory that nobody has written may hold           *)

\* Whether the device has fine grained sharing decides who owns the word.
Init ==
  /\ test \in Tests
  /\ host = "setup"
  /\ iterations \in 1 .. 2
  /\ pair = <<0, 1>>
  /\ word \in Unset
  /\ current = [i \in Items |-> 0]
  /\ pc = [i \in Items |-> "none"]
  /\ buffer \in IF test = "svm_buffer" THEN {"shared", "device"} ELSE {"shared"}
  /\ measured = {}
  /\ failures = 0

\* Mutants: the word keeps the last round's value; the host looks at the
\* kernel only; the items of a work group do not wait for each other.
Cleared_Not == {word}
Joined_KernelOnly == \A i \in KernelItems : pc[i] = "done"
AllAtBarrier_Self == \E i \in Items : pc[i] = "barrier"

\* *testptr = 0, A = 0: coarse grained memory is written before it is mapped,
\* which need not reach the device.
Cleared == IF buffer = "device" THEN {0, word} ELSE {0}

Joined == \A i \in Items : pc[i] = "done" \/ (i \notin KernelItems /\ pc[i] = "none")

\* A round begins; the CPU thread is created, and runs, before the kernel is
\* submitted.
SetUp ==
  /\ host = "setup"
  /\ word' \in Cleared
  /\ current' = [i \in Items |-> IF i = pair[1] THEN 1
                                 ELSE IF i = pair[2] THEN 2 ELSE 0]
  /\ pc' = [i \in Items |-> IF test = "svm_atomics" /\ i = 1 THEN "run" ELSE "none"]
  /\ host' = "submit"
  /\ UNCHANGED <<test, iterations, pair, buffer, measured, failures>>

\* clEnqueueSVMUnmap for coarse grained memory, then clEnqueueNDRangeKernel.
\* The local word is not initialised before the kernel does it.
Submit ==
  /\ host = "submit"
  /\ host' = "wait"
  /\ pc' = [i \in Items |->
             IF i \notin KernelItems THEN pc[i]
             ELSE IF test # "local_atomic" THEN "run"
             ELSE IF i = 0 THEN "copy" ELSE "barrier"]
  /\ buffer' = IF buffer = "host" THEN "device" ELSE buffer
  /\ word' \in IF test = "local_atomic" THEN Unset ELSE {word}
  /\ UNCHANGED <<test, iterations, pair, current, measured, failures>>

\* clEnqueueNDRangeKernel fails: the test returns, and the loop around
\* int_atomic_latency_test, whose elapsed time stays short, tries again with
\* twice the iterations.
SubmitFails ==
  /\ host = "submit"
  /\ test \in FailingTests /\ failures < MaxFailures
  /\ failures' = failures + 1
  /\ IF test \in {"global_atomic", "local_atomic"} /\ 2 * iterations <= MaxIterations
     THEN host' = "setup" /\ iterations' = 2 * iterations
     ELSE host' = "free" /\ UNCHANGED iterations
  /\ buffer' = IF buffer = "host" THEN "device" ELSE buffer
  /\ UNCHANGED <<test, pair, word, current, pc, measured>>

\* local_atomic_latency_test: item 0 copies A[0], then both pass the barrier.
CopyIn(i) ==
  /\ pc[i] = "copy"
  /\ word' = 0
  /\ pc' = [pc EXCEPT ![i] = "barrier"]
  /\ UNCHANGED <<test, host, iterations, pair, current, buffer, measured, failures>>

AllAtBarrier == \A i \in Items : pc[i] = "barrier"

Barrier ==
  /\ AllAtBarrier
  /\ pc' = [i \in Items |-> "run"]
  /\ UNCHANGED <<test, host, iterations, pair, word, current, buffer, measured, failures>>

\* The compare-and-swap of a work item, or of the CPU thread, succeeds.
Swap(i) ==
  /\ pc[i] = "run" /\ test # "svm_buffer"
  /\ i \in Workers /\ current[i] <= Limit
  /\ word = current[i] - 1
  /\ word' = current[i]
  /\ current' = [current EXCEPT ![i] = @ + 2]
  /\ UNCHANGED <<test, host, iterations, pair, pc, buffer, measured, failures>>

\* increment_on_gpu: the kernel does not look at what it increments.
Increment ==
  /\ pc[0] = "run" /\ test = "svm_buffer"
  /\ word' = word + 1
  /\ pc' = [pc EXCEPT ![0] = "done"]
  /\ UNCHANGED <<test, host, iterations, pair, current, buffer, measured, failures>>

\* An item leaves its loop; items that are neither t1 nor t2 have none.
Exit(i) ==
  /\ pc[i] = "run" /\ test # "svm_buffer"
  /\ i \in Workers => current[i] > Limit
  /\ pc' = [pc EXCEPT ![i] = "done"]
  /\ UNCHANGED <<test, host, iterations, pair, word, current, buffer, measured, failures>>

\* clFinish or clWaitForEvents, then pthread_join of the CPU thread, or
\* clEnqueueSVMMap of coarse grained memory.
Wait ==
  /\ host = "wait"
  /\ Joined
  /\ buffer' = IF buffer = "device" THEN "host" ELSE buffer
  /\ host' = IF test = "svm_buffer" THEN "check" ELSE "report"
  /\ UNCHANGED <<test, iterations, pair, word, current, pc, measured, failures>>

\* The host finds the kernel's value and publishes its own ...
HostStep ==
  /\ host = "check" /\ word = current[1] - 1
  /\ word' = current[1]
  /\ current' = [current EXCEPT ![1] = @ + 2, ![0] = @ + 2]
  /\ host' = IF current[1] >= Limit THEN "report" ELSE "submit"
  /\ UNCHANGED <<test, iterations, pair, pc, buffer, measured, failures>>

\* ... or "Buffer sharing did not work".
Mismatch ==
  /\ host = "check" /\ word # current[1] - 1
  /\ host' = "free"
  /\ UNCHANGED <<test, iterations, state, measured, failures>>

\* The pairs that the loops over t1_idx and t2_idx come to after p.
PairsAfter(p) ==
  {q \in Items \X Items : q[1] # q[2] /\ (q[1] > p[1] \/ (q[1] = p[1] /\ q[2] > p[2]))}

FirstOf(P) ==
  CHOOSE q \in P : \A r \in P : q[1] < r[1] \/ (q[1] = r[1] /\ q[2] <= r[2])

\* The latency of the round is printed; the next pair, a round with at least
\* twice the iterations (scale_iterations_to_target), or the end.
Report ==
  /\ host = "report"
  /\ measured' = measured \cup {pair}
  /\ IF test = "c2c_atomic"
     THEN /\ UNCHANGED iterations
          /\ IF PairsAfter(pair) = {}
             THEN host' = "free" /\ UNCHANGED pair
             ELSE host' = "setup" /\ pair' = FirstOf(PairsAfter(pair))
     ELSE /\ UNCHANGED pair
          /\ \/ host' = "free" /\ UNCHANGED iterations
             \/ host' = "setup" /\ iterations' \in Limit .. MaxIterations
  /\ UNCHANGED <<test, word, current, pc, buffer, failures>>

\* clSVMFree, clReleaseMemObject.
Free ==
  /\ host = "free"
  /\ host' = "returned"
  /\ buffer' = "freed"
  /\ UNCHANGED <<test, iterations, pair, word, current, pc, measured, failures>>

Returned == host = "returned" /\ UNCHANGED vars

HostNext == \/ SetUp \/ Submit \/ SubmitFails \/ Wait \/ HostStep \/ Mismatch
            \/ Report \/ Free
ItemNext(i) == CopyIn(i) \/ Swap(i) \/ Exit(i) \/ (i = 0 /\ (Barrier \/ Increment))
Next == HostNext \/ Returned \/ \E i \in Items : ItemNext(i)

-----------------------------------------------------------------------------
\* Type invariant: neither the word nor a worker runs past the limit.
TypeOK ==
  /\ test \in Tests /\ iterations \in 1 .. MaxIterations
  /\ pair \in Items \X Items /\ pair[1] # pair[2]
  /\ word \in 0 .. Limit + 1
  /\ current \in [Items -> 0 .. Limit + 2]
  /\ pc \in [Items -> {"none", "copy", "barrier", "run", "done"}]
  /\ buffer \in {"shared", "host", "device", "freed"}
  /\ measured \subseteq Items \X Items /\ failures \in 0 .. MaxFailures

Started == host = "wait" /\ \A i \in Workers : pc[i] \in {"run", "done"}

\* While both workers are in their loops, one waits for exactly the next
\* value and the other for the one after, and a round that is reported pushed
\* the word up to 2 * iterations from 0, by both workers.
StrictExchange ==
  /\ test # "svm_buffer" /\ Started =>
       {current[i] : i \in Workers} = {word + 1, word + 2}
  /\ host = "report" => word = Limit /\ \A i \in Workers : current[i] > Limit

\* The buffer is freed when nobody uses it any more.
BufferOutlivesWorkers ==
  buffer = "freed" => \A i \in Items : pc[i] \notin {"copy", "barrier", "run"}

=============================================================================
