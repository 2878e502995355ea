-------------------------- MODULE DeviceTestsProofs -------------------------
(***************************************************************************)
(* Proofs about DeviceTests: the exchanges (DeviceExchange) for every      *)
(* number of compute units, rounds, iterations and failing submissions,    *)
(* and the pointer chases (DeviceLatency) for every launch, list and       *)
(* number of loads.                                                        *)
(***************************************************************************)
EXTENDS DeviceTests, OperatorLemmas

Bounds == CuCount \in Nat /\ CuCount > 1 /\ MaxIterations \in Nat

\* The inductive invariant.  StrictExchange holds while a round runs; to keep
\* it over rounds one has to know what is left when the host comes to the next.
Types ==
  /\ host \in {"setup", "submit", "wait", "check", "report", "free", "returned"}
  /\ iterations \in Nat \ {0}
  /\ pair \in Items \X Items /\ pair[1] # pair[2]
  /\ test # "c2c_atomic" => pair = <<0, 1>>
  /\ word \in Int
  /\ current \in [Items -> Int]
  /\ pc \in [Items -> {"none", "copy", "barrier", "run", "done"}]
  /\ buffer \in {"shared", "host", "device", "freed"}
  /\ test # "svm_buffer" => buffer \in {"shared", "freed"}
  /\ buffer = "freed" => host = "returned"

Quiet == \A i \in Items : pc[i] \in {"none", "done"}

\* One worker waits for the next value, the other for the one after.
Turns ==
  /\ \/ current[pair[1]] = word + 1 /\ current[pair[2]] = word + 2
     \/ current[pair[1]] = word + 2 /\ current[pair[2]] = word + 1
  /\ word <= Limit

\* A round that has begun; the CPU thread already runs.
Ready ==
  /\ word = 0 /\ current[pair[1]] = 1 /\ current[pair[2]] = 2
  /\ \A i \in Items :
       pc[i] = IF test = "svm_atomics" /\ i = 1 THEN "run" ELSE "none"

\* The items of local_atomic_latency_test on their way through the barrier.
Copying ==
  /\ test = "local_atomic"
  /\ current[0] = 1 /\ current[1] = 2
  /\ pc[1] = "barrier" /\ pc[0] \in {"copy", "barrier"}
  /\ pc[0] = "barrier" => word = 0

Running ==
  /\ \A i \in Items : pc[i] \in {"run", "done"}
  /\ Turns
  /\ \A i \in Workers : pc[i] = "done" => current[i] > Limit

Exchanged == Quiet /\ Turns /\ \A i \in Workers : current[i] > Limit

\* The rounds of two workers that run at the same time ...
Rounds ==
  /\ host \in {"setup", "check"} => Quiet
  /\ host \in {"free", "returned"} =>
       Quiet \/ (test = "svm_atomics" /\ "svm_atomics" \in FailingTests)
  /\ host = "submit" => Ready
  /\ host = "wait" => Copying \/ Running
  /\ host = "report" => Exchanged
  /\ host # "check"

\* ... and of the kernel that is launched for every increment.
Buffers ==
  /\ pc[1] = "none"
  /\ pc[0] \in {"none", "run", "done"}
  /\ host # "wait" => pc[0] # "run"
  /\ host \in {"submit", "wait", "check"} =>
       /\ \E k \in Int : current[1] = 2 * k
       /\ current[0] = current[1] - 1
       /\ current[1] <= Limit
  /\ host = "report" =>
       word = Limit /\ current[1] = Limit + 2 /\ current[0] = Limit + 1

IInv == Types /\ IF test = "svm_buffer" THEN Buffers ELSE Rounds

-----------------------------------------------------------------------------
\* The loops over t1_idx and t2_idx always have a next pair until the last.
LEMMA FirstOfPairs ==
  ASSUME NEW P, P \subseteq Nat \X Nat, P # {}
  PROVE  FirstOf(P) \in P
<1> DEFINE Firsts == {q[1] : q \in P}
<1>1. Firsts \subseteq Nat /\ Firsts # {}
  OBVIOUS
<1>2. PICK a \in Firsts : \A x \in Firsts : a <= x
  BY <1>1, Least
<1> DEFINE Seconds == {q[2] : q \in {r \in P : r[1] = a}}
<1>3. Seconds \subseteq Nat /\ Seconds # {}
  BY <1>2
<1>4. PICK b \in Seconds : \A x \in Seconds : b <= x
  BY <1>3, Least
<1>5. PICK q \in P : q[1] = a /\ q[2] = b
  BY <1>4
<1>6. ASSUME NEW r \in P
      PROVE  q[1] < r[1] \/ (q[1] = r[1] /\ q[2] <= r[2])
  <2>1. r[1] \in Firsts /\ a <= r[1]
    BY <1>2
  <2>2. r[1] = a => b <= r[2]
    BY <1>4
  <2>3. a \in Nat /\ r[1] \in Nat
    BY <1>1, <2>1
  <2>4. QED
    BY <1>5, <2>1, <2>2, <2>3, SMT
<1>7. QED
  BY <1>5, <1>6 DEF FirstOf

LEMMA ItemsAre ==
  ASSUME Bounds
  PROVE  /\ 0 \in Items /\ 1 \in Items /\ Items \subseteq Nat
         /\ test # "c2c_atomic" => Items = {0, 1}
         /\ test \in {"svm_atomics", "svm_buffer"} => KernelItems = {0}
         /\ test \notin {"svm_atomics", "svm_buffer"} => KernelItems = Items
<1>1. CASE test = "c2c_atomic"
  BY <1>1, SMT DEF Bounds, Items, KernelItems
<1>2. CASE test # "c2c_atomic"
  BY <1>2, SMT DEF Bounds, Items, KernelItems
<1>3. QED
  BY <1>1, <1>2

LEMMA PairsAfterAre ==
  ASSUME Bounds, NEW p, PairsAfter(p) # {}
  PROVE  /\ FirstOf(PairsAfter(p)) \in Items \X Items
         /\ FirstOf(PairsAfter(p))[1] # FirstOf(PairsAfter(p))[2]
<1>1. PairsAfter(p) \subseteq Nat \X Nat
  BY ItemsAre DEF PairsAfter
<1>2. FirstOf(PairsAfter(p)) \in PairsAfter(p)
  BY <1>1, FirstOfPairs
<1>3. QED
  BY <1>2 DEF PairsAfter

-----------------------------------------------------------------------------
LEMMA Initially ==
  ASSUME Bounds, Init PROVE IInv
<1>1. Types
  BY ItemsAre, SMT DEF Init, Types, Unset
<1>2. test # "svm_buffer" => Rounds
  BY DEF Init, Rounds, Quiet
<1>3. test = "svm_buffer" => Buffers
  BY ItemsAre DEF Init, Buffers
<1>4. QED
  BY <1>1, <1>2, <1>3 DEF IInv

LEMMA SetUpKeeps ==
  ASSUME Bounds, IInv, SetUp PROVE IInv'
<1>1. Types /\ Items' = Items /\ test' = test /\ KernelItems' = KernelItems
  BY DEF IInv, SetUp, Items, KernelItems
<1>2. Types'
  <2>1. word' \in Int
    BY <1>1 DEF Types, SetUp, Cleared
  <2>2. current' \in [Items -> Int] /\ pc' \in [Items -> {"none", "copy", "barrier", "run", "done"}]
    BY DEF SetUp
  <2>3. QED
    BY <1>1, <2>1, <2>2 DEF Types, SetUp
<1>3. /\ current'[pair[1]] = 1 /\ current'[pair[2]] = 2 /\ pair' = pair
      /\ pair[1] \in Items /\ pair[2] \in Items
  BY <1>1 DEF Types, SetUp
<1>4. CASE test # "svm_buffer"
  <2>1. word' = 0
    BY <1>1, <1>4 DEF Types, SetUp, Cleared
  <2>2. Ready'
    BY <1>1, <1>3, <2>1 DEF Ready, SetUp
  <2>3. Rounds'
    BY <2>2 DEF Rounds, SetUp
  <2>4. QED
    BY <1>1, <1>2, <1>4, <2>3 DEF IInv
<1>5. CASE test = "svm_buffer"
  <2>1. pair = <<0, 1>>
    BY <1>1, <1>5 DEF Types
  <2>2. current'[0] = 1 /\ current'[1] = 2
    BY <1>3, <2>1
  <2>3. pc'[0] = "none" /\ pc'[1] = "none" /\ host' = "submit"
    BY <1>5, ItemsAre DEF SetUp
  <2>4. 2 <= Limit'
    BY <1>1, SMT DEF Types, Limit, SetUp
  <2>5. /\ \E k \in Int : current'[1] = 2 * k
        /\ current'[0] = current'[1] - 1 /\ current'[1] <= Limit'
    <3>1. 2 = 2 * 1 /\ 1 = 2 - 1 /\ 1 \in Int
      BY SMT
    <3>2. QED
      BY <2>2, <2>4, <3>1
  <2>6. host' # "wait" /\ host' # "report"
    BY <2>3
  <2>7. Buffers'
    BY <2>3, <2>5, <2>6 DEF Buffers
  <2>8. QED
    BY <1>1, <1>2, <1>5, <2>7 DEF IInv
<1>6. QED
  BY <1>4, <1>5

LEMMA SubmitKeeps ==
  ASSUME Bounds, IInv, Submit PROVE IInv'
<1>1. /\ Types /\ Items' = Items /\ test' = test /\ pair' = pair
      /\ current' = current /\ Limit' = Limit /\ host' = "wait"
      /\ 0 \in Items /\ 1 \in Items
      /\ \A i \in Items :
           pc'[i] = IF i \notin KernelItems THEN pc[i]
                    ELSE IF test # "local_atomic" THEN "run"
                    ELSE IF i = 0 THEN "copy" ELSE "barrier"
  BY ItemsAre DEF IInv, Submit, Items, Limit
<1>2. Types'
  <2>1. word' \in Int
    BY <1>1 DEF Types, Submit, Unset
  <2>2. pc' \in [Items -> {"none", "copy", "barrier", "run", "done"}]
    BY <1>1 DEF Types, Submit
  <2>3. buffer # "freed" /\ (buffer = "host" => test = "svm_buffer")
    BY <1>1 DEF Types, Submit
  <2>4. QED
    BY <1>1, <2>1, <2>2, <2>3 DEF Types, Submit
<1>3. CASE test = "svm_buffer"
  <2>1. pc'[0] = "run" /\ pc'[1] = pc[1]
    BY <1>1, <1>3, ItemsAre
  <2>2. Buffers'
    BY <1>1, <1>3, <2>1 DEF IInv, Buffers, Submit
  <2>3. QED
    BY <1>1, <1>2, <1>3, <2>2 DEF IInv
<1>4. CASE test = "local_atomic"
  <2>1. Ready /\ pair = <<0, 1>>
    BY <1>1, <1>4 DEF IInv, Types, Rounds, Submit
  <2>2. pc'[0] = "copy" /\ pc'[1] = "barrier"
    BY <1>1, <1>4, ItemsAre
  <2>3. Copying'
    BY <1>1, <1>4, <2>1, <2>2 DEF Copying, Ready
  <2>4. QED
    BY <1>1, <1>2, <1>4, <2>3 DEF IInv, Rounds
<1>5. CASE test \notin {"svm_buffer", "local_atomic"}
  <2>1. Ready /\ word' = word
    BY <1>5 DEF IInv, Rounds, Submit
  <2>2. \A i \in Items : pc'[i] = "run"
    BY <1>1, <1>5, <2>1, ItemsAre DEF Ready
  <2>3. Turns'
    BY <1>1, <2>1, SMT DEF Ready, Turns, Limit, Types
  <2>4. Workers \subseteq Items /\ Workers' = Workers
    BY <1>1 DEF Types, Workers
  <2>5. Running'
    BY <1>1, <2>2, <2>3, <2>4 DEF Running
  <2>6. QED
    BY <1>1, <1>2, <1>5, <2>5 DEF IInv, Rounds
<1>6. QED
  BY <1>3, <1>4, <1>5

LEMMA SubmitFailsKeeps ==
  ASSUME Bounds, IInv, SubmitFails PROVE IInv'
<1>1. /\ Types /\ Items' = Items /\ test' = test
      /\ UNCHANGED <<pair, word, current, pc>> /\ test \in FailingTests
      /\ host = "submit" /\ host' \in {"setup", "free"}
  BY DEF IInv, SubmitFails, Items
<1>2. Types'
  <2>1. iterations' \in Nat \ {0}
    BY <1>1, SMT DEF Types, SubmitFails
  <2>2. buffer # "freed" /\ (buffer = "host" => test = "svm_buffer")
    BY <1>1 DEF Types
  <2>3. QED
    BY <1>1, <2>1, <2>2 DEF Types, SubmitFails
<1>3. CASE test = "svm_buffer"
  <2>1. Buffers'
    BY <1>1, <1>3 DEF IInv, Buffers
  <2>2. QED
    BY <1>1, <1>2, <1>3, <2>1 DEF IInv
<1>4. CASE test # "svm_buffer"
  <2>1. Ready
    BY <1>1, <1>4 DEF IInv, Rounds
  <2>2. test = "svm_atomics" => host' = "free"
    BY DEF SubmitFails
  <2>3. test # "svm_atomics" => Quiet'
    BY <1>1, <2>1 DEF Ready, Quiet
  <2>4. Rounds'
    BY <1>1, <2>2, <2>3 DEF Rounds
  <2>5. QED
    BY <1>1, <1>2, <1>4, <2>4 DEF IInv
<1>5. QED
  BY <1>3, <1>4

-----------------------------------------------------------------------------
LEMMA CopyInKeeps ==
  ASSUME Bounds, IInv, NEW i \in Items, CopyIn(i) PROVE IInv'
<1>1. /\ Types /\ Items' = Items /\ 0 \in Items /\ 1 \in Items
      /\ UNCHANGED <<test, host, pair, current, iterations, buffer>>
  BY ItemsAre DEF IInv, CopyIn, Items
<1>2. Types'
  BY <1>1 DEF Types, CopyIn
<1>3. test # "svm_buffer"
  BY <1>1, ItemsAre DEF IInv, Buffers, CopyIn
<1>4. Rounds
  BY <1>3 DEF IInv
<1>5. CASE host = "wait" /\ Copying
  <2>1. i = 0
    BY <1>5, ItemsAre DEF Copying, CopyIn
  <2>2. pc'[0] = "barrier" /\ pc'[1] = pc[1] /\ word' = 0
    BY <1>1, <2>1 DEF Types, CopyIn
  <2>3. Copying'
    BY <1>1, <1>5, <2>2 DEF Copying
  <2>4. QED
    BY <1>1, <1>2, <1>3, <1>5, <2>3 DEF IInv, Rounds
<1>6. CASE ~ (host = "wait" /\ Copying) /\ ~ (host \in {"free", "returned"} /\ ~ Quiet)
  BY <1>4, <1>6 DEF Rounds, Ready, Running, Exchanged, Quiet, CopyIn, Types, IInv
<1>7. CASE host \in {"free", "returned"} /\ ~ Quiet
  BY <1>1, <1>2, <1>3, <1>4, <1>7 DEF IInv, Rounds
<1>8. QED
  BY <1>5, <1>6, <1>7

LEMMA BarrierKeeps ==
  ASSUME Bounds, IInv, Barrier PROVE IInv'
<1>1. /\ Types /\ Items' = Items /\ Workers' = Workers /\ Limit' = Limit
      /\ 0 \in Items /\ 1 \in Items /\ pc[1] = "barrier" /\ pc[0] = "barrier"
      /\ UNCHANGED <<test, host, pair, word, current, iterations, buffer>>
      /\ \A i \in Items : pc'[i] = "run"
  BY ItemsAre DEF IInv, Barrier, AllAtBarrier, Items, Workers, Limit
<1>2. Types'
  BY <1>1 DEF Types, Barrier
<1>3. test # "svm_buffer"
  BY <1>1 DEF IInv, Buffers
<1>4. Rounds
  BY <1>3 DEF IInv
<1>5. CASE host \in {"free", "returned"} /\ ~ Quiet
  BY <1>1, <1>2, <1>3, <1>4, <1>5 DEF IInv, Rounds
<1>6. CASE ~ (host \in {"free", "returned"} /\ ~ Quiet)
  <2>1. host = "wait" /\ Copying
    BY <1>1, <1>4, <1>6 DEF Rounds, Ready, Running, Exchanged, Quiet, Types
  <2>2. pair = <<0, 1>> /\ word = 0 /\ current[0] = 1 /\ current[1] = 2
    BY <1>1, <2>1 DEF Copying, Types
  <2>3. Turns'
    BY <1>1, <2>2, SMT DEF Turns, Limit, Types
  <2>4. Workers \subseteq Items
    BY <1>1 DEF Types, Workers
  <2>5. Running'
    BY <1>1, <2>3, <2>4 DEF Running
  <2>6. QED
    BY <1>1, <1>2, <1>3, <2>1, <2>5 DEF IInv, Rounds
<1>7. QED
  BY <1>5, <1>6

\* A compare-and-swap passes the turn to the other worker.
LEMMA SwapKeeps ==
  ASSUME Bounds, IInv, NEW i \in Items, Swap(i) PROVE IInv'
<1>1. /\ Types /\ Items' = Items /\ Workers' = Workers /\ Limit' = Limit
      /\ UNCHANGED <<test, host, pair, pc, iterations, buffer>>
      /\ pc[i] = "run" /\ i \in Workers /\ test # "svm_buffer"
      /\ word = current[i] - 1 /\ word' = current[i] /\ current[i] <= Limit
      /\ current' = [current EXCEPT ![i] = current[i] + 2]
  BY DEF IInv, Swap, Items, Workers, Limit
<1>2. Types'
  BY <1>1 DEF Types
<1>3. Rounds
  BY <1>1 DEF IInv
<1>4. CASE host \in {"free", "returned"} /\ ~ Quiet
  BY <1>1, <1>2, <1>3, <1>4 DEF IInv, Rounds, Quiet
<1>5. CASE ~ (host \in {"free", "returned"} /\ ~ Quiet)
  <2>1. host # "submit"
    <3>1. SUFFICES ASSUME Ready PROVE FALSE
      BY <1>3 DEF Rounds
    <3>2. test = "svm_atomics" /\ i = 1
      BY <1>1, <3>1 DEF Ready
    <3>3. current[1] = 2
      BY <1>1, <3>1, <3>2 DEF Ready, Types
    <3>4. QED
      BY <1>1, <3>1, <3>2, <3>3, SMT DEF Ready
  <2>2. host = "wait" /\ (Copying \/ Running)
    BY <1>1, <1>3, <1>5, <2>1 DEF Rounds, Exchanged, Quiet, Types
  <2>3. ~ Copying
    BY <1>1, ItemsAre DEF Copying
  <2>4. Turns /\ Running
    BY <2>2, <2>3 DEF Running
  <2>5. PICK j \in Workers : Workers = {i, j} /\ j # i /\ j \in Items
    BY <1>1 DEF Workers, Types
  <2>6. current[j] = word + 2 /\ current[i] = word + 1
    BY <1>1, <2>4, <2>5, SMT DEF Turns, Workers, Types
  <2>7. current'[i] = word' + 2 /\ current'[j] = word' + 1 /\ word' <= Limit
    BY <1>1, <2>5, <2>6, SMT DEF Types
  <2>8. Turns'
    BY <1>1, <2>5, <2>7 DEF Turns, Workers, Types
  <2>9. \A k \in Workers : pc'[k] = "done" => current'[k] > Limit
    BY <1>1, <2>4, <2>5 DEF Running, Types
  <2>10. Running'
    BY <1>1, <2>4, <2>8, <2>9 DEF Running
  <2>11. QED
    BY <1>1, <1>2, <2>2, <2>10 DEF IInv, Rounds
<1>6. QED
  BY <1>4, <1>5

LEMMA IncrementKeeps ==
  ASSUME Bounds, IInv, Increment PROVE IInv'
<1>1. /\ Types /\ Buffers /\ Items' = Items /\ 0 \in Items /\ 1 \in Items
      /\ UNCHANGED <<test, host, pair, current, iterations, buffer>>
      /\ pc' = [pc EXCEPT ![0] = "done"] /\ word' = word + 1
      /\ test = "svm_buffer" /\ pc[0] = "run"
  BY ItemsAre DEF IInv, Increment, Items
<1>2. Types'
  BY <1>1 DEF Types
<1>3. pc'[0] = "done" /\ pc'[1] = pc[1] /\ host = "wait"
  BY <1>1 DEF Types, Buffers
<1>4. Buffers'
  BY <1>1, <1>3 DEF Buffers, Limit
<1>5. QED
  BY <1>1, <1>2, <1>4 DEF IInv

LEMMA ExitKeeps ==
  ASSUME Bounds, IInv, NEW i \in Items, Exit(i) PROVE IInv'
<1>1. /\ Types /\ Items' = Items /\ Workers' = Workers /\ Limit' = Limit
      /\ UNCHANGED <<test, host, pair, word, current, iterations, buffer>>
      /\ pc[i] = "run" /\ test # "svm_buffer"
      /\ i \in Workers => current[i] > Limit
      /\ pc' = [pc EXCEPT ![i] = "done"]
  BY DEF IInv, Exit, Items, Workers, Limit
<1>2. Types'
  BY <1>1 DEF Types
<1>3. Rounds
  BY <1>1 DEF IInv
<1>4. CASE host \in {"free", "returned"} /\ ~ Quiet
  BY <1>1, <1>2, <1>3, <1>4 DEF IInv, Rounds
<1>5. CASE ~ (host \in {"free", "returned"} /\ ~ Quiet)
  <2>1. host # "submit"
    <3>1. SUFFICES ASSUME Ready PROVE FALSE
      BY <1>3 DEF Rounds
    <3>2. test = "svm_atomics" /\ i = 1
      BY <1>1, <3>1 DEF Ready
    <3>3. current[1] = 2 /\ 1 \in Workers
      BY <1>1, <3>1, <3>2 DEF Ready, Types, Workers
    <3>4. QED
      BY <1>1, <3>2, <3>3, SMT DEF Limit, Types
  <2>2. host = "wait" /\ (Copying \/ Running)
    BY <1>1, <1>3, <1>5, <2>1 DEF Rounds, Exchanged, Quiet, Types
  <2>3. Running
    BY <1>1, <2>2, ItemsAre DEF Copying
  <2>4. Turns'
    BY <1>1, <2>3 DEF Running, Turns
  <2>5. /\ \A k \in Items : pc'[k] \in {"run", "done"}
        /\ \A k \in Workers : pc'[k] = "done" => current[k] > Limit
    BY <1>1, <2>3 DEF Running, Types, Workers
  <2>6. Running'
    BY <1>1, <2>4, <2>5 DEF Running
  <2>7. QED
    BY <1>1, <1>2, <2>2, <2>6 DEF IInv, Rounds
<1>6. QED
  BY <1>4, <1>5

-----------------------------------------------------------------------------
LEMMA WaitKeeps ==
  ASSUME Bounds, IInv, Wait PROVE IInv'
<1>1. /\ Types /\ Items' = Items /\ Workers' = Workers /\ Limit' = Limit
      /\ host = "wait" /\ Joined
      /\ UNCHANGED <<test, pair, word, current, pc, iterations>>
  BY DEF IInv, Wait, Items, Workers, Limit
<1>2. Types'
  BY <1>1 DEF Types, Wait
<1>3. CASE test = "svm_buffer"
  <2>1. pc[0] # "run" /\ host' = "check"
    BY <1>1, <1>3, ItemsAre DEF Joined, Wait
  <2>2. Buffers'
    BY <1>1, <1>3, <2>1 DEF IInv, Buffers
  <2>3. QED
    BY <1>1, <1>2, <1>3, <2>2 DEF IInv
<1>4. CASE test # "svm_buffer"
  <2>1. host' = "report" /\ (Copying \/ Running)
    BY <1>1, <1>4 DEF IInv, Rounds, Wait
  <2>2. Running
    BY <1>1, <2>1, ItemsAre DEF Copying, Joined
  <2>3. \A i \in Items : pc[i] = "done"
    BY <1>1, <2>2 DEF Running, Joined
  <2>4. Workers \subseteq Items
    BY <1>1 DEF Types, Workers
  <2>5. Exchanged
    BY <2>2, <2>3, <2>4 DEF Exchanged, Running, Quiet
  <2>6. Exchanged'
    BY <1>1, <2>5 DEF Exchanged, Quiet, Turns
  <2>7. QED
    BY <1>1, <1>2, <1>4, <2>1, <2>6 DEF IInv, Rounds
<1>5. QED
  BY <1>3, <1>4

\* The host's own turn of runBufferSharingTest: its values are even, so the
\* last one is the limit itself.
LEMMA HostStepKeeps ==
  ASSUME Bounds, IInv, HostStep PROVE IInv'
<1>1. /\ Types /\ Items' = Items /\ Limit' = Limit /\ host = "check"
      /\ UNCHANGED <<test, pair, pc, iterations, buffer>>
      /\ word' = current[1]
      /\ current' = [current EXCEPT ![1] = current[1] + 2, ![0] = current[0] + 2]
      /\ host' = IF current[1] >= Limit THEN "report" ELSE "submit"
      /\ 0 \in Items /\ 1 \in Items
  BY ItemsAre DEF IInv, HostStep, Items, Limit
<1>2. Types'
  BY <1>1 DEF Types
<1>3. test = "svm_buffer" /\ Buffers
  BY <1>1 DEF IInv, Rounds
<1>4. PICK k \in Int : current[1] = 2 * k
  BY <1>1, <1>3 DEF Buffers
<1>5. /\ current'[1] = current[1] + 2 /\ current'[0] = current[0] + 2
      /\ current[0] \in Int /\ current[1] \in Int /\ iterations \in Nat
      /\ current[0] = current[1] - 1 /\ current[1] <= Limit
  BY <1>1, <1>3, SMT DEF Types, Buffers
<1>6. /\ current'[0] = current'[1] - 1
      /\ k + 1 \in Int /\ current'[1] = 2 * (k + 1)
      /\ current[1] >= Limit =>
           word' = Limit /\ current'[1] = Limit + 2 /\ current'[0] = Limit + 1
      /\ ~ (current[1] >= Limit) => current'[1] <= Limit
  BY <1>1, <1>4, <1>5, SMT DEF Limit
<1>7. pc'[0] = pc[0] /\ pc'[1] = pc[1] /\ pc[0] # "run"
  BY <1>1, <1>3 DEF Buffers
<1>8. Buffers'
  BY <1>1, <1>3, <1>6, <1>7 DEF Buffers
<1>9. QED
  BY <1>1, <1>2, <1>3, <1>8 DEF IInv

LEMMA MismatchKeeps ==
  ASSUME Bounds, IInv, Mismatch PROVE IInv'
<1>1. /\ Types /\ Items' = Items /\ host = "check" /\ host' = "free"
      /\ UNCHANGED <<test, iterations, pair, word, current, pc, buffer>>
  BY DEF IInv, Mismatch, Items, state
<1>2. Types'
  BY <1>1 DEF Types
<1>3. test = "svm_buffer" /\ Buffers
  BY <1>1 DEF IInv, Rounds
<1>4. Buffers'
  BY <1>1, <1>3 DEF Buffers
<1>5. QED
  BY <1>1, <1>2, <1>3, <1>4 DEF IInv

LEMMA ReportKeeps ==
  ASSUME Bounds, IInv, Report PROVE IInv'
<1>1. /\ Types /\ Items' = Items /\ host = "report" /\ host' \in {"setup", "free"}
      /\ UNCHANGED <<test, word, current, pc, buffer>>
      /\ test # "c2c_atomic" => pair' = pair
  BY DEF IInv, Report, Items
<1>2. pair' \in Items \X Items /\ pair'[1] # pair'[2]
  BY <1>1, PairsAfterAre DEF Report, Types
<1>3. iterations' \in Nat \ {0}
  <2>1. Limit \in Nat \ {0}
    BY <1>1, SMT DEF Types, Limit
  <2>2. \A n \in Limit .. MaxIterations : n \in Nat \ {0}
    BY <2>1, SMT DEF Bounds
  <2>3. QED
    BY <1>1, <2>2 DEF Types, Report
<1>4. Types'
  BY <1>1, <1>2, <1>3 DEF Types
<1>5. CASE test = "svm_buffer"
  <2>1. Buffers'
    BY <1>1, <1>5 DEF IInv, Buffers
  <2>2. QED
    BY <1>1, <1>4, <1>5, <2>1 DEF IInv
<1>6. CASE test # "svm_buffer"
  <2>1. Quiet'
    BY <1>1, <1>6 DEF IInv, Rounds, Exchanged, Quiet
  <2>2. Rounds'
    BY <1>1, <2>1 DEF Rounds
  <2>3. QED
    BY <1>1, <1>4, <1>6, <2>2 DEF IInv
<1>7. QED
  BY <1>5, <1>6

LEMMA FreeKeeps ==
  ASSUME Bounds, IInv, Free PROVE IInv'
<1>1. /\ Types /\ Items' = Items /\ host = "free" /\ host' = "returned"
      /\ buffer' = "freed"
      /\ UNCHANGED <<test, iterations, pair, word, current, pc>>
  BY DEF IInv, Free, Items
<1>2. Types'
  BY <1>1 DEF Types
<1>3. test = "svm_buffer" => Buffers'
  BY <1>1 DEF IInv, Buffers
<1>4. test # "svm_buffer" => Rounds'
  BY <1>1 DEF IInv, Rounds, Quiet
<1>5. QED
  BY <1>1, <1>2, <1>3, <1>4 DEF IInv

LEMMA StutterKeeps ==
  ASSUME IInv, UNCHANGED vars PROVE IInv'
<1>1. UNCHANGED <<test, host, iterations, pair, word, current, pc, buffer>>
  BY DEF vars, state
<1>2. Types' /\ (Buffers => Buffers')
  BY <1>1 DEF IInv, Types, Buffers, Items, Limit
<1>3. Rounds => Rounds'
  BY <1>1 DEF Rounds, Quiet, Ready, Copying, Running, Exchanged, Turns, Items,
              Workers, Limit
<1>4. QED
  BY <1>1, <1>2, <1>3 DEF IInv

LEMMA Preserved ==
  ASSUME Bounds, IInv, [Next]_vars PROVE IInv'
<1>1. CASE HostNext
  BY <1>1, SetUpKeeps, SubmitKeeps, SubmitFailsKeeps, WaitKeeps, HostStepKeeps,
     MismatchKeeps, ReportKeeps, FreeKeeps DEF HostNext
<1>2. CASE \E i \in Items : ItemNext(i)
  BY <1>2, CopyInKeeps, SwapKeeps, ExitKeeps, BarrierKeeps, IncrementKeeps DEF ItemNext
<1>3. CASE Returned \/ UNCHANGED vars
  BY <1>3, StutterKeeps DEF Returned
<1>4. QED
  BY <1>1, <1>2, <1>3 DEF Next

-----------------------------------------------------------------------------
(* The ranges of the exchange's numbers.                                   *)

\* The word passes the limit only in a round of runBufferSharingTest that the
\* host does not continue: the kernel incremented what was never cleared.
Fits ==
  \/ word <= Limit
  \/ /\ test = "svm_buffer" /\ pc[0] = "done"
     /\ host \in {"wait", "check", "free", "returned"}

Ranges ==
  /\ test \in Tests /\ iterations \in 1 .. MaxIterations
  /\ word \in 0 .. Limit + 1 /\ current \in [Items -> 0 .. Limit + 2]
  /\ measured \subseteq Items \X Items /\ failures \in 0 .. MaxFailures

LEMMA Numbers ==
  ASSUME Ranges
  PROVE  /\ MaxIterations \in Nat /\ MaxIterations >= 2 /\ MaxFailures \in Nat
         /\ iterations \in Nat /\ 1 <= iterations /\ Limit = 2 * iterations
         /\ Limit \in Nat /\ 2 <= Limit /\ word \in Nat
         /\ \A i \in Items : current[i] \in Nat
<1>1. MaxIterations \in Nat /\ MaxIterations >= 2 /\ MaxFailures \in Nat
  <2>1. MaxIterations \in Nat \ {0, 1} /\ MaxFailures \in Nat
    BY DeviceTestsAssumption
  <2> QED  BY <2>1, SMT
<1>2. iterations \in Nat /\ 1 <= iterations /\ Limit = 2 * iterations
      /\ Limit \in Nat /\ 2 <= Limit /\ word \in Nat
  BY <1>1, SMT DEF Ranges, Limit
<1>3. \A n \in 0 .. Limit + 2 : n \in Nat
  BY <1>2, SMT
<1> QED  BY <1>1, <1>2, <1>3 DEF Ranges

LEMMA RangesInitially ==
  ASSUME Init PROVE Ranges /\ Fits
<1>1. iterations \in 1 .. MaxIterations /\ iterations \in Nat /\ 1 <= iterations
  <2>1. MaxIterations \in Nat \ {0, 1}
    BY DeviceTestsAssumption
  <2>2. iterations \in 1 .. 2
    BY DEF Init
  <2> QED  BY <2>1, <2>2, SMT
<1>2. word <= Limit /\ word \in 0 .. Limit + 1 /\ 0 \in 0 .. Limit + 2
  BY <1>1, SMT DEF Init, Unset, Limit
<1>3. 0 \in 0 .. MaxFailures
  BY DeviceTestsAssumption, SMT
<1> QED  BY <1>1, <1>2, <1>3 DEF Init, Ranges, Fits

\* The actions that leave the limit alone ...
LEMMA SameLimitKeeps ==
  ASSUME Ranges, Items' = Items,
         UNCHANGED <<test, iterations>>,
         word' \in 0 .. Limit + 1, current' \in [Items -> 0 .. Limit + 2],
         measured' \in {measured, measured \cup {pair}}, pair \in Items \X Items,
         failures' \in 0 .. MaxFailures
  PROVE  Ranges' /\ Limit' = Limit
<1>1. Limit' = Limit
  BY DEF Limit
<1> QED  BY <1>1 DEF Ranges

\* ... and those that raise it.
LEMMA MoreIterationsKeep ==
  ASSUME Ranges, Items' = Items, iterations' \in 1 .. MaxIterations,
         iterations <= iterations', UNCHANGED <<test, word, current>>,
         measured' \in {measured, measured \cup {pair}}, pair \in Items \X Items,
         failures' \in 0 .. MaxFailures
  PROVE  Ranges' /\ Limit <= Limit' /\ Limit \in Nat /\ Limit' \in Nat
<1>1. iterations \in Nat /\ iterations' \in Nat
  <2>1. MaxIterations \in Nat /\ iterations \in Nat
    BY Numbers
  <2> QED  BY <2>1, SMT
<1>2. Limit = 2 * iterations /\ Limit' = 2 * iterations'
  BY DEF Limit
<1>3. Limit \in Nat /\ Limit' \in Nat /\ Limit <= Limit'
  <2>1. ASSUME NEW m \in Nat, NEW n \in Nat, m <= n
        PROVE  2 * m \in Nat /\ 2 * n \in Nat /\ 2 * m <= 2 * n
    BY <2>1, SMT
  <2> QED  BY <1>1, <1>2, <2>1
<1>4. ASSUME NEW m \in Nat, NEW n \in Nat, m <= n
      PROVE  0 .. m + 1 \subseteq 0 .. n + 1 /\ 0 .. m + 2 \subseteq 0 .. n + 2
  BY <1>4, SMT
<1>5. 0 .. Limit + 1 \subseteq 0 .. Limit' + 1 /\ 0 .. Limit + 2 \subseteq 0 .. Limit' + 2
  BY <1>3, <1>4
<1> QED  BY <1>3, <1>5 DEF Ranges

LEMMA RangesKept ==
  ASSUME Bounds, IInv, Ranges, Fits, [Next]_vars PROVE Ranges' /\ Fits'
<1>1. /\ Types /\ 0 \in Items /\ 1 \in Items /\ pair \in Items \X Items
      /\ word \in 0 .. Limit + 1 /\ current \in [Items -> 0 .. Limit + 2]
      /\ failures \in 0 .. MaxFailures
  BY ItemsAre DEF IInv, Types, Ranges
<1>2. /\ MaxIterations \in Nat /\ MaxFailures \in Nat
      /\ iterations \in Nat /\ 1 <= iterations /\ Limit = 2 * iterations
      /\ Limit \in Nat /\ 2 <= Limit /\ word \in Nat
      /\ \A i \in Items : current[i] \in Nat
  BY Numbers
<1>3. 0 \in 0 .. Limit + 2 /\ 1 \in 0 .. Limit + 2 /\ 2 \in 0 .. Limit + 2
      /\ 0 \in 0 .. Limit + 1 /\ 0 <= Limit
      /\ \A n \in Unset : n \in 0 .. Limit + 1 /\ n <= Limit
  BY <1>2, SMT DEF Unset
<1>4. test' = test => Items' = Items
  BY DEF Items
<1>5. CASE SetUp
  <2>1. host = "setup" /\ UNCHANGED <<test, iterations, pair, measured, failures>>
        /\ word' \in {0, word}
    BY <1>5 DEF SetUp, Cleared
  <2>2. current' \in [Items -> 0 .. Limit + 2]
    BY <1>3, <1>5 DEF SetUp
  <2>3. word <= Limit
    BY <2>1 DEF Fits
  <2> QED  BY <1>1, <1>3, <1>4, <2>1, <2>2, <2>3, SameLimitKeeps DEF Fits
<1>6. CASE Submit
  <2>1. host = "submit" /\ UNCHANGED <<test, iterations, current, measured, failures>>
        /\ word' \in Unset \cup {word}
    BY <1>6 DEF Submit
  <2>2. word <= Limit
    BY <2>1 DEF Fits
  <2> QED  BY <1>1, <1>3, <1>4, <2>1, <2>2, SameLimitKeeps DEF Fits
<1>7. CASE SubmitFails
  <2>1. host = "submit" /\ UNCHANGED <<test, word, current, measured>>
        /\ failures < MaxFailures /\ failures' = failures + 1
        /\ (iterations' = iterations \/ (iterations' = 2 * iterations
                                         /\ 2 * iterations <= MaxIterations))
    BY <1>7 DEF SubmitFails
  <2>2. iterations' \in 1 .. MaxIterations /\ iterations <= iterations'
        /\ failures' \in 0 .. MaxFailures
    BY <1>1, <1>2, <2>1, SMT DEF Ranges
  <2>3. Ranges' /\ Limit <= Limit' /\ Limit \in Nat /\ Limit' \in Nat
    BY <1>1, <1>4, <2>1, <2>2, MoreIterationsKeep
  <2>4. word <= Limit
    BY <2>1 DEF Fits
  <2>5. word' <= Limit'
    BY <1>2, <2>1, <2>3, <2>4, SMT
  <2> QED  BY <2>3, <2>5 DEF Fits
<1>8. CASE Report
  <2>1. host = "report" /\ UNCHANGED <<test, word, current, failures>>
        /\ measured' = measured \cup {pair}
        /\ (iterations' = iterations \/ iterations' \in Limit .. MaxIterations)
    BY <1>8 DEF Report
  <2>2. iterations' \in 1 .. MaxIterations /\ iterations <= iterations'
    BY <1>2, <2>1, SMT DEF Ranges
  <2>3. Ranges' /\ Limit <= Limit' /\ Limit \in Nat /\ Limit' \in Nat
    BY <1>1, <1>4, <2>1, <2>2, MoreIterationsKeep
  <2>4. word <= Limit
    BY <2>1 DEF Fits
  <2>5. word' <= Limit'
    BY <1>2, <2>1, <2>3, <2>4, SMT
  <2> QED  BY <2>3, <2>5 DEF Fits
<1>9. CASE \E i \in Items : CopyIn(i)
  <2>1. UNCHANGED <<test, iterations, current, measured, failures>> /\ word' = 0
    BY <1>9 DEF CopyIn
  <2> QED  BY <1>1, <1>3, <1>4, <2>1, SameLimitKeeps DEF Fits
<1>10. CASE \E i \in Items : Swap(i)
  <2>1. PICK i \in Items : Swap(i)
    BY <1>10
  <2>2. UNCHANGED <<test, iterations, measured, failures>> /\ word' = current[i]
        /\ current[i] <= Limit /\ current' = [current EXCEPT ![i] = current[i] + 2]
    BY <2>1 DEF Swap
  <2>3. current[i] \in 0 .. Limit + 1 /\ current[i] + 2 \in 0 .. Limit + 2
    BY <1>2, <2>2, SMT
  <2>4. current' \in [Items -> 0 .. Limit + 2]
    BY <1>1, <2>2, <2>3
  <2> QED  BY <1>1, <1>4, <2>2, <2>3, <2>4, SameLimitKeeps DEF Fits
<1>11. CASE Increment
  <2>1. UNCHANGED <<test, host, iterations, current, measured, failures>>
        /\ word' = word + 1 /\ test = "svm_buffer" /\ pc[0] = "run"
        /\ pc' = [pc EXCEPT ![0] = "done"]
    BY <1>11 DEF Increment
  <2>2. host = "wait"
    BY <2>1 DEF IInv, Buffers
  <2>3. word <= Limit
    BY <2>1 DEF Fits
  <2>4. word' \in 0 .. Limit + 1
    BY <1>2, <2>1, <2>3, SMT
  <2>5. pc'[0] = "done"
    BY <1>1, <2>1 DEF Types
  <2> QED  BY <1>1, <1>4, <2>1, <2>2, <2>4, <2>5, SameLimitKeeps DEF Fits
<1>12. CASE HostStep
  <2>1. UNCHANGED <<test, iterations, measured, failures>> /\ host = "check"
        /\ word' = current[1]
        /\ current' = [current EXCEPT ![1] = current[1] + 2, ![0] = current[0] + 2]
    BY <1>12 DEF HostStep
  <2>2. current[0] = current[1] - 1 /\ current[1] <= Limit
    BY <2>1 DEF IInv, Rounds, Buffers
  <2>3. /\ current[1] \in 0 .. Limit + 1
        /\ current[1] + 2 \in 0 .. Limit + 2 /\ current[0] + 2 \in 0 .. Limit + 2
    BY <1>1, <1>2, <2>2, SMT
  <2>4. current' \in [Items -> 0 .. Limit + 2]
    BY <1>1, <2>1, <2>3
  <2> QED  BY <1>1, <1>4, <2>1, <2>2, <2>3, <2>4, SameLimitKeeps DEF Fits
<1>13. CASE Barrier \/ (\E i \in Items : Exit(i))
  <2>1. UNCHANGED <<test, host, iterations, word, current, measured, failures>>
        /\ (test # "svm_buffer" \/ pc[0] = "barrier")
    BY <1>1, <1>13 DEF Barrier, AllAtBarrier, Exit
  <2>2. word <= Limit
    BY <2>1 DEF Fits
  <2> QED  BY <1>1, <1>4, <2>1, <2>2, SameLimitKeeps DEF Fits
<1>14. CASE Wait \/ Mismatch \/ Free
  <2>1. UNCHANGED <<test, iterations, word, current, pc, measured, failures>>
        /\ (test = "svm_buffer" => host' \in {"check", "free", "returned"})
    BY <1>14 DEF Wait, Mismatch, Free, state
  <2> QED  BY <1>1, <1>4, <2>1, SameLimitKeeps DEF Fits
<1>15. CASE Returned \/ UNCHANGED vars
  <2>1. UNCHANGED <<test, host, iterations, pair, word, current, pc, measured, failures>>
    BY <1>15 DEF Returned, vars, state
  <2> QED  BY <1>1, <1>4, <2>1, SameLimitKeeps DEF Fits
<1> QED
  BY <1>5, <1>6, <1>7, <1>8, <1>9, <1>10, <1>11, <1>12, <1>13, <1>14, <1>15
  DEF Next, HostNext, ItemNext

-----------------------------------------------------------------------------
(* The chases.                                                             *)

LEMMA SameChasePatterns ==
  ASSUME NEW n PROVE Chase!Patterns(n) = Ops!Patterns(n)
  BY DEF Chase!Patterns, Chase!Swap, Chase!RandChoices, Chase!Identity,
         Ops!Patterns, Ops!Swap, Ops!RandChoices, Ops!Identity

\* No item can end, and write its result over the start indexes, before
\* another has read its own from the element that is written.
StartsAreKept ==
  \A l \in Launches :
    /\ l.kernel = "unrolled_latency_test" => l.threads = 1
    /\ l.kernel = "scalar_unrolled_latency_test" => l.threads = l.local_size

\* The scalar kernel has one start for each work group.
WavesAreGroups ==
  \A l \in Launches :
    l.kernel = "scalar_unrolled_latency_test" => l.wave_size = l.local_size

Part == Chase!sub_list_size
WaveCount == launch.threads \div launch.wave_size
Textures == launch.kernel = "tex_latency_test"
Begun(t) == loads[t] # Chase!NotBegun

\* Line x of part w, the part an item chases in, and where it begins.
Line(w, x) == w * Part + x
PartFor(t) == IF Textures THEN Chase!WaveOf(t) ELSE 0
Entry(w) == IF Textures THEN Line(w, 0) ELSE A[0]

PartOf(w) == [x \in Span(Part) |-> A[Line(w, x)] - Line(w, 0)]

\* What the launch and the list amount to.
LEMMA LaunchIs ==
  ASSUME launch \in Launches, list_size \in ListSizes
  PROVE  /\ launch.threads \in Nat \ {0} /\ list_size \in Nat \ {0}
         /\ WaveCount \in Nat \ {0} /\ Part \in Nat
         /\ WaveCount * Part <= list_size
         /\ Chase!Threads = Span(launch.threads)
         /\ Chase!Indexes = Span(list_size) /\ 0 \in Span(list_size)
         /\ Chase!Waves = Span(WaveCount) /\ Cardinality(Chase!Waves) = WaveCount
         /\ Chase!Cardinality(Chase!Waves) = WaveCount
         /\ \A t \in Chase!Threads : Chase!WaveOf(t) \in Span(WaveCount)
         /\ launch.threads = 1 => WaveCount = 1 /\ Part = list_size
         /\ list_size >= WaveCount => Part >= 1
<1> DEFINE n == launch.threads
           b == launch.wave_size
           d == n \div b
           r == n % b
<1>1. n \in Nat \ {0} /\ b \in Nat \ {0} /\ b <= n /\ r = 0 /\ list_size \in Nat \ {0}
  <2>1. n \in 1 .. MaxItems /\ b \in 1 .. n /\ r = 0 /\ list_size \in Nat \ {0}
    BY DeviceTestsAssumption
  <2> HIDE DEF n, b, r
  <2> QED  BY <2>1, SMT
<1> HIDE DEF n, b
<1>2. d \in Nat /\ n = b * d + r
  BY <1>1, Division
<1> HIDE DEF r, d
<1>3. d # 0 /\ n = b * d
  <2>1. b * d \in Nat /\ b * 0 = 0
    BY <1>1, <1>2, SMT
  <2>2. n = b * d
    BY <1>1, <1>2, <2>1, SMT
  <2> QED  BY <1>1, <2>1, <2>2, SMT
<1>4. WaveCount = d /\ WaveCount \in Nat \ {0}
  BY <1>2, <1>3 DEF WaveCount, n, b, d
<1>5. Chase!Threads = Span(n) /\ Chase!Waves = Span(d) /\ Chase!Indexes = Span(list_size)
  BY DEF Chase!Threads, Chase!Waves, Chase!Indexes, Span, n, b, d
<1>6. Cardinality(Span(d)) = d
  BY <1>2, SpanFinite
<1>7. Chase!Cardinality(Span(d)) = d
  BY <1>6 DEF Chase!Cardinality, Cardinality
<1>8. Part = list_size \div d
  BY <1>5, <1>7 DEF Part, Chase!sub_list_size
<1>9. Part \in Nat /\ d * Part <= list_size /\ (list_size >= d => Part >= 1)
  <2> DEFINE q == list_size \div d
             s == list_size % d
  <2>1. q \in Nat /\ s \in 0 .. d - 1 /\ list_size = d * q + s
    BY <1>1, <1>2, <1>3, Division
  <2> HIDE DEF q, s
  <2>2. d * q \in Nat
    BY <1>2, <2>1, SMT
  <2>3. Part = q
    BY <1>8 DEF q
  <2>4. q = 0 => d * q = 0
    BY <1>2, SMT
  <2>5. list_size >= d => q >= 1
    BY <1>1, <1>2, <2>1, <2>2, <2>4, SMT
  <2> QED  BY <1>1, <1>2, <2>1, <2>2, <2>3, <2>5, SMT
<1>10. ASSUME NEW t \in Span(n) PROVE Chase!WaveOf(t) \in Span(d)
  <2> DEFINE q == t \div b
             s == t % b
  <2>1. t \in Nat /\ t < n
    BY <1>1, SMT DEF Span
  <2>2. q \in Nat /\ s \in 0 .. b - 1 /\ t = b * q + s
    BY <1>1, <2>1, Division
  <2>3. Chase!WaveOf(t) = q
    BY DEF Chase!WaveOf, b
  <2> HIDE DEF q, s
  <2>4. ~ d <= q
    <3>1. SUFFICES ASSUME d <= q PROVE FALSE
      OBVIOUS
    <3>2. q - d \in Nat
      BY <1>2, <2>2, <3>1, SMT
    <3>3. b * (q - d) \in Nat /\ b * (q - d) = b * q - b * d
      BY <1>1, <1>2, <2>2, <3>2, SMT
    <3>4. b * q \in Nat /\ b * d \in Nat
      BY <1>1, <1>2, <2>2, SMT
    <3> QED  BY <1>3, <2>1, <2>2, <3>3, <3>4, SMT
  <2> QED  BY <1>2, <2>2, <2>3, <2>4, SMT DEF Span
<1>11. n = 1 => d = 1 /\ Part = list_size
  <2>1. SUFFICES ASSUME n = 1 PROVE d = 1 /\ Part = list_size
    OBVIOUS
  <2>2. b = 1
    BY <1>1, <2>1, SMT
  <2>3. d = 1
    BY <1>2, <1>3, <2>1, <2>2, SMT
  <2>4. list_size \div 1 = list_size
    BY <1>1, SMT
  <2> QED  BY <1>8, <2>3, <2>4
<1>12. 0 \in Span(list_size)
  BY <1>1, SMT DEF Span
<1> QED
  BY <1>1, <1>4, <1>5, <1>6, <1>7, <1>9, <1>10, <1>11, <1>12 DEF n

\* The lines of the parts: they are in the list, and no line is in two parts.
LEMMA LinesAre ==
  ASSUME launch \in Launches, list_size \in ListSizes
  PROVE  /\ \A w \in Span(WaveCount) : Line(w, 0) \in Span(list_size)
         /\ \A w \in Nat : Line(w, 0) \in Nat /\ Line(w, 0) = Chase!waveId_start(w)
         /\ \A w \in Nat, x \in Int : Line(w, x) \in Int /\ Line(w, x) = Line(w, 0) + x
         /\ \A w \in Span(WaveCount), x \in Span(Part) : Line(w, x) \in Span(list_size)
         /\ \A w, v \in Nat, x, y \in Span(Part) :
              Line(w, x) = Line(v, y) => w = v /\ x = y
<1>1. /\ WaveCount \in Nat \ {0} /\ Part \in Nat /\ list_size \in Nat \ {0}
      /\ WaveCount * Part <= list_size
  BY LaunchIs
<1>2. ASSUME NEW w \in Nat
      PROVE  /\ w * Part \in Nat /\ Line(w, 0) = w * Part
             /\ Line(w, 0) = Chase!waveId_start(w)
  <2>1. Part * w = w * Part /\ w * Part \in Nat /\ w * Part + 0 = w * Part
    BY <1>1, SMT
  <2> QED  BY <2>1 DEF Line, Part, Chase!waveId_start
<1>3. ASSUME NEW w \in Span(WaveCount), NEW x \in Nat, x < Part \/ x = 0
      PROVE  Line(w, x) \in Span(list_size)
  <2>1. w \in Nat /\ w + 1 <= WaveCount
    BY <1>1, SMT DEF Span
  <2>2. w * Part \in Nat /\ (WaveCount - (w + 1)) * Part \in Nat
        /\ (WaveCount - (w + 1)) * Part = WaveCount * Part - w * Part - Part
    <3>1. WaveCount - (w + 1) \in Nat
      BY <1>1, <2>1, SMT
    <3> QED  BY <1>1, <2>1, <3>1, SMT
  <2>3. WaveCount * Part \in Nat
    BY <1>1, SMT
  <2>4. CASE Part = 0
    <3>1. x = 0 /\ w * Part = 0
      BY <1>1, <1>3, <2>1, <2>4, SMT
    <3> QED  BY <1>1, <3>1, SMT DEF Line, Span
  <2>5. CASE Part # 0
    BY <1>1, <1>3, <2>2, <2>3, <2>5, SMT DEF Line, Span
  <2> QED  BY <2>4, <2>5
<1>4. ASSUME NEW w \in Nat, NEW v \in Nat, NEW x \in Span(Part), NEW y \in Span(Part),
             Line(w, x) = Line(v, y)
      PROVE  w = v /\ x = y
  <2>1. Part \in Nat \ {0} /\ x \in 0 .. Part - 1 /\ y \in 0 .. Part - 1
    BY <1>1, SMT DEF Span
  <2>2. /\ Line(w, x) \div Part = w /\ Line(w, x) % Part = x
        /\ Line(v, y) \div Part = v /\ Line(v, y) % Part = y
    BY <2>1, Quotient DEF Line
  <2> QED  BY <1>4, <2>2
<1>5. ASSUME NEW w \in Nat, NEW x \in Int
      PROVE  Line(w, x) \in Int /\ Line(w, x) = Line(w, 0) + x
  BY <1>2, SMT DEF Line
<1>6. /\ \A x \in Span(Part) : x \in Nat /\ x < Part
      /\ \A w \in Span(WaveCount) : w \in Nat
  BY <1>1, SMT DEF Span
<1> QED  BY <1>2, <1>3, <1>4, <1>5, <1>6

-----------------------------------------------------------------------------
(* The inductive invariant.  Neither property says where an item that has  *)
(* loaded so much must be, which is what keeps a wave together, nor that   *)
(* what it has loaded leads only to where it is, which is why it loads     *)
(* nothing twice.                                                          *)

\* How far the host is, and what it has prepared: a pattern in each part.
Prepared ==
  /\ enqueuing \in {"enqueue", "wait"} => waveId = WaveCount
  /\ Textures \/ enqueuing \in {"fill", "enqueue", "wait"} => Part >= 1
  /\ enqueuing \in {"check", "fill", "enqueue"} => \A t \in Chase!Threads : ~ Begun(t)
  /\ \A t \in Chase!Threads : Begun(t) => waveId = WaveCount /\ Part >= 1
  /\ \A w \in Span(waveId) : Cyclic(PartOf(w), Part)

\* An item that has not begun finds its start index in its element still.
Told ==
  /\ DOMAIN ret = Chase!Threads
  /\ enqueuing \in {"enqueue", "wait"} /\ Textures =>
       \A t \in Chase!Threads : ~ Begun(t) => ret[t] = Line(Chase!WaveOf(t), 0)

\* Item t has loaded the lines S of its part and is at line x of it.
At(t, S, x) ==
  /\ seen[t] = {Line(PartFor(t), y) : y \in S}
  /\ chasing[t] = Line(PartFor(t), x)
  /\ Path(PartOf(PartFor(t)), S, x)
  /\ Chase!InChase(t) =>
       Cardinality(S) = IF loads[t] < Part THEN loads[t] ELSE Part

Loaded ==
  \A t \in Chase!Threads :
    IF Begun(t) THEN \E S \in SUBSET Span(Part), x \in Span(Part) : At(t, S, x)
                ELSE seen[t] = {} /\ chasing[t] = 0

\* The way from the start of wave w: item t of it has come loads[t] steps far.
Orbit(c, w) == WayFrom(c, Chase!Indexes, A, Entry(w), MaxLoads)

Follow(c, w) ==
  \A t \in Chase!Threads :
    Chase!WaveOf(t) = w /\ Chase!InChase(t) => chasing[t] = c[loads[t]]

Together == \A w \in Span(WaveCount) : \E c : Orbit(c, w) /\ Follow(c, w)

ChaseInv == Chase!TypeOK /\ Prepared /\ Told /\ Loaded /\ Together

-----------------------------------------------------------------------------
(* It is inductive.                                                        *)

\* The launch and the list are chosen once.
LEMMA SameLaunch ==
  ASSUME UNCHANGED <<launch, list_size>>
  PROVE  /\ Part' = Part /\ WaveCount' = WaveCount /\ Textures' = Textures
         /\ Chase!Threads' = Chase!Threads /\ Chase!Indexes' = Chase!Indexes
         /\ Chase!Waves' = Chase!Waves
         /\ Chase!Cardinality(Chase!Waves)' = Chase!Cardinality(Chase!Waves)
         /\ \A t : Chase!WaveOf(t)' = Chase!WaveOf(t) /\ PartFor(t)' = PartFor(t)
         /\ \A w, x : Line(w, x)' = Line(w, x)
<1>1. Chase!Threads' = Chase!Threads /\ Chase!Indexes' = Chase!Indexes
      /\ Chase!Waves' = Chase!Waves /\ WaveCount' = WaveCount /\ Textures' = Textures
  BY DEF Chase!Threads, Chase!Indexes, Chase!Waves, WaveCount, Textures
<1>2. Chase!Cardinality(Chase!Waves)' = Chase!Cardinality(Chase!Waves)
  BY <1>1
<1>3. Part' = Part
  BY <1>2 DEF Part, Chase!sub_list_size
<1>4. \A t : Chase!WaveOf(t)' = Chase!WaveOf(t) /\ PartFor(t)' = PartFor(t)
  BY <1>1 DEF Chase!WaveOf, PartFor
<1>5. \A w, x : Line(w, x)' = Line(w, x)
  BY <1>3 DEF Line
<1> QED  BY <1>1, <1>2, <1>3, <1>4, <1>5

LEMMA ChaseNumbers ==
  ASSUME ChaseInv
  PROVE  /\ launch \in Launches /\ list_size \in ListSizes
         /\ MaxLoads \in Nat /\ Part \in Nat /\ WaveCount \in Nat \ {0}
         /\ waveId \in 0 .. WaveCount
         /\ Chase!Indexes = Span(list_size) /\ Chase!Waves = Span(WaveCount)
         /\ \A t \in Chase!Threads :
              Chase!WaveOf(t) \in Span(WaveCount) /\ PartFor(t) \in Span(WaveCount)
<1>1. launch \in Launches /\ list_size \in ListSizes /\ MaxLoads \in Nat
      /\ waveId \in 0 .. Chase!Cardinality(Chase!Waves)
  BY DeviceTestsAssumption DEF ChaseInv, Chase!TypeOK
<1>2. 0 \in Span(WaveCount)
  BY <1>1, LaunchIs, SMT DEF Span
<1> QED  BY <1>1, <1>2, LaunchIs DEF PartFor

\* An index of a part and the line it stands for.
LEMMA InPart ==
  ASSUME ChaseInv, waveId = WaveCount,
         NEW w \in Span(WaveCount), NEW x \in Span(Part)
  PROVE  /\ Cyclic(PartOf(w), Part) /\ PartOf(w)[x] \in Span(Part)
         /\ A[Line(w, x)] = Line(w, PartOf(w)[x])
         /\ Line(w, x) \in Chase!Indexes
<1>1. Cyclic(PartOf(w), Part)
  BY DEF ChaseInv, Prepared
<1>2. PartOf(w)[x] \in Span(Part)
  BY <1>1 DEF Cyclic, Permutes
<1>3. PartOf(w)[x] = A[Line(w, x)] - Line(w, 0)
  BY DEF PartOf
<1>4. Part \in Nat /\ WaveCount \in Nat
  BY ChaseNumbers
<1>5. w \in Nat /\ PartOf(w)[x] \in Int
  BY <1>2, <1>4, SMT DEF Span
<1>6. Line(w, x) \in Chase!Indexes
  BY ChaseNumbers, LinesAre
<1>7. A[Line(w, x)] \in Int
  <2>1. A[Line(w, x)] \in Span(list_size)
    BY <1>6, ChaseNumbers DEF ChaseInv, Chase!TypeOK
  <2> QED  BY <2>1, SMT DEF Span
<1>8. Line(w, 0) \in Int /\ Line(w, PartOf(w)[x]) = Line(w, 0) + PartOf(w)[x]
  <2>1. launch \in Launches /\ list_size \in ListSizes
    BY ChaseNumbers
  <2>2. \A v \in Nat : Line(v, 0) \in Nat
    BY <2>1, LinesAre
  <2>3. \A v \in Nat, y \in Int : Line(v, y) = Line(v, 0) + y
    BY <2>1, LinesAre
  <2>4. Line(w, 0) \in Nat /\ Line(w, PartOf(w)[x]) = Line(w, 0) + PartOf(w)[x]
    BY <1>5, <2>2, <2>3
  <2> QED  BY <2>4, SMT
<1>9. A[Line(w, x)] = Line(w, 0) + PartOf(w)[x]
  BY <1>3, <1>5, <1>7, <1>8, SMT
<1> QED  BY <1>1, <1>2, <1>6, <1>8, <1>9

LEMMA ChaseInitially ==
  ASSUME Chase!Init PROVE ChaseInv
<1>1. launch \in Launches /\ list_size \in ListSizes
  BY DEF Chase!Init
<1>2. /\ enqueuing = "check" /\ waveId = 0 /\ A = [i \in Chase!Indexes |-> 0]
      /\ ret \in [Chase!Threads -> {0}]
      /\ chasing = [t \in Chase!Threads |-> 0]
      /\ loads = [t \in Chase!Threads |-> Chase!NotBegun]
      /\ seen = [t \in Chase!Threads |-> {}]
  BY DEF Chase!Init
<1>3. Chase!NotBegun = -1 /\ MaxLoads \in Nat /\ Chase!NotBegun \notin 0 .. MaxLoads
      /\ Chase!NotBegun \in Chase!NotBegun .. MaxLoads + 1
  BY DeviceTestsAssumption, SMT DEF Chase!NotBegun
<1>4. \A t \in Chase!Threads : ~ Begun(t) /\ ~ Chase!InChase(t)
  BY <1>2, <1>3 DEF Begun, Chase!InChase
<1>5. 0 \in Chase!Indexes /\ Chase!Indexes = Span(list_size)
  BY <1>1, LaunchIs
<1>6. WaveCount \in Nat /\ Chase!Cardinality(Chase!Waves) = WaveCount
  BY <1>1, LaunchIs
<1>7. Chase!TypeOK
  <2>1. 0 \in 0 .. Chase!Cardinality(Chase!Waves)
    BY <1>6, SMT
  <2> QED  BY <1>1, <1>2, <1>3, <1>5, <2>1 DEF Chase!TypeOK
<1>8. Prepared
  <2>1. Span(0) = {}
    BY SMT DEF Span
  <2>2. Textures => Part >= 1
    <3>1. Textures => list_size >= WaveCount
      BY <1>1, LaunchIs DEF Chase!Init, Chase!LineForEachWave, Textures
    <3> QED  BY <1>1, <3>1, LaunchIs
  <2> QED  BY <1>2, <1>4, <2>1, <2>2 DEF Prepared
<1>9. Told /\ Loaded
  BY <1>2, <1>4 DEF Told, Loaded
<1>10. Together
  <2>1. ASSUME NEW w \in Span(WaveCount)
        PROVE  \E c : Orbit(c, w) /\ Follow(c, w)
    <3>1. Entry(w) \in Chase!Indexes
      BY <1>1, <1>2, <1>5, LinesAre DEF Entry
    <3>2. A \in [Chase!Indexes -> Chase!Indexes]
      BY <1>2, <1>5
    <3>3. \E c : WayFrom(c, Chase!Indexes, A, Entry(w), MaxLoads)
      BY <1>3, <3>1, <3>2, WayExists
    <3> QED  BY <1>4, <3>3 DEF Orbit, Follow
  <2> QED  BY <2>1 DEF Together
<1> QED  BY <1>7, <1>8, <1>9, <1>10 DEF ChaseInv

\* A step of the host that leaves the list and the items alone.
LEMMA HostMoves ==
  ASSUME ChaseInv, UNCHANGED <<launch, list_size, waveId, A, chasing, loads, seen>>,
         enqueuing' \in {"check", "fill", "enqueue", "wait", "returned"},
         enqueuing' \in {"enqueue", "wait"} => waveId = WaveCount,
         enqueuing' \in {"fill", "enqueue", "wait"} => Part >= 1,
         enqueuing' \in {"check", "fill", "enqueue"} =>
           \A t \in Chase!Threads : ~ Begun(t),
         DOMAIN ret' = Chase!Threads,
         enqueuing' \in {"enqueue", "wait"} /\ Textures =>
           \A t \in Chase!Threads : ~ Begun(t) => ret'[t] = Line(Chase!WaveOf(t), 0)
  PROVE  ChaseInv'
<1>1. Chase!TypeOK'
  BY SameLaunch DEF ChaseInv, Chase!TypeOK
<1>2. \A t : Begun(t)' = Begun(t) /\ Chase!InChase(t)' = Chase!InChase(t)
  BY DEF Begun, Chase!InChase, Chase!NotBegun
<1>3. \A w : PartOf(w)' = PartOf(w) /\ Entry(w)' = Entry(w)
  BY SameLaunch DEF PartOf, Entry
<1>4. \A t, S, x : At(t, S, x)' = At(t, S, x)
  BY <1>2, <1>3, SameLaunch DEF At
<1>5. Loaded'
  BY <1>2, <1>4, SameLaunch DEF ChaseInv, Loaded
<1>6. \A c, w : Orbit(c, w)' = Orbit(c, w) /\ Follow(c, w)' = Follow(c, w)
  BY <1>2, <1>3, SameLaunch DEF Orbit, Follow
<1>7. Together'
  BY <1>6, SameLaunch DEF ChaseInv, Together
<1>8. Prepared'
  <2>1. \A w : Cyclic(PartOf(w), Part)' = Cyclic(PartOf(w), Part)
    BY <1>3, SameLaunch DEF Cyclic, Permutes, ClosedIn, Span
  <2>2. (\A w \in Span(waveId) : Cyclic(PartOf(w), Part))'
    BY <2>1 DEF ChaseInv, Prepared, Span
  <2>3. \A t \in Chase!Threads : Begun(t)' => waveId' = WaveCount' /\ Part' >= 1
    BY <1>2, SameLaunch DEF ChaseInv, Prepared
  <2>4. Textures' => Part' >= 1
    BY SameLaunch DEF ChaseInv, Prepared
  <2> QED  BY <1>2, <2>2, <2>3, <2>4, SameLaunch DEF Prepared
<1>9. Told'
  BY <1>2, SameLaunch DEF Told
<1> QED  BY <1>1, <1>5, <1>7, <1>8, <1>9 DEF ChaseInv

\* A step of item t after which it has loaded the lines S of its part and is
\* at line x of it, on the way of its wave.
LEMMA ItemMoves ==
  ASSUME ChaseInv, NEW t \in Chase!Threads,
         UNCHANGED <<launch, list_size, waveId, A, enqueuing>>,
         waveId = WaveCount, Part >= 1, enqueuing \in {"wait", "returned"},
         NEW i \in Chase!Indexes, NEW l \in 0 .. MaxLoads + 1,
         NEW S \in SUBSET Span(Part), NEW x \in Span(Part),
         chasing' = [chasing EXCEPT ![t] = i],
         loads' = [loads EXCEPT ![t] = l],
         seen' = [seen EXCEPT ![t] = {Line(PartFor(t), y) : y \in S}],
         i = Line(PartFor(t), x),
         Path(PartOf(PartFor(t)), S, x),
         l <= MaxLoads => Cardinality(S) = IF l < Part THEN l ELSE Part,
         \A c : l <= MaxLoads /\ Orbit(c, Chase!WaveOf(t)) /\ Follow(c, Chase!WaveOf(t))
                  => i = c[l],
         Told'
  PROVE  ChaseInv'
<1>1. /\ loads \in [Chase!Threads -> Chase!NotBegun .. MaxLoads + 1]
      /\ chasing \in [Chase!Threads -> Chase!Indexes]
      /\ seen \in [Chase!Threads -> SUBSET Chase!Indexes]
  BY DEF ChaseInv, Chase!TypeOK
<1>2. /\ loads'[t] = l /\ chasing'[t] = i
      /\ seen'[t] = {Line(PartFor(t), y) : y \in S}
      /\ \A u \in Chase!Threads : u # t =>
           loads'[u] = loads[u] /\ chasing'[u] = chasing[u] /\ seen'[u] = seen[u]
  BY <1>1
<1>3. /\ Part' = Part /\ WaveCount' = WaveCount /\ Textures' = Textures
      /\ Chase!Threads' = Chase!Threads /\ Chase!Indexes' = Chase!Indexes
      /\ \A u : Chase!WaveOf(u)' = Chase!WaveOf(u) /\ PartFor(u)' = PartFor(u)
      /\ \A w, y : Line(w, y)' = Line(w, y)
  BY SameLaunch
<1>4. \A w : PartOf(w)' = PartOf(w) /\ Entry(w)' = Entry(w)
  BY <1>3 DEF PartOf, Entry
<1>5. MaxLoads \in Nat /\ l \in Nat /\ Chase!NotBegun = -1
      /\ l \in Chase!NotBegun .. MaxLoads + 1
      /\ (l \in 0 .. MaxLoads <=> l <= MaxLoads)
  <2>1. MaxLoads \in Nat
    BY ChaseNumbers
  <2> QED  BY <2>1, SMT DEF Chase!NotBegun
<1>6. l # Chase!NotBegun /\ Chase!NotBegun' = Chase!NotBegun
  BY <1>5, SMT DEF Chase!NotBegun
<1>7. /\ Begun(t)' /\ (Chase!InChase(t)' <=> l <= MaxLoads)
      /\ \A u \in Chase!Threads : u # t =>
           Begun(u)' = Begun(u) /\ Chase!InChase(u)' = Chase!InChase(u)
  BY <1>2, <1>5, <1>6 DEF Begun, Chase!InChase
<1>8. Chase!TypeOK'
  <2>1. PartFor(t) \in Span(WaveCount)
    BY ChaseNumbers
  <2>2. \A y \in Span(Part) : Line(PartFor(t), y) \in Chase!Indexes
    BY <2>1, InPart
  <2>3. {Line(PartFor(t), y) : y \in S} \in SUBSET Chase!Indexes
    BY <2>2
  <2>4. /\ loads' \in [Chase!Threads -> Chase!NotBegun .. MaxLoads + 1]
        /\ chasing' \in [Chase!Threads -> Chase!Indexes]
        /\ seen' \in [Chase!Threads -> SUBSET Chase!Indexes]
    BY <1>1, <1>5, <2>3
  <2> QED  BY <1>3, <1>6, <2>4, SameLaunch DEF ChaseInv, Chase!TypeOK
<1>9. Prepared'
  <2>1. \A w : Cyclic(PartOf(w), Part)' = Cyclic(PartOf(w), Part)
    BY <1>3, <1>4 DEF Cyclic, Permutes, ClosedIn, Span
  <2>2. (\A w \in Span(waveId) : Cyclic(PartOf(w), Part))'
    BY <2>1 DEF ChaseInv, Prepared, Span
  <2> QED  BY <1>3, <2>2 DEF Prepared
<1>10. Loaded'
  <2>1. ASSUME NEW u \in Chase!Threads, u # t, NEW T, NEW y
        PROVE  At(u, T, y)' = At(u, T, y)
    BY <1>2, <1>3, <1>4, <1>7, <2>1 DEF At
  <2>2. ASSUME NEW u \in Chase!Threads, u # t
        PROVE  (IF Begun(u) THEN \E T \in SUBSET Span(Part), y \in Span(Part) : At(u, T, y)
                ELSE seen[u] = {} /\ chasing[u] = 0)'
    <3>1. IF Begun(u) THEN \E T \in SUBSET Span(Part), y \in Span(Part) : At(u, T, y)
          ELSE seen[u] = {} /\ chasing[u] = 0
      BY DEF ChaseInv, Loaded
    <3> QED  BY <1>2, <1>3, <1>7, <2>1, <2>2, <3>1
  <2>3. At(t, S, x)'
    BY <1>2, <1>3, <1>4, <1>7 DEF At
  <2>4. (\E T \in SUBSET Span(Part), y \in Span(Part) : At(t, T, y))'
    BY <1>3, <2>3
  <2>5. ASSUME NEW u \in Chase!Threads
        PROVE  (IF Begun(u) THEN \E T \in SUBSET Span(Part), y \in Span(Part) : At(u, T, y)
                ELSE seen[u] = {} /\ chasing[u] = 0)'
    BY <1>7, <2>2, <2>4
  <2> QED  BY <1>3, <2>5 DEF Loaded
<1>11. Together'
  <2>1. ASSUME NEW c, NEW w PROVE Orbit(c, w)' = Orbit(c, w)
    BY <1>3, <1>4 DEF Orbit
  <2>2. ASSUME NEW c, NEW w, Orbit(c, w), Follow(c, w) PROVE Follow(c, w)'
    <3>1. ASSUME NEW u \in Chase!Threads, Chase!WaveOf(u) = w, Chase!InChase(u)'
          PROVE  chasing'[u] = c[loads'[u]]
      <4>1. CASE u = t
        BY <1>2, <1>7, <2>2, <3>1, <4>1
      <4>2. CASE u # t
        BY <1>2, <1>7, <2>2, <3>1, <4>2 DEF Follow
      <4> QED  BY <4>1, <4>2
    <3> QED  BY <1>3, <3>1 DEF Follow
  <2>3. ASSUME NEW w \in Span(WaveCount)
        PROVE  \E c : Orbit(c, w)' /\ Follow(c, w)'
    <3>1. PICK c : Orbit(c, w) /\ Follow(c, w)
      BY DEF ChaseInv, Together
    <3> QED  BY <2>1, <2>2, <3>1
  <2> QED  BY <1>3, <2>3 DEF Together
<1> QED  BY <1>8, <1>9, <1>10, <1>11 DEF ChaseInv

\* An item begins where its wave begins.
LEMMA BeginKeeps ==
  ASSUME StartsAreKept, ChaseInv, NEW t \in Chase!Threads, Chase!Begin(t)
  PROVE  ChaseInv'
<1> DEFINE w == Chase!WaveOf(t)
           v == PartFor(t)
           i == Chase!FirstIndex(t)
           x == IF Textures THEN 0 ELSE PartOf(0)[0]
<1>1. /\ enqueuing = "wait" /\ ~ Begun(t)
      /\ chasing' = [chasing EXCEPT ![t] = i] /\ loads' = [loads EXCEPT ![t] = 0]
      /\ UNCHANGED <<launch, list_size, waveId, A, enqueuing, ret, seen>>
  BY DEF Chase!Begin, Begun
<1>2. waveId = WaveCount /\ Part >= 1
  BY <1>1 DEF ChaseInv, Prepared
<1>3. /\ launch \in Launches /\ list_size \in ListSizes
      /\ MaxLoads \in Nat /\ Part \in Nat /\ WaveCount \in Nat \ {0}
      /\ w \in Span(WaveCount) /\ v \in Span(WaveCount)
  BY ChaseNumbers
<1>4. 0 \in Span(Part) /\ 0 \in Span(WaveCount) /\ 0 \in 0 .. MaxLoads + 1
      /\ 0 <= MaxLoads /\ 0 < Part /\ 0 + 0 = 0
  BY <1>2, <1>3, SMT DEF Span
<1>5. Line(0, 0) = 0
  BY <1>3, SMT DEF Line
<1>6. x \in Span(Part) /\ Entry(w) = Line(v, x) /\ Entry(w) \in Chase!Indexes
  <2>1. CASE Textures
    BY <1>2, <1>3, <1>4, <2>1, InPart DEF Entry, PartFor
  <2>2. CASE ~ Textures
    <3>1. PartOf(0)[0] \in Span(Part) /\ A[Line(0, 0)] = Line(0, PartOf(0)[0])
      BY <1>2, <1>4, InPart
    <3>2. Line(0, PartOf(0)[0]) \in Chase!Indexes
      BY <1>2, <1>4, <3>1, InPart
    <3> QED  BY <1>5, <2>2, <3>1, <3>2 DEF Entry, PartFor
  <2> QED  BY <2>1, <2>2
<1>7. i = Entry(w)
  <2>1. launch.threads = 1 => w = 0
    <3>1. launch.threads = 1 => WaveCount = 1
      BY <1>3, LaunchIs
    <3> QED  BY <1>3, <3>1, SMT DEF Span
  <2>2. launch.threads \in Nat \ {0} /\ (launch.threads # 1 => launch.threads > 1)
        /\ ~ 1 > 1 /\ ~ launch.threads > launch.threads
    <3>1. launch.threads \in Nat \ {0}
      BY <1>3, LaunchIs
    <3> QED  BY <3>1, SMT
  <2>3. CASE launch.kernel = "local_unrolled_latency_test"
    <3>1. ~ Textures
      BY <2>3 DEF Textures
    <3>2. i = A[0]
      BY <2>3 DEF Chase!FirstIndex
    <3> QED  BY <3>1, <3>2 DEF Entry
  <2>4. CASE launch.kernel = "scalar_unrolled_latency_test"
    <3>1. ~ Textures
      BY <2>4 DEF Textures
    <3>2. launch.threads = launch.local_size
      BY <1>3, <2>4 DEF StartsAreKept
    <3>3. i = A[0]
      BY <2>2, <2>4, <3>2 DEF Chase!FirstIndex
    <3> QED  BY <3>1, <3>3 DEF Entry
  <2>5. CASE launch.kernel = "unrolled_latency_test"
    <3>1. ~ Textures
      BY <2>5 DEF Textures
    <3>2. launch.threads = 1
      BY <1>3, <2>5 DEF StartsAreKept
    <3>3. i = A[0]
      BY <2>2, <2>5, <3>2 DEF Chase!FirstIndex, Chase!Many
    <3> QED  BY <3>1, <3>3 DEF Entry
  <2>6. CASE launch.kernel = "tex_latency_test"
    <3>1. Textures
      BY <2>6 DEF Textures
    <3>2. ret[t] = Line(w, 0)
      BY <1>1, <3>1 DEF ChaseInv, Told
    <3>3. i = IF Chase!Many THEN ret[t] ELSE 0
      BY <2>6 DEF Chase!FirstIndex
    <3>4. ~ Chase!Many => Line(w, 0) = 0
      BY <1>5, <2>1, <2>2 DEF Chase!Many
    <3> QED  BY <3>1, <3>2, <3>3, <3>4 DEF Entry
  <2> QED
    BY <1>3, <2>3, <2>4, <2>5, <2>6, DeviceTestsAssumption
<1>8. Path(PartOf(v), {}, x) /\ Cardinality({}) = 0
  BY FS_EmptySet DEF Path
<1>9. \A c : Orbit(c, w) => i = c[0]
  BY <1>7 DEF Orbit, WayFrom
<1>10. seen' = [seen EXCEPT ![t] = {Line(v, y) : y \in {}}]
  <2>1. seen[t] = {} /\ seen \in [Chase!Threads -> SUBSET Chase!Indexes]
    BY <1>1 DEF ChaseInv, Loaded, Chase!TypeOK
  <2> QED  BY <1>1, <2>1
<1>11. Told'
  <2>1. \A u \in Chase!Threads : Begun(u) => Begun(u)'
    <3>1. Chase!NotBegun = -1 /\ 0 # Chase!NotBegun
      BY SMT DEF Chase!NotBegun
    <3>2. loads \in [Chase!Threads -> Chase!NotBegun .. MaxLoads + 1]
      BY DEF ChaseInv, Chase!TypeOK
    <3>3. Chase!NotBegun' = Chase!NotBegun
      BY DEF Chase!NotBegun
    <3> QED  BY <1>1, <3>1, <3>2, <3>3 DEF Begun
  <2> QED  BY <1>1, <2>1, SameLaunch DEF ChaseInv, Told
<1> HIDE DEF w, v, i, x
<1>12. UNCHANGED <<launch, list_size, waveId, A, enqueuing>>
       /\ enqueuing \in {"wait", "returned"}
       /\ (0 <= MaxLoads => Cardinality({}) = IF 0 < Part THEN 0 ELSE Part)
       /\ (\A c : 0 <= MaxLoads /\ Orbit(c, w) /\ Follow(c, w) => i = c[0])
       /\ {} \in SUBSET Span(Part) /\ i = Line(v, x) /\ i \in Chase!Indexes
  BY <1>1, <1>4, <1>6, <1>7, <1>8, <1>9
<1> QED
  BY <1>1, <1>2, <1>4, <1>6, <1>8, <1>10, <1>11, <1>12, ItemMoves DEF w, v

\* An item that has begun and not ended, as a step finds it.
LEMMA ItemRuns ==
  ASSUME ChaseInv, NEW t \in Chase!Threads, Chase!InChase(t)
  PROVE  /\ Begun(t) /\ waveId = WaveCount /\ Part >= 1
         /\ enqueuing \in {"wait", "returned"}
         /\ loads[t] \in 0 .. MaxLoads
         /\ PartFor(t) \in Span(WaveCount) /\ Chase!WaveOf(t) \in Span(WaveCount)
<1>1. loads[t] \in 0 .. MaxLoads /\ Chase!NotBegun \notin 0 .. MaxLoads
  BY SMT DEF Chase!InChase, Chase!NotBegun
<1>2. Begun(t)
  BY <1>1 DEF Begun
<1> QED  BY <1>1, <1>2, ChaseNumbers DEF ChaseInv, Chase!TypeOK, Prepared

\* An item loads from the line it is at and goes where that leads.
LEMMA LoadKeeps ==
  ASSUME ChaseInv, NEW t \in Chase!Threads, Chase!Load(t)
  PROVE  ChaseInv'
<1> DEFINE w == Chase!WaveOf(t)
           v == PartFor(t)
           p == PartOf(v)
           l == loads[t]
           i == A[chasing[t]]
<1>1. /\ MaxLoads \in Nat /\ Part \in Nat /\ Chase!InChase(t)
      /\ l \in 0 .. MaxLoads - 1 /\ l \in 0 .. MaxLoads
      /\ l + 1 \in 0 .. MaxLoads /\ l + 1 \in 0 .. MaxLoads + 1 /\ l \in Nat
  <2>1. MaxLoads \in Nat /\ Part \in Nat
    BY ChaseNumbers
  <2>2. loads[t] \in 0 .. MaxLoads - 1
    BY DEF Chase!Load
  <2> QED  BY <2>1, <2>2, SMT DEF Chase!InChase
<1>2. /\ Begun(t) /\ waveId = WaveCount /\ Part >= 1
      /\ enqueuing \in {"wait", "returned"}
      /\ v \in Span(WaveCount) /\ w \in Span(WaveCount)
  BY <1>1, ItemRuns
<1>3. PICK S \in SUBSET Span(Part), x \in Span(Part) : At(t, S, x)
  BY <1>2 DEF ChaseInv, Loaded
<1>4. /\ seen[t] = {Line(v, y) : y \in S} /\ chasing[t] = Line(v, x) /\ Path(p, S, x)
      /\ Cardinality(S) = IF l < Part THEN l ELSE Part
  BY <1>1, <1>3 DEF At
<1>5. /\ Cyclic(p, Part) /\ p[x] \in Span(Part) /\ i = Line(v, p[x])
      /\ Line(v, x) \in Chase!Indexes
  BY <1>2, <1>3, <1>4, InPart
<1>6. i \in Chase!Indexes
  BY <1>2, <1>5, InPart
<1>7. S \cup {x} \in SUBSET Span(Part) /\ Path(p, S \cup {x}, p[x])
  BY <1>3, <1>4 DEF Path
<1>8. IsFiniteSet(S) /\ Cardinality(Span(Part)) = Part
  BY <1>1, SpanFinite, FS_Subset
<1>9. x \in S => S = Span(Part)
  BY <1>3, <1>4, <1>5, LapCloses
<1>10. Cardinality(S \cup {x}) = IF l + 1 < Part THEN l + 1 ELSE Part
  <2>1. CASE x \in S
    <3>1. S \cup {x} = S
      BY <2>1
    <3>2. Cardinality(S) = Part
      BY <1>8, <1>9, <2>1
    <3>3. ~ l < Part
      BY <1>1, <1>4, <3>2, SMT
    <3>4. ~ l + 1 < Part
      BY <1>1, <3>3, SMT
    <3> QED  BY <3>1, <3>2, <3>4
  <2>2. CASE x \notin S
    <3>1. Cardinality(S \cup {x}) = Cardinality(S) + 1
      BY <1>8, <2>2, FS_AddElement
    <3>2. Cardinality(S) # Part
      <4>1. IsFiniteSet(Span(Part))
        BY <1>1, SpanFinite
      <4> QED  BY <1>3, <1>8, <2>2, <4>1, FS_Subset
    <3> QED  BY <1>1, <1>4, <3>1, <3>2, SMT
  <2> QED  BY <2>1, <2>2
<1>11. /\ loads \in [Chase!Threads -> Chase!NotBegun .. MaxLoads + 1]
       /\ chasing \in [Chase!Threads -> Chase!Indexes]
       /\ seen \in [Chase!Threads -> SUBSET Chase!Indexes]
  BY DEF ChaseInv, Chase!TypeOK
<1>12. /\ chasing' = [chasing EXCEPT ![t] = i]
       /\ loads' = [loads EXCEPT ![t] = l + 1]
       /\ seen' = [seen EXCEPT ![t] = {Line(v, y) : y \in S \cup {x}}]
       /\ UNCHANGED <<launch, list_size, waveId, A, enqueuing, ret>>
  <2>1. seen[t] \cup {chasing[t]} = {Line(v, y) : y \in S \cup {x}}
    BY <1>4
  <2>2. chasing[t] \in Chase!Indexes
    BY <1>11
  <2>3. seen' = [seen EXCEPT ![t] = seen[t] \cup {chasing[t]}]
    BY DEF Chase!Load
  <2> QED  BY <2>1, <2>2, <2>3 DEF Chase!Load
<1>13. ASSUME NEW c, Orbit(c, w), Follow(c, w) PROVE i = c[l + 1]
  <2>1. chasing[t] = c[l]
    BY <1>1, <1>13 DEF Follow
  <2>2. c[l + 1] = A[c[l]]
    BY <1>1, <1>13 DEF Orbit, WayFrom
  <2> QED  BY <2>1, <2>2
<1>14. Told'
  <2>1. \A u \in Chase!Threads : Begun(u) => Begun(u)'
    <3>1. Chase!NotBegun = -1 /\ l + 1 # Chase!NotBegun
      BY <1>1, SMT DEF Chase!NotBegun
    <3>2. Chase!NotBegun' = Chase!NotBegun
      BY DEF Chase!NotBegun
    <3> QED  BY <1>11, <1>12, <3>1, <3>2 DEF Begun
  <2> QED  BY <1>12, <2>1, SameLaunch DEF ChaseInv, Told
<1> HIDE DEF w, v, p, l, i
<1>15. /\ UNCHANGED <<launch, list_size, waveId, A, enqueuing>>
       /\ (l + 1 <= MaxLoads =>
             Cardinality(S \cup {x}) = IF l + 1 < Part THEN l + 1 ELSE Part)
       /\ (\A c : l + 1 <= MaxLoads /\ Orbit(c, w) /\ Follow(c, w) => i = c[l + 1])
  BY <1>10, <1>12, <1>13
<1>16. Path(PartOf(v), S \cup {x}, p[x])
  BY <1>7 DEF p
<1> QED
  BY <1>1, <1>2, <1>5, <1>6, <1>7, <1>12, <1>14, <1>15, <1>16, ItemMoves DEF w, v

\* An item ends, and writes its result over a start index.
LEMMA EndKeeps ==
  ASSUME ChaseInv, NEW t \in Chase!Threads, Chase!End(t)
  PROVE  ChaseInv'
<1> DEFINE w == Chase!WaveOf(t)
           v == PartFor(t)
           i == chasing[t]
           l == MaxLoads + 1
<1>1. /\ MaxLoads \in Nat /\ loads[t] = MaxLoads /\ Chase!InChase(t)
      /\ l \in 0 .. MaxLoads + 1 /\ ~ l <= MaxLoads /\ l # Chase!NotBegun
  <2>1. MaxLoads \in Nat
    BY ChaseNumbers
  <2>2. loads[t] = MaxLoads
    BY DEF Chase!End
  <2> QED  BY <2>1, <2>2, SMT DEF Chase!InChase, Chase!NotBegun
<1>2. /\ Begun(t) /\ waveId = WaveCount /\ Part >= 1
      /\ enqueuing \in {"wait", "returned"}
  BY <1>1, ItemRuns
<1>3. PICK S \in SUBSET Span(Part), x \in Span(Part) : At(t, S, x)
  BY <1>2 DEF ChaseInv, Loaded
<1>4. seen[t] = {Line(v, y) : y \in S} /\ i = Line(v, x) /\ Path(PartOf(v), S, x)
  BY <1>3 DEF At
<1>5. /\ loads \in [Chase!Threads -> Chase!NotBegun .. MaxLoads + 1]
      /\ chasing \in [Chase!Threads -> Chase!Indexes]
      /\ seen \in [Chase!Threads -> SUBSET Chase!Indexes]
  BY DEF ChaseInv, Chase!TypeOK
<1>6. /\ UNCHANGED <<launch, list_size, waveId, A, enqueuing, chasing, seen>>
      /\ loads' = [loads EXCEPT ![t] = l] /\ ret' \in Chase!Sink(t)
  BY DEF Chase!End
<1>7. /\ chasing' = [chasing EXCEPT ![t] = i] /\ i \in Chase!Indexes
      /\ seen' = [seen EXCEPT ![t] = {Line(v, y) : y \in S}]
  BY <1>4, <1>5, <1>6
<1>8. Told'
  <2>1. \A u \in Chase!Threads : Begun(u) => Begun(u)'
    <3>1. Chase!NotBegun' = Chase!NotBegun
      BY DEF Chase!NotBegun
    <3> QED  BY <1>1, <1>5, <1>6, <3>1 DEF Begun
  <2>2. DOMAIN ret' = Chase!Threads
    BY <1>6 DEF Chase!Sink, ChaseInv, Told
  <2>3. ASSUME Textures, NEW u \in Chase!Threads, u # t PROVE ret'[u] = ret[u]
    BY <1>6, <2>3 DEF Chase!Sink, Textures, ChaseInv, Told
  <2>4. enqueuing \in {"enqueue", "wait"} /\ Textures =>
          \A u \in Chase!Threads : ~ Begun(u)' => ret'[u] = Line(Chase!WaveOf(u), 0)
    BY <1>2, <2>1, <2>3 DEF ChaseInv, Told
  <2> QED  BY <1>6, <2>2, <2>4, SameLaunch DEF Told
<1> HIDE DEF w, v, i, l
<1>9. /\ UNCHANGED <<launch, list_size, waveId, A, enqueuing>>
      /\ (l <= MaxLoads => Cardinality(S) = IF l < Part THEN l ELSE Part)
      /\ (\A c : l <= MaxLoads /\ Orbit(c, w) /\ Follow(c, w) => i = c[l])
  BY <1>1, <1>6
<1> QED
  BY <1>1, <1>2, <1>3, <1>4, <1>6, <1>7, <1>8, <1>9, ItemMoves DEF w, v

\* The host checks that a part is of two lines, and when every part has its
\* pattern it tells the items where to begin and submits the kernel.
LEMMA HostKeeps ==
  ASSUME ChaseInv,
         Chase!Check \/ Chase!SetStarts \/ Chase!Enqueue \/ Chase!EnqueueFails
           \/ Chase!Finish
  PROVE  ChaseInv'
<1>1. /\ launch \in Launches /\ list_size \in ListSizes
      /\ Part \in Nat /\ WaveCount \in Nat \ {0} /\ waveId \in 0 .. WaveCount
      /\ Chase!Waves = Span(WaveCount)
      /\ \A t \in Chase!Threads : Chase!WaveOf(t) \in Span(WaveCount)
  BY ChaseNumbers
<1>2. DOMAIN ret = Chase!Threads
  BY DEF ChaseInv, Told
<1>3. CASE Chase!Check
  <2>1. /\ enqueuing = "check" /\ enqueuing' = IF Chase!TooSmall THEN "returned" ELSE "fill"
        /\ UNCHANGED <<launch, list_size, waveId, A, ret, chasing, loads, seen>>
    BY <1>3 DEF Chase!Check, Chase!items
  <2>2. \A t \in Chase!Threads : ~ Begun(t)
    BY <2>1 DEF ChaseInv, Prepared
  <2>3. ~ Chase!TooSmall => Part >= 1
    <3>1. CASE Textures
      BY <3>1 DEF ChaseInv, Prepared
    <3>2. CASE ~ Textures
      <4>1. /\ launch.threads \in Nat \ {0} /\ list_size \in Nat
            /\ (launch.threads = 1 => Part = list_size)
        BY <1>1, LaunchIs
      <4>2. Chase!TooSmall <=> (IF launch.threads > 1 THEN Part ELSE list_size) < 2
        BY <3>2 DEF Chase!TooSmall, Chase!Many, Part, Textures
      <4> QED  BY <1>1, <4>1, <4>2, SMT
    <3> QED  BY <3>1, <3>2
  <2> QED  BY <1>2, <2>1, <2>2, <2>3, HostMoves
<1>4. CASE Chase!SetStarts
  <2>1. /\ enqueuing = "fill" /\ enqueuing' = "enqueue" /\ waveId \notin Chase!Waves
        /\ ret' \in [Chase!Threads -> Chase!Indexes \cup Chase!Garbage]
        /\ \A t \in Chase!Threads :
             Chase!WaveOf(t) \in Chase!Waves => ret'[t] = Chase!StartOf(t)
        /\ UNCHANGED <<launch, list_size, waveId, A, chasing, loads, seen>>
    BY <1>4 DEF Chase!SetStarts
  <2>2. (\A t \in Chase!Threads : ~ Begun(t)) /\ Part >= 1
    BY <2>1 DEF ChaseInv, Prepared
  <2>3. waveId = WaveCount
    BY <1>1, <2>1, SMT DEF Span
  <2>4. ASSUME NEW t \in Chase!Threads PROVE ret'[t] = Line(Chase!WaveOf(t), 0)
    <3>1. Chase!WaveOf(t) \in Span(WaveCount)
      BY <1>1
    <3>2. Chase!WaveOf(t) \in Nat
      BY <1>1, <3>1, SMT DEF Span
    <3>3. ret'[t] = Chase!waveId_start(Chase!WaveOf(t))
      BY <1>1, <2>1, <3>1 DEF Chase!StartOf
    <3> QED  BY <1>1, <3>2, <3>3, LinesAre
  <2> QED  BY <2>1, <2>2, <2>3, <2>4, HostMoves
<1>5. CASE Chase!Enqueue
  <2>1. /\ enqueuing = "enqueue" /\ enqueuing' = "wait"
        /\ UNCHANGED <<launch, list_size, waveId, A, ret, chasing, loads, seen>>
    BY <1>5 DEF Chase!Enqueue, Chase!items
  <2> QED  BY <1>2, <2>1, HostMoves DEF ChaseInv, Prepared, Told
<1>6. CASE Chase!EnqueueFails \/ Chase!Finish
  <2>1. /\ enqueuing' = "returned"
        /\ UNCHANGED <<launch, list_size, waveId, A, ret, chasing, loads, seen>>
    BY <1>6 DEF Chase!EnqueueFails, Chase!Finish, Chase!items
  <2> QED  BY <1>2, <2>1, HostMoves
<1> QED  BY <1>3, <1>4, <1>5, <1>6

\* The host fills the next part with a pattern of a single cycle.
LEMMA FillKeeps ==
  ASSUME ChaseInv, Chase!FillPart PROVE ChaseInv'
<1> DEFINE w == waveId
           b == Line(waveId, 0)
<1>1. /\ launch \in Launches /\ list_size \in ListSizes
      /\ MaxLoads \in Nat /\ Part \in Nat /\ WaveCount \in Nat \ {0}
      /\ w \in 0 .. WaveCount
      /\ Chase!Indexes = Span(list_size) /\ Chase!Waves = Span(WaveCount)
      /\ Chase!Cardinality(Chase!Waves) = WaveCount
  BY ChaseNumbers, LaunchIs
<1>2. /\ enqueuing = "fill" /\ w \in Chase!Waves /\ waveId' = w + 1
      /\ UNCHANGED <<launch, list_size, enqueuing, ret, chasing, loads, seen>>
  BY DEF Chase!FillPart, Chase!items
<1>3. /\ \A t \in Chase!Threads : ~ Begun(t)
      /\ Part >= 1
  BY <1>2 DEF ChaseInv, Prepared
<1>4. \A t \in Chase!Threads : ~ Begun(t)' /\ ~ Chase!InChase(t)'
  <2>1. Chase!NotBegun' = Chase!NotBegun /\ Chase!NotBegun \notin 0 .. MaxLoads
    BY SMT DEF Chase!NotBegun
  <2> QED  BY <1>2, <1>3, <2>1 DEF Begun, Chase!InChase
<1>5. PICK pattern \in Chase!Patterns(Part) :
        A' = [i \in Chase!Indexes |->
               IF i - Chase!waveId_start(w) \in DOMAIN pattern
               THEN Chase!Offset(w, pattern)[i - Chase!waveId_start(w)] ELSE A[i]]
  BY DEF Chase!FillPart, Part
<1>6. Cyclic(pattern, Part)
  <2>1. Part \in Nat \ {0} /\ pattern \in Ops!Patterns(Part)
    BY <1>1, <1>3, SameChasePatterns, SMT
  <2> QED  BY <2>1, PatternsAreCyclic
<1>7. pattern \in [Span(Part) -> Span(Part)]
  BY <1>6 DEF Cyclic, Permutes
<1>8. w \in Span(WaveCount) /\ w \in Nat /\ b \in Nat /\ Chase!waveId_start(w) = b
  <2>1. w \in Span(WaveCount) /\ w \in Nat
    BY <1>1, <1>2, SMT
  <2> QED  BY <1>1, <2>1, LinesAre
<1>9. A' = [i \in Chase!Indexes |->
              IF i - b \in Span(Part) THEN pattern[i - b] + b ELSE A[i]]
  BY <1>5, <1>7, <1>8 DEF Chase!Offset
<1>10. ASSUME NEW x \in Span(Part)
       PROVE  /\ Line(w, x) \in Chase!Indexes /\ Line(w, x) = b + x /\ x \in Int
              /\ Line(w, x) - b = x
  <2>1. x \in Int
    BY <1>1, SMT DEF Span
  <2>2. Line(w, x) \in Span(list_size)
    BY <1>1, <1>8, LinesAre
  <2>3. Line(w, x) = b + x
    BY <1>1, <1>8, <2>1, LinesAre
  <2> HIDE DEF b
  <2>4. b + x - b = x
    BY <1>8, <2>1, SMT
  <2>5. Line(w, x) - b = x
    BY <1>8, <2>1, <2>3, SMT
  <2>6. Line(w, x) \in Chase!Indexes
    BY <1>1, <2>2
  <2> QED  BY <2>1, <2>3, <2>5, <2>6
<1>11. ASSUME NEW x \in Span(Part)
       PROVE  A'[Line(w, x)] = Line(w, pattern[x])
  <2>1. A'[Line(w, x)] = pattern[x] + b
    BY <1>9, <1>10
  <2>2. pattern[x] \in Span(Part)
    BY <1>7
  <2>3. Line(w, pattern[x]) = b + pattern[x] /\ pattern[x] \in Int
    BY <1>10, <2>2
  <2> HIDE DEF b
  <2> QED  BY <1>8, <2>1, <2>3, SMT
<1>12. A' \in [Chase!Indexes -> Chase!Indexes]
  <2>1. ASSUME NEW i \in Chase!Indexes, i - b \in Span(Part)
        PROVE  pattern[i - b] + b \in Chase!Indexes
    <3>1. pattern[i - b] \in Span(Part)
      BY <1>7, <2>1
    <3>2. Line(w, pattern[i - b]) \in Chase!Indexes
          /\ Line(w, pattern[i - b]) = b + pattern[i - b] /\ pattern[i - b] \in Int
      BY <1>10, <3>1
    <3> HIDE DEF b
    <3>3. b + pattern[i - b] = pattern[i - b] + b
      BY <1>8, <3>2, SMT
    <3> QED  BY <3>2, <3>3
  <2>2. A \in [Chase!Indexes -> Chase!Indexes]
    BY DEF ChaseInv, Chase!TypeOK
  <2> QED  BY <1>9, <2>1, <2>2
<1>13. /\ Part' = Part /\ WaveCount' = WaveCount /\ Textures' = Textures
       /\ Chase!Threads' = Chase!Threads /\ Chase!Indexes' = Chase!Indexes
       /\ Chase!Waves' = Chase!Waves
       /\ Chase!Cardinality(Chase!Waves)' = Chase!Cardinality(Chase!Waves)
       /\ \A v, x : Line(v, x)' = Line(v, x)
  BY <1>2, SameLaunch
<1>14. Chase!TypeOK'
  <2>1. w + 1 \in 0 .. WaveCount
    BY <1>1, <1>8, SMT DEF Span
  <2>2. /\ launch' = launch /\ list_size' = list_size /\ enqueuing' = enqueuing
        /\ loads' = loads /\ chasing' = chasing /\ seen' = seen
        /\ Chase!NotBegun' = Chase!NotBegun
    BY <1>2 DEF Chase!NotBegun
  <2> QED  BY <1>1, <1>2, <1>12, <1>13, <2>1, <2>2 DEF ChaseInv, Chase!TypeOK
<1>15. ASSUME NEW v \in Span(w + 1) PROVE Cyclic(PartOf(v), Part)'
  <2>1. PartOf(v)' = [x \in Span(Part) |-> A'[Line(v, x)] - Line(v, 0)]
    BY <1>13 DEF PartOf, Span
  <2>2. CASE v = w
    <3>1. ASSUME NEW x \in Span(Part) PROVE A'[Line(v, x)] - Line(v, 0) = pattern[x]
      <4>1. pattern[x] \in Span(Part)
        BY <1>7
      <4>2. Line(w, pattern[x]) - b = pattern[x]
        BY <1>10, <4>1
      <4> QED  BY <1>11, <2>2, <4>2
    <3>2. PartOf(v)' = pattern
      BY <1>7, <2>1, <3>1
    <3> QED  BY <1>6, <1>13, <3>2 DEF Cyclic, Permutes, ClosedIn, Span
  <2>3. CASE v # w
    <3>1. v \in Span(w) /\ v \in Nat /\ v \in Span(WaveCount)
      BY <1>1, <1>8, <2>3, SMT DEF Span
    <3>2. ASSUME NEW x \in Span(Part) PROVE A'[Line(v, x)] = A[Line(v, x)]
      <4>1. Line(v, x) \in Chase!Indexes
        BY <1>1, <3>1, LinesAre
      <4>2. Line(v, x) - b \notin Span(Part)
        <5>1. SUFFICES ASSUME Line(v, x) - b \in Span(Part) PROVE FALSE
          OBVIOUS
        <5> DEFINE y == Line(v, x) - b
        <5>2. Line(w, y) = b + y /\ y \in Span(Part)
          BY <1>10, <5>1
        <5>3. Line(v, x) \in Int
          BY <1>1, <4>1, SMT DEF Span
        <5>4. Line(w, y) = Line(v, x)
          <6> HIDE DEF b
          <6> QED  BY <1>8, <5>2, <5>3, SMT
        <5> HIDE DEF y
        <5>5. w = v
          BY <1>1, <1>8, <3>1, <5>2, <5>4, LinesAre
        <5> QED  BY <2>3, <5>5
      <4> QED  BY <1>9, <4>1, <4>2
    <3>3. PartOf(v)' = PartOf(v)
      BY <2>1, <3>2 DEF PartOf
    <3>4. Cyclic(PartOf(v), Part)
      BY <3>1 DEF ChaseInv, Prepared
    <3> QED  BY <1>13, <3>3, <3>4 DEF Cyclic, Permutes, ClosedIn, Span
  <2> QED  BY <2>2, <2>3
<1>16. Prepared'
  <2>1. (\A v \in Span(waveId) : Cyclic(PartOf(v), Part))'
    BY <1>2, <1>15 DEF Span
  <2>2. \A t \in Chase!Threads' : ~ Begun(t)'
    BY <1>4, <1>13
  <2> QED  BY <1>2, <1>3, <1>13, <2>1, <2>2 DEF Prepared
<1>17. Told' /\ Loaded'
  <2>1. Told'
    BY <1>2, <1>13 DEF ChaseInv, Told
  <2>2. Loaded'
    BY <1>2, <1>3, <1>4, <1>13 DEF ChaseInv, Loaded
  <2> QED  BY <2>1, <2>2
<1>18. Together'
  <2>1. ASSUME NEW v \in Span(WaveCount)
        PROVE  (\E c : Orbit(c, v) /\ Follow(c, v))'
    <3>1. Entry(v)' \in Chase!Indexes
      <4>1. Line(v, 0) \in Chase!Indexes
        BY <1>1, LinesAre
      <4>2. 0 \in Chase!Indexes
        BY <1>1, LaunchIs
      <4> QED  BY <1>12, <1>13, <4>1, <4>2 DEF Entry
    <3>2. PICK B : B = A'
      OBVIOUS
    <3>3. PICK e : e = Entry(v)'
      OBVIOUS
    <3>4. \E c : WayFrom(c, Chase!Indexes, B, e, MaxLoads)
      BY <1>1, <1>12, <3>1, <3>2, <3>3, WayExists
    <3>5. PICK c : WayFrom(c, Chase!Indexes, A', Entry(v)', MaxLoads)
      BY <3>2, <3>3, <3>4
    <3>6. Orbit(c, v)'
      BY <1>13, <3>5 DEF Orbit, WayFrom
    <3>7. Follow(c, v)'
      BY <1>4, <1>13 DEF Follow
    <3> QED  BY <3>6, <3>7
  <2>2. Span(WaveCount)' = Span(WaveCount)
    BY <1>13 DEF Span
  <2> QED  BY <2>1, <2>2 DEF Together
<1> QED  BY <1>14, <1>16, <1>17, <1>18 DEF ChaseInv

LEMMA ChaseStutters ==
  ASSUME ChaseInv, UNCHANGED chaseVars PROVE ChaseInv'
<1>1. UNCHANGED <<launch, list_size, waveId, A, ret, enqueuing, chasing, loads, seen>>
  BY DEF chaseVars
<1>2. enqueuing \in {"check", "fill", "enqueue", "wait", "returned"}
  BY DEF ChaseInv, Chase!TypeOK
<1> QED  BY <1>1, <1>2, HostMoves DEF ChaseInv, Prepared, Told

LEMMA ChasePreserved ==
  ASSUME StartsAreKept, ChaseInv,
         Chase!HostNext \/ (\E t \in Chase!Threads : Chase!ItemNext(t))
           \/ UNCHANGED chaseVars
  PROVE  ChaseInv'
<1>1. CASE Chase!HostNext
  BY <1>1, HostKeeps, FillKeeps DEF Chase!HostNext
<1>2. CASE \E t \in Chase!Threads : Chase!ItemNext(t)
  BY <1>2, BeginKeeps, LoadKeeps, EndKeeps DEF Chase!ItemNext
<1>3. CASE UNCHANGED chaseVars
  BY <1>3, ChaseStutters
<1> QED  BY <1>1, <1>2, <1>3

-----------------------------------------------------------------------------
(* The program: an exchange, or a chase.                                   *)

MainInv ==
  \/ Exchanging /\ IInv /\ Ranges /\ Fits
  \/ Chasing /\ host = None /\ buffer = None /\ (StartsAreKept => ChaseInv)

LEMMA Bounded == Bounds
  BY DeviceTestsAssumption, SMT DEF Bounds

LEMMA SameTest ==
  ASSUME [Next]_vars PROVE test' = test
<1>1. CASE HostNext
  BY <1>1 DEF HostNext, SetUp, Submit, SubmitFails, Wait, HostStep, Mismatch,
              Report, Free
<1>2. CASE \E i \in Items : ItemNext(i)
  BY <1>2 DEF ItemNext, CopyIn, Swap, Exit, Barrier, Increment
<1>3. CASE Returned \/ UNCHANGED vars
  BY <1>3 DEF Returned, vars
<1>4. QED
  BY <1>1, <1>2, <1>3 DEF Next

LEMMA MainInitially ==
  ASSUME MainInit PROVE MainInv
<1>1. CASE Init
  <2>1. Exchanging
    BY <1>1, DeviceTestsAssumption DEF Init, Exchanging, DeviceTestsAssumption
  <2>2. QED
    BY <1>1, <2>1, Initially, RangesInitially, Bounded DEF MainInv
<1>2. CASE Chase!Init /\ Chasing /\ host = None /\ buffer = None
  BY <1>2, ChaseInitially DEF MainInv
<1>3. QED
  BY <1>1, <1>2 DEF MainInit

LEMMA MainPreserved ==
  ASSUME MainInv, [MainNext]_mainVars PROVE MainInv'
<1>1. CASE Exchanging
  <2>1. IInv /\ Ranges /\ Fits
    BY <1>1 DEF MainInv, Exchanging, Chasing
  <2>2. [Next]_vars
    BY <1>1 DEF MainNext, MainHost, MainItem, AllReturned, mainVars, Exchanging,
                Chasing, Next
  <2>3. IInv' /\ Ranges' /\ Fits' /\ test' = test
    BY <2>1, <2>2, Preserved, RangesKept, SameTest, Bounded
  <2>4. QED
    BY <1>1, <2>3 DEF MainInv, Exchanging
<1>2. CASE Chasing
  <2>1. host = None /\ buffer = None /\ (StartsAreKept => ChaseInv)
    BY <1>2 DEF MainInv, Exchanging, Chasing
  <2>2. UNCHANGED vars
    BY <1>2 DEF MainNext, MainHost, MainItem, AllReturned, mainVars, Exchanging,
                Chasing
  <2>3. test' = test /\ host' = host /\ buffer' = buffer
    BY <2>2 DEF vars, state
  <2>4. Chase!HostNext \/ (\E t \in Chase!Threads : Chase!ItemNext(t))
          \/ UNCHANGED chaseVars
    BY <1>2 DEF MainNext, MainHost, MainItem, AllReturned, mainVars, Exchanging,
                Chasing
  <2>5. StartsAreKept => ChaseInv'
    BY <2>1, <2>4, ChasePreserved
  <2>6. StartsAreKept' = StartsAreKept
    BY DEF StartsAreKept
  <2>7. QED
    BY <1>2, <2>1, <2>3, <2>5, <2>6 DEF MainInv, Chasing, None
<1>3. QED
  BY <1>1, <1>2 DEF MainInv

LEMMA Invariant == MainSpec => []MainInv
<1>1. MainInit => MainInv
  BY MainInitially
<1>2. MainInv /\ [MainNext]_mainVars => MainInv'
  BY MainPreserved
<1>3. QED
  BY <1>1, <1>2, PTL DEF MainSpec

-----------------------------------------------------------------------------
\* No word, count or pair is out of range in an exchange; in a chase no start
\* index and no load is outside the list, if no item overwrites a start.
THEOREM MainTypeCorrect ==
  ASSUME StartsAreKept
  PROVE  MainSpec => []MainTypeOK
<1>1. Exchanging /\ IInv /\ Ranges => MainTypeOK
  BY DEF MainTypeOK, TypeOK, Ranges, IInv, Types
<1>2. Chasing /\ ChaseInv => MainTypeOK
  BY DEF MainTypeOK, Exchanging, Chasing, ChaseInv
<1>3. MainInv => MainTypeOK
  BY <1>1, <1>2 DEF MainInv
<1> QED  BY <1>3, Invariant, PTL

\* Work items of a wave that have loaded as much are at the same index, so
\* that they "access the same item", if no item overwrites a start.
THEOREM WavesShareItems ==
  ASSUME StartsAreKept
  PROVE  MainSpec => []WaveSharesItem
<1>1. ASSUME ChaseInv,
             NEW t \in Chase!Threads, NEW u \in Chase!Threads,
             Chase!WaveOf(t) = Chase!WaveOf(u), loads[t] = loads[u], Chase!InChase(t)
      PROVE  chasing[t] = chasing[u]
  <2>1. Chase!WaveOf(t) \in Span(WaveCount)
    BY <1>1, ChaseNumbers
  <2>2. PICK c : Follow(c, Chase!WaveOf(t))
    BY <1>1, <2>1 DEF ChaseInv, Together
  <2>3. Chase!InChase(u)
    BY <1>1 DEF Chase!InChase
  <2>4. chasing[t] = c[loads[t]] /\ chasing[u] = c[loads[u]]
    BY <1>1, <2>2, <2>3 DEF Follow
  <2> QED  BY <1>1, <2>4
<1>2. ChaseInv => Chase!WaveSharesItem
  BY <1>1 DEF Chase!WaveSharesItem
<1>3. MainInv => WaveSharesItem
  BY <1>2 DEF MainInv, WaveSharesItem, Exchanging, Chasing
<1> QED  BY <1>3, Invariant, PTL

\* Two waves never load the same line, and an item loads its whole section
\* before it loads a line again, if no item overwrites a start and the groups
\* of the scalar kernel, which begin together, are waves.
THEOREM SectionsAreOwn ==
  ASSUME StartsAreKept, WavesAreGroups
  PROVE  MainSpec => []OwnSection
<1>1. ASSUME ChaseInv, launch.kernel # "local_unrolled_latency_test",
             NEW t \in Chase!Threads, NEW u \in Chase!Threads,
             Chase!WaveOf(t) # Chase!WaveOf(u)
      PROVE  seen[t] \intersect seen[u] = {}
  <2>1. /\ launch \in Launches /\ list_size \in ListSizes
        /\ Chase!WaveOf(t) \in Span(WaveCount) /\ Chase!WaveOf(u) \in Span(WaveCount)
    BY <1>1, ChaseNumbers
  <2>2. WaveCount # 1
    <3>1. SUFFICES ASSUME WaveCount = 1 PROVE FALSE
      OBVIOUS
    <3>2. \A w, v \in Span(1) : w = v
      BY SMT DEF Span
    <3> QED  BY <1>1, <2>1, <3>1, <3>2
  <2>3. Textures
    <3>1. launch.threads # 1
      BY <2>1, <2>2, LaunchIs
    <3>2. launch.kernel # "unrolled_latency_test"
      BY <2>1, <3>1 DEF StartsAreKept
    <3>3. launch.kernel # "scalar_unrolled_latency_test"
      <4>1. SUFFICES ASSUME launch.wave_size = launch.threads PROVE FALSE
        BY <2>1 DEF StartsAreKept, WavesAreGroups
      <4>2. launch.threads \in Nat \ {0}
        BY <2>1, LaunchIs
      <4> DEFINE n == launch.threads
      <4>3. n \in Nat \ {0} /\ 0 \in 0 .. n - 1 /\ 1 * n + 0 = n /\ 1 \in Nat
        <5>1. n \in Nat \ {0}
          BY <4>2
        <5> HIDE DEF n
        <5> QED  BY <5>1, SMT
      <4>4. (1 * n + 0) \div n = 1
        BY <4>3, Quotient
      <4> QED  BY <2>2, <4>1, <4>3, <4>4 DEF WaveCount
    <3> QED  BY <1>1, <2>1, <3>2, <3>3, DeviceTestsAssumption DEF Textures
  <2>4. ASSUME NEW r \in Chase!Threads
        PROVE  \E S \in SUBSET Span(Part) :
                 seen[r] = {Line(Chase!WaveOf(r), y) : y \in S}
    <3>1. CASE Begun(r)
      <4>1. PICK S \in SUBSET Span(Part), x \in Span(Part) : At(r, S, x)
        BY <1>1, <3>1 DEF ChaseInv, Loaded
      <4> QED  BY <2>3, <4>1 DEF At, PartFor
    <3>2. CASE ~ Begun(r)
      <4>1. seen[r] = {} /\ {Line(Chase!WaveOf(r), y) : y \in {}} = {}
        BY <1>1, <3>2 DEF ChaseInv, Loaded
      <4> QED  BY <4>1
    <3> QED  BY <3>1, <3>2
  <2>5. PICK S \in SUBSET Span(Part) :
          seen[t] = {Line(Chase!WaveOf(t), y) : y \in S}
    BY <2>4
  <2>6. PICK T \in SUBSET Span(Part) :
          seen[u] = {Line(Chase!WaveOf(u), y) : y \in T}
    BY <2>4
  <2>7. Chase!WaveOf(t) \in Nat /\ Chase!WaveOf(u) \in Nat
    <3>1. \A w \in Span(WaveCount) : w \in Nat
      <4>1. WaveCount \in Nat
        BY <1>1, ChaseNumbers
      <4> QED  BY <4>1, SMT DEF Span
    <3> QED  BY <2>1, <3>1
  <2>8. \A x, y \in Span(Part) : Line(Chase!WaveOf(t), x) # Line(Chase!WaveOf(u), y)
    BY <1>1, <2>1, <2>7, LinesAre
  <2> QED  BY <2>5, <2>6, <2>8
<1>2. ASSUME ChaseInv, NEW t \in Chase!Threads, Chase!InChase(t)
      PROVE  Chase!Cardinality(seen[t]) = IF loads[t] < Part THEN loads[t] ELSE Part
  <2> DEFINE v == PartFor(t)
  <2>1. Begun(t) /\ v \in Span(WaveCount)
    BY <1>2, ItemRuns
  <2>2. /\ launch \in Launches /\ list_size \in ListSizes
        /\ WaveCount \in Nat /\ Part \in Nat
    BY <1>2, ChaseNumbers
  <2>3. PICK S \in SUBSET Span(Part), x \in Span(Part) : At(t, S, x)
    BY <1>2, <2>1 DEF ChaseInv, Loaded
  <2>4. /\ seen[t] = {Line(v, y) : y \in S}
        /\ Cardinality(S) = IF loads[t] < Part THEN loads[t] ELSE Part
    BY <1>2, <2>3 DEF At
  <2>5. v \in Nat
    BY <2>1, <2>2, SMT DEF Span
  <2>6. \A y, z \in S : Line(v, y) = Line(v, z) => y = z
    BY <2>2, <2>3, <2>5, LinesAre
  <2> DEFINE f == [y \in S |-> Line(v, y)]
  <2>7. f \in Bijection(S, seen[t])
    BY <2>4, <2>6 DEF Bijection, Injection, Surjection, IsInjective
  <2>8. IsFiniteSet(S)
    BY <2>2, SpanFinite, FS_Subset
  <2>9. ExistsBijection(S, seen[t])
    BY <2>7 DEF ExistsBijection
  <2>10. Cardinality(seen[t]) = Cardinality(S)
    BY <2>8, <2>9, FS_Bijection
  <2> QED  BY <2>4, <2>10 DEF Chase!Cardinality, Cardinality
<1>3. ChaseInv => Chase!OwnSection
  BY <1>1, <1>2 DEF Chase!OwnSection, Part
<1>4. MainInv => OwnSection
  BY <1>3 DEF MainInv, OwnSection, Exchanging, Chasing
<1> QED  BY <1>4, Invariant, PTL

\* In each of the five tests the two workers push the word up in turns, and a
\* round that is reported is a whole one, whatever earlier rounds left behind
\* and whichever submissions failed.
THEOREM ExchangeIsStrict == MainSpec => []StrictExchange
<1>1. ASSUME IInv PROVE StrictExchange
  <2>1. ASSUME test # "svm_buffer", Started
        PROVE  {current[i] : i \in Workers} = {word + 1, word + 2}
    <3>1. Running
      BY <1>1, <2>1, ItemsAre
      DEF IInv, Types, Rounds, Copying, Started, Workers
    <3>2. {current[i] : i \in Workers} = {current[pair[1]], current[pair[2]]}
      BY DEF Workers
    <3>3. QED
      BY <3>1, <3>2 DEF Running, Turns
  <2>2. ASSUME host = "report"
        PROVE  word = Limit /\ \A i \in Workers : current[i] > Limit
    <3>1. CASE test = "svm_buffer"
      <4>1. Workers = {0, 1} /\ Limit \in Int
        BY <1>1, <3>1, SMT DEF IInv, Types, Workers, Limit
      <4>2. word = Limit /\ current[1] = Limit + 2 /\ current[0] = Limit + 1
        BY <1>1, <2>2, <3>1 DEF IInv, Buffers
      <4>3. QED
        BY <4>1, <4>2, SMT
    <3>2. CASE test # "svm_buffer"
      <4>1. Exchanged /\ Types
        BY <1>1, <2>2, <3>2 DEF IInv, Rounds
      <4>2. /\ current[pair[1]] > Limit /\ current[pair[2]] > Limit
            /\ Turns
        BY <4>1 DEF Exchanged, Workers
      <4>3. word \in Int /\ Limit \in Int
        BY <4>1, SMT DEF Types, Limit
      <4>4. word = Limit
        BY <4>2, <4>3, SMT DEF Turns
      <4>5. QED
        BY <4>1, <4>4 DEF Exchanged
    <3>3. QED
      BY <3>1, <3>2
  <2>3. QED
    BY <2>1, <2>2 DEF StrictExchange
<1>2. ASSUME host = None, buffer = None PROVE StrictExchange
  BY <1>2 DEF StrictExchange, Started, None
<1>3. MainInv => StrictExchange
  BY <1>1, <1>2 DEF MainInv
<1>4. QED
  BY <1>3, Invariant, PTL

\* The buffer is freed when nobody uses it any more, unless the kernel of
\* runAtomicsTest cannot be submitted while its CPU thread already runs.
THEOREM BufferOutlives ==
  ASSUME "svm_atomics" \notin FailingTests
  PROVE  MainSpec => []BufferOutlivesWorkers
<1>1. ASSUME IInv PROVE BufferOutlivesWorkers
  <2>1. SUFFICES ASSUME buffer = "freed", NEW i \in Items
                 PROVE  pc[i] \in {"none", "done"}
    BY DEF BufferOutlivesWorkers
  <2>2. host = "returned"
    BY <1>1, <2>1 DEF IInv, Types
  <2>3. CASE test = "svm_buffer"
    <3>1. pc[0] \in {"none", "done"} /\ pc[1] = "none"
      BY <1>1, <2>2, <2>3 DEF IInv, Buffers
    <3>2. i = 0 \/ i = 1
      BY <2>3, SMT DEF Items
    <3>3. QED
      BY <3>1, <3>2
  <2>4. CASE test # "svm_buffer"
    BY <1>1, <2>2, <2>4 DEF IInv, Rounds, Quiet
  <2>5. QED
    BY <2>3, <2>4
<1>2. ASSUME host = None, buffer = None PROVE BufferOutlivesWorkers
  BY <1>2 DEF BufferOutlivesWorkers, None
<1>3. MainInv => BufferOutlivesWorkers
  BY <1>1, <1>2 DEF MainInv
<1>4. QED
  BY <1>3, Invariant, PTL

=============================================================================
