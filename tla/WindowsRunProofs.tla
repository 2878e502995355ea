--------------------------- MODULE WindowsRunProofs --------------------------
(***************************************************************************)
(* Proofs about WindowsRun and the two exchanges it runs, for every number *)
(* of iterations, processors and offsets: every entry of the matrix        *)
(* measures one exchange in strict turns, whichever test main was asked    *)
(* for, on a machine with store buffers and with or without the sfence.    *)
(***************************************************************************)
EXTENDS WindowsRun, TLAPS

\* The invariant of the owned words.  OneStoreInFlight alone says nothing of
\* who may store next: the threads take turns, the one that is behind is the
\* one that stores, and only when the other's store has reached memory.
Words ==
  /\ owned \in [Thread -> Int]
  /\ current \in [Thread -> Int]
  /\ pc \in [Thread -> {"loop", "store", "done"}]
  /\ buffer \in [Thread -> Seq(Int)]

Turns == current[1] = current[2] + 1 \/ current[2] = current[1] + 1

\* A thread has one store on its way, its last one, or none.
Buffered ==
  \A t \in Thread :
    \/ buffer[t] = <<>> /\ owned[t] = current[t] - 2
    \/ /\ buffer[t] = <<current[t] - 2>>
       /\ owned[t] = current[t] - 4
       /\ current[t] = current[Other(t)] + 1

Storing ==
  \A t \in Thread :
    pc[t] = "store" => /\ current[t] = current[Other(t)] - 1
                       /\ buffer[Other(t)] = <<>>

\* The threads' values keep their parities, and pass the limit only to leave.
Within ==
  \A t \in Thread :
    /\ owned[t] >= 0 /\ current[t] >= 2 /\ current[t] <= Limit + 2
    /\ current[t] % 2 = t % 2
    /\ pc[t] = "store" => current[t] <= Limit
    /\ pc[t] = "done" => current[t] > Limit

OwnedInv == Words /\ Turns /\ Buffered /\ Storing /\ Within

-----------------------------------------------------------------------------
LEMMA Others ==
  /\ Other(1) = 2 /\ Other(2) = 1
  /\ \A t \in Thread : Other(t) \in Thread /\ Other(t) # t /\ Other(Other(t)) = t
  BY SMT DEF Other, Thread

LEMMA OneElement ==
  ASSUME NEW x \in Int
  PROVE  /\ Append(<<>>, x) = <<x>>
         /\ Head(<<x>>) = x /\ Tail(<<x>>) = <<>>
         /\ <<x>> # <<>> /\ Len(<<x>>) = 1
  BY SMT

LEMMA LimitType ==
  Limit \in Nat /\ Limit >= 2 /\ Limit % 2 = 0 /\ Limit = 2 * Iterations
  BY IterationsAssumption, SMT DEF Limit

LEMMA AddTwo ==
  ASSUME NEW x \in Int PROVE (x + 2) % 2 = x % 2 /\ (x - 2) % 2 = x % 2
  BY SMT

LEMMA Initially == Init => OwnedInv
<1> SUFFICES ASSUME Init PROVE OwnedInv
  OBVIOUS
<1>1. Words /\ Turns /\ Buffered /\ Storing
  BY Others, SMT
  DEF Init, Words, Turns, Buffered, Storing, Start, Thread, Other
<1>2. Within
  BY LimitType, SMT DEF Init, Within, Start, Thread
<1> QED  BY <1>1, <1>2 DEF OwnedInv

LEMMA LoadKeeps ==
  ASSUME OwnedInv, NEW t \in Thread, Load(t) PROVE OwnedInv'
<1> DEFINE o == Other(t)
<1>1. o \in Thread /\ o # t
  BY Others
<1>2. owned[o] = current[t] - 1 /\ UNCHANGED <<owned, buffer, current>>
  BY DEF Load, SeesPrevious, ReadTarget
<1>3. Words' /\ Turns' /\ Buffered'
  BY <1>2 DEF Load, OwnedInv, Words, Turns, Buffered
<1>4. current[t] = current[o] - 1 /\ buffer[o] = <<>>
  <2>1. current[t] = current[o] + 1 \/ current[o] = current[t] + 1
    BY <1>1, SMT DEF OwnedInv, Turns, Thread
  <2>2. \/ buffer[o] = <<>> /\ owned[o] = current[o] - 2
        \/ owned[o] = current[o] - 4
    BY <1>1 DEF OwnedInv, Buffered
  <2>3. current[t] \in Int /\ current[o] \in Int
    BY <1>1 DEF OwnedInv, Words
  <2> QED  BY <1>2, <2>1, <2>2, <2>3, SMT
<1>5. Storing'
  <2>1. SUFFICES ASSUME NEW u \in Thread, pc'[u] = "store"
                 PROVE  current[u] = current[Other(u)] - 1 /\ buffer[Other(u)] = <<>>
    BY <1>2 DEF Storing
  <2>2. CASE u = t
    BY <1>4, <2>2
  <2>3. CASE u # t
    <3>1. pc[u] = "store"
      BY <2>1, <2>3 DEF Load, OwnedInv, Words
    <3> QED  BY <3>1 DEF OwnedInv, Storing
  <2> QED  BY <2>2, <2>3
<1>6. Within'
  BY <1>2 DEF Load, WhileTest, OwnedInv, Words, Within
<1> QED  BY <1>3, <1>5, <1>6 DEF OwnedInv

LEMMA StoreKeeps ==
  ASSUME OwnedInv, NEW t \in Thread, Store(t) PROVE OwnedInv'
<1> DEFINE o == Other(t)
<1>1. o \in Thread /\ o # t /\ Other(o) = t
  BY Others
<1>2. current[t] = current[o] - 1 /\ buffer[o] = <<>>
  BY DEF Store, OwnedInv, Storing
<1>3. current[t] \in Int /\ current[o] \in Int
  BY <1>1 DEF OwnedInv, Words
<1>4. buffer[t] = <<>> /\ owned[t] = current[t] - 2
  <2>1. current[t] # current[o] + 1
    BY <1>2, <1>3, SMT
  <2> QED  BY <2>1 DEF OwnedInv, Buffered
<1>5. /\ current' = [current EXCEPT ![t] = current[t] + 2]
      /\ buffer' = [buffer EXCEPT ![t] = <<current[t]>>]
      /\ pc' = [pc EXCEPT ![t] = "loop"] /\ owned' = owned
  BY <1>3, <1>4, OneElement DEF Store
<1>6. /\ current'[t] = current[t] + 2 /\ current'[o] = current[o]
      /\ buffer'[t] = <<current[t]>> /\ buffer'[o] = <<>>
      /\ pc'[t] = "loop" /\ pc'[o] = pc[o]
  BY <1>1, <1>2, <1>5 DEF OwnedInv, Words
<1>7. Words'
  <2>1. <<current[t]>> \in Seq(Int) /\ current[t] + 2 \in Int
    BY <1>3, SMT
  <2> QED  BY <1>5, <2>1 DEF OwnedInv, Words
<1>8. Turns'
  BY <1>1, <1>2, <1>3, <1>6, SMT DEF Turns, Thread
<1>9. Buffered'
  <2>1. /\ buffer'[t] = <<current'[t] - 2>> /\ owned[t] = current'[t] - 4
        /\ current'[t] = current'[o] + 1
    <3>1. current'[t] - 2 = current[t]
      BY <1>3, <1>6, SMT
    <3> QED  BY <1>2, <1>3, <1>4, <1>6, <3>1, SMT
  <2>2. owned[o] = current[o] - 2
    <3>1. current[o] - 2 \in Int
      BY <1>3, SMT
    <3>2. buffer[o] # <<current[o] - 2>>
      BY <1>2, <3>1, OneElement
    <3> QED  BY <1>1, <3>2 DEF OwnedInv, Buffered
  <2>3. \A u \in Thread : u = t \/ u = o
    BY <1>1, SMT DEF Thread
  <2> QED  BY <1>5, <1>6, <2>1, <2>2, <2>3 DEF Buffered
<1>10. Storing'
  <2>1. pc[o] # "store"
    BY <1>1, <1>2, <1>3, SMT DEF OwnedInv, Storing
  <2>2. \A u \in Thread : u = t \/ u = o
    BY <1>1, SMT DEF Thread
  <2> QED  BY <1>6, <2>1, <2>2 DEF Storing
<1>11. Within'
  <2>1. current[t] <= Limit /\ current[t] >= 2 /\ current[t] % 2 = t % 2
    BY DEF Store, OwnedInv, Within
  <2>2. /\ current'[t] >= 2 /\ current'[t] <= Limit + 2 /\ current'[t] % 2 = t % 2
        /\ pc'[t] = "loop"
    BY <1>3, <1>6, <2>1, AddTwo, LimitType, SMT
  <2>3. \A u \in Thread : u = t \/ u = o
    BY <1>1, SMT DEF Thread
  <2> QED  BY <1>1, <1>5, <1>6, <2>2, <2>3 DEF OwnedInv, Within
<1> QED  BY <1>7, <1>8, <1>9, <1>10, <1>11 DEF OwnedInv

LEMMA DrainKeeps ==
  ASSUME OwnedInv, NEW t \in Thread, Drain(t) PROVE OwnedInv'
<1> DEFINE o == Other(t)
<1>1. o \in Thread /\ o # t /\ Other(o) = t
  BY Others
<1>2. current[t] \in Int /\ current[o] \in Int /\ current[t] - 2 \in Int
  BY <1>1, SMT DEF OwnedInv, Words
<1>3. /\ buffer[t] = <<current[t] - 2>> /\ owned[t] = current[t] - 4
      /\ current[t] = current[o] + 1
  BY DEF Drain, OwnedInv, Buffered
<1>4. /\ owned' = [owned EXCEPT ![t] = current[t] - 2]
      /\ buffer' = [buffer EXCEPT ![t] = <<>>] /\ UNCHANGED <<current, pc>>
  BY <1>2, <1>3, OneElement DEF Drain
<1>5. /\ owned'[t] = current[t] - 2 /\ owned'[o] = owned[o]
      /\ buffer'[t] = <<>> /\ buffer'[o] = buffer[o]
  BY <1>1, <1>4 DEF OwnedInv, Words
<1>6. Words'
  <2>1. <<>> \in Seq(Int)
    BY SMT
  <2> QED  BY <1>2, <1>4, <2>1 DEF OwnedInv, Words
<1>7. \A u \in Thread : u = t \/ u = o
  BY <1>1, SMT DEF Thread
<1>8. Buffered'
  BY <1>1, <1>4, <1>5, <1>7 DEF OwnedInv, Buffered
<1>9. Storing'
  BY <1>1, <1>4, <1>5, <1>7 DEF OwnedInv, Storing
<1>10. Within'
  <2>1. owned'[t] >= 0
    BY <1>2, <1>5, SMT DEF OwnedInv, Within
  <2> QED  BY <1>1, <1>4, <1>5, <1>7, <2>1 DEF OwnedInv, Within
<1> QED  BY <1>4, <1>6, <1>8, <1>9, <1>10 DEF OwnedInv, Turns

LEMMA OwnedStepKeeps ==
  ASSUME OwnedInv, NEW t \in Thread, ThreadStep(t) \/ Drain(t) PROVE OwnedInv'
<1>1. ASSUME Exit(t) PROVE OwnedInv'
  <2>1. UNCHANGED <<owned, buffer, current>> /\ current[t] > Limit
    <3>1. current[t] \in Int /\ ~ (current[t] <= Limit)
      BY <1>1 DEF Exit, WhileTest, OwnedInv, Words
    <3> QED  BY <1>1, <3>1, LimitType, SMT DEF Exit
  <2>2. pc' = [pc EXCEPT ![t] = "done"]
    BY <1>1 DEF Exit
  <2>3. Words' /\ Turns' /\ Buffered' /\ Storing'
    BY <2>1, <2>2 DEF OwnedInv, Words, Turns, Buffered, Storing
  <2>4. Within'
    BY <2>1, <2>2 DEF OwnedInv, Words, Within
  <2> QED  BY <2>3, <2>4 DEF OwnedInv
<1> QED  BY <1>1, LoadKeeps, StoreKeeps, DrainKeeps DEF ThreadStep

LEMMA OwnedStays ==
  ASSUME OwnedInv, UNCHANGED vars PROVE OwnedInv'
  BY DEF vars, OwnedInv, Words, Turns, Buffered, Storing, Within

-----------------------------------------------------------------------------
\* The invariant of the bounced word.  Before the first pair it may hold
\* anything, so the turns are only claimed of threads that run.
BounceInv ==
  /\ bouncy \in 0 .. Limit
  /\ current \in [Thread -> 1 .. Limit + 2]
  /\ pc \in [Thread -> {"loop", "done"}]
  /\ buffer = [t \in Thread |-> <<>>]
  /\ running => /\ Bounce!Alternation
                /\ \A t \in Thread : pc[t] = "done" => current[t] > Limit

\* The compare-and-swap of the thread whose turn it is.
LEMMA AdvanceKeeps ==
  ASSUME BounceInv, running, NEW t \in Thread, Bounce!CompareAndSwap(t)
  PROVE  /\ bouncy < Limit /\ bouncy' = bouncy + 1
         /\ t = IF bouncy % 2 = 0 THEN 1 ELSE 2
         /\ current' = [current EXCEPT ![t] = current[t] + 2]
         /\ current' \in [Thread -> 1 .. Limit + 2]
         /\ Bounce!Alternation'
         /\ UNCHANGED pc
<1>1. /\ current[t] <= Limit /\ bouncy = current[t] - 1 /\ bouncy' = current[t]
      /\ current' = [current EXCEPT ![t] = current[t] + 2] /\ UNCHANGED pc
  BY DEF Bounce!CompareAndSwap, Bounce!WhileTest, Bounce!SeesPrevious,
         Bounce!Advance, Bounce!Limit, Limit
<1>2. /\ bouncy \in 0 .. Limit /\ current \in [{1, 2} -> 1 .. Limit + 2]
      /\ IF bouncy % 2 = 0
         THEN current[1] = bouncy + 1 /\ current[2] = bouncy + 2
         ELSE current[2] = bouncy + 1 /\ current[1] = bouncy + 2
  BY DEF BounceInv, Bounce!Alternation, Thread
<1>3. /\ bouncy < Limit /\ bouncy' = bouncy + 1
      /\ t = IF bouncy % 2 = 0 THEN 1 ELSE 2
  BY <1>1, <1>2, LimitType, SMT DEF Thread
<1>4. current[t] + 2 \in 1 .. Limit + 2
  BY <1>1, <1>2, LimitType, SMT DEF Thread
<1>5. current' \in [Thread -> 1 .. Limit + 2]
  BY <1>1, <1>2, <1>4 DEF Thread
<1>6. Bounce!Alternation'
  <2>1. CASE t = 1
    BY <1>1, <1>2, <1>3, <2>1, SMT DEF Bounce!Alternation
  <2>2. CASE t = 2
    BY <1>1, <1>2, <1>3, <2>2, SMT DEF Bounce!Alternation
  <2> QED  BY <2>1, <2>2 DEF Thread
<1> QED  BY <1>1, <1>3, <1>5, <1>6

LEMMA BounceStepKeeps ==
  ASSUME BounceInv, running, NEW t \in Thread, Bounce!ThreadStep(t),
         UNCHANGED <<owned, buffer, running>>
  PROVE  BounceInv'
<1>1. ASSUME Bounce!CompareAndSwap(t) PROVE BounceInv'
  <2>1. bouncy' \in 0 .. Limit
    BY <1>1, AdvanceKeeps, LimitType, SMT DEF BounceInv
  <2>2. \A u \in Thread : pc'[u] = "done" => current'[u] > Limit
    BY <1>1, AdvanceKeeps, LimitType, SMT DEF BounceInv, Thread
  <2> QED  BY <1>1, <2>1, <2>2, AdvanceKeeps DEF BounceInv
<1>2. ~ Bounce!Load(t) /\ ~ Bounce!Store(t)
  BY DEF Bounce!Load, Bounce!Store, BounceInv
<1>3. ASSUME Bounce!Exit(t) PROVE BounceInv'
  <2>1. /\ ~ (current[t] <= Limit) /\ UNCHANGED <<bouncy, current>>
        /\ pc' = [pc EXCEPT ![t] = "done"]
    BY <1>3 DEF Bounce!Exit, Bounce!WhileTest, Bounce!Limit, Limit
  <2>2. current[t] > Limit
    BY <2>1, LimitType, SMT DEF BounceInv
  <2> QED  BY <2>1, <2>2 DEF BounceInv, Bounce!Alternation
<1> QED  BY <1>1, <1>2, <1>3 DEF Bounce!ThreadStep

-----------------------------------------------------------------------------
\* What main keeps, and the invariant of the test it runs.
MainPart ==
  /\ test \in {"RunTest", "RunOwnedTest"}
  /\ main \in {"allocate", "test", "returned"}
  /\ running \in BOOLEAN
  /\ running => More
  /\ entry \in 0 .. offsets * numProcs * numProcs
  /\ latencies \in [Entries -> {"unset", "zero", "failed", "measured"}]

MainInv ==
  /\ MainPart
  /\ IF test = "RunTest" THEN BounceInv ELSE OwnedInv

LEMMA EntriesType == offsets * numProcs * numProcs \in Nat
<1>1. numProcs \in Nat /\ offsets \in Nat
  BY WindowsRunAssumption
<1>2. offsets * numProcs \in Nat
  BY <1>1, SMT
<1> QED  BY <1>1, <1>2, SMT

LEMMA EnterKeeps ==
  ASSUME MainPart, More, NEW what \in {"zero", "failed", "measured"}, Enter(what)
  PROVE  /\ entry' \in 0 .. offsets * numProcs * numProcs
         /\ latencies' \in [Entries -> {"unset", "zero", "failed", "measured"}]
<1>1. entry' \in 0 .. offsets * numProcs * numProcs
  <2> DEFINE n == offsets * numProcs * numProcs
  <2>1. n \in Nat /\ entry \in 0 .. n - 1 /\ entry' = entry + 1
    BY EntriesType DEF More, Entries, Enter, NextEntry
  <2> HIDE DEF n
  <2>2. entry' \in 0 .. n
    BY <2>1, SMT
  <2> QED  BY <2>2 DEF n
<1>2. latencies' = [latencies EXCEPT ![entry] = what]
  BY DEF Enter
<1> QED  BY <1>1, <1>2 DEF MainPart

LEMMA MainInitially == MainInit => MainInv
<1> SUFFICES ASSUME MainInit PROVE MainInv
  OBVIOUS
<1>1. MainPart
  <2>1. 0 \in 0 .. offsets * numProcs * numProcs
    <3> DEFINE n == offsets * numProcs * numProcs
    <3>1. n \in Nat
      BY EntriesType
    <3> HIDE DEF n
    <3>2. 0 \in 0 .. n
      BY <3>1, SMT
    <3> QED  BY <3>2 DEF n
  <2> QED  BY <2>1 DEF MainInit, MainPart
<1>2. OwnedInv
  BY Initially DEF MainInit
<1>3. BounceInv
  BY LimitType, SMT DEF MainInit, Init, BounceInv, Start, Thread
<1> QED  BY <1>1, <1>2, <1>3 DEF MainInv

\* The words of a new pair.
LEMMA PrepareKeeps ==
  ASSUME MainInv, Prepare
  PROVE  /\ IF test = "RunTest" THEN BounceInv' ELSE OwnedInv'
         /\ NewTest
<1>1. ~ running /\ UNCHANGED test /\ test \in {"RunTest", "RunOwnedTest"}
  BY DEF Prepare, MainInv, MainPart
<1>2. CASE test = "RunTest"
  <2>1. /\ bouncy' = 0 /\ current' = [t \in Thread |-> t]
        /\ pc' = [t \in Thread |-> "loop"] /\ buffer' = [t \in Thread |-> <<>>]
    BY <1>2 DEF Prepare, Reset
  <2>2. BounceInv'
    <3>1. /\ bouncy' \in 0 .. Limit
          /\ current' \in [Thread -> 1 .. Limit + 2]
          /\ pc' \in [Thread -> {"loop", "done"}]
      BY <2>1, LimitType, SMT DEF Thread
    <3>2. Bounce!Alternation'
      BY <2>1, SMT DEF Bounce!Alternation, Thread
    <3> QED  BY <2>1, <3>1, <3>2 DEF BounceInv
  <2>3. Value' = First
    BY <1>1, <1>2, <2>1 DEF Value, First
  <2>4. Writes' = [t \in Thread |-> 0]
    <3>1. \A t \in Thread : (t - t) \div 2 = 0
      BY SMT DEF Thread
    <3>2. Writes' = [t \in Thread |-> (t - t) \div 2]
      BY <1>1, <1>2, <2>1 DEF Writes, Bounce!Published, Bounce!Thread, Thread
    <3> QED  BY <3>1, <3>2
  <2> QED  BY <1>1, <1>2, <2>2, <2>3, <2>4 DEF NewTest
<1>3. CASE test = "RunOwnedTest"
  <2>1. Init'
    BY <1>3 DEF Prepare, Init
  <2>2. OwnedInv'
    BY <1>3, <2>1, LimitType, SMT
    DEF Init, OwnedInv, Words, Turns, Buffered, Storing, Within, Start, Thread, Other
  <2>3. owned' = [t \in Thread |-> IF t = 1 THEN 1 ELSE 0]
    BY DEF Prepare
  <2>4. Value' = First
    BY <1>1, <1>3, <2>3, SMT DEF Value, Latest, First, Thread
  <2>5. Writes' = [t \in Thread |-> 0]
    <3>1. \A t \in Thread : (owned'[t] - IF t = 1 THEN 1 ELSE 0) \div 2 = 0
      BY <2>3, SMT DEF Thread
    <3>2. Writes' = [t \in Thread |-> (owned'[t] - IF t = 1 THEN 1 ELSE 0) \div 2]
      BY <1>1, <1>3 DEF Writes, Published
    <3> QED  BY <3>1, <3>2
  <2> QED  BY <1>1, <1>3, <2>2, <2>4, <2>5 DEF NewTest
<1> QED  BY <1>1, <1>2, <1>3

-----------------------------------------------------------------------------
\* What a step publishes is one abstract Publish of the same worker.
LEMMA Publishes ==
  ASSUME NEW t \in Thread, Value \in Int,
         Value < Limit, t = (IF Value % 2 = 0 THEN 1 ELSE 2), Value' = Value + 1,
         Writes' = [Writes EXCEPT ![t] = Writes[t] + 1]
  PROVE  Bounced!PPNext
<1>1. t \in Bounced!Worker /\ t = Bounced!Turn
  BY DEF Thread, Bounced!Worker, Bounced!Turn
<1> QED  BY <1>1 DEF Bounced!PPNext, Bounced!Publish, Limit

LEMMA HalfOfTwoMore ==
  ASSUME NEW x \in Int PROVE (x + 2) \div 2 = (x \div 2) + 1
  BY SMT

LEMMA BouncePublishes ==
  ASSUME test = "RunTest", UNCHANGED test, BounceInv, running,
         NEW t \in Thread, Bounce!CompareAndSwap(t)
  PROVE  Bounced!PPNext
<1>1. Value = bouncy /\ Value' = bouncy'
  BY DEF Value
<1>2. /\ Writes = [u \in Thread |-> (current[u] - u) \div 2]
      /\ Writes' = [u \in Thread |-> (current'[u] - u) \div 2]
  BY DEF Writes, Bounce!Published, Bounce!Thread, Thread
<1>3. /\ current' = [current EXCEPT ![t] = current[t] + 2]
      /\ current \in [Thread -> Int]
  BY AdvanceKeeps, LimitType, SMT DEF BounceInv
<1>4. (current'[t] - t) \div 2 = ((current[t] - t) \div 2) + 1
  <2>1. current[t] - t \in Int /\ current'[t] - t = (current[t] - t) + 2
    BY <1>3, SMT DEF Thread
  <2> QED  BY <2>1, HalfOfTwoMore
<1>5. Writes' = [Writes EXCEPT ![t] = Writes[t] + 1]
  BY <1>2, <1>3, <1>4
<1>6. Value \in Int
  BY <1>1, SMT DEF BounceInv
<1> QED  BY <1>1, <1>5, <1>6, AdvanceKeeps, Publishes

\* A store that reaches memory is one above the other thread's word.
LEMMA DrainPublishes ==
  ASSUME test = "RunOwnedTest", UNCHANGED test, OwnedInv,
         NEW t \in Thread, Drain(t)
  PROVE  Bounced!PPNext
<1> DEFINE o == Other(t)
           base(u) == IF u = 1 THEN 1 ELSE 0
<1>1. o \in Thread /\ o # t /\ Other(o) = t
  BY Others
<1>2. current[t] \in Int /\ current[o] \in Int /\ current[t] - 2 \in Int
  BY <1>1, SMT DEF OwnedInv, Words
<1>3. /\ buffer[t] = <<current[t] - 2>> /\ owned[t] = current[t] - 4
      /\ current[t] = current[o] + 1
  BY DEF Drain, OwnedInv, Buffered
<1>4. owned' = [owned EXCEPT ![t] = current[t] - 2]
  BY <1>2, <1>3, OneElement DEF Drain
<1>5. owned[o] = current[t] - 3
  <2>1. current[o] # current[t] + 1
    BY <1>2, <1>3, SMT
  <2>2. owned[o] = current[o] - 2
    BY <1>1, <2>1 DEF OwnedInv, Buffered
  <2> QED  BY <1>2, <1>3, <2>2, SMT
<1>6. /\ owned'[t] = current[t] - 2 /\ owned'[o] = current[t] - 3
      /\ owned \in [Thread -> Int]
  BY <1>1, <1>4, <1>5 DEF OwnedInv, Words
<1>7. Value = current[t] - 3 /\ Value' = current[t] - 2
  <2>1. CASE t = 1
    BY <1>2, <1>3, <1>5, <1>6, <2>1, Others, SMT DEF Value, Latest
  <2>2. CASE t = 2
    BY <1>2, <1>3, <1>5, <1>6, <2>2, Others, SMT DEF Value, Latest
  <2> QED  BY <2>1, <2>2 DEF Thread
<1>8. Value < Limit /\ t = IF Value % 2 = 0 THEN 1 ELSE 2
  <2>1. current[t] <= Limit + 2 /\ current[t] % 2 = t % 2
    BY DEF OwnedInv, Within
  <2> QED  BY <1>2, <1>7, <2>1, LimitType, SMT DEF Thread
<1>9. /\ Writes = [u \in Thread |-> (owned[u] - base(u)) \div 2]
      /\ Writes' = [u \in Thread |-> (owned'[u] - base(u)) \div 2]
  BY DEF Writes, Published
<1>10. (owned'[t] - base(t)) \div 2 = ((owned[t] - base(t)) \div 2) + 1
  <2>1. /\ owned[t] - base(t) \in Int
        /\ owned'[t] - base(t) = (owned[t] - base(t)) + 2
    BY <1>2, <1>3, <1>6, SMT
  <2> QED  BY <2>1, HalfOfTwoMore
<1>11. Writes' = [Writes EXCEPT ![t] = Writes[t] + 1]
  BY <1>4, <1>6, <1>9, <1>10
<1>12. Value \in Int /\ Value' = Value + 1
  BY <1>2, <1>7, SMT
<1> QED  BY <1>8, <1>11, <1>12, Publishes

\* Both threads have returned: the last value has arrived.
LEMMA WaitedIsComplete ==
  ASSUME MainInv, running, Waited PROVE Value = Limit
<1>1. CASE test = "RunTest"
  <2>1. \A t \in Thread : current[t] > Limit
    BY <1>1 DEF MainInv, BounceInv, Waited, Bounce!Done, Bounce!Thread, Thread
  <2> QED
    BY <1>1, <2>1, LimitType, SMT
    DEF MainInv, BounceInv, Bounce!Alternation, Value, Thread
<1>2. CASE test = "RunOwnedTest"
  <2>1. \A t \in Thread : pc[t] = "done" /\ buffer[t] = <<>>
    BY <1>2 DEF Waited, Done
  <2>2. OwnedInv
    BY <1>2 DEF MainInv
  <2>3. \A t \in Thread : current[t] \in Int /\ owned[t] = current[t] - 2
    <3> TAKE t \in Thread
    <3>1. current[t] \in Int /\ current[t] - 2 \in Int
      BY <2>2, SMT DEF OwnedInv, Words
    <3>2. buffer[t] # <<current[t] - 2>>
      BY <2>1, <3>1, OneElement
    <3> QED  BY <2>2, <3>1, <3>2 DEF OwnedInv, Buffered
  <2>4. \A t \in Thread :
          current[t] > Limit /\ current[t] <= Limit + 2 /\ current[t] % 2 = t % 2
    BY <2>1, <2>2 DEF OwnedInv, Within
  <2>5. current[1] = Limit + 1 /\ current[2] = Limit + 2
    BY <2>3, <2>4, LimitType, SMT DEF Thread
  <2> QED  BY <1>2, <2>3, <2>5, LimitType, SMT DEF Value, Latest, Thread
<1> QED  BY <1>1, <1>2 DEF MainInv, MainPart

-----------------------------------------------------------------------------
\* What a step of the whole program does to the exchange of the pair it tests.
Exchange ==
  /\ NewTest \/ Bounced!PPNext \/ UNCHANGED <<Value, Writes>>
  /\ running /\ ~ running' => Value = Limit

LEMMA SameWords ==
  ASSUME UNCHANGED <<vars, test, bouncy>>
  PROVE  UNCHANGED <<Value, Writes>>
  BY DEF vars, Value, Writes, Latest, Published, Bounce!Published

LEMMA SameTest ==
  ASSUME MainInv, UNCHANGED <<vars, test, bouncy>>, running' => running
  PROVE  IF test = "RunTest" THEN BounceInv' ELSE OwnedInv'
  BY OwnedStays DEF MainInv, vars, BounceInv, Bounce!Alternation

LEMMA PairStepKeeps ==
  ASSUME MainInv, NEW t \in Thread, PairStep(t)
  PROVE  MainInv' /\ Exchange
<1>1. running /\ UNCHANGED <<test, main, entry, running, latencies>>
  BY DEF PairStep
<1>2. MainPart'
  BY <1>1 DEF MainInv, MainPart, More
<1>3. CASE test = "RunTest"
  <2>1. BounceInv /\ Bounce!ThreadStep(t) /\ UNCHANGED <<owned, buffer>>
    BY <1>3 DEF PairStep, MainInv
  <2>2. BounceInv'
    BY <1>1, <2>1, BounceStepKeeps
  <2>3. Bounced!PPNext \/ UNCHANGED <<Value, Writes>>
    <3>1. ~ Bounce!Load(t) /\ ~ Bounce!Store(t)
      BY <2>1 DEF Bounce!Load, Bounce!Store, BounceInv
    <3>2. ASSUME Bounce!Exit(t) PROVE UNCHANGED <<Value, Writes>>
      BY <1>1, <1>3, <3>2 DEF Bounce!Exit, Value, Writes, Bounce!Published
    <3> QED  BY <1>1, <1>3, <2>1, <3>1, <3>2, BouncePublishes DEF Bounce!ThreadStep
  <2> QED  BY <1>1, <1>2, <1>3, <2>2, <2>3 DEF MainInv, Exchange
<1>4. CASE test = "RunOwnedTest"
  <2>1. OwnedInv /\ (ThreadStep(t) \/ Drain(t))
    BY <1>4 DEF PairStep, MainInv
  <2>2. OwnedInv'
    BY <2>1, OwnedStepKeeps
  <2>3. Bounced!PPNext \/ UNCHANGED <<Value, Writes>>
    <3>1. ASSUME ThreadStep(t) PROVE UNCHANGED <<Value, Writes>>
      BY <1>1, <1>4, <3>1
      DEF ThreadStep, Load, Store, Exit, Value, Writes, Latest, Published
    <3> QED  BY <1>1, <1>4, <2>1, <3>1, DrainPublishes
  <2> QED  BY <1>1, <1>2, <1>4, <2>2, <2>3 DEF MainInv, Exchange
<1> QED  BY <1>3, <1>4 DEF MainInv, MainPart

LEMMA MainStepKeeps ==
  ASSUME MainInv, [MainNext]_<<vars, mainVars>> PROVE MainInv' /\ Exchange
<1>1. ASSUME Skip PROVE MainInv' /\ Exchange
  <2>1. /\ ~ running /\ More /\ Enter("zero")
        /\ UNCHANGED <<vars, test, main, bouncy, running>>
    BY <1>1 DEF Skip
  <2>2. MainPart'
    BY <2>1, EnterKeeps DEF MainInv, MainPart
  <2> QED  BY <2>1, <2>2, SameTest, SameWords DEF MainInv, Exchange
<1>2. ASSUME Resume PROVE MainInv' /\ Exchange
  <2>1. /\ Prepare /\ ~ running /\ running' = TRUE
        /\ UNCHANGED <<test, main, entry, latencies>> /\ More
    BY <1>2 DEF Resume, Prepare
  <2>2. MainPart'
    BY <2>1 DEF MainInv, MainPart, More
  <2> QED  BY <2>1, <2>2, PrepareKeeps DEF MainInv, Exchange
<1>3. ASSUME CreateFails PROVE MainInv' /\ Exchange
  <2>1. /\ Prepare /\ ~ running /\ More /\ Enter("failed")
        /\ UNCHANGED <<test, main, running>>
    BY <1>3 DEF CreateFails, Prepare
  <2>2. MainPart'
    BY <2>1, EnterKeeps DEF MainInv, MainPart
  <2> QED  BY <2>1, <2>2, PrepareKeeps DEF MainInv, Exchange
<1>4. ASSUME Measure PROVE MainInv' /\ Exchange
  <2>1. /\ running /\ Waited /\ running' = FALSE /\ Enter("measured")
        /\ UNCHANGED <<vars, test, main, bouncy>>
    BY <1>4 DEF Measure
  <2>2. MainPart'
    BY <2>1, EnterKeeps DEF MainInv, MainPart
  <2>3. Value = Limit
    BY <2>1, WaitedIsComplete
  <2> QED  BY <2>1, <2>2, <2>3, SameTest, SameWords DEF MainInv, Exchange
<1>5. ASSUME NEW t \in Thread, PairStep(t) PROVE MainInv' /\ Exchange
  BY <1>5, PairStepKeeps
<1>6. CASE UNCHANGED <<vars, mainVars>>
  <2>1. UNCHANGED <<vars, test, bouncy>> /\ UNCHANGED <<main, running, entry, latencies>>
    BY <1>6 DEF mainVars
  <2>2. MainPart'
    BY <2>1 DEF MainInv, MainPart, More
  <2> QED  BY <2>1, <2>2, SameTest, SameWords DEF MainInv, Exchange
<1>7. ASSUME Allocate \/ AllocateFails PROVE MainInv' /\ Exchange
  <2>1. /\ main = "allocate" /\ main' \in {"test", "returned"}
        /\ UNCHANGED <<vars, test, bouncy, entry, running, latencies>>
    BY <1>7 DEF Allocate, AllocateFails
  <2>2. ~ running
    BY <2>1 DEF MainInv, MainPart, More
  <2>3. MainPart'
    BY <2>1, <2>2 DEF MainInv, MainPart
  <2> QED  BY <2>1, <2>2, <2>3, SameTest, SameWords DEF MainInv, Exchange
<1> QED
  BY <1>1, <1>2, <1>3, <1>4, <1>5, <1>6, <1>7 DEF MainNext, MainStep, Printed

LEMMA MainInvariant == MainSpec => []MainInv
<1>1. MainInv /\ [MainNext]_<<vars, mainVars>> => MainInv'
  BY MainStepKeeps
<1> QED  BY <1>1, MainInitially, PTL DEF MainSpec

-----------------------------------------------------------------------------
\* main never writes behind the end of its matrices, and no word, counter or
\* buffer leaves 0 .. 2 * iterations, for every number of processors, offsets
\* and iterations (main, RunTest, RunOwnedTest).
THEOREM MainTypeCorrect == MainSpec => []MainTypeOK
<1>1. MainInv => MainTypeOK
  <2> SUFFICES ASSUME MainInv PROVE MainTypeOK
    OBVIOUS
  <2>1. CASE test = "RunTest"
    <3>1. Bounce!TypeOK
      BY <2>1
      DEF MainInv, BounceInv, Bounce!TypeOK, Bounce!ThreadFuncs, Bounce!Thread,
          Bounce!Limit, Thread, Limit
    <3> QED  BY <2>1, <3>1 DEF MainInv, MainPart, MainTypeOK
  <2>2. CASE test = "RunOwnedTest"
    <3>1. OwnedInv
      BY <2>2 DEF MainInv
    <3>2. ASSUME NEW t \in Thread
          PROVE  /\ owned[t] \in 0 .. Limit /\ owned[t] % 2 = t % 2
                 /\ current[t] \in 1 .. Limit + 2 /\ current[t] % 2 = t % 2
                 /\ buffer[t] \in Seq(2 .. Limit)
      <4>1. /\ current[t] \in Int /\ owned[t] \in Int
            /\ owned[t] >= 0 /\ current[t] >= 2 /\ current[t] <= Limit + 2
            /\ current[t] % 2 = t % 2
        BY <3>1 DEF OwnedInv, Words, Within
      <4>2. CASE buffer[t] = <<>> /\ owned[t] = current[t] - 2
        <5>1. <<>> \in Seq(2 .. Limit)
          BY SMT
        <5> QED  BY <4>1, <4>2, <5>1, AddTwo, LimitType, SMT
      <4>3. CASE buffer[t] = <<current[t] - 2>> /\ owned[t] = current[t] - 4
        <5>1. current[t] - 2 \in 2 .. Limit
          BY <4>1, <4>3, LimitType, SMT
        <5>2. <<current[t] - 2>> \in Seq(2 .. Limit)
          BY <5>1, SMT
        <5>3. owned[t] \in 0 .. Limit /\ owned[t] % 2 = t % 2
          BY <4>1, <4>3, LimitType, SMT
        <5> QED  BY <4>1, <4>3, <5>2, <5>3, LimitType, SMT
      <4> QED  BY <3>1, <4>2, <4>3 DEF OwnedInv, Buffered
    <3>3. TypeOK
      BY <3>1, <3>2 DEF OwnedInv, Words, TypeOK
    <3> QED  BY <2>2, <3>3 DEF MainInv, MainPart, MainTypeOK
  <2> QED  BY <2>1, <2>2 DEF MainInv, MainPart
<1> QED  BY <1>1, MainInvariant, PTL

\* At most one store of the pair is on its way to memory, whatever the number
\* of iterations and however long a core keeps a store back: a time measured by
\* RunOwnedTest is that of one transfer after another.
THEOREM OneTransferAtATime == MainSpec => []OneStoreInFlight
<1>1. BounceInv => OneStoreInFlight
  <2>1. Len(<<>>) = 0
    BY SMT
  <2>2. \A t \in Thread : Other(t) \in Thread
    BY Others
  <2>3. BounceInv => \A t \in Thread : buffer[t] = <<>> /\ buffer[Other(t)] = <<>>
    BY <2>2 DEF BounceInv
  <2>4. 0 <= 1
    BY SMT
  <2> QED  BY <2>1, <2>3, <2>4 DEF OneStoreInFlight
<1>2. OwnedInv => OneStoreInFlight
  <2>1. SUFFICES ASSUME OwnedInv, NEW t \in Thread
                 PROVE  /\ Len(buffer[t]) <= 1
                        /\ buffer[t] # <<>> => buffer[Other(t)] = <<>>
    BY DEF OneStoreInFlight
  <2>2. Other(t) \in Thread /\ Other(Other(t)) = t
    BY Others
  <2>3. current[t] \in Int /\ current[Other(t)] \in Int /\ current[t] - 2 \in Int
    BY <2>1, <2>2, SMT DEF OwnedInv, Words
  <2>4. Len(<<>>) = 0
    BY SMT
  <2>5. CASE buffer[t] = <<>>
    BY <2>4, <2>5, SMT
  <2>6. CASE buffer[t] = <<current[t] - 2>> /\ current[t] = current[Other(t)] + 1
    <3>1. current[Other(t)] # current[t] + 1
      BY <2>3, <2>6, SMT
    <3>2. buffer[Other(t)] = <<>>
      BY <2>1, <2>2, <3>1 DEF OwnedInv, Buffered
    <3> QED  BY <2>3, <2>6, <3>2, OneElement, SMT
  <2> QED  BY <2>1, <2>5, <2>6 DEF OwnedInv, Buffered
<1>3. MainInv => OneStoreInFlight
  BY <1>1, <1>2 DEF MainInv
<1> QED  BY <1>3, MainInvariant, PTL

\* Every entry of the matrix, of either test, is the time of one exchange as
\* PingPong describes it: it starts at the first value whatever the pair
\* before left in the words, goes on in strict turns, and is only measured when
\* the word has reached 2 * iterations (RunTest, RunOwnedTest, TimeThreads).
THEOREM EntriesAreExchanges == MainSpec => EveryTestIsAnExchange
<1>1. MainInv /\ [MainNext]_<<vars, mainVars>> => Exchange
  BY MainStepKeeps
<1>2. MainInv /\ [MainNext]_<<vars, mainVars>> =>
        [/\ NewTest \/ Bounced!PPNext \/ UNCHANGED <<Value, Writes>>
         /\ running /\ ~ running' => Value = Limit]_<<vars, mainVars>>
  BY <1>1 DEF Exchange
<1> QED  BY <1>2, MainInvariant, PTL DEF MainSpec, EveryTestIsAnExchange

=============================================================================
