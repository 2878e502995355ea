-------------------------- MODULE CoherencyProofs ---------------------------
(***************************************************************************)
(* Proofs about the pthreads core-to-core test.                            *)
(*                                                                         *)
(* CoherencyRun, for any number of processors, offsets, slots and          *)
(* failures: the pairs of a round are disjoint, and what main prints was   *)
(* measured, each pair once.                                               *)
(*                                                                         *)
(* BouncePair, for any number of iterations: both thread functions keep    *)
(* the strict alternation, lose no update, complete the exchange, and      *)
(* implement PingPong.                                                     *)
(***************************************************************************)
EXTENDS CoherencyRun, BouncePair, SequenceTheorems, FiniteSetTheorems, TLAPS

Working == phase \in {"select", "launch", "join"}

\* The slots whose result main has still to record.
Pending == {k \in Slots : phase = "join" => k >= parallelIdx}

\* Where main is, as far as the indexes it uses are concerned.
Placed ==
  /\ Working => offsetIdx < Offsets
  /\ phase = "print" => offsetIdx = Offsets
  /\ phase \in {"launch", "join"} => parallelIdx \in Slots

\* The matrix marks exactly the pairs of the pending slots as running.
Marked ==
  Working =>
    /\ \A k \in Pending : parallelTestState[pairRunData[k].pair] = 1
    /\ \A p \in Procs \X Procs :
         parallelTestState[p] = 1 => \E k \in Pending : pairRunData[k].pair = p

\* A result is there exactly for the pairs that are marked as tested.
Measured ==
  /\ \A k \in Slots : pairRunData[k].result # "unset"
  /\ Working => \A p \in Pairs :
       latencies[offsetIdx][p] = "unset" <=> parallelTestState[p] # 2
  /\ \A o \in 0 .. Offsets - 1 : \A p \in Pairs :
       /\ o < offsetIdx => latencies[o][p] # "unset"
       /\ o > offsetIdx => latencies[o][p] = "unset"

\* A scan leaves a pair untested only for a pair it has selected.
Busy(p) == \E k \in Slots : \E a, b \in {1, 2} : pairRunData[k].pair[a] = p[b]

PassedOver ==
  phase = "select" =>
    \A p \in Pairs :
      p[1] * NumProcs + p[2] < pos /\ parallelTestState[p] = 0 => Busy(p)

IInv == MainTypeOK /\ DisjointPairs /\ Placed /\ Marked /\ Measured /\ PassedOver

-----------------------------------------------------------------------------
\* The position of a pair in the matrix, and the pair found there.
LEMMA Position ==
  ASSUME NEW n \in Nat \ {0}, NEW a \in 0 .. n - 1, NEW b \in 0 .. n - 1
  PROVE  /\ a * n + b \in Nat /\ a * n + b < n * n
         /\ (a * n + b) \div n = a /\ (a * n + b) % n = b
<1>1. a * n \in Nat
  BY SMT
<1>2. PICK d \in Nat : n = a + 1 + d
  BY SMT
<1>3. n * n = a * n + n + d * n /\ d * n \in Nat
  BY <1>2, SMT
<1>4. a * n + b \in Nat /\ a * n + b < n * n
  BY <1>1, <1>3, SMT
<1>5. PICK q \in Nat : q = (a * n + b) \div n
  BY <1>4, SMT
<1>6. PICK r \in 0 .. n - 1 : r = (a * n + b) % n
  BY <1>4, SMT
<1>7. a * n + b = n * q + r
  BY <1>4, <1>5, <1>6, SMT
<1>8. q = a
  <2>1. CASE q < a
    <3>1. PICK e \in Nat : a = q + 1 + e
      BY <2>1, SMT
    <3>2. a * n = n * q + n + e * n /\ e * n \in Nat
      BY <3>1, SMT
    <3> QED  BY <1>1, <1>7, <3>2, SMT
  <2>2. CASE q > a
    <3>1. PICK e \in Nat : q = a + 1 + e
      BY <2>2, SMT
    <3>2. n * q = a * n + n + e * n /\ e * n \in Nat
      BY <3>1, SMT
    <3> QED  BY <1>1, <1>7, <3>2, SMT
  <2> QED  BY <2>1, <2>2, SMT
<1>9. r = b
  <2>1. n * q = a * n
    BY <1>8, SMT
  <2> QED  BY <1>1, <1>7, <2>1, SMT
<1> QED  BY <1>4, <1>5, <1>6, <1>8, <1>9

\* A pair that the scan has just gone past is the one it looked at.
LEMMA AtPosition ==
  ASSUME MainTypeOK, NEW p \in Pairs, p[1] * NumProcs + p[2] < pos + 1
  PROVE  p[1] * NumProcs + p[2] < pos \/ p = Scanned
<1>1. p = <<p[1], p[2]>> /\ p[1] \in 0 .. NumProcs - 1 /\ p[2] \in 0 .. NumProcs - 1
  BY DEF Pairs, Procs
<1>2. /\ p[1] * NumProcs + p[2] \in Nat
      /\ (p[1] * NumProcs + p[2]) \div NumProcs = p[1]
      /\ (p[1] * NumProcs + p[2]) % NumProcs = p[2]
  BY <1>1, Position, CoherencyRunAssumption
<1>3. p[1] * NumProcs + p[2] < pos \/ p[1] * NumProcs + p[2] = pos
  BY <1>2, SMT DEF MainTypeOK
<1> QED  BY <1>1, <1>2, <1>3 DEF Scanned

LEMMA SlotTypes ==
  ASSUME MainTypeOK, NEW k \in Slots
  PROVE  /\ Len(pairRunData) \in Nat
         /\ pairRunData[k] \in SlotRecords
         /\ pairRunData[k].pair \in Pairs
         /\ pairRunData[k].pair \in Procs \X Procs
<1>1. pairRunData \in Seq(SlotRecords) /\ k \in 1 .. Len(pairRunData)
  BY DEF MainTypeOK, Slots
<1>2. Len(pairRunData) \in Nat /\ pairRunData[k] \in SlotRecords
  BY <1>1, LenProperties
<1> QED  BY <1>2 DEF SlotRecords, Pairs

\* A step of a slot changes neither its pair nor the number of slots.
LEMMA SamePairs ==
  ASSUME IInv, NEW k \in Slots, NEW r \in SlotRecords,
         r.pair = pairRunData[k].pair, r.result # "unset",
         pairRunData' = [pairRunData EXCEPT ![k] = r]
  PROVE  /\ pairRunData' \in Seq(SlotRecords) /\ Len(pairRunData') = Len(pairRunData)
         /\ Slots' = Slots /\ pairRunData' # <<>>
         /\ \A m \in Slots : pairRunData'[m].pair = pairRunData[m].pair
         /\ \A m \in Slots : pairRunData'[m].result # "unset"
         /\ DisjointPairs'
<1>1. pairRunData \in Seq(SlotRecords) /\ k \in 1 .. Len(pairRunData)
  BY DEF IInv, MainTypeOK, Slots
<1>2. /\ pairRunData' \in Seq(SlotRecords) /\ Len(pairRunData') = Len(pairRunData)
      /\ \A m \in 1 .. Len(pairRunData) :
           pairRunData'[m] = IF m = k THEN r ELSE pairRunData[m]
  BY <1>1, ExceptSeq
<1>3. Slots' = Slots
  BY <1>2 DEF Slots
<1>4. pairRunData' # <<>>
  BY <1>1, <1>2, EmptySeq, LenProperties, SMT
<1>5. \A m \in Slots : /\ pairRunData'[m].pair = pairRunData[m].pair
                       /\ pairRunData'[m].result # "unset"
  BY <1>2 DEF Slots, IInv, Measured
<1> QED  BY <1>2, <1>3, <1>4, <1>5 DEF IInv, DisjointPairs

LEMMA Initially == MainInit => IInv
<1> SUFFICES ASSUME MainInit PROVE IInv
  OBVIOUS
<1>1. Slots = {} /\ Len(pairRunData) = 0 /\ pairRunData \in Seq(SlotRecords)
  BY EmptySeq, SMT DEF MainInit, Slots
<1>2. MainTypeOK
  <2>1. NumProcs * NumProcs \in Nat
    BY CoherencyRunAssumption, SMT
  <2> QED  BY <1>1, <2>1, CoherencyRunAssumption, SMT DEF MainInit, MainTypeOK, Latencies
<1>3. DisjointPairs /\ Placed /\ Marked /\ Measured
  BY <1>1, CoherencyRunAssumption, SMT
  DEF MainInit, DisjointPairs, Placed, Working, Marked, Pending, Measured, Pairs
<1>4. PassedOver
  BY CoherencyRunAssumption, Position DEF MainInit, PassedOver, Pairs, Procs
<1> QED  BY <1>2, <1>3, <1>4 DEF IInv

-----------------------------------------------------------------------------
(* The scan.                                                               *)

LEMMA SelectKeeps ==
  ASSUME IInv, Select PROVE IInv'
<1> DEFINE n == Len(pairRunData) + 1
           r == [pair |-> Scanned, result |-> "zero", state |-> "selected"]
<1>1. /\ phase = "select" /\ Scanned \in Pairs /\ Scanned \in Procs \X Procs
      /\ parallelTestState[Scanned] = 0 /\ ValidPair(Scanned[1], Scanned[2])
      /\ Len(pairRunData) < ParallelismFactor /\ pos < NumProcs * NumProcs
      /\ pairRunData' = Append(pairRunData, r) /\ pos' = pos + 1
      /\ parallelTestState' = [parallelTestState EXCEPT ![Scanned] = 1]
      /\ UNCHANGED <<phase, offsetIdx, parallelIdx, latencies, stray, failures>>
  BY DEF Select, Scanning, RowsToScan, SlotsToFill, Pairs
<1>2. r \in SlotRecords
  BY <1>1, SMT DEF SlotRecords, Latencies
<1>3. pairRunData \in Seq(SlotRecords) /\ Len(pairRunData) \in Nat
  BY LenProperties DEF IInv, MainTypeOK
<1>4. /\ pairRunData' \in Seq(SlotRecords) /\ Len(pairRunData') = n
      /\ pairRunData' # <<>> /\ pairRunData'[n] = r
      /\ \A k \in 1 .. Len(pairRunData) : pairRunData'[k] = pairRunData[k]
  BY <1>1, <1>2, <1>3, AppendProperties
<1>5. Slots' = Slots \cup {n} /\ n \notin Slots
  BY <1>3, <1>4, SMT DEF Slots
<1>6. \A k \in Slots : pairRunData'[k] = pairRunData[k]
  BY <1>4 DEF Slots
<1>7. MainTypeOK'
  <2>1. parallelTestState' \in [Procs \X Procs -> 0 .. 2]
    BY <1>1, SMT DEF IInv, MainTypeOK
  <2>2. pos' \in 0 .. NumProcs * NumProcs
    BY <1>1, CoherencyRunAssumption, SMT DEF IInv, MainTypeOK
  <2>3. Len(pairRunData') <= ParallelismFactor
    BY <1>1, <1>3, <1>4, CoherencyRunAssumption, SMT
  <2> QED  BY <1>1, <1>4, <2>1, <2>2, <2>3 DEF IInv, MainTypeOK
<1>8. ASSUME NEW k \in Slots
      PROVE  \A a, b \in {1, 2} : pairRunData[k].pair[a] # Scanned[b]
  <2> DEFINE q == pairRunData[k].pair
  <2>1. q = <<q[1], q[2]>> /\ q[1] \in Procs /\ q[2] \in Procs
    BY SlotTypes DEF IInv
  <2>2. parallelTestState[<<q[1], q[2]>>] = 1
    BY <1>1, <2>1 DEF IInv, Marked, Working, Pending
  <2> HIDE DEF q
  <2>3. Scanned[1] # q[1] /\ Scanned[1] # q[2] /\ Scanned[2] # q[1] /\ Scanned[2] # q[2]
    BY <1>1, <2>1, <2>2 DEF ValidPair
  <2> QED  BY <2>3 DEF q
<1>9. DisjointPairs'
  BY <1>4, <1>5, <1>6, <1>8 DEF IInv, DisjointPairs
<1>10. Placed'
  BY <1>1 DEF IInv, Placed, Working
<1>11. Marked'
  <2>1. Pending' = Slots' /\ Pending = Slots
    BY <1>1 DEF Pending
  <2>2. \A k \in Slots : pairRunData[k].pair \in Procs \X Procs
    BY SlotTypes DEF IInv
  <2>3. \A q \in Procs \X Procs :
          parallelTestState'[q] = IF q = Scanned THEN 1 ELSE parallelTestState[q]
    BY <1>1 DEF IInv, MainTypeOK
  <2>4. pairRunData'[n].pair = Scanned
    BY <1>4
  <2>5. /\ \A k \in Slots : parallelTestState[pairRunData[k].pair] = 1
        /\ \A p \in Procs \X Procs :
             parallelTestState[p] = 1 => \E k \in Slots : pairRunData[k].pair = p
    BY <1>1, <2>1 DEF IInv, Marked, Working
  <2> HIDE DEF n
  <2>6. \A k \in Slots' : parallelTestState'[pairRunData'[k].pair] = 1
    <3>1. ASSUME NEW k \in Slots PROVE parallelTestState'[pairRunData'[k].pair] = 1
      BY <1>6, <2>2, <2>3, <2>5
    <3>2. parallelTestState'[pairRunData'[n].pair] = 1
      BY <1>1, <2>3, <2>4
    <3> QED  BY <1>5, <3>1, <3>2
  <2>7. ASSUME NEW p \in Procs \X Procs, parallelTestState'[p] = 1
        PROVE  \E k \in Slots' : pairRunData'[k].pair = p
    <3>1. CASE p = Scanned
      BY <1>5, <2>4, <3>1
    <3>2. CASE p # Scanned
      <4>1. parallelTestState[p] = 1
        BY <2>3, <2>7, <3>2
      <4>2. PICK k \in Slots : pairRunData[k].pair = p
        BY <2>5, <4>1
      <4> QED  BY <1>5, <1>6, <4>2
    <3> QED  BY <3>1, <3>2
  <2> QED  BY <2>1, <2>6, <2>7 DEF Marked
<1>12. Measured'
  <2>1. \A k \in Slots' : pairRunData'[k].result # "unset"
    BY <1>4, <1>5, <1>6 DEF IInv, Measured
  <2>2. \A p \in Pairs : parallelTestState'[p] = 2 <=> parallelTestState[p] = 2
    BY <1>1 DEF IInv, MainTypeOK, Pairs
  <2> QED  BY <1>1, <2>1, <2>2 DEF IInv, Measured, Working
<1>13. PassedOver'
  <2>1. SUFFICES ASSUME NEW p \in Pairs, p[1] * NumProcs + p[2] < pos + 1,
                        parallelTestState'[p] = 0
                 PROVE  Busy(p)'
    BY <1>1 DEF PassedOver
  <2>2. p # Scanned /\ parallelTestState[p] = 0
    BY <1>1, <2>1, SMT DEF IInv, MainTypeOK, Pairs
  <2>3. p[1] * NumProcs + p[2] < pos
    BY <2>1, <2>2, AtPosition DEF IInv
  <2>4. Busy(p)
    BY <1>1, <2>2, <2>3 DEF IInv, PassedOver
  <2> QED  BY <1>5, <1>6, <2>4 DEF Busy
<1> QED  BY <1>7, <1>9, <1>10, <1>11, <1>12, <1>13 DEF IInv

LEMMA PassOverKeeps ==
  ASSUME IInv, PassOver PROVE IInv'
<1>1. /\ phase = "select" /\ phase' \in {"select", "unexpected"}
      /\ pos < NumProcs * NumProcs /\ pos' = pos + 1
      /\ UNCHANGED <<offsetIdx, parallelTestState, pairRunData, parallelIdx,
                     latencies, stray, failures>>
  BY DEF PassOver, Scanning, RowsToScan
<1>2. MainTypeOK'
  <2>1. pos' \in 0 .. NumProcs * NumProcs
    BY <1>1, CoherencyRunAssumption, SMT DEF IInv, MainTypeOK
  <2> QED  BY <1>1, <2>1 DEF IInv, MainTypeOK
<1>3. DisjointPairs' /\ Placed' /\ Marked' /\ Measured'
  BY <1>1 DEF IInv, DisjointPairs, Placed, Marked, Measured, Working, Pending, Slots
<1>4. PassedOver'
  <2>1. SUFFICES ASSUME NEW p \in Pairs, p[1] * NumProcs + p[2] < pos + 1,
                        parallelTestState[p] = 0
                 PROVE  Busy(p)
    BY <1>1 DEF PassedOver, Busy, Slots
  <2>2. CASE p[1] * NumProcs + p[2] < pos
    BY <1>1, <2>1, <2>2 DEF IInv, PassedOver
  <2>3. CASE p = Scanned
    <3>1. ~ ValidPair(p[1], p[2])
      BY <2>1, <2>3 DEF PassOver
    <3>2. PICK q \in Procs \X Procs :
            /\ parallelTestState[q] = 1
            /\ {q[1], q[2]} \cap {p[1], p[2]} # {}
      <4>1. PICK c \in Procs :
              \/ parallelTestState[<<c, p[2]>>] = 1 \/ parallelTestState[<<p[1], c>>] = 1
              \/ parallelTestState[<<c, p[1]>>] = 1 \/ parallelTestState[<<p[2], c>>] = 1
        BY <3>1 DEF ValidPair
      <4>2. /\ <<c, p[2]>> \in Procs \X Procs /\ <<p[1], c>> \in Procs \X Procs
            /\ <<c, p[1]>> \in Procs \X Procs /\ <<p[2], c>> \in Procs \X Procs
        BY DEF Pairs
      <4> QED  BY <4>1, <4>2
    <3>3. PICK k \in Slots : pairRunData[k].pair = q
      BY <1>1, <3>2 DEF IInv, Marked, Working, Pending
    <3> QED  BY <3>2, <3>3 DEF Busy
  <2> QED  BY <2>1, <2>2, <2>3, AtPosition DEF IInv
<1> QED  BY <1>2, <1>3, <1>4 DEF IInv

LEMMA StartRoundKeeps ==
  ASSUME IInv, StartRound PROVE IInv'
<1>1. /\ phase = "select" /\ phase' = "launch" /\ parallelIdx' = 1
      /\ pairRunData # <<>>
      /\ UNCHANGED <<offsetIdx, pos, parallelTestState, pairRunData, latencies,
                     stray, failures>>
  BY DEF StartRound, ScanEnded
<1>2. 1 \in Slots
  BY <1>1, EmptySeq, SMT DEF IInv, MainTypeOK, Slots
<1>3. MainTypeOK'
  BY <1>1, CoherencyRunAssumption, SMT DEF IInv, MainTypeOK
<1>4. DisjointPairs' /\ Placed' /\ Marked' /\ Measured' /\ PassedOver'
  BY <1>1, <1>2
  DEF IInv, DisjointPairs, Placed, Marked, Measured, PassedOver, Working, Pending, Slots
<1> QED  BY <1>3, <1>4 DEF IInv

\* A scan that ends with a slot to spare has gone past every pair.
LEMMA ScanComplete ==
  ASSUME IInv, ScanEnded, Len(pairRunData) < ParallelismFactor, NEW p \in Pairs
  PROVE  p[1] * NumProcs + p[2] < pos
<1>1. ~ (pos < NumProcs * NumProcs)
  BY DEF ScanEnded, Scanning, RowsToScan, SlotsToFill
<1>2. p[1] \in 0 .. NumProcs - 1 /\ p[2] \in 0 .. NumProcs - 1
  BY DEF Pairs, Procs
<1>3. p[1] * NumProcs + p[2] \in Nat /\ p[1] * NumProcs + p[2] < NumProcs * NumProcs
  BY <1>2, Position, CoherencyRunAssumption
<1>4. NumProcs * NumProcs \in Nat
  BY CoherencyRunAssumption, SMT
<1> QED  BY <1>1, <1>3, <1>4, SMT DEF IInv, MainTypeOK

\* The last scan of an offset has seen every pair, and none was left to test.
LEMMA OffsetComplete ==
  ASSUME IInv, NextOffset, NEW p \in Pairs
  PROVE  latencies[offsetIdx][p] # "unset"
<1>1. phase = "select" /\ pairRunData = <<>> /\ ScanEnded
  BY DEF NextOffset, ScanEnded
<1>2. Slots = {} /\ Len(pairRunData) < ParallelismFactor
  BY <1>1, EmptySeq, CoherencyRunAssumption, SMT DEF Slots
<1>3. p \in Procs \X Procs
  BY DEF Pairs
<1>4. parallelTestState[p] # 0
  BY <1>1, <1>2, ScanComplete DEF IInv, PassedOver, Busy
<1>5. parallelTestState[p] # 1
  BY <1>1, <1>2, <1>3 DEF IInv, Marked, Working, Pending
<1>6. parallelTestState[p] \in 0 .. 2
  BY <1>3 DEF IInv, MainTypeOK
<1>7. parallelTestState[p] = 2
  BY <1>4, <1>5, <1>6, SMT
<1> QED  BY <1>1, <1>7 DEF IInv, Measured, Working

LEMMA NextOffsetKeeps ==
  ASSUME IInv, NextOffset PROVE IInv'
<1>1. /\ phase = "select" /\ pairRunData = <<>> /\ offsetIdx' = offsetIdx + 1
      /\ phase' = IF offsetIdx + 1 = Offsets THEN "print" ELSE "select"
      /\ pos' = 0 /\ parallelTestState' = [p \in Procs \X Procs |-> 0]
      /\ UNCHANGED <<pairRunData, parallelIdx, latencies, stray, failures>>
  BY DEF NextOffset, ScanEnded
<1>2. Slots = {} /\ Slots' = {}
  BY <1>1, EmptySeq, SMT DEF Slots
<1>3. offsetIdx < Offsets /\ offsetIdx \in Nat /\ Offsets \in Nat
  BY <1>1, CoherencyRunAssumption, SMT DEF IInv, Placed, Working, MainTypeOK
<1>4. MainTypeOK'
  <2>1. 0 \in 0 .. NumProcs * NumProcs
    BY CoherencyRunAssumption, SMT
  <2>2. offsetIdx' \in 0 .. Offsets
    BY <1>1, <1>3, SMT
  <2> QED  BY <1>1, <2>1, <2>2, SMT DEF IInv, MainTypeOK
<1>5. DisjointPairs' /\ Placed' /\ Marked'
  BY <1>1, <1>2, <1>3, SMT
  DEF DisjointPairs, Placed, Marked, Working, Pending
<1>6. Measured'
  <2>1. ASSUME NEW o \in 0 .. Offsets - 1, NEW p \in Pairs
        PROVE  /\ o < offsetIdx + 1 => latencies[o][p] # "unset"
               /\ o > offsetIdx => latencies[o][p] = "unset"
    <3>1. o < offsetIdx + 1 => o < offsetIdx \/ o = offsetIdx
      BY <1>3, SMT
    <3> QED  BY <3>1, OffsetComplete DEF IInv, Measured
  <2>2. \A o \in 0 .. Offsets - 1 : o > offsetIdx + 1 => o > offsetIdx
    BY <1>3, SMT
  <2>3. phase' = "select" => offsetIdx + 1 \in 0 .. Offsets - 1 /\ offsetIdx + 1 > offsetIdx
    BY <1>1, <1>3, SMT
  <2>4. \A p \in Pairs : parallelTestState'[p] # 2
    BY <1>1, SMT DEF Pairs
  <2> QED  BY <1>1, <1>2, <2>1, <2>2, <2>3, <2>4 DEF Measured, Working
<1>7. PassedOver'
  <2>1. ASSUME NEW p \in Pairs PROVE ~ (p[1] * NumProcs + p[2] < 0)
    <3>1. p[1] * NumProcs + p[2] \in Nat
      BY Position, CoherencyRunAssumption DEF Pairs, Procs
    <3> QED  BY <3>1, SMT
  <2> QED  BY <1>1, <2>1 DEF PassedOver
<1> QED  BY <1>4, <1>5, <1>6, <1>7 DEF IInv

-----------------------------------------------------------------------------
(* The round.                                                              *)

\* A slot with another state or another result is still a slot.
LEMMA SlotUpdates ==
  ASSUME IInv, NEW k \in Slots
  PROVE  /\ \A st \in {"selected", "launched", "absent", "timing", "finished"} :
              /\ [pairRunData[k] EXCEPT !.state = st] \in SlotRecords
              /\ [pairRunData[k] EXCEPT !.state = st].pair = pairRunData[k].pair
              /\ [pairRunData[k] EXCEPT !.state = st].result # "unset"
         /\ \A res \in {"latency", "disturbed"} :
              LET r == [pairRunData[k] EXCEPT !.state = "finished", !.result = res]
              IN  r \in SlotRecords /\ r.pair = pairRunData[k].pair /\ r.result # "unset"
<1>1. pairRunData[k] \in SlotRecords /\ pairRunData[k].result # "unset"
  BY SlotTypes DEF IInv, Measured
<1> QED  BY <1>1 DEF SlotRecords, Latencies

\* A step of slot k that leaves main where it is.
LEMMA SlotStepKeeps ==
  ASSUME IInv, NEW k \in Slots, NEW r \in SlotRecords,
         r.pair = pairRunData[k].pair, r.result # "unset",
         pairRunData' = [pairRunData EXCEPT ![k] = r],
         UNCHANGED scanVars, stray' \subseteq 1 .. ParallelismFactor,
         failures' \in 0 .. MaxFailures
  PROVE  IInv'
<1>1. /\ pairRunData' \in Seq(SlotRecords) /\ Len(pairRunData') = Len(pairRunData)
      /\ Slots' = Slots /\ pairRunData' # <<>>
      /\ \A m \in Slots : pairRunData'[m].pair = pairRunData[m].pair
      /\ \A m \in Slots : pairRunData'[m].result # "unset"
      /\ DisjointPairs'
  BY SamePairs
<1>2. MainTypeOK'
  BY <1>1 DEF IInv, MainTypeOK, scanVars
<1>3. Pending' = Pending /\ Pending \subseteq Slots
  BY <1>1 DEF Pending, scanVars
<1>4. Placed' /\ PassedOver'
  BY <1>1 DEF IInv, Placed, PassedOver, Busy, Working, scanVars
<1>5. Marked'
  <2>1. \A m \in Pending : pairRunData'[m].pair = pairRunData[m].pair
    BY <1>1, <1>3
  <2> QED  BY <1>3, <2>1 DEF IInv, Marked, Working, scanVars
<1>6. Measured'
  BY <1>1 DEF IInv, Measured, Working, scanVars
<1> QED  BY <1>1, <1>2, <1>4, <1>5, <1>6 DEF IInv

LEMMA RunTestKeeps ==
  ASSUME IInv, NEW k \in 1 .. ParallelismFactor, SlotStep(k) PROVE IInv'
<1>1. k \in Slots
  BY DEF SlotStep
<1>2. stray \subseteq 1 .. ParallelismFactor /\ failures \in 0 .. MaxFailures
  BY DEF IInv, MainTypeOK
<1>3. Fail => failures' \in 0 .. MaxFailures
  BY <1>2, CoherencyRunAssumption, SMT DEF Fail
<1>4. CASE CreateBoth(k)
  <2>1. pairRunData' = [pairRunData EXCEPT ![k] = [pairRunData[k] EXCEPT !.state = "timing"]]
    BY <1>4 DEF CreateBoth, SetState
  <2> QED  BY <1>1, <1>2, <1>4, <2>1, SlotUpdates, SlotStepKeeps DEF CreateBoth
<1>5. CASE CreateOne(k) \/ CreateNone(k)
  <2>1. pairRunData' = [pairRunData EXCEPT ![k] = [pairRunData[k] EXCEPT !.state = "finished"]]
    BY <1>5 DEF CreateOne, CreateNone, SetState
  <2>2. stray' \subseteq 1 .. ParallelismFactor /\ failures' \in 0 .. MaxFailures
        /\ UNCHANGED scanVars
    BY <1>2, <1>3, <1>5 DEF CreateOne, CreateNone
  <2> QED  BY <1>1, <2>1, <2>2, SlotUpdates, SlotStepKeeps
<1>6. CASE Finish(k)
  <2> DEFINE res == IF k \in stray THEN "disturbed" ELSE "latency"
  <2>1. pairRunData' = [pairRunData EXCEPT ![k] =
          [pairRunData[k] EXCEPT !.state = "finished", !.result = res]]
    BY <1>6 DEF Finish
  <2>2. res \in {"latency", "disturbed"}
    OBVIOUS
  <2> HIDE DEF res
  <2> QED  BY <1>1, <1>2, <1>6, <2>1, <2>2, SlotUpdates, SlotStepKeeps DEF Finish
<1> QED  BY <1>4, <1>5, <1>6 DEF SlotStep

LEMMA LaunchKeeps ==
  ASSUME IInv, Launch PROVE IInv'
<1>1. /\ phase = "launch" /\ parallelIdx \in Slots
      /\ UNCHANGED <<offsetIdx, pos, parallelTestState, latencies, stray>>
  BY DEF Launch, IInv, Placed
<1>2. PICK st \in {"launched", "absent"} : SetState(parallelIdx, st)
  BY DEF Launch
<1>3. failures' \in 0 .. MaxFailures
  BY CoherencyRunAssumption, SMT DEF Launch, Fail, IInv, MainTypeOK
<1>4. \/ phase' = "launch" /\ parallelIdx' = parallelIdx + 1 /\ parallelIdx + 1 \in Slots
      \/ phase' = "join" /\ parallelIdx' = 1 /\ 1 \in Slots
  <2>1. Len(pairRunData) \in Nat
    BY <1>1, SlotTypes DEF IInv
  <2> QED  BY <1>1, <2>1, SMT DEF Launch, Slots
<1>5. pairRunData' =
        [pairRunData EXCEPT ![parallelIdx] = [pairRunData[parallelIdx] EXCEPT !.state = st]]
  BY <1>2 DEF SetState
<1>6. /\ pairRunData' \in Seq(SlotRecords) /\ Len(pairRunData') = Len(pairRunData)
      /\ Slots' = Slots /\ pairRunData' # <<>>
      /\ \A m \in Slots : pairRunData'[m].pair = pairRunData[m].pair
      /\ \A m \in Slots : pairRunData'[m].result # "unset"
      /\ DisjointPairs'
  BY <1>1, <1>5, SlotUpdates, SamePairs
<1>7. MainTypeOK'
  <2>1. Slots \subseteq 1 .. ParallelismFactor
    <3>1. Len(pairRunData) \in Nat
      BY <1>1, SlotTypes DEF IInv
    <3> QED  BY <3>1, CoherencyRunAssumption, SMT DEF IInv, MainTypeOK, Slots
  <2> QED  BY <1>1, <1>3, <1>4, <1>6, <2>1 DEF IInv, MainTypeOK
<1>8. Pending' = Slots /\ Pending = Slots
  BY <1>1, <1>4, <1>6, SMT DEF Pending, Slots
<1>9. Marked'
  BY <1>1, <1>6, <1>8 DEF IInv, Marked, Working
<1>10. Placed' /\ PassedOver'
  BY <1>1, <1>4, <1>6 DEF IInv, Placed, PassedOver, Working
<1>11. Measured'
  BY <1>1, <1>6 DEF IInv, Measured, Working
<1> QED  BY <1>6, <1>7, <1>9, <1>10, <1>11 DEF IInv

LEMMA RecordKeeps ==
  ASSUME IInv, phase = "join", Record PROVE IInv'
<1> DEFINE q == pairRunData[parallelIdx].pair
           last == parallelIdx = Len(pairRunData)
<1>1. /\ parallelIdx \in Slots /\ Len(pairRunData) \in Nat
      /\ q \in Pairs /\ q \in Procs \X Procs
  BY SlotTypes DEF IInv, Placed
<1>2. /\ parallelTestState' = [parallelTestState EXCEPT ![q] = 2]
      /\ latencies' = [latencies EXCEPT ![offsetIdx] =
                         [@ EXCEPT ![q] = pairRunData[parallelIdx].result]]
      /\ UNCHANGED <<offsetIdx, stray, failures>>
  BY DEF Record, TestedMark
<1>3. \/ /\ ~ last /\ parallelIdx' = parallelIdx + 1 /\ parallelIdx + 1 \in Slots
         /\ UNCHANGED <<phase, pos, pairRunData>>
      \/ /\ last /\ phase' = "select" /\ pos' = 0 /\ pairRunData' = <<>>
         /\ parallelIdx' = 1
  BY <1>1, SMT DEF Record, Slots
<1>4. offsetIdx \in 0 .. Offsets - 1
  BY CoherencyRunAssumption, SMT DEF IInv, Placed, Working, MainTypeOK
<1>5. \A p \in Procs \X Procs :
        parallelTestState'[p] = IF p = q THEN 2 ELSE parallelTestState[p]
  BY <1>1, <1>2 DEF IInv, MainTypeOK
<1>6. /\ \A p \in Pairs : latencies'[offsetIdx][p] =
           IF p = q THEN pairRunData[parallelIdx].result ELSE latencies[offsetIdx][p]
      /\ \A o \in 0 .. Offsets - 1 : o # offsetIdx => latencies'[o] = latencies[o]
  BY <1>1, <1>2, <1>4 DEF IInv, MainTypeOK
<1>7. Slots' \subseteq Slots /\ (last => Slots' = {}) /\ (~ last => Slots' = Slots)
  BY <1>1, <1>3, EmptySeq, SMT DEF Slots
<1>8. MainTypeOK'
  <2>1. parallelTestState' \in [Procs \X Procs -> 0 .. 2]
    <3>1. 2 \in 0 .. 2
      BY SMT
    <3> HIDE DEF q
    <3> QED  BY <1>2, <3>1 DEF IInv, MainTypeOK
  <2>2. latencies' \in [0 .. Offsets - 1 -> [Pairs -> Latencies]]
    <3>1. pairRunData[parallelIdx].result \in Latencies
      BY <1>1, SlotTypes DEF IInv, SlotRecords
    <3>2. latencies[offsetIdx] \in [Pairs -> Latencies]
      BY <1>4 DEF IInv, MainTypeOK
    <3>3. [latencies[offsetIdx] EXCEPT ![q] = pairRunData[parallelIdx].result]
             \in [Pairs -> Latencies]
      BY <1>1, <3>1, <3>2
    <3> QED  BY <1>2, <1>4, <3>3 DEF IInv, MainTypeOK
  <2>3. parallelIdx' \in 1 .. ParallelismFactor
    BY <1>1, <1>3, CoherencyRunAssumption, SMT DEF IInv, MainTypeOK, Slots
  <2>4. pos' \in 0 .. NumProcs * NumProcs
    <3>1. NumProcs * NumProcs \in Nat
      BY CoherencyRunAssumption, SMT
    <3> QED  BY <1>3, <3>1, SMT DEF IInv, MainTypeOK
  <2>5. pairRunData' \in Seq(SlotRecords) /\ Len(pairRunData') <= ParallelismFactor
    <3>1. <<>> \in Seq(SlotRecords) /\ Len(<<>>) <= ParallelismFactor
      BY EmptySeq, CoherencyRunAssumption, SMT
    <3> QED  BY <1>3, <3>1 DEF IInv, MainTypeOK
  <2> QED  BY <1>2, <1>3, <2>1, <2>2, <2>3, <2>4, <2>5 DEF IInv, MainTypeOK
<1>9. DisjointPairs'
  BY <1>3, <1>7 DEF IInv, DisjointPairs
<1>10. Placed'
  BY <1>2, <1>3, <1>7 DEF IInv, Placed, Working
<1>11. Marked'
  <2>1. /\ \A k \in Slots : k >= parallelIdx => parallelTestState[pairRunData[k].pair] = 1
        /\ \A p \in Procs \X Procs : parallelTestState[p] = 1 =>
             \E k \in Slots : k >= parallelIdx /\ pairRunData[k].pair = p
    BY DEF IInv, Marked, Working, Pending
  <2>2. ASSUME ~ last PROVE Marked'
    <3>1. /\ phase' = "join" /\ pairRunData' = pairRunData /\ Slots' = Slots
          /\ parallelIdx' = parallelIdx + 1
      BY <1>3, <1>7, <2>2
    <3>2. \A k \in Slots : k >= parallelIdx + 1 <=> k >= parallelIdx /\ k # parallelIdx
      BY <1>1, SMT DEF Slots
    <3>3. \A k \in Slots : k # parallelIdx => pairRunData[k].pair # q
      BY <1>1 DEF IInv, DisjointPairs
    <3>4. \A k \in Slots : pairRunData[k].pair \in Procs \X Procs
      BY SlotTypes DEF IInv
    <3>5. \A k \in Slots : k >= parallelIdx + 1 =>
            parallelTestState'[pairRunData[k].pair] = 1
      BY <1>5, <2>1, <3>2, <3>3, <3>4
    <3>6. ASSUME NEW p \in Procs \X Procs, parallelTestState'[p] = 1
          PROVE  \E k \in Slots : k >= parallelIdx + 1 /\ pairRunData[k].pair = p
      <4>1. p # q /\ parallelTestState[p] = 1
        BY <1>5, <3>6, SMT
      <4>2. PICK k \in Slots : k >= parallelIdx /\ pairRunData[k].pair = p
        BY <2>1, <4>1
      <4> QED  BY <3>2, <4>1, <4>2
    <3> QED  BY <3>1, <3>5, <3>6 DEF Marked, Pending
  <2>3. ASSUME last PROVE Marked'
    <3>1. phase' = "select" /\ Slots' = {}
      BY <1>3, <1>7, <2>3
    <3>2. \A k \in Slots : k >= parallelIdx => k = parallelIdx
      BY <1>1, <2>3, SMT DEF Slots
    <3>3. ASSUME NEW p \in Procs \X Procs PROVE parallelTestState'[p] # 1
      BY <1>5, <2>1, <3>2, SMT
    <3> QED  BY <3>1, <3>3 DEF Marked, Pending
  <2> QED  BY <2>2, <2>3
<1>12. Measured'
  <2>1. pairRunData[parallelIdx].result # "unset"
    BY <1>1 DEF IInv, Measured
  <2>2. \A k \in Slots' : pairRunData'[k].result # "unset"
    BY <1>3, <1>7 DEF IInv, Measured
  <2>3. \A p \in Pairs : latencies[offsetIdx][p] = "unset" <=> parallelTestState[p] # 2
    BY DEF IInv, Measured, Working
  <2>4. \A p \in Pairs :
          latencies'[offsetIdx][p] = "unset" <=> parallelTestState'[p] # 2
    <3>1. \A p \in Pairs : p \in Procs \X Procs
      BY DEF Pairs
    <3> HIDE DEF q
    <3> QED  BY <1>5, <1>6, <2>1, <2>3, <3>1
  <2>5. \A o \in 0 .. Offsets - 1 : o < offsetIdx \/ o > offsetIdx => o # offsetIdx
    BY <1>4, SMT
  <2>6. \A o \in 0 .. Offsets - 1 : \A p \in Pairs :
          /\ o < offsetIdx => latencies'[o][p] # "unset"
          /\ o > offsetIdx => latencies'[o][p] = "unset"
    BY <1>6, <2>5 DEF IInv, Measured
  <2> QED  BY <1>2, <2>2, <2>4, <2>6 DEF Measured
<1>13. PassedOver'
  <2>1. ASSUME NEW p \in Pairs PROVE ~ (p[1] * NumProcs + p[2] < 0)
    <3>1. p[1] * NumProcs + p[2] \in Nat
      BY Position, CoherencyRunAssumption DEF Pairs, Procs
    <3> QED  BY <3>1, SMT
  <2> QED  BY <1>3, <2>1 DEF PassedOver
<1> QED  BY <1>8, <1>9, <1>10, <1>11, <1>12, <1>13 DEF IInv

-----------------------------------------------------------------------------
LEMMA Preserved ==
  ASSUME IInv, [MainNext]_allVars PROVE IInv'
<1>1. CASE Join \/ JoinAbsent
  <2>1. CASE phase = "join" /\ Record
    BY <2>1, RecordKeeps
  <2>2. CASE /\ phase' = "crashed"
             /\ UNCHANGED <<offsetIdx, pos, parallelTestState, pairRunData,
                            parallelIdx, latencies, stray, failures>>
    <3>1. Slots' = Slots
      BY <2>2 DEF Slots
    <3>2. MainTypeOK'
      BY <2>2 DEF IInv, MainTypeOK
    <3>3. DisjointPairs'
      BY <2>2, <3>1 DEF IInv, DisjointPairs
    <3>4. Placed' /\ Marked'
      BY <2>2 DEF IInv, Placed, Marked, Working
    <3>5. Measured'
      BY <2>2, <3>1 DEF IInv, Measured, Working
    <3>6. PassedOver'
      BY <2>2 DEF PassedOver
    <3> QED  BY <3>2, <3>3, <3>4, <3>5, <3>6 DEF IInv
  <2> QED  BY <1>1, <2>1, <2>2 DEF Join, JoinAbsent
<1>2. CASE UNCHANGED allVars
  <2>1. UNCHANGED <<phase, offsetIdx, pos, parallelTestState, pairRunData,
                    parallelIdx, latencies, stray, failures>>
    BY <1>2 DEF allVars, scanVars
  <2>2. Slots' = Slots
    BY <2>1 DEF Slots
  <2>3. Pending' = Pending
    BY <2>1, <2>2 DEF Pending
  <2>4. MainTypeOK'
    BY <2>1 DEF IInv, MainTypeOK
  <2>5. DisjointPairs' /\ Placed'
    BY <2>1, <2>2 DEF IInv, DisjointPairs, Placed, Working
  <2>6. Marked'
    BY <2>1, <2>3 DEF IInv, Marked, Working
  <2>7. Measured'
    BY <2>1, <2>2 DEF IInv, Measured, Working
  <2>8. PassedOver'
    BY <2>1, <2>2 DEF IInv, PassedOver, Busy
  <2> QED  BY <2>4, <2>5, <2>6, <2>7, <2>8 DEF IInv
<1> QED
  BY <1>1, <1>2, SelectKeeps, PassOverKeeps, StartRoundKeeps, NextOffsetKeeps,
     LaunchKeeps, RunTestKeeps
  DEF MainNext, MainStep, Ended

THEOREM Invariant == MainSpec => []IInv
<1> QED  BY Initially, Preserved, PTL DEF MainSpec

\* main never selects more pairs than it has slots for, and its indexes stay
\* inside its arrays.
THEOREM MainTypeCorrect == MainSpec => []MainTypeOK
<1>1. IInv => MainTypeOK
  BY DEF IInv
<1> QED  BY <1>1, Invariant, PTL

\* No processor takes part in two tests at a time, whatever the number of
\* processors and slots: the test of rows and columns is enough.
THEOREM PairsAreDisjoint == MainSpec => []DisjointPairs
<1>1. IInv => DisjointPairs
  BY DEF IInv
<1> QED  BY <1>1, Invariant, PTL

\* A scan that leaves a slot free leaves no pair that could have used it.
THEOREM RoundsAreMaximal == MainSpec => []RoundIsMaximal
<1>1. IInv => RoundIsMaximal
  <2>1. SUFFICES ASSUME IInv, ScanEnded, Len(pairRunData) < ParallelismFactor,
                        NEW p \in Pairs, parallelTestState[p] = 0
                 PROVE  Busy(p)
    BY DEF RoundIsMaximal, Busy
  <2>2. p[1] * NumProcs + p[2] < pos
    BY <2>1, ScanComplete
  <2> QED  BY <2>1, <2>2 DEF IInv, PassedOver, ScanEnded
<1> QED  BY <1>1, Invariant, PTL

\* Each pair is measured once at each offset, and before anything is printed:
\* the scan that selects nothing has found every pair tested.
THEOREM EachPairOnce == MainSpec => []MeasuredOnce
<1>1. IInv => MeasuredOnce
  <2>1. SUFFICES ASSUME IInv PROVE MeasuredOnce
    OBVIOUS
  <2>2. ASSUME phase \in {"select", "launch"}, NEW k \in Slots
        PROVE  latencies[offsetIdx][pairRunData[k].pair] = "unset"
    <3>1. pairRunData[k].pair \in Pairs
      BY <2>1, SlotTypes DEF IInv
    <3>2. parallelTestState[pairRunData[k].pair] # 2
      BY <2>1, <2>2, SMT DEF IInv, Marked, Working, Pending
    <3> QED  BY <2>1, <2>2, <3>1, <3>2 DEF IInv, Measured, Working
  <2>3. ASSUME phase = "print", NEW o \in 0 .. Offsets - 1, NEW p \in Pairs
        PROVE  latencies[o][p] # "unset"
    <3>1. o < offsetIdx
      BY <2>1, <2>3, CoherencyRunAssumption, SMT DEF IInv, Placed
    <3> QED  BY <2>1, <3>1 DEF IInv, Measured
  <2> QED  BY <2>2, <2>3 DEF MeasuredOnce
<1> QED  BY <1>1, Invariant, PTL

-----------------------------------------------------------------------------
(* A result of zero stands for a failure.  A creation that fails leaves a  *)
(* zero that is recorded later, at main's leisure: what is bounded by the  *)
(* failures are the zeros that are recorded and those that are on the way. *)

FailedSlot(k) ==
  \/ pairRunData[k].state = "absent"
  \/ pairRunData[k].state = "finished" /\ pairRunData[k].result = "zero"

OnItsWay(p) == \E k \in Pending : FailedSlot(k) /\ pairRunData[k].pair = p

FailedPairs(o) ==
  {p \in Pairs : latencies[o][p] = "zero" \/ (Working /\ o = offsetIdx /\ OnItsWay(p))}

Counted == \A o \in 0 .. Offsets - 1 : Cardinality(FailedPairs(o)) <= failures

LEMMA PairsFinite ==
  ASSUME NEW S \in SUBSET Pairs PROVE IsFiniteSet(S) /\ Cardinality(S) \in Nat
<1>1. IsFiniteSet(Procs)
  BY FS_Interval, CoherencyRunAssumption DEF Procs
<1>2. IsFiniteSet(Procs \X Procs)
  BY <1>1, FS_Product
<1>3. S \in SUBSET (Procs \X Procs)
  BY DEF Pairs
<1> QED  BY <1>2, <1>3, FS_Subset, FS_CardinalityType

\* A step that fails nothing, and one that fails the threads of pair x.
LEMMA NoMore ==
  ASSUME Counted, failures \in Nat, failures' \in Nat, failures <= failures',
         \A o \in 0 .. Offsets - 1 : FailedPairs(o)' \subseteq FailedPairs(o)
  PROVE  Counted'
<1>1. SUFFICES ASSUME NEW o \in 0 .. Offsets - 1
               PROVE  Cardinality(FailedPairs(o)') <= failures'
  BY DEF Counted
<1>2. FailedPairs(o) \in SUBSET Pairs
  BY DEF FailedPairs
<1>3. /\ IsFiniteSet(FailedPairs(o)) /\ Cardinality(FailedPairs(o)) \in Nat
      /\ FailedPairs(o)' \in SUBSET FailedPairs(o)
  BY <1>2, PairsFinite
<1>4. /\ Cardinality(FailedPairs(o)') \in Nat
      /\ Cardinality(FailedPairs(o)') <= Cardinality(FailedPairs(o))
  BY <1>2, <1>3, PairsFinite, FS_Subset
<1>5. Cardinality(FailedPairs(o)) <= failures
  BY DEF Counted
<1> QED  BY <1>3, <1>4, <1>5, SMT

LEMMA OneMore ==
  ASSUME Counted, failures \in Nat, failures' = failures + 1, NEW x \in Pairs,
         \A o \in 0 .. Offsets - 1 : FailedPairs(o)' \subseteq FailedPairs(o) \cup {x}
  PROVE  Counted'
<1>1. SUFFICES ASSUME NEW o \in 0 .. Offsets - 1
               PROVE  Cardinality(FailedPairs(o)') <= failures'
  BY DEF Counted
<1>2. FailedPairs(o) \in SUBSET Pairs
  BY DEF FailedPairs
<1> DEFINE more == FailedPairs(o) \cup {x}
<1>3. /\ IsFiniteSet(FailedPairs(o)) /\ Cardinality(FailedPairs(o)) \in Nat
      /\ FailedPairs(o)' \in SUBSET more
  BY <1>2, PairsFinite
<1>4. /\ IsFiniteSet(more) /\ Cardinality(more) \in Nat
      /\ Cardinality(more) <= Cardinality(FailedPairs(o)) + 1
  <2>1. /\ IsFiniteSet(more)
        /\ Cardinality(more) = IF x \in FailedPairs(o) THEN Cardinality(FailedPairs(o))
                                ELSE Cardinality(FailedPairs(o)) + 1
    BY <1>3, FS_AddElement
  <2> QED  BY <1>3, <2>1, SMT
<1>5. /\ Cardinality(FailedPairs(o)') \in Nat
      /\ Cardinality(FailedPairs(o)') <= Cardinality(more)
  <2>1. FailedPairs(o)' \in SUBSET Pairs
    BY <1>2, <1>3
  <2> HIDE DEF more
  <2> QED  BY <1>3, <1>4, <2>1, PairsFinite, FS_Subset
<1>6. Cardinality(FailedPairs(o)) <= failures
  BY DEF Counted
<1> HIDE DEF more
<1> QED  BY <1>3, <1>4, <1>5, <1>6, SMT

\* A slot changes its record: at most its own pair fails.
LEMMA SlotChanges ==
  ASSUME IInv, NEW k \in Slots, NEW r,
         r.pair = pairRunData[k].pair,
         pairRunData' = [pairRunData EXCEPT ![k] = r],
         Working, phase \in {"select", "launch"} \/ UNCHANGED <<phase, parallelIdx>>,
         UNCHANGED <<offsetIdx, latencies>>, NEW o \in 0 .. Offsets - 1
  PROVE  /\ FailedPairs(o)' \subseteq FailedPairs(o) \cup {pairRunData[k].pair}
         /\ r.state # "absent" /\ (r.state = "finished" => r.result # "zero") =>
              FailedPairs(o)' \subseteq FailedPairs(o)
<1>1. /\ Slots' = Slots
      /\ \A m \in Slots : pairRunData'[m] = IF m = k THEN r ELSE pairRunData[m]
  BY DEF IInv, MainTypeOK, Slots
<1>2. Pending' \subseteq Pending /\ Pending \subseteq Slots
  BY <1>1 DEF Pending
<1>3. ASSUME NEW m \in Pending', m # k, FailedSlot(m)'
      PROVE  FailedSlot(m) /\ pairRunData'[m].pair = pairRunData[m].pair
  BY <1>1, <1>2, <1>3 DEF FailedSlot
<1>4. pairRunData'[k] = r
  BY <1>1
<1>5. ASSUME NEW p \in Pairs, OnItsWay(p)', p # pairRunData[k].pair PROVE OnItsWay(p)
  BY <1>2, <1>3, <1>4, <1>5 DEF OnItsWay
<1>6. ASSUME r.state # "absent", r.state = "finished" => r.result # "zero",
             NEW p \in Pairs, OnItsWay(p)'
      PROVE  OnItsWay(p)
  <2>1. ~ FailedSlot(k)'
    BY <1>4, <1>6 DEF FailedSlot
  <2> QED  BY <1>2, <1>3, <1>6, <2>1 DEF OnItsWay
<1> QED  BY <1>5, <1>6 DEF FailedPairs

LEMMA RunTestCounts ==
  ASSUME IInv, Counted, Working, NEW k \in 1 .. ParallelismFactor, SlotStep(k)
  PROVE  Counted'
<1>1. /\ k \in Slots /\ pairRunData[k] \in SlotRecords /\ pairRunData[k].pair \in Pairs
  BY SlotTypes DEF SlotStep, IInv
<1>2. failures \in Nat
  BY CoherencyRunAssumption, SMT DEF IInv, MainTypeOK
<1>3. ASSUME UNCHANGED scanVars, UNCHANGED failures, NEW r \in SlotRecords,
             r.pair = pairRunData[k].pair, r.state # "absent",
             r.state = "finished" => r.result # "zero",
             pairRunData' = [pairRunData EXCEPT ![k] = r]
      PROVE  Counted'
  <2>1. \A o \in 0 .. Offsets - 1 : FailedPairs(o)' \subseteq FailedPairs(o)
    BY <1>1, <1>3, SlotChanges DEF scanVars
  <2> QED  BY <1>2, <1>3, <2>1, NoMore, SMT
<1>4. CASE CreateBoth(k)
  <2> DEFINE r == [pairRunData[k] EXCEPT !.state = "timing"]
  <2>1. pairRunData' = [pairRunData EXCEPT ![k] = r]
    BY <1>4 DEF CreateBoth, SetState
  <2>2. r \in SlotRecords /\ r.pair = pairRunData[k].pair /\ r.state = "timing"
    BY <1>1 DEF SlotRecords
  <2> QED  BY <1>3, <1>4, <2>1, <2>2 DEF CreateBoth
<1>5. CASE CreateOne(k) \/ CreateNone(k)
  <2> DEFINE r == [pairRunData[k] EXCEPT !.state = "finished"]
  <2>1. pairRunData' = [pairRunData EXCEPT ![k] = r]
    BY <1>5 DEF CreateOne, CreateNone, SetState
  <2>2. r.pair = pairRunData[k].pair
    BY <1>1 DEF SlotRecords
  <2>3. failures' = failures + 1 /\ UNCHANGED scanVars
    BY <1>5 DEF CreateOne, CreateNone, Fail
  <2>4. \A o \in 0 .. Offsets - 1 :
          FailedPairs(o)' \subseteq FailedPairs(o) \cup {pairRunData[k].pair}
    BY <1>1, <2>1, <2>2, <2>3, SlotChanges DEF scanVars
  <2> QED  BY <1>1, <1>2, <2>3, <2>4, OneMore
<1>6. CASE Finish(k)
  <2> DEFINE res == IF k \in stray THEN "disturbed" ELSE "latency"
             r == [pairRunData[k] EXCEPT !.state = "finished", !.result = res]
  <2>1. pairRunData' = [pairRunData EXCEPT ![k] = r]
    BY <1>6 DEF Finish
  <2>2. res \in {"latency", "disturbed"}
    OBVIOUS
  <2>3. r \in SlotRecords /\ r.pair = pairRunData[k].pair /\ r.result = res
    BY <1>1, <2>2 DEF SlotRecords, Latencies
  <2>4. r.state # "absent" /\ r.result # "zero"
    BY <1>1, <2>2, <2>3 DEF SlotRecords
  <2> QED  BY <1>3, <1>6, <2>1, <2>3, <2>4 DEF Finish
<1> QED  BY <1>4, <1>5, <1>6 DEF SlotStep

\* main creates a slot's thread, or cannot.
LEMMA LaunchCounts ==
  ASSUME IInv, Counted, Launch PROVE Counted'
<1> DEFINE k == parallelIdx
           launched == [pairRunData[k] EXCEPT !.state = "launched"]
           absent == [pairRunData[k] EXCEPT !.state = "absent"]
<1>1. /\ phase = "launch" /\ Working /\ k \in Slots
      /\ pairRunData[k] \in SlotRecords /\ pairRunData[k].pair \in Pairs
      /\ UNCHANGED <<offsetIdx, latencies>>
  BY SlotTypes DEF Launch, IInv, Placed, Working
<1>2. failures \in Nat
  BY CoherencyRunAssumption, SMT DEF IInv, MainTypeOK
<1>3. /\ launched.pair = pairRunData[k].pair /\ launched.state = "launched"
      /\ absent.pair = pairRunData[k].pair
  BY <1>1 DEF SlotRecords
<1>4. CASE SetState(k, "launched") /\ UNCHANGED failures
  <2>1. pairRunData' = [pairRunData EXCEPT ![k] = launched]
    BY <1>4 DEF SetState
  <2> HIDE DEF launched
  <2>2. \A o \in 0 .. Offsets - 1 : FailedPairs(o)' \subseteq FailedPairs(o)
    BY <1>1, <1>3, <2>1, SlotChanges
  <2> QED  BY <1>2, <1>4, <2>2, NoMore, SMT
<1>5. CASE SetState(k, "absent") /\ Fail
  <2>1. pairRunData' = [pairRunData EXCEPT ![k] = absent]
    BY <1>5 DEF SetState
  <2> HIDE DEF absent
  <2>2. \A o \in 0 .. Offsets - 1 :
          FailedPairs(o)' \subseteq FailedPairs(o) \cup {pairRunData[k].pair}
    BY <1>1, <1>3, <2>1, SlotChanges
  <2> QED  BY <1>1, <1>2, <1>5, <2>2, OneMore DEF Fail
<1> QED  BY <1>4, <1>5 DEF Launch

\* A recorded zero was on its way, because main waits for the slot's thread.
LEMMA RecordCounts ==
  ASSUME IInv, Counted, phase = "join", Record,
         pairRunData[parallelIdx].state \in {"finished", "absent"}
  PROVE  Counted'
<1> DEFINE k == parallelIdx
           q == pairRunData[k].pair
<1>1. k \in Slots /\ Len(pairRunData) \in Nat /\ q \in Pairs /\ Working
  BY SlotTypes DEF IInv, Placed, Working
<1>2. /\ latencies' = [latencies EXCEPT ![offsetIdx] = [@ EXCEPT ![q] = pairRunData[k].result]]
      /\ UNCHANGED <<offsetIdx, failures>>
  BY DEF Record
<1>3. offsetIdx \in 0 .. Offsets - 1
  BY CoherencyRunAssumption, SMT DEF IInv, Placed, Working, MainTypeOK
<1>4. /\ \A p \in Pairs : latencies'[offsetIdx][p] =
           IF p = q THEN pairRunData[k].result ELSE latencies[offsetIdx][p]
      /\ \A o \in 0 .. Offsets - 1 : o # offsetIdx => latencies'[o] = latencies[o]
  BY <1>1, <1>2, <1>3 DEF IInv, MainTypeOK
<1>5. \/ Pending' = {}
      \/ pairRunData' = pairRunData /\ Pending' \subseteq Pending
  <2>1. CASE k < Len(pairRunData)
    <3>1. UNCHANGED <<phase, pairRunData>> /\ parallelIdx' = k + 1
      BY <2>1 DEF Record
    <3>2. Slots' = Slots
      BY <3>1 DEF Slots
    <3>3. \A m \in Slots : m >= k + 1 => m >= k
      BY <1>1, SMT DEF Slots
    <3> QED  BY <3>1, <3>2, <3>3 DEF Pending
  <2>2. CASE ~ (k < Len(pairRunData))
    <3>1. Len(pairRunData') = 0
      BY <2>2, EmptySeq DEF Record
    <3>2. Slots' = {}
      BY <3>1, SMT DEF Slots
    <3> QED  BY <3>2 DEF Pending
  <2> QED  BY <2>1, <2>2
<1>6. \A p : OnItsWay(p)' => OnItsWay(p)
  <2>1. CASE Pending' = {}
    BY <2>1 DEF OnItsWay
  <2>2. CASE pairRunData' = pairRunData /\ Pending' \subseteq Pending
    BY <2>2 DEF OnItsWay, FailedSlot
  <2> QED  BY <1>5, <2>1, <2>2
<1>7. pairRunData[k].result = "zero" => OnItsWay(q)
  <2>1. k \in Pending
    BY <1>1, SMT DEF Pending, Slots
  <2> QED  BY <2>1 DEF OnItsWay, FailedSlot
<1>8. ASSUME NEW o \in 0 .. Offsets - 1, NEW p \in FailedPairs(o)'
      PROVE  p \in FailedPairs(o)
  <2>1. p \in Pairs
    BY <1>8 DEF FailedPairs
  <2>2. CASE o # offsetIdx
    BY <1>2, <1>4, <1>8, <2>1, <2>2 DEF FailedPairs
  <2>3. CASE o = offsetIdx /\ OnItsWay(p)'
    BY <1>1, <1>6, <2>1, <2>3 DEF FailedPairs
  <2>4. CASE o = offsetIdx /\ latencies'[o][p] = "zero"
    <3>1. CASE p = q
      <4>1. pairRunData[k].result = "zero"
        BY <1>4, <2>1, <2>4, <3>1
      <4> QED  BY <1>1, <1>7, <2>1, <2>4, <3>1, <4>1 DEF FailedPairs
    <3>2. CASE p # q
      BY <1>4, <2>1, <2>4, <3>2 DEF FailedPairs
    <3> QED  BY <3>1, <3>2
  <2> QED  BY <1>2, <1>8, <2>2, <2>3, <2>4 DEF FailedPairs
<1>9. failures \in Nat
  BY CoherencyRunAssumption, SMT DEF IInv, MainTypeOK
<1> QED  BY <1>2, <1>8, <1>9, NoMore, SMT

\* A pair that is selected has not failed yet.
LEMMA SelectCounts ==
  ASSUME IInv, Counted, Select PROVE Counted'
<1> DEFINE n == Len(pairRunData) + 1
           r == [pair |-> Scanned, result |-> "zero", state |-> "selected"]
<1>1. /\ phase = "select" /\ Scanned \in Pairs
      /\ pairRunData' = Append(pairRunData, r)
      /\ UNCHANGED <<phase, offsetIdx, latencies, failures>>
  BY DEF Select, Scanning
<1>2. r \in SlotRecords
  BY <1>1, SMT DEF SlotRecords, Latencies
<1>3. pairRunData \in Seq(SlotRecords) /\ Len(pairRunData) \in Nat
  BY LenProperties DEF IInv, MainTypeOK
<1>4. /\ Len(pairRunData') = n /\ pairRunData'[n] = r
      /\ \A k \in 1 .. Len(pairRunData) : pairRunData'[k] = pairRunData[k]
  BY <1>1, <1>2, <1>3, AppendProperties
<1>5. Slots' = Slots \cup {n}
  BY <1>3, <1>4, SMT DEF Slots
<1>6. Pending' = Pending \cup {n} /\ Pending = Slots
  BY <1>1, <1>5 DEF Pending
<1>7. \A k \in {n} : ~ FailedSlot(k)'
  BY <1>4 DEF FailedSlot
<1>8. \A k \in Slots : pairRunData'[k] = pairRunData[k]
  BY <1>4 DEF Slots
<1>9. \A p : OnItsWay(p)' => OnItsWay(p)
  BY <1>6, <1>7, <1>8 DEF OnItsWay, FailedSlot
<1>10. \A o \in 0 .. Offsets - 1 : FailedPairs(o)' \subseteq FailedPairs(o)
  BY <1>1, <1>9 DEF FailedPairs, Working
<1>11. failures \in Nat
  BY CoherencyRunAssumption, SMT DEF IInv, MainTypeOK
<1> QED  BY <1>1, <1>10, <1>11, NoMore, SMT

LEMMA CountsKept ==
  ASSUME IInv, Counted, [MainNext]_allVars PROVE Counted'
<1>1. failures \in Nat
  BY CoherencyRunAssumption, SMT DEF IInv, MainTypeOK
<1>2. ASSUME UNCHANGED <<latencies, failures>>,
             Working' => /\ Working /\ phase # "join" /\ UNCHANGED <<offsetIdx, pairRunData>>
      PROVE  Counted'
  <2>1. Working' => \A p : OnItsWay(p)' => OnItsWay(p)
    BY <1>2 DEF OnItsWay, FailedSlot, Pending, Slots, Working
  <2>2. \A o \in 0 .. Offsets - 1 : FailedPairs(o)' \subseteq FailedPairs(o)
    BY <1>2, <2>1 DEF FailedPairs
  <2> QED  BY <1>1, <1>2, <2>2, NoMore, SMT
<1>3. ASSUME UNCHANGED <<latencies, failures>>,
             UNCHANGED <<phase, offsetIdx, parallelIdx, pairRunData>>
      PROVE  Counted'
  <2>1. \A o \in 0 .. Offsets - 1 : FailedPairs(o)' = FailedPairs(o)
    BY <1>3 DEF FailedPairs, OnItsWay, FailedSlot, Pending, Slots, Working
  <2> QED  BY <1>1, <1>3, <2>1, NoMore, SMT
<1>4. CASE PassOver
  BY <1>2, <1>4 DEF PassOver, Scanning, Working
<1>5. CASE StartRound
  BY <1>2, <1>5 DEF StartRound, ScanEnded, Working
<1>6. CASE NextOffset
  <2>1. /\ pairRunData = <<>> /\ UNCHANGED <<pairRunData, latencies, failures>>
    BY <1>6 DEF NextOffset
  <2>2. Slots' = {}
    BY <2>1, EmptySeq, SMT DEF Slots
  <2>3. \A p : ~ OnItsWay(p)'
    BY <2>2 DEF OnItsWay, Pending
  <2>4. \A o \in 0 .. Offsets - 1 : FailedPairs(o)' \subseteq FailedPairs(o)
    BY <2>1, <2>3 DEF FailedPairs
  <2> QED  BY <1>1, <2>1, <2>4, NoMore, SMT
<1>7. CASE Join
  BY <1>7, RecordCounts DEF Join, JoinReturns
<1>8. CASE JoinAbsent
  <2>1. CASE phase' = "crashed" /\ UNCHANGED <<latencies, failures>>
    BY <1>2, <2>1 DEF Working
  <2> QED  BY <1>8, <2>1, RecordCounts DEF JoinAbsent
<1>9. ASSUME NEW k \in 1 .. ParallelismFactor, SlotStep(k) PROVE Counted'
  <2>1. CASE Working
    BY <1>9, <2>1, RunTestCounts
  <2>2. CASE ~ Working
    <3>1. UNCHANGED scanVars /\ failures' \in Nat /\ failures <= failures'
      BY <1>1, <1>9, SMT
      DEF SlotStep, CreateBoth, CreateOne, CreateNone, Finish, Fail
    <3>2. \A o \in 0 .. Offsets - 1 : FailedPairs(o)' \subseteq FailedPairs(o)
      BY <2>2, <3>1 DEF FailedPairs, Working, scanVars
    <3> QED  BY <1>1, <3>1, <3>2, NoMore
  <2> QED  BY <2>1, <2>2
<1>10. CASE UNCHANGED allVars
  BY <1>3, <1>10 DEF allVars, scanVars
<1> QED
  BY <1>4, <1>5, <1>6, <1>7, <1>8, <1>9, <1>10, SelectCounts, LaunchCounts
  DEF MainNext, MainStep, Ended

\* At no offset does main record more zeros than creations have failed: it
\* never records a slot whose exchange is still running (main, RunTest).
THEOREM ZerosAreFailures == MainSpec => []ZeroMeansFailed
<1>1. MainInit => Counted
  <2> SUFFICES ASSUME MainInit, NEW o \in 0 .. Offsets - 1
               PROVE  Cardinality(FailedPairs(o)) <= failures
    BY DEF Counted
  <2>1. Slots = {}
    BY EmptySeq, SMT DEF MainInit, Slots
  <2>2. FailedPairs(o) = {}
    BY <2>1 DEF MainInit, FailedPairs, OnItsWay, Pending
  <2>3. Cardinality(FailedPairs(o)) = 0 /\ failures = 0
    BY <2>2, FS_EmptySet DEF MainInit
  <2> QED  BY <2>3, SMT
<1>2. IInv /\ Counted => ZeroMeansFailed
  <2> SUFFICES ASSUME IInv, Counted, NEW o \in 0 .. Offsets - 1
               PROVE  Cardinality({p \in Pairs : latencies[o][p] = "zero"}) <= failures
    BY DEF ZeroMeansFailed
  <2> DEFINE zeros == {p \in Pairs : latencies[o][p] = "zero"}
  <2>1. zeros \in SUBSET FailedPairs(o) /\ FailedPairs(o) \in SUBSET Pairs
    BY DEF FailedPairs
  <2>2. zeros \in SUBSET Pairs
    OBVIOUS
  <2> HIDE DEF zeros
  <2>3. /\ IsFiniteSet(FailedPairs(o)) /\ Cardinality(FailedPairs(o)) \in Nat
        /\ Cardinality(zeros) \in Nat
    BY <2>1, <2>2, PairsFinite
  <2>4. Cardinality(zeros) <= Cardinality(FailedPairs(o))
    BY <2>1, <2>3, FS_Subset
  <2>5. Cardinality(FailedPairs(o)) <= failures /\ failures \in Nat
    BY CoherencyRunAssumption, SMT DEF Counted, IInv, MainTypeOK
  <2>6. Cardinality(zeros) <= failures
    BY <2>3, <2>4, <2>5, SMT
  <2> QED  BY <2>6 DEF zeros
<1>3. IInv /\ Counted /\ [MainNext]_allVars => Counted'
  BY CountsKept
<1> QED  BY <1>1, <1>2, <1>3, Invariant, PTL DEF MainSpec

-----------------------------------------------------------------------------
(* The exchange.                                                           *)

\* The inductive invariant.  Typing and the alternation alone are not
\* inductive: that a plain store still finds the value its load saw (StoreStands)
\* and that a thread leaves only past the limit (Exited) are needed too.
StoreStands ==
  \A t \in Thread :
    pc[t] = "store" => /\ threadFunc = "NoLockLatencyTestThread"
                       /\ target = current[t] - 1
                       /\ current[t] <= Limit

Exited == \A t \in Thread : pc[t] = "done" => current[t] > Limit

PairInv == TypeOK /\ Alternation /\ StoreStands /\ Exited

LEMMA LimitType == Limit \in Nat /\ Limit % 2 = 0 /\ Limit = 2 * Iterations
  BY IterationsAssumption, SMT DEF Limit

\* The effect of publishing, shared by the compare-and-swap and the store.
LEMMA AdvanceKeeps ==
  ASSUME TypeOK, Alternation,
         NEW t \in Thread, current[t] <= Limit, target = current[t] - 1,
         Advance(t)
  PROVE  /\ target' \in 0 .. Limit
         /\ current' \in [Thread -> 1 .. Limit + 2]
         /\ Alternation'
         /\ target' = target + 1
         /\ current'[t] = target' + 1 + 1
         /\ \A u \in Thread \ {t} : current'[u] = current[u] /\ target # current[u] - 1
<1>1. CASE t = 1
  BY <1>1, LimitType, SMT DEF TypeOK, Alternation, Advance, Thread
<1>2. CASE t = 2
  BY <1>2, LimitType, SMT DEF TypeOK, Alternation, Advance, Thread
<1> QED  BY <1>1, <1>2 DEF Thread

LEMMA PairInitially == Init => PairInv
  BY LimitType, SMT
  DEF Init, PairInv, TypeOK, Alternation, StoreStands, Exited, Thread, ThreadFuncs

LEMMA PairStepKeeps == PairInv /\ [Next]_vars => PairInv'
<1> SUFFICES ASSUME PairInv, [Next]_vars PROVE PairInv'
  OBVIOUS
<1> USE DEF PairInv
<1>1. ASSUME NEW t \in Thread, CompareAndSwap(t) PROVE PairInv'
  <2>1. Advance(t) /\ current[t] <= Limit /\ target = current[t] - 1
    BY <1>1 DEF CompareAndSwap, WhileTest, SeesPrevious
  <2>2. TypeOK' /\ Alternation'
    BY <1>1, <2>1, AdvanceKeeps DEF CompareAndSwap, funcs, TypeOK
  <2>3. StoreStands'
    BY <1>1 DEF CompareAndSwap, funcs, StoreStands
  <2>4. Exited'
    BY <1>1, LimitType, SMT DEF CompareAndSwap, Advance, Exited, TypeOK, Thread
  <2> QED  BY <2>2, <2>3, <2>4
<1>2. ASSUME NEW t \in Thread, Load(t) PROVE PairInv'
  <2>1. TypeOK' /\ Alternation'
    BY <1>2 DEF Load, funcs, TypeOK, Alternation
  <2>2. StoreStands'
    BY <1>2 DEF Load, funcs, StoreStands, WhileTest, SeesPrevious, TypeOK
  <2>3. Exited'
    BY <1>2 DEF Load, Exited, TypeOK
  <2> QED  BY <2>1, <2>2, <2>3
<1>3. ASSUME NEW t \in Thread, Store(t) PROVE PairInv'
  <2>1. Advance(t) /\ current[t] <= Limit /\ target = current[t] - 1
    BY <1>3 DEF Store, StoreStands
  <2>2. TypeOK' /\ Alternation'
    BY <1>3, <2>1, AdvanceKeeps DEF Store, funcs, TypeOK
  <2>3. StoreStands'
    BY <1>3, <2>1, AdvanceKeeps DEF Store, funcs, StoreStands, TypeOK
  <2>4. Exited'
    BY <1>3, LimitType, SMT DEF Store, Advance, Exited, TypeOK, Thread
  <2> QED  BY <2>2, <2>3, <2>4
<1>4. ASSUME NEW t \in Thread, Exit(t) PROVE PairInv'
  <2>1. TypeOK' /\ Alternation' /\ StoreStands'
    BY <1>4 DEF Exit, funcs, TypeOK, Alternation, StoreStands
  <2>2. Exited'
    BY <1>4, LimitType, SMT DEF Exit, Exited, WhileTest, TypeOK, Thread
  <2> QED  BY <2>1, <2>2
<1>5. CASE UNCHANGED vars
  BY <1>5 DEF vars, funcs, TypeOK, Alternation, StoreStands, Exited
<1> QED  BY <1>1, <1>2, <1>3, <1>4, <1>5 DEF Next, ThreadStep, Spin, Joined

THEOREM PairInvariant == Spec => []PairInv
  BY PairInitially, PairStepKeeps, PTL DEF Spec

\* The word and both counters stay within 2 * iterations for every number of
\* iterations (TypeOK of LatencyTestThread and NoLockLatencyTestThread).
THEOREM TypeCorrect == Spec => []TypeOK
<1>1. PairInv => TypeOK  BY DEF PairInv
<1> QED  BY <1>1, PairInvariant, PTL

\* Whatever the interleaving, the two threads write in strict turns.
THEOREM TurnsAlternate == Spec => []Alternation
<1>1. PairInv => Alternation  BY DEF PairInv
<1> QED  BY <1>1, PairInvariant, PTL

\* The plain load and store of NoLockLatencyTestThread are as good as atomic:
\* two threads that both waited for the word would wait for the same value,
\* which the alternation excludes.
THEOREM NoUpdateLost == Spec => []NoLostUpdate
<1>1. PairInv => NoLostUpdate
  <2> SUFFICES ASSUME PairInv, NEW t \in Thread, pc[t] = "store",
                      NEW u \in Thread \ {t}, pc[u] = "store"
               PROVE  FALSE
    BY DEF PairInv, StoreStands, NoLostUpdate
  <2>1. current[1] - 1 = current[2] - 1
    BY SMT DEF PairInv, StoreStands, TypeOK, Thread
  <2> QED  BY <2>1, LimitType, SMT DEF PairInv, Alternation, TypeOK, Thread
<1> QED  BY <1>1, PairInvariant, PTL

\* When TimeThreads has joined both threads, exactly 2 * iterations values
\* were written: the divisor of the reported latency is right.
THEOREM ExchangeComplete == Spec => []CompleteExchange
<1>1. PairInv => CompleteExchange
  BY LimitType, SMT
  DEF PairInv, Exited, Alternation, TypeOK, CompleteExchange, Done, Thread
<1> QED  BY <1>1, PairInvariant, PTL

-----------------------------------------------------------------------------
\* Publishing is the abstract Publish step of the same worker.
LEMMA AdvanceImplements ==
  ASSUME PairInv, NEW t \in Thread, current[t] <= Limit, target = current[t] - 1,
         Advance(t)
  PROVE  Abstract!PPNext
<1>1. t \in Abstract!Worker
  BY DEF Thread, Abstract!Worker
<1>2. target < 2 * Iterations
  BY LimitType, SMT DEF PairInv, TypeOK, Thread
<1>3. t = Abstract!Turn
  BY LimitType, SMT DEF PairInv, TypeOK, Alternation, Thread, Abstract!Turn
<1>4. target' = target + 1
  BY AdvanceKeeps DEF PairInv
<1>5. Published' = [Published EXCEPT ![t] = @ + 1]
  <2>1. \A u \in Thread : Published'[u] = IF u = t THEN Published[u] + 1 ELSE Published[u]
    BY LimitType, SMT DEF PairInv, TypeOK, Thread, Published, Advance
  <2> QED  BY <2>1 DEF Published
<1> QED
  BY <1>1, <1>2, <1>3, <1>4, <1>5 DEF Abstract!PPNext, Abstract!Publish

\* Both thread functions implement the abstract exchange of PingPong: one
\* compare-and-swap, or one plain store, is one Publish; all else stutters.
THEOREM Implements == Spec => ImplementsPingPong
<1>1. Init => Abstract!PPInit
  <2> SUFFICES ASSUME Init PROVE Abstract!PPInit
    OBVIOUS
  <2>1. \A t \in Thread : Published[t] = 0
    BY SMT DEF Init, Thread, Published
  <2> QED  BY <2>1 DEF Init, Published, Abstract!PPInit, Thread, Abstract!Worker
<1>2. PairInv /\ [Next]_vars => [Abstract!PPNext]_(Abstract!ppVars)
  <2> SUFFICES ASSUME PairInv, [Next]_vars
               PROVE  Abstract!PPNext \/ UNCHANGED Abstract!ppVars
    OBVIOUS
  <2>1. ASSUME NEW t \in Thread, CompareAndSwap(t) PROVE Abstract!PPNext
    BY <2>1, AdvanceImplements DEF CompareAndSwap, WhileTest, SeesPrevious
  <2>2. ASSUME NEW t \in Thread, Store(t) PROVE Abstract!PPNext
    BY <2>2, AdvanceImplements DEF Store, PairInv, StoreStands
  <2>3. ASSUME NEW t \in Thread, Load(t) \/ Exit(t) PROVE UNCHANGED Abstract!ppVars
    BY <2>3 DEF Load, Exit, Abstract!ppVars, Published
  <2>4. CASE UNCHANGED vars
    BY <2>4 DEF vars, funcs, Abstract!ppVars, Published
  <2> QED  BY <2>1, <2>2, <2>3, <2>4 DEF Next, ThreadStep, Spin, Joined
<1> QED  BY <1>1, <1>2, PairInvariant, PTL DEF Spec, ImplementsPingPong, Abstract!PPSpec

=============================================================================
