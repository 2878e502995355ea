---------------------------- MODULE CoherencyRun ----------------------------
(***************************************************************************)
(* main of PThreadsCoherencyLatency.c: it tests every ordered pair of      *)
(* processors, up to ParallelismFactor disjoint pairs at a time.  A round  *)
(* selects pairs by scanning the matrix parallelTestState, starts a        *)
(* RunTest thread for each, joins them all, and scans again, until a scan  *)
(* selects nothing.                                                        *)
(*                                                                         *)
(* A RunTest thread resets its slot's target and has TimeThreads start the *)
(* two test threads.  Their exchange is module BouncePair; here it only    *)
(* ends.  When one of the two cannot be created, TimeThreads returns 0 and *)
(* leaves the other running on the slot's target.                          *)
(***************************************************************************)
EXTENDS Integers, Sequences, FiniteSets

CONSTANTS
  NumProcs,           (* get_nprocs()                                      *)
  ParallelismFactor,  (* -parallel                                         *)
  Offsets,            (* -offset: cache line offsets tried, one by one     *)
  MaxFailures         (* bound: pairs whose threads are not created        *)

ASSUME CoherencyRunAssumption ==
  /\ NumProcs \in Nat \ {0}
  /\ ParallelismFactor \in Nat \ {0}
  /\ Offsets \in Nat
  /\ MaxFailures \in Nat

VARIABLES
  phase,              (* where main is                                     *)
  offsetIdx,          (* the offset being tested                           *)
  pos,                (* the scan's position, j + i * numProcs             *)
  parallelTestState,  (* 0: to be tested, 1: in this round, 2: tested      *)
  pairRunData,        (* the round's slots: processors, result, progress   *)
  parallelIdx,        (* the slot main launches or joins next              *)
  latencies,          (* latencies[offset][pair]                           *)
  stray,              (* slots whose target an abandoned thread spins on   *)
  failures            (* history: pairs whose threads were not created       *)

scanVars == <<phase, offsetIdx, pos, parallelTestState, parallelIdx, latencies>>
allVars == <<scanVars, pairRunData, stray, failures>>

Procs == 0 .. NumProcs - 1
Pairs == {p \in Procs \X Procs : p[1] # p[2]}
Slots == 1 .. Len(pairRunData)

\* A pair's latency: not measured, 0 after a failure, measured undisturbed,
\* or measured with an abandoned thread on the same target.
Latencies == {"unset", "zero", "latency", "disturbed"}

MainInit ==
  /\ phase = IF Offsets = 0 THEN "print" ELSE "select"
  /\ offsetIdx = 0
  /\ pos = 0
  /\ parallelTestState = [p \in Procs \X Procs |-> 0]
  /\ pairRunData = <<>>
  /\ parallelIdx = 1
  /\ latencies = [o \in 0 .. Offsets - 1 |-> [p \in Pairs |-> "unset"]]
  /\ stray = {}
  /\ failures = 0

-----------------------------------------------------------------------------
(* Selecting a round: one action per element of the matrix.                *)

Scanned == <<pos \div NumProcs, pos % NumProcs>>

\* Mutants of the validity test and of the bounds of the scan.
ValidPair_RowsOnly(i, j) ==
  \A c \in Procs : parallelTestState[<<i, c>>] # 1 /\ parallelTestState[<<j, c>>] # 1
ValidPair_AnyMark(i, j) ==
  \A c \in Procs : parallelTestState[<<i, c>>] = 0 /\ parallelTestState[<<c, j>>] = 0
RowsToScan_OneLess == NumProcs - 1
SlotsToFill_OneMore == ParallelismFactor + 1

RowsToScan == NumProcs
SlotsToFill == ParallelismFactor

\* Neither processor is in a pair selected for this round.
ValidPair(i, j) ==
  \A c \in Procs : /\ parallelTestState[<<c, j>>] # 1
                   /\ parallelTestState[<<i, c>>] # 1
                   /\ parallelTestState[<<c, i>>] # 1
                   /\ parallelTestState[<<j, c>>] # 1

Scanning ==
  /\ phase = "select"
  /\ pos < RowsToScan * NumProcs
  /\ Len(pairRunData) < SlotsToFill

Select ==
  /\ Scanning
  /\ Scanned \in Pairs
  /\ parallelTestState[Scanned] = 0
  /\ ValidPair(Scanned[1], Scanned[2])
  /\ parallelTestState' = [parallelTestState EXCEPT ![Scanned] = 1]
  /\ pairRunData' =
       Append(pairRunData, [pair |-> Scanned, result |-> "zero", state |-> "selected"])
  /\ pos' = pos + 1
  /\ UNCHANGED <<phase, offsetIdx, parallelIdx, latencies, stray, failures>>

\* A core against itself, a pair that is tested, or one that must wait.  A
\* pair that is still marked as running ends the program ("Thread
\* unexpectedly did not complete").
PassOver ==
  /\ Scanning
  /\ \/ Scanned \notin Pairs
     \/ parallelTestState[Scanned] # 0
     \/ ~ ValidPair(Scanned[1], Scanned[2])
  /\ phase' = IF Scanned \in Pairs /\ parallelTestState[Scanned] = 1
              THEN "unexpected" ELSE phase
  /\ pos' = pos + 1
  /\ UNCHANGED <<offsetIdx, parallelTestState, pairRunData, parallelIdx,
                 latencies, stray, failures>>

ScanEnded == phase = "select" /\ ~ Scanning

StartRound ==
  /\ ScanEnded
  /\ pairRunData # <<>>
  /\ phase' = "launch"
  /\ parallelIdx' = 1
  /\ UNCHANGED <<offsetIdx, pos, parallelTestState, pairRunData, latencies,
                 stray, failures>>

\* Nothing was selected: on to the next offset, with a fresh matrix.
NextOffset ==
  /\ ScanEnded
  /\ pairRunData = <<>>
  /\ offsetIdx' = offsetIdx + 1
  /\ phase' = IF offsetIdx + 1 = Offsets THEN "print" ELSE "select"
  /\ pos' = 0
  /\ parallelTestState' = [p \in Procs \X Procs |-> 0]
  /\ UNCHANGED <<pairRunData, parallelIdx, latencies, stray, failures>>

-----------------------------------------------------------------------------
(* Running a round.                                                        *)

SetState(k, s) == pairRunData' = [pairRunData EXCEPT ![k].state = s]

Fail == failures < MaxFailures /\ failures' = failures + 1

\* main creates the slot's RunTest thread and does not look whether it could.
Launch ==
  /\ phase = "launch"
  /\ \/ SetState(parallelIdx, "launched") /\ UNCHANGED failures
     \/ SetState(parallelIdx, "absent") /\ Fail
  /\ IF parallelIdx < Len(pairRunData)
     THEN parallelIdx' = parallelIdx + 1 /\ UNCHANGED phase
     ELSE parallelIdx' = 1 /\ phase' = "join"
  /\ UNCHANGED <<offsetIdx, pos, parallelTestState, latencies, stray>>

\* RunTest and TimeThreads: both test threads start.
CreateBoth(k) ==
  /\ pairRunData[k].state = "launched"
  /\ SetState(k, "timing")
  /\ UNCHANGED <<scanVars, stray, failures>>

\* TimeThreads: one test thread starts, the other cannot be created.
CreateOne(k) ==
  /\ pairRunData[k].state = "launched"
  /\ Fail
  /\ SetState(k, "finished")
  /\ stray' = stray \cup {k}
  /\ UNCHANGED scanVars

\* TimeThreads: neither test thread can be created.
CreateNone(k) ==
  /\ pairRunData[k].state = "launched"
  /\ Fail
  /\ SetState(k, "finished")
  /\ UNCHANGED <<scanVars, stray>>

\* Both test threads are joined and RunTest stores the latency.
Finish(k) ==
  /\ pairRunData[k].state = "timing"
  /\ pairRunData' =
       [pairRunData EXCEPT
          ![k].state = "finished",
          ![k].result = IF k \in stray THEN "disturbed" ELSE "latency"]
  /\ UNCHANGED <<scanVars, stray, failures>>

\* Mutants: the pair's mark is moved back; the thread is not waited for.
TestedMark_Untested == 0
JoinReturns_Early(k) == pairRunData[k].state \in {"timing", "finished"}

TestedMark == 2
JoinReturns(k) == pairRunData[k].state = "finished"

\* main has joined the slot's thread: it records the result; after the last
\* slot it clears the slots and scans again.
Record ==
  /\ latencies' = [latencies EXCEPT
       ![offsetIdx][pairRunData[parallelIdx].pair] = pairRunData[parallelIdx].result]
  /\ parallelTestState' =
       [parallelTestState EXCEPT ![pairRunData[parallelIdx].pair] = TestedMark]
  /\ IF parallelIdx < Len(pairRunData)
     THEN parallelIdx' = parallelIdx + 1 /\ UNCHANGED <<phase, pos, pairRunData>>
     ELSE /\ phase' = "select"
          /\ pos' = 0
          /\ pairRunData' = <<>>
          /\ parallelIdx' = 1
  /\ UNCHANGED <<offsetIdx, stray, failures>>

Join ==
  /\ phase = "join"
  /\ JoinReturns(parallelIdx)
  /\ Record

\* pthread_join of a handle that was never set: it fails at once, or crashes.
JoinAbsent ==
  /\ phase = "join"
  /\ pairRunData[parallelIdx].state = "absent"
  /\ \/ Record
     \/ /\ phase' = "crashed"
        /\ UNCHANGED <<offsetIdx, pos, parallelTestState, pairRunData,
                       parallelIdx, latencies, stray, failures>>

Ended == phase \in {"print", "unexpected", "crashed"} /\ UNCHANGED allVars

MainStep == Select \/ PassOver \/ StartRound \/ NextOffset \/ Launch
            \/ Join \/ JoinAbsent

SlotStep(k) ==
  /\ k \in Slots
  /\ CreateBoth(k) \/ CreateOne(k) \/ CreateNone(k) \/ Finish(k)

MainNext ==
  \/ MainStep
  \/ \E k \in 1 .. ParallelismFactor : SlotStep(k)
  \/ Ended

MainSpec == MainInit /\ [][MainNext]_allVars

\* main and every RunTest thread keep running, and an undisturbed exchange
\* ends (BothJoin of BouncePair); one with an abandoned thread on its target
\* may never end.
FairMainSpec ==
  /\ MainSpec
  /\ WF_allVars(MainStep)
  /\ \A k \in 1 .. ParallelismFactor : WF_allVars(SlotStep(k) /\ k \notin stray)

-----------------------------------------------------------------------------
SlotRecords ==
  [pair : Pairs, result : Latencies,
   state : {"selected", "launched", "absent", "timing", "finished"}]

\* Type invariant: the round never has more slots than were allocated.
MainTypeOK ==
  /\ phase \in {"select", "launch", "join", "print", "unexpected", "crashed"}
  /\ offsetIdx \in 0 .. Offsets
  /\ pos \in 0 .. NumProcs * NumProcs
  /\ parallelTestState \in [Procs \X Procs -> 0 .. 2]
  /\ pairRunData \in Seq(SlotRecords) /\ Len(pairRunData) <= ParallelismFactor
  /\ parallelIdx \in 1 .. ParallelismFactor
  /\ latencies \in [0 .. Offsets - 1 -> [Pairs -> Latencies]]
  /\ stray \subseteq 1 .. ParallelismFactor
  /\ failures \in 0 .. MaxFailures

\* No processor is in two pairs that run at the same time ("neither thread
\* can already have a pending run").
DisjointPairs ==
  \A k, m \in Slots :
    k # m => \A a, b \in {1, 2} : pairRunData[k].pair[a] # pairRunData[m].pair[b]

\* A scan that leaves a slot free, all of them at the end of an offset, leaves
\* no pair that could have used it.
RoundIsMaximal ==
  ScanEnded /\ Len(pairRunData) < ParallelismFactor =>
    \A p \in Pairs :
      parallelTestState[p] = 0 =>
        \E k \in Slots : \E a, b \in {1, 2} : pairRunData[k].pair[a] = p[b]

\* No pair is tested twice at an offset, and when the matrices are printed every
\* pair has a result at every offset: nothing uninitialised is printed.
MeasuredOnce ==
  /\ phase \in {"select", "launch"} =>
       \A k \in Slots : latencies[offsetIdx][pairRunData[k].pair] = "unset"
  /\ phase = "print" =>
       \A o \in 0 .. Offsets - 1 : \A p \in Pairs : latencies[o][p] # "unset"

\* A result of 0 stands for a creation that failed: a round never records a
\* slot whose exchange is still running.
ZeroMeansFailed ==
  \A o \in 0 .. Offsets - 1 :
    Cardinality({p \in Pairs : latencies[o][p] = "zero"}) <= failures

\* The program reaches the print loop, unless a thread could not be created.
RunEnds == [](failures = 0) => <>(phase = "print")

\* "Thread unexpectedly did not complete": the scan takes a matrix without
\* running pairs to mean that no test thread is running.
EveryThreadCompleted == phase = "select" => stray = {}

=============================================================================
