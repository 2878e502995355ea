----------------------------- MODULE WindowsRun -----------------------------
(***************************************************************************)
(* main of the Windows core-to-core test: for every offset and every       *)
(* ordered pair of processors it runs the chosen test, one after another,  *)
(* on words that it resets each time.  -owned chooses RunOwnedTest         *)
(* (OwnedPair), otherwise it is RunTest (BouncePair with its               *)
(* compare-and-swap); both go through TimeThreads.                         *)
(***************************************************************************)
EXTENDS OwnedPair

CONSTANTS
  numProcs,     (* processors                                              *)
  offsets,      (* -offset                                                 *)
  MaxFailures   (* bound: tests whose threads cannot be created            *)

ASSUME WindowsRunAssumption ==
  numProcs \in Nat \ {0} /\ offsets \in Nat /\ MaxFailures \in Nat

VARIABLES
  test,         (* RunTest or RunOwnedTest                                 *)
  main,         (* "allocate", "test", "returned" without a result array   *)
  bouncy,       (* the word RunTest bounces                                *)
  entry,        (* the entry of the matrices that is computed next         *)
  running,      (* whether the threads have been resumed                   *)
  latencies,    (* latencies[e]: "unset", "zero", "failed", "measured"     *)
  failures

mainVars == <<test, main, bouncy, entry, running, latencies, failures>>

Bounce == INSTANCE BouncePair WITH
  testFunc <- "LatencyTestThread", threadFunc <- "LatencyTestThread",
  target <- bouncy

Entries == 0 .. offsets * numProcs * numProcs - 1
Diagonal(e) == (e \div numProcs) % numProcs = e % numProcs
More == main = "test" /\ entry \in Entries

MainInit ==
  /\ test \in {"RunTest", "RunOwnedTest"}
  /\ main = "allocate"
  /\ bouncy \in {0, Limit}
  /\ Init
  /\ entry = 0 /\ running = FALSE
  /\ latencies = [e \in Entries |-> "unset"]
  /\ failures = 0

\* Mutants: the wait is for any thread; the matrix's rows are one entry longer.
Waited_Any == \E t \in Thread : pc[t] = "done" /\ buffer[t] = <<>>
Next_Row == entry + 1 + (IF entry % numProcs = 0 THEN 1 ELSE 0)

Reset == 0
Waited == IF test = "RunTest" THEN Bounce!Done ELSE Done
NextEntry == entry + 1

Enter(what) ==
  /\ latencies' = [latencies EXCEPT ![entry] = what]
  /\ entry' = NextEntry

\* latencies = malloc(...), or "couldn't allocate result array".
Allocate ==
  /\ main = "allocate"
  /\ main' = "test"
  /\ UNCHANGED <<vars, test, bouncy, entry, running, latencies, failures>>

AllocateFails ==
  /\ main = "allocate"
  /\ main' = "returned"
  /\ UNCHANGED <<vars, test, bouncy, entry, running, latencies, failures>>

\* i == j ? 0.
Skip ==
  /\ ~ running /\ More /\ Diagonal(entry)
  /\ Enter("zero")
  /\ UNCHANGED <<vars, test, main, bouncy, running, failures>>

\* RunTest or RunOwnedTest sets the words and the thread data; TimeThreads
\* creates both threads suspended and resumes them together ...
Prepare ==
  /\ ~ running /\ More /\ ~ Diagonal(entry)
  /\ current' = IF test = "RunTest" THEN [t \in Thread |-> t] ELSE Start
  /\ bouncy' = IF test = "RunTest" THEN Reset ELSE bouncy
  /\ owned' = [t \in Thread |-> IF t = 1 THEN 1 ELSE 0]
  /\ buffer' = [t \in Thread |-> <<>>]
  /\ pc' = [t \in Thread |-> "loop"]
  /\ UNCHANGED <<test, main>>

Resume ==
  /\ Prepare
  /\ running' = TRUE
  /\ UNCHANGED <<entry, latencies, failures>>

\* ... or returns -1: a thread that was created stays suspended.
CreateFails ==
  /\ failures < MaxFailures
  /\ Prepare
  /\ failures' = failures + 1
  /\ Enter("failed")
  /\ UNCHANGED running

\* One step of a thread, or of its store buffer.
PairStep(t) ==
  /\ running
  /\ \/ test = "RunTest" /\ Bounce!ThreadStep(t) /\ UNCHANGED <<owned, buffer>>
     \/ test = "RunOwnedTest" /\ (ThreadStep(t) \/ Drain(t)) /\ UNCHANGED bouncy
  /\ UNCHANGED <<test, main, entry, running, latencies, failures>>

\* WaitForMultipleObjects returns and the latency is entered.
Measure ==
  /\ running /\ Waited
  /\ running' = FALSE
  /\ Enter("measured")
  /\ UNCHANGED <<vars, test, main, bouncy, failures>>

Printed ==
  /\ main # "allocate" /\ ~ running /\ ~ More
  /\ UNCHANGED <<vars, mainVars>>

MainStep == Allocate \/ AllocateFails \/ Skip \/ Resume \/ CreateFails \/ Measure
MainNext == MainStep \/ (\E t \in Thread : PairStep(t)) \/ Printed

MainSpec == MainInit /\ [][MainNext]_<<vars, mainVars>>

FairMainSpec ==
  /\ MainSpec
  /\ WF_<<vars, mainVars>>(MainStep)
  /\ \A t \in Thread : WF_<<vars, mainVars>>(PairStep(t))

-----------------------------------------------------------------------------
\* Type invariant of the test that runs; no entry is outside the matrices.
MainTypeOK ==
  /\ IF test = "RunTest" THEN Bounce!TypeOK ELSE TypeOK
  /\ main \in {"allocate", "test", "returned"}
  /\ entry \in 0 .. offsets * numProcs * numProcs
  /\ latencies \in [Entries -> {"unset", "zero", "failed", "measured"}]

\* The value of the pair that is tested and what its threads have published.
Value == IF test = "RunTest" THEN bouncy ELSE Latest
Writes == IF test = "RunTest" THEN Bounce!Published ELSE Published
First == IF test = "RunTest" THEN 0 ELSE 1

Bounced == INSTANCE PingPong WITH First <- 0, value <- Value, writes <- Writes

\* A test begins where PingPong begins, and only when the last is complete.
NewTest ==
  /\ ~ running
  /\ Value' = First
  /\ Writes' = [t \in Thread |-> 0]

\* What every entry measures, in either test: an exchange in strict turns from
\* the first value to 2 * iterations, with nothing left over from the pair
\* before (RunTest, RunOwnedTest, TimeThreads).
EveryTestIsAnExchange ==
  [][/\ NewTest \/ Bounced!PPNext \/ UNCHANGED <<Value, Writes>>
     /\ running /\ ~ running' => Value = Limit]_<<vars, mainVars>>

\* Every pair off the diagonal is tried, and main prints the matrices, unless
\* it could not allocate them: then it returns and has tried none.
MatrixPrinted ==
  <>(\/ /\ main = "returned"
        /\ \A e \in Entries : latencies[e] = "unset"
     \/ /\ entry = offsets * numProcs * numProcs
        /\ \A e \in Entries : latencies[e] = "zero" <=> Diagonal(e)
        /\ \A e \in Entries : latencies[e] # "unset")

=============================================================================
