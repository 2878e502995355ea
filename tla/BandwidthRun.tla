---------------------------- MODULE BandwidthRun ---------------------------
(***************************************************************************)
(* MemoryBandwidth.c: main goes through its tests, MeasureBw allocates the *)
(* arrays, runs the threads between two readings of the counters and       *)
(* reports what they moved.  Amounts are in KB; a thread's loop is one     *)
(* step, BandwidthLoops has its passes.  Clock, affinity, NUMA, huge pages *)
(* and the contents of the arrays are left out.                            *)
(***************************************************************************)
EXTENDS Integers, Sequences, FiniteSetsExt, InstructionArray

CONSTANTS
  Sizes,        (* default_test_sizes, a sequence, in KB                   *)
  MaxThreads,   (* threads, or autothreads                                 *)
  Gigabytes,    (* values of gbToTransfer                                  *)
  SmallSize,    (* 64: larger sizes transfer an eighth                     *)
  Mega,         (* 1024 * 1024                                             *)
  IntSpan,      (* 2^32: how many values an int has                        *)
  LongSpan,     (* 2^64                                                    *)
  Events,       (* the counters                                            *)
  MaxFailures   (* bound: allocations that fail                            *)

\* Mega is 2^20, more than there are threads: an iteration count that is
\* rounded up cannot leave a uint64_t when it is multiplied by the threads.
ASSUME BandwidthRunAssumption ==
  /\ Sizes \in Seq(Nat \ {0}) /\ Sizes # <<>>
  /\ MaxThreads \in 1 .. Mega - 1 /\ 8 * MaxThreads < LongSpan
  /\ Gigabytes \subseteq Nat /\ {SmallSize, MaxFailures} \subseteq Nat
  /\ {Mega, IntSpan, LongSpan} \subseteq Nat \ {0}
  /\ Mega % 2 = 0 /\ IntSpan % Mega = 0 /\ LongSpan % IntSpan = 0
  /\ 1 \in Events

VARIABLES
  mode,         (* what main goes through: "sizes", "single" or "auto"     *)
  shared,       (* one array for all threads, or one for each              *)
  pmon,         (* whether counters were asked for                         *)
  nopBytes,     (* 0 for data, or what the instruction array is made of    *)
  gbToTransfer,
  fds, enabled, value,   (* the counters                                   *)
  test,         (* the number of the test                                  *)
  phase, turn,  (* where main is, and the turn of MeasureBw's loop         *)
  arrays,       (* the threads whose array is allocated; 1 if shared       *)
  leaked,       (* arrays that MeasureBw left behind                       *)
  failures,     (* allocations that failed                                 *)
  threadData,   (* threadData[t]: iterations, or "none"                    *)
  moved,        (* moved[t]: the KB a thread went over, once it has ended  *)
  running,      (* the threads that run                                    *)
  bw,           (* what MeasureBw returned, as KB                          *)
  rows          (* the lines main printed                                  *)

counters == <<fds, enabled, value>>
options == <<mode, shared, pmon, nopBytes, gbToTransfer>>
work == <<threadData, moved, running>>
mainVars == <<options, counters, test, phase, turn, arrays, leaked, failures, work, bw, rows>>

Perf == INSTANCE PerfMonitor

-----------------------------------------------------------------------------
\* The tests of each mode: sizes and thread counts in main's order.
Tests ==
  LET n == Len(Sizes)
  IN  CASE mode = "sizes" -> [i \in 1 .. n |-> <<Sizes[i], MaxThreads>>]
        [] mode = "single" -> << <<Sizes[n], MaxThreads>> >>
        [] mode = "auto" -> [i \in 1 .. n * MaxThreads |->
                               <<Sizes[1 + ((i - 1) % n)], 1 + (i - 1) \div n>>]

sizeKb == Tests[test][1]
threads == Tests[test][2]
Threads == 1 .. threads

\* The KB of a thread's array: the whole size, or its part rounded up.
Elements == IF shared THEN sizeKb ELSE (sizeKb + threads - 1) \div threads

\* Mutants: the iterations are not made even; the private total is not
\* multiplied; main waits for the wrong thing; the counters are never stopped.
EvenUp_Not(n) == n
Total_Once(n) == n * Elements * threads
Joined_Inverted == turn \in running
AfterJoin_NoStop == "report"

\* GetIterationCount: the product is an int, the quotient a uint64_t.
AsInt(n) == ((n + IntSpan \div 2) % IntSpan) - IntSpan \div 2
EvenUp(n) == n + (n % 2)
GetIterationCount ==
  LET scaled == IF sizeKb > SmallSize THEN gbToTransfer \div 8 ELSE gbToTransfer
      quotient == (AsInt(scaled * Mega) % LongSpan) \div sizeKb
      even == EvenUp(quotient) % LongSpan
  IN  IF even < 8 THEN 8 ELSE even

\* What a thread is given, and what is computed from it at the end.
ThreadIterations ==
  IF shared THEN GetIterationCount ELSE (GetIterationCount * threads) % LongSpan
Total(n) == n * Elements * threads * (IF shared THEN 1 ELSE threads)

LastTurn == turn = threads
Joined == turn \notin running
AfterJoin == "stop"

MainInit ==
  /\ mode \in {"sizes", "single", "auto"}
  /\ shared \in BOOLEAN
  /\ pmon \in IF mode = "auto" THEN {FALSE} ELSE BOOLEAN  \* see README
  /\ nopBytes \in {0, 4, -1}
  /\ gbToTransfer \in Gigabytes
  /\ Perf!InitCounters
  /\ test = 1 /\ phase = "open" /\ turn = 1
  /\ arrays = {} /\ leaked = 0 /\ failures = 0
  /\ threadData = [t \in 1 .. MaxThreads |-> 0]
  /\ moved = [t \in 1 .. MaxThreads |-> 0]
  /\ running = {}
  /\ bw = 0
  /\ rows = <<>>

\* The step to "next" of main, or the next turn of a loop of MeasureBw.
GoTo(next) == phase' = next /\ turn' = 1
Turn(next) == IF LastTurn THEN GoTo(next) ELSE turn' = turn + 1 /\ UNCHANGED phase
IfMonitored(Call) == IF pmon THEN Call ELSE UNCHANGED counters

OpenCounters ==
  /\ phase = "open"
  /\ IfMonitored(Perf!Open)
  /\ GoTo("allocate")
  /\ UNCHANGED <<options, test, arrays, leaked, failures, work, bw, rows>>

TooMany == ~ shared /\ sizeKb < threads

\* "Too many threads for this test size": nothing is measured.
Refuse ==
  /\ phase = "allocate"
  /\ TooMany
  /\ bw' = 0
  /\ GoTo("row")
  /\ UNCHANGED <<options, counters, test, arrays, leaked, failures, work, rows>>

\* One array for all threads, or one in each turn of the loop.
Allocate ==
  /\ phase = "allocate"
  /\ ~ TooMany
  /\ arrays' = arrays \union {turn}
  /\ threadData' = [t \in DOMAIN threadData |->
       IF t = turn \/ (shared /\ t \in Threads) THEN ThreadIterations ELSE threadData[t]]
  /\ moved' = [t \in DOMAIN moved |-> IF turn = 1 THEN 0 ELSE moved[t]]
  /\ IF shared THEN GoTo("start") ELSE Turn("start")
  /\ UNCHANGED <<options, counters, test, leaked, failures, running, bw, rows>>

\* "Could not allocate memory": MeasureBw returns at once and keeps what it
\* has allocated so far.
AllocateFails ==
  /\ phase = "allocate"
  /\ ~ TooMany
  /\ failures < MaxFailures
  /\ failures' = failures + 1
  /\ leaked' = leaked + Cardinality(arrays)
  /\ arrays' = {}
  /\ bw' = 0
  /\ GoTo("row")
  /\ UNCHANGED <<options, counters, test, work, rows>>

StartCounters ==
  /\ phase = "start"
  /\ IfMonitored(Perf!Start)
  /\ GoTo("create")
  /\ UNCHANGED <<options, test, arrays, leaked, failures, work, bw, rows>>

Create ==
  /\ phase = "create"
  /\ running' = running \union {turn}
  /\ Turn("join")
  /\ UNCHANGED <<options, counters, test, arrays, leaked, failures, threadData,
                 moved, bw, rows>>

\* ReadBandwidthTestThread: the loop goes over the array that many times, or
\* the array is called that many times.
ReadBandwidth(t) ==
  /\ t \in running
  /\ moved' = [moved EXCEPT ![t] =
       threadData[t] * (IF nopBytes = 0 THEN Elements ELSE FetchedKb(Elements, nopBytes))]
  /\ running' = running \ {t}
  /\ UNCHANGED <<options, counters, test, phase, turn, arrays, leaked, failures,
                 threadData, bw, rows>>

Join ==
  /\ phase = "join"
  /\ Joined
  /\ Turn(AfterJoin)
  /\ UNCHANGED <<options, counters, test, arrays, leaked, failures, work, bw, rows>>

StopCounters ==
  /\ phase = "stop"
  /\ IfMonitored(Perf!Stop(test))
  /\ GoTo("report")
  /\ UNCHANGED <<options, test, arrays, leaked, failures, work, bw, rows>>

Report ==
  /\ phase = "report"
  /\ bw' = Total(GetIterationCount)
  /\ arrays' = {}
  /\ GoTo("row")
  /\ UNCHANGED <<options, counters, test, leaked, failures, work, rows>>

\* main prints the result with whatever the counters' values are by then.
PrintRow ==
  /\ phase = "row"
  /\ rows' = Append(rows, [bw |-> bw, value |-> value])
  /\ IF test = Len(Tests) THEN GoTo("close") /\ UNCHANGED test
                           ELSE GoTo("allocate") /\ test' = test + 1
  /\ UNCHANGED <<options, counters, arrays, leaked, failures, work, bw>>

\* close_perf_monitoring is called whether or not anything was opened, except
\* after a sweep over thread counts.
CloseCounters ==
  /\ phase = "close"
  /\ IF mode = "auto" THEN UNCHANGED counters ELSE Perf!Close
  /\ GoTo("end")
  /\ UNCHANGED <<options, test, arrays, leaked, failures, work, bw, rows>>

MainEnded == phase = "end" /\ UNCHANGED mainVars

MainStep ==
  \/ OpenCounters \/ Refuse \/ Allocate \/ AllocateFails \/ StartCounters
  \/ Create \/ Join \/ StopCounters \/ Report \/ PrintRow \/ CloseCounters

MainNext == MainStep \/ (\E t \in 1 .. MaxThreads : ReadBandwidth(t)) \/ MainEnded

MainSpec == MainInit /\ [][MainNext]_mainVars

FairMainSpec ==
  /\ MainSpec
  /\ WF_mainVars(MainStep)
  /\ \A t \in 1 .. MaxThreads : WF_mainVars(ReadBandwidth(t))

-----------------------------------------------------------------------------
\* Type invariant.  main never indexes the thread table behind its end, and
\* ("must be even", "set a minimum to reduce noise") whatever the integer widths
\* do to the product, a thread runs with an even count above zero: the loops
\* that are left on zero would otherwise step over it and not end.
MainTypeOK ==
  /\ mode \in {"sizes", "single", "auto"}
  /\ Perf!CountersOK
  /\ test \in DOMAIN Tests
  /\ turn \in Threads
  /\ arrays \subseteq Threads
  /\ leaked \in Nat /\ failures \in 0 .. MaxFailures
  /\ threadData \in [1 .. MaxThreads -> Nat]
  /\ moved \in [1 .. MaxThreads -> Nat]
  /\ running \subseteq Threads
  /\ \A t \in running : threadData[t] >= 8 /\ threadData[t] % 2 = 0
  /\ bw \in Nat
  /\ Len(rows) <= Len(Tests)

\* As long as the product fits an int, what is reported is what the threads
\* moved: shared and private mode give out and add up iterations differently,
\* and an instruction array has to be fetched as a whole.
ReportedIsMoved ==
  phase = "row" /\ bw # 0 /\ gbToTransfer * Mega < IntSpan \div 2 =>
    bw = MapThenSumSet(LAMBDA t : moved[t], Threads)

\* A line with a bandwidth carries the counters of its own run.  (One that
\* says 0 repeats those of an earlier size.)
RowsOwnCounters ==
  \A i \in DOMAIN rows :
    rows[i].bw # 0 /\ pmon /\ fds[1] = "open" =>
      \A e \in Events : fds[e] = "open" => rows[i].value[e] = i

\* Every sweep comes to its end, failed allocations included.
RunEnds == <>(phase = "end")

=============================================================================
