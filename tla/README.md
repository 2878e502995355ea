# A verification project for clambench

clambench (clammicrobench) is a collection of microbenchmarks: cache and memory
latency, memory bandwidth, core-to-core latency, instruction rate, clock speed,
and their GPU counterparts. A benchmark has a peculiar notion of correctness. It
returns a number whatever happens, and the number is only worth something if the
access pattern, the threads and the bookkeeping behind it were what the program
says they were. A pattern that falls apart into two cycles still prints a
latency, one of a smaller region. Two pairs that share a core still print a
latency, one of a contended core. A copy loop that moves its pointer by half of
what it copied still prints a bandwidth. No test notices any of it. The modules
in this directory state what must be true for the numbers to mean what is
printed, check it with TLC in every interleaving and for every value `rand()`
can return on small instances, and prove part of it with TLAPS for instances of
every size.

Contents: 1 inventory, 2 modules, 3 runs, 4 bounds, 5 fairness and memory model,
6 proofs, 7 what is not modelled, 8 findings, 9 plan.

## 1. Inventory of the system

Every benchmark is a program of its own. They share no state and little code
(`Common/` has timing and performance counters). Inside a program the parts
interact through memory shared between threads, through `pthread_create` and
`pthread_join` (threads of the Win32 API on Windows), through the counts that C
code gives to assembly functions, and with a GPU through an OpenCL command queue
and the memory its kernels share with the host.

### 1.1 Core-to-core latency (`CoherencyLatency/`)

* **Test threads** (`LatencyTestThread`, `NoLockLatencyTestThread`,
  `ReadLatencyTestThread`). State: the shared word or words, and each thread's
  `current`. Operation: wait for the other thread's value, publish the next one.
  Hard: the plain version's load and store are two accesses; the owned version's
  stores sit in a store buffer; both threads spin, so one value lost or repeated
  hangs the program. Correct when the values are published strictly in turns, up
  to `2 * iterations`, and both threads return.
* **A pair** (`RunTest`, `RunOwnedTest`, `TimeThreads`). State: two `LatencyData`
  on the stack, the words. Sets the words, creates and joins the threads. Hard:
  one of the two creations can fail; the words are used again by the next pair.
* **The scheduler** (`main` with pthreads). State: `parallelTestState` (0 to be
  tested, 1 in this round, 2 tested), `pairRunData` (the slots of a round), the
  results. Selects disjoint pairs, launches a thread for each, joins them,
  repeats. Hard: the marks are set by different loops and span rounds; rounds run
  concurrently. Correct when no processor is in two running pairs, every ordered
  pair is measured once per offset, and no slot stays empty needlessly.
* **The Windows `main`** runs the pairs one by one, bounced or owned words; it
  returns at once when it cannot allocate the result array.
  `c2cparse` reformats output.

### 1.2 Memory latency (`MemoryLatency/`)

* **The fills** (`FillPatternArr`, `FillPatternArr64`, `FillPageByPage`,
  `FillPageByPage64`, the fill of `RunTlbTest`). State: the array. Operation:
  random swaps. Correct when the finished array is a single cycle over the whole
  region, stays in a page until it is done with it (page by page), or touches one
  line per page (TLB).
* **The chases** (`RunTest`, `RunAsmTest`, `longpatternlatencytest`, `RunTlbTest`,
  `RunMlpTest`, `RunAopTest`). State: the cursor or cursors. Correct when no
  element is loaded twice before all were loaded, and when parallel chains are
  independent.
* `RunStlfTest`, option parsing, huge page and NUMA allocation.

### 1.3 Bandwidth (`LoadedMemoryLatency/`, `MemoryBandwidth/`)

* **`RunTest` and `RunBandwidthOnlyTest`** of the loaded latency test. State: the
  thread table, the arrays, the stop flag, the counters. Starts a fill thread per
  array, joins them, starts the bandwidth threads, runs the latency thread, sets
  the flag, joins, adds up. Hard: threads read what others fill; the flag can be
  set before a bandwidth thread has run at all; an early return. Correct when
  threads read filled arrays, the load lasts as long as the latency test, nothing
  counted is lost, and the function returns.
* **The bandwidth loops**: 47 assembly loops in eight files, each written by hand
  around a pointer, an index and a count. Hard: the three move by different
  constants. Correct when a loop stays in its array, sweeps it evenly, ends, and
  has done the work its caller divides by the time.
* **`main` and `MeasureBw`** of the bandwidth test. State: options, the thread
  table, arrays, the group of counters (`Common/perfmon.h`), the rows printed.
  Hard: `GetIterationCount` mixes int and 64 bits; private mode multiplies
  iterations by threads in one place and the bandwidth in another; allocations
  fail half way; the counters are opened, started, stopped and closed by
  different functions. Correct when the reported bandwidth is what was moved and
  a row's counters are its own.
* **`FillInstructionArray`**: an array of NOPs, or of calls into its second half,
  which one execution must fetch as a whole.

### 1.4 Instruction rate (`InstructionRate/`, `mt_instructionrate/`, mixed test)

* **268 assembly functions** for x86, aarch64, RISC-V and PowerPC, copied from
  one another: how many measured instructions a pass executes, what it takes off
  the count, when the function returns. Correct when a function executes what its
  count is taken for.
* **`measureFunction`** (both programs) and **`Measure2TBw`**: rounds of threads
  whose iteration counts are rescaled until the round is long enough and the
  threads agree. Hard: the loops end only if rescaling converges; rescaled counts
  are no multiples of a function's stride. Correct when the loop ends and its
  result is the rate of a round in which all threads were busy.

### 1.5 GPU programs (`GpuMemLatency/`, `svm/`)

* **Exchanges**: a word bounced between two work items (`int_atomic_latency_test`
  with global and local memory, `c2c_atomic_latency_test`), between a kernel and
  a CPU thread (`runAtomicsTest`), or between kernels and the host
  (`runBufferSharingTest`, map and unmap). Hard: a kernel that cannot be
  submitted while the CPU thread already spins, a local word that nobody
  initialises, rounds repeated with other counts.
* **Chases** (`latency_test`, `tex_latency_test`): the list is divided among the
  waves, and one buffer holds the start indexes and takes the results. Hard: work
  items are not ordered; the parts are rounded.
* GPU bandwidth, instruction rate and texture tests: kernels whose work items do
  not interact.

### 1.6 The rest

`CoreClockChecker/` reads registers of the processor in one thread; `AsmGen/`
writes C and assembly text; `svm/OpenCL` and `GpuMemLatency/OpenCL` are vendored
headers, which are most of the lines of the repository; build scripts.

`PROJECT.json` lists every component with its status, and under "hazards" each of
the hard places at its line, with the properties that watch it or the reason why
none does.

## 2. The modules

| Module | Models |
|---|---|
| `PingPong` | the abstract exchange: two workers publish 1, 2, 3, ... in turns |
| `BouncePair` | `RunTest`'s set-up and the two functions that bounce one word |
| `OwnedPair` | `ReadLatencyTestThread` on two words, with store buffers |
| `WindowsRun` | `main`, `RunTest`, `RunOwnedTest` and `TimeThreads` of the Windows program |
| `CoherencyRun` | `main`, `RunTest` and `TimeThreads` of the pthreads program |
| `PatternOps` | the random swap loop as operators: `RandChoices`, `Swap`, `Patterns(n)` |
| `PatternFill` | `FillPatternArr` and `RunTest`'s chase |
| `PageByPage` | `FillPageByPage`, `FillPageByPage64` and the chase |
| `LongPattern` | `FillPatternArr64`, `preplatencyarr`, `longpatternlatencytest` |
| `TlbFill` | `RunTlbTest` |
| `MlpChase` | `RunMlpTest` |
| `PointerArray` | `RunAopTest` |
| `MemoryTests` | `main`'s choice of a test, one of the modules above |
| `LoadedLatency` | `RunTest`, `RunBandwidthOnlyTest` and their threads |
| `BandwidthLoops` | the 47 assembly loops of the bandwidth tests |
| `InstructionArray` | `FillInstructionArray` and what one execution of the array fetches |
| `PerfMonitor` | `Common/perfmon.h`: open, start, stop and close of a group of counters |
| `BandwidthRun` | `main`, `GetIterationCount`, `MeasureBw` and the readers of `MemoryBandwidth.c` |
| `InstructionLoops` | what an instruction rate function executes for a count |
| `InstructionRateLoops` | the 187 functions of `InstructionRate/` |
| `MtInstructionRateLoops` | the 81 functions of `mt_instructionrate/` |
| `Rescaling` | the two `measureFunction`s, `scale_iterations_to_target`, `Measure2TBw` |
| `DeviceExchange` | the five exchanges with a GPU, hosts and kernels |
| `DeviceLatency` | `latency_test`, `tex_latency_test` and their kernels |
| `DeviceTests` | `main`'s choice of a GPU test, one of the two above |
| `MC*` | the instances that TLC checks |
| `OperatorLemmas` | lemmas that several proofs cite: sums, divisions, patterns, laps |
| `CoherencyProofs` | theorems about `CoherencyRun` and `BouncePair` |
| `BandwidthProofs` | theorems about `BandwidthRun` and `BandwidthLoops` |
| other `*Proofs` | theorems about the module of that name |

How they are put together:

* `BouncePair` and `OwnedPair` are two implementations of `PingPong`, which is
  what a latency test promises. `BouncePair` instantiates it with the word itself
  (`ImplementsPingPong`). `WindowsRun` composes `OwnedPair` and `BouncePair` under
  one `main` and instantiates `PingPong` once more, with the word or with the
  larger of the two words: `EveryTestIsAnExchange` says that each step of the
  whole program is a step of the exchange, a stutter, or the beginning of the next
  pair at its first value.
* `CoherencyRun` is one level above `BouncePair`: an exchange is there a step
  from "timing" to "finished", which `BothJoin` of `BouncePair` justifies.
* `LoadedLatency` is one level above `BandwidthLoops`: one pass of a loop is there
  a step that counts one, whatever line it is on. `BandwidthRun` is above it in
  the same way: a thread's loop is one step that moves what `ExactWork` says.
* `BandwidthRun` extends `InstructionArray` and instantiates `PerfMonitor`, whose
  operators are what each call does to the counters; the order of the calls is
  `BandwidthRun`'s.
* `PatternFill` executes the swap loop step by step; `PageByPage`, `LongPattern`,
  `TlbFill`, `MlpChase`, `PointerArray` and `DeviceLatency` take their patterns
  from `Patterns(n)` or, where the order is fixed, from the source.
* `MemoryTests` extends `PatternFill` and instantiates the other fills and chases
  over one array and cursor; `DeviceTests` extends `DeviceExchange` and
  instantiates `DeviceLatency`. As `main`, they run one test; the variables of the
  others wait at a constant, and the properties are those of the test that runs.
* `Rescaling` extends `InstructionLoops` and is run with every function of the two
  lists. The functions are constants of the model and not actions: each is a
  record of what a pass executes, what it counts and how it is left.

Names follow the source: `current`, `target`, `parallelTestState`,
`pairRunData`, `pattern_arr`, `iter`, `threadData`, `thread_start`. An action
stands for a turn of a loop, or for a piece of one between two accesses to shared
memory:

* `BouncePair`: `CompareAndSwap` is one turn of `LatencyTestThread`'s loop that
  succeeds; `Load` and `Store` are the two accesses of
  `NoLockLatencyTestThread`; `Spin` is a turn that finds another value; `Exit` is
  the failing while test.
* `OwnedPair`: the same with `Store` entering a buffer and `Drain` moving the
  buffer's head to memory. `WindowsRun`: `Allocate` and
  `AllocateFails` are the two outcomes of the result array's `malloc`; `Skip`,
  `Resume`, `CreateFails` and `Measure` are the turns of `main`'s innermost loop.
* `CoherencyRun`: `Select` and `PassOver` are one element of the scan,
  `StartRound` and `NextOffset` the end of a scan, `Launch`, `Join` and
  `JoinAbsent` turns of the two loops of a round. `CreateBoth`, `CreateOne`,
  `CreateNone` and `Finish` belong to the `RunTest` thread of a slot.
* `LoadedLatency`: main's loops advance one thread per step; `FillArr`, `Pass` and
  `Chase` are steps of the other threads.
* `BandwidthLoops`: `CountedPass` and `FlaggedPass` are one pass, with the end of
  the lap if it is the last of one; `Stop` is `main` setting the flag.
* `BandwidthRun`: `OpenCounters`, `PrintRow`, `CloseCounters` are `main`'s,
  `Refuse` to `Report` are the parts of `MeasureBw` in their order, one thread of
  its loops per step, `ReadBandwidth` a thread.
* `Rescaling`: `Start`, `TestThread` and `Join` make a round; `Accept`, `ScaleAll`,
  `ScaleThreads` and `ScaleData` are what is done with its times.
* `DeviceExchange`: `SetUp`, `Submit`, `SubmitFails`, `Wait`, `HostStep`,
  `Mismatch`, `Report` and `Free` are the host's, `CopyIn`, `Barrier`, `Swap`,
  `Increment` and `Exit` the work items'. `DeviceLatency`: the host fills part
  after part and enqueues; an item begins (reads its start), loads, and returns.

Data is reduced to what the properties tell apart. A latency is "unset", "zero",
"failed" or measured. Arrays are indexed by cache lines, as every caller's stride
is one line (by words in `LongPattern`, where the words of a line belong to
different chains). Counters' values are the number of the run they were counted
in. Printing, affinity and clock readings are left out.

A name that ends in a suffix such as `_OneLate` is a deliberately wrong version
of the operator without it. The specifications do not use these. Each is a
plausible mistake, and putting it in the operator's place makes TLC report the
property that `PROJECT.json` pairs it with, which shows that the property is not
satisfied by accident.

## 3. The runs

Runs that pass:

| Run | Instance | Shows |
|---|---|---|
| `bounce` | 20 iterations, both functions | no value is lost (`NoLostUpdate`), both threads return (`BothJoin`), refinement of `PingPong` |
| `windows_run` | 3 processors, 2 offsets, 3 iterations, both tests, one pair whose threads cannot be created, the result array allocated or not | at most one store in flight without help from a fence (`OneStoreInFlight`), every entry of the matrix measures one whole exchange (`EveryTestIsAnExchange`), the matrix is filled and printed, or `main` has returned with nothing tried |
| `coherency_run` | 6 processors, 2 slots, 2 offsets, one pair whose threads cannot be created | disjoint pairs in a round, rounds are maximal, every pair is measured once, a 0 always stands for a failure, a run without failures ends |
| `memory_tests` | plain fill of 6 elements; page-by-page fill of 3 to 16 lines in pages of 4; TLB test of 1, 2 and 6 pages; 1 to 5 chains and an array of pointers over 5 lines; long pattern over 4 lines of 3 words | the plain pattern is one cycle, every chase covers its region before it repeats a load, finishes a page before it leaves it, and loads that are to be independent share no line and no set |
| `loaded_latency` | 2 bandwidth threads, 3 modes | filled arrays only, load outlasts the chase, counts complete, function returns |
| `bandwidth_loops` | 45 loops, 1 and 2 KB, 2 and 8 iterations | in bounds, even sweep, exactly the work that is counted, every loop ends |
| `bandwidth_run` | 3 sizes, 2 threads, sweeps over sizes and threads, data, NOPs and calls, counters, one failing allocation | even counts above zero whatever overflows, reported is moved, counters of the right run, the sweep ends |
| `device_tests` | 5 exchanges with failing submissions, 5 launches of the chases on lists of 1 to 7 lines | strict turns in every round, the word outlives its users, a wave loads one line of a section of its own, every test returns |
| `rescaling` | 3 threads, costs up to 1 : 100, every sound function of both programs | functions execute what is counted, counts never reach zero, the result is the rate of the accepted round, measurements end |

Runs in which TLC finds what a comment or message of the code excludes (section
8): `stray_thread`, `wide_copy`, `start_race`.

What some of the properties say beyond their names:

* `NoLostUpdate` is the reason why the version without locks is safe: while a
  thread stands between its load and its store, the word still holds what the
  load saw. It does not follow from either access alone.
* `OneStoreInFlight` is why the owned version needs no acknowledgement: a thread
  stores only after it has seen the other's store in memory, so a reader that is
  slow misses nothing.
* `RoundIsMaximal` is about the scan's order: a pair that was passed over because
  its processors were busy stays busy until the round begins. At the end of an
  offset it says that no pair is left.
* `ZeroMeansFailed` bounds the zeros in the result by the creations that failed,
  over all rounds, so that a join that returned too early shows as a zero too many.
* `CountsComplete` includes the bandwidth thread that is scheduled for the first
  time after the flag was set: it still makes one pass, and counts it.
* `EvenSweep` holds at every pass, and not only at the end: the loaded loops are
  stopped anywhere. `ExactWork` compares the sweeps of every line with the count
  the caller gave, and `bytes` with the passes of a loop that counts itself.
* `ReportedIsMoved` relates the number `MeasureBw` computes from its arguments to
  what its threads did; the two agree in private mode only because the iterations
  are multiplied by the threads in two different places.
* `ResultIsRate` is about the last round: a result must be of the counts that the
  accepted times belong to, and each thread must have been busy for all of the
  round but what the tolerance allows.
* `WaveSharesItem` and `OwnSection` together say what the printed latency needs:
  one line per wave and step, and no wave that warms the cache for another.

Deadlock is checked in all runs. Every specification either runs for ever (the
chases) or ends in a stuttering step that names its end (`Joined`, `Ended`,
`Returned`, `Printed`).

## 4. Bounds, and why they are enough

* `Iterations` in the exchanges (20 in `bounce`, 3 in `windows_run`): the state of a
  pair depends only on the distance between `current` and the words, so every pair
  of iterations repeats one pattern; the ends (first and last value of either
  parity) occur at any number. The proofs cover every number.
* `numProcs = 3` and two offsets in `windows_run`: 18 entries, diagonal ones
  between others and at both ends of a row, one failing pair anywhere among them.
* `NumProcs = 6`, two slots in `coherency_run`: three disjoint pairs exist and only
  two may run, pairs conflict in each of the four directions of the matrix, and
  slots stay empty (the last rounds of an offset). Two offsets show that the matrix
  is cleared in between.
* `MaxFailures = 1` in both: in any slot of any round, the round's thread is absent,
  one test thread of the pair is missing, or both are. A stray thread stays for
  all rounds that follow.
* `ElementCount = 6`: 120 runs of the fill; cycles that would split have room for
  two parts of two and three elements. The proofs cover every size.
* `PageLines = 4` with regions of 3, 7, 12 and 16 lines: below a page, the case
  `pageCount <= 2` with a remainder, three and four whole pages. A region of more
  than two pages with a remainder is left out: section 8 says what happens there.
* TLB regions of 1, 2 and 6 pages with 4 lines in a page: fewer and more pages than
  lines, so that the line's offset wraps. `MaxParallelism = MlpLines`: as in the
  code, where 32 chains start in a region of at least 32 lines.
* Two bandwidth threads: one can be stopped while the other has not begun.
  `MaxPasses` caps what a thread counts; a thread at the cap goes on running.
* `bandwidth_loops`: arrays of 16 and 32 lines are what 1 and 2 KB are in the code;
  all lengths there are multiples of 1 KB, which `BandwidthLoopsAssumption` says.
  34 passes of a loaded loop before the flag are two sweeps of the larger array.
  Counts are even, which `MainTypeOK` of `bandwidth_run` shows of what the C code gives.
  The proofs cover every length and count.
* `bandwidth_run`: an int has 8 bits and a `uint64_t` 16, with `Mega = 4` in place
  of 2^20, so that 16 and 31 GB fit and 48 overflow, as 2048 GB do in the code. Sizes
  lie on both sides of the limit above which an eighth is transferred, and one does
  not divide by the threads. Two counters: one that leads the group and one that
  follows, either of which may not open. `BandwidthRunAssumption` says what the
  widths have in common with the code's: an int is a part of a `uint64_t`, 2^20
  divides both, and there are fewer threads than 2^20.
* `device_tests`: 3 compute units give six ordered pairs in `c2c_atomic`.
  `MaxIterations = 4` leaves room for three rounds with growing counts. List
  sizes of 1, 4, 6 and 7: too small, divisible, and with a remainder; three waves
  of a texture with 4 lines have one line each. `MaxLoads = 4`
  is more than the smallest part. `SafeLaunches` are launches in which no item can
  end before another has read element 0 of the buffer they share (the hypothesis
  `StartsAreKept` of the proofs); `start_race` is the other kind.
* `rescaling`: times of 2000, 3000 and 50 are the code's milliseconds. Counts of 8,
  60, 120 and 401 begin in all three ranges (too short for a quotient, too short a
  round, long enough) and include one that no stride divides. Costs up to 1 : 100
  between the threads of one round. `Overhead` bounds how much longer a round
  takes than its slowest thread.

## 5. Fairness and memory model

* The exchanges (`FairSpec`, `FairMainSpec`) have weak fairness for each thread's
  own steps: the operating system keeps running both threads (they are pinned to
  different processors), and a processor eventually empties its store buffer.
  Nothing makes a thread succeed: `Spin` satisfies no fairness condition.
* `FairMainSpec` of `CoherencyRun` has weak fairness for main and for every slot's
  thread, except that a pair whose target a stray thread shares is not assumed to
  finish. `RunEnds` is therefore only claimed without failures.
* `LoadedLatency`, `BandwidthRun`, `Rescaling`: weak fairness for main and for each
  thread it starts. `RunReturns` needs no fairness between a pass and the flag,
  because a thread tests the flag in every pass.
* `BandwidthLoops`: the thread makes passes, and `main` sets the flag in the end.
* `DeviceTests`: weak fairness for the host, and for each work item. The GPU must
  run the bouncing items side by side, or they spin for ever; the code relies on
  it ("hoping each thread/workgroup lands on a different CU") and one work group
  of two items or two groups on an idle device are such a case.
* The memory latency tests are single threads; nothing about them needs fairness,
  because `LapIsWhole` says of each load that it is not one too early.

Memory. `LatencyData.target` is volatile, aligned, eight bytes wide and the only
word that the threads of `BouncePair` share, so coherence orders all accesses and
the model needs no buffers. `OwnedPair` is a Windows program for x86 and has
store buffers (x86-TSO). `readTarget` is not volatile there. The loop stores
through another pointer of the same type, which the compiler has to assume may
alias it, and the load is repeated. The flag of `LoadedLatency` is volatile and
tested by assembly. The words of `DeviceExchange` are only accessed by atomic
operations while workers run concurrently; coarse grained memory is owned by the
host or by the device, and a host write outside of map and unmap may or may not
arrive (`Cleared`).

## 6. What is proved

TLAPS checks the following for every value of the constants, under the assumptions
that the modules state of their constants and the runs evaluate.

`OperatorLemmas` has the facts that several of these proofs need of the models'
operators: sums over a set of threads (`SumSteps`, `SumBounds`, `SumOfSame`), quotients
and remainders (`Division`, `Quotient`), least elements (`Least`), and what is true of
every pattern, every lap on one and every way along it (`PatternsAreCyclic`,
`LapCloses`, `WayExists`).

`WindowsRunProofs`, for every number of processors, offsets and iterations, of the
whole program (`MainSpec`):

* `OneTransferAtATime`: at most one store of the pair is in flight. The property says
  how many stores are in flight and not who may store next. The invariant
  (`OwnedInv`) says that the threads' `current` differ by one (`Turns`), that a buffer
  holds its thread's last value or nothing, and holds it only for the thread that is
  ahead (`Buffered`), and that a thread about to store is the one behind, with the
  other's buffer empty (`Storing`).
* `EntriesAreExchanges`: each step of the program is a step of an exchange as
  `PingPong` describes it, a new one that starts from its first value whatever the
  pair before left in the words, or a stutter, and an entry is written only when the
  exchange is over or a thread was not created.
* `MainTypeCorrect`. `MainInv` adds to the invariants of the two kinds of pair
  where main may be while a pair runs (`MainPart`).

`CoherencyProofs`. Of `CoherencyRun` (`MainSpec`), for any number of processors,
offsets, slots and failures:

* `MainTypeCorrect`, `PairsAreDisjoint`, `RoundsAreMaximal`, `EachPairOnce`,
  `ZerosAreFailures`.
* The properties are about a round and the marks outlive it, so the invariant ties
  the two together: the matrix marks exactly the pairs of the pending slots as
  running (`Marked`), results are there exactly for the pairs marked as tested
  (`Measured`), and every pair the scan has left behind untested shares a
  processor with one it selected (`PassedOver`).
* `ZeroMeansFailed` compares two cardinalities, and a failure is counted before its
  zero is in a matrix. The second invariant counts the zeros that are on their way:
  slots whose test could not start or whose thread main has not joined yet.

Of `BouncePair`, for every `Iterations \in Nat` and both functions:

* `TypeCorrect`, `TurnsAlternate`, `NoUpdateLost`, `ExchangeComplete`, and
  `Implements`: `Spec` implements `PingPong`.
* The invariant `PairInv` says, besides types, that the word is one below one
  thread's `current` and two below the other's, so that exactly one thread may
  move; that a thread between its load and its store is that one; and that a
  thread that has left was past the limit. `NoLostUpdate` alone is not inductive:
  it does not exclude two threads that both wait to store.
* `Implements` maps a successful compare-and-swap or store to `Publish` and
  every other step to a stutter, with `PairInv` to show that the publishing thread is
  the one whose turn it is.

`MemoryTestsProofs`. For every `ElementCount \in Nat \ {0}`, of `PatternFill`:

* `TypeCorrect`, `ElementsKept` (a permutation at all times), `FootprintIsWhole`.
* The invariant states that the array is `Merged`: while elements from `iter` up have
  been swapped, it is a permutation whose cycles each contain one element below
  `iter`, the root (`RootsOf`), and every non-empty set closed under it contains one
  (`RootedAt`). A swap of element `k` with a lower one merges the cycle rooted in `k`
  into the other's (`SwapMerges`). When `iter` is 1 a non-empty closed set contains
  element 0, and so does its complement unless it is empty, because the complement
  of a closed set of a finite permutation is closed (`ComplementClosed`): so the set
  is everything. Nothing here needs the random index to have any particular range,
  as long as it is lower: it is why the off-by-one of section 8 does no harm to the
  cycle.
* The footprint follows from a second part, `Path`: what was loaded in a lap leads to
  what was loaded, or to the cursor. When the cursor is back where the lap began, the
  loads are closed, and so they are all (`LapCloses`).

and of all tests in any order (`MainSpec`), for any sizes of regions, pages and lists:

* `PatternIsOneCycle`. The tests take a finished pattern from `Patterns(n)`, the
  set of what the loop can leave. It is a recursive function, and induction over it is
  not available as a rule; `PatternsAreCyclic` shows that every member is one
  cycle, for every `n`, by supposing a largest step at which the arrays are not merged.
* `LoadsAreIndependent`: a chain of `RunMlpTest` goes round its own lines
  (`RoundFrom`), and no line is in two rounds.
* `MainTypeCorrect`, `LapsAreWhole` and `PagesAreFinished`. Each test has an
  invariant of its own: `TlbInv`, `MlpInv`, `AopInv`, `LongInv` and `PagedInv`. The
  last three say how a place in memory is made of a quotient and a remainder
  (`Places`, `Addresses`) and lift `Path` from pages and lines to places:
  in `FillPageByPage`'s array the pages behind the one being traversed are finished
  (`PagedLap`, `PageDone`).
* The three need `WholePages`: `FillPageByPage64` is not among the tests, and a region
  of more than two pages is a whole number of them. Without either the properties
  are false, and section 8 says why.

`LoadedLatencyProofs`, for any number of threads, loads and passes:
`TypeCorrect`, `ArraysAreFilled`, `LoadLasts`, `NothingLost`. The invariant says which threads
there may be at each of main's places and how far main is with its current loop
(`Slot`), what state each array is in (`Array`), and what a thread that has stopped
has counted (`Report`). `CountsComplete` needs the last together with the fact
that a thread stops only in a pass that it counts. `TypeCorrect` needs that
the sum is no more than the cap for each thread (`Bounded`).

`BandwidthProofs`. Of `BandwidthRun` (`MainSpec`), for any sizes, amounts of data,
thread counts and widths of the integers that `BandwidthRunAssumption` allows:

* `MainTypeCorrect`: every thread gets an even count of eight or more, also where
  the product overflows an int. The dividend stays a multiple of 2^20 when it wraps,
  and as a `uint64_t` it is at most 2^64 - 2^20. Rounding it up to an even number
  then cannot wrap, and the private mode's product cannot either, because `MeasureBw`
  refuses more threads than KB (`CountIs`, `IterationsAre`). With 2^20 threads it
  could: that is what the assumption on `MaxThreads` is for.
* `ReportsWhatIsMoved`: the reported total is the sum over the threads, in shared and
  private mode. As long as the product fits an int (a condition of the property; the
  64-bit total is taken as exact) the private mode's product does not wrap
  either. One execution of an instruction array fetches all of it, for any array of
  NOPs or calls (`FetchedKbIs`).
* `RowsCarryTheirCounters`: the counters in a line are those of its own test.
* The invariant follows a test through `MeasureBw`: what each thread was given
  before it is created (`Given`), what it has moved once it has ended (`Moved`),
  which threads run (`Running`), and that each line was printed with the counters
  read after its own run (`Printed`, `Metered`). The properties look at
  the end of a test only and say nothing of the steps before.

Of `BandwidthLoops`, for arrays and counts of any size:

* `InsideTheArray` and `LoadIsEven` hold if every loop is sound (`AllSound`: the
  pointer moves as the index does, by a stride that is no more than what the limit
  keeps back and that divides the distance to the limit); `WorkIsExact` holds if,
  besides, a lap takes as much off the count as it accesses each line (`AllCount`).
* `LoopsAreSound` shows of the loops of the sources that they fulfil the two
  hypotheses for every length that is a multiple of 1 KB. `avx512_copy` does not
  (section 8), and `riscv_add` does not count (it takes one off for two accesses).
* The invariant: the pointer is the index and a multiple of the stride (`Placed`),
  and after `n` laps the lines below the pointer have been swept `n + 1` times and
  the others `n` times, with the laps missing from the count (`Progress`).

`DeviceTestsProofs`, for any number of compute units, rounds and failing
submissions: `ExchangeIsStrict`, and `BufferOutlives` under the hypothesis that
`runAtomicsTest` can submit its kernel. They are theorems of the whole program
(`MainSpec`), which adds to the exchange only that there may be none (`MainInv`). To
keep turns over rounds one has to know what is left when the host comes back: the invariant has
one part per place of the host (`Ready`, `Copying`, `Running`, `Exchanged`,
`Quiet`) and, for the buffer of `runBufferSharingTest`, who owns it (`Buffers`).
`FirstOf` chooses the least of the pairs that remain; that there is one follows
from well-founded induction on the two indexes.

The same module has the pointer chases (`DeviceLatency`, in the program), for any
launch, any size of the list and any number of loads:

* `MainTypeCorrect`, which also has the ranges of the exchanges (`Ranges`): the word
  passes the limit only in a round that the host does not continue (`Fits`).
* `WavesShareItems`. The property compares items that have loaded as often. That
  they are together is because both are where the way from the wave's start has led
  after so many loads; the invariant says that there is such a way and that all items
  of the wave are on it (`Orbit`, `Follow`, `Together`). `WayExists` supplies it for
  every number of loads.
* `SectionsAreOwn`. Each part the host has filled is one cycle (`Prepared`, from
  `PatternsAreCyclic`), parts do not overlap and lie in the list (`LinesAre`), and what
  an item has loaded in its part leads only to itself and to where it is (`At`): it
  closes when the part is complete and not before (`LapCloses`). The number of lines
  loaded is part of the invariant.
* All three need `StartsAreKept`: the vector kernel runs a single item, and the scalar
  kernel a single group, which begin at `A[0]` and read no start index. With more, what
  `start_race` shows happens. The texture kernel and the one for local memory are free
  of it, for any number of items. `SectionsAreOwn` also needs `WavesAreGroups`: the
  scalar kernel has one start for a work group, so a group of several waves chases
  in one section (section 8).

`RescalingProofs`, for any number of threads, counts, costs and times, of functions
that are sound (`SoundTests`: a function's passes are alike, and at most one
sixteenth of what it counts is its own loop):

* `ExecutesIterations`. A function that counts each measured instruction once
  executes what it was asked for and at most one pass more, for every count and every
  length of its body, and exactly that if it is left on zero. The lemma behind it is
  about division (`PassesCover`).
* `TypeCorrect` (no count is ever scaled down to nothing) and `ResultsAreRates`. A
  result is read many rounds after the counts were chosen. The invariant says that a
  thread that is not running has executed what its count asks of the function
  (`Rounds`), which counts are never scaled (`Unscaled`), how the round's time
  relates to its slowest thread (`Timed`), and that a round at the end was accepted
  with its own sum (`Settled`).
* `FunctionsAreSound`: the functions of the sources that the runs measure are sound.
  The seven of section 8 are not.

Only model-checked:

* liveness (`BothJoin`, `MatrixPrinted`, `RunEnds`, `RunReturns`, `LoopEnds`,
  `Returns`, `MeasureEnds`), which is beyond the prover. Every safety property of
  the passing runs is proved, some under the hypotheses named above.

## 7. What is not modelled

More than half of the repository's lines are vendored OpenCL headers, listings and
copies: `InstructionRate/test.s` is the output of a disassembler, and
`MixedMemoryBandwidthTest/MemoryBandwidthFunctions.asm` a copy of the Windows
functions that `BandwidthLoops` has. Of the programs' own code:

* **Time.** Latencies are computed from clock readings in milliseconds, and a short run
  measures 0. Whether the bandwidth threads of the loaded test have started when
  the latency thread makes its first load is a matter of schedule; nothing in the
  code makes it wait, and `LoadedLatency` allows all schedules. In `Rescaling` an
  instruction of a thread costs the same in every round: with costs that change
  nothing ends for certain. Quotients are exact where the code has float.
* **Affinity**: `sched_setaffinity` can fail and the test goes on elsewhere.
* **What a stray thread does** to a later exchange on the same word; `CoherencyRun`
  records only that the measurement was disturbed, or never ends. The stray
  thread's parameters are on a stack frame that has returned.
* **The contents that `asm_add` adds to.** With `-sharedlatency -method add` they
  are the indexes that the latency thread follows.
* **Allocations of the Windows program that nothing stops for**: after `Could not
  allocate aligned mem` main goes on with a null pointer, the rows of the result
  array are not looked at (`CoherencyLatency.cpp:79`), and `RunOwnedTest` prints a
  message and goes on. What follows is a write through a null pointer.
* Thread creation in `LoadedLatency` and `BandwidthRun` succeeds; the code does not
  look at the result.
* **The C bandwidth loops**, bank conflict tests, NUMA modes and huge pages of
  `MemoryBandwidth.c`; the Windows build of it, which is a port without counters.
* **Registers and operands** of the instruction rate functions, and the lists of
  calls that choose a function and a label. `PerformsIterations` tolerates one
  instruction of sixteen, because many functions count the subtract and jump of
  their own loop among the measured instructions.
* `GetIterationCount`'s signed overflow is undefined; the model wraps, as the build
  does. The 64-bit product of the total is taken as exact.
* **GPU**: items of a launch whose wave size does not divide the threads have no
  start index; the assumption of `DeviceTests` excludes such launches. Lists and
  sections are counted in whole lines: a section that ends inside of a line shares
  that line with the next wave. `LineForEachWave` leaves out textures with
  more waves than lines (section 8), whose sections all begin inside of a line.
* **Counters in a sweep over thread counts.** They are never opened there, yet
  `MeasureBw` uses them: `stop_perf_monitoring` then reads from descriptor 0, the
  standard input, and waits for what it gets. `BandwidthRun` asks for counters only
  in the other two modes.
* GPU bandwidth, instruction rate and texture tests, `CoreClockChecker`, `AsmGen`,
  `c2cparse`, `RunStlfTest`, option parsing and the sweeps of the loaded test's
  `main`: `PROJECT.json` says why, one by one.

Assumptions of `Rescaling` that exclude states the program can be in: `Divides`
(`InstructionRate`'s functions that wait for zero get counts their stride divides;
its own 1500000000 is a multiple of each) and `Fits` (section 8, Measure2TBw).

## 8. Findings

| Run | What the code says | What it does |
|---|---|---|
| `stray_thread` | `PThreadsCoherencyLatency.c:98`: "Thread unexpectedly did not complete" | after a failed creation the other thread spins on, unnoticed, and its slot is reused |
| `wide_copy` | `MemoryBandwidth_x86.s:624`: "place loop limit 512B before end" | `avx512_copy` copies 512 bytes in a pass and moves its pointers by 256: half of what is counted is not copied |
| `start_race` | `latency_test.c:67`: "make sure all threads in a wave access the same item" | an item that ends writes `ret[0]`, where item 0 reads its start index |

Divergences that the models contain, or that came up when reading for them, and
that no run states:

Core-to-core and memory latency
* `PThreadsCoherencyLatency.c:225`: `RunTest` always passes
  `NoLockLatencyTestThread`; `testFunc`, and with it `-nolock`, has no effect,
  against the comment in line 176, "using the specified thread function".
* `MemoryLatency.c:398`: the extra page that line 392 wants to "handle separately"
  is linked and never filled when there are more than two pages.
* `MemoryLatency.c:437`: a page of 64-bit elements is filled by the 32-bit filler.
  Adding `"FillPageByPage64"` to `Tests` in `MCMemoryTests.cfg` shows that the
  traversal then does not complete "within one page" (line 417).
* `MemoryLatency.c:453` says that `FillPatternArr` "Fills an array using Sattolo's
  algo". `rand() % (iter - 1)` is taken with `iter` already lowered, so an element
  is never swapped with its lower neighbour unless that is element 0: the pattern
  is one cycle still, but most cycles never occur (`RandChoices`).
* `MemoryLatency.c:735` poisons the TLB test's array to "catch any bad accesses
  immediately", with the number of elements as the number of bytes: a quarter
  of it (`TlbFill`'s `Init`).

Bandwidth
* `LoadedMemoryLatency.c:294` says that `RunTest` "sets measuredBw". When the
  allocation fails it returns without (`AllocateFails`), and main prints what the
  variable held. `LoadedMemoryLatency.c:182` allocates one float too few.
* `LoadedMemoryLatency_amd64.s:118`, "count rmw as 2": of the eight words between
  lines 82 and 118 three are only read, and one is stored over another.
* `riscv_add` takes one off the count for two accesses of each line; the other
  `add` loops take two, so its figures are half of theirs for the same traffic.
* `MemoryBandwidth_x86.s:725`: the string copies take their destination at an eighth
  of the array and not in its second half; the Windows version does the same.
* The last lines of an array are never reached by `arm_copy`, the RISC-V loops and
  the loaded loops of aarch64, which keep back more than a pass needs (`Reached`).
* The `cflip` loops never end with an odd count; `GetIterationCount` returns none.
* `MemoryBandwidth.c:465` and `:469`: a run of a single size prints and closes
  counters whether or not they were opened; a sweep over thread counts never opens
  them and reads them from descriptor 0. The early returns of `MeasureBw` leave
  the arrays they have (`leaked`).

Instruction rate
* Seven functions execute other instructions than they count, because a label was
  not renamed or a line was copied: `vecsubzerotest` jumps into `subzerotest`'s
  loop, `fdivlattest` into `fdivtest`'s (so "FP divide latency" is a throughput),
  `latadd512int` into `latadd256int`'s, `mixaddjmptest` (aarch64) into
  `mixmuljmptest`'s, `vec_fp32_fma_test` (PowerPC) into `vec_fp32_add_test`'s;
  `avx512_fp64_fma_test` executes `vfmadd132ps`, `avx512_fp64_add_test` a
  multiply-add. With `TestFuncs <- AstrayFunctions` in `MCRescaling.cfg` (and
  `Measure2TBw` taken out of `Functions`) `ResultIsRate` is violated.
* Labels: "latadd512int" runs `latadd256int` (`x86_instructionrate.c:254`), "addmov"
  runs `addnoptest`, "1:2 FMA:PADD" runs `mix256faddintadd`, "64-bit mul per clk" of
  aarch64 runs `mul32test` (`arm_instructionrate.c:209`), the 256-bit spaced load's
  wrapper runs the 128-bit one, PowerPC's "INT32 multiply" is a 16-bit `vmuleuh`.
* `mixmul16mul64_21` is left by `jge` and makes one pass more than it is asked for.
* `mt_instructionrate.c:151`: "allow 10% variation?" allows 20. The single test
  chosen with `-test` compares the option and not its value, and runs nothing; with
  `-iter 0` a measurement does not end.
* `Measure2TBw` does not end for some ratios: with 8 iterations and costs of 5 and 6
  truncation brings the data thread's count back to where the ratio is 10 : 9
  (leave out `Fits`). What it prints as instruction bandwidth is computed from the
  data thread's bytes, and the other way round (`MixedMemoryBandwidthTest.cpp:127`).

GPU
* `latency_test.c:54` partitions the list, "creating a section for each wave", but
  `scalar_unrolled_latency_test` reads one start index for each work group: the waves
  of a group all chase in its first section. With
  `Launch("scalar_unrolled_latency_test", 4, 4, 2)` among the `SafeLaunches`,
  `OwnSection` is violated.
* `latency_test.c:34` refuses a list of which a wave would see "Less than 2 lines".
  `tex_latency_test` has no such check (`TooSmall`): it chases in sections of one
  line, and with more waves than lines the waves' sections share lines.
* `svmtest.cpp:265`: when the kernel cannot be submitted, the buffer is freed while
  the CPU thread spins on it, and the thread is never joined. With `"svm_atomics"` in
  `FailingTests` of `MCDeviceTests.cfg`, `BufferOutlivesWorkers` is violated.
* `svmtest.cpp:158`: coarse grained memory is written before it is first mapped.
* `opencltest.c:433`: the divergence test writes results past the end of its table.
* `CoreClockChecker.c:193`: a descriptor that could not be opened is kept, and the
  next reading uses it.

## 9. Plan

Done: both core-to-core programs, their abstract specification and proofs; the
scheduler with its proofs; all patterns and chases of the memory latency test with
their proofs; the loaded latency test and its proof; all bandwidth loops
with their proofs; the bandwidth test's main with counters and its proof; both instruction rate
programs and their functions, with proofs; the GPU exchanges and chases with their proofs.

What is left, in this order:

1. `StrayBounce`: `BouncePair` composed with a thread left over from an earlier
   pair on the same word, to see which exchanges it can still spoil or hang.
2. `LoadedSweep` (main of the loaded test) and its Windows version; the mode of the
   loaded test in which threads add to the indexes that are being followed.
3. `MsrCache` (core clock: descriptors that are kept, counters that wrap).
4. The GPU bandwidth tests, and launches that the wave size does not divide.
