--------------------------- MODULE BandwidthLoops --------------------------
(***************************************************************************)
(* The assembly loops that move the data of the bandwidth tests:           *)
(* MemoryBandwidth_x86.s, _arm.s, _riscv.s and the Windows functions of 64 *)
(* and 32 bits, which run until an iteration count is used up, and those   *)
(* of the loaded latency test, which run until main sets a flag.           *)
(*                                                                         *)
(* A pass loads or stores the lines from its pointer on, moves an index    *)
(* and the pointer, and goes back to the start of the array when the index *)
(* says that too little of it is left.  Lengths are in lines of 64 bytes.  *)
(* Registers, the words of a line and throttling are left out.             *)
(***************************************************************************)
EXTENDS Integers, FiniteSetsExt

CONSTANTS
  Loops(_),    (* the loops that are run, for an array of so many lines    *)
  Lengths,     (* array lengths; a multiple of 1 KB in the callers         *)
  Iterations,  (* iteration counts; even, GetIterationCount sees to it     *)
  MaxPasses    (* bound: passes of a loaded loop before the flag is set    *)

VARIABLES
  loop,        (* the loop that runs                                       *)
  index,       (* rsi, x14: how far the loop believes it has come          *)
  pointer,     (* rdi, x15: the line the next pass begins with             *)
  count, left, (* the iterations it was given, and r8, x2: those left      *)
  sweeps,      (* sweeps[l]: passes that went over line l                  *)
  bytes,       (* rax, x13: what a loaded loop has counted                 *)
  flag,        (* *flag, set by main of the loaded test                    *)
  pc           (* "pass", or "end" once the loop has been left             *)

vars == <<loop, index, pointer, count, left, sweeps, bytes, flag, pc>>

-----------------------------------------------------------------------------
(* A loop over "area" lines whose passes go over "step" lines and need     *)
(* "keep" lines to go on.  A pass accesses a line "accesses" times, a lap  *)
(* takes "lap" off the count, and the loop is left when "done" holds.      *)
Loop(area, step, keep, accesses, lap, done) ==
  [area |-> area, step |-> step, advance |-> step, keep |-> keep,
   accesses |-> accesses, lap |-> lap, done |-> done]

\* Loops that are left when the count is zero: dec, jnz (cbnz).
asm_read(n)       == Loop(n, 8, 8, 1, 1, "zero")
asm_write(n)      == Loop(n, 8, 8, 1, 1, "zero")
asm_cflip(n)      == Loop(n, 8, 8, 2, 2, "zero")
sse_read(n)       == Loop(n, 8, 8, 1, 1, "zero")
sse_write(n)      == Loop(n, 8, 8, 1, 1, "zero")
sse_ntwrite(n)    == Loop(n, 8, 8, 1, 1, "zero")
avx512_read(n)    == Loop(n, 8, 8, 1, 1, "zero")
avx512_write(n)   == Loop(n, 8, 8, 1, 1, "zero")
clzero_write(n)   == Loop(n, 8, 8, 1, 1, "zero")
avx_read_win(n)   == Loop(n, 8, 8, 1, 1, "zero")
avx_write_win(n)  == Loop(n, 8, 8, 1, 1, "zero")
avx_ntwrite_win(n) == Loop(n, 8, 8, 1, 1, "zero")
avx_cflip_win(n)  == Loop(n, 8, 8, 2, 2, "zero")
avx_add_win(n)    == Loop(n, 8, 8, 2, 2, "zero")
avx512_read_win(n) == Loop(n, 8, 8, 1, 1, "zero")
sse_read_win(n)   == Loop(n, 8, 8, 1, 1, "zero")
sse_read32(n)     == Loop(n, 8, 8, 1, 1, "zero")
mmx_read32(n)     == Loop(n, 4, 4, 1, 1, "zero")
scalar_read32(n)  == Loop(n, 2, 2, 1, 1, "zero")
arm_read(n)       == Loop(n, 8, 8, 1, 1, "zero")
arm_write(n)      == Loop(n, 8, 8, 1, 1, "zero")
arm_cflip(n)      == Loop(n, 8, 8, 2, 2, "zero")

\* Copies go over the first half and store to the second.  avx512_copy
\* goes over eight lines and moves its pointers by four.
asm_copy(n)       == Loop(n \div 2, 4, 4, 1, 1, "zero")
avx_copy_win(n)   == Loop(n \div 2, 4, 4, 1, 1, "zero")
sse_copy_win(n)   == Loop(n \div 2, 4, 4, 1, 1, "zero")
arm_copy(n)       == Loop(n \div 2, 4, 8, 1, 1, "zero")
avx512_copy(n)    == [Loop(n \div 2, 8, 8, 1, 1, "zero") EXCEPT !.advance = 4]

\* String instructions make a lap in one pass.
repmovsb_copy(n)  == Loop(n \div 2, n \div 2, n \div 2, 1, 1, "zero")
repmovsd_copy(n)  == Loop(n \div 2, n \div 2, n \div 2, 1, 1, "zero")
repmovsb_win(n)   == Loop(n \div 2, n \div 2, n \div 2, 1, 1, "zero")
repstosb_win(n)   == Loop(n, n, n, 1, 1, "zero")
repstosb_write(n) == Loop(n, n, n, 1, 1, "zero")
repstosd_write(n) == Loop(n, n, n, 1, 1, "zero")

\* Loops that are left when the count is no longer positive: jg, b.gt, blt.
sse_write_win(n)  == Loop(n, 8, 8, 1, 1, "positive")
sse_ntwrite_win(n) == Loop(n, 8, 8, 1, 1, "positive")
asm_add(n)        == Loop(n, 8, 8, 2, 2, "positive")
avx512_add(n)     == Loop(n, 8, 8, 2, 2, "positive")
sse_add_win(n)    == Loop(n, 8, 8, 2, 2, "positive")
arm_add(n)        == Loop(n, 8, 8, 2, 2, "positive")
riscv_read(n)     == Loop(n, 1, 2, 1, 1, "positive")
riscv_write(n)    == Loop(n, 1, 2, 1, 1, "positive")
riscv_add(n)      == Loop(n, 1, 2, 2, 1, "positive")

\* Loops that are left when they see the flag.  Those of aarch64 have taken
\* a pass off the length before they compare.
loaded_read(n)    == Loop(n, 2, 2, 1, 0, "flag")
loaded_add(n)     == Loop(n, 2, 2, 2, 0, "flag")
loaded_win_read(n) == Loop(n, 2, 2, 1, 0, "flag")
loaded_arm_read(n) == Loop(n, 2, 4, 1, 0, "flag")
loaded_arm_add(n) == Loop(n, 2, 4, 2, 0, "flag")

-----------------------------------------------------------------------------
ASSUME BandwidthLoopsAssumption ==
  /\ \A n \in Lengths : n \in Nat \ {0} /\ n % 16 = 0
  /\ \A n \in Iterations : n \in Nat \ {0} /\ n % 2 = 0
  /\ MaxPasses \in Nat

Lines == 0 .. loop.area - 1

\* The lines of the pass that begins at "pointer".
Touched == pointer .. pointer + loop.step - 1

Flagged == loop.done = "flag"
Passes == MapThenSumSet(LAMBDA l : sweeps[l], Lines) \div loop.step

Init ==
  /\ \E n \in Lengths : loop \in Loops(n)
  /\ count \in Iterations
  /\ index = 0
  /\ pointer = 0
  /\ left = count
  /\ sweeps = [l \in Lines |-> 0]
  /\ bytes = 0
  /\ flag = 0
  /\ pc = "pass"

\* Mutants: the loop goes back one pass late or early; a lap of a
\* read-modify-write loop counts once; the flag is not set.
GoesBack_Late == index > loop.area - loop.keep
GoesBack_Early == index + 2 * loop.step > loop.area - loop.keep
LeftAfterLap_Once == left - 1
FlagAfter_Unset == 0

\* After the index has moved: is it past the last place for a pass?
GoesBack == index + loop.step > loop.area - loop.keep
FirstLine == 0
LeftAfterLap == left - loop.lap
FlagAfter == 1

\* The asm_adds count a line twice, one of them when it returns.
Counted == bytes + 64 * loop.step * loop.accesses

Sweep ==
  sweeps' = [l \in Lines |-> IF l \in Touched THEN sweeps[l] + 1 ELSE sweeps[l]]

Advance ==
  IF GoesBack
  THEN index' = FirstLine /\ pointer' = FirstLine
  ELSE index' = index + loop.step /\ pointer' = pointer + loop.advance

\* A pass of a loop that counts: a lap is taken off when it is back at the
\* start, and only then is the count looked at.
CountedPass ==
  /\ pc = "pass"
  /\ ~ Flagged
  /\ Sweep
  /\ Advance
  /\ left' = IF GoesBack THEN LeftAfterLap ELSE left
  /\ pc' = IF GoesBack /\ (left' = 0 \/ (loop.done = "positive" /\ left' < 0))
           THEN "end" ELSE "pass"
  /\ UNCHANGED <<loop, count, bytes, flag>>

\* A pass of a loop of the loaded test: counted, then the flag, then the end
\* of the array.
FlaggedPass ==
  /\ pc = "pass"
  /\ Flagged
  /\ flag = 0 => Passes < MaxPasses
  /\ Sweep
  /\ bytes' = Counted
  /\ IF flag # 0 THEN pc' = "end" /\ UNCHANGED <<index, pointer>>
                 ELSE Advance /\ UNCHANGED pc
  /\ UNCHANGED <<loop, count, left, flag>>

\* main of the loaded test, once the latency thread has returned: flag = 1.
Stop ==
  /\ Flagged
  /\ flag = 0
  /\ flag' = FlagAfter
  /\ UNCHANGED <<loop, index, pointer, count, left, sweeps, bytes, pc>>

Ended == pc = "end" /\ UNCHANGED vars

Next == CountedPass \/ FlaggedPass \/ Stop \/ Ended

\* The thread runs its loop; main sets the flag in the end.
Spec == Init /\ [][Next]_vars
FairSpec == Spec /\ WF_vars(CountedPass \/ FlaggedPass) /\ WF_vars(Stop)

-----------------------------------------------------------------------------
\* Type invariant.  Every pass lies inside the array: no loop reads or writes
\* behind the end, whatever its limit and stride.
TypeOK ==
  /\ index \in Nat
  /\ pointer \in Lines
  /\ pointer + loop.step <= loop.area
  /\ left \in Int
  /\ sweeps \in [Lines -> Nat]
  /\ bytes \in Nat
  /\ flag \in {0, 1}
  /\ pc \in {"pass", "end"}

\* The lines a loop can reach.  One that keeps back more than a pass needs
\* never comes to the rest: the last lines of the RISC-V loops, of arm_copy
\* and of the loaded loops of aarch64.
Reached == 0 .. loop.area - 1 - (loop.keep - loop.step)

\* The load is spread evenly: no line that is reached is swept twice more than
\* another, at any time.
EvenSweep == \A a, b \in Reached : sweeps[a] <= sweeps[b] + 1

\* What a test divides by the elapsed time.  MeasureBw multiplies iterations by
\* the size of the array: a loop that has returned has accessed every line it
\* reaches once for each iteration, so that stride, limit and lap have to agree.
\* "return bytes read in rax" (or x0): a loop of the loaded test returns the
\* bytes of all the passes it made, the one that saw the flag included.
ExactWork ==
  pc = "end" =>
    IF Flagged
    THEN bytes = 64 * loop.step * loop.accesses * Passes
    ELSE \A l \in Reached : sweeps[l] * loop.accesses = count

\* Every loop ends.  Those that are left on zero would step over it with an
\* odd count; the loaded ones end because each pass looks at the flag.
LoopEnds == <>(pc = "end")

=============================================================================
