--------------------------- MODULE InstructionLoops -------------------------
(***************************************************************************)
(* The assembly functions whose instructions the rate tests count; the     *)
(* functions themselves are in InstructionRateLoops and                    *)
(* MtInstructionRateLoops.                                                 *)
(*                                                                         *)
(* Each repeats a body until an iteration count is used up, and its caller *)
(* divides that count by the time as if every iteration were one of the    *)
(* instructions named in the line it prints.  What matters of a function   *)
(* is therefore how many of these a pass executes, how many it takes off   *)
(* the count, and when it returns.  Registers, operands and the moves that *)
(* only prepare them are left out.                                         *)
(***************************************************************************)
EXTENDS Integers

(* A function with "first" measured instructions in its first pass and     *)
(* "measured" in the others, each of which takes "counted" off the count.  *)
(* It is left on zero (jnz, cbnz, b.ne), when the count is not positive    *)
(* (jg, b.gt, blt), or when it is negative (jge).                          *)
Astray(first, measured, counted, exit) ==
  [first |-> first, measured |-> measured, counted |-> counted, exit |-> exit]

\* All passes are alike, unless the function jumps back into another one.
Kernel(measured, counted, exit) == Astray(measured, measured, counted, exit)

-----------------------------------------------------------------------------
\* A function that waits for zero steps over it unless its stride divides the
\* count; it would then go on until the 64-bit count meets zero by chance.
Ends(k, n) == k.exit = "zero" => n > 0 /\ n % k.counted = 0

\* How far past the count a function may go before it leaves.
Late(k) ==
  [zero |-> 0, positive |-> k.counted - 1, nonnegative |-> k.counted][k.exit]

\* The passes made for n > 0 iterations.
Passes(k, n) == (n + Late(k)) \div k.counted

\* The measured instructions executed for n iterations.
Executed(k, n) == k.first + (Passes(k, n) - 1) * k.measured

=============================================================================
