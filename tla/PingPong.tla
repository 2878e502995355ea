------------------------------ MODULE PingPong ------------------------------
(***************************************************************************)
(* What every latency test of the repository promises: two workers push    *)
(* one number up to 2 * Iterations, in strict turns.  Worker 1 writes the  *)
(* odd values, worker 2 the even ones, no value is skipped and none is     *)
(* written twice.  The time the program divides by the iteration count is  *)
(* the time of exactly this exchange.                                      *)
(*                                                                         *)
(* The thread functions that implement it differ in how a worker sees and  *)
(* publishes the number: a compare-and-swap, a plain load and store, or    *)
(* two separate words (modules BouncePair and OwnedPair).                  *)
(***************************************************************************)
EXTENDS Integers

CONSTANTS
  Iterations,  (* round trips requested with -iterations                   *)
  First        (* the value both workers start from                        *)

VARIABLES
  value,       (* the latest value published                               *)
  writes       (* writes[w]: how many values worker w has published        *)

ppVars == <<value, writes>>

Worker == {1, 2}

\* The worker whose turn it is: the one of the parity of the next value.
Turn == IF value % 2 = 0 THEN 1 ELSE 2

PPInit ==
  /\ value = First
  /\ writes = [w \in Worker |-> 0]

Publish(w) ==
  /\ value < 2 * Iterations
  /\ w = Turn
  /\ value' = value + 1
  /\ writes' = [writes EXCEPT ![w] = @ + 1]

PPNext == \E w \in Worker : Publish(w)

PPSpec == PPInit /\ [][PPNext]_ppVars

=============================================================================
