-------------------------------- MODULE Bits --------------------------------
(***************************************************************************)
(* The integer arithmetic the tree code is written in: powers of two for   *)
(* 1 << n, right shifts, and the sibling of an index (index ^ 1).          *)
(***************************************************************************)
EXTENDS Integers

(* 1 << n. *)
Pow2[n \in Nat] == IF n = 0 THEN 1 ELSE 2 * Pow2[n - 1]

(* x >> n. *)
Shr(x, n) == x \div Pow2[n]

(* x ^ 1: the index of the other child of the same parent. *)
Sibling(x) == IF x % 2 = 0 THEN x + 1 ELSE x - 1

(* (x >> n) & 1. *)
Bit(x, n) == Shr(x, n) % 2

(* for (k = 0; k < n; k++) x = Step(k, x).  A Step that returns its argument *)
(* stands for a loop condition that has failed.  (The singleton set makes    *)
(* TLC finish one iteration before it starts the next.)                      *)
Loop(Step(_, _), n, x) ==
  LET after[k \in 0..n] ==
        IF k = 0 THEN x
        ELSE CHOOSE y \in {Step(k - 1, z) : z \in {after[k - 1]}} : TRUE
  IN  after[n]

(* f[0] + ... + f[n - 1]. *)
SumTo(f, n) ==
  LET sum[i \in 0..n] == IF i = 0 THEN 0 ELSE sum[i - 1] + f[i - 1]
  IN  sum[n]
=============================================================================
