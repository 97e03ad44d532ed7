------------------------------- MODULE Totals -------------------------------
(* Sums over finite sets, by a function the provers can reason about.      *)
EXTENDS Integers

\* The sum of f[x] for all x of a finite set.
Total(f, S) ==
  LET sum[T \in SUBSET S] ==
        IF T = {} THEN 0 ELSE LET x == CHOOSE x \in T : TRUE IN f[x] + sum[T \ {x}]
  IN  sum[S]
=============================================================================
