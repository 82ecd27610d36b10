------------------------------- MODULE PoolMC -------------------------------
(* Model values for Pool. *)
EXTENDS Pool, TLC

CONSTANTS g1, g2, t1, t2, small, large

\* Goroutines are interchangeable, and so are transactions: no property names one.
Symmetry == Permutations(Procs) \cup Permutations(Txs)

MCGroupRules == (small :> 1) @@ (large :> 2)
=============================================================================
