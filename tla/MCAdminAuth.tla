----------------------------- MODULE MCAdminAuth -----------------------------
(* A small instance of AdminAuth for TLC. *)
EXTENDS AdminAuth, TLC

CONSTANTS t1, t2, j1, j2

Expiries == (j1 :> 1) @@ (j2 :> 2)

ThreadSymmetry == Permutations(Threads)
=============================================================================
