----------------------------- MODULE MCConsoles -----------------------------
(* Small instances of Consoles for TLC. *)
EXTENDS Consoles, TLC

CONSTANTS i1, s1, t1, t2, c1

Ask(i, s, d, m) ==
    [instance |-> i, session |-> s, deliverable |-> d, mode |-> m]

TwoSlots == [i \in Instances |-> 2]
PlanHooks == {Ask(i1, s1, "pr", "auto")}
OperatorCommit == {Ask(i1, NoSession, "commit", "auto")}
ChatQuestion == {Ask(i1, s1, "analysis", "auto")}

ThreadSymmetry == Permutations(Threads)
=============================================================================
