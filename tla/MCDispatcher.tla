---------------------------- MODULE MCDispatcher ----------------------------
(* Small instances of Dispatcher for TLC. *)
EXTENDS Dispatcher, TLC

CONSTANTS i1, i2, s1, t1, t2

Ask(i, s, d, m) ==
    [instance |-> i, session |-> s, deliverable |-> d, mode |-> m]

TwoSlots == [i \in Instances |-> 2]

OneSlot == [i \in Instances |-> 1]

\* A reviewed change in a chat, a question in the same chat.
PlanHooks == {Ask(i1, s1, "pr", "auto")}
ChatHooks == PlanHooks \cup {Ask(i1, s1, "analysis", "auto")}
\* Questions outside any chat.
Questions == {Ask(i1, NoSession, "analysis", "auto")}
TwoQuestions == {Ask(i, NoSession, "analysis", "auto") : i \in Instances}
\* An operator's change outside any chat.
OperatorCommit == {Ask(i1, NoSession, "commit", "auto")}

\* A reviewed change, and questions for two instances.
LifeHooks == PlanHooks \cup TwoQuestions

ThreadSymmetry == Permutations(Threads)
=============================================================================
