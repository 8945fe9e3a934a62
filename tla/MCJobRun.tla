------------------------------ MODULE MCJobRun ------------------------------
(* Small instances of JobRun for TLC. *)
EXTENDS JobRun

CONSTANTS i1, s1

Ask(s, d, m) == [instance |-> i1, session |-> s, deliverable |-> d, mode |-> m]

\* Every deliverable, a plan, and turns of a chat with a conversation to resume.
AllRequests ==
    {Ask(NoSession, "patch", "auto"), Ask(NoSession, "pr", "auto"),
     Ask(s1, "analysis", "auto"), Ask(s1, "commit", "auto"), Ask(s1, "pr", "plan")}

Set(n, c, g, z, d, s) ==
    [repos |-> n, checks |-> c, gate |-> g, zeroCap |-> z, docker |-> d, seeds |-> s]

\* Gated checks in a container over one repository with agenthook's own files
\* in it, and over two repositories on the host; checks that do not gate; a
\* cost cap of zero without a repository; no checks.
AllSettings ==
    {Set(1, TRUE, TRUE, FALSE, TRUE, TRUE), Set(2, TRUE, TRUE, FALSE, FALSE, FALSE),
     Set(1, TRUE, FALSE, FALSE, TRUE, FALSE), Set(0, TRUE, TRUE, TRUE, FALSE, FALSE),
     Set(2, FALSE, TRUE, FALSE, TRUE, FALSE)}

\* No checks, one repository, a commit asked for outside any chat.
Plain == {Set(1, FALSE, TRUE, FALSE, FALSE, FALSE)}
OneCommit == {Ask(NoSession, "commit", "auto")}
NewOrUsed == {0, 1}
New == {0}
=============================================================================
