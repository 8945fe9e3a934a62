------------------------------ MODULE JobModel ------------------------------
(***************************************************************************)
(* The vocabulary of agenthook/models.py: job statuses, deliverables and   *)
(* modes, and the columns of a job that never change once its row exists.  *)
(* Job ids are random in the code; here a job is numbered by its position  *)
(* in created_at order, so that j < k says "j was created before k".       *)
(***************************************************************************)
EXTENDS Naturals

CONSTANTS
    MaxJobs,     \* bound on the number of jobs ever created
    Instances,   \* the configured instances
    Sessions,    \* chat sessions (rows of the sessions table)
    NoSession    \* a job outside any session

ASSUME JobModelAssumption ==
    /\ MaxJobs \in Nat
    /\ NoSession \notin Sessions

JobIds == 1..MaxJobs
NoJob == 0

\* The status column, plus "absent": no row with this id.
Terminal == {"success", "failed-checks", "blocked", "error", "timeout",
             "interrupted", "rejected", "expired"}
Status == {"queued", "running", "awaiting_approval"} \cup Terminal
RowStatus == Status \cup {"absent"}

Mutating == {"patch", "commit", "pr"}
ReadOnly == {"analysis", "action"}
Deliverable == Mutating \cup ReadOnly
Pushing == {"commit", "pr"}          \* the deliverables that reach a remote

Mode == {"auto", "plan", "default"}

\* What a caller asks for.
Request == [instance: Instances, session: Sessions \cup {NoSession},
            deliverable: Deliverable, mode: Mode]

\* The immutable part of a row: the request after mode resolution, which
\* intake created it, and metadata.approved_from for an apply job.
JobSpec == [instance: Instances, session: Sessions \cup {NoSession},
            deliverable: Deliverable, mode: Mode,
            origin: {"hook", "operator", "apply"}, source: JobIds \cup {NoJob}]

\* A plan on a code deliverable parks for a human instead of finishing.
Parks(s) == s.mode = "plan" /\ s.deliverable \in Mutating

\* The statuses _on_engine_error and the last-resort guard can leave.
Failures == {"blocked", "timeout", "error"}
=============================================================================
