---------------------------- MODULE JobLifecycle ----------------------------
(***************************************************************************)
(* What agenthook promises about a job, whatever threads, processes and    *)
(* crashes do underneath: the status machine of DESIGN.md section 31 with  *)
(* the promises that come with it.                                         *)
(*   - a terminal status is final;                                         *)
(*   - a job whose code change has reached a remote is never queued again, *)
(*     so no change is ever pushed twice;                                  *)
(*   - a plan on a code deliverable succeeds only by a human decision;     *)
(*   - a change asked for by a webhook reaches a remote only if the        *)
(*     instance opted into auto-apply or a human approved its plan.        *)
(***************************************************************************)
EXTENDS JobModel

CONSTANT AutoApply   \* instances with allow_auto_apply

VARIABLES
    spec,     \* the immutable columns of every job
    status,   \* the status of every job
    pushes    \* how often the job's change has been pushed to a remote

lifecycleVars == <<spec, status, pushes>>

LInit ==
    /\ spec \in [JobIds -> JobSpec]
    /\ status = [j \in JobIds |-> "absent"]
    /\ pushes = [j \in JobIds |-> 0]

\* An apply job exists only for a plan a human approved, and once.
Approved(s) ==
    /\ s.source \in JobIds
    /\ status[s.source] = "success"
    /\ Parks(spec[s.source])
    /\ \A k \in JobIds : spec[k].source = s.source => status[k] = "absent"

\* A code change a webhook asks for is planned first, unless opted out.
Reviewed(s) ==
    s.origin = "hook" /\ s.deliverable \in Mutating =>
        s.mode = "plan" \/ s.instance \in AutoApply

Submit(j) ==
    /\ status[j] = "absent"
    /\ \E s \in JobSpec :
          /\ s.origin = "apply" => Approved(s)
          /\ Reviewed(s)
          /\ spec' = [spec EXCEPT ![j] = s]
    /\ status' = [status EXCEPT ![j] = "queued"]
    /\ UNCHANGED pushes

Dispatch(j) ==
    /\ status[j] = "queued"
    /\ status' = [status EXCEPT ![j] = "running"]
    /\ UNCHANGED <<spec, pushes>>

\* The one step that changes a remote.
Push(j) ==
    /\ status[j] = "running"
    /\ spec[j].deliverable \in Pushing /\ spec[j].mode # "plan"
    /\ pushes[j] = 0
    /\ pushes' = [pushes EXCEPT ![j] = 1]
    /\ UNCHANGED <<spec, status>>

Conclude(j) ==
    /\ status[j] = "running"
    /\ \E s \in Terminal \cup {"awaiting_approval"} :
          /\ s = "success" => ~Parks(spec[j])
          /\ s = "awaiting_approval" => Parks(spec[j])
          /\ status' = [status EXCEPT ![j] = s]
    /\ UNCHANGED <<spec, pushes>>

\* A run that could not start, or a read-only run cut short, goes back.
Requeue(j) ==
    /\ status[j] = "running"
    /\ pushes[j] = 0
    /\ status' = [status EXCEPT ![j] = "queued"]
    /\ UNCHANGED <<spec, pushes>>

Decide(j) ==
    /\ status[j] = "awaiting_approval"
    /\ \E s \in {"success", "rejected"} : status' = [status EXCEPT ![j] = s]
    /\ UNCHANGED <<spec, pushes>>

LNext ==
    \E j \in JobIds :
        \/ Submit(j) \/ Dispatch(j) \/ Push(j) \/ Conclude(j)
        \/ Requeue(j) \/ Decide(j)

LSpec == LInit /\ [][LNext]_lifecycleVars
=============================================================================
