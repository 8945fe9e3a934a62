----------------------------- MODULE Dispatcher -----------------------------
(***************************************************************************)
(* The agenthook server process: job intake, the dispatcher thread, the    *)
(* thread pool that executes jobs, approvals, boot recovery, shutdown and  *)
(* crash, over the durable jobs table.                                     *)
(*                                                                         *)
(* The jobs table keeps a status twice: in the status column, which every  *)
(* query filters on, and inside the JSON data column, which get_job reads. *)
(* save_job writes both, claim_job only the column.                        *)
(*                                                                         *)
(* Steps are separated where another thread, or a crash, can come between  *)
(* two accesses to the table, the instance files or a remote.              *)
(***************************************************************************)
EXTENDS JobModel, Sequences, FiniteSets

CONSTANTS
    Threads,           \* the ThreadPoolExecutor's workers (max_parallel)
    QueueLimit,        \* LIMIT of store.queued_jobs (100 in the code)
    Concurrency,       \* per instance: limits.concurrency or the default
    AutoApply,         \* instances with allow_auto_apply
    PlanCapable,       \* instances whose engine has plan mode
    HookRequests,      \* what webhook callers send
    OperatorRequests,  \* what schedules and admin runs ask for
    Managed,           \* instances whose file the operator changes
    EngineFailures,    \* the failures the engine shows in this environment
    ReportsFail        \* whether a report can fail on every attempt

ASSUME DispatcherAssumption ==
    /\ Instances # {}
    /\ QueueLimit \in Nat \ {0}
    /\ Concurrency \in [Instances -> Nat \ {0}]
    /\ AutoApply \subseteq Instances
    /\ PlanCapable \subseteq Instances
    /\ HookRequests \subseteq Request
    /\ OperatorRequests \subseteq Request
    /\ Managed \subseteq Instances
    /\ EngineFailures \subseteq Failures
    /\ ReportsFail \in BOOLEAN

VARIABLES
    created,   \* number of jobs created so far: the ids 1..created are used
    spec,      \* the immutable columns of every row
    status,    \* the status column
    data,      \* the status inside the data column
    config,    \* each instance's file: "active", "paused" or "absent"
    phase,     \* "down", "recovering", "up" or "stopping"
    recover,   \* rows recover_interrupted still has to reconcile
    dpc,       \* where the dispatcher thread is
    round,     \* the rest of the list queued_jobs returned
    cand,      \* the job the dispatcher is about to claim or submit
    pool,      \* submitted and not yet started, oldest first
    pc,        \* where each pool thread is in Worker._run / run_job
    on,        \* the job each pool thread executes
    mem,       \* the status in each thread's in-memory Job object
    deciding,  \* plan whose approve handler has yet to create the apply job
    pushes,    \* history: pushes of each job's change to a remote
    told,      \* history: statuses reported to the outside for each job
    stuck      \* history: jobs this process dropped by an uncaught exception

rows == <<created, spec, status, data>>
loop == <<dpc, round, cand>>
exec == <<pc, on, mem>>
history == <<pushes, told, stuck>>
vars == <<created, spec, status, data, config, phase, recover, dpc, round,
          cand, pool, pc, on, mem, deciding, pushes, told, stuck>>

ConfigState == {"active", "paused", "absent"}
Phase == {"down", "recovering", "up", "stopping"}
DispatchPC == {"off", "scan", "pick", "claim", "submit"}
ThreadPC == {"idle", "enter", "work", "apply", "save", "report", "requeue"}

Blank == [instance |-> CHOOSE i \in Instances : TRUE, session |-> NoSession,
          deliverable |-> "analysis", mode |-> "auto",
          origin |-> "operator", source |-> NoJob]

Init ==
    /\ created = 0
    /\ spec = [j \in JobIds |-> Blank]
    /\ status = [j \in JobIds |-> "absent"]
    /\ data = [j \in JobIds |-> "absent"]
    /\ config = [i \in Instances |-> "active"]
    /\ phase = "down"
    /\ recover = {}
    /\ dpc = "off"
    /\ round = {}
    /\ cand = NoJob
    /\ pool = <<>>
    /\ pc = [t \in Threads |-> "idle"]
    /\ on = [t \in Threads |-> NoJob]
    /\ mem = [t \in Threads |-> "absent"]
    /\ deciding = NoJob
    /\ pushes = [j \in JobIds |-> 0]
    /\ told = [j \in JobIds |-> {}]
    /\ stuck = {}
-----------------------------------------------------------------------------
(* The store.                                                              *)

HasStatus(s) == {j \in JobIds : status[j] = s}
Running == HasStatus("running")

\* running_count, session_running and mutating_running, as sets of jobs.
RunningOn(i) == {j \in Running : spec[j].instance = i}
RunningIn(s) == {j \in Running : spec[j].session = s}
MutatingOn(i) == {j \in RunningOn(i) : spec[j].deliverable \in Mutating}

\* Two jobs that may not run at once: one session, or one repository.
Conflict(j, k) ==
    \/ spec[j].session = spec[k].session /\ spec[j].session # NoSession
    \/ /\ spec[j].instance = spec[k].instance
       /\ spec[j].deliverable \in Mutating /\ spec[k].deliverable \in Mutating

\* Mutant: the newest rows first.
QueuedJobsNewest ==
    {j \in HasStatus("queued") :
        Cardinality({k \in HasStatus("queued") : k > j}) < QueueLimit}

\* queued_jobs: the oldest QueueLimit rows whose column is queued.
QueuedJobs ==
    {j \in HasStatus("queued") :
        Cardinality({k \in HasStatus("queued") : k < j}) < QueueLimit}

\* create_job: INSERT of a row with a fresh id.
CreateJob(s) ==
    /\ created < MaxJobs
    /\ created' = created + 1
    /\ spec' = [spec EXCEPT ![created + 1] = s]
    /\ status' = [status EXCEPT ![created + 1] = "queued"]
    /\ data' = [data EXCEPT ![created + 1] = "queued"]

\* Mutant: only the column is written.
SaveColumn(j, s) ==
    /\ status' = [status EXCEPT ![j] = IF status[j] = "absent" THEN "absent" ELSE s]
    /\ UNCHANGED <<created, spec, data>>

\* save_job: UPDATE ... WHERE id = ?, nothing when the row is gone.
SaveJob(j, s) ==
    LET new == IF status[j] = "absent" THEN "absent" ELSE s
    IN  /\ status' = [status EXCEPT ![j] = new]
        /\ data' = [data EXCEPT ![j] = new]
        /\ UNCHANGED <<created, spec>>
-----------------------------------------------------------------------------
(* Intake.  Handlers of the event loop run one at a time.                  *)

LoopFree == phase = "up" /\ deciding = NoJob

\* Mutant: the mode the caller asked for is kept.
RequestedMode(r) == r.mode

\* _resolve_params: a code deliverable goes through plan unless opted out.
ResolveMode(r) ==
    IF r.deliverable \in Mutating /\ r.mode # "plan" /\ r.instance \notin AutoApply
    THEN "plan" ELSE r.mode

SpecOf(r, m, o, k) ==
    [instance |-> r.instance, session |-> r.session,
     deliverable |-> r.deliverable, mode |-> m, origin |-> o, source |-> k]

\* POST /hook: refused while the instance is paused or gone, and when the
\* engine cannot plan what has to be planned.
Hook(r) ==
    /\ LoopFree
    /\ config[r.instance] = "active"
    /\ ResolveMode(r) = "plan" => r.instance \in PlanCapable
    /\ CreateJob(SpecOf(r, ResolveMode(r), "hook", NoJob))
    /\ UNCHANGED <<config, phase, recover, loop, pool, exec, deciding, history>>

\* POST /admin/instances/{name}/run and the scheduler take the mode as given;
\* the admin endpoint does not look at the pause.
OperatorRun(r) ==
    /\ phase = "up"
    /\ config[r.instance] # "absent"
    /\ CreateJob(SpecOf(r, r.mode, "operator", NoJob))
    /\ UNCHANGED <<config, phase, recover, loop, pool, exec, deciding, history>>

\* _decide: a link exists once the approval request went out.
Decidable(j) ==
    /\ LoopFree
    /\ "awaiting_approval" \in told[j]
    /\ data[j] = "awaiting_approval"

Approve(j) ==
    /\ Decidable(j)
    /\ SaveJob(j, "success")
    /\ deciding' = j
    /\ UNCHANGED <<config, phase, recover, loop, pool, exec, history>>

\* The rest of the approve branch: the apply job, mode auto.
CreateApply ==
    /\ deciding # NoJob
    /\ CreateJob(SpecOf(spec[deciding], "auto", "apply", deciding))
    /\ deciding' = NoJob
    /\ UNCHANGED <<config, phase, recover, loop, pool, exec, history>>

Reject(j) ==
    /\ Decidable(j)
    /\ SaveJob(j, "rejected")
    /\ UNCHANGED <<config, phase, recover, loop, pool, exec, deciding, history>>
-----------------------------------------------------------------------------
(* Instance files, as the admin API, the CLI and the circuit breaker       *)
(* change them.                                                            *)

SetConfig(i, c) == config' = [config EXCEPT ![i] = c]

\* set_paused(True): fails on a missing instance.
PauseInstance(i) ==
    /\ config[i] = "active"
    /\ SetConfig(i, "paused")
    /\ UNCHANGED <<rows, phase, recover, loop, pool, exec, deciding, history>>

ResumeInstance(i) ==
    /\ config[i] = "paused"
    /\ SetConfig(i, "active")
    /\ UNCHANGED <<rows, phase, recover, loop, pool, exec, deciding, history>>

DeleteInstance(i) ==
    /\ config[i] # "absent"
    /\ SetConfig(i, "absent")
    /\ UNCHANGED <<rows, phase, recover, loop, pool, exec, deciding, history>>

CreateInstance(i) ==
    /\ config[i] = "absent"
    /\ SetConfig(i, "active")
    /\ UNCHANGED <<rows, phase, recover, loop, pool, exec, deciding, history>>
-----------------------------------------------------------------------------
(* The dispatcher thread.                                                  *)

\* Top of _loop: a new round, or the end of the thread once _stop is set.
Scan ==
    /\ dpc = "scan"
    /\ \/ /\ phase = "up"
          /\ round' = QueuedJobs
          /\ dpc' = "pick"
       \/ /\ phase = "stopping"
          /\ dpc' = "off"
          /\ UNCHANGED round
    /\ UNCHANGED <<rows, config, phase, recover, cand, pool, exec, deciding, history>>

\* Mutants of _eligible: a check is missing or off by one.
EligibleNoRepoCheck(j) ==
    /\ config[spec[j].instance] = "active"
    /\ Cardinality(RunningOn(spec[j].instance)) < Concurrency[spec[j].instance]
    /\ spec[j].session # NoSession => RunningIn(spec[j].session) = {}

EligibleNoSessionCheck(j) ==
    /\ config[spec[j].instance] = "active"
    /\ Cardinality(RunningOn(spec[j].instance)) < Concurrency[spec[j].instance]
    /\ spec[j].deliverable \in Mutating => MutatingOn(spec[j].instance) = {}

EligibleOffByOne(j) ==
    /\ config[spec[j].instance] = "active"
    /\ Cardinality(RunningOn(spec[j].instance)) <= Concurrency[spec[j].instance]
    /\ spec[j].session # NoSession => RunningIn(spec[j].session) = {}
    /\ spec[j].deliverable \in Mutating => MutatingOn(spec[j].instance) = {}

\* _eligible.
Eligible(j) ==
    /\ config[spec[j].instance] = "active"
    /\ Cardinality(RunningOn(spec[j].instance)) < Concurrency[spec[j].instance]
    /\ spec[j].session # NoSession => RunningIn(spec[j].session) = {}
    /\ spec[j].deliverable \in Mutating => MutatingOn(spec[j].instance) = {}

Oldest(j) == j \in round /\ \A k \in round : j <= k

\* One turn of the for loop up to the claim; round is empty at its end.
Pick ==
    /\ dpc = "pick"
    /\ \/ /\ round = {} \/ phase = "stopping"
          /\ dpc' = "scan"
          /\ round' = {}
          /\ UNCHANGED cand
       \/ /\ phase = "up"
          /\ \E j \in round :
                /\ Oldest(j)
                /\ round' = round \ {j}
                /\ IF Eligible(j) THEN dpc' = "claim" /\ cand' = j
                                  ELSE UNCHANGED <<dpc, cand>>
    /\ UNCHANGED <<rows, config, phase, recover, pool, exec, deciding, history>>

\* Mutant: the candidate is forgotten before it is submitted.
ClaimForgets ==
    /\ dpc = "claim"
    /\ status[cand] = "queued"
    /\ status' = [status EXCEPT ![cand] = "running"]
    /\ dpc' = "submit"
    /\ cand' = NoJob
    /\ UNCHANGED <<created, spec, data, config, phase, recover, round, pool,
                   exec, deciding, history>>

\* claim_job: compare-and-set on the status column alone.
Claim ==
    /\ dpc = "claim"
    /\ IF status[cand] = "queued"
       THEN /\ status' = [status EXCEPT ![cand] = "running"]
            /\ dpc' = "submit"
            /\ UNCHANGED cand
       ELSE /\ dpc' = "pick"
            /\ cand' = NoJob
            /\ UNCHANGED status
    /\ UNCHANGED <<created, spec, data, config, phase, recover, round, pool,
                   exec, deciding, history>>

\* _pool.submit, which raises RuntimeError once the pool is shut down.
Submit ==
    /\ dpc = "submit"
    /\ cand' = NoJob
    /\ \/ /\ phase = "up"
          /\ pool' = Append(pool, cand)
          /\ dpc' = "pick"
          /\ UNCHANGED <<rows, round>>
       \/ /\ phase = "stopping"
          /\ SaveJob(cand, "queued")
          /\ dpc' = "scan"
          /\ round' = {}
          /\ UNCHANGED pool
    /\ UNCHANGED <<config, phase, recover, exec, deciding, history>>
-----------------------------------------------------------------------------
(* A pool thread: Worker._run around runner.run_job.                       *)

Goto(t, p) == pc' = [pc EXCEPT ![t] = p]

Return(t) ==
    /\ Goto(t, "idle")
    /\ on' = [on EXCEPT ![t] = NoJob]
    /\ mem' = [mem EXCEPT ![t] = "absent"]

\* The thread takes the oldest submission and loads the job.
Start(t) ==
    /\ pc[t] = "idle"
    /\ pool # <<>>
    /\ pool' = Tail(pool)
    /\ IF status[Head(pool)] = "absent"
       THEN UNCHANGED exec
       ELSE /\ Goto(t, "enter")
            /\ on' = [on EXCEPT ![t] = Head(pool)]
            /\ mem' = [mem EXCEPT ![t] = data[Head(pool)]]
    /\ UNCHANGED <<rows, config, phase, recover, loop, deciding, history>>

\* What is raised before the try of _run is the future's, and nobody looks at
\* it: get_job on a locked table, a stream file that cannot be opened.
StartRaises(t) ==
    /\ pc[t] = "idle"
    /\ pool # <<>>
    /\ pool' = Tail(pool)
    /\ stuck' = stuck \cup {Head(pool)}
    /\ UNCHANGED <<rows, config, phase, recover, loop, exec, deciding, pushes, told>>

\* The saves of _run's except clauses are outside its try too: after a save of
\* the run that failed, or a pause, the one meant to move the row may raise.
Escape(t) ==
    /\ pc[t] \in {"enter", "save", "requeue"}
    /\ Return(t)
    /\ stuck' = stuck \cup {on[t]}
    /\ UNCHANGED <<rows, config, phase, recover, loop, pool, deciding, pushes, told>>

\* Mutant: a paused instance ends the run without putting the job back.
EnterNoRequeue(t) ==
    /\ pc[t] = "enter"
    /\ \/ /\ config[spec[on[t]].instance] = "active"
          /\ SaveJob(on[t], "running")
          /\ Goto(t, "work")
          /\ mem' = [mem EXCEPT ![t] = "running"]
          /\ UNCHANGED on
       \/ /\ config[spec[on[t]].instance] # "active"
          /\ Return(t)
          /\ UNCHANGED rows
    /\ UNCHANGED <<config, phase, recover, loop, pool, deciding, history>>

\* run_job up to its first save.  A paused instance puts the job back; a
\* missing instance, engine or secret ends it in error, with no report.
Enter(t) ==
    /\ pc[t] = "enter"
    /\ \/ /\ config[spec[on[t]].instance] = "active"
          /\ SaveJob(on[t], "running")
          /\ Goto(t, "work")
          /\ mem' = [mem EXCEPT ![t] = "running"]
          /\ UNCHANGED on
       \/ /\ config[spec[on[t]].instance] = "paused"
          /\ SaveJob(on[t], "queued")
          /\ Return(t)
       \/ /\ config[spec[on[t]].instance] # "paused"
          /\ SaveJob(on[t], "error")
          /\ Return(t)
    /\ UNCHANGED <<config, phase, recover, loop, pool, deciding, history>>

\* The run up to the moment a change could leave the machine: credentials,
\* egress, workspace, engine with its retries, verification.
Finish(t, s) ==
    /\ Goto(t, "save")
    /\ mem' = [mem EXCEPT ![t] = s]

\* _validate_auth pauses the instance and raises InstancePaused: _finalize
\* runs with the in-memory status still running, then the worker requeues.
AuthMissing(t) ==
    /\ pc[t] = "work"
    /\ config[spec[on[t]].instance] # "absent"
    /\ SetConfig(spec[on[t]].instance, "paused")
    /\ Finish(t, "running")
    /\ UNCHANGED <<rows, phase, recover, loop, pool, on, deciding, history>>

\* AUTH or QUOTA: the circuit breaker; any other failure leaves the file.
EngineFails(t) ==
    /\ pc[t] = "work"
    /\ \/ /\ \E s \in EngineFailures : Finish(t, s)
          /\ UNCHANGED config
       \/ /\ config[spec[on[t]].instance] # "absent"
          /\ SetConfig(spec[on[t]].instance, "paused")
          /\ Finish(t, "error")
    /\ UNCHANGED <<rows, phase, recover, loop, pool, on, deciding, history>>

\* _on_engine_success up to _apply_deliverable.
EngineSucceeds(t) ==
    /\ pc[t] = "work"
    /\ LET s == spec[on[t]]
       IN  \/ Parks(s) /\ Finish(t, "awaiting_approval")
           \/ s.deliverable \in ReadOnly /\ Finish(t, "success")
           \/ /\ s.deliverable \in Mutating /\ ~Parks(s)
              /\ \/ Finish(t, "failed-checks")
                 \/ Goto(t, "apply") /\ UNCHANGED mem
    /\ UNCHANGED <<rows, config, phase, recover, loop, pool, on, deciding, history>>

\* _apply_deliverable: nothing changed or a patch was written; a push, after
\* which opening the PR may still fail; or a failure before the push.
Apply(t) ==
    /\ pc[t] = "apply"
    /\ \/ /\ \E s \in {"success", "error"} : Finish(t, s)
          /\ UNCHANGED pushes
       \/ /\ spec[on[t]].deliverable \in Pushing
          /\ \E s \in {"success", "error"} : Finish(t, s)
          /\ pushes' = [pushes EXCEPT ![on[t]] = @ + 1]
    /\ UNCHANGED <<rows, config, phase, recover, loop, pool, on, deciding, told, stuck>>

\* Mutant: the final save already puts a paused job back in the queue.
FinalSaveQueued(t) ==
    /\ pc[t] = "save"
    /\ SaveJob(on[t], IF mem[t] = "running" THEN "queued" ELSE mem[t])
    /\ Goto(t, "report")
    /\ UNCHANGED <<config, phase, recover, loop, pool, on, mem, deciding, history>>

\* The save in _finalize.
FinalSave(t) ==
    /\ pc[t] = "save"
    /\ SaveJob(on[t], mem[t])
    /\ Goto(t, "report")
    /\ UNCHANGED <<config, phase, recover, loop, pool, on, mem, deciding, history>>

\* Mutant: nobody catches InstancePaused.
ReportNoRequeue(t) ==
    /\ pc[t] = "report"
    /\ told' = [told EXCEPT ![on[t]] = @ \cup {mem[t]}]
    /\ Return(t)
    /\ UNCHANGED <<rows, config, phase, recover, loop, pool, deciding, pushes, stuck>>

\* deliver_callbacks: a callback, a notification or an approval request goes
\* out, or every attempt fails.  The worker requeues after InstancePaused.
Report(t) ==
    /\ pc[t] = "report"
    /\ \/ told' = [told EXCEPT ![on[t]] = @ \cup {mem[t]}]
       \/ ReportsFail /\ UNCHANGED told
    /\ IF mem[t] = "running" THEN Goto(t, "requeue") /\ UNCHANGED <<on, mem>>
                             ELSE Return(t)
    /\ UNCHANGED <<rows, config, phase, recover, loop, pool, deciding, pushes, stuck>>

Requeue(t) ==
    /\ pc[t] = "requeue"
    /\ SaveJob(on[t], "queued")
    /\ Return(t)
    /\ UNCHANGED <<config, phase, recover, loop, pool, deciding, history>>
-----------------------------------------------------------------------------
(* The process.                                                            *)

\* Every thread of the server is gone; the table and the files stay.
Halt ==
    /\ phase' = "down"
    /\ recover' = {}
    /\ dpc' = "off"
    /\ round' = {}
    /\ cand' = NoJob
    /\ pool' = <<>>
    /\ pc' = [t \in Threads |-> "idle"]
    /\ on' = [t \in Threads |-> NoJob]
    /\ mem' = [t \in Threads |-> "absent"]
    /\ deciding' = NoJob
    /\ stuck' = {}
    /\ UNCHANGED <<rows, config, pushes, told>>

\* Worker.start: recover_interrupted selects the rows left running ...
Boot ==
    /\ phase = "down"
    /\ phase' = "recovering"
    /\ recover' = Running
    /\ UNCHANGED <<rows, config, loop, pool, exec, deciding, history>>

\* Mutant: recovery replays code-changing jobs too.
RecoverReplaying(j) ==
    /\ j \in recover
    /\ recover' = recover \ {j}
    /\ SaveJob(j, "queued")
    /\ UNCHANGED <<config, phase, loop, pool, exec, deciding, history>>

\* ... reconciles them one by one, as it found them ...
RecoverJob(j) ==
    /\ j \in recover
    /\ recover' = recover \ {j}
    /\ SaveJob(j, IF spec[j].deliverable \in ReadOnly THEN "queued" ELSE "interrupted")
    /\ UNCHANGED <<config, phase, loop, pool, exec, deciding, history>>

\* ... and the dispatcher thread starts; requests are served from here on.
Serve ==
    /\ phase = "recovering"
    /\ recover = {}
    /\ phase' = "up"
    /\ dpc' = "scan"
    /\ UNCHANGED <<rows, config, recover, round, cand, pool, exec, deciding, history>>

\* Worker.stop: pending submissions are cancelled, running ones go on.
Stop ==
    /\ LoopFree
    /\ phase' = "stopping"
    /\ pool' = <<>>
    /\ UNCHANGED <<rows, config, recover, loop, exec, deciding, history>>

\* The interpreter joins the pool threads; the dispatcher is a daemon thread.
Exit ==
    /\ phase = "stopping"
    /\ \A t \in Threads : pc[t] = "idle"
    /\ Halt

Crash ==
    /\ phase # "down"
    /\ Halt
-----------------------------------------------------------------------------
ThreadStep(t) ==
    \/ Start(t) \/ Enter(t) \/ AuthMissing(t) \/ EngineFails(t)
    \/ EngineSucceeds(t) \/ Apply(t) \/ FinalSave(t) \/ Report(t) \/ Requeue(t)
    \/ StartRaises(t) \/ Escape(t)

DispatchStep == Scan \/ Pick \/ Claim \/ Submit

InstanceStep(i) ==
    PauseInstance(i) \/ ResumeInstance(i) \/ DeleteInstance(i) \/ CreateInstance(i)

Next ==
    \/ \E r \in HookRequests : Hook(r)
    \/ \E r \in OperatorRequests : OperatorRun(r)
    \/ \E j \in JobIds : Approve(j) \/ Reject(j) \/ RecoverJob(j)
    \/ CreateApply
    \/ \E i \in Managed : InstanceStep(i)
    \/ DispatchStep
    \/ \E t \in Threads : ThreadStep(t)
    \/ Boot \/ Serve \/ Stop \/ Exit \/ Crash

Spec == Init /\ [][Next]_vars

(***************************************************************************)
(* The operating system runs the dispatcher thread (its wait times out     *)
(* after half a second) and every pool thread; no operator action and no   *)
(* crash is fair.                                                          *)
(***************************************************************************)
Fairness ==
    /\ WF_vars(DispatchStep)
    /\ \A t \in Threads : WF_vars(ThreadStep(t))

FairSpec == Spec /\ Fairness
-----------------------------------------------------------------------------
(* Properties.                                                             *)

TypeOK ==
    /\ created \in 0..MaxJobs
    /\ spec \in [JobIds -> JobSpec]
    /\ status \in [JobIds -> RowStatus]
    /\ data \in [JobIds -> RowStatus]
    /\ config \in [Instances -> ConfigState]
    /\ phase \in Phase
    /\ recover \subseteq JobIds
    /\ dpc \in DispatchPC
    /\ round \subseteq JobIds
    /\ cand \in JobIds \cup {NoJob}
    /\ pool \in Seq(JobIds)
    /\ pc \in [Threads -> ThreadPC]
    /\ on \in [Threads -> JobIds \cup {NoJob}]
    /\ mem \in [Threads -> RowStatus]
    /\ deciding \in JobIds \cup {NoJob}
    /\ pushes \in [JobIds -> Nat]
    /\ told \in [JobIds -> SUBSET RowStatus]
    /\ stuck \subseteq JobIds

Pooled == {pool[n] : n \in 1..Len(pool)}

\* A thread holds its job's slot until the row leaves "running".
Holds(t) ==
    \/ pc[t] \in {"enter", "work", "apply", "save", "requeue"}
    \/ pc[t] = "report" /\ mem[t] = "running"

\* A job never has two executions: "Jobs are claimed atomically (queued ->
\* running) so a job is never dispatched twice" (worker.py:6-7), through
\* requeues, recovery and shutdown.
SingleExecution ==
    /\ \A n, m \in 1..Len(pool) : pool[n] = pool[m] => n = m
    /\ \A t \in Threads : pc[t] # "idle" => on[t] \notin Pooled
    /\ \A t, u \in Threads :
          pc[t] # "idle" /\ pc[u] # "idle" /\ on[t] = on[u] => t = u
    /\ dpc = "submit" =>
          /\ cand \notin Pooled
          /\ \A t \in Threads : pc[t] # "idle" => on[t] # cand

\* Two code-changing executions of one instance never overlap ("per-repo
\* serialization for code-mutating deliverables", worker.py:5), although
\* eligibility is decided from rows and not from executions.
SerialMutations ==
    \A t, u \in Threads :
        /\ Holds(t) /\ Holds(u) /\ t # u
        /\ spec[on[t]].instance = spec[on[u]].instance
        => ~(spec[on[t]].deliverable \in Mutating /\ spec[on[u]].deliverable \in Mutating)

\* Two turns of one chat session never execute at the same time: they would
\* resume the same engine conversation (session_running, worker.py:81-82).
SerialSessions ==
    \A t, u \in Threads :
        /\ Holds(t) /\ Holds(u) /\ t # u
        /\ spec[on[t]].session = spec[on[u]].session
        => spec[on[t]].session = NoSession

\* The per-instance limit holds in the table at every moment, recovery and
\* shutdown included (worker.py:79).
ConcurrencyBound ==
    \A i \in Instances : Cardinality(RunningOn(i)) <= Concurrency[i]

\* While the server is up every row marked running is owned by someone who
\* will move it on: no path through claim, submit, pause and requeue leaks a
\* slot of the instance or the session.  What does leak it is an exception
\* where _run catches none, before its try or in its except clauses
\* (worker.py:95-98, 106-117): the row then stays running until the next boot.
NoLeakedSlot ==
    phase = "up" =>
        \A j \in Running \ stuck :
            \/ dpc = "submit" /\ cand = j
            \/ j \in Pooled
            \/ \E t \in Threads : on[t] = j /\ Holds(t)

\* The two copies of the status differ only in the window claim_job opens:
\* the column says running, the JSON still queued (store.py:253-260).
CopiesAgree ==
    \A j \in JobIds :
        status[j] = data[j] \/ (status[j] = "running" /\ data[j] = "queued")

\* The server implements the life cycle agenthook promises for a job.
Lifecycle == INSTANCE JobLifecycle
ImplementsLifecycle == Lifecycle!LSpec

\* A row that waits for the operator: its instance is not active, or a row
\* this process dropped holds what it needs.
Stalled(j) ==
    \/ config[spec[j].instance] # "active"
    \/ Cardinality(RunningOn(spec[j].instance) \cap stuck)
          >= Concurrency[spec[j].instance]
    \/ \E k \in Running \cap stuck : Conflict(j, k)

\* The window of queued_jobs is full of older rows that wait so, or will once
\* their paused run has put them back.
Hidden(j) ==
    Cardinality({k \in HasStatus("queued") \cup Running : k < j /\ Stalled(k)})
        >= QueueLimit

\* A queued job leaves the queue, unless the server goes down, it waits for
\* the operator, or QueueLimit older jobs that do hide it (store.py:282-288:
\* the LIMIT is over all instances, the paused ones included).  Later jobs,
\* of any instance, never keep it waiting.
QueueDrains ==
    \A j \in JobIds :
        status[j] = "queued" ~>
            status[j] # "queued" \/ phase # "up" \/ Stalled(j) \/ Hidden(j)

\* A claimed job reaches a thread and its row leaves "running", unless the
\* server goes down or drops it by an exception nobody catches.
RunsConclude ==
    \A j \in JobIds :
        status[j] = "running" ~> status[j] # "running" \/ phase # "up" \/ j \in stuck
-----------------------------------------------------------------------------
(* What the code's comments promise and the server does not keep.          *)

\* "Callbacks are at-least-once" (results.py:3): a run that succeeded and
\* that no thread is still reporting has been reported.
SuccessReported ==
    \A j \in JobIds :
        /\ status[j] = "success" /\ ~Parks(spec[j])
        /\ \A t \in Threads : on[t] # j
        => "success" \in told[j]

\* "Approve: spawn an apply job that resumes the plan" (server.py:485): an
\* approved plan has its apply job once its handler is through.
ApprovedIsApplied ==
    \A j \in JobIds :
        status[j] = "success" /\ Parks(spec[j]) /\ deciding # j =>
            \E k \in JobIds : spec[k].source = j
-----------------------------------------------------------------------------
(* The inductive invariant behind the safety properties.                   *)

Idle == \A t \in Threads : pc[t] = "idle"

\* Ids are used in creation order and only existing rows are worked on.
RowsUsed ==
    /\ \A j \in JobIds : status[j] = "absent" <=> j > created
    /\ \A j \in JobIds : j > created => spec[j] = Blank
    /\ \A j \in round : j <= created
    /\ dpc \in {"claim", "submit"} => cand \in 1..created

\* Nothing of the server's memory survives while it is down or recovering.
PhaseShape ==
    /\ phase \in {"down", "recovering"} =>
          Idle /\ pool = <<>> /\ dpc = "off" /\ deciding = NoJob
    /\ phase = "stopping" => pool = <<>> /\ deciding = NoJob
    /\ recover = IF phase = "recovering" THEN Running ELSE {}

\* What each program counter says about the in-memory job.
ThreadShape ==
    \A t \in Threads :
        /\ pc[t] # "idle" => on[t] \in 1..created
        /\ pc[t] \in {"work", "apply", "requeue"} => mem[t] = "running"
        /\ pc[t] = "apply" => spec[on[t]].deliverable \in Mutating /\ ~Parks(spec[on[t]])
        /\ pc[t] \in {"save", "report"} =>
              /\ mem[t] \in Terminal \cup {"running", "awaiting_approval"}
              /\ mem[t] = "success" => ~Parks(spec[on[t]])
              /\ mem[t] = "awaiting_approval" => Parks(spec[on[t]])

\* Whoever holds a slot holds it in the table too.
SlotsHeld ==
    /\ \A n \in 1..Len(pool) : status[pool[n]] = "running"
    /\ dpc = "submit" => status[cand] = "running"
    /\ \A t \in Threads :
          /\ Holds(t) => status[on[t]] = "running"
          /\ pc[t] = "report" /\ mem[t] # "running" =>
                status[on[t]] \in Terminal \cup {"awaiting_approval"}

\* Two running rows never conflict.
NoConflict == \A j, k \in Running : Conflict(j, k) => j = k

\* Between the eligibility check and the claim nobody else takes a slot.
ClaimSafe ==
    dpc = "claim" =>
        /\ \A k \in Running : ~Conflict(cand, k)
        /\ Cardinality(RunningOn(spec[cand].instance)) < Concurrency[spec[cand].instance]

\* A pushed job is on its way to, or in, a terminal status.
PushedOnce ==
    \A j \in JobIds :
        /\ pushes[j] \in {0, 1}
        /\ pushes[j] = 1 =>
              /\ status[j] \in Terminal \cup {"running"}
              /\ spec[j].deliverable \in Mutating
              /\ j \notin Pooled
              /\ dpc = "submit" => cand # j
              /\ \A t \in Threads : pc[t] # "idle" /\ on[t] = j =>
                    pc[t] \in {"save", "report"} /\ mem[t] # "running" /\ mem[t] # "awaiting_approval"

\* An apply job belongs to exactly one plan that a human approved.
ApplyLinks ==
    /\ \A j \in JobIds : status[j] = "awaiting_approval" => Parks(spec[j])
    /\ \A k \in JobIds : spec[k].source # NoJob =>
          status[spec[k].source] = "success" /\ Parks(spec[spec[k].source])
    /\ \A j, k \in JobIds : spec[j].source = spec[k].source /\ spec[k].source # NoJob => j = k
    /\ deciding # NoJob =>
          /\ status[deciding] = "success" /\ Parks(spec[deciding])
          /\ \A k \in JobIds : spec[k].source # deciding

\* Together with TypeOK, inductive.
IInv ==
    /\ RowsUsed /\ PhaseShape /\ ThreadShape /\ SlotsHeld /\ SingleExecution
    /\ NoConflict /\ ClaimSafe /\ ConcurrencyBound /\ NoLeakedSlot
    /\ CopiesAgree /\ PushedOnce /\ ApplyLinks
=============================================================================
