------------------------------- MODULE JobRun -------------------------------
(***************************************************************************)
(* One job through run_job: credentials, worktrees, the engine with its    *)
(* retries and its fallback from a lost resume target, the verification    *)
(* loop, the deliverable repository by repository, and _finalize; with the *)
(* requeue, the crash and the recovery that start it again.  Dispatcher    *)
(* takes all of that as one step of a pool thread; here the other jobs are *)
(* left out and the steps are those of the runner.                         *)
(***************************************************************************)
EXTENDS JobModel

CONSTANTS
    NumRepos,      \* bound on the repositories a request selects
    MaxAttempts,   \* limits.retry.max_attempts
    MaxFix,        \* verify.max_fix_iterations
    Requests,      \* what is asked for
    Settings,      \* the instance's settings, see Setting
    EarlierRuns    \* attempts counted before, by a row the TUI put back

Repos == 1..NumRepos

\* How many repositories are selected; verify.checks, verify.gate, a verify.max_fix_cost_usd of zero; use_docker;
\* and whether agenthook writes files of its own (context file, .mcp.json,
\* skills, attachments) into the root of the workspace.
Setting == [repos: 0..NumRepos, checks: BOOLEAN, gate: BOOLEAN, zeroCap: BOOLEAN,
            docker: BOOLEAN, seeds: BOOLEAN]

ASSUME JobRunAssumption ==
    /\ MaxJobs = 1
    /\ Instances # {}
    /\ NumRepos \in Nat
    /\ MaxAttempts \in Nat
    /\ MaxFix \in Nat
    /\ Requests \subseteq Request
    /\ Settings \subseteq Setting
    /\ EarlierRuns \subseteq Nat

VARIABLES
    inst,       \* the instance's settings
    paused,     \* the instance's pause flag
    spec,       \* the immutable columns of the row
    row,        \* its status
    saved,      \* its attempts
    link,       \* the session row has an engine_session_id
    pc,         \* where run_job is
    mem,        \* the status in the in-memory Job
    attempts,   \* its attempts
    calls,      \* engine calls of the retry loop, this run
    resume,     \* resume_id is set
    recovered,  \* resume_recovered
    fixes,      \* iterations of the verification loop
    next,       \* the repository _apply_deliverable is at
    tree,       \* each worktree
    verified,   \* the checks passed and no engine has run since
    alive,      \* containers that lost their client, by attempt
    out,        \* what left each repository
    told        \* history: the events reported

durable == <<spec, row, saved, link>>
engine == <<attempts, calls, resume, recovered>>
work == <<fixes, next, tree, verified, out>>
vars == <<inst, paused, spec, row, saved, link, pc, mem, attempts, calls,
          resume, recovered, fixes, next, tree, verified, alive, out, told>>

RunPC == {"idle", "load", "auth", "workspace", "engine", "check", "fix",
          "deliver", "openpr", "save", "clean", "report", "requeue"}

\* clean: the base; seeded: with agenthook's own files; edited: git status
\* shows changes; committed: everything the agent did is in local commits.
Tree == {"absent", "clean", "seeded", "edited", "committed"}
HasChanges(t) == t \in {"seeded", "edited"}

Out == {"none", "patch", "pushed", "pr"}

Blank == [instance |-> CHOOSE i \in Instances : TRUE, session |-> NoSession,
          deliverable |-> "analysis", mode |-> "auto",
          origin |-> "operator", source |-> NoJob]

Init ==
    /\ inst \in Settings
    /\ paused = FALSE
    /\ spec = Blank
    /\ row = "absent"
    /\ saved = 0
    /\ link = FALSE
    /\ pc = "idle"
    /\ mem = "absent"
    /\ attempts = 0 /\ calls = 0 /\ resume = FALSE /\ recovered = FALSE
    /\ fixes = 0 /\ next = 1
    /\ tree = [r \in Repos |-> "absent"]
    /\ verified = FALSE
    /\ alive = {}
    /\ out = [r \in Repos |-> "none"]
    /\ told = {}
-----------------------------------------------------------------------------
(* Error classes.                                                          *)

Retryable == {"RATE_LIMIT", "SERVER"}
RetryOnce == {"ENGINE_CRASH", "BAD_OUTPUT"}
CircuitBreak == {"AUTH", "QUOTA"}
ErrorClass == Retryable \cup RetryOnce \cup CircuitBreak
                \cup {"BLOCKED", "CONTEXT_LIMIT", "TIMEOUT", "UNKNOWN"}

Cap(c) == IF c \in RetryOnce THEN 1 ELSE MaxAttempts

\* Whether the failure of attempt n is tried again.
Retries(c, n) == c \in Retryable \cup RetryOnce /\ n < Cap(c)

StatusOf(c) == CASE c = "BLOCKED" -> "blocked"
                 [] c = "TIMEOUT" -> "timeout"
                 [] OTHER -> "error"
-----------------------------------------------------------------------------
(* The row: intake, the dispatcher's claim, the operator's pause.          *)

Create ==
    /\ row = "absent"
    /\ \E q \in Requests :
          /\ spec' = [instance |-> q.instance, session |-> q.session,
                      deliverable |-> q.deliverable, mode |-> q.mode,
                      origin |-> "operator", source |-> NoJob]
          /\ link' \in {FALSE, q.session # NoSession}
    /\ row' = "queued"
    /\ saved' \in EarlierRuns
    /\ UNCHANGED <<inst, paused, pc, mem, engine, work, alive, told>>

\* Eligible, claimed and picked up by a pool thread.
Claim ==
    /\ row = "queued" /\ pc = "idle" /\ ~paused
    /\ row' = "running"
    /\ pc' = "load"
    /\ mem' = "queued"
    /\ attempts' = saved
    /\ calls' = 0 /\ resume' = FALSE /\ recovered' = FALSE
    /\ fixes' = 0 /\ next' = 1 /\ verified' = FALSE
    /\ UNCHANGED <<inst, paused, spec, saved, link, tree, alive, out, told>>

TogglePause ==
    /\ paused' = ~paused
    /\ UNCHANGED <<inst, durable, pc, mem, engine, work, alive, told>>

SaveJob(s) == row' = s /\ saved' = attempts

Return == pc' = "idle" /\ mem' = "absent"

\* Worker._run's two handlers, and run_job up to its first save.
Load ==
    /\ pc = "load"
    /\ \/ paused /\ SaveJob("queued") /\ Return
       \/ SaveJob("error") /\ Return
       \/ ~paused /\ SaveJob("running") /\ pc' = "auth" /\ mem' = "running"
    /\ UNCHANGED <<inst, paused, spec, link, engine, work, alive, told>>
-----------------------------------------------------------------------------
(* Before the engine.                                                      *)

Fail == pc' = "save" /\ mem' = "error"

\* _validate_auth: missing credentials pause the instance, and _finalize
\* runs before the worker puts the job back.
Authenticate ==
    /\ pc = "auth"
    /\ \/ pc' = "workspace" /\ UNCHANGED <<paused, mem>>
       \/ paused' = TRUE /\ pc' = "save" /\ UNCHANGED mem
    /\ UNCHANGED <<inst, durable, engine, work, alive, told>>

\* With one repository its checkout is the workspace's root.
Fresh(r) ==
    IF r > inst.repos THEN "absent"
    ELSE IF inst.seeds /\ inst.repos = 1 THEN "seeded" ELSE "clean"

\* Egress, worktrees and the workspace's files, then the session's resume id.
Prepare ==
    /\ pc = "workspace"
    /\ tree' = [r \in Repos |-> Fresh(r)]
    /\ resume' = link
    /\ pc' = "engine"
    /\ UNCHANGED <<inst, paused, durable, mem, attempts, calls, recovered,
                   fixes, next, verified, alive, out, told>>

\* The last-resort guard of run_job around every call that can raise; in the
\* retry loop the attempt may have been counted.
Raise ==
    /\ pc \in {"workspace", "engine", "check", "fix", "deliver", "openpr"}
    /\ Fail
    /\ \/ UNCHANGED <<attempts, calls>>
       \/ pc = "engine" /\ attempts' = attempts + 1 /\ calls' = calls + 1
    /\ UNCHANGED <<inst, paused, durable, resume, recovered, work, alive, told>>
-----------------------------------------------------------------------------
(* The engine.                                                             *)

\* What an engine may leave in the worktrees: nothing but a read-only
\* workspace for a read-only job.
Touched(t) == IF t = "absent" THEN {t} ELSE {t, "edited", "committed"}
Written ==
    IF spec.deliverable \in ReadOnly THEN {tree}
    ELSE {w \in [Repos -> Tree] : \A r \in Repos : w[r] \in Touched(tree[r])}

\* Mutant: every container has a name of its own.
ClashNever(n) == FALSE

\* Containers are named after the job and the attempt, and a second one with
\* the name of a live one is refused.
Clash(n) == inst.docker /\ n \in alive

\* On a timeout only the docker client is killed.
Orphans(c, n) == IF inst.docker /\ c = "TIMEOUT" THEN alive \cup {n} ELSE alive

Linked == link' \in {link, link \/ spec.session # NoSession}

\* _on_engine_success up to the deliverable: a plan parks, a code change is
\* verified.
EngineOk ==
    /\ pc = "engine"
    /\ ~Clash(attempts + 1)
    /\ attempts' = attempts + 1
    /\ calls' = calls + 1
    /\ tree' \in Written
    /\ verified' = FALSE
    /\ Linked
    /\ IF Parks(spec) THEN pc' = "save" /\ mem' = "awaiting_approval"
       ELSE /\ UNCHANGED mem
            /\ pc' = IF spec.deliverable \in Mutating /\ inst.checks
                     THEN "check" ELSE "deliver"
    /\ UNCHANGED <<inst, paused, spec, row, saved, resume, recovered, fixes,
                   next, alive, out, told>>

\* Mutant: the attempt is taken back without having been counted.
EngineLostTwice ==
    /\ pc = "engine"
    /\ resume /\ ~recovered
    /\ resume' = FALSE
    /\ recovered' = TRUE
    /\ link' = FALSE
    /\ attempts' = attempts - 1
    /\ calls' = calls + 1
    /\ UNCHANGED <<inst, paused, spec, row, saved, pc, mem, work, alive, told>>

\* Mutant: nothing remembers that the resume was dropped before.
EngineLostForgets ==
    /\ pc = "engine"
    /\ resume
    /\ link' = FALSE
    /\ calls' = calls + 1
    /\ UNCHANGED <<inst, paused, spec, row, saved, pc, mem, attempts, resume,
                   recovered, work, alive, told>>

\* The engine does not know the conversation: once more, from a new one, and
\* the attempt does not count.
EngineLost ==
    /\ pc = "engine"
    /\ resume /\ ~recovered
    /\ resume' = FALSE
    /\ recovered' = TRUE
    /\ link' = FALSE
    /\ calls' = calls + 1
    /\ UNCHANGED <<inst, paused, spec, row, saved, pc, mem, attempts, work,
                   alive, told>>

\* The next turn of the loop, in the same worktrees, or _on_engine_error with
\* the circuit breaker.
EngineFails(c) ==
    /\ pc = "engine"
    /\ Clash(attempts + 1) => c = "ENGINE_CRASH"
    /\ attempts' = attempts + 1
    /\ calls' = calls + 1
    /\ IF Clash(attempts + 1) THEN UNCHANGED tree ELSE tree' \in Written
    /\ verified' = FALSE
    /\ alive' = Orphans(c, attempts + 1)
    /\ IF Retries(c, attempts + 1)
       THEN UNCHANGED <<pc, mem, paused>>
       ELSE /\ pc' = "save"
            /\ mem' = StatusOf(c)
            /\ paused' = (paused \/ c \in CircuitBreak)
    /\ UNCHANGED <<inst, durable, resume, recovered, fixes, next, out, told>>

\* A container without client goes on until it ends.
OrphanWrites ==
    /\ alive # {}
    /\ tree' \in Written \ {tree}
    /\ verified' = FALSE
    /\ UNCHANGED <<inst, paused, durable, pc, mem, engine, fixes, next, alive,
                   out, told>>

OrphanEnds ==
    /\ \E n \in alive : alive' = alive \ {n}
    /\ UNCHANGED <<inst, paused, durable, pc, mem, engine, work, told>>
-----------------------------------------------------------------------------
(* verify.run.                                                             *)

\* All checks pass, on whatever they themselves leave behind.
CheckPasses ==
    /\ pc = "check"
    /\ ~Clash(attempts)
    /\ tree' \in Written
    /\ verified' = TRUE
    /\ pc' = "deliver"
    /\ UNCHANGED <<inst, paused, durable, mem, engine, fixes, next, alive, out, told>>

\* Some check fails: another fix, or the end of the loop, where the gate
\* decides: the cap on fixes, the cap on cost, or the same failures twice.  A
\* cost cap of zero is met before any fix and fails while it is logged (Raise).
CheckFails ==
    /\ pc = "check"
    /\ IF Clash(attempts) THEN UNCHANGED tree ELSE tree' \in Written
    /\ \/ /\ fixes < MaxFix /\ ~inst.zeroCap
          /\ pc' = "fix"
          /\ UNCHANGED mem
       \/ /\ fixes >= MaxFix \/ fixes > 0
          /\ IF inst.gate THEN pc' = "save" /\ mem' = "failed-checks"
                          ELSE pc' = "deliver" /\ UNCHANGED mem
    /\ UNCHANGED <<inst, paused, durable, engine, fixes, next, verified, alive,
                   out, told>>

\* Mutant: the iterations of the loop are not counted.
FixUncounted ==
    /\ pc = "fix"
    /\ pc' = "check"
    /\ verified' = FALSE
    /\ IF Clash(attempts) THEN UNCHANGED tree ELSE tree' \in Written
    /\ alive' \in {alive, Orphans("TIMEOUT", attempts)}
    /\ Linked
    /\ UNCHANGED <<inst, paused, spec, row, saved, mem, engine, fixes, next, out, told>>

\* _run_fix: the engine once more; what it answers is ignored, its
\* conversation is kept.
Fix ==
    /\ pc = "fix"
    /\ fixes' = fixes + 1
    /\ pc' = "check"
    /\ verified' = FALSE
    /\ IF Clash(attempts) THEN UNCHANGED tree ELSE tree' \in Written
    /\ alive' \in {alive, Orphans("TIMEOUT", attempts)}
    /\ Linked
    /\ UNCHANGED <<inst, paused, spec, row, saved, mem, engine, next, out, told>>
-----------------------------------------------------------------------------
(* _apply_deliverable.                                                     *)

ToNext == next' = next + 1 /\ pc' = "deliver"

Leaves(o) == out' = [out EXCEPT ![next] = o]

\* Nothing to apply, or every repository has had its turn.
DeliverDone ==
    /\ pc = "deliver"
    /\ spec.deliverable \in ReadOnly \/ next > inst.repos
    /\ pc' = "save"
    /\ mem' = "success"
    /\ UNCHANGED <<inst, paused, durable, engine, work, alive, told>>

\* One repository: unchanged, a patch file in its worktree, or a commit that
\* is pushed at once.  A refused push is Raise; one that arrived may fail all
\* the same.
Deliver ==
    /\ pc = "deliver"
    /\ spec.deliverable \in Mutating /\ next <= inst.repos
    /\ \/ /\ ~HasChanges(tree[next])
          /\ ToNext
          /\ UNCHANGED <<tree, out, mem>>
       \/ /\ HasChanges(tree[next]) /\ spec.deliverable = "patch"
          /\ Leaves("patch")
          /\ ToNext
          /\ UNCHANGED <<tree, mem>>
       \/ /\ HasChanges(tree[next]) /\ spec.deliverable \in Pushing
          /\ tree' = [tree EXCEPT ![next] = "committed"]
          /\ Leaves("pushed")
          /\ \/ IF spec.deliverable = "pr" THEN pc' = "openpr" /\ UNCHANGED <<next, mem>>
                                           ELSE ToNext /\ UNCHANGED mem
             \/ Fail /\ UNCHANGED next
    /\ UNCHANGED <<inst, paused, durable, engine, fixes, verified, alive, told>>

\* Mutant: a pull request that cannot be opened is skipped.
OpenPrSkips ==
    /\ pc = "openpr"
    /\ Leaves("pr") \/ UNCHANGED out
    /\ ToNext
    /\ UNCHANGED <<inst, paused, durable, mem, engine, fixes, tree, verified, alive, told>>

\* gh pr create; its failure is Raise, or comes after the request was opened.
OpenPr ==
    /\ pc = "openpr"
    /\ Leaves("pr")
    /\ \/ ToNext /\ UNCHANGED mem
       \/ Fail /\ UNCHANGED next
    /\ UNCHANGED <<inst, paused, durable, engine, fixes, tree, verified, alive, told>>
-----------------------------------------------------------------------------
(* _finalize and the worker's requeue.                                     *)

FinalSave ==
    /\ pc = "save"
    /\ SaveJob(mem)
    /\ pc' = "clean"
    /\ UNCHANGED <<inst, paused, spec, link, mem, engine, work, alive, told>>

\* Egress and token are given back, the worktrees removed.
Cleanup ==
    /\ pc = "clean"
    /\ tree' = [r \in Repos |-> "absent"]
    /\ pc' = "report"
    /\ UNCHANGED <<inst, paused, durable, mem, engine, fixes, next, verified,
                   alive, out, told>>

\* deliver_callbacks: a parked plan asks for approval instead; a callback
\* carries attempts as its sequence number, and every try to post it may fail.
Report ==
    /\ pc = "report"
    /\ \/ UNCHANGED told
       \/ /\ mem # "awaiting_approval"
          /\ told' = told \cup {[seq |-> attempts, status |-> mem]}
    /\ IF mem = "running" THEN pc' = "requeue" /\ UNCHANGED mem ELSE Return
    /\ UNCHANGED <<inst, paused, durable, engine, work, alive>>

Requeue ==
    /\ pc = "requeue"
    /\ SaveJob("queued")
    /\ Return
    /\ UNCHANGED <<inst, paused, spec, link, engine, work, alive, told>>
-----------------------------------------------------------------------------
(* The process.                                                            *)

\* The containers of the job at this moment.
Containers ==
    {n \in {attempts, attempts + 1} :
        /\ inst.docker
        /\ n = attempts + 1 => pc = "engine"
        /\ n = attempts => pc \in {"check", "fix"}}

\* The thread is gone; the containers' clients may have gone with it.
Crash ==
    /\ pc # "idle"
    /\ Return
    /\ alive' \in {alive, alive \cup Containers}
    /\ UNCHANGED <<inst, paused, durable, engine, work, told>>

\* Mutant: recovery replays code-changing jobs too.
RecoverReplaying ==
    /\ row = "running" /\ pc = "idle"
    /\ row' = "queued"
    /\ UNCHANGED <<inst, paused, spec, saved, link, pc, mem, engine, work, alive, told>>

\* recover_interrupted.
Recover ==
    /\ row = "running" /\ pc = "idle"
    /\ row' = IF spec.deliverable \in ReadOnly THEN "queued" ELSE "interrupted"
    /\ UNCHANGED <<inst, paused, spec, saved, link, pc, mem, engine, work, alive, told>>

RunStep ==
    \/ Load \/ Authenticate \/ Prepare \/ Raise
    \/ EngineOk \/ EngineLost \/ \E c \in ErrorClass : EngineFails(c)
    \/ CheckPasses \/ CheckFails \/ Fix
    \/ DeliverDone \/ Deliver \/ OpenPr
    \/ FinalSave \/ Cleanup \/ Report \/ Requeue

Next ==
    \/ Create \/ Claim \/ TogglePause \/ RunStep
    \/ OrphanWrites \/ OrphanEnds \/ Crash \/ Recover

Spec == Init /\ [][Next]_vars

\* The thread that runs the job runs; engine, checks and git return.
FairSpec == Spec /\ WF_vars(RunStep)
-----------------------------------------------------------------------------
(* Properties.                                                             *)

RunTypeOK ==
    /\ inst \in Settings
    /\ paused \in BOOLEAN
    /\ spec \in JobSpec
    /\ row \in RowStatus
    /\ saved \in Nat
    /\ link \in BOOLEAN
    /\ pc \in RunPC
    /\ mem \in RowStatus
    /\ attempts \in Nat /\ calls \in Nat
    /\ resume \in BOOLEAN /\ recovered \in BOOLEAN
    /\ fixes \in Nat
    /\ next \in Nat \ {0}
    /\ tree \in [Repos -> Tree]
    /\ verified \in BOOLEAN
    /\ alive \subseteq Nat
    /\ out \in [Repos -> Out]
    /\ told \subseteq [seq: Nat, status: RowStatus]

\* The retry loop is bounded by the attempts still allowed, or one, and by
\* the single free call after a lost resume target, although that path takes
\* the attempt back (runner.py:263-272).
AttemptsBounded ==
    pc \notin {"idle", "clean", "report", "requeue"} =>
        /\ attempts <= MaxAttempts \/ attempts <= saved + 1
        /\ saved <= attempts /\ calls <= attempts - saved + 1

\* With a gate, nothing leaves a repository unless the checks passed after
\* the last write of any engine, also one whose container outlived its
\* timeout (verify.py:76, runner.py:325).
GateHolds ==
    inst.checks /\ inst.gate =>
        \A r \in Repos : out[r] # "none" => verified

\* What a finished delivery leaves in each repository.
Full == CASE spec.deliverable = "patch"  -> "patch"
          [] spec.deliverable = "commit" -> "pushed"
          [] OTHER                       -> "pr"

\* success means that every repository git sees changes in was delivered in
\* full; and once something was pushed, no status denies it (runner.py:853).
StatusTellsDelivery ==
    /\ /\ mem = "success" /\ pc = "save" /\ spec.deliverable \in Mutating
       /\ inst.checks => inst.gate
       => \A r \in Repos : HasChanges(tree[r]) => out[r] = Full
    /\ (\E r \in Repos : out[r] \in {"pushed", "pr"}) =>
          row \in {"running", "success", "error", "interrupted"}
    /\ row = "success" /\ spec.deliverable = "pr" => \A r \in Repos : out[r] # "pushed"

\* The run of one job implements the life cycle agenthook promises.
Life == INSTANCE JobLifecycle WITH
            AutoApply <- {},
            spec <- [j \in JobIds |-> spec],
            status <- [j \in JobIds |-> row],
            pushes <- [j \in JobIds |->
                          IF \E r \in Repos : out[r] \in {"pushed", "pr"} THEN 1 ELSE 0]
ImplementsLifecycle == Life!LSpec

\* Every run ends, whatever engine, checks and git answer.
RunEnds == pc # "idle" ~> pc = "idle"
-----------------------------------------------------------------------------
(* The inductive invariant behind the safety properties.                   *)

Early == {"load", "auth", "workspace", "engine"}
Verifying == {"check", "fix"}
Delivering == {"deliver", "openpr"}
Ending == {"save", "clean", "report"}

\* The row follows the in-memory job.
RowFollows ==
    /\ pc \in Early \cup Verifying \cup Delivering \cup {"save", "requeue"} => row = "running"
    /\ pc \in {"clean", "report"} => row = mem
    /\ pc \in (Early \ {"load"}) \cup Verifying \cup Delivering \cup {"requeue"} => mem = "running"
    /\ pc \in Ending =>
          /\ mem \in Terminal \cup {"running", "awaiting_approval"}
          /\ mem = "success" => ~Parks(spec)
          /\ mem = "awaiting_approval" => Parks(spec)
    /\ pc \in Verifying \cup Delivering => ~Parks(spec)
    /\ pc \in Verifying \cup {"openpr"} => spec.deliverable \in Mutating
    /\ pc \in Verifying => inst.checks

\* The calls made are the attempts counted, and the one that was taken back.
Counted ==
    /\ pc \in {"load", "auth", "workspace"} => attempts = saved /\ calls = 0 /\ ~recovered
    /\ pc \in {"engine", "save"} \cup Verifying \cup Delivering =>
          /\ saved <= attempts
          /\ calls = attempts - saved + (IF recovered THEN 1 ELSE 0)
          /\ attempts <= saved + 1 \/ attempts <= MaxAttempts
    /\ pc = "engine" => attempts = saved \/ attempts < MaxAttempts

\* A run that has not delivered anything and may still be put back.
Returning == row \in {"absent", "queued"} \/ pc \in Early
                \/ (pc \in Ending \cup {"requeue"} /\ mem = "running")

\* Where the job is once something left a repository.
Departed ==
    (\E r \in Repos : out[r] # "none") =>
        /\ spec.deliverable \in Mutating /\ ~Parks(spec)
        /\ \/ pc \in Delivering
           \/ pc \in Ending /\ mem \in {"success", "error"}
           \/ pc = "idle" /\ row \in {"running", "success", "error", "interrupted"}

\* What left a repository is what was asked for.
RightKind ==
    /\ \A r \in Repos :
          /\ out[r] = "patch" => spec.deliverable = "patch"
          /\ out[r] \in {"pushed", "pr"} => spec.deliverable \in Pushing
          /\ out[r] = "pushed" /\ spec.deliverable = "pr" =>
                \/ pc = "openpr" /\ r = next
                \/ pc \in Ending /\ mem = "error"
                \/ pc = "idle" /\ row \in {"running", "error", "interrupted"}
    /\ pc = "openpr" => next <= inst.repos /\ spec.deliverable = "pr"

Gated == inst.checks => inst.gate

\* No container can write behind the back of a gated delivery.
NoOrphan ==
    /\ row = "absent" => alive = {} /\ pc = "idle"
    /\ ~inst.docker => alive = {}
    /\ spec.deliverable \in Mutating =>
          /\ Returning => alive = {}
          /\ pc \in Verifying => alive \subseteq {attempts}
          /\ /\ Gated
             /\ \/ pc \in Delivering
                \/ pc = "save" /\ mem = "success"
                \/ \E r \in Repos : out[r] # "none"
             => alive = {}

Verified ==
    /\ GateHolds
    /\ inst.checks /\ inst.gate /\ spec.deliverable \in Mutating /\ pc \in Delivering =>
          verified

\* Only selected repositories are checked out, and delivery starts at the
\* first of them.
Selected ==
    /\ \A r \in Repos : r > inst.repos => tree[r] = "absent"
    /\ pc \in Early \cup Verifying => next = 1

\* The delivery so far is complete.
Complete ==
    Gated /\ spec.deliverable \in Mutating =>
        \A r \in Repos :
           /\ \/ pc \in Delivering /\ r < next
              \/ pc = "save" /\ mem = "success"
           /\ HasChanges(tree[r])
           => out[r] = Full

\* Together with RunTypeOK, inductive.
RunInv ==
    /\ RowFollows /\ Counted /\ Departed /\ RightKind /\ NoOrphan /\ Verified
    /\ Selected /\ Complete
-----------------------------------------------------------------------------
(* What the code's comments promise and the runner does not keep.          *)

\* "a per-job event sequence number so the receiver can stay idempotent"
\* (results.py:3-5): two different events never carry the same number.
SequenceNumbersDistinct ==
    \A e, f \in told : e.seq = f.seq => e = f

\* "Apply the deliverable per repository - only those that actually changed
\* get a patch/commit/PR" (runner.py:836): a success loses no change.
NoChangeLost ==
    mem = "success" /\ pc = "save" /\ spec.deliverable \in Mutating =>
        \A r \in Repos : tree[r] \in {"edited", "committed"} => out[r] # "none"
=============================================================================
