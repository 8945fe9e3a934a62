-------------------------- MODULE DispatcherProofs --------------------------
(***************************************************************************)
(* Proofs about Dispatcher and Consoles for every number of jobs, threads, *)
(* instances, sessions and console processes and every queue and           *)
(* concurrency limit: the types, the inductive invariant of the server and *)
(* what follows from it, the refinement of JobLifecycle, and what stays    *)
(* true of the table when the consoles write it too.                       *)
(***************************************************************************)
EXTENDS Consoles, FiniteSetTheorems, TLAPS

\* The row left behind by create_job and the blank row are well formed.
LEMMA BlankType == Blank \in JobSpec
  BY DispatcherAssumption DEF Blank, JobSpec, Deliverable, ReadOnly, Mode, JobIds, NoJob

LEMMA StatusFacts ==
    /\ "queued" \in RowStatus /\ "running" \in RowStatus
    /\ "awaiting_approval" \in RowStatus /\ "absent" \in RowStatus
    /\ Terminal \subseteq RowStatus
    /\ Failures \subseteq Terminal
    /\ Status \subseteq RowStatus
    /\ "absent" \notin Status
  BY DEF RowStatus, Status, Terminal, Failures

LEMMA SaveJobType ==
    ASSUME TypeOK, NEW j, NEW s \in RowStatus, SaveJob(j, s)
    PROVE  /\ status' \in [JobIds -> RowStatus]
           /\ data' \in [JobIds -> RowStatus]
           /\ created' = created /\ spec' = spec
  BY StatusFacts DEF SaveJob, TypeOK

LEMMA CreateJobType ==
    ASSUME TypeOK, NEW s \in JobSpec, CreateJob(s)
    PROVE  /\ created' \in 0..MaxJobs
           /\ spec' \in [JobIds -> JobSpec]
           /\ status' \in [JobIds -> RowStatus]
           /\ data' \in [JobIds -> RowStatus]
  BY StatusFacts, JobModelAssumption DEF CreateJob, TypeOK, JobIds

LEMMA SpecOfType ==
    ASSUME NEW r \in Request, NEW m \in Mode,
           NEW o \in {"hook", "operator", "apply"}, NEW k \in JobIds \cup {NoJob}
    PROVE  SpecOf(r, m, o, k) \in JobSpec
  BY DEF SpecOf, Request, JobSpec

\* The candidate and the threads' jobs are jobs where they are used.
Located ==
    /\ dpc \in {"claim", "submit"} => cand \in JobIds
    /\ \A t \in Threads : pc[t] # "idle" => on[t] \in JobIds

LEMMA ThreadTypeStep ==
    ASSUME TypeOK, Located, NEW t \in Threads, ThreadStep(t)
    PROVE  TypeOK'
<1> USE DispatcherAssumption, StatusFacts
<1>0. pc[t] # "idle" => on[t] \in JobIds
  BY DEF Located
<1>0a. /\ pc \in [Threads -> ThreadPC] /\ on \in [Threads -> JobIds \cup {NoJob}]
       /\ mem \in [Threads -> RowStatus] /\ pushes \in [JobIds -> Nat]
       /\ told \in [JobIds -> SUBSET RowStatus]
  BY DEF TypeOK
<1>1. CASE Start(t)
  <2>1. Head(pool) \in JobIds /\ Tail(pool) \in Seq(JobIds)
    BY <1>1 DEF Start, TypeOK
  <2> QED
    BY <1>1, <2>1 DEF Start, Goto, ThreadPC, TypeOK, rows, loop, exec, history
<1>2. CASE Enter(t)
  <2>1. PICK q \in RowStatus : SaveJob(on[t], q)
    BY <1>2 DEF Enter, Terminal
  <2>2. /\ pc' \in [Threads -> ThreadPC] /\ on' \in [Threads -> JobIds \cup {NoJob}]
        /\ mem' \in [Threads -> RowStatus]
    <3>1. CASE Return(t)
      BY <3>1, <1>0a DEF Return, Goto, ThreadPC, NoJob
    <3>2. CASE Goto(t, "work") /\ mem' = [mem EXCEPT ![t] = "running"] /\ UNCHANGED on
      BY <3>2, <1>0a DEF Goto, ThreadPC
    <3> QED
      BY <1>2, <3>1, <3>2 DEF Enter
  <2>3. /\ status' \in [JobIds -> RowStatus] /\ data' \in [JobIds -> RowStatus]
        /\ created' = created /\ spec' = spec
    BY <2>1, SaveJobType
  <2> QED
    BY <1>2, <2>2, <2>3 DEF Enter, TypeOK, loop, history
<1>3. CASE AuthMissing(t)
  BY <1>3 DEF AuthMissing, SetConfig, Finish, Goto, ConfigState, ThreadPC, TypeOK,
     rows, loop, history
<1>4. CASE EngineFails(t)
  <2>1. PICK q \in RowStatus : Finish(t, q)
    BY <1>4 DEF EngineFails, Terminal
  <2>2. config' \in [Instances -> ConfigState]
    BY <1>4 DEF EngineFails, SetConfig, ConfigState, TypeOK
  <2> QED
    BY <1>4, <2>1, <2>2 DEF EngineFails, Finish, Goto, ThreadPC, TypeOK, rows, loop, history
<1>5. CASE EngineSucceeds(t)
  <2>1. PICK q \in RowStatus, p \in ThreadPC : Goto(t, p) /\ mem' = [mem EXCEPT ![t] = q]
    <3>1. CASE \E q \in RowStatus : Finish(t, q)
      BY <3>1 DEF Finish, ThreadPC
    <3>2. CASE Goto(t, "apply") /\ UNCHANGED mem
      BY <3>2 DEF ThreadPC, TypeOK
    <3> QED
      BY <1>5, <3>1, <3>2 DEF EngineSucceeds, Terminal
  <2> QED
    BY <1>5, <2>1 DEF EngineSucceeds, Goto, TypeOK, rows, loop, history
<1>6. CASE Apply(t)
  <2>1. PICK q \in RowStatus : Finish(t, q)
    BY <1>6 DEF Apply, Terminal
  <2>2. pushes' \in [JobIds -> Nat]
    BY <1>0, <1>0a, <1>6 DEF Apply
  <2> QED
    BY <1>6, <2>1, <2>2 DEF Apply, Finish, Goto, ThreadPC, TypeOK, rows, loop
<1>7. CASE FinalSave(t)
  <2>1. mem[t] \in RowStatus
    BY DEF TypeOK
  <2> QED
    BY <1>7, <2>1, SaveJobType DEF FinalSave, Goto, ThreadPC, TypeOK, loop, history
<1>8. CASE Report(t)
  <2>1. told' \in [JobIds -> SUBSET RowStatus]
    <3>1. told[on[t]] \cup {mem[t]} \in SUBSET RowStatus
      BY <1>0, <1>0a, <1>8 DEF Report
    <3> QED
      BY <1>0a, <1>8, <3>1 DEF Report
  <2>2. /\ pc' \in [Threads -> ThreadPC] /\ on' \in [Threads -> JobIds \cup {NoJob}]
        /\ mem' \in [Threads -> RowStatus]
    BY <1>8 DEF Report, Goto, Return, ThreadPC, NoJob, TypeOK
  <2> QED
    BY <1>8, <2>1, <2>2 DEF Report, TypeOK, rows, loop
<1>9. CASE Requeue(t)
  BY <1>9, SaveJobType DEF Requeue, Goto, Return, ThreadPC, NoJob, TypeOK, loop, history
<1>10. CASE StartRaises(t)
  <2>1. Head(pool) \in JobIds /\ Tail(pool) \in Seq(JobIds)
    BY <1>10 DEF StartRaises, TypeOK
  <2> QED
    BY <1>10, <2>1 DEF StartRaises, TypeOK, rows, loop, exec
<1>11. CASE Escape(t)
  BY <1>0, <1>11 DEF Escape, Goto, Return, ThreadPC, NoJob, TypeOK, rows, loop
<1> QED
  BY <1>1, <1>2, <1>3, <1>4, <1>5, <1>6, <1>7, <1>8, <1>9, <1>10, <1>11 DEF ThreadStep

LEMMA TypeStep == TypeOK /\ Located /\ [Next]_vars => TypeOK'
<1> SUFFICES ASSUME TypeOK, Located, [Next]_vars PROVE TypeOK'
  OBVIOUS
<1> USE DispatcherAssumption, StatusFacts
<1>1. ASSUME NEW r \in HookRequests, Hook(r) PROVE TypeOK'
  <2>1. ResolveMode(r) \in Mode /\ r \in Request
    BY DEF ResolveMode, Mode, Request
  <2>2. SpecOf(r, ResolveMode(r), "hook", NoJob) \in JobSpec
    BY <2>1, SpecOfType
  <2> QED
    BY <1>1, <2>2, CreateJobType DEF Hook, TypeOK, loop, exec, history
<1>2. ASSUME NEW r \in OperatorRequests, OperatorRun(r) PROVE TypeOK'
  <2>1. SpecOf(r, r.mode, "operator", NoJob) \in JobSpec
    BY SpecOfType DEF Request
  <2> QED
    BY <1>2, <2>1, CreateJobType DEF OperatorRun, TypeOK, loop, exec, history
<1>3. ASSUME NEW j \in JobIds, Approve(j) PROVE TypeOK'
  BY <1>3, SaveJobType, StatusFacts DEF Approve, TypeOK, loop, exec, history, Terminal
<1>4. ASSUME NEW j \in JobIds, Reject(j) PROVE TypeOK'
  BY <1>4, SaveJobType, StatusFacts DEF Reject, TypeOK, loop, exec, history, Terminal
<1>5. ASSUME NEW j \in JobIds, RecoverJob(j) PROVE TypeOK'
  <2>1. (IF spec[j].deliverable \in ReadOnly THEN "queued" ELSE "interrupted") \in RowStatus
    BY StatusFacts DEF Terminal
  <2> QED
    BY <1>5, <2>1, SaveJobType DEF RecoverJob, TypeOK, loop, exec, history
<1>6. CASE CreateApply
  <2>1. deciding \in JobIds /\ spec[deciding] \in JobSpec
    BY <1>6 DEF CreateApply, TypeOK
  <2>2. SpecOf(spec[deciding], "auto", "apply", deciding) \in JobSpec
    BY <2>1 DEF SpecOf, JobSpec, Mode
  <2> QED
    BY <1>6, <2>2, CreateJobType DEF CreateApply, TypeOK, loop, exec, history
<1>7. ASSUME NEW i \in Managed, InstanceStep(i) PROVE TypeOK'
  BY <1>7 DEF InstanceStep, PauseInstance, ResumeInstance, DeleteInstance,
     CreateInstance, SetConfig, ConfigState, TypeOK, rows, loop, exec, history
<1>8. CASE Scan
  BY <1>8 DEF Scan, QueuedJobs, HasStatus, DispatchPC, TypeOK, rows, exec, history
<1>9. CASE Pick
  BY <1>9 DEF Pick, DispatchPC, TypeOK, rows, exec, history
<1>10. CASE Claim
  BY <1>10 DEF Claim, DispatchPC, TypeOK, exec, history
<1>11. CASE Submit
  <2>1. cand \in JobIds
    BY <1>11 DEF Submit, Located
  <2>2. CASE phase = "up"
    <3>1. Append(pool, cand) \in Seq(JobIds)
      BY <2>1 DEF TypeOK
    <3> QED
      BY <1>11, <3>1, <2>2 DEF Submit, DispatchPC, Phase, TypeOK, rows, exec, history
  <2>3. CASE phase = "stopping"
    BY <1>11, <2>3, SaveJobType DEF Submit, DispatchPC, TypeOK, rows, exec, history
  <2> QED
    BY <1>11, <2>2, <2>3 DEF Submit
<1>12. ASSUME NEW t \in Threads, ThreadStep(t) PROVE TypeOK'
  BY <1>12, ThreadTypeStep
<1>13. CASE Boot
  <2>1. Running \subseteq JobIds
    BY DEF Running, HasStatus
  <2> QED
    BY <1>13, <2>1 DEF Boot, Phase, TypeOK, rows, loop, exec, history
<1>14. CASE Serve
  BY <1>14 DEF Serve, Phase, DispatchPC, TypeOK, rows, exec, history
<1>15. CASE Stop
  BY <1>15 DEF Stop, Phase, TypeOK, rows, loop, exec, history
<1>16. CASE Exit \/ Crash
  <2>1. Halt
    BY <1>16 DEF Exit, Crash
  <2>2. /\ phase' \in Phase /\ recover' \subseteq JobIds /\ dpc' \in DispatchPC
        /\ round' \subseteq JobIds /\ cand' \in JobIds \cup {NoJob}
        /\ deciding' \in JobIds \cup {NoJob}
    BY <2>1 DEF Halt, Phase, DispatchPC
  <2>3. pool' \in Seq(JobIds)
    BY <2>1 DEF Halt
  <2>4. /\ pc' \in [Threads -> ThreadPC] /\ on' \in [Threads -> JobIds \cup {NoJob}]
        /\ mem' \in [Threads -> RowStatus]
    BY <2>1 DEF Halt, ThreadPC
  <2> QED
    BY <2>1, <2>2, <2>3, <2>4 DEF Halt, TypeOK, rows, history
<1>17. CASE UNCHANGED vars
  BY <1>17 DEF vars, TypeOK
<1> QED
  BY <1>1, <1>2, <1>3, <1>4, <1>5, <1>6, <1>7, <1>8, <1>9, <1>10, <1>11, <1>12,
     <1>13, <1>14, <1>15, <1>16, <1>17 DEF Next, DispatchStep

LEMMA LocatedStep == TypeOK /\ Located /\ [Next]_vars => Located'
<1> SUFFICES ASSUME TypeOK, Located, [Next]_vars PROVE Located'
  OBVIOUS
<1>1. CASE UNCHANGED <<loop, exec>>
  BY <1>1 DEF Located, loop, exec
<1>2. CASE DispatchStep
  BY <1>2 DEF DispatchStep, Scan, Pick, Oldest, Claim, Submit, Located, TypeOK, exec
<1>3. ASSUME NEW t \in Threads, ThreadStep(t) PROVE Located'
  <2>1. CASE Start(t)
    <3>1. Head(pool) \in JobIds
      BY <2>1 DEF Start, TypeOK
    <3>2. pc \in [Threads -> ThreadPC] /\ on \in [Threads -> JobIds \cup {NoJob}]
      BY DEF TypeOK
    <3> QED
      BY <2>1, <3>1, <3>2 DEF Start, Goto, Located, loop, exec
  <2>2. CASE StartRaises(t)
    BY <2>2 DEF StartRaises, Located, loop, exec
  <2>3. CASE ~Start(t) /\ ~StartRaises(t)
    <3>1. pc[t] # "idle" /\ (UNCHANGED on \/ Return(t)) /\ UNCHANGED loop
      BY <1>3, <2>3 DEF ThreadStep, Enter, AuthMissing, EngineFails, EngineSucceeds,
         Apply, FinalSave, Report, Requeue, Escape
    <3>2. \A u \in Threads : u # t => pc'[u] = pc[u] /\ on'[u] = on[u]
      BY <1>3, <2>3, <3>1 DEF ThreadStep, Enter, AuthMissing, EngineFails, EngineSucceeds,
         Apply, FinalSave, Report, Requeue, Escape, Finish, Goto, Return, TypeOK
    <3>3. pc'[t] = "idle" \/ on'[t] = on[t]
      BY <3>1 DEF Return, Goto, TypeOK
    <3> QED
      BY <3>1, <3>2, <3>3 DEF Located, loop
  <2> QED
    BY <2>1, <2>2, <2>3
<1>4. CASE Halt
  BY <1>4 DEF Halt, Located
<1>5. CASE Serve
  BY <1>5 DEF Serve, Located, exec
<1> QED
  BY <1>1, <1>2, <1>3, <1>4, <1>5 DEF Next, Hook, OperatorRun, Approve, Reject, RecoverJob,
     CreateApply, InstanceStep, PauseInstance, ResumeInstance, DeleteInstance,
     CreateInstance, Boot, Stop, Exit, Crash, vars, loop, exec

LEMMA TypeInit == Init => TypeOK
<1> SUFFICES ASSUME Init PROVE TypeOK
  OBVIOUS
<1> USE DispatcherAssumption, JobModelAssumption, StatusFacts
<1>1. /\ spec \in [JobIds -> JobSpec] /\ status \in [JobIds -> RowStatus]
      /\ data \in [JobIds -> RowStatus]
  BY BlankType DEF Init
<1>2. config \in [Instances -> ConfigState] /\ phase \in Phase /\ dpc \in DispatchPC
  BY DEF Init, ConfigState, Phase, DispatchPC
<1>3. pc \in [Threads -> ThreadPC] /\ mem \in [Threads -> RowStatus]
  BY DEF Init, ThreadPC
<1> QED
  BY <1>1, <1>2, <1>3 DEF Init, TypeOK

\* Every variable keeps its type: the sets the actions choose from, the pool
\* and the program counters are all the code's, for any number of threads.
THEOREM TypeCorrect == Spec => []TypeOK
<1>1. Init => TypeOK /\ Located
  BY TypeInit DEF Init, Located
<1>2. TypeOK /\ Located /\ [Next]_vars => (TypeOK /\ Located)'
  BY TypeStep, LocatedStep
<1> QED
  BY <1>1, <1>2, PTL DEF Spec
-----------------------------------------------------------------------------
(* The inductive invariant of the server and the safety properties that    *)
(* follow from it.                                                         *)

LEMMA JobFacts ==
    /\ JobIds \subseteq Nat \ {0} /\ NoJob \notin JobIds
    /\ IsFiniteSet(JobIds)
  BY JobModelAssumption, FS_Interval DEF JobIds, NoJob

LEMMA UsedIds ==
    ASSUME TypeOK
    PROVE  created \in Nat /\ 1..created \subseteq JobIds
  BY JobModelAssumption DEF TypeOK, JobIds

LEMMA UsedJob ==
    ASSUME TypeOK, IInv, NEW j \in JobIds, status[j] # "absent"
    PROVE  j \in 1..created
<1>1. j \in Nat \ {0} /\ created \in Nat /\ ~(j > created)
  BY UsedIds, JobFacts DEF IInv, RowsUsed
<1> QED
  BY <1>1

\* save_job on a row that exists.
LEMMA SaveEffect ==
    ASSUME TypeOK, NEW j \in JobIds, status[j] # "absent", NEW s, SaveJob(j, s)
    PROVE  /\ status' = [status EXCEPT ![j] = s] /\ data' = [data EXCEPT ![j] = s]
           /\ created' = created /\ spec' = spec
  BY DEF SaveJob

LEMMA RunningOnFinite ==
    ASSUME NEW i
    PROVE  IsFiniteSet(RunningOn(i)) /\ Cardinality(RunningOn(i)) \in Nat
<1>1. RunningOn(i) \in SUBSET JobIds
  BY DEF RunningOn, Running, HasStatus
<1> QED
  BY <1>1, JobFacts, FS_Subset, FS_CardinalityType

\* A step after which no other row is running keeps the exclusion facts.
LEMMA FewerRunning ==
    ASSUME TypeOK, NoConflict, ConcurrencyBound,
           Running' \subseteq Running, \A j \in Running : spec'[j] = spec[j]
    PROVE  NoConflict' /\ ConcurrencyBound'
<1>1. NoConflict'
  BY DEF NoConflict, Conflict
<1>2. ASSUME NEW i \in Instances
      PROVE  Cardinality(RunningOn(i)') <= Concurrency[i]
  <2>1. RunningOn(i)' \in SUBSET RunningOn(i)
    BY DEF RunningOn
  <2>2. Cardinality(RunningOn(i)') <= Cardinality(RunningOn(i)) /\ IsFiniteSet(RunningOn(i)')
    BY <2>1, RunningOnFinite, FS_Subset
  <2>3. Cardinality(RunningOn(i)') \in Nat
    BY <2>2, FS_CardinalityType
  <2>4. Concurrency[i] \in Nat /\ Cardinality(RunningOn(i)) <= Concurrency[i]
    BY DispatcherAssumption DEF ConcurrencyBound
  <2> QED
    BY <2>2, <2>3, <2>4, RunningOnFinite
<1> QED
  BY <1>1, <1>2 DEF ConcurrencyBound

LEMMA FewerRunningClaim ==
    ASSUME TypeOK, ClaimSafe, UNCHANGED <<dpc, cand>>, spec'[cand] = spec[cand],
           dpc = "claim" => cand \in JobIds,
           Running' \subseteq Running, \A j \in Running : spec'[j] = spec[j]
    PROVE  ClaimSafe'
<1> SUFFICES ASSUME dpc = "claim"
             PROVE  /\ \A k \in Running' : ~Conflict(cand, k)'
                    /\ Cardinality(RunningOn(spec[cand].instance)') < Concurrency[spec[cand].instance]
  BY DEF ClaimSafe
<1>1. \A k \in Running' : ~Conflict(cand, k)'
  BY DEF ClaimSafe, Conflict
<1> DEFINE i == spec[cand].instance
<1>2. RunningOn(i)' \in SUBSET RunningOn(i)
  BY DEF RunningOn
<1>3. Cardinality(RunningOn(i)') <= Cardinality(RunningOn(i)) /\ IsFiniteSet(RunningOn(i)')
  BY <1>2, RunningOnFinite, FS_Subset
<1>4. Cardinality(RunningOn(i)') \in Nat
  BY <1>3, FS_CardinalityType
<1>5. Concurrency[i] \in Nat /\ Cardinality(RunningOn(i)) < Concurrency[i]
  <2>1. i \in Instances
    BY DEF TypeOK, JobSpec
  <2> QED
    BY <2>1, DispatcherAssumption DEF ClaimSafe
<1> QED
  BY <1>1, <1>3, <1>4, <1>5, RunningOnFinite
-----------------------------------------------------------------------------
(* Intake and decisions.                                                   *)

LEMMA CreateStep ==
    ASSUME TypeOK, IInv, NEW s \in JobSpec, CreateJob(s),
           UNCHANGED <<phase, recover, loop, pool, exec, history>>,
           deciding' \in {deciding, NoJob},
           s.source # NoJob => s.source = deciding /\ deciding' = NoJob
    PROVE  IInv'
<1> DEFINE n == created + 1
<1>1. /\ n \in JobIds /\ status[n] = "absent" /\ created' = n
      /\ status' = [status EXCEPT ![n] = "queued"]
      /\ data' = [data EXCEPT ![n] = "queued"]
      /\ spec' = [spec EXCEPT ![n] = s]
  BY JobModelAssumption DEF CreateJob, IInv, RowsUsed, TypeOK, JobIds
<1>2. \A j \in JobIds : j # n =>
          status'[j] = status[j] /\ data'[j] = data[j] /\ spec'[j] = spec[j]
  BY <1>1 DEF TypeOK
<1>3. status'[n] = "queued" /\ data'[n] = "queued" /\ spec'[n] = s
  BY <1>1 DEF TypeOK
<1>4. Running' = Running /\ \A j \in Running : j # n
  BY <1>1, <1>2, <1>3 DEF Running, HasStatus
<1>5. RowsUsed'
  BY <1>1, <1>2, <1>3 DEF IInv, RowsUsed, TypeOK, JobIds, loop
<1>6. PhaseShape'
  BY <1>4 DEF IInv, PhaseShape, Idle, loop, exec
<1>7. ThreadShape'
  <2>1. \A t \in Threads : pc[t] # "idle" => on[t] \in 1..created /\ on[t] # n /\ on[t] \in JobIds
    BY UsedIds DEF IInv, ThreadShape
  <2> QED
    BY <1>1, <1>2, <2>1 DEF IInv, ThreadShape, Parks, exec, TypeOK, JobIds
<1>8. SlotsHeld'
  BY <1>1, <1>2 DEF IInv, SlotsHeld, Holds, loop, exec, TypeOK, Terminal
<1>9. SingleExecution'
  BY DEF IInv, SingleExecution, Pooled, loop, exec
<1>10. NoConflict' /\ ConcurrencyBound'
  BY <1>2, <1>4, FewerRunning DEF IInv, Running, HasStatus
<1>11. ClaimSafe'
  <2>1. CASE dpc # "claim"
    BY <2>1 DEF ClaimSafe, loop
  <2>2. CASE dpc = "claim"
    <3>1. cand \in JobIds /\ cand # n
      BY <2>2, UsedIds DEF IInv, RowsUsed
    <3> QED
      BY <1>2, <1>4, <3>1, FewerRunningClaim DEF IInv, Running, HasStatus, loop
  <2> QED
    BY <2>1, <2>2
<1>12. NoLeakedSlot'
  BY <1>4 DEF IInv, NoLeakedSlot, Pooled, Holds, loop, exec, history
<1>13. CopiesAgree'
  BY <1>2, <1>3 DEF IInv, CopiesAgree
<1>14. PushedOnce'
  <2>1. pushes[n] # 1
    BY <1>1 DEF IInv, PushedOnce, Terminal
  <2> QED
    BY <1>1, <1>2, <2>1 DEF IInv, PushedOnce, Pooled, loop, exec, history
<1>15. ApplyLinks'
  <2>1. \A k \in JobIds : spec[k].source # NoJob =>
           spec[k].source \in JobIds /\ spec[k].source # n /\ status[spec[k].source] = "success"
    BY <1>1 DEF IInv, ApplyLinks, TypeOK, JobSpec
  <2>2. deciding # NoJob => deciding \in JobIds /\ deciding # n
    BY <1>1 DEF IInv, ApplyLinks, TypeOK
  <2> QED
    BY <1>1, <1>2, <1>3, <2>1, <2>2 DEF IInv, ApplyLinks, Parks
<1> QED
  BY <1>5, <1>6, <1>7, <1>8, <1>9, <1>10, <1>11, <1>12, <1>13, <1>14, <1>15 DEF IInv

\* A parked plan is decided: nobody holds it, and nobody has pushed it.
LEMMA DecideStep ==
    ASSUME TypeOK, IInv, NEW j \in JobIds, data[j] = "awaiting_approval",
           NEW s \in {"success", "rejected"}, SaveJob(j, s),
           deciding = NoJob, deciding' = IF s = "success" THEN j ELSE NoJob,
           phase = "up",
           UNCHANGED <<phase, recover, loop, pool, exec, history>>
    PROVE  IInv'
<1>1. status[j] = "awaiting_approval"
  BY DEF IInv, CopiesAgree
<1>2. /\ status' = [status EXCEPT ![j] = s] /\ data' = [data EXCEPT ![j] = s]
      /\ created' = created /\ spec' = spec
  BY <1>1, SaveEffect
<1>3. \A k \in JobIds : k # j => status'[k] = status[k] /\ data'[k] = data[k]
  BY <1>2 DEF TypeOK
<1>4. status'[j] = s /\ data'[j] = s /\ s \in Terminal
  BY <1>2 DEF TypeOK, Terminal
<1>5. Running' = Running
  BY <1>1, <1>3, <1>4 DEF Running, HasStatus, Terminal
<1>6. RowsUsed'
  BY <1>1, <1>2, <1>3, <1>4 DEF IInv, RowsUsed, loop, Terminal
<1>7. PhaseShape'
  BY <1>5 DEF IInv, PhaseShape, Idle, loop, exec
<1>8. ThreadShape'
  BY <1>2 DEF IInv, ThreadShape, exec
<1>9. SlotsHeld'
  <2>1. \A t \in Threads : Holds(t)' = Holds(t)
    BY DEF Holds, exec
  <2>2. \A t \in Threads : pc[t] # "idle" => on[t] \in JobIds
    BY UsedIds DEF IInv, ThreadShape
  <2>3. \A m \in 1..Len(pool) : pool[m] \in JobIds
    BY DEF TypeOK
  <2>4. dpc = "submit" => cand \in JobIds
    BY UsedIds DEF IInv, RowsUsed
  <2> QED
    BY <1>1, <1>3, <1>4, <2>1, <2>2, <2>3, <2>4 DEF IInv, SlotsHeld, Holds, loop, exec
<1>10. SingleExecution'
  BY DEF IInv, SingleExecution, Pooled, loop, exec
<1>11. NoConflict' /\ ConcurrencyBound'
  BY <1>2, <1>5, FewerRunning DEF IInv
<1>12. ClaimSafe'
  BY <1>2, <1>5, UsedIds, FewerRunningClaim DEF IInv, RowsUsed, loop
<1>13. NoLeakedSlot'
  BY <1>5 DEF IInv, NoLeakedSlot, Pooled, Holds, loop, exec, history
<1>14. CopiesAgree'
  BY <1>3, <1>4 DEF IInv, CopiesAgree
<1>15. PushedOnce'
  BY <1>2, <1>3, <1>4 DEF IInv, PushedOnce, Pooled, loop, exec, history
<1>16. ApplyLinks'
  BY <1>1, <1>2, <1>3, <1>4, JobFacts DEF IInv, ApplyLinks, TypeOK, Terminal
<1> QED
  BY <1>6, <1>7, <1>8, <1>9, <1>10, <1>11, <1>12, <1>13, <1>14, <1>15, <1>16 DEF IInv

\* recover_interrupted reconciles one row; no thread runs yet.
LEMMA RecoverStep ==
    ASSUME TypeOK, IInv, NEW j \in JobIds, RecoverJob(j)
    PROVE  IInv'
<1> DEFINE s == IF spec[j].deliverable \in ReadOnly THEN "queued" ELSE "interrupted"
<1>1. phase = "recovering" /\ recover = Running /\ status[j] = "running"
  BY DEF RecoverJob, IInv, PhaseShape, Running, HasStatus
<1>2. /\ Idle /\ pool = <<>> /\ dpc = "off" /\ deciding = NoJob
      /\ UNCHANGED <<phase, loop, pool, exec, deciding, history>>
  BY <1>1 DEF RecoverJob, IInv, PhaseShape
<1>3. /\ status' = [status EXCEPT ![j] = s] /\ data' = [data EXCEPT ![j] = s]
      /\ created' = created /\ spec' = spec
  BY <1>1, SaveEffect DEF RecoverJob
<1>4. \A k \in JobIds : k # j => status'[k] = status[k] /\ data'[k] = data[k]
  BY <1>3 DEF TypeOK
<1>5. /\ status'[j] = s /\ data'[j] = s /\ s \in {"queued", "interrupted"}
      /\ s = "queued" => spec[j].deliverable \in ReadOnly
  BY <1>3 DEF TypeOK
<1>6. Running' = Running \ {j}
  BY <1>1, <1>4, <1>5 DEF Running, HasStatus
<1>7. RowsUsed'
  BY <1>1, <1>3, <1>4, <1>5, <1>2 DEF IInv, RowsUsed, loop
<1>8. PhaseShape'
  BY <1>1, <1>2, <1>6 DEF RecoverJob, PhaseShape, Idle, loop, exec
<1>9. ThreadShape' /\ SlotsHeld' /\ SingleExecution'
  <2>1. \A t \in Threads : pc'[t] = "idle" /\ ~Holds(t)'
    BY <1>2 DEF Idle, Holds, exec
  <2>2. pool' = <<>> /\ dpc' = "off" /\ Pooled' = {}
    BY <1>2 DEF Pooled, loop
  <2> QED
    BY <2>1, <2>2 DEF ThreadShape, SlotsHeld, SingleExecution
<1>10. NoConflict' /\ ConcurrencyBound'
  BY <1>3, <1>6, FewerRunning DEF IInv
<1>11. ClaimSafe' /\ NoLeakedSlot'
  BY <1>1, <1>2 DEF ClaimSafe, NoLeakedSlot, loop
<1>12. CopiesAgree'
  BY <1>4, <1>5 DEF IInv, CopiesAgree
<1>13. PushedOnce'
  <2>1. pushes[j] = 1 => s = "interrupted"
    BY <1>5 DEF IInv, PushedOnce, Mutating, ReadOnly
  <2> QED
    BY <1>2, <1>3, <1>4, <1>5, <2>1 DEF IInv, PushedOnce, Pooled, loop, exec, history, Terminal
<1>14. ApplyLinks'
  BY <1>1, <1>2, <1>3, <1>4, <1>5, JobFacts DEF IInv, ApplyLinks, TypeOK, JobSpec
<1> QED
  BY <1>7, <1>8, <1>9, <1>10, <1>11, <1>12, <1>13, <1>14 DEF IInv
-----------------------------------------------------------------------------
(* The dispatcher thread.                                                  *)

\* Scan and Pick touch only the dispatcher's own state.
LEMMA SelectStep ==
    ASSUME TypeOK, IInv, Scan \/ Pick
    PROVE  IInv'
<1>1. /\ UNCHANGED <<rows, config, phase, recover, pool, exec, deciding, history>>
      /\ dpc \in {"scan", "pick"} /\ dpc' \in {"off", "scan", "pick", "claim"}
      /\ phase \notin {"down", "recovering"}
  BY DEF Scan, Pick, IInv, PhaseShape
<1>2. Running' = Running
  BY <1>1 DEF Running, HasStatus, rows
<1>3. RowsUsed'
  <2>1. \A j \in round' : j <= created
    <3>1. \A j \in QueuedJobs : j \in JobIds /\ status[j] = "queued"
      BY DEF QueuedJobs, HasStatus
    <3>2. \A j \in QueuedJobs : j <= created
      BY <3>1, UsedJob, UsedIds
    <3>3. round' = QueuedJobs \/ round' \subseteq round
      BY DEF Scan, Pick
    <3> QED
      BY <3>2, <3>3 DEF IInv, RowsUsed
  <2>2. dpc' = "claim" => cand' \in 1..created
    BY DEF Scan, Pick, Oldest, IInv, RowsUsed, TypeOK, JobIds
  <2> QED
    BY <1>1, <2>1, <2>2 DEF IInv, RowsUsed, rows
<1>4. PhaseShape'
  BY <1>1, <1>2 DEF IInv, PhaseShape, Idle, exec
<1>5. ThreadShape' /\ SlotsHeld' /\ CopiesAgree' /\ ApplyLinks'
  BY <1>1 DEF IInv, ThreadShape, SlotsHeld, Holds, CopiesAgree, ApplyLinks, rows, exec
<1>6. SingleExecution' /\ PushedOnce'
  BY <1>1 DEF IInv, SingleExecution, PushedOnce, Pooled, rows, exec, history
<1>7. NoConflict' /\ ConcurrencyBound'
  BY <1>1, <1>2, FewerRunning DEF IInv, rows
<1>8. ClaimSafe'
  <2> SUFFICES ASSUME dpc' = "claim" PROVE ClaimSafe'
    BY DEF ClaimSafe
  <2>1. Eligible(cand')
    BY DEF Scan, Pick
  <2>2. /\ \A k \in Running : ~Conflict(cand', k)
        /\ Cardinality(RunningOn(spec[cand'].instance)) < Concurrency[spec[cand'].instance]
    BY <2>1 DEF Eligible, Conflict, RunningIn, MutatingOn, RunningOn
  <2> QED
    BY <1>1, <1>2, <2>2 DEF ClaimSafe, Conflict, RunningOn, rows
<1>9. NoLeakedSlot'
  BY <1>1, <1>2 DEF IInv, NoLeakedSlot, Pooled, Holds, exec, history
<1> QED
  BY <1>3, <1>4, <1>5, <1>6, <1>7, <1>8, <1>9 DEF IInv

LEMMA ClaimStep ==
    ASSUME TypeOK, IInv, Claim
    PROVE  IInv'
<1>1. /\ cand \in JobIds /\ cand \in 1..created /\ dpc = "claim"
      /\ UNCHANGED <<created, spec, data, config, phase, recover, round, pool,
                     exec, deciding, history>>
  BY UsedIds DEF Claim, IInv, RowsUsed
<1>1a. phase \notin {"down", "recovering"}
  BY <1>1 DEF IInv, PhaseShape
<1>2. CASE status[cand] = "queued"
  <2>1. /\ status' = [status EXCEPT ![cand] = "running"]
        /\ dpc' = "submit" /\ cand' = cand
    BY <1>2 DEF Claim
  <2>2. status'[cand] = "running" /\ \A j \in JobIds : j # cand => status'[j] = status[j]
    BY <2>1, <1>1 DEF TypeOK
  <2>3. Running' = Running \cup {cand} /\ cand \notin Running
    BY <1>1, <1>2, <2>2 DEF Running, HasStatus
  <2>4. RowsUsed'
    BY <1>1, <1>2, <2>1, <2>2 DEF IInv, RowsUsed
  <2>5. PhaseShape'
    BY <1>1, <1>1a, <2>1 DEF IInv, PhaseShape, Idle, exec
  <2>6. ThreadShape'
    BY <1>1 DEF IInv, ThreadShape, exec
  <2>7. SlotsHeld'
    <3>1. \A t \in Threads : pc[t] # "idle" => on[t] \in JobIds
      BY UsedIds DEF IInv, ThreadShape
    <3>2. \A m \in 1..Len(pool) : pool[m] \in JobIds
      BY DEF TypeOK
    <3> QED
      BY <1>1, <1>2, <2>1, <2>2, <3>1, <3>2 DEF IInv, SlotsHeld, Holds, exec, Terminal
  <2>8. SingleExecution'
    <3>1. cand \notin Pooled
      BY <1>2 DEF Pooled, IInv, SlotsHeld
    <3>2. \A t \in Threads : pc[t] # "idle" => on[t] # cand
      BY <1>2 DEF IInv, SlotsHeld, Holds, TypeOK, ThreadPC, Terminal
    <3> QED
      BY <1>1, <2>1, <3>1, <3>2 DEF IInv, SingleExecution, Pooled, exec
  <2>9. NoConflict'
    BY <1>1, <2>3 DEF IInv, NoConflict, ClaimSafe, Conflict
  <2>10. ConcurrencyBound'
    <3> SUFFICES ASSUME NEW i \in Instances
                 PROVE  Cardinality(RunningOn(i)') <= Concurrency[i]
      BY DEF ConcurrencyBound
    <3>1. CASE i = spec[cand].instance
      <4>1. RunningOn(i)' = RunningOn(i) \cup {cand} /\ cand \notin RunningOn(i)
        BY <1>1, <2>3, <3>1 DEF RunningOn
      <4>2. Cardinality(RunningOn(i)') = Cardinality(RunningOn(i)) + 1
        BY <4>1, RunningOnFinite, FS_AddElement
      <4>3. Cardinality(RunningOn(i)) < Concurrency[i]
        BY <1>1, <3>1 DEF IInv, ClaimSafe
      <4> QED
        BY <4>2, <4>3, RunningOnFinite, DispatcherAssumption
    <3>2. CASE i # spec[cand].instance
      <4>1. RunningOn(i)' = RunningOn(i)
        BY <1>1, <2>3, <3>2 DEF RunningOn
      <4> QED
        BY <4>1 DEF IInv, ConcurrencyBound
    <3> QED
      BY <3>1, <3>2
  <2>11. ClaimSafe'
    BY <2>1 DEF ClaimSafe
  <2>12. NoLeakedSlot'
    BY <1>1, <2>1, <2>3 DEF IInv, NoLeakedSlot, Pooled, Holds, exec, history
  <2>13. CopiesAgree'
    BY <1>1, <1>2, <2>2 DEF IInv, CopiesAgree
  <2>14. PushedOnce'
    <3>1. pushes[cand] # 1
      BY <1>1, <1>2 DEF IInv, PushedOnce, Terminal
    <3> QED
      BY <1>1, <2>1, <2>2, <3>1 DEF IInv, PushedOnce, Pooled, exec, history
  <2>15. ApplyLinks'
    BY <1>1, <1>2, <2>2 DEF IInv, ApplyLinks, TypeOK, JobSpec
  <2> QED
    BY <2>4, <2>5, <2>6, <2>7, <2>8, <2>9, <2>10, <2>11, <2>12, <2>13, <2>14, <2>15 DEF IInv
<1>3. CASE status[cand] # "queued"
  <2>1. dpc' = "pick" /\ UNCHANGED status
    BY <1>3 DEF Claim
  <2>2. Running' = Running
    BY <2>1 DEF Running, HasStatus
  <2>3. RowsUsed' /\ ThreadShape' /\ SlotsHeld' /\ CopiesAgree' /\ ApplyLinks'
    BY <1>1, <2>1 DEF IInv, RowsUsed, ThreadShape, SlotsHeld, Holds, CopiesAgree, ApplyLinks, exec
  <2>4. SingleExecution' /\ PushedOnce' /\ ClaimSafe'
    BY <1>1, <2>1 DEF IInv, SingleExecution, PushedOnce, ClaimSafe, Pooled, exec, history
  <2>5. NoConflict' /\ ConcurrencyBound'
    BY <1>1, <2>2, FewerRunning DEF IInv
  <2>6. PhaseShape' /\ NoLeakedSlot'
    BY <1>1, <1>1a, <2>1, <2>2 DEF IInv, PhaseShape, NoLeakedSlot, Idle, Pooled, Holds, exec, history
  <2> QED
    BY <2>3, <2>4, <2>5, <2>6 DEF IInv
<1> QED
  BY <1>2, <1>3

LEMMA SubmitStep ==
    ASSUME TypeOK, IInv, Submit
    PROVE  IInv'
<1>1. /\ cand \in JobIds /\ cand \in 1..created /\ dpc = "submit" /\ status[cand] = "running"
      /\ cand \notin Pooled /\ pushes[cand] # 1
      /\ \A t \in Threads : pc[t] # "idle" => on[t] # cand
      /\ UNCHANGED <<config, phase, recover, exec, deciding, history>>
  BY UsedIds DEF Submit, IInv, RowsUsed, SlotsHeld, SingleExecution, PushedOnce
<1>2. phase \notin {"down", "recovering"} /\ cand' = NoJob /\ dpc' \in {"pick", "scan"}
  BY <1>1 DEF IInv, PhaseShape, Submit
<1>3. CASE phase = "up"
  <2>1. pool' = Append(pool, cand) /\ dpc' = "pick" /\ UNCHANGED <<rows, round>>
    BY <1>3 DEF Submit
  <2>2. /\ Len(pool') = Len(pool) + 1 /\ Len(pool) \in Nat
        /\ \A m \in 1..Len(pool) : pool'[m] = pool[m]
        /\ pool'[Len(pool) + 1] = cand
    BY <2>1, <1>1 DEF TypeOK
  <2>3. Pooled' = Pooled \cup {cand}
    BY <2>2 DEF Pooled
  <2>4. Running' = Running
    BY <2>1 DEF Running, HasStatus, rows
  <2>5. RowsUsed' /\ ThreadShape' /\ CopiesAgree' /\ ApplyLinks' /\ ClaimSafe'
    BY <1>1, <2>1 DEF IInv, RowsUsed, ThreadShape, CopiesAgree, ApplyLinks, ClaimSafe, rows, exec
  <2>6. PhaseShape'
    BY <1>1, <1>2, <1>3, <2>1, <2>4 DEF IInv, PhaseShape, Idle, exec
  <2>7. SlotsHeld'
    BY <1>1, <2>1, <2>2 DEF IInv, SlotsHeld, Holds, rows, exec
  <2>8. SingleExecution'
    <3>1. \A m, k \in 1..Len(pool') : pool'[m] = pool'[k] => m = k
      BY <1>1, <2>2 DEF IInv, SingleExecution, Pooled
    <3> QED
      BY <1>1, <2>1, <2>3, <3>1 DEF IInv, SingleExecution, exec
  <2>9. NoConflict' /\ ConcurrencyBound'
    BY <2>1, <2>4, FewerRunning DEF IInv, rows
  <2>10. NoLeakedSlot'
    BY <1>1, <2>3, <2>4 DEF IInv, NoLeakedSlot, Holds, exec, history
  <2>11. PushedOnce'
    BY <1>1, <2>1, <2>3 DEF IInv, PushedOnce, rows, exec, history
  <2> QED
    BY <2>5, <2>6, <2>7, <2>8, <2>9, <2>10, <2>11 DEF IInv
<1>4. CASE phase = "stopping"
  <2>1. pool' = pool /\ dpc' = "scan" /\ round' = {} /\ SaveJob(cand, "queued")
    BY <1>4 DEF Submit
  <2>2. /\ status' = [status EXCEPT ![cand] = "queued"]
        /\ data' = [data EXCEPT ![cand] = "queued"]
        /\ created' = created /\ spec' = spec
    BY <1>1, <2>1, SaveEffect
  <2>3. /\ status'[cand] = "queued" /\ data'[cand] = "queued"
        /\ \A k \in JobIds : k # cand => status'[k] = status[k] /\ data'[k] = data[k]
    BY <1>1, <2>2 DEF TypeOK
  <2>4. Running' = Running \ {cand}
    BY <2>3 DEF Running, HasStatus
  <2>5. RowsUsed'
    BY <1>1, <2>1, <2>2, <2>3 DEF IInv, RowsUsed
  <2>6. PhaseShape'
    BY <1>1, <1>4, <2>1 DEF IInv, PhaseShape, Idle, exec
  <2>7. ThreadShape'
    BY <1>1, <2>2 DEF IInv, ThreadShape, exec
  <2>8. SlotsHeld'
    <3>1. \A m \in 1..Len(pool') : FALSE
      BY <1>4, <2>1 DEF IInv, PhaseShape
    <3>2. \A t \in Threads : pc[t] # "idle" => on[t] \in JobIds
      BY UsedIds DEF IInv, ThreadShape
    <3> QED
      BY <1>1, <2>1, <2>3, <3>1, <3>2 DEF IInv, SlotsHeld, Holds, exec
  <2>9. SingleExecution' /\ ClaimSafe' /\ NoLeakedSlot'
    BY <1>1, <1>4, <2>1 DEF IInv, SingleExecution, ClaimSafe, NoLeakedSlot, Pooled, exec
  <2>10. NoConflict' /\ ConcurrencyBound'
    BY <2>2, <2>4, FewerRunning DEF IInv
  <2>11. CopiesAgree'
    BY <2>3 DEF IInv, CopiesAgree
  <2>12. PushedOnce'
    <3>1. \A k \in JobIds : pushes[k] = 1 => k # cand
      BY <1>1
    <3>2. Pooled' = Pooled
      BY <2>1 DEF Pooled
    <3> QED
      BY <1>1, <2>1, <2>2, <2>3, <3>1, <3>2 DEF IInv, PushedOnce, exec, history
  <2>13. ApplyLinks'
    BY <1>1, <2>2, <2>3 DEF IInv, ApplyLinks, TypeOK, JobSpec
  <2> QED
    BY <2>5, <2>6, <2>7, <2>8, <2>9, <2>10, <2>11, <2>12, <2>13 DEF IInv
<1> QED
  BY <1>3, <1>4 DEF Submit
-----------------------------------------------------------------------------
(* The pool threads.                                                       *)

\* The other threads do not notice a step of thread t.
LEMMA ThreadFrame ==
    ASSUME TypeOK, NEW t \in Threads,
           \/ \E p : pc' = [pc EXCEPT ![t] = p],
           \/ on' = on \/ \E j : on' = [on EXCEPT ![t] = j],
           \/ mem' = mem \/ \E m : mem' = [mem EXCEPT ![t] = m]
    PROVE  \A u \in Threads : u # t =>
              /\ pc'[u] = pc[u] /\ on'[u] = on[u] /\ mem'[u] = mem[u]
              /\ Holds(u)' = Holds(u)
  BY DEF Holds, TypeOK

LEMMA StartStep ==
    ASSUME TypeOK, IInv, NEW t \in Threads, Start(t)
    PROVE  IInv'
<1> DEFINE j == Head(pool)
<1>1. /\ pc[t] = "idle" /\ pool # <<>> /\ pool' = Tail(pool)
      /\ UNCHANGED <<rows, config, phase, recover, loop, deciding, history>>
  BY DEF Start
<1>2. /\ Len(pool) \in Nat \ {0} /\ j = pool[1] /\ j \in JobIds
      /\ Len(pool') = Len(pool) - 1
      /\ \A m \in 1..Len(pool') : pool'[m] = pool[m + 1]
  BY <1>1 DEF TypeOK
<1>3. status[j] = "running" /\ j \in 1..created /\ j \in Pooled
  <2>1. 1 \in 1..Len(pool)
    BY <1>2
  <2>2. status[j] = "running" /\ j \in Pooled
    BY <1>2, <2>1 DEF IInv, SlotsHeld, Pooled
  <2> QED
    BY <1>2, <2>2, UsedJob
<1>4. /\ pc' = [pc EXCEPT ![t] = "enter"] /\ on' = [on EXCEPT ![t] = j]
      /\ mem' = [mem EXCEPT ![t] = data[j]]
  BY <1>3 DEF Start, Goto
<1>5. pc'[t] = "enter" /\ on'[t] = j /\ Holds(t)' /\ ~Holds(t)
  BY <1>1, <1>4 DEF Holds, TypeOK
<1>6. \A u \in Threads : u # t =>
         pc'[u] = pc[u] /\ on'[u] = on[u] /\ mem'[u] = mem[u] /\ Holds(u)' = Holds(u)
  BY <1>4, ThreadFrame
<1>7. Pooled' = Pooled \ {j}
  <2>1. \A m \in 1..Len(pool') : m + 1 \in 1..Len(pool) /\ m + 1 # 1
    BY <1>2
  <2>2. \A m \in 1..Len(pool) : m # 1 => m - 1 \in 1..Len(pool') /\ pool'[m - 1] = pool[m]
    BY <1>2
  <2>3. \A m, k \in 1..Len(pool) : pool[m] = pool[k] => m = k
    BY DEF IInv, SingleExecution
  <2>4. 1 \in 1..Len(pool)
    BY <1>2
  <2> QED
    BY <1>2, <2>1, <2>2, <2>3, <2>4 DEF Pooled
<1>8. Running' = Running
  BY <1>1 DEF Running, HasStatus, rows
<1>9. RowsUsed' /\ CopiesAgree' /\ ApplyLinks'
  BY <1>1 DEF IInv, RowsUsed, CopiesAgree, ApplyLinks, rows, loop
<1>10. PhaseShape'
  BY <1>1, <1>8 DEF IInv, PhaseShape, loop
<1>11. ThreadShape'
  BY <1>1, <1>3, <1>5, <1>6 DEF IInv, ThreadShape, rows
<1>12. SlotsHeld'
  BY <1>1, <1>2, <1>3, <1>5, <1>6 DEF IInv, SlotsHeld, rows, loop
<1>13. SingleExecution'
  <2>1. \A m, k \in 1..Len(pool') : pool'[m] = pool'[k] => m = k
    BY <1>2 DEF IInv, SingleExecution
  <2>2. \A u \in Threads : pc[u] # "idle" => on[u] # j
    BY <1>3 DEF IInv, SingleExecution
  <2> QED
    BY <1>1, <1>3, <1>5, <1>6, <1>7, <2>1, <2>2 DEF IInv, SingleExecution, loop
<1>14. NoConflict' /\ ConcurrencyBound' /\ ClaimSafe'
  <2>1. dpc = "claim" => cand \in JobIds
    BY UsedIds DEF IInv, RowsUsed
  <2> QED
    BY <1>1, <1>8, <2>1, FewerRunning, FewerRunningClaim DEF IInv, rows, loop
<1>15. NoLeakedSlot'
  BY <1>1, <1>3, <1>5, <1>6, <1>7, <1>8 DEF IInv, NoLeakedSlot, loop, history
<1>16. PushedOnce'
  BY <1>1, <1>3, <1>5, <1>6, <1>7 DEF IInv, PushedOnce, rows, loop, history
<1> QED
  BY <1>9, <1>10, <1>11, <1>12, <1>13, <1>14, <1>15, <1>16 DEF IInv

\* The run itself writes no row; it may push.
LEMMA WorkStep ==
    ASSUME TypeOK, IInv, NEW t \in Threads, pc[t] \in {"work", "apply"},
           NEW p \in {"apply", "save"}, NEW m,
           pc' = [pc EXCEPT ![t] = p], mem' = [mem EXCEPT ![t] = m],
           UNCHANGED <<rows, phase, recover, loop, pool, on, deciding, stuck>>,
           p = "apply" => /\ m = "running"
                          /\ spec[on[t]].deliverable \in Mutating /\ ~Parks(spec[on[t]]),
           p = "save" => /\ m \in Terminal \cup {"running", "awaiting_approval"}
                         /\ m = "success" => ~Parks(spec[on[t]])
                         /\ m = "awaiting_approval" => Parks(spec[on[t]]),
           \/ UNCHANGED pushes
           \/ /\ pushes' = [pushes EXCEPT ![on[t]] = @ + 1]
              /\ pc[t] = "apply" /\ p = "save" /\ m \in {"success", "error"}
    PROVE  IInv'
<1> DEFINE j == on[t]
<1>1. /\ j \in 1..created /\ j \in JobIds /\ Holds(t) /\ status[j] = "running" /\ pushes[j] = 0
      /\ j \notin Pooled
  BY UsedIds DEF IInv, ThreadShape, SlotsHeld, PushedOnce, SingleExecution, Holds
<1>2. \A u \in Threads : u # t =>
         pc'[u] = pc[u] /\ on'[u] = on[u] /\ mem'[u] = mem[u] /\ Holds(u)' = Holds(u)
  BY ThreadFrame
<1>3. pc'[t] = p /\ mem'[t] = m /\ on'[t] = j /\ Holds(t)'
  BY DEF Holds, TypeOK
<1>4. Running' = Running /\ Pooled' = Pooled
  BY DEF Running, HasStatus, Pooled, rows
<1>5. RowsUsed' /\ CopiesAgree' /\ ApplyLinks'
  BY DEF IInv, RowsUsed, CopiesAgree, ApplyLinks, rows, loop
<1>6. PhaseShape'
  BY <1>4 DEF IInv, PhaseShape, Idle, loop
<1>7. ThreadShape'
  BY <1>1, <1>2, <1>3 DEF IInv, ThreadShape, rows
<1>8. SlotsHeld'
  BY <1>1, <1>2, <1>3 DEF IInv, SlotsHeld, Holds, rows, loop
<1>9. SingleExecution'
  BY <1>1, <1>2, <1>3, <1>4 DEF IInv, SingleExecution, loop
<1>10. NoConflict' /\ ConcurrencyBound' /\ ClaimSafe'
  <2>1. dpc = "claim" => cand \in JobIds
    BY UsedIds DEF IInv, RowsUsed
  <2> QED
    BY <1>4, <2>1, FewerRunning, FewerRunningClaim DEF IInv, rows, loop
<1>11. NoLeakedSlot'
  BY <1>1, <1>2, <1>3, <1>4 DEF IInv, NoLeakedSlot, loop
<1>12. PushedOnce'
  <2>1. CASE UNCHANGED pushes
    BY <1>1, <1>2, <1>3, <1>4, <2>1 DEF IInv, PushedOnce, rows, loop
  <2>2. CASE /\ pushes' = [pushes EXCEPT ![j] = @ + 1]
             /\ pc[t] = "apply" /\ p = "save" /\ m \in {"success", "error"}
    <3>1. pushes'[j] = 1 /\ \A k \in JobIds : k # j => pushes'[k] = pushes[k]
      BY <1>1, <2>2 DEF TypeOK
    <3>2. /\ spec[j].deliverable \in Mutating
          /\ dpc = "submit" => cand # j
          /\ \A u \in Threads : pc[u] # "idle" /\ on[u] = j => u = t
      BY <1>1, <2>2 DEF IInv, ThreadShape, SingleExecution
    <3> QED
      BY <1>1, <1>2, <1>3, <1>4, <2>2, <3>1, <3>2 DEF IInv, PushedOnce, rows, loop
  <2> QED
    BY <2>1, <2>2
<1> QED
  BY <1>5, <1>6, <1>7, <1>8, <1>9, <1>10, <1>11, <1>12 DEF IInv

\* A thread saves its job: it goes on holding a row that stays running, or
\* lets go of a row that leaves "running".
LEMMA SaveStep ==
    ASSUME TypeOK, IInv, NEW t \in Threads, Holds(t), pc[t] # "idle",
           NEW s \in RowStatus \ {"absent"}, SaveJob(on[t], s),
           UNCHANGED <<phase, recover, loop, pool, deciding, history>>,
           pushes[on[t]] = 1 => s \in Terminal,
           s = "awaiting_approval" => Parks(spec[on[t]]),
           \/ /\ Return(t) /\ s # "running"
           \/ /\ pc' = [pc EXCEPT ![t] = "work"] /\ UNCHANGED on
              /\ mem' = [mem EXCEPT ![t] = "running"]
              /\ pc[t] = "enter" /\ s = "running"
           \/ /\ pc' = [pc EXCEPT ![t] = "report"] /\ UNCHANGED <<on, mem>>
              /\ pc[t] = "save" /\ s = mem[t]
    PROVE  IInv'
<1> DEFINE j == on[t]
<1>1. /\ j \in 1..created /\ j \in JobIds /\ status[j] = "running" /\ j \notin Pooled
      /\ dpc = "submit" => cand # j
      /\ \A u \in Threads : pc[u] # "idle" /\ on[u] = j => u = t
  BY UsedIds DEF IInv, ThreadShape, SlotsHeld, SingleExecution
<1>2. /\ status' = [status EXCEPT ![j] = s] /\ data' = [data EXCEPT ![j] = s]
      /\ created' = created /\ spec' = spec
  BY <1>1, SaveEffect
<1>3. /\ status'[j] = s /\ data'[j] = s
      /\ \A k \in JobIds : k # j => status'[k] = status[k] /\ data'[k] = data[k]
  BY <1>1, <1>2 DEF TypeOK
<1>4. \A u \in Threads : u # t =>
         pc'[u] = pc[u] /\ on'[u] = on[u] /\ mem'[u] = mem[u] /\ Holds(u)' = Holds(u)
  BY ThreadFrame DEF Return, Goto
<1>5. \/ pc'[t] = "idle" /\ s # "running" /\ ~Holds(t)'
      \/ /\ pc'[t] = "work" /\ on'[t] = j /\ mem'[t] = "running" /\ s = "running"
         /\ pc[t] = "enter" /\ Holds(t)'
      \/ /\ pc'[t] = "report" /\ on'[t] = j /\ mem'[t] = mem[t] /\ s = mem[t]
         /\ pc[t] = "save" /\ (Holds(t)' <=> s = "running")
  BY DEF Return, Goto, Holds, TypeOK
<1>6. Running' = (IF s = "running" THEN Running ELSE Running \ {j}) /\ j \in Running
  BY <1>1, <1>3 DEF Running, HasStatus
<1>7. Pooled' = Pooled
  BY DEF Pooled
<1>8. \A u \in Threads : u # t /\ pc[u] # "idle" => on[u] \in JobIds /\ on[u] # j
  BY <1>1, UsedIds DEF IInv, ThreadShape
<1>9. RowsUsed'
  BY <1>1, <1>2, <1>3, UsedIds DEF IInv, RowsUsed, loop
<1>10. PhaseShape'
  <2>1. phase \notin {"down", "recovering"}
    BY DEF IInv, PhaseShape, Idle
  <2> QED
    BY <2>1 DEF IInv, PhaseShape
<1>11. ThreadShape'
  BY <1>1, <1>2, <1>4, <1>5 DEF IInv, ThreadShape
<1>12. SlotsHeld'
  <2>1. \A n \in 1..Len(pool) : pool[n] \in JobIds /\ pool[n] # j
    BY <1>1 DEF TypeOK, Pooled
  <2>2. dpc = "submit" => cand \in JobIds
    BY UsedIds DEF IInv, RowsUsed
  <2>3. pc[t] = "save" /\ mem[t] # "running" => mem[t] \in Terminal \cup {"awaiting_approval"}
    BY DEF IInv, ThreadShape
  <2>4. \A u \in Threads :
          /\ Holds(u)' => status'[on'[u]] = "running"
          /\ pc'[u] = "report" /\ mem'[u] # "running" =>
                status'[on'[u]] \in Terminal \cup {"awaiting_approval"}
    <3>1. CASE Holds(t)' \/ pc'[t] = "report"
      BY <3>1, <1>3, <1>4, <1>5, <1>8, <2>3 DEF IInv, SlotsHeld, Holds
    <3>2. CASE ~(Holds(t)' \/ pc'[t] = "report")
      BY <3>2, <1>3, <1>4, <1>8 DEF IInv, SlotsHeld, Holds
    <3> QED
      BY <3>1, <3>2
  <2>5. \A n \in 1..Len(pool) : status'[pool[n]] = "running"
    BY <1>3, <2>1 DEF IInv, SlotsHeld
  <2>6. dpc = "submit" => status'[cand] = "running"
    BY <1>1, <1>3, <2>2 DEF IInv, SlotsHeld
  <2> QED
    BY <2>4, <2>5, <2>6 DEF SlotsHeld, loop
<1>13. SingleExecution'
  BY <1>1, <1>4, <1>5, <1>7 DEF IInv, SingleExecution, loop
<1>14. NoConflict' /\ ConcurrencyBound' /\ ClaimSafe'
  <2>1. dpc = "claim" => cand \in JobIds
    BY UsedIds DEF IInv, RowsUsed
  <2> QED
    BY <1>2, <1>6, <2>1, FewerRunning, FewerRunningClaim DEF IInv, loop
<1>15. NoLeakedSlot'
  BY <1>1, <1>4, <1>5, <1>6, <1>7 DEF IInv, NoLeakedSlot, loop, history
<1>16. CopiesAgree'
  BY <1>3 DEF IInv, CopiesAgree
<1>17. PushedOnce'
  BY <1>1, <1>2, <1>3, <1>4, <1>5, <1>7 DEF IInv, PushedOnce, loop, history, Terminal
<1>18. ApplyLinks'
  <2>1. \A k \in JobIds : spec[k].source # NoJob =>
           spec[k].source \in JobIds /\ spec[k].source # j
    BY <1>1 DEF IInv, ApplyLinks, TypeOK, JobSpec
  <2>2. deciding # NoJob => deciding \in JobIds /\ deciding # j
    BY <1>1 DEF IInv, ApplyLinks, TypeOK
  <2> QED
    BY <1>1, <1>2, <1>3, <2>1, <2>2 DEF IInv, ApplyLinks
<1> QED
  BY <1>9, <1>10, <1>11, <1>12, <1>13, <1>14, <1>15, <1>16, <1>17, <1>18 DEF IInv

\* Reporting writes no row; a paused run goes on to be put back.
LEMMA ReportStep ==
    ASSUME TypeOK, IInv, NEW t \in Threads, Report(t)
    PROVE  IInv'
<1> DEFINE j == on[t]
<1>1. /\ pc[t] = "report" /\ j \in 1..created /\ j \in JobIds /\ j \notin Pooled
      /\ UNCHANGED <<rows, config, phase, recover, loop, pool, deciding, pushes, stuck>>
  BY UsedIds DEF Report, IInv, ThreadShape, SingleExecution
<1>2. \A u \in Threads : u # t =>
         pc'[u] = pc[u] /\ on'[u] = on[u] /\ mem'[u] = mem[u] /\ Holds(u)' = Holds(u)
  BY ThreadFrame DEF Report, Return, Goto
<1>3. \/ /\ mem[t] = "running" /\ pc'[t] = "requeue" /\ on'[t] = j /\ mem'[t] = "running"
         /\ Holds(t) /\ Holds(t)'
      \/ mem[t] # "running" /\ pc'[t] = "idle" /\ ~Holds(t) /\ ~Holds(t)'
  BY <1>1 DEF Report, Return, Goto, Holds, TypeOK
<1>4. Running' = Running /\ Pooled' = Pooled
  BY <1>1 DEF Running, HasStatus, Pooled, rows
<1>5. RowsUsed' /\ CopiesAgree' /\ ApplyLinks'
  BY <1>1 DEF IInv, RowsUsed, CopiesAgree, ApplyLinks, rows, loop
<1>6. PhaseShape'
  BY <1>1, <1>4 DEF IInv, PhaseShape, Idle, loop
<1>7. ThreadShape'
  BY <1>1, <1>2, <1>3 DEF IInv, ThreadShape, rows
<1>8. SlotsHeld'
  BY <1>1, <1>2, <1>3 DEF IInv, SlotsHeld, rows, loop
<1>9. SingleExecution'
  BY <1>1, <1>2, <1>3, <1>4 DEF IInv, SingleExecution, loop
<1>10. NoConflict' /\ ConcurrencyBound' /\ ClaimSafe'
  <2>1. dpc = "claim" => cand \in JobIds
    BY UsedIds DEF IInv, RowsUsed
  <2> QED
    BY <1>1, <1>4, <2>1, FewerRunning, FewerRunningClaim DEF IInv, rows, loop
<1>11. NoLeakedSlot'
  BY <1>1, <1>2, <1>3, <1>4 DEF IInv, NoLeakedSlot, loop
<1>12. PushedOnce'
  BY <1>1, <1>2, <1>3, <1>4 DEF IInv, PushedOnce, rows, loop
<1> QED
  BY <1>5, <1>6, <1>7, <1>8, <1>9, <1>10, <1>11, <1>12 DEF IInv

\* A submission taken and dropped: the row stays running, and is the thread's
\* no more than anybody's.
LEMMA StartRaisesStep ==
    ASSUME TypeOK, IInv, NEW t \in Threads, StartRaises(t)
    PROVE  IInv'
<1> DEFINE j == Head(pool)
<1>1. /\ pool # <<>> /\ pool' = Tail(pool) /\ stuck' = stuck \cup {j}
      /\ UNCHANGED <<rows, config, phase, recover, loop, exec, deciding, pushes>>
  BY DEF StartRaises
<1>2. /\ Len(pool) \in Nat \ {0} /\ j = pool[1] /\ Len(pool') = Len(pool) - 1
      /\ \A m \in 1..Len(pool') : pool'[m] = pool[m + 1]
  BY <1>1 DEF TypeOK
<1>3. Pooled' \subseteq Pooled /\ Pooled \subseteq Pooled' \cup {j}
  <2>1. \A m \in 1..Len(pool') : m + 1 \in 1..Len(pool)
    BY <1>2
  <2>2. \A m \in 1..Len(pool) : m # 1 => m - 1 \in 1..Len(pool') /\ pool'[m - 1] = pool[m]
    BY <1>2
  <2>3. ASSUME NEW k \in Pooled' PROVE k \in Pooled
    BY <1>2, <2>1, <2>3 DEF Pooled
  <2>4. ASSUME NEW k \in Pooled, k # j PROVE k \in Pooled'
    <3>1. PICK m \in 1..Len(pool) : k = pool[m]
      BY <2>4 DEF Pooled
    <3> QED
      BY <1>2, <2>2, <2>4, <3>1 DEF Pooled
  <2> QED
    BY <2>3, <2>4
<1>4. Running' = Running
  BY <1>1 DEF Running, HasStatus, rows
<1>5. RowsUsed' /\ ThreadShape' /\ CopiesAgree' /\ ApplyLinks'
  BY <1>1 DEF IInv, RowsUsed, ThreadShape, CopiesAgree, ApplyLinks, rows, loop, exec
<1>6. PhaseShape'
  BY <1>1, <1>4 DEF IInv, PhaseShape, Idle, loop, exec
<1>7. SlotsHeld'
  BY <1>1, <1>2 DEF IInv, SlotsHeld, Holds, rows, loop, exec
<1>8. SingleExecution'
  <2>1. \A m, k \in 1..Len(pool') : pool'[m] = pool'[k] => m = k
    BY <1>2 DEF IInv, SingleExecution
  <2> QED
    BY <1>1, <1>3, <2>1 DEF IInv, SingleExecution, loop, exec
<1>9. NoConflict' /\ ConcurrencyBound' /\ ClaimSafe'
  <2>1. dpc = "claim" => cand \in JobIds
    BY UsedIds DEF IInv, RowsUsed
  <2> QED
    BY <1>1, <1>4, <2>1, FewerRunning, FewerRunningClaim DEF IInv, rows, loop
<1>10. NoLeakedSlot'
  BY <1>1, <1>3, <1>4 DEF IInv, NoLeakedSlot, Holds, loop, exec
<1>11. PushedOnce'
  BY <1>1, <1>3 DEF IInv, PushedOnce, rows, loop, exec
<1> QED
  BY <1>5, <1>6, <1>7, <1>8, <1>9, <1>10, <1>11 DEF IInv

\* A save that raises where nobody catches: the thread lets go of a row that
\* stays as it is.
LEMMA EscapeStep ==
    ASSUME TypeOK, IInv, NEW t \in Threads, Escape(t)
    PROVE  IInv'
<1>1. /\ pc[t] \in {"enter", "save", "requeue"} /\ stuck' = stuck \cup {on[t]}
      /\ pc'[t] = "idle" /\ ~Holds(t)'
      /\ UNCHANGED <<rows, config, phase, recover, loop, pool, deciding, pushes>>
  BY DEF Escape, Return, Goto, Holds, TypeOK
<1>2. \A u \in Threads : u # t =>
         pc'[u] = pc[u] /\ on'[u] = on[u] /\ mem'[u] = mem[u] /\ Holds(u)' = Holds(u)
  BY ThreadFrame DEF Escape, Return, Goto
<1>3. Running' = Running /\ Pooled' = Pooled
  BY <1>1 DEF Running, HasStatus, Pooled, rows
<1>4. RowsUsed' /\ CopiesAgree' /\ ApplyLinks'
  BY <1>1 DEF IInv, RowsUsed, CopiesAgree, ApplyLinks, rows, loop
<1>5. PhaseShape'
  BY <1>1, <1>3 DEF IInv, PhaseShape, Idle, loop
<1>6. ThreadShape' /\ SlotsHeld'
  BY <1>1, <1>2 DEF IInv, ThreadShape, SlotsHeld, rows, loop
<1>7. SingleExecution'
  BY <1>1, <1>2, <1>3 DEF IInv, SingleExecution, loop
<1>8. NoConflict' /\ ConcurrencyBound' /\ ClaimSafe'
  <2>1. dpc = "claim" => cand \in JobIds
    BY UsedIds DEF IInv, RowsUsed
  <2> QED
    BY <1>1, <1>3, <2>1, FewerRunning, FewerRunningClaim DEF IInv, rows, loop
<1>9. NoLeakedSlot'
  BY <1>1, <1>2, <1>3 DEF IInv, NoLeakedSlot, loop
<1>10. PushedOnce'
  BY <1>1, <1>2, <1>3 DEF IInv, PushedOnce, rows, loop
<1> QED
  BY <1>4, <1>5, <1>6, <1>7, <1>8, <1>9, <1>10 DEF IInv

LEMMA ThreadInvStep ==
    ASSUME TypeOK, IInv, NEW t \in Threads, ThreadStep(t)
    PROVE  IInv'
<1>1. CASE Start(t)
  BY <1>1, StartStep
<1>2. CASE Enter(t)
  <2>1. PICK s \in {"running", "queued", "error"} :
             /\ SaveJob(on[t], s)
             /\ \/ Return(t) /\ s # "running"
                \/ /\ pc' = [pc EXCEPT ![t] = "work"] /\ UNCHANGED on
                   /\ mem' = [mem EXCEPT ![t] = "running"] /\ s = "running"
    BY <1>2 DEF Enter, Goto
  <2>2. pc[t] = "enter" /\ UNCHANGED <<phase, recover, loop, pool, deciding, history>>
    BY <1>2 DEF Enter
  <2>3. pushes[on[t]] # 1 /\ Holds(t)
    BY <2>2, UsedIds DEF IInv, PushedOnce, ThreadShape, Holds
  <2>4. s \in RowStatus \ {"absent"}
    BY DEF RowStatus, Status, Terminal
  <2> QED
    BY <2>1, <2>2, <2>3, <2>4, SaveStep
<1>3. CASE AuthMissing(t)
  BY <1>3, WorkStep DEF AuthMissing, Finish, Goto, history
<1>4. CASE EngineFails(t)
  <2>1. PICK s \in Failures : Finish(t, s)
    BY <1>4, DispatcherAssumption DEF EngineFails, Failures
  <2>2. s \in Terminal /\ s # "success" /\ s # "awaiting_approval"
    BY DEF Failures, Terminal
  <2> QED
    BY <1>4, <2>1, <2>2, WorkStep DEF EngineFails, Finish, Goto, history
<1>5. CASE EngineSucceeds(t)
  <2>1. mem = [mem EXCEPT ![t] = "running"]
    BY <1>5 DEF EngineSucceeds, IInv, ThreadShape, TypeOK
  <2>2. CASE Parks(spec[on[t]]) /\ Finish(t, "awaiting_approval")
    BY <1>5, <2>2, WorkStep DEF EngineSucceeds, Finish, Goto, history
  <2>3. CASE spec[on[t]].deliverable \in ReadOnly /\ Finish(t, "success")
    <3>1. ~Parks(spec[on[t]])
      BY <2>3 DEF Parks, ReadOnly, Mutating
    <3> QED
      BY <1>5, <2>3, <3>1, WorkStep DEF EngineSucceeds, Finish, Goto, history, Terminal
  <2>4. CASE Finish(t, "failed-checks")
    BY <1>5, <2>4, WorkStep DEF EngineSucceeds, Finish, Goto, history, Terminal
  <2>5. CASE /\ spec[on[t]].deliverable \in Mutating /\ ~Parks(spec[on[t]])
             /\ Goto(t, "apply") /\ UNCHANGED mem
    BY <1>5, <2>1, <2>5, WorkStep DEF EngineSucceeds, Goto, history
  <2> QED
    BY <1>5, <2>2, <2>3, <2>4, <2>5 DEF EngineSucceeds
<1>6. CASE Apply(t)
  <2>1. PICK s \in {"success", "error"} : Finish(t, s)
    BY <1>6 DEF Apply
  <2>2. ~Parks(spec[on[t]])
    BY <1>6 DEF Apply, IInv, ThreadShape
  <2>3. s \in Terminal
    BY DEF Terminal
  <2> QED
    BY <1>6, <2>1, <2>2, <2>3, WorkStep DEF Apply, Finish, Goto
<1>7. CASE FinalSave(t)
  <2>1. /\ mem[t] \in Terminal \cup {"running", "awaiting_approval"}
        /\ mem[t] = "awaiting_approval" => Parks(spec[on[t]])
        /\ Holds(t) /\ pc[t] = "save"
    BY <1>7 DEF FinalSave, IInv, ThreadShape, Holds
  <2>2. pushes[on[t]] = 1 => mem[t] \in Terminal
    BY <2>1, UsedIds DEF IInv, PushedOnce, ThreadShape
  <2>3. mem[t] \in RowStatus \ {"absent"}
    BY <2>1 DEF RowStatus, Status, Terminal
  <2> QED
    BY <1>7, <2>1, <2>2, <2>3, SaveStep DEF FinalSave, Goto
<1>8. CASE Report(t)
  BY <1>8, ReportStep
<1>9. CASE Requeue(t)
  <2>1. pc[t] = "requeue" /\ Holds(t) /\ pushes[on[t]] # 1
    BY <1>9, UsedIds DEF Requeue, IInv, PushedOnce, ThreadShape, Holds
  <2>2. "queued" \in RowStatus \ {"absent"}
    BY DEF RowStatus, Status
  <2> QED
    BY <1>9, <2>1, <2>2, SaveStep DEF Requeue
<1>10. CASE StartRaises(t) \/ Escape(t)
  BY <1>10, StartRaisesStep, EscapeStep
<1> QED
  BY <1>1, <1>2, <1>3, <1>4, <1>5, <1>6, <1>7, <1>8, <1>9, <1>10 DEF ThreadStep
-----------------------------------------------------------------------------
(* The process and the instance files.                                     *)

\* Only the instance files and the phase may change, and the pool may empty.
LEMMA QuietStep ==
    ASSUME TypeOK, IInv, UNCHANGED <<rows, loop, exec, deciding, history>>,
           \/ UNCHANGED <<phase, recover, pool>>
           \/ LoopFree /\ phase' = "stopping" /\ pool' = <<>> /\ UNCHANGED recover
    PROVE  IInv'
<1>1. Running' = Running
  BY DEF Running, HasStatus, rows
<1>2. Pooled' \subseteq Pooled
  BY DEF Pooled
<1>3. RowsUsed' /\ ThreadShape' /\ CopiesAgree' /\ ApplyLinks'
  BY DEF IInv, RowsUsed, ThreadShape, CopiesAgree, ApplyLinks, rows, loop, exec
<1>4. PhaseShape' /\ NoLeakedSlot'
  BY <1>1 DEF IInv, PhaseShape, NoLeakedSlot, LoopFree, Idle, Pooled, Holds, loop, exec, history
<1>5. SlotsHeld' /\ SingleExecution'
  BY DEF IInv, SlotsHeld, SingleExecution, Holds, Pooled, rows, loop, exec
<1>6. NoConflict' /\ ConcurrencyBound' /\ ClaimSafe'
  <2>1. dpc = "claim" => cand \in JobIds
    BY UsedIds DEF IInv, RowsUsed
  <2> QED
    BY <1>1, <2>1, FewerRunning, FewerRunningClaim DEF IInv, rows, loop
<1>7. PushedOnce'
  BY <1>2 DEF IInv, PushedOnce, rows, loop, exec, history
<1> QED
  BY <1>3, <1>4, <1>5, <1>6, <1>7 DEF IInv

\* With every thread gone the parts about threads say nothing.
LEMMA AllIdle ==
    ASSUME TypeOK, IInv, UNCHANGED <<rows, pushes>>, round' = round \/ round' = {},
           \A t \in Threads : pc'[t] = "idle", pool' = <<>>,
           dpc' \in {"off", "scan"}, deciding' = NoJob,
           phase' = "up" => Running = {}
    PROVE  /\ RowsUsed' /\ ThreadShape' /\ SlotsHeld' /\ SingleExecution'
           /\ NoConflict' /\ ClaimSafe' /\ ConcurrencyBound' /\ NoLeakedSlot'
           /\ CopiesAgree' /\ PushedOnce' /\ ApplyLinks'
<1>1. Running' = Running
  BY DEF Running, HasStatus, rows
<1>2. Pooled' = {} /\ \A t \in Threads : ~Holds(t)'
  BY DEF Pooled, Holds
<1>3. RowsUsed' /\ CopiesAgree' /\ ApplyLinks'
  BY DEF IInv, RowsUsed, CopiesAgree, ApplyLinks, rows
<1>4. ThreadShape' /\ SlotsHeld' /\ SingleExecution' /\ ClaimSafe' /\ NoLeakedSlot'
  BY <1>1, <1>2 DEF ThreadShape, SlotsHeld, SingleExecution, ClaimSafe, NoLeakedSlot
<1>5. NoConflict' /\ ConcurrencyBound'
  BY <1>1, FewerRunning DEF IInv, rows
<1>6. PushedOnce'
  BY <1>2 DEF IInv, PushedOnce, rows
<1> QED
  BY <1>3, <1>4, <1>5, <1>6

LEMMA ProcessStep ==
    ASSUME TypeOK, IInv, Boot \/ Serve \/ Exit \/ Crash
    PROVE  IInv'
<1>1. CASE Boot
  <2>1. Running' = Running
    BY <1>1 DEF Boot, Running, HasStatus, rows
  <2>2. PhaseShape'
    BY <1>1, <2>1 DEF Boot, IInv, PhaseShape, Idle, loop, exec
  <2>3. \A t \in Threads : pc'[t] = "idle"
    BY <1>1 DEF Boot, IInv, PhaseShape, Idle, exec
  <2> QED
    BY <1>1, <2>2, <2>3, AllIdle DEF Boot, IInv, PhaseShape, loop, history
<1>2. CASE Serve
  <2>1. Running = {} /\ Running' = Running
    BY <1>2 DEF Serve, IInv, PhaseShape, Running, HasStatus, rows
  <2>2. PhaseShape'
    BY <1>2, <2>1 DEF Serve, IInv, PhaseShape
  <2>3. \A t \in Threads : pc'[t] = "idle"
    BY <1>2 DEF Serve, IInv, PhaseShape, Idle, exec
  <2> QED
    BY <1>2, <2>1, <2>2, <2>3, AllIdle DEF Serve, IInv, PhaseShape, history
<1>3. CASE Halt
  <2>1. PhaseShape'
    BY <1>3 DEF Halt, PhaseShape, Idle
  <2>2. \A t \in Threads : pc'[t] = "idle"
    BY <1>3 DEF Halt
  <2> QED
    BY <1>3, <2>1, <2>2, AllIdle DEF Halt, IInv
<1> QED
  BY <1>1, <1>2, <1>3 DEF Exit, Crash
-----------------------------------------------------------------------------
(* The inductive argument.                                                 *)

LEMMA IInvInit == Init => IInv
<1> SUFFICES ASSUME Init PROVE IInv
  OBVIOUS
<1>1. \A j \in JobIds : status[j] = "absent" /\ data[j] = "absent" /\ spec[j] = Blank
                        /\ pushes[j] = 0 /\ j > created
  BY JobFacts DEF Init
<1>2. Running = {} /\ Pooled = {}
  BY <1>1 DEF Running, HasStatus, Pooled, Init
<1>3. \A t \in Threads : pc[t] = "idle" /\ ~Holds(t)
  BY DEF Init, Holds
<1>4. RowsUsed /\ PhaseShape /\ ThreadShape /\ SlotsHeld /\ SingleExecution
  BY <1>1, <1>2, <1>3 DEF Init, RowsUsed, PhaseShape, Idle, ThreadShape, SlotsHeld,
                           SingleExecution
<1>5. ConcurrencyBound
  <2>1. \A i \in Instances : RunningOn(i) = {}
    BY <1>2 DEF RunningOn
  <2>2. \A i \in Instances : Cardinality(RunningOn(i)) = 0
    BY <2>1, FS_EmptySet
  <2> QED
    BY <2>2, DispatcherAssumption DEF ConcurrencyBound
<1>6. NoConflict /\ ClaimSafe /\ NoLeakedSlot /\ CopiesAgree
  BY <1>1, <1>2 DEF Init, NoConflict, ClaimSafe, NoLeakedSlot, CopiesAgree
<1>7. PushedOnce /\ ApplyLinks
  BY <1>1, JobFacts DEF Init, PushedOnce, ApplyLinks, Blank, NoJob
<1> QED
  BY <1>4, <1>5, <1>6, <1>7 DEF IInv

LEMMA IInvStep == TypeOK /\ IInv /\ [Next]_vars => IInv'
<1> SUFFICES ASSUME TypeOK, IInv, [Next]_vars PROVE IInv'
  OBVIOUS
<1>1. ASSUME NEW r \in HookRequests, Hook(r) PROVE IInv'
  <2>1. r \in Request /\ ResolveMode(r) \in Mode
    BY DispatcherAssumption DEF ResolveMode, Request, Mode
  <2>2. SpecOf(r, ResolveMode(r), "hook", NoJob) \in JobSpec
    BY <2>1, SpecOfType
  <2>3. SpecOf(r, ResolveMode(r), "hook", NoJob).source = NoJob
    BY DEF SpecOf
  <2> QED
    BY <1>1, <2>2, <2>3, CreateStep DEF Hook
<1>2. ASSUME NEW r \in OperatorRequests, OperatorRun(r) PROVE IInv'
  <2>1. r \in Request /\ r.mode \in Mode
    BY DispatcherAssumption DEF Request
  <2>2. SpecOf(r, r.mode, "operator", NoJob) \in JobSpec
    BY <2>1, SpecOfType
  <2>3. SpecOf(r, r.mode, "operator", NoJob).source = NoJob
    BY DEF SpecOf
  <2> QED
    BY <1>2, <2>2, <2>3, CreateStep DEF OperatorRun
<1>3. ASSUME NEW j \in JobIds, Approve(j) PROVE IInv'
  BY <1>3, DecideStep DEF Approve, Decidable, LoopFree
<1>4. ASSUME NEW j \in JobIds, Reject(j) PROVE IInv'
  BY <1>4, DecideStep DEF Reject, Decidable, LoopFree
<1>5. ASSUME NEW j \in JobIds, RecoverJob(j) PROVE IInv'
  BY <1>5, RecoverStep
<1>6. CASE CreateApply
  <2>1. deciding \in JobIds /\ spec[deciding] \in JobSpec
    BY <1>6 DEF CreateApply, TypeOK
  <2>2. SpecOf(spec[deciding], "auto", "apply", deciding) \in JobSpec
    BY <2>1 DEF SpecOf, JobSpec, Mode
  <2>3. SpecOf(spec[deciding], "auto", "apply", deciding).source = deciding
    BY DEF SpecOf
  <2> QED
    BY <1>6, <2>2, <2>3, CreateStep DEF CreateApply
<1>7. ASSUME NEW i \in Managed, InstanceStep(i) PROVE IInv'
  BY <1>7, QuietStep DEF InstanceStep, PauseInstance, ResumeInstance, DeleteInstance,
     CreateInstance
<1>8. CASE DispatchStep
  BY <1>8, SelectStep, ClaimStep, SubmitStep DEF DispatchStep
<1>9. ASSUME NEW t \in Threads, ThreadStep(t) PROVE IInv'
  BY <1>9, ThreadInvStep
<1>10. CASE Stop
  BY <1>10, QuietStep DEF Stop
<1>11. CASE Boot \/ Serve \/ Exit \/ Crash
  BY <1>11, ProcessStep
<1>12. CASE UNCHANGED vars
  BY <1>12, QuietStep DEF vars, rows, loop, exec, history
<1> QED
  BY <1>1, <1>2, <1>3, <1>4, <1>5, <1>6, <1>7, <1>8, <1>9, <1>10, <1>11, <1>12 DEF Next

\* The inductive invariant holds in every reachable state of the server.
THEOREM Invariant == Spec => [](TypeOK /\ IInv)
<1>1. Init => TypeOK /\ Located /\ IInv
  BY TypeInit, IInvInit DEF Init, Located
<1>2. TypeOK /\ Located /\ IInv /\ [Next]_vars => (TypeOK /\ Located /\ IInv)'
  BY TypeStep, LocatedStep, IInvStep
<1> QED
  BY <1>1, <1>2, PTL DEF Spec

\* "a job is never dispatched twice" (worker.py:6-7): the pool, the threads
\* and the submission under way never hold the same job twice.
THEOREM NeverTwice == Spec => []SingleExecution
<1>1. TypeOK /\ IInv => SingleExecution
  BY DEF IInv
<1> QED
  BY <1>1, Invariant, PTL

LEMMA HeldJobs ==
    ASSUME TypeOK, IInv, NEW t \in Threads, Holds(t)
    PROVE  on[t] \in Running
<1>1. pc[t] # "idle" /\ on[t] \in JobIds
  BY UsedIds DEF Holds, IInv, ThreadShape
<1> QED
  BY <1>1 DEF IInv, SlotsHeld, Running, HasStatus

\* "per-repo serialization for code-mutating deliverables" (worker.py:5):
\* two code-changing executions of one instance never overlap.
THEOREM SerialMutationsHold == Spec => []SerialMutations
<1>1. TypeOK /\ IInv => SerialMutations
  <2> SUFFICES ASSUME TypeOK, IInv, NEW t \in Threads, NEW u \in Threads,
                      Holds(t), Holds(u), t # u,
                      spec[on[t]].instance = spec[on[u]].instance,
                      spec[on[t]].deliverable \in Mutating,
                      spec[on[u]].deliverable \in Mutating
               PROVE  FALSE
    BY DEF SerialMutations
  <2>1. on[t] \in Running /\ on[u] \in Running
    BY HeldJobs
  <2>2. on[t] = on[u]
    BY <2>1 DEF IInv, NoConflict, Conflict
  <2> QED
    BY <2>2 DEF IInv, SingleExecution, Holds
<1> QED
  BY <1>1, Invariant, PTL

\* Turns of one chat session never execute together (worker.py:81-82).
THEOREM SerialSessionsHold == Spec => []SerialSessions
<1>1. TypeOK /\ IInv => SerialSessions
  <2> SUFFICES ASSUME TypeOK, IInv, NEW t \in Threads, NEW u \in Threads,
                      Holds(t), Holds(u), t # u,
                      spec[on[t]].session = spec[on[u]].session,
                      spec[on[t]].session # NoSession
               PROVE  FALSE
    BY DEF SerialSessions
  <2>1. on[t] \in Running /\ on[u] \in Running
    BY HeldJobs
  <2>2. on[t] = on[u]
    BY <2>1 DEF IInv, NoConflict, Conflict
  <2> QED
    BY <2>2 DEF IInv, SingleExecution, Holds
<1> QED
  BY <1>1, Invariant, PTL

\* The limit of concurrent jobs of an instance (worker.py:79), for every limit.
THEOREM LimitHolds == Spec => []ConcurrencyBound
<1>1. TypeOK /\ IInv => ConcurrencyBound
  BY DEF IInv
<1> QED
  BY <1>1, Invariant, PTL

\* While the server is up every running row has an owner, or its thread was
\* lost to one of the exceptions _run does not catch (worker.py:92-119).
THEOREM SlotsReturned == Spec => []NoLeakedSlot
<1>1. TypeOK /\ IInv => NoLeakedSlot
  BY DEF IInv
<1> QED
  BY <1>1, Invariant, PTL

\* The two stored copies of a status differ only inside claim_job's window
\* (store.py:253-260).
THEOREM CopiesAgreeHolds == Spec => []CopiesAgree
<1>1. TypeOK /\ IInv => CopiesAgree
  BY DEF IInv
<1> QED
  BY <1>1, Invariant, PTL
-----------------------------------------------------------------------------
(* The server implements the life cycle of JobLifecycle: the contract's    *)
(* variables are columns of the jobs table and the pushes, so the          *)
(* refinement mapping is the identity on them and forgets the threads, the *)
(* pool, the JSON copy of the status and the process.                      *)

\* The contract's vocabulary is the server's.
LEMMA SameWords ==
    /\ Lifecycle!JobIds = JobIds /\ Lifecycle!JobSpec = JobSpec
    /\ Lifecycle!Mutating = Mutating /\ Lifecycle!Pushing = Pushing
    /\ Lifecycle!Terminal = Terminal
    /\ \A s : Lifecycle!Parks(s) = Parks(s)
  BY DEF Lifecycle!JobIds, JobIds, Lifecycle!JobSpec, JobSpec, Lifecycle!Deliverable,
         Deliverable, Lifecycle!ReadOnly, ReadOnly, Lifecycle!Mutating, Mutating,
         Lifecycle!Mode, Mode, Lifecycle!NoJob, NoJob, Lifecycle!Pushing, Pushing,
         Lifecycle!Terminal, Terminal, Lifecycle!Parks, Parks

\* What a save of a running row can be in the contract.
LEMMA SavedRunning ==
    ASSUME TypeOK, IInv, NEW j \in JobIds, status[j] = "running", NEW s, SaveJob(j, s),
           pushes' = pushes,
           \/ s = "running"
           \/ s = "queued" /\ pushes[j] # 1
           \/ /\ s \in Terminal \cup {"awaiting_approval"}
              /\ s = "success" => ~Parks(spec[j])
              /\ s = "awaiting_approval" => Parks(spec[j])
    PROVE  [Lifecycle!LNext]_(Lifecycle!lifecycleVars)
<1>1. status' = [status EXCEPT ![j] = s] /\ spec' = spec /\ pushes' = pushes
  BY SaveEffect
<1>2. CASE s = "running"
  <2>1. status' = status
    BY <1>1, <1>2 DEF TypeOK
  <2> QED
    BY <1>1, <2>1 DEF Lifecycle!lifecycleVars
<1>3. CASE s = "queued" /\ pushes[j] # 1
  <2>1. pushes[j] = 0
    BY <1>3 DEF IInv, PushedOnce
  <2>2. Lifecycle!Requeue(j)
    BY <1>1, <1>3, <2>1 DEF Lifecycle!Requeue
  <2> QED
    BY <2>2, SameWords DEF Lifecycle!LNext
<1>4. CASE /\ s \in Terminal \cup {"awaiting_approval"}
           /\ s = "success" => ~Parks(spec[j])
           /\ s = "awaiting_approval" => Parks(spec[j])
  <2>1. Lifecycle!Conclude(j)
    BY <1>1, <1>4, SameWords DEF Lifecycle!Conclude
  <2> QED
    BY <2>1, SameWords DEF Lifecycle!LNext
<1> QED
  BY <1>2, <1>3, <1>4

LEMMA CreatedSubmits ==
    ASSUME TypeOK, IInv, NEW s \in JobSpec, CreateJob(s), pushes' = pushes,
           Lifecycle!Reviewed(s),
           s.origin = "apply" => s.source = deciding /\ deciding # NoJob
    PROVE  [Lifecycle!LNext]_(Lifecycle!lifecycleVars)
<1> DEFINE n == created + 1
<1>1. n \in JobIds /\ status[n] = "absent"
  BY JobModelAssumption DEF CreateJob, IInv, RowsUsed, TypeOK, JobIds
<1>2. s.origin = "apply" => Lifecycle!Approved(s)
  BY SameWords DEF IInv, ApplyLinks, TypeOK, NoJob, Lifecycle!Approved
<1>3. Lifecycle!Submit(n)
  BY <1>1, <1>2, SameWords DEF Lifecycle!Submit, CreateJob
<1> QED
  BY <1>1, <1>3, SameWords DEF Lifecycle!LNext

LEMMA DecidedDecides ==
    ASSUME TypeOK, IInv, NEW j \in JobIds, data[j] = "awaiting_approval",
           NEW s \in {"success", "rejected"}, SaveJob(j, s), pushes' = pushes
    PROVE  [Lifecycle!LNext]_(Lifecycle!lifecycleVars)
<1>1. status[j] = "awaiting_approval"
  BY DEF IInv, CopiesAgree
<1>2. status' = [status EXCEPT ![j] = s] /\ spec' = spec
  BY <1>1, SaveEffect
<1>3. Lifecycle!Decide(j)
  BY <1>1, <1>2 DEF Lifecycle!Decide
<1> QED
  BY <1>3, SameWords DEF Lifecycle!LNext

LEMMA ThreadRefines ==
    ASSUME TypeOK, IInv, NEW t \in Threads, ThreadStep(t)
    PROVE  [Lifecycle!LNext]_(Lifecycle!lifecycleVars)
<1>0. Holds(t) => on[t] \in JobIds /\ status[on[t]] = "running"
  BY HeldJobs DEF Running, HasStatus
<1>1. CASE \/ Start(t) \/ AuthMissing(t) \/ EngineFails(t) \/ EngineSucceeds(t)
           \/ Report(t) \/ StartRaises(t) \/ Escape(t)
  BY <1>1 DEF Start, AuthMissing, EngineFails, EngineSucceeds, Report, StartRaises,
              Escape, rows, history, Lifecycle!lifecycleVars
<1>2. CASE Enter(t)
  <2>1. PICK s \in {"running", "queued", "error"} : SaveJob(on[t], s)
    BY <1>2 DEF Enter
  <2>2. Holds(t) /\ pushes[on[t]] # 1 /\ pushes' = pushes
    BY <1>2, UsedIds DEF Enter, Holds, IInv, PushedOnce, ThreadShape, history
  <2> QED
    BY <1>0, <2>1, <2>2, SavedRunning DEF Terminal
<1>3. CASE Apply(t)
  <2>1. pc[t] = "apply" /\ Holds(t) /\ UNCHANGED <<spec, status>>
    BY <1>3 DEF Apply, Holds, rows
  <2>2. CASE UNCHANGED pushes
    BY <2>1, <2>2 DEF Lifecycle!lifecycleVars
  <2>3. CASE /\ spec[on[t]].deliverable \in Pushing
             /\ pushes' = [pushes EXCEPT ![on[t]] = @ + 1]
    <3>1. pushes[on[t]] = 0
      BY <1>0, <2>1 DEF IInv, PushedOnce
    <3>2. spec[on[t]].mode # "plan"
      BY <2>1 DEF IInv, ThreadShape, Parks
    <3>3. pushes' = [pushes EXCEPT ![on[t]] = 1]
      BY <2>3, <3>1
    <3>4. Lifecycle!Push(on[t])
      BY <1>0, <2>1, <2>3, <3>1, <3>2, <3>3, SameWords DEF Lifecycle!Push
    <3> QED
      BY <1>0, <2>1, <3>4, SameWords DEF Lifecycle!LNext
  <2> QED
    BY <1>3, <2>2, <2>3 DEF Apply
<1>4. CASE FinalSave(t)
  <2>1. /\ Holds(t) /\ SaveJob(on[t], mem[t]) /\ pushes' = pushes
        /\ mem[t] \in Terminal \cup {"running", "awaiting_approval"}
        /\ mem[t] = "success" => ~Parks(spec[on[t]])
        /\ mem[t] = "awaiting_approval" => Parks(spec[on[t]])
    BY <1>4 DEF FinalSave, Holds, IInv, ThreadShape, history
  <2> QED
    BY <1>0, <2>1, SavedRunning
<1>5. CASE Requeue(t)
  <2>1. /\ Holds(t) /\ SaveJob(on[t], "queued") /\ pushes' = pushes /\ pushes[on[t]] # 1
    BY <1>5, UsedIds DEF Requeue, Holds, IInv, PushedOnce, ThreadShape, history
  <2> QED
    BY <1>0, <2>1, SavedRunning
<1> QED
  BY <1>1, <1>2, <1>3, <1>4, <1>5 DEF ThreadStep

LEMMA DispatchRefines ==
    ASSUME TypeOK, IInv, DispatchStep
    PROVE  [Lifecycle!LNext]_(Lifecycle!lifecycleVars)
<1>1. CASE Scan \/ Pick
  BY <1>1 DEF Scan, Pick, rows, history, Lifecycle!lifecycleVars
<1>2. CASE Claim
  <2>1. cand \in JobIds
    BY <1>2, UsedIds DEF Claim, IInv, RowsUsed
  <2>2. CASE status[cand] = "queued"
    <3>1. Lifecycle!Dispatch(cand)
      BY <1>2, <2>2 DEF Claim, history, Lifecycle!Dispatch
    <3> QED
      BY <2>1, <3>1, SameWords DEF Lifecycle!LNext
  <2>3. CASE status[cand] # "queued"
    BY <1>2, <2>3 DEF Claim, history, Lifecycle!lifecycleVars
  <2> QED
    BY <2>2, <2>3
<1>3. CASE Submit
  <2>1. cand \in JobIds /\ status[cand] = "running" /\ pushes[cand] # 1 /\ pushes' = pushes
    BY <1>3, UsedIds DEF Submit, IInv, RowsUsed, SlotsHeld, PushedOnce, history
  <2>2. CASE UNCHANGED rows
    BY <2>1, <2>2 DEF rows, Lifecycle!lifecycleVars
  <2>3. CASE SaveJob(cand, "queued")
    BY <2>1, <2>3, SavedRunning
  <2> QED
    BY <1>3, <2>2, <2>3 DEF Submit
<1> QED
  BY <1>1, <1>2, <1>3 DEF DispatchStep

LEMMA RefinesStep ==
    TypeOK /\ IInv /\ [Next]_vars => [Lifecycle!LNext]_(Lifecycle!lifecycleVars)
<1> SUFFICES ASSUME TypeOK, IInv, [Next]_vars
             PROVE  [Lifecycle!LNext]_(Lifecycle!lifecycleVars)
  OBVIOUS
<1>1. ASSUME NEW r \in HookRequests, Hook(r)
      PROVE  [Lifecycle!LNext]_(Lifecycle!lifecycleVars)
  <2> DEFINE s == SpecOf(r, ResolveMode(r), "hook", NoJob)
  <2>1. r \in Request /\ ResolveMode(r) \in Mode
    BY DispatcherAssumption DEF ResolveMode, Request, Mode
  <2>2. s \in JobSpec
    BY <2>1, SpecOfType
  <2>3. s.origin = "hook" /\ Lifecycle!Reviewed(s)
    BY SameWords DEF SpecOf, ResolveMode, Lifecycle!Reviewed
  <2> HIDE DEF s
  <2> QED
    BY <1>1, <2>2, <2>3, CreatedSubmits DEF Hook, history, s
<1>2. ASSUME NEW r \in OperatorRequests, OperatorRun(r)
      PROVE  [Lifecycle!LNext]_(Lifecycle!lifecycleVars)
  <2> DEFINE s == SpecOf(r, r.mode, "operator", NoJob)
  <2>1. r \in Request /\ r.mode \in Mode
    BY DispatcherAssumption DEF Request
  <2>2. s \in JobSpec
    BY <2>1, SpecOfType
  <2>3. s.origin = "operator" /\ Lifecycle!Reviewed(s)
    BY DEF SpecOf, Lifecycle!Reviewed
  <2> HIDE DEF s
  <2> QED
    BY <1>2, <2>2, <2>3, CreatedSubmits DEF OperatorRun, history, s
<1>3. ASSUME NEW j \in JobIds, Approve(j) \/ Reject(j)
      PROVE  [Lifecycle!LNext]_(Lifecycle!lifecycleVars)
  BY <1>3, DecidedDecides DEF Approve, Reject, Decidable, history
<1>4. ASSUME NEW j \in JobIds, RecoverJob(j)
      PROVE  [Lifecycle!LNext]_(Lifecycle!lifecycleVars)
  <2>1. status[j] = "running"
    BY <1>4 DEF RecoverJob, IInv, PhaseShape, Running, HasStatus
  <2>2. pushes[j] = 1 => spec[j].deliverable \notin ReadOnly
    BY DEF IInv, PushedOnce, Mutating, ReadOnly
  <2> QED
    BY <1>4, <2>1, <2>2, SavedRunning DEF RecoverJob, history, Terminal
<1>5. CASE CreateApply
  <2> DEFINE s == SpecOf(spec[deciding], "auto", "apply", deciding)
  <2>1. deciding \in JobIds /\ deciding # NoJob /\ spec[deciding] \in JobSpec
    BY <1>5 DEF CreateApply, TypeOK
  <2>2. s \in JobSpec
    BY <2>1 DEF SpecOf, JobSpec, Mode
  <2>3. s.origin = "apply" /\ s.source = deciding /\ Lifecycle!Reviewed(s)
    BY DEF SpecOf, Lifecycle!Reviewed
  <2> HIDE DEF s
  <2> QED
    BY <1>5, <2>1, <2>2, <2>3, CreatedSubmits DEF CreateApply, history, s
<1>6. ASSUME NEW i \in Managed, InstanceStep(i)
      PROVE  [Lifecycle!LNext]_(Lifecycle!lifecycleVars)
  BY <1>6 DEF InstanceStep, PauseInstance, ResumeInstance, DeleteInstance,
              CreateInstance, rows, history, Lifecycle!lifecycleVars
<1>7. CASE DispatchStep
  BY <1>7, DispatchRefines
<1>8. ASSUME NEW t \in Threads, ThreadStep(t)
      PROVE  [Lifecycle!LNext]_(Lifecycle!lifecycleVars)
  BY <1>8, ThreadRefines
<1>9. CASE Boot \/ Serve \/ Stop \/ Exit \/ Crash \/ UNCHANGED vars
  BY <1>9 DEF Boot, Serve, Stop, Exit, Crash, Halt, vars, rows, history,
              Lifecycle!lifecycleVars
<1> QED
  BY <1>1, <1>2, <1>3, <1>4, <1>5, <1>6, <1>7, <1>8, <1>9 DEF Next

\* The server implements the life cycle of a job (store.py:154-195, 253-260,
\* 481-504; worker.py:57-119; runner.py:298-342, 908-911; server.py:469-501).
THEOREM Refinement == Spec => ImplementsLifecycle
<1>1. Init => Lifecycle!LInit
  BY BlankType, SameWords DEF Init, Lifecycle!LInit
<1>2. TypeOK /\ IInv /\ [Next]_vars => [Lifecycle!LNext]_(Lifecycle!lifecycleVars)
  BY RefinesStep
<1> QED
  BY <1>1, <1>2, Invariant, PTL DEF Spec, ImplementsLifecycle, Lifecycle!LSpec
-----------------------------------------------------------------------------
(* The table with the consoles.                                            *)

\* What a step of a console process on its job does, whichever it is.
LEMMA CliMoves ==
    ASSUME CTypeOK, ConsolesLocated, NEW c \in Clis,
           CliEnter(c) \/ CliWork(c) \/ CliReport(c) \/ CliKill(c)
    PROVE  /\ UNCHANGED <<phase, recover, loop, pool, exec, deciding, stuck, tuiVars>>
           /\ con[c] \in JobIds /\ cpc[c] # "idle"
           /\ UNCHANGED rows \/ \E s \in RowStatus : SaveJob(con[c], s)
           /\ \/ UNCHANGED pushes
              \/ cpc[c] = "apply" /\ pushes' = [pushes EXCEPT ![con[c]] = @ + 1]
           /\ config' \in [Instances -> ConfigState]
           /\ told' \in [JobIds -> SUBSET RowStatus]
           /\ cmem' \in [Clis -> RowStatus]
           /\ \/ Cli!Return(c)
              \/ /\ con' = con
                 /\ \E p \in ThreadPC : /\ cpc' = [cpc EXCEPT ![c] = p]
                                        /\ p = "apply" => Direct(con[c])
<1> USE DispatcherAssumption, StatusFacts
<1>0. /\ cpc \in [Clis -> ThreadPC] /\ con \in [Clis -> JobIds \cup {NoJob}]
      /\ cmem \in [Clis -> RowStatus] /\ config \in [Instances -> ConfigState]
      /\ told \in [JobIds -> SUBSET RowStatus]
  BY DEF CTypeOK, TypeOK
<1>1. cpc[c] # "idle" /\ con[c] \in JobIds
  BY DEF CliEnter, CliWork, CliReport, CliKill, Cli!AuthMissing, Cli!EngineFails,
     Cli!EngineSucceeds, Cli!Apply, Cli!FinalSave, ConsolesLocated
<1> USE <1>0, <1>1
<1>2. ASSUME NEW s \in RowStatus, Cli!Finish(c, s)
      PROVE  /\ cmem' \in [Clis -> RowStatus]
             /\ \E p \in ThreadPC : /\ cpc' = [cpc EXCEPT ![c] = p]
                                    /\ p = "apply" => Direct(con[c])
  BY <1>2 DEF Cli!Finish, Cli!Goto, ThreadPC
<1>3. ASSUME Cli!Return(c) PROVE cmem' \in [Clis -> RowStatus]
  BY <1>3 DEF Cli!Return
<1>4. CASE CliEnter(c)
  <2>1. CASE Cli!Return(c) /\ UNCHANGED rows
    BY <1>3, <1>4, <2>1 DEF CliEnter, server, loop, exec, history
  <2>2. CASE /\ SaveJob(con[c], "running") /\ cpc' = [cpc EXCEPT ![c] = "work"]
             /\ cmem' = [cmem EXCEPT ![c] = "running"] /\ UNCHANGED con
    <3>1. cmem' \in [Clis -> RowStatus] /\ "work" \in ThreadPC
      BY <2>2 DEF ThreadPC
    <3> QED
      BY <1>4, <2>2, <3>1 DEF CliEnter, server, loop, exec, history
  <2> QED
    BY <1>4, <2>1, <2>2 DEF CliEnter
<1>5. CASE CliWork(c)
  <2>1. CASE Cli!AuthMissing(c)
    <3>1. config' \in [Instances -> ConfigState]
      BY <2>1 DEF Cli!AuthMissing, Cli!SetConfig, ConfigState
    <3> QED
      BY <1>2, <1>5, <2>1, <3>1 DEF CliWork, Cli!AuthMissing, Cli!rows, Cli!loop,
         Cli!history, rows, loop, exec
  <2>2. CASE Cli!EngineFails(c)
    <3>1. config' \in [Instances -> ConfigState]
      BY <2>2 DEF Cli!EngineFails, Cli!SetConfig, ConfigState
    <3>2. PICK s \in RowStatus : Cli!Finish(c, s)
      BY <2>2 DEF Cli!EngineFails, Terminal
    <3> QED
      BY <1>2, <1>5, <2>2, <3>1, <3>2 DEF CliWork, Cli!EngineFails, Cli!rows, Cli!loop,
         Cli!history, rows, loop, exec
  <2>3. CASE Cli!EngineSucceeds(c)
    <3>1. UNCHANGED <<rows, config, phase, recover, loop, pool, exec, deciding, con,
                      pushes, told, stuck, tuiVars>>
      BY <1>5, <2>3 DEF CliWork, Cli!EngineSucceeds, Cli!rows, Cli!loop, Cli!history,
         rows, loop, exec
    <3>2. CASE \E s \in RowStatus : Cli!Finish(c, s)
      BY <1>2, <3>1, <3>2
    <3>3. CASE /\ spec[con[c]].deliverable \in Mutating /\ ~Parks(spec[con[c]])
               /\ Cli!Goto(c, "apply") /\ UNCHANGED cmem
      <4>1. "apply" \in ThreadPC /\ Direct(con[c]) /\ cpc' = [cpc EXCEPT ![c] = "apply"]
        BY <3>3 DEF ThreadPC, Direct, Cli!Goto
      <4> QED
        BY <3>1, <3>3, <4>1
    <3> QED
      BY <2>3, <3>2, <3>3 DEF Cli!EngineSucceeds, Cli!Parks, Parks, Cli!ReadOnly,
         Cli!Mutating, ReadOnly, Mutating, Terminal
  <2>4. CASE Cli!Apply(c)
    <3>1. PICK s \in RowStatus : Cli!Finish(c, s)
      BY <2>4 DEF Cli!Apply, Terminal
    <3> QED
      BY <1>2, <1>5, <2>4, <3>1 DEF CliWork, Cli!Apply, Cli!rows, Cli!loop, rows, loop, exec
  <2>5. CASE Cli!FinalSave(c)
    <3>1. SaveJob(con[c], cmem[c]) /\ cmem[c] \in RowStatus
      BY <2>5 DEF Cli!FinalSave, Cli!SaveJob, SaveJob
    <3>2. cpc' = [cpc EXCEPT ![c] = "report"] /\ "report" \in ThreadPC
      BY <2>5 DEF Cli!FinalSave, Cli!Goto, ThreadPC
    <3> QED
      BY <1>5, <2>5, <3>1, <3>2 DEF CliWork, Cli!FinalSave, Cli!loop, Cli!history, loop, exec
  <2> QED
    BY <1>5, <2>1, <2>2, <2>3, <2>4, <2>5 DEF CliWork
<1>6. CASE CliReport(c)
  <2>1. told' \in [JobIds -> SUBSET RowStatus]
    <3>1. told[con[c]] \cup {cmem[c]} \in SUBSET RowStatus
      OBVIOUS
    <3> QED
      BY <1>6, <3>1 DEF CliReport
  <2> QED
    BY <1>3, <1>6, <2>1 DEF CliReport, server, loop, exec
<1>7. CASE CliKill(c)
  BY <1>3, <1>7 DEF CliKill, server, loop, exec, history
<1> QED
  BY <1>4, <1>5, <1>6, <1>7

\* What an action of the TUI, or a deletion, does.
LEMMA TuiMoves ==
    ASSUME CTypeOK, ConsolesLocated, TuiStep \/ TuiApprove
    PROVE  /\ UNCHANGED <<created, spec, config, phase, recover, loop, pool, exec,
                          deciding, history, cliVars>>
           /\ \/ \E j \in JobIds : OpenPage(j)
              \/ \E s \in {"queued", "rejected", "interrupted"} :
                    /\ SaveJob(page, s) /\ ClosePage /\ page \in JobIds
                    /\ s # "interrupted" => pageMem = "awaiting_approval"
              \/ \E S \in SUBSET JobIds : DeleteRows(S) /\ UNCHANGED tuiVars
<1>1. CASE \E j \in JobIds : OpenPage(j)
  BY <1>1 DEF OpenPage, rows, server
<1>2. CASE \E j \in JobIds : DeleteJob(j)
  <2>1. PICK j \in JobIds : DeleteJob(j)
    BY <1>2
  <2>2. {j} \in SUBSET JobIds
    OBVIOUS
  <2> QED
    BY <2>1, <2>2 DEF DeleteJob, DeleteRows, server
<1>3. CASE \E s \in Sessions : DeleteSession(s)
  <2>1. PICK s \in Sessions : DeleteSession(s)
    BY <1>3
  <2>2. {j \in JobIds : spec[j].session = s} \in SUBSET JobIds
    OBVIOUS
  <2> QED
    BY <2>1, <2>2 DEF DeleteSession, DeleteRows, server
<1>4. CASE TuiEdit \/ TuiApprove \/ TuiReject \/ TuiCancel
  BY <1>4 DEF TuiEdit, TuiApprove, TuiReject, TuiCancel, ConsolesLocated, SaveJob, server
<1> QED
  BY <1>1, <1>2, <1>3, <1>4 DEF TuiStep

LEMMA NoteKeeps ==
    ASSUME CTypeOK, NEW how \in {"tui", "other"}, NoteReview(how)
    PROVE  /\ review' \in [JobIds -> {"none", "tui", "other"}]
           /\ \A j \in JobIds : review[j] # "none" => review'[j] # "none"
           /\ \A j \in JobIds :
                 status[j] = "awaiting_approval" /\ status'[j] # "awaiting_approval" =>
                    review'[j] # "none"
  BY DEF NoteReview, Leaves, CTypeOK

LEMMA CliTypeStep ==
    ASSUME CTypeOK, Located, ConsolesLocated, NEW c \in Clis, CliStep(c),
           NoteReview("other")
    PROVE  CTypeOK' /\ Located' /\ ConsolesLocated'
<1> USE DispatcherAssumption, StatusFacts
<1>0. TypeOK /\ review' \in [JobIds -> {"none", "tui", "other"}]
  BY NoteKeeps DEF CTypeOK
<1>1. ASSUME NEW r \in OperatorRequests, CliCreate(c, r)
      PROVE  CTypeOK' /\ Located' /\ ConsolesLocated'
  <2>1. SpecOf(r, r.mode, "operator", NoJob) \in JobSpec
    BY SpecOfType DEF Request
  <2>2. TypeOK'
    BY <1>0, <1>1, <2>1, CreateJobType DEF CliCreate, TypeOK, server, loop, exec, history
  <2>3. created + 1 \in JobIds
    BY <1>0, <1>1, JobModelAssumption DEF CliCreate, CreateJob, TypeOK, JobIds
  <2>4. /\ cpc' \in [Clis -> ThreadPC] /\ con' \in [Clis -> JobIds \cup {NoJob}]
        /\ cmem' \in [Clis -> RowStatus]
    BY <1>1, <2>3 DEF CliCreate, ThreadPC, CTypeOK
  <2>5. \A b \in Clis : cpc'[b] # "idle" => con'[b] \in JobIds
    BY <1>1, <2>3 DEF CliCreate, ConsolesLocated, CTypeOK
  <2> QED
    BY <1>0, <1>1, <2>2, <2>4, <2>5 DEF CliCreate, CTypeOK, Located, ConsolesLocated,
       server, loop, exec, tuiVars
<1>2. CASE CliEnter(c) \/ CliWork(c) \/ CliReport(c) \/ CliKill(c)
  <2>1. /\ status' \in [JobIds -> RowStatus] /\ data' \in [JobIds -> RowStatus]
        /\ created' = created /\ spec' = spec
    BY <1>0, <1>2, CliMoves, SaveJobType DEF TypeOK, rows
  <2>2. pushes' \in [JobIds -> Nat]
    <3>1. con[c] \in JobIds /\ pushes \in [JobIds -> Nat]
      BY <1>0, <1>2, CliMoves DEF TypeOK
    <3>2. pushes' = pushes \/ pushes' = [pushes EXCEPT ![con[c]] = @ + 1]
      BY <1>2, CliMoves
    <3> QED
      BY <3>1, <3>2
  <2>3. TypeOK'
    BY <1>0, <1>2, <2>1, <2>2, CliMoves DEF TypeOK, loop, exec
  <2>4. /\ cpc' \in [Clis -> ThreadPC] /\ con' \in [Clis -> JobIds \cup {NoJob}]
        /\ \A b \in Clis : cpc'[b] # "idle" => con'[b] \in JobIds
    <3>1. CASE Cli!Return(c)
      BY <3>1 DEF Cli!Return, Cli!Goto, Cli!NoJob, NoJob, ThreadPC, ConsolesLocated, CTypeOK
    <3>2. CASE con' = con /\ \E p \in ThreadPC : cpc' = [cpc EXCEPT ![c] = p]
      <4>1. con[c] \in JobIds
        BY <1>2, CliMoves
      <4> QED
        BY <3>2, <4>1 DEF ConsolesLocated, CTypeOK
    <3> QED
      BY <1>2, <3>1, <3>2, CliMoves
  <2> QED
    BY <1>0, <1>2, <2>3, <2>4, CliMoves DEF CTypeOK, Located, ConsolesLocated,
       loop, exec, tuiVars
<1> QED
  BY <1>1, <1>2 DEF CliStep

LEMMA TuiTypeStep ==
    ASSUME CTypeOK, Located, ConsolesLocated, TuiStep \/ TuiApprove,
           NEW how \in {"tui", "other"}, NoteReview(how)
    PROVE  CTypeOK' /\ Located' /\ ConsolesLocated'
<1>0. TypeOK /\ review' \in [JobIds -> {"none", "tui", "other"}]
  BY NoteKeeps DEF CTypeOK
<1>1. /\ status' \in [JobIds -> RowStatus] /\ data' \in [JobIds -> RowStatus]
      /\ page' \in JobIds \cup {NoJob} /\ pageMem' \in RowStatus
      /\ pageMem' # "absent" => page' \in JobIds
  <2>1. CASE \E j \in JobIds : OpenPage(j)
    BY <1>0, <2>1 DEF OpenPage, TypeOK, rows
  <2>2. CASE \E s \in {"queued", "rejected", "interrupted"} : SaveJob(page, s) /\ ClosePage
    BY <1>0, <2>2, StatusFacts, SaveJobType DEF ClosePage, Terminal
  <2>3. CASE \E S \in SUBSET JobIds : DeleteRows(S) /\ UNCHANGED tuiVars
    BY <1>0, <2>3, StatusFacts DEF DeleteRows, TypeOK, tuiVars, CTypeOK, ConsolesLocated
  <2> QED
    BY <2>1, <2>2, <2>3, TuiMoves
<1>2. UNCHANGED <<created, spec, config, phase, recover, loop, pool, exec, deciding,
                  history, cliVars>>
  BY TuiMoves
<1>3. TypeOK'
  BY <1>0, <1>1, <1>2 DEF TypeOK, loop, exec, history
<1> QED
  BY <1>0, <1>1, <1>2, <1>3 DEF CTypeOK, Located, ConsolesLocated, loop, exec, cliVars

LEMMA CTypeStep ==
    CTypeOK /\ Located /\ ConsolesLocated /\ [CNext]_consoleVars
        => (CTypeOK /\ Located /\ ConsolesLocated)'
<1> SUFFICES ASSUME CTypeOK, Located, ConsolesLocated, [CNext]_consoleVars
             PROVE  CTypeOK' /\ Located' /\ ConsolesLocated'
  OBVIOUS
<1>1. CASE Next /\ UNCHANGED <<cliVars, tuiVars>> /\ NoteReview("other")
  <2>1. TypeOK' /\ Located'
    BY <1>1, TypeStep, LocatedStep DEF CTypeOK
  <2> QED
    BY <1>1, <2>1, NoteKeeps DEF CTypeOK, ConsolesLocated, cliVars, tuiVars
<1>2. ASSUME NEW c \in Clis, CliStep(c), NoteReview("other")
      PROVE  CTypeOK' /\ Located' /\ ConsolesLocated'
  BY <1>2, CliTypeStep
<1>3. CASE (TuiStep /\ NoteReview("other")) \/ (TuiApprove /\ NoteReview("tui"))
  BY <1>3, TuiTypeStep
<1>4. CASE UNCHANGED consoleVars
  BY <1>4 DEF consoleVars, vars, CTypeOK, TypeOK, Located, ConsolesLocated
<1>5. CASE CNext
  <2>1. CASE NoteReview("other") /\ \E c \in Clis : CliStep(c)
    BY <1>2, <2>1
  <2> QED
    BY <1>1, <1>3, <1>5, <2>1 DEF CNext
<1> QED
  BY <1>4, <1>5

LEMMA CTypeInit == CInit => CTypeOK /\ Located /\ ConsolesLocated
<1> SUFFICES ASSUME CInit PROVE CTypeOK /\ Located /\ ConsolesLocated
  OBVIOUS
<1>1. TypeOK /\ Located
  BY TypeInit DEF CInit, Init, Located
<1>2. cpc \in [Clis -> ThreadPC] /\ cmem \in [Clis -> RowStatus]
  BY StatusFacts DEF CInit, ThreadPC
<1>3. ConsolesLocated
  BY DEF CInit, ConsolesLocated
<1> QED
  BY <1>1, <1>2, <1>3, StatusFacts DEF CInit, CTypeOK

\* The consoles keep every variable in its type too: a console process and
\* the TUI only ever work on jobs that exist, or existed.
THEOREM ConsolesTypeCorrect == CSpec => []CTypeOK
<1>1. CInit => CTypeOK /\ Located /\ ConsolesLocated
  BY CTypeInit
<1>2. CTypeOK /\ Located /\ ConsolesLocated /\ [CNext]_consoleVars
          => (CTypeOK /\ Located /\ ConsolesLocated)'
  BY CTypeStep
<1> QED
  BY <1>1, <1>2, PTL DEF CSpec
-----------------------------------------------------------------------------
(* What stays true of the rows and of the pushes whatever the consoles do. *)

\* A step that creates no job keeps the review invariant if it leaves absent
\* rows absent, writes both copies, and applies and pushes no plan.
LEMMA ReviewKept ==
    ASSUME CTypeOK, ReviewInv, CTypeOK', NEW how \in {"tui", "other"}, NoteReview(how),
           created' = created, spec' = spec,
           \A j \in JobIds : \/ status'[j] = data'[j]
                             \/ status'[j] = "running" /\ data'[j] = "queued",
           \A j \in JobIds : status[j] = "absent" => status'[j] = "absent",
           \/ pushes' = pushes
           \/ \E j \in 1..created : Direct(j) /\ pushes' = [pushes EXCEPT ![j] = @ + 1],
           \A t \in Threads : pc'[t] # "idle" =>
              on'[t] \in 1..created /\ (pc'[t] = "apply" => Direct(on'[t])),
           \A c \in Clis : cpc'[c] # "idle" =>
              con'[c] \in 1..created /\ (cpc'[c] = "apply" => Direct(con'[c])),
           deciding' # NoJob => deciding' \in 1..created /\ review'[deciding'] # "none"
    PROVE  ReviewInv'
<1>0. created \in Nat /\ 1..created \subseteq JobIds /\ pushes \in [JobIds -> Nat]
  BY UsedIds DEF CTypeOK, TypeOK
<1>1. \A j \in JobIds : Direct(j)' <=> Direct(j)
  BY DEF Direct, Parks
<1>2. \A j \in JobIds : /\ j > created => pushes'[j] = 0
                        /\ pushes'[j] > 0 => Direct(j)
  <2>1. CASE pushes' = pushes
    BY <2>1 DEF ReviewInv, Unused, NoPlanApplied
  <2>2. ASSUME NEW j \in 1..created, Direct(j), pushes' = [pushes EXCEPT ![j] = @ + 1]
        PROVE  \A k \in JobIds : /\ k > created => pushes'[k] = 0
                                 /\ pushes'[k] > 0 => Direct(k)
    <3>1. \A k \in JobIds : k # j => pushes'[k] = pushes[k]
      BY <1>0, <2>2
    <3> QED
      BY <1>0, <2>2, <3>1 DEF ReviewInv, Unused, NoPlanApplied
  <2> QED
    BY <2>1, <2>2
<1>3. Unused'
  <2>1. \A j \in JobIds : j > created' =>
           status'[j] = "absent" /\ spec'[j] = Blank /\ pushes'[j] = 0
    <3> SUFFICES ASSUME NEW j \in JobIds, j > created
                 PROVE  status'[j] = "absent" /\ spec'[j] = Blank /\ pushes'[j] = 0
      OBVIOUS
    <3>1. status[j] = "absent" /\ spec[j] = Blank
      BY DEF ReviewInv, Unused
    <3> QED
      BY <1>2, <3>1
  <2>2. \A t \in Threads : pc'[t] # "idle" => on'[t] \in 1..created'
    OBVIOUS
  <2>3. \A c \in Clis : cpc'[c] # "idle" => con'[c] \in 1..created'
    OBVIOUS
  <2>4. deciding' # NoJob => deciding' \in 1..created'
    OBVIOUS
  <2> QED
    BY <2>1, <2>2, <2>3, <2>4 DEF Unused
<1>4. NoPlanApplied'
  <2>1. \A t \in Threads : pc'[t] = "apply" => Direct(on[t])'
    BY DEF Direct, Parks
  <2>2. \A c \in Clis : cpc'[c] = "apply" => Direct(con[c])'
    BY DEF Direct, Parks
  <2>3. \A j \in JobIds : pushes'[j] > 0 => Direct(j)'
    BY <1>1, <1>2
  <2> QED
    BY <2>1, <2>2, <2>3 DEF NoPlanApplied
<1>5. DirectOrigins'
  <2>1. \A j \in JobIds :
           /\ spec[j].origin = "hook" /\ Direct(j) => spec[j].instance \in AutoApply
           /\ spec[j].origin = "apply" =>
                 spec[j].source \in JobIds /\ review'[spec[j].source] # "none"
    BY NoteKeeps DEF ReviewInv, DirectOrigins
  <2> QED
    BY <1>1, <2>1 DEF DirectOrigins
<1> QED
  BY <1>3, <1>4, <1>5 DEF ReviewInv, CopiesAgree

LEMMA ReviewCreated ==
    ASSUME CTypeOK, ReviewInv, NEW s \in JobSpec, CreateJob(s), NoteReview("other"),
           s.origin = "hook" /\ s.deliverable \in Mutating /\ ~Parks(s)
              => s.instance \in AutoApply,
           s.origin = "apply" => s.source \in JobIds /\ review[s.source] # "none",
           UNCHANGED <<exec, history>>, deciding' \in {deciding, NoJob},
           \A c \in Clis : cpc'[c] # "idle" =>
              \/ cpc[c] # "idle" /\ cpc'[c] = cpc[c] /\ con'[c] = con[c]
              \/ cpc'[c] = "enter" /\ con'[c] = created + 1
    PROVE  ReviewInv'
<1> DEFINE n == created + 1
<1>1. /\ created \in Nat /\ n \in JobIds /\ created' = n /\ n \in 1..n
      /\ \A j : j \in 1..created => j \in JobIds /\ j # n /\ j \in 1..n
      /\ pushes' = pushes
  BY JobModelAssumption, UsedIds DEF CreateJob, CTypeOK, TypeOK, JobIds, history
<1>2. /\ status'[n] = "queued" /\ data'[n] = "queued" /\ spec'[n] = s
      /\ \A j \in JobIds : j # n =>
            status'[j] = status[j] /\ data'[j] = data[j] /\ spec'[j] = spec[j]
  BY <1>1 DEF CreateJob, CTypeOK, TypeOK
<1>3. pushes[n] = 0
  BY <1>1 DEF ReviewInv, Unused
<1>4. \A j \in JobIds : j # n => Direct(j)' = Direct(j)
  BY <1>2 DEF Direct, Parks
<1>5. \A j \in JobIds : j > n => j > created /\ j # n
  BY <1>1 DEF JobIds
<1>6. Unused'
  BY <1>1, <1>2, <1>5 DEF ReviewInv, Unused, exec
<1>7. NoPlanApplied'
  <2>1. \A t \in Threads : pc'[t] = "apply" => Direct(on[t])'
    BY <1>1, <1>2 DEF ReviewInv, Unused, NoPlanApplied, Direct, Parks, exec
  <2>2. \A c \in Clis : cpc'[c] = "apply" => Direct(con[c])'
    BY <1>1, <1>2 DEF ReviewInv, Unused, NoPlanApplied, Direct, Parks
  <2>3. \A j \in JobIds : pushes'[j] > 0 => Direct(j)'
    BY <1>1, <1>3, <1>4 DEF ReviewInv, NoPlanApplied
  <2> QED
    BY <2>1, <2>2, <2>3 DEF NoPlanApplied
<1>8. DirectOrigins'
  <2>1. \A j \in JobIds : j # n =>
           /\ spec'[j].origin = "hook" /\ Direct(j)' => spec'[j].instance \in AutoApply
           /\ spec'[j].origin = "apply" =>
                 spec'[j].source \in JobIds /\ review'[spec'[j].source] # "none"
    BY <1>2, <1>4, NoteKeeps DEF ReviewInv, DirectOrigins
  <2>2. /\ s.origin = "hook" /\ s.deliverable \in Mutating /\ ~Parks(s)
              => s.instance \in AutoApply
        /\ s.origin = "apply" => s.source \in JobIds /\ review'[s.source] # "none"
    BY NoteKeeps
  <2>2a. \A j \in JobIds : j = n =>
            (Direct(j)' <=> (s.deliverable \in Mutating /\ ~Parks(s)))
    BY <1>1, <1>2 DEF Direct, Parks
  <2>3. deciding' # NoJob => review'[deciding'] # "none"
    BY <1>1, NoteKeeps DEF ReviewInv, DirectOrigins, Unused
  <2> QED
    BY <1>2, <2>1, <2>2, <2>2a, <2>3 DEF DirectOrigins
<1>9. CopiesAgree'
  BY <1>2 DEF ReviewInv, CopiesAgree
<1> QED
  BY <1>6, <1>7, <1>8, <1>9 DEF ReviewInv

\* What a step of a pool thread does to its job, whichever it is.
LEMMA ThreadMoves ==
    ASSUME TypeOK, Located, NEW t \in Threads, ThreadStep(t)
    PROVE  /\ UNCHANGED <<created, spec, deciding>>
           /\ UNCHANGED rows \/ \E s \in RowStatus : on[t] \in JobIds /\ SaveJob(on[t], s)
           /\ \/ UNCHANGED pushes
              \/ pc[t] = "apply" /\ pushes' = [pushes EXCEPT ![on[t]] = @ + 1]
           /\ \A u \in Threads : u # t => pc'[u] = pc[u] /\ on'[u] = on[u]
           /\ \/ pc'[t] = "idle"
              \/ /\ pc[t] # "idle" /\ on'[t] = on[t]
                 /\ pc'[t] = "apply" => Direct(on[t])
              \/ /\ pc'[t] = "enter" /\ on'[t] \in JobIds
                 /\ status[on'[t]] # "absent"
<1> USE StatusFacts
<1>0. /\ pc \in [Threads -> ThreadPC] /\ on \in [Threads -> JobIds \cup {NoJob}]
      /\ mem \in [Threads -> RowStatus]
      /\ pc[t] # "idle" => on[t] \in JobIds
  BY DEF TypeOK, Located
<1>1. CASE Start(t)
  <2>1. Head(pool) \in JobIds
    BY <1>1 DEF Start, TypeOK
  <2> QED
    BY <1>0, <1>1, <2>1 DEF Start, Goto, rows, exec, history
<1>2. CASE Enter(t)
  BY <1>0, <1>2 DEF Enter, Goto, Return, SaveJob, history, Terminal
<1>3. CASE AuthMissing(t) \/ EngineFails(t) \/ Report(t)
  BY <1>0, <1>3 DEF AuthMissing, EngineFails, Report, Finish, Goto, Return, rows, history
<1>4. CASE EngineSucceeds(t)
  BY <1>0, <1>4 DEF EngineSucceeds, Finish, Goto, Direct, rows, history
<1>5. CASE Apply(t)
  BY <1>0, <1>5 DEF Apply, Finish, Goto, rows
<1>6. CASE FinalSave(t)
  BY <1>0, <1>6 DEF FinalSave, Goto, SaveJob, history
<1>7. CASE Requeue(t)
  BY <1>0, <1>7 DEF Requeue, Goto, Return, SaveJob, history
<1>8. CASE StartRaises(t)
  BY <1>0, <1>8 DEF StartRaises, rows, exec
<1>9. CASE Escape(t)
  BY <1>0, <1>9 DEF Escape, Goto, Return, rows
<1> QED
  BY <1>1, <1>2, <1>3, <1>4, <1>5, <1>6, <1>7, <1>8, <1>9 DEF ThreadStep

LEMMA SaveRows ==
    ASSUME TypeOK, CopiesAgree, NEW j \in JobIds, NEW s, SaveJob(j, s)
    PROVE  /\ created' = created /\ spec' = spec
           /\ \A k \in JobIds : \/ status'[k] = data'[k]
                                \/ status'[k] = "running" /\ data'[k] = "queued"
           /\ \A k \in JobIds : status[k] = "absent" => status'[k] = "absent"
  BY DEF SaveJob, TypeOK, CopiesAgree

LEMMA SameRows ==
    ASSUME TypeOK, CopiesAgree, UNCHANGED rows
    PROVE  /\ created' = created /\ spec' = spec
           /\ \A k \in JobIds : \/ status'[k] = data'[k]
                                \/ status'[k] = "running" /\ data'[k] = "queued"
           /\ \A k \in JobIds : status[k] = "absent" => status'[k] = "absent"
  BY DEF rows, CopiesAgree

\* Where threads and console processes stand still, they meet the invariant.
LEMMA ReviewStill ==
    ASSUME ReviewInv
    PROVE  /\ \A t \in Threads : pc[t] # "idle" =>
                 on[t] \in 1..created /\ (pc[t] = "apply" => Direct(on[t]))
           /\ \A c \in Clis : cpc[c] # "idle" =>
                 con[c] \in 1..created /\ (cpc[c] = "apply" => Direct(con[c]))
  BY DEF ReviewInv, Unused, NoPlanApplied

LEMMA ReviewDeciding ==
    ASSUME CTypeOK, ReviewInv, NEW how \in {"tui", "other"}, NoteReview(how)
    PROVE  deciding # NoJob => deciding \in 1..created /\ review'[deciding] # "none"
<1> SUFFICES ASSUME deciding # NoJob PROVE deciding \in 1..created /\ review'[deciding] # "none"
  OBVIOUS
<1>1. deciding \in 1..created /\ deciding \in JobIds
  BY DEF ReviewInv, Unused, CTypeOK, TypeOK
<1> QED
  BY <1>1, NoteKeeps DEF ReviewInv, DirectOrigins
LEMMA ReviewServerStep ==
    ASSUME CTypeOK, Located, ReviewInv, CTypeOK',
           Next, UNCHANGED <<cliVars, tuiVars>>, NoteReview("other")
    PROVE  ReviewInv'
<1>0. TypeOK /\ CopiesAgree /\ created \in Nat /\ 1..created \subseteq JobIds
  BY UsedIds DEF CTypeOK, ReviewInv
<1>1. ASSUME NEW s \in JobSpec, CreateJob(s), UNCHANGED <<exec, history>>,
             deciding' \in {deciding, NoJob},
             s.origin = "hook" /\ s.deliverable \in Mutating /\ ~Parks(s)
                => s.instance \in AutoApply,
             s.origin = "apply" => s.source \in JobIds /\ review[s.source] # "none"
      PROVE  ReviewInv'
  BY <1>1, ReviewCreated DEF cliVars
<1>2. ASSUME NEW r \in HookRequests, Hook(r) PROVE ReviewInv'
  <2>1. r \in Request /\ ResolveMode(r) \in Mode
    BY DispatcherAssumption DEF ResolveMode, Request, Mode
  <2>2. SpecOf(r, ResolveMode(r), "hook", NoJob) \in JobSpec
    BY <2>1, SpecOfType
  <2>3. r.deliverable \in Mutating /\ ResolveMode(r) # "plan" => r.instance \in AutoApply
    BY DEF ResolveMode
  <2> QED
    BY <1>1, <1>2, <2>2, <2>3 DEF Hook, SpecOf, Parks
<1>3. ASSUME NEW r \in OperatorRequests, OperatorRun(r) PROVE ReviewInv'
  <2>1. r \in Request /\ r.mode \in Mode
    BY DispatcherAssumption DEF Request
  <2>2. SpecOf(r, r.mode, "operator", NoJob) \in JobSpec
    BY <2>1, SpecOfType
  <2> QED
    BY <1>1, <1>3, <2>2 DEF OperatorRun, SpecOf
<1>4. CASE CreateApply
  <2>1. /\ deciding \in JobIds /\ spec[deciding] \in JobSpec
        /\ review[deciding] # "none"
    BY <1>0, <1>4 DEF CreateApply, TypeOK, ReviewInv, DirectOrigins
  <2>2. SpecOf(spec[deciding], "auto", "apply", deciding) \in JobSpec
    BY <2>1 DEF SpecOf, JobSpec, Mode
  <2> QED
    BY <1>1, <1>4, <2>1, <2>2 DEF CreateApply, SpecOf
<1>5. ASSUME NEW j \in JobIds, Approve(j) \/ Reject(j) \/ RecoverJob(j)
      PROVE  ReviewInv'
  <2>1. PICK s \in RowStatus : SaveJob(j, s)
    BY <1>5, StatusFacts DEF Approve, Reject, RecoverJob, Terminal
  <2>2. UNCHANGED <<exec, history>>
    BY <1>5 DEF Approve, Reject, RecoverJob
  <2>3. deciding' # NoJob => deciding' \in 1..created /\ review'[deciding'] # "none"
    <3>1. CASE Approve(j)
      <4>1. /\ status[j] = "awaiting_approval" /\ deciding' = j
            /\ status' = [status EXCEPT ![j] = "success"]
        BY <1>0, <3>1 DEF Approve, Decidable, CopiesAgree, SaveJob
      <4>2. review'[j] # "none"
        BY <1>0, <4>1, NoteKeeps DEF TypeOK
      <4>3. j \in 1..created
        BY <1>0, <4>1, JobFacts DEF ReviewInv, Unused
      <4> QED
        BY <4>1, <4>2, <4>3
    <3>2. CASE deciding' = deciding
      BY <3>2, ReviewDeciding
    <3> QED
      BY <1>5, <3>1, <3>2 DEF Reject, RecoverJob
  <2> QED
    BY <1>0, <2>1, <2>2, <2>3, SaveRows, ReviewKept, ReviewStill DEF exec, history, cliVars
<1>6. ASSUME NEW t \in Threads, ThreadStep(t) PROVE ReviewInv'
  <2>1. /\ created' = created /\ spec' = spec
        /\ \A k \in JobIds : status'[k] = data'[k] \/ (status'[k] = "running" /\ data'[k] = "queued")
        /\ \A k \in JobIds : status[k] = "absent" => status'[k] = "absent"
    BY <1>0, <1>6, ThreadMoves, SaveRows, SameRows
  <2>2. \A u \in Threads : pc'[u] # "idle" =>
           on'[u] \in 1..created /\ (pc'[u] = "apply" => Direct(on'[u]))
    <3>1. \A u \in Threads : u # t => pc'[u] = pc[u] /\ on'[u] = on[u]
      BY <1>0, <1>6, ThreadMoves
    <3>2. CASE pc'[t] = "enter" /\ on'[t] \in JobIds /\ status[on'[t]] # "absent"
      <4>1. PICK j \in JobIds : j = on'[t] /\ status[j] # "absent"
        BY <3>2
      <4>2. j \in 1..created
        BY <1>0, <4>1, JobFacts DEF ReviewInv, Unused
      <4> QED
        BY <3>1, <3>2, <4>1, <4>2, ReviewStill
    <3> QED
      BY <1>0, <1>6, <3>1, <3>2, ThreadMoves, ReviewStill
  <2>3. \/ pushes' = pushes
        \/ \E j \in 1..created : Direct(j) /\ pushes' = [pushes EXCEPT ![j] = @ + 1]
    BY <1>0, <1>6, ThreadMoves, ReviewStill
  <2>4. deciding' # NoJob => deciding' \in 1..created /\ review'[deciding'] # "none"
    BY <1>0, <1>6, ThreadMoves, ReviewDeciding
  <2> QED
    BY <2>1, <2>2, <2>3, <2>4, ReviewKept, ReviewStill DEF cliVars
<1>7. CASE Claim \/ Submit
  <2>1. /\ created' = created /\ spec' = spec
        /\ \A k \in JobIds : status'[k] = data'[k] \/ (status'[k] = "running" /\ data'[k] = "queued")
        /\ \A k \in JobIds : status[k] = "absent" => status'[k] = "absent"
    <3>1. CASE Claim
      BY <1>0, <3>1 DEF Claim, CopiesAgree, TypeOK
    <3>2. CASE Submit
      <4>1. cand \in JobIds
        BY <3>2 DEF Submit, Located
      <4> QED
        BY <1>0, <3>2, <4>1, SaveRows, SameRows DEF Submit
    <3> QED
      BY <1>7, <3>1, <3>2
  <2>2. UNCHANGED <<exec, history, deciding>>
    BY <1>7 DEF Claim, Submit
  <2> QED
    BY <2>1, <2>2, ReviewKept, ReviewStill, ReviewDeciding DEF exec, history, cliVars
<1>8. ASSUME UNCHANGED <<rows, exec, deciding, history>> PROVE ReviewInv'
  BY <1>0, <1>8, SameRows, ReviewKept, ReviewStill, ReviewDeciding DEF exec, history, cliVars
<1>9. CASE Halt
  BY <1>0, <1>9, SameRows, ReviewKept, ReviewStill DEF Halt, history, cliVars
<1>10. ASSUME NEW i \in Managed, InstanceStep(i) PROVE ReviewInv'
  BY <1>8, <1>10 DEF InstanceStep, PauseInstance, ResumeInstance, DeleteInstance, CreateInstance
<1>11. CASE Scan \/ Pick \/ Boot \/ Serve \/ Stop
  BY <1>8, <1>11 DEF Scan, Pick, Boot, Serve, Stop
<1> QED
  BY <1>2, <1>3, <1>4, <1>5, <1>6, <1>7, <1>9, <1>10, <1>11 DEF Next, DispatchStep, Exit, Crash

LEMMA ReviewCliStep ==
    ASSUME CTypeOK, ConsolesLocated, ReviewInv, CTypeOK',
           NEW c \in Clis, CliStep(c), NoteReview("other")
    PROVE  ReviewInv'
<1>0. TypeOK /\ CopiesAgree /\ created \in Nat /\ 1..created \subseteq JobIds
  BY UsedIds DEF CTypeOK, ReviewInv
<1>1. ASSUME NEW r \in OperatorRequests, CliCreate(c, r) PROVE ReviewInv'
  <2>1. r \in Request /\ r.mode \in Mode
    BY DispatcherAssumption DEF Request
  <2>2. /\ SpecOf(r, r.mode, "operator", NoJob) \in JobSpec
        /\ SpecOf(r, r.mode, "operator", NoJob).origin = "operator"
    BY <2>1, SpecOfType DEF SpecOf
  <2>3. \A b \in Clis : cpc'[b] # "idle" =>
           \/ cpc[b] # "idle" /\ cpc'[b] = cpc[b] /\ con'[b] = con[b]
           \/ cpc'[b] = "enter" /\ con'[b] = created + 1
    BY <1>1 DEF CliCreate, CTypeOK
  <2> QED
    BY <1>1, <2>2, <2>3, ReviewCreated DEF CliCreate, server
<1>2. CASE CliEnter(c) \/ CliWork(c) \/ CliReport(c) \/ CliKill(c)
  <2>1. /\ created' = created /\ spec' = spec
        /\ \A k \in JobIds : status'[k] = data'[k] \/ (status'[k] = "running" /\ data'[k] = "queued")
        /\ \A k \in JobIds : status[k] = "absent" => status'[k] = "absent"
    BY <1>0, <1>2, CliMoves, SaveRows, SameRows
  <2>2. \A b \in Clis : cpc'[b] # "idle" =>
           con'[b] \in 1..created /\ (cpc'[b] = "apply" => Direct(con'[b]))
    <3>1. CASE Cli!Return(c)
      BY <3>1, ReviewStill DEF Cli!Return, Cli!Goto, CTypeOK
    <3>2. CASE /\ con' = con
               /\ \E p \in ThreadPC : /\ cpc' = [cpc EXCEPT ![c] = p]
                                      /\ p = "apply" => Direct(con[c])
      <4>1. cpc[c] # "idle"
        BY <1>2, CliMoves
      <4> QED
        BY <3>2, <4>1, ReviewStill DEF CTypeOK
    <3> QED
      BY <1>2, <3>1, <3>2, CliMoves
  <2>3. \/ pushes' = pushes
        \/ \E j \in 1..created : Direct(j) /\ pushes' = [pushes EXCEPT ![j] = @ + 1]
    BY <1>0, <1>2, CliMoves, ReviewStill
  <2>4. UNCHANGED <<exec, deciding>>
    BY <1>2, CliMoves
  <2> QED
    BY <2>1, <2>2, <2>3, <2>4, ReviewKept, ReviewStill, ReviewDeciding DEF exec
<1> QED
  BY <1>1, <1>2 DEF CliStep

LEMMA ReviewTuiStep ==
    ASSUME CTypeOK, ConsolesLocated, ReviewInv, CTypeOK', TuiStep \/ TuiApprove,
           NEW how \in {"tui", "other"}, NoteReview(how)
    PROVE  ReviewInv'
<1>0. TypeOK /\ CopiesAgree
  BY DEF CTypeOK, ReviewInv
<1>1. /\ created' = created /\ spec' = spec
      /\ \A k \in JobIds : status'[k] = data'[k] \/ (status'[k] = "running" /\ data'[k] = "queued")
      /\ \A k \in JobIds : status[k] = "absent" => status'[k] = "absent"
  <2>1. CASE \E j \in JobIds : OpenPage(j)
    BY <1>0, <2>1, SameRows DEF OpenPage
  <2>2. CASE \E s \in {"queued", "rejected", "interrupted"} : SaveJob(page, s) /\ page \in JobIds
    BY <1>0, <2>2, SaveRows
  <2>3. CASE \E S \in SUBSET JobIds : DeleteRows(S)
    BY <1>0, <2>3 DEF DeleteRows, CopiesAgree, TypeOK
  <2> QED
    BY <2>1, <2>2, <2>3, TuiMoves
<1>2. UNCHANGED <<exec, deciding, history, cliVars>>
  BY TuiMoves
<1> QED
  BY <1>1, <1>2, ReviewKept, ReviewStill, ReviewDeciding DEF exec, history, cliVars

LEMMA ReviewStep ==
    CTypeOK /\ Located /\ ConsolesLocated /\ ReviewInv /\ [CNext]_consoleVars
        => ReviewInv'
<1> SUFFICES ASSUME CTypeOK, Located, ConsolesLocated, ReviewInv, [CNext]_consoleVars
             PROVE  ReviewInv'
  OBVIOUS
<1>0. CTypeOK'
  BY CTypeStep
<1>1. CASE Next /\ UNCHANGED <<cliVars, tuiVars>> /\ NoteReview("other")
  BY <1>0, <1>1, ReviewServerStep
<1>2. ASSUME NEW c \in Clis, CliStep(c), NoteReview("other") PROVE ReviewInv'
  BY <1>0, <1>2, ReviewCliStep
<1>3. CASE (TuiStep /\ NoteReview("other")) \/ (TuiApprove /\ NoteReview("tui"))
  BY <1>0, <1>3, ReviewTuiStep
<1>4. CASE UNCHANGED consoleVars
  BY <1>4 DEF consoleVars, vars, ReviewInv, CopiesAgree, Unused, NoPlanApplied,
     DirectOrigins, Direct
<1>5. CASE CNext
  <2>1. CASE NoteReview("other") /\ \E c \in Clis : CliStep(c)
    BY <1>2, <2>1
  <2> QED
    BY <1>1, <1>3, <1>5, <2>1 DEF CNext
<1> QED
  BY <1>4, <1>5

LEMMA ReviewInit == CInit => ReviewInv
<1> SUFFICES ASSUME CInit PROVE ReviewInv
  OBVIOUS
<1>1. CopiesAgree /\ Unused
  BY DEF CInit, Init, CopiesAgree, Unused
<1>2. NoPlanApplied /\ DirectOrigins
  BY DEF CInit, Init, NoPlanApplied, DirectOrigins, Blank
<1> QED
  BY <1>1, <1>2 DEF ReviewInv

\* What holds of the table whatever processes share it.
THEOREM ConsolesInvariant == CSpec => [](CTypeOK /\ ReviewInv)
<1>1. CInit => CTypeOK /\ Located /\ ConsolesLocated /\ ReviewInv
  BY CTypeInit, ReviewInit
<1>2. CTypeOK /\ Located /\ ConsolesLocated /\ ReviewInv /\ [CNext]_consoleVars
          => (CTypeOK /\ Located /\ ConsolesLocated /\ ReviewInv)'
  BY CTypeStep, ReviewStep
<1> QED
  BY <1>1, <1>2, PTL DEF CSpec

\* "a webhook caller must never be able to request a direct, unreviewed push"
\* (server.py:413-414), for any number of console processes and whatever the
\* TUI and the deletions do to the rows meanwhile.
THEOREM ReviewedPushesHold == CSpec => []ReviewedPushes
<1>1. CTypeOK /\ ReviewInv => ReviewedPushes
  BY DEF ReviewInv, NoPlanApplied, DirectOrigins, ReviewedPushes
<1> QED
  BY <1>1, ConsolesInvariant, PTL

\* The two copies of a status differ only inside claim_job's window
\* (store.py:253-260), with every process that writes the table.
THEOREM SharedCopiesAgree == CSpec => []CopiesAgree
<1>1. CTypeOK /\ ReviewInv => CopiesAgree
  BY DEF ReviewInv
<1> QED
  BY <1>1, ConsolesInvariant, PTL
-----------------------------------------------------------------------------
(* The server next to the TUI and the deletions alone.                     *)

\* What the invariants say about one job, in the form the steps need it.
LEMMA OwnerFacts ==
    ASSUME CTypeOK, ReviewInv, TuiInv
    PROVE  /\ TypeOK /\ created \in Nat /\ 1..created \subseteq JobIds
           /\ \A j : Owned(j) => j \in 1..created
           /\ \A t \in Threads : Holds(t) => pc[t] # "idle" /\ Owned(on[t])
           /\ \A j \in JobIds : status[j] # "absent" => j \in 1..created
<1>1. TypeOK /\ created \in Nat /\ 1..created \subseteq JobIds
  BY UsedIds DEF CTypeOK
<1>2. \A t \in Threads : Holds(t) => pc[t] # "idle" /\ Owned(on[t])
  BY DEF Holds, Owned
<1>3. \A j : Owned(j) => j \in 1..created
  BY <1>2 DEF Owned, Pooled, TuiInv, OneOwner, ReviewInv, Unused
<1>4. ASSUME NEW j \in JobIds, status[j] # "absent" PROVE j \in 1..created
  BY <1>1, <1>4, JobFacts DEF ReviewInv, Unused
<1> QED
  BY <1>1, <1>2, <1>3, <1>4

\* Steps that leave the ownership and the pushes alone and only let rows
\* leave "running" and "awaiting_approval": decisions, recovery, the choices
\* of the TUI, deletions.
LEMMA RowsFallStep ==
    ASSUME CTypeOK, ReviewInv, TuiInv,
           UNCHANGED <<created, spec, phase, loop, pool, exec, history>>,
           \A j \in JobIds :
              \/ status'[j] = status[j]
              \/ /\ status'[j] \notin {"running", "awaiting_approval"}
                 /\ status'[j] = "queued" =>
                       /\ ~Owned(j) /\ pushes[j] # 1
                       /\ ~(pageMem' = "awaiting_approval" /\ page' = j),
           phase = "recovering" => Running' \subseteq recover',
           phase # "recovering" => recover' = {},
           \/ UNCHANGED tuiVars
           \/ pageMem' # "awaiting_approval"
           \/ page' \in JobIds /\ status' = status /\ status[page'] = "awaiting_approval"
    PROVE  TuiInv'
<1>0. /\ created \in Nat /\ 1..created \subseteq JobIds
      /\ \A j \in JobIds : status[j] # "absent" => j \in 1..created
  BY OwnerFacts
<1>1. /\ \A t \in Threads : Holds(t)' <=> Holds(t)
      /\ Pooled' = Pooled
      /\ \A j : Owned(j)' <=> Owned(j)
  BY DEF Holds, Pooled, Owned, loop, exec
<1>2. \A j \in JobIds : status'[j] = "running" => status[j] = "running"
  OBVIOUS
<1>3. OneOwner'
  BY <1>1 DEF TuiInv, OneOwner, loop, exec
<1>4. Waiting'
  BY <1>1 DEF TuiInv, Waiting
<1>5. PageStale'
  <2> SUFFICES ASSUME pageMem' = "awaiting_approval"
               PROVE  /\ page' \in 1..created /\ Parks(spec[page'])
                      /\ status'[page'] \notin {"queued", "running"}
                      /\ ~Owned(page')
    BY <1>1 DEF PageStale
  <2>1. CASE UNCHANGED tuiVars
    <3>1. /\ page \in JobIds /\ page \in 1..created /\ Parks(spec[page]) /\ ~Owned(page)
          /\ status[page] \notin {"queued", "running"} /\ page' = page
      BY <1>0, <2>1 DEF TuiInv, PageStale, tuiVars
    <3> QED
      BY <3>1
  <2>2. CASE page' \in JobIds /\ status' = status /\ status[page'] = "awaiting_approval"
    BY <1>0, <2>2 DEF TuiInv, Waiting
  <2> QED
    BY <2>1, <2>2
<1>6. ServerShape'
  BY DEF TuiInv, ServerShape, Idle, loop, exec
<1>7. NoLeakedSlot'
  <2>1. Running' \subseteq Running
    BY <1>2 DEF Running, HasStatus
  <2> QED
    BY <1>1, <2>1 DEF TuiInv, NoLeakedSlot, loop, exec, history
<1>8. PushedGone'
  <2>1. \A j \in JobIds : pushes[j] = 1 => status'[j] # "queued"
    BY DEF TuiInv, PushedGone
  <2> QED
    BY <1>1, <2>1 DEF TuiInv, PushedGone, loop, exec, history
<1> QED
  BY <1>3, <1>4, <1>5, <1>6, <1>7, <1>8 DEF TuiInv

\* The dispatcher's and the operator's steps that touch no row.
LEMMA StillStep ==
    ASSUME CTypeOK, ReviewInv, TuiInv,
           UNCHANGED <<rows, phase, recover, pool, exec, history, tuiVars>>,
           (dpc' # "submit" /\ dpc # "submit") \/ UNCHANGED loop,
           dpc' = "off" \/ dpc # "off"
    PROVE  TuiInv'
<1>1. /\ \A t \in Threads : Holds(t)' <=> Holds(t)
      /\ Pooled' = Pooled /\ Running' = Running
      /\ \A j : Owned(j)' <=> Owned(j)
  BY DEF Holds, Pooled, Owned, Running, HasStatus, loop, exec, rows
<1>2. OneOwner' /\ Waiting' /\ PageStale' /\ PushedGone'
  BY <1>1 DEF TuiInv, OneOwner, Waiting, PageStale, PushedGone, rows, loop, exec,
              history, tuiVars
<1>3. ServerShape'
  BY <1>1 DEF TuiInv, ServerShape, Idle, loop, exec, rows
<1>4. NoLeakedSlot'
  BY <1>1 DEF TuiInv, NoLeakedSlot, Owned, history
<1> QED
  BY <1>2, <1>3, <1>4 DEF TuiInv
\* A new row is queued and owned by nobody.
LEMMA QueuedStep ==
    ASSUME CTypeOK, ReviewInv, TuiInv, NEW s \in JobSpec, CreateJob(s),
           UNCHANGED <<phase, recover, loop, pool, exec, history, tuiVars>>
    PROVE  TuiInv'
<1> DEFINE n == created + 1
<1>0. /\ created \in Nat /\ 1..created \subseteq JobIds
      /\ \A j : Owned(j) => j \in 1..created
      /\ \A t \in Threads : Holds(t) => pc[t] # "idle" /\ Owned(on[t])
  BY OwnerFacts
<1>1. /\ n \in JobIds /\ created' = n /\ status[n] = "absent" /\ pushes[n] = 0
      /\ \A j : j \in 1..created => j # n /\ j \in 1..n
  BY <1>0, JobModelAssumption DEF CreateJob, CTypeOK, TypeOK, JobIds, ReviewInv, Unused
<1>2. /\ status'[n] = "queued" /\ spec'[n] = s
      /\ \A j \in JobIds : j # n => status'[j] = status[j] /\ spec'[j] = spec[j]
  BY <1>1 DEF CreateJob, CTypeOK, TypeOK
<1>3. /\ \A t \in Threads : Holds(t)' <=> Holds(t)
      /\ Pooled' = Pooled
      /\ \A j : Owned(j)' <=> Owned(j)
  BY DEF Holds, Pooled, Owned, loop, exec
<1>4. Running' = Running
  BY <1>1, <1>2 DEF Running, HasStatus
<1>5. OneOwner'
  BY <1>0, <1>1, <1>3 DEF TuiInv, OneOwner, loop, exec
<1>6. Waiting'
  <2>1. ~Owned(n)
    BY <1>0, <1>1
  <2> QED
    BY <1>2, <1>3, <2>1 DEF TuiInv, Waiting
<1>7. PageStale'
  BY <1>0, <1>1, <1>2, <1>3 DEF TuiInv, PageStale, tuiVars
<1>8. ServerShape'
  <2>1. \A t \in Threads : pc[t] # "idle" => on[t] \in JobIds /\ on[t] # n
    BY <1>0, <1>1 DEF ReviewInv, Unused
  <2> QED
    BY <1>2, <1>4, <2>1 DEF TuiInv, ServerShape, Idle, loop, exec
<1>9. NoLeakedSlot'
  BY <1>3, <1>4 DEF TuiInv, NoLeakedSlot, loop, exec, history
<1>10. PushedGone'
  BY <1>1, <1>2, <1>3 DEF TuiInv, PushedGone, loop, exec, history
<1> QED
  BY <1>5, <1>6, <1>7, <1>8, <1>9, <1>10 DEF TuiInv

\* claim_job, for a job that is in the queue and so has no owner.
LEMMA TakenStep ==
    ASSUME CTypeOK, Located, ReviewInv, TuiInv, Claim, UNCHANGED tuiVars
    PROVE  TuiInv'
<1>1. CASE status[cand] # "queued"
  <2>1. /\ UNCHANGED <<rows, phase, recover, pool, exec, history>>
        /\ dpc = "claim" /\ dpc' = "pick"
    BY <1>1 DEF Claim, rows
  <2> QED
    BY <2>1, StillStep
<1>2. CASE status[cand] = "queued"
  <2>1. /\ cand \in JobIds /\ cand' = cand /\ dpc = "claim" /\ dpc' = "submit"
        /\ UNCHANGED <<created, spec, phase, recover, pool, exec, history>>
    BY <1>2 DEF Claim, Located
  <2>2. /\ status'[cand] = "running"
        /\ \A j \in JobIds : j # cand => status'[j] = status[j]
    BY <1>2, <2>1 DEF Claim, CTypeOK, TypeOK
  <2>3. /\ \A t \in Threads : Holds(t)' <=> Holds(t)
        /\ Pooled' = Pooled
        /\ Running' = Running \cup {cand}
    BY <2>1, <2>2 DEF Holds, Pooled, Running, HasStatus, exec
  <2>4. \A j : Owned(j)' <=> Owned(j) \/ j = cand
    BY <2>1, <2>3 DEF Owned, exec
  <2>5. /\ ~Owned(cand) /\ cand \in 1..created /\ pushes[cand] # 1
        /\ ~(pageMem = "awaiting_approval" /\ page = cand)
        /\ phase \notin {"down", "recovering"}
    BY <1>2, <2>1, OwnerFacts DEF TuiInv, Waiting, PushedGone, PageStale, ServerShape
  <2>6. OneOwner'
    BY <2>1, <2>3, <2>5 DEF TuiInv, OneOwner, Owned, exec
  <2>7. Waiting'
    BY <2>1, <2>2, <2>4 DEF TuiInv, Waiting
  <2>8. PageStale'
    <3>1. pageMem = "awaiting_approval" => page \in JobIds /\ page # cand
      BY <2>5, OwnerFacts DEF TuiInv, PageStale
    <3> QED
      BY <2>1, <2>2, <2>4, <3>1 DEF TuiInv, PageStale, tuiVars
  <2>9. ServerShape'
    BY <2>1, <2>3, <2>5 DEF TuiInv, ServerShape, Idle, exec
  <2>10. NoLeakedSlot'
    BY <2>1, <2>3, <2>4, <2>5 DEF TuiInv, NoLeakedSlot, Owned, exec, history
  <2>11. PushedGone'
    BY <2>1, <2>2, <2>3, <2>5 DEF TuiInv, PushedGone, exec, history
  <2> QED
    BY <2>6, <2>7, <2>8, <2>9, <2>10, <2>11 DEF TuiInv
<1> QED
  BY <1>1, <1>2

\* The candidate moves to the pool, or back to the queue on shutdown.
LEMMA PooledStep ==
    ASSUME CTypeOK, Located, ReviewInv, TuiInv, Submit, UNCHANGED tuiVars
    PROVE  TuiInv'
<1>0. /\ cand \in JobIds /\ cand \in 1..created /\ dpc = "submit" /\ cand \notin Pooled
      /\ \A t \in Threads : Holds(t) => on[t] # cand
      /\ cand' = NoJob /\ dpc' \in {"pick", "scan"}
      /\ UNCHANGED <<phase, recover, exec, history, created, spec>>
      /\ pool \in Seq(JobIds) /\ phase \notin {"down", "recovering"}
  BY DEF Submit, Located, TuiInv, OneOwner, ServerShape, SaveJob, rows, CTypeOK, TypeOK
<1>1. \A t \in Threads : Holds(t)' <=> Holds(t)
  BY <1>0 DEF Holds, exec
<1>2. pushes[cand] # 1 /\ ~(pageMem = "awaiting_approval" /\ page = cand)
  BY <1>0 DEF TuiInv, PushedGone, PageStale, Owned
<1>3. CASE phase = "up"
  <2>1. pool' = Append(pool, cand) /\ UNCHANGED rows
    BY <1>3 DEF Submit
  <2>2. /\ Len(pool) \in Nat /\ Len(pool') = Len(pool) + 1
        /\ \A m \in 1..Len(pool) : pool'[m] = pool[m]
        /\ pool'[Len(pool) + 1] = cand
    BY <1>0, <2>1
  <2>3. Pooled' = Pooled \cup {cand} /\ Running' = Running
    BY <2>1, <2>2 DEF Pooled, Running, HasStatus, rows
  <2>4. \A j : Owned(j)' <=> Owned(j)
    BY <1>0, <1>1, <2>3 DEF Owned, exec
  <2>5. OneOwner'
    <3>1. \A n, m \in 1..Len(pool') : pool'[n] = pool'[m] => n = m
      BY <1>0, <2>2 DEF TuiInv, OneOwner, Pooled
    <3>2. \A n \in 1..Len(pool') : pool'[n] \in 1..created
      BY <1>0, <2>2 DEF TuiInv, OneOwner
    <3> QED
      BY <1>0, <1>1, <2>3, <3>1, <3>2 DEF TuiInv, OneOwner, exec
  <2>6. Waiting' /\ PageStale'
    BY <1>0, <2>1, <2>4 DEF TuiInv, Waiting, PageStale, rows, tuiVars
  <2>7. ServerShape'
    BY <1>0, <1>3, <2>3 DEF TuiInv, ServerShape, Idle, exec
  <2>8. NoLeakedSlot'
    BY <1>0, <2>3, <2>4 DEF TuiInv, NoLeakedSlot, Owned, exec, history
  <2>9. PushedGone'
    BY <1>0, <1>1, <1>2, <2>1, <2>3 DEF TuiInv, PushedGone, exec, history, rows
  <2> QED
    BY <2>5, <2>6, <2>7, <2>8, <2>9 DEF TuiInv
<1>4. CASE phase = "stopping"
  <2>1. pool' = pool /\ SaveJob(cand, "queued")
    BY <1>4 DEF Submit
  <2>2. /\ status'[cand] \in {"queued", "absent"}
        /\ \A j \in JobIds : j # cand => status'[j] = status[j]
    BY <1>0, <2>1 DEF SaveJob, CTypeOK, TypeOK
  <2>3. Pooled' = Pooled
    BY <2>1 DEF Pooled
  <2>4. \A j : Owned(j)' <=> Owned(j) /\ j # cand
    BY <1>0, <1>1, <2>3 DEF Owned, exec
  <2>5. OneOwner'
    BY <1>0, <1>1, <2>1, <2>3 DEF TuiInv, OneOwner, exec
  <2>6. Waiting'
    BY <1>0, <2>2, <2>4 DEF TuiInv, Waiting
  <2>7. PageStale'
    <3>1. pageMem = "awaiting_approval" => page \in JobIds /\ page # cand
      BY <1>2, OwnerFacts DEF TuiInv, PageStale
    <3> QED
      BY <1>0, <2>2, <2>4, <3>1 DEF TuiInv, PageStale, tuiVars
  <2>8. ServerShape' /\ NoLeakedSlot'
    BY <1>0, <1>4, <2>1 DEF TuiInv, ServerShape, NoLeakedSlot, Idle, exec
  <2>9. PushedGone'
    BY <1>0, <1>1, <1>2, <2>2, <2>3 DEF TuiInv, PushedGone, exec, history
  <2> QED
    BY <2>5, <2>6, <2>7, <2>8, <2>9 DEF TuiInv
<1> QED
  BY <1>3, <1>4 DEF Submit

\* Boot, the first round, and everything that ends the server.
LEMMA PhaseStep ==
    ASSUME CTypeOK, ReviewInv, TuiInv, Boot \/ Serve \/ Stop \/ Halt, UNCHANGED tuiVars
    PROVE  TuiInv'
<1>0. UNCHANGED <<rows, pushes>> /\ Running' = Running
  BY DEF Boot, Serve, Stop, Halt, Running, HasStatus, rows, history
<1>1. CASE Stop
  <2>1. /\ UNCHANGED <<loop, exec, recover>> /\ pool' = <<>> /\ Pooled' = {}
        /\ phase' = "stopping" /\ phase = "up"
        /\ \A n \in 1..Len(pool') : FALSE
    BY <1>1 DEF Stop, LoopFree, Pooled
  <2>2. /\ \A t \in Threads : Holds(t)' <=> Holds(t)
        /\ \A j : Owned(j)' => Owned(j)
    BY <2>1 DEF Holds, Owned, loop, exec
  <2>3. OneOwner'
    BY <1>0, <2>1, <2>2 DEF TuiInv, OneOwner, loop, exec, rows
  <2>4. Waiting' /\ PageStale'
    BY <1>0, <2>2 DEF TuiInv, Waiting, PageStale, rows, tuiVars
  <2>5. ServerShape' /\ NoLeakedSlot'
    BY <1>0, <2>1 DEF TuiInv, ServerShape, NoLeakedSlot, Idle, exec, rows
  <2>6. PushedGone'
    BY <1>0, <2>1, <2>2 DEF TuiInv, PushedGone, loop, exec, rows
  <2> QED
    BY <2>3, <2>4, <2>5, <2>6 DEF TuiInv
<1>2. CASE Boot \/ Serve \/ Halt
  <2>1. /\ \A t \in Threads : pc'[t] = "idle" /\ ~Holds(t)'
        /\ pool' = <<>> /\ dpc' # "submit" /\ Pooled' = {}
        /\ \A n \in 1..Len(pool') : FALSE
    BY <1>2 DEF Boot, Serve, Halt, TuiInv, ServerShape, Idle, Holds, Pooled, loop, exec
  <2>2. \A j : ~Owned(j)'
    BY <2>1 DEF Owned
  <2>3. OneOwner'
    BY <2>1 DEF OneOwner
  <2>4. Waiting' /\ PageStale'
    BY <1>0, <2>2 DEF TuiInv, Waiting, PageStale, rows, tuiVars
  <2>5. ServerShape'
    BY <1>0, <1>2, <2>1 DEF Boot, Serve, Halt, TuiInv, ServerShape, Idle, loop
  <2>6. NoLeakedSlot'
    BY <1>0, <1>2 DEF Boot, Serve, Halt, TuiInv, ServerShape, NoLeakedSlot
  <2>7. PushedGone'
    BY <1>0, <2>1 DEF TuiInv, PushedGone, rows
  <2> QED
    BY <2>3, <2>4, <2>5, <2>6, <2>7 DEF TuiInv
<1> QED
  BY <1>1, <1>2

\* A thread takes the oldest submission, or drops it: the row is gone, or an
\* exception comes before the run.
LEMMA TuiStartStep ==
    ASSUME CTypeOK, ReviewInv, TuiInv, NEW t \in Threads, Start(t) \/ StartRaises(t),
           UNCHANGED tuiVars
    PROVE  TuiInv'
<1> DEFINE j == Head(pool)
<1>1. /\ pc[t] = "idle" /\ pool # <<>> /\ pool' = Tail(pool) /\ pool \in Seq(JobIds)
      /\ UNCHANGED <<rows, phase, recover, loop, pushes>> /\ stuck \subseteq stuck'
  BY DEF Start, StartRaises, CTypeOK, TypeOK, history
<1>2. /\ Len(pool) \in Nat \ {0} /\ j = pool[1] /\ j \in JobIds
      /\ Len(pool') = Len(pool) - 1
      /\ \A m \in 1..Len(pool') : pool'[m] = pool[m + 1]
  BY <1>1
<1>3. \A m, k \in 1..Len(pool) : pool[m] = pool[k] => m = k
  BY DEF TuiInv, OneOwner
<1>4. /\ j \in Pooled /\ j \in 1..created
      /\ dpc = "submit" => cand # j
      /\ \A u \in Threads : Holds(u) => on[u] # j
  <2>1. 1 \in 1..Len(pool)
    BY <1>2
  <2> QED
    BY <1>2, <2>1 DEF TuiInv, OneOwner, Pooled
<1>5a. \A m \in 1..Len(pool') : m + 1 \in 1..Len(pool) /\ m + 1 # 1
  BY <1>2
<1>5b. \A m \in 1..Len(pool) : m # 1 => m - 1 \in 1..Len(pool') /\ pool'[m - 1] = pool[m]
  BY <1>2
<1>5. Pooled' = Pooled \ {j}
  <2>1. ASSUME NEW k \in Pooled' PROVE k \in Pooled /\ k # j
    <3>1. PICK m \in 1..Len(pool') : k = pool'[m]
      BY <2>1 DEF Pooled
    <3>2. m + 1 \in 1..Len(pool) /\ m + 1 # 1 /\ k = pool[m + 1] /\ 1 \in 1..Len(pool)
      BY <1>2, <1>5a, <3>1
    <3> QED
      BY <1>2, <1>3, <3>2 DEF Pooled
  <2>2. ASSUME NEW k \in Pooled, k # j PROVE k \in Pooled'
    <3>1. PICK m \in 1..Len(pool) : k = pool[m]
      BY <2>2 DEF Pooled
    <3>2. m # 1
      BY <1>2, <2>2, <3>1
    <3> QED
      BY <1>5b, <3>1, <3>2 DEF Pooled
  <2> QED
    BY <2>1, <2>2
<1>6. /\ \A m, k \in 1..Len(pool') : pool'[m] = pool'[k] => m = k
      /\ \A m \in 1..Len(pool') : pool'[m] \in 1..created
  <2>1. ASSUME NEW m \in 1..Len(pool'), NEW k \in 1..Len(pool'), pool'[m] = pool'[k]
        PROVE  m = k
    <3>1. pool[m + 1] = pool[k + 1]
      BY <1>2, <2>1
    <3>2. m + 1 = k + 1
      BY <1>3, <1>5a, <3>1
    <3> QED
      BY <3>2
  <2>2. ASSUME NEW m \in 1..Len(pool') PROVE pool'[m] \in 1..created
    BY <1>2, <1>5a DEF TuiInv, OneOwner
  <2> QED
    BY <2>1, <2>2
<1>7. Running' = Running
  BY <1>1 DEF Running, HasStatus, rows
<1>8. ~Holds(t) /\ phase \notin {"down", "recovering", "stopping"}
  BY <1>1 DEF Holds, TuiInv, ServerShape
<1>9. CASE UNCHANGED exec /\ (status[j] = "absent" \/ j \in stuck')
  <2>1. UNCHANGED exec
    BY <1>9
  <2>2. \A u \in Threads : Holds(u)' <=> Holds(u)
    BY <2>1 DEF Holds, exec
  <2>3. \A k : Owned(k)' <=> (Owned(k) /\ k # j)
    BY <1>1, <1>4, <1>5, <2>1, <2>2 DEF Owned, exec, loop
  <2>4. OneOwner'
    BY <1>1, <1>5, <1>6, <2>1, <2>2 DEF TuiInv, OneOwner, exec, loop, rows
  <2>5. Waiting' /\ PageStale'
    BY <1>1, <2>3 DEF TuiInv, Waiting, PageStale, rows, tuiVars
  <2>6. ServerShape'
    BY <1>1, <1>7, <1>8, <2>1 DEF TuiInv, ServerShape, exec, loop, rows
  <2>7. NoLeakedSlot'
    <3>1. \A k \in Running \ stuck' : k # j /\ (phase = "up" => Owned(k))
      BY <1>1, <1>9 DEF Running, HasStatus, TuiInv, NoLeakedSlot, Owned
    <3> QED
      BY <1>1, <1>7, <2>3, <3>1 DEF NoLeakedSlot, Owned
  <2>8. PushedGone'
    BY <1>1, <1>5, <2>1, <2>2 DEF TuiInv, PushedGone, exec, loop, rows
  <2> QED
    BY <2>4, <2>5, <2>6, <2>7, <2>8 DEF TuiInv
<1>10. CASE Start(t) /\ status[j] # "absent"
  <2>1. /\ pc' = [pc EXCEPT ![t] = "enter"] /\ on' = [on EXCEPT ![t] = j]
        /\ mem' = [mem EXCEPT ![t] = data[j]]
    BY <1>10 DEF Start, Goto
  <2>2. pc'[t] = "enter" /\ on'[t] = j /\ Holds(t)'
    BY <2>1 DEF Holds, CTypeOK, TypeOK
  <2>3. \A u \in Threads : u # t =>
           pc'[u] = pc[u] /\ on'[u] = on[u] /\ mem'[u] = mem[u] /\ (Holds(u)' <=> Holds(u))
    BY <2>1 DEF Holds, CTypeOK, TypeOK
  <2>4. \A k : Owned(k)' <=> Owned(k)
    <3>1. \A k : (\E u \in Threads : on'[u] = k /\ Holds(u)')
                  <=> (k = j \/ \E u \in Threads : on[u] = k /\ Holds(u))
      BY <1>8, <2>2, <2>3
    <3> QED
      BY <1>1, <1>4, <1>5, <3>1 DEF Owned, loop
  <2>5. OneOwner'
    <3>1. \A u \in Threads : Holds(u)' => on'[u] \notin Pooled'
      BY <1>5, <2>2, <2>3 DEF TuiInv, OneOwner
    <3>2. \A u, v \in Threads : Holds(u)' /\ Holds(v)' /\ on'[u] = on'[v] => u = v
      BY <1>4, <2>2, <2>3 DEF TuiInv, OneOwner
    <3>3. dpc' = "submit" =>
            /\ cand' \in 1..created' /\ cand' \notin Pooled'
            /\ \A u \in Threads : Holds(u)' => on'[u] # cand'
      BY <1>1, <1>4, <1>5, <2>2, <2>3 DEF TuiInv, OneOwner, loop, rows
    <3>4. created' = created
      BY <1>1 DEF rows
    <3> QED
      BY <1>6, <3>1, <3>2, <3>3, <3>4 DEF OneOwner
  <2>6. Waiting' /\ PageStale'
    BY <1>1, <2>4 DEF TuiInv, Waiting, PageStale, rows, tuiVars
  <2>7. ServerShape'
    BY <1>1, <1>7, <1>8, <2>2, <2>3 DEF TuiInv, ServerShape, loop, rows
  <2>8. NoLeakedSlot'
    BY <1>1, <1>7, <2>4 DEF TuiInv, NoLeakedSlot, Owned
  <2>9. PushedGone'
    BY <1>1, <1>4, <1>5, <2>2, <2>3 DEF TuiInv, PushedGone, loop, rows
  <2> QED
    BY <2>5, <2>6, <2>7, <2>8, <2>9 DEF TuiInv
<1> QED
  BY <1>9, <1>10 DEF Start, StartRaises

\* The run itself writes no row and goes on holding its job; it may push.
LEMMA TuiWorkStep ==
    ASSUME CTypeOK, ReviewInv, TuiInv, NEW t \in Threads,
           pc[t] \in {"work", "apply", "report"},
           NEW p \in {"apply", "save", "idle", "requeue"}, NEW m,
           pc' = [pc EXCEPT ![t] = p], mem' = [mem EXCEPT ![t] = m],
           p # "idle" => on' = on,
           \A u \in Threads : u # t => on'[u] = on[u],
           UNCHANGED <<rows, phase, recover, loop, pool, stuck, tuiVars>>,
           pc[t] = "report" =>
              \/ p = "requeue" /\ mem[t] = "running" /\ m = "running"
              \/ p = "idle" /\ mem[t] # "running",
           pc[t] # "report" => p \in {"apply", "save"},
           p = "apply" => m = "running",
           p = "save" => /\ m \in Terminal \cup {"running", "awaiting_approval"}
                         /\ m = "awaiting_approval" => Parks(spec[on[t]]),
           \/ UNCHANGED pushes
           \/ /\ pushes' = [pushes EXCEPT ![on[t]] = @ + 1]
              /\ pc[t] = "apply" /\ p = "save" /\ m \in {"success", "error"}
    PROVE  TuiInv'
<1> DEFINE j == on[t]
<1>1. j \in 1..created /\ j \in JobIds
  BY OwnerFacts DEF ReviewInv, Unused
<1>2. /\ pc'[t] = p /\ mem'[t] = m /\ (p # "idle" => on'[t] = j)
      /\ Holds(t)' <=> Holds(t)
  BY DEF Holds, CTypeOK, TypeOK
<1>3. \A u \in Threads : u # t =>
         pc'[u] = pc[u] /\ on'[u] = on[u] /\ mem'[u] = mem[u] /\ (Holds(u)' <=> Holds(u))
  BY DEF Holds, CTypeOK, TypeOK
<1>4. Holds(t)' => on'[t] = j
  BY <1>2 DEF Holds
<1>5. Running' = Running /\ Pooled' = Pooled
  BY DEF Running, HasStatus, Pooled, rows
<1>6. \A k : Owned(k)' <=> Owned(k)
  <2>1. \A k : (\E u \in Threads : on'[u] = k /\ Holds(u)')
                <=> (\E u \in Threads : on[u] = k /\ Holds(u))
    BY <1>2, <1>3, <1>4
  <2> QED
    BY <1>5, <2>1 DEF Owned, loop
<1>7. OneOwner'
  BY <1>2, <1>3, <1>4, <1>5 DEF TuiInv, OneOwner, loop, rows
<1>8. Waiting' /\ PageStale'
  BY <1>6 DEF TuiInv, Waiting, PageStale, rows, tuiVars
<1>9. ServerShape'
  <2>1. phase \notin {"down", "recovering"}
    BY DEF TuiInv, ServerShape, Idle
  <2> QED
    BY <1>2, <1>3, <1>5, <2>1 DEF TuiInv, ServerShape, loop, rows
<1>10. NoLeakedSlot'
  BY <1>5, <1>6 DEF TuiInv, NoLeakedSlot, Owned
<1>11. PushedGone'
  <2>0. pc[t] # "report" => Holds(t) /\ pushes[j] = 0 /\ Owned(j)
    BY <1>1 DEF Holds, Owned, TuiInv, PushedGone
  <2>1. CASE UNCHANGED pushes
    <3>1. p = "save" => pushes[j] # 1
      BY <2>0
    <3>2. p = "requeue" \/ p = "apply" => pushes[j] # 1
      BY <1>1, <2>0 DEF Holds, TuiInv, PushedGone
    <3> QED
      BY <1>2, <1>3, <1>4, <1>5, <2>1, <3>1, <3>2 DEF TuiInv, PushedGone, Holds, loop, rows
  <2>2. CASE /\ pushes' = [pushes EXCEPT ![j] = @ + 1]
             /\ pc[t] = "apply" /\ p = "save" /\ m \in {"success", "error"}
    <3>1. /\ pushes'[j] = 1 /\ \A k \in JobIds : k # j => pushes'[k] = pushes[k]
          /\ Holds(t) /\ status[j] # "queued" /\ m \in Terminal
      BY <1>1, <2>0, <2>2 DEF CTypeOK, TypeOK, TuiInv, Waiting, Terminal
    <3>2. /\ j \notin Pooled
          /\ dpc = "submit" => cand # j
          /\ \A u \in Threads : Holds(u) /\ on[u] = j => u = t
      BY <3>1 DEF TuiInv, OneOwner
    <3> QED
      BY <1>1, <1>2, <1>3, <1>4, <1>5, <2>2, <3>1, <3>2 DEF TuiInv, PushedGone, loop, rows
  <2> QED
    BY <2>1, <2>2
<1> QED
  BY <1>7, <1>8, <1>9, <1>10, <1>11 DEF TuiInv

\* A thread saves its job: it goes on holding a row it marked running, or
\* lets go of the row; a row that was deleted stays deleted.
LEMMA TuiSaveStep ==
    ASSUME CTypeOK, ReviewInv, TuiInv, NEW t \in Threads, Holds(t),
           NEW s \in RowStatus, SaveJob(on[t], s),
           UNCHANGED <<phase, recover, loop, pool, history, tuiVars>>,
           \/ /\ Return(t) /\ s \notin {"running", "awaiting_approval"} /\ pc[t] # "save"
           \/ /\ pc' = [pc EXCEPT ![t] = "work"] /\ UNCHANGED on
              /\ mem' = [mem EXCEPT ![t] = "running"]
              /\ pc[t] = "enter" /\ s = "running"
           \/ /\ pc' = [pc EXCEPT ![t] = "report"] /\ UNCHANGED <<on, mem>>
              /\ pc[t] = "save" /\ s = mem[t]
    PROVE  TuiInv'
<1> DEFINE j == on[t]
<1>1. /\ j \in 1..created /\ j \in JobIds /\ Owned(j) /\ j \notin Pooled
      /\ dpc = "submit" => cand # j
      /\ \A u \in Threads : Holds(u) /\ on[u] = j => u = t
      /\ ~(pageMem = "awaiting_approval" /\ page = j)
  BY OwnerFacts DEF TuiInv, OneOwner, PageStale, Owned
<1>2. /\ status'[j] \in {s, "absent"} /\ created' = created /\ spec' = spec
      /\ \A k \in JobIds : k # j => status'[k] = status[k]
  BY <1>1 DEF SaveJob, CTypeOK, TypeOK
<1>3. \A u \in Threads : u # t =>
         pc'[u] = pc[u] /\ on'[u] = on[u] /\ mem'[u] = mem[u] /\ (Holds(u)' <=> Holds(u))
  BY DEF Holds, Return, Goto, CTypeOK, TypeOK
<1>4. \/ pc'[t] = "idle" /\ s \notin {"running", "awaiting_approval"} /\ ~Holds(t)' /\ pc[t] # "save"
      \/ /\ pc'[t] = "work" /\ on'[t] = j /\ mem'[t] = "running" /\ s = "running"
         /\ pc[t] = "enter" /\ Holds(t)'
      \/ /\ pc'[t] = "report" /\ on'[t] = j /\ mem'[t] = mem[t] /\ s = mem[t]
         /\ pc[t] = "save" /\ (Holds(t)' <=> s = "running")
  BY DEF Return, Goto, Holds, CTypeOK, TypeOK
<1>5. Pooled' = Pooled
  BY DEF Pooled
<1>6. \A k : Owned(k)' <=> (Owned(k) /\ (k = j => s = "running"))
  <2>1. \A k : (\E u \in Threads : on'[u] = k /\ Holds(u)')
                <=> /\ \E u \in Threads : on[u] = k /\ Holds(u)
                    /\ k = j => s = "running"
    <3>1. Holds(t)' <=> s = "running"
      BY <1>4
    <3>2. Holds(t)' => on'[t] = j
      BY <1>4
    <3> QED
      BY <1>1, <1>3, <3>1, <3>2
  <2> QED
    BY <1>1, <1>5, <2>1 DEF Owned, loop
<1>7. OneOwner'
  BY <1>1, <1>2, <1>3, <1>4, <1>5 DEF TuiInv, OneOwner, loop
<1>8. s = "awaiting_approval" => Parks(spec[j])
  BY <1>4 DEF TuiInv, ServerShape
<1>9. Waiting'
  BY <1>2, <1>6, <1>8 DEF TuiInv, Waiting
<1>10. PageStale'
  <2>1. pageMem = "awaiting_approval" => page \in JobIds /\ page # j
    BY <1>1, OwnerFacts DEF TuiInv, PageStale
  <2> QED
    BY <1>2, <1>6, <2>1 DEF TuiInv, PageStale, tuiVars
<1>11. ServerShape'
  <2>1. phase \notin {"down", "recovering"}
    BY DEF TuiInv, ServerShape, Idle, Holds
  <2> QED
    BY <1>2, <1>3, <1>4, <2>1 DEF TuiInv, ServerShape, loop
<1>12. NoLeakedSlot'
  <2>1. \A k \in Running' \ stuck : (k = j => s = "running") /\ (phase = "up" => Owned(k))
    BY <1>1, <1>2 DEF Running, HasStatus, TuiInv, NoLeakedSlot, Owned
  <2> QED
    BY <1>6, <2>1 DEF NoLeakedSlot, Owned, history
<1>13. PushedGone'
  <2>1. pushes[j] = 1 => pc[t] = "save" /\ mem[t] \in Terminal
    BY <1>1 DEF TuiInv, PushedGone
  <2>2. pushes[j] = 1 => s \in Terminal /\ ~Holds(t)'
    BY <1>4, <2>1 DEF Terminal
  <2>3. \A k \in JobIds : pushes[k] = 1 => status'[k] # "queued"
    BY <1>2, <2>2 DEF TuiInv, PushedGone, Terminal
  <2> QED
    BY <1>1, <1>3, <1>4, <1>5, <2>2, <2>3 DEF TuiInv, PushedGone, loop, history
<1> QED
  BY <1>7, <1>9, <1>10, <1>11, <1>12, <1>13 DEF TuiInv

\* A save raised and nobody caught it: the thread lets go of a row that stays.
LEMMA TuiEscapeStep ==
    ASSUME CTypeOK, ReviewInv, TuiInv, NEW t \in Threads, Escape(t), UNCHANGED tuiVars
    PROVE  TuiInv'
<1> DEFINE j == on[t]
<1>1. /\ pc[t] \in {"enter", "save", "requeue"} /\ stuck' = stuck \cup {j}
      /\ pc'[t] = "idle" /\ Holds(t) /\ ~Holds(t)'
      /\ UNCHANGED <<rows, phase, recover, loop, pool, pushes>>
  BY DEF Escape, Return, Goto, Holds, CTypeOK, TypeOK
<1>2. \A u \in Threads : u # t =>
         pc'[u] = pc[u] /\ on'[u] = on[u] /\ mem'[u] = mem[u] /\ (Holds(u)' <=> Holds(u))
  BY DEF Escape, Return, Goto, Holds, CTypeOK, TypeOK
<1>3. Running' = Running /\ Pooled' = Pooled
  BY <1>1 DEF Running, HasStatus, Pooled, rows
<1>4. \A k : Owned(k)' => Owned(k)
  BY <1>1, <1>2, <1>3 DEF Owned, loop
<1>5. \A k : Owned(k) /\ k # j => Owned(k)'
  BY <1>1, <1>2, <1>3 DEF Owned, loop
<1>6. OneOwner'
  BY <1>1, <1>2, <1>3 DEF TuiInv, OneOwner, loop, rows
<1>7. Waiting' /\ PageStale'
  BY <1>1, <1>4 DEF TuiInv, Waiting, PageStale, rows, tuiVars
<1>8. ServerShape'
  <2>1. phase \notin {"down", "recovering"}
    BY <1>1 DEF TuiInv, ServerShape, Idle
  <2> QED
    BY <1>1, <1>2, <1>3, <2>1 DEF TuiInv, ServerShape, loop, rows
<1>9. NoLeakedSlot'
  <2>1. \A k \in Running' \ stuck' : k # j /\ (phase = "up" => Owned(k))
    BY <1>1, <1>3 DEF TuiInv, NoLeakedSlot, Owned
  <2> QED
    BY <1>1, <1>5, <2>1 DEF NoLeakedSlot, Owned
<1>10. PushedGone'
  BY <1>1, <1>2, <1>3 DEF TuiInv, PushedGone, loop, rows
<1> QED
  BY <1>6, <1>7, <1>8, <1>9, <1>10 DEF TuiInv

LEMMA TuiThreadStep ==
    ASSUME CTypeOK, ReviewInv, TuiInv, NEW t \in Threads, ThreadStep(t), UNCHANGED tuiVars
    PROVE  TuiInv'
<1>0. /\ mem \in [Threads -> RowStatus] /\ on \in [Threads -> JobIds \cup {NoJob}]
      /\ \A x : pc[t] = x /\ x \in {"enter", "work", "apply", "save", "requeue"} => Holds(t)
  BY DEF Holds, CTypeOK, TypeOK
<1>1. CASE Start(t) \/ StartRaises(t)
  BY <1>1, TuiStartStep
<1>2. CASE Enter(t)
  <2>1. PICK s \in {"running", "queued", "error"} :
             /\ SaveJob(on[t], s)
             /\ \/ Return(t) /\ s # "running"
                \/ /\ pc' = [pc EXCEPT ![t] = "work"] /\ UNCHANGED on
                   /\ mem' = [mem EXCEPT ![t] = "running"] /\ s = "running"
    BY <1>2 DEF Enter, Goto
  <2>2. /\ pc[t] = "enter" /\ Holds(t)
        /\ UNCHANGED <<phase, recover, loop, pool, history>>
    BY <1>0, <1>2 DEF Enter
  <2>3. s \in RowStatus
    BY StatusFacts DEF Terminal
  <2> QED
    BY <2>1, <2>2, <2>3, TuiSaveStep
<1>3. CASE AuthMissing(t)
  BY <1>3, TuiWorkStep DEF AuthMissing, Finish, Goto, history
<1>4. CASE EngineFails(t)
  <2>1. PICK s \in Failures : Finish(t, s)
    BY <1>4, DispatcherAssumption DEF EngineFails, Failures
  <2>2. s \in Terminal /\ s # "awaiting_approval"
    BY DEF Failures, Terminal
  <2> QED
    BY <1>4, <2>1, <2>2, TuiWorkStep DEF EngineFails, Finish, Goto, history
<1>5. CASE EngineSucceeds(t)
  <2>1. mem = [mem EXCEPT ![t] = "running"]
    BY <1>0, <1>5 DEF EngineSucceeds, TuiInv, ServerShape
  <2>2. CASE Parks(spec[on[t]]) /\ Finish(t, "awaiting_approval")
    BY <1>5, <2>2, TuiWorkStep DEF EngineSucceeds, Finish, Goto, history
  <2>3. CASE Finish(t, "success") \/ Finish(t, "failed-checks")
    BY <1>5, <2>3, TuiWorkStep DEF EngineSucceeds, Finish, Goto, history, Terminal
  <2>4. CASE Goto(t, "apply") /\ UNCHANGED mem
    BY <1>5, <2>1, <2>4, TuiWorkStep DEF EngineSucceeds, Goto, history
  <2> QED
    BY <1>5, <2>2, <2>3, <2>4 DEF EngineSucceeds
<1>6. CASE Apply(t)
  <2>1. PICK s \in {"success", "error"} : Finish(t, s)
    BY <1>6 DEF Apply
  <2>2. s \in Terminal /\ s # "awaiting_approval"
    BY DEF Terminal
  <2> QED
    BY <1>6, <2>1, <2>2, TuiWorkStep DEF Apply, Finish, Goto
<1>7. CASE FinalSave(t)
  BY <1>0, <1>7, TuiSaveStep DEF FinalSave, Goto
<1>8. CASE Report(t)
  <2>1. pc[t] = "report" /\ UNCHANGED <<rows, phase, recover, loop, pool, pushes, stuck>>
    BY <1>8 DEF Report
  <2>2. CASE mem[t] = "running"
    <3>1. mem' = [mem EXCEPT ![t] = "running"] /\ on' = on /\ pc' = [pc EXCEPT ![t] = "requeue"]
      BY <1>0, <1>8, <2>2 DEF Report, Goto
    <3> QED
      BY <2>1, <2>2, <3>1, TuiWorkStep
  <2>3. CASE mem[t] # "running"
    <3>1. /\ mem' = [mem EXCEPT ![t] = "absent"] /\ pc' = [pc EXCEPT ![t] = "idle"]
          /\ \A u \in Threads : u # t => on'[u] = on[u]
      BY <1>0, <1>8, <2>3 DEF Report, Return, Goto
    <3> QED
      BY <2>1, <2>3, <3>1, TuiWorkStep
  <2> QED
    BY <2>2, <2>3
<1>9. CASE Requeue(t)
  <2>1. pc[t] = "requeue" /\ Holds(t)
    BY <1>0, <1>9 DEF Requeue
  <2> QED
    BY <1>9, <2>1, StatusFacts, TuiSaveStep DEF Requeue
<1>10. CASE Escape(t)
  BY <1>10, TuiEscapeStep
<1> QED
  BY <1>1, <1>2, <1>3, <1>4, <1>5, <1>6, <1>7, <1>8, <1>9, <1>10 DEF ThreadStep

LEMMA TuiServerStep ==
    ASSUME CTypeOK, Located, ReviewInv, TuiInv, Next, UNCHANGED <<cliVars, tuiVars>>
    PROVE  TuiInv'
<1>1. ASSUME NEW s \in JobSpec, CreateJob(s),
             UNCHANGED <<phase, recover, loop, pool, exec, history>>
      PROVE  TuiInv'
  BY <1>1, QueuedStep
<1>2. ASSUME NEW r \in HookRequests, Hook(r) PROVE TuiInv'
  <2>1. r \in Request /\ ResolveMode(r) \in Mode
    BY DispatcherAssumption DEF ResolveMode, Request, Mode
  <2>2. SpecOf(r, ResolveMode(r), "hook", NoJob) \in JobSpec
    BY <2>1, SpecOfType
  <2> QED
    BY <1>1, <1>2, <2>2 DEF Hook
<1>3. ASSUME NEW r \in OperatorRequests, OperatorRun(r) PROVE TuiInv'
  <2>1. r \in Request /\ r.mode \in Mode
    BY DispatcherAssumption DEF Request
  <2>2. SpecOf(r, r.mode, "operator", NoJob) \in JobSpec
    BY <2>1, SpecOfType
  <2> QED
    BY <1>1, <1>3, <2>2 DEF OperatorRun
<1>4. CASE CreateApply
  <2>1. deciding \in JobIds /\ spec[deciding] \in JobSpec
    BY <1>4 DEF CreateApply, CTypeOK, TypeOK
  <2>2. SpecOf(spec[deciding], "auto", "apply", deciding) \in JobSpec
    BY <2>1 DEF SpecOf, JobSpec, Mode
  <2> QED
    BY <1>1, <1>4, <2>2 DEF CreateApply
<1>5. ASSUME NEW j \in JobIds, Approve(j) \/ Reject(j) PROVE TuiInv'
  <2>1. PICK s \in {"success", "rejected"} : SaveJob(j, s)
    BY <1>5 DEF Approve, Reject
  <2>2. \A k \in JobIds :
           status'[k] = status[k] \/ status'[k] \in {"success", "rejected", "absent"}
    BY <2>1 DEF SaveJob, CTypeOK, TypeOK
  <2>3. /\ UNCHANGED <<created, spec, phase, loop, pool, exec, history, recover>>
        /\ phase = "up"
    BY <1>5, <2>1 DEF Approve, Reject, Decidable, LoopFree, SaveJob
  <2>4. recover' = {}
    BY <2>3 DEF TuiInv, ServerShape
  <2> QED
    BY <2>2, <2>3, <2>4, RowsFallStep
<1>6. ASSUME NEW j \in JobIds, RecoverJob(j) PROVE TuiInv'
  <2>1. phase = "recovering" /\ Idle /\ pool = <<>> /\ dpc = "off" /\ Running \subseteq recover
    BY <1>6 DEF RecoverJob, TuiInv, ServerShape
  <2>2. PICK s \in {"queued", "interrupted"} :
             SaveJob(j, s) /\ (s = "queued" => spec[j].deliverable \in ReadOnly)
    BY <1>6 DEF RecoverJob
  <2>3. /\ status'[j] \in {s, "absent"} /\ \A k \in JobIds : k # j => status'[k] = status[k]
        /\ created' = created /\ spec' = spec
    BY <2>2 DEF SaveJob, CTypeOK, TypeOK
  <2>4. ~Owned(j)
    BY <2>1 DEF Idle, Owned, Pooled, Holds
  <2>5. s = "queued" => pushes[j] # 1 /\ ~(pageMem = "awaiting_approval" /\ page = j)
    BY <2>2 DEF ReviewInv, NoPlanApplied, Direct, TuiInv, PageStale, Parks, Mutating, ReadOnly
  <2>6. Running' \subseteq recover'
    BY <1>6, <2>1, <2>3 DEF RecoverJob, Running, HasStatus
  <2>7. UNCHANGED <<phase, loop, pool, exec, history, tuiVars>>
    BY <1>6 DEF RecoverJob
  <2>8. pageMem' = pageMem /\ page' = page
    BY <2>7 DEF tuiVars
  <2>9. \A k \in JobIds :
           \/ status'[k] = status[k]
           \/ /\ status'[k] \notin {"running", "awaiting_approval"}
              /\ status'[k] = "queued" =>
                    /\ ~Owned(k) /\ pushes[k] # 1
                    /\ ~(pageMem' = "awaiting_approval" /\ page' = k)
    BY <2>3, <2>4, <2>5, <2>8
  <2> QED
    BY <2>1, <2>3, <2>6, <2>7, <2>9, RowsFallStep
<1>7. ASSUME NEW i \in Managed, InstanceStep(i) PROVE TuiInv'
  <2>1. UNCHANGED <<rows, phase, recover, loop, pool, exec, history>>
    BY <1>7 DEF InstanceStep, PauseInstance, ResumeInstance, DeleteInstance, CreateInstance
  <2>2. UNCHANGED dpc
    BY <2>1 DEF loop
  <2> QED
    BY <2>1, <2>2, StillStep
<1>8. CASE Scan \/ Pick
  <2>1. /\ UNCHANGED <<rows, phase, recover, pool, exec, history>>
        /\ dpc # "submit" /\ dpc' # "submit" /\ dpc # "off"
    BY <1>8 DEF Scan, Pick
  <2> QED
    BY <2>1, StillStep
<1>9. CASE Claim \/ Submit
  BY <1>9, TakenStep, PooledStep
<1>10. ASSUME NEW t \in Threads, ThreadStep(t) PROVE TuiInv'
  BY <1>10, TuiThreadStep
<1>11. CASE Boot \/ Serve \/ Stop \/ Halt
  BY <1>11, PhaseStep
<1> QED
  BY <1>2, <1>3, <1>4, <1>5, <1>6, <1>7, <1>8, <1>9, <1>10, <1>11
     DEF Next, DispatchStep, Exit, Crash

LEMMA TuiTuiStep ==
    ASSUME CTypeOK, ConsolesLocated, ReviewInv, TuiInv, TuiStep \/ TuiApprove
    PROVE  TuiInv'
<1>1. UNCHANGED <<created, spec, phase, recover, loop, pool, exec, history>>
  BY TuiMoves
<1>2. phase # "recovering" => recover' = {}
  BY <1>1 DEF TuiInv, ServerShape
<1>3. CASE \E j \in JobIds : OpenPage(j)
  <2>1. PICK j \in JobIds : OpenPage(j)
    BY <1>3
  <2>2. status' = status /\ page' = j /\ pageMem' = data[j]
    BY <2>1 DEF OpenPage, rows
  <2>3. pageMem' # "awaiting_approval" \/ status[j] = "awaiting_approval"
    BY <2>2 DEF ReviewInv, CopiesAgree
  <2>4. phase = "recovering" => Running' \subseteq recover'
    BY <1>1, <2>2 DEF Running, HasStatus, TuiInv, ServerShape
  <2> QED
    BY <1>1, <1>2, <2>2, <2>3, <2>4, RowsFallStep
<1>4. ASSUME NEW s \in {"queued", "rejected", "interrupted"},
             SaveJob(page, s), ClosePage, page \in JobIds,
             s # "interrupted" => pageMem = "awaiting_approval"
      PROVE  TuiInv'
  <2>1. /\ status'[page] \in {s, "absent"}
        /\ \A k \in JobIds : k # page => status'[k] = status[k]
        /\ pageMem' = "absent"
    BY <1>4 DEF SaveJob, ClosePage, CTypeOK, TypeOK
  <2>2. s = "queued" => ~Owned(page) /\ pushes[page] # 1
    BY <1>4 DEF TuiInv, PageStale, ReviewInv, NoPlanApplied, Direct
  <2>3. phase = "recovering" => Running' \subseteq recover'
    BY <1>1, <2>1 DEF Running, HasStatus, TuiInv, ServerShape
  <2> QED
    BY <1>1, <1>2, <2>1, <2>2, <2>3, RowsFallStep
<1>5. ASSUME NEW S \in SUBSET JobIds, DeleteRows(S), UNCHANGED tuiVars
      PROVE  TuiInv'
  <2>1. \A k \in JobIds : status'[k] \in {status[k], "absent"}
    BY <1>5 DEF DeleteRows
  <2>2. phase = "recovering" => Running' \subseteq recover'
    BY <1>1, <2>1 DEF Running, HasStatus, TuiInv, ServerShape
  <2> QED
    BY <1>1, <1>2, <1>5, <2>1, <2>2, RowsFallStep
<1> QED
  BY <1>3, <1>4, <1>5, TuiMoves

LEMMA TuiInvStep ==
    ASSUME Clis = {}, CTypeOK, Located, ConsolesLocated, ReviewInv, TuiInv,
           [CNext]_consoleVars
    PROVE  TuiInv'
<1>1. CASE Next /\ UNCHANGED <<cliVars, tuiVars>>
  BY <1>1, TuiServerStep
<1>2. CASE TuiStep \/ TuiApprove
  BY <1>2, TuiTuiStep
<1>3. CASE UNCHANGED consoleVars
  <2>1. /\ UNCHANGED <<rows, phase, recover, pool, exec, history, tuiVars, loop>>
    BY <1>3 DEF consoleVars, vars, rows, exec, history, tuiVars, loop
  <2>2. UNCHANGED dpc
    BY <2>1 DEF loop
  <2> QED
    BY <2>1, <2>2, StillStep
<1> QED
  BY <1>1, <1>2, <1>3 DEF CNext

LEMMA TuiInvInit == CInit => TuiInv
<1> SUFFICES ASSUME CInit PROVE TuiInv
  OBVIOUS
<1>1. /\ Running = {} /\ Pooled = {} /\ \A j : ~Owned(j)
      /\ \A t \in Threads : ~Holds(t)
  BY DEF CInit, Init, Running, HasStatus, Pooled, Owned, Holds
<1>2. OneOwner /\ Waiting /\ PageStale /\ ServerShape /\ NoLeakedSlot /\ PushedGone
  BY <1>1 DEF CInit, Init, OneOwner, Waiting, PageStale, ServerShape, Idle,
              NoLeakedSlot, PushedGone
<1> QED
  BY <1>2 DEF TuiInv

\* The server next to the TUI: a job has one owner, and the page an operator
\* acts on, however old, is never of a job somebody runs.
THEOREM TuiInvariant ==
    ASSUME Clis = {}
    PROVE  CSpec => [](CTypeOK /\ ReviewInv /\ TuiInv)
<1>1. CInit => CTypeOK /\ Located /\ ConsolesLocated /\ ReviewInv /\ TuiInv
  BY CTypeInit, ReviewInit, TuiInvInit
<1>2. CTypeOK /\ Located /\ ConsolesLocated /\ ReviewInv /\ TuiInv /\ [CNext]_consoleVars
          => (CTypeOK /\ Located /\ ConsolesLocated /\ ReviewInv /\ TuiInv)'
  BY CTypeStep, ReviewStep, TuiInvStep
<1> QED
  BY <1>1, <1>2, PTL DEF CSpec

\* However stale the page an operator approves, edits, rejects or cancels on,
\* and whatever is deleted meanwhile, no change is pushed twice, as long as
\* no job runs in a console process (tui.py:2059-2163, worker.py:6-7).
THEOREM PushedAtMostOnceHolds ==
    ASSUME Clis = {}
    PROVE  CSpec => []PushedAtMostOnce
<1>1. CTypeOK /\ ReviewInv /\ TuiInv => PushedAtMostOnce
  BY DEF TuiInv, PushedGone, PushedAtMostOnce
<1> QED
  BY <1>1, TuiInvariant, PTL

\* The TUI's choices and the deletions leak no slot: while the server is up
\* every row marked running still has its owner, unless its thread was lost to
\* an exception nobody catches.
THEOREM TuiSlotsReturned ==
    ASSUME Clis = {}
    PROVE  CSpec => []NoLeakedSlot
<1>1. CTypeOK /\ ReviewInv /\ TuiInv => NoLeakedSlot
  BY DEF TuiInv
<1> QED
  BY <1>1, TuiInvariant, PTL
=============================================================================
