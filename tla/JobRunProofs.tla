---------------------------- MODULE JobRunProofs ----------------------------
(***************************************************************************)
(* Proofs about JobRun for every number of repositories, attempts and      *)
(* fixes, every request and every settings of the instance.                *)
(***************************************************************************)
EXTENDS JobRun, TLAPS

LEMMA RunWords ==
    /\ Terminal \subseteq RowStatus
    /\ {"queued", "running", "awaiting_approval", "absent"} \subseteq RowStatus
    /\ {"success", "error", "interrupted", "failed-checks", "blocked", "timeout"} \subseteq Terminal
    /\ {"queued", "running", "awaiting_approval", "absent"} \cap Terminal = {}
  BY DEF RowStatus, Status, Terminal

LEMMA BlankIsSpec == Blank \in JobSpec /\ Blank.deliverable \in ReadOnly
  BY JobRunAssumption DEF Blank, JobSpec, Deliverable, ReadOnly, Mode

\* What an engine writes are worktrees, and a missing one stays missing.
LEMMA WrittenType ==
    ASSUME RunTypeOK, NEW w \in Written
    PROVE  /\ w \in [Repos -> Tree]
           /\ \A r \in Repos : tree[r] = "absent" => w[r] = "absent"
  BY DEF Written, Touched, RunTypeOK

LEMMA SettingType ==
    ASSUME RunTypeOK
    PROVE  inst.repos \in 0..NumRepos /\ NumRepos \in Nat
           /\ inst.checks \in BOOLEAN /\ inst.gate \in BOOLEAN
  BY JobRunAssumption DEF RunTypeOK, Setting

LEMMA RequestSpec ==
    ASSUME NEW q \in Request
    PROVE  [instance |-> q.instance, session |-> q.session,
            deliverable |-> q.deliverable, mode |-> q.mode,
            origin |-> "operator", source |-> NoJob] \in JobSpec
  BY DEF Request, JobSpec

LEMMA FailureStatus ==
    ASSUME NEW c \in ErrorClass
    PROVE  StatusOf(c) \in Failures /\ StatusOf(c) \in Terminal
  BY DEF StatusOf, Failures, Terminal

LEMMA ContainersType == RunTypeOK => Containers \subseteq Nat
  BY DEF Containers, RunTypeOK

LEMMA RunTypeInit == Init => RunTypeOK
<1> SUFFICES ASSUME Init PROVE RunTypeOK
  OBVIOUS
<1>1. /\ paused \in BOOLEAN /\ link \in BOOLEAN /\ resume \in BOOLEAN
      /\ recovered \in BOOLEAN /\ verified \in BOOLEAN
  BY Zenon DEF Init
<1> QED
  BY <1>1, BlankIsSpec, RunWords, JobRunAssumption DEF Init, RunTypeOK, RunPC, Tree, Out, Repos

LEMMA RunTypeStep == RunTypeOK /\ [Next]_vars => RunTypeOK'
<1> SUFFICES ASSUME RunTypeOK, [Next]_vars PROVE RunTypeOK'
  OBVIOUS
<1> USE RunWords, SettingType, JobRunAssumption DEF durable, engine, work, SaveJob, Return, Fail, RunPC
<1>1. CASE Create
  BY <1>1, RequestSpec DEF Create, RunTypeOK
<1>2. CASE Claim
  <2>1. resume' \in BOOLEAN /\ recovered' \in BOOLEAN /\ verified' \in BOOLEAN
    BY <1>2, Zenon DEF Claim, RunTypeOK
  <2> QED
    BY <1>2, <2>1 DEF Claim, RunTypeOK
<1>3. CASE TogglePause
  BY <1>3, WrittenType DEF TogglePause, RunTypeOK
<1>4. CASE Load
  BY <1>4, WrittenType DEF Load, RunTypeOK
<1>5. CASE Authenticate
  BY <1>5, WrittenType DEF Authenticate, RunTypeOK
<1>6. CASE Prepare
  BY <1>6, WrittenType DEF Prepare, Fresh, Tree, RunTypeOK
<1>7. CASE Raise
  BY <1>7, WrittenType DEF Raise, RunTypeOK
<1>8. CASE EngineOk
  <2>1. verified' \in BOOLEAN /\ link' \in BOOLEAN
    BY <1>8, Zenon DEF EngineOk, Linked, RunTypeOK
  <2> QED
    BY <1>8, <2>1, WrittenType DEF EngineOk, Linked, RunTypeOK
<1>9. CASE EngineLost
  <2>1. resume' \in BOOLEAN /\ recovered' \in BOOLEAN /\ link' \in BOOLEAN
    BY <1>9, Zenon DEF EngineLost, RunTypeOK
  <2> QED
    BY <1>9, <2>1 DEF EngineLost, RunTypeOK
<1>10. ASSUME NEW c \in ErrorClass, EngineFails(c) PROVE RunTypeOK'
  <2>1. verified' \in BOOLEAN /\ paused' \in BOOLEAN
    BY <1>10, Zenon DEF EngineFails, RunTypeOK
  <2> QED
    BY <1>10, <2>1, WrittenType, FailureStatus DEF EngineFails, Orphans, RunTypeOK
<1>11. CASE CheckPasses
  BY <1>11, WrittenType DEF CheckPasses, RunTypeOK
<1>12. CASE CheckFails
  BY <1>12, WrittenType DEF CheckFails, RunTypeOK
<1>13. CASE Fix
  <2>1. verified' \in BOOLEAN /\ link' \in BOOLEAN
    BY <1>13, Zenon DEF Fix, Linked, RunTypeOK
  <2> QED
    BY <1>13, <2>1, WrittenType DEF Fix, Linked, Orphans, RunTypeOK
<1>14. CASE DeliverDone
  BY <1>14, WrittenType DEF DeliverDone, RunTypeOK
<1>15. CASE Deliver
  BY <1>15, SettingType DEF Deliver, ToNext, Leaves, Tree, Out, Repos, RunTypeOK
<1>16. CASE OpenPr
  <2>1. out' \in [Repos -> Out]
    BY <1>16 DEF OpenPr, Leaves, Out, RunTypeOK
  <2>2. next' \in Nat \ {0} /\ pc' \in RunPC /\ mem' \in RowStatus
    BY <1>16, WrittenType DEF OpenPr, ToNext, Fail, RunTypeOK, RunPC
  <2>3. UNCHANGED <<inst, paused, durable, engine, fixes, tree, verified, alive, told>>
    BY <1>16 DEF OpenPr
  <2> QED
    BY <2>1, <2>2, <2>3 DEF RunTypeOK
<1>17. CASE FinalSave
  BY <1>17, WrittenType DEF FinalSave, RunTypeOK
<1>18. CASE Cleanup
  BY <1>18, WrittenType DEF Cleanup, Tree, RunTypeOK
<1>19. CASE Report
  BY <1>19, WrittenType DEF Report, RunTypeOK
<1>20. CASE Requeue
  BY <1>20, WrittenType DEF Requeue, RunTypeOK
<1>21. CASE OrphanWrites
  BY <1>21, WrittenType DEF OrphanWrites, RunTypeOK
<1>22. CASE OrphanEnds
  BY <1>22, WrittenType DEF OrphanEnds, RunTypeOK
<1>23. CASE Crash
  BY <1>23, ContainersType DEF Crash, RunTypeOK
<1>24. CASE Recover
  BY <1>24, WrittenType DEF Recover, RunTypeOK
<1>25. CASE UNCHANGED vars
  BY <1>25 DEF vars, RunTypeOK
<1> QED
  BY <1>1, <1>2, <1>3, <1>4, <1>5, <1>6, <1>7, <1>8, <1>9, <1>10, <1>11, <1>12, <1>13, <1>14, <1>15, <1>16, <1>17, <1>18, <1>19, <1>20, <1>21, <1>22, <1>23, <1>24, <1>25 DEF Next, RunStep

\* Every variable of a run keeps its type.
THEOREM RunTypeCorrect == Spec => []RunTypeOK
  BY RunTypeInit, RunTypeStep, PTL DEF Spec
-----------------------------------------------------------------------------
(* The inductive invariant of a run and what follows from it.              *)

\* A run that may still be put back, or has yet to verify, delivered nothing.
LEMMA NothingOut ==
    ASSUME RunTypeOK, RunInv, Returning \/ pc \in Verifying, NEW r \in Repos
    PROVE  out[r] = "none"
  BY RunWords DEF RunInv, Departed, RowFollows, Returning, Early, Verifying, Delivering, Ending

LEMMA RunInvStep == RunTypeOK /\ RunInv /\ [Next]_vars => RunInv'
<1> SUFFICES ASSUME RunTypeOK, RunInv, [Next]_vars PROVE RunInv'
  OBVIOUS
<1> USE DEF durable, engine, work, SaveJob, Return, Fail, Early, Verifying, Delivering, Ending, Returning, Gated
<1>1. CASE Create
  BY <1>1 DEF Create, RunInv, RowFollows, Counted, Departed, RightKind, NoOrphan,
      Verified, Selected, Complete, GateHolds
<1>2. CASE Claim
  BY <1>2 DEF Claim, RunInv, RowFollows, Counted, Departed, RightKind, NoOrphan, Verified,
      Selected, Complete, GateHolds
<1>3. CASE TogglePause
  BY <1>3 DEF TogglePause, RunInv, RowFollows, Counted, Departed, RightKind, NoOrphan,
      Verified, Selected, Complete, GateHolds, Full
<1>4. CASE Load
  BY <1>4 DEF Load, RunInv, RowFollows, Counted, Departed, RightKind, NoOrphan, Verified,
      Selected, Complete, GateHolds
<1>5. CASE Authenticate
  BY <1>5 DEF Authenticate, RunTypeOK, RunInv, RowFollows, Counted, Departed, RightKind,
      NoOrphan, Verified, Selected, Complete, GateHolds
<1>6. CASE Prepare
  BY <1>6 DEF Prepare, RunTypeOK, RunInv, RowFollows, Counted, Departed, RightKind,
      NoOrphan, Verified, Selected, Complete, GateHolds, Fresh
<1>7. CASE Raise
  <2>1. /\ pc \in {"workspace", "engine", "check", "fix", "deliver", "openpr"}
        /\ pc' = "save" /\ mem' = "error"
        /\ UNCHANGED <<inst, paused, durable, resume, recovered, work, alive, told>>
    BY <1>7 DEF Raise, Fail
  <2>2. Counted'
    BY <1>7, <2>1, JobRunAssumption DEF Raise, RunTypeOK, RunInv, Counted
  <2>3. /\ RowFollows' /\ Departed' /\ RightKind'
        /\ Verified' /\ Selected' /\ Complete'
    BY <2>1, RunWords DEF RunInv, RowFollows, Departed, RightKind, Verified, Selected,
       Complete, GateHolds
  <2>4. NoOrphan'
    BY <2>1, RunWords DEF RunInv, NoOrphan
  <2> QED
    BY <2>2, <2>3, <2>4 DEF RunInv
<1>8. CASE EngineOk
  <2>1. RowFollows'
    BY <1>8 DEF EngineOk, RunInv, RowFollows
  <2>2. Counted'
    BY <1>8, JobRunAssumption DEF EngineOk, RunTypeOK, RunInv, Counted
  <2>3. Departed'
    BY <1>8, NothingOut DEF EngineOk, Departed
  <2>4. RightKind'
    BY <1>8, NothingOut DEF EngineOk, RightKind
  <2>5. NoOrphan'
    BY <1>8 DEF EngineOk, RunInv, NoOrphan
  <2>6. Verified'
    BY <1>8, NothingOut DEF EngineOk, Verified, GateHolds
  <2>7. Selected'
    BY <1>8, WrittenType DEF EngineOk, RunInv, Selected
  <2>8. Complete'
    BY <1>8 DEF EngineOk, RunInv, Complete, Repos, Selected
  <2> QED
    BY <2>1, <2>2, <2>3, <2>4, <2>5, <2>6, <2>7, <2>8 DEF RunInv
<1>9. CASE EngineLost
  BY <1>9 DEF EngineLost, RunTypeOK, RunInv, RowFollows, Counted, Departed, RightKind,
      NoOrphan, Verified, Selected, Complete, GateHolds
\* A timeout leaves a container, but it is not tried again.
<1>10. ASSUME NEW c \in ErrorClass, EngineFails(c) PROVE RunInv'
  BY <1>10, RunWords, WrittenType, JobRunAssumption DEF EngineFails, RunTypeOK, RunInv,
      RowFollows, Counted, Departed, RightKind, NoOrphan, Verified, Selected, Complete,
      GateHolds, Retries, Cap, Orphans, StatusOf, Retryable
\* Checks can only pass while no container has their name.
<1>11. CASE CheckPasses
  <2>1. RowFollows'
    BY <1>11 DEF CheckPasses, RunInv, RowFollows
  <2>2. Counted'
    BY <1>11 DEF CheckPasses, RunInv, Counted
  <2>3. Departed'
    BY <1>11, NothingOut DEF CheckPasses, Departed
  <2>4. RightKind'
    BY <1>11, NothingOut DEF CheckPasses, RightKind
  <2>5. NoOrphan'
    BY <1>11 DEF CheckPasses, RunInv, NoOrphan, Clash
  <2>6. Verified'
    BY <1>11 DEF CheckPasses, Verified, GateHolds
  <2>7. Selected'
    BY <1>11, WrittenType DEF CheckPasses, RunInv, Selected
  <2>8. Complete'
    BY <1>11 DEF CheckPasses, RunInv, Complete, Repos, Selected
  <2> QED
    BY <2>1, <2>2, <2>3, <2>4, <2>5, <2>6, <2>7, <2>8 DEF RunInv
<1>12. CASE CheckFails
  BY <1>12, RunWords, WrittenType DEF CheckFails, RunInv, RowFollows, Counted, Departed,
      RightKind, NoOrphan, Verified, Selected, Complete, GateHolds
\* The container a fix may leave has the name the checks need.
<1>13. CASE Fix
  BY <1>13, WrittenType DEF Fix, RunInv, RowFollows, Counted, Departed, RightKind,
      NoOrphan, Verified, Selected, Complete, GateHolds, Orphans
<1>14. CASE DeliverDone
  <2>1. RowFollows'
    BY <1>14, RunWords DEF DeliverDone, RunInv, RowFollows
  <2>2. Counted'
    BY <1>14 DEF DeliverDone, RunInv, Counted
  <2>3. Departed'
    BY <1>14 DEF DeliverDone, RunInv, Departed
  <2>4. RightKind'
    BY <1>14 DEF DeliverDone, RunInv, RightKind
  <2>5. NoOrphan'
    BY <1>14 DEF DeliverDone, RunInv, NoOrphan
  <2>6. Verified'
    BY <1>14 DEF DeliverDone, RunInv, Verified, GateHolds
  <2>7. Selected'
    BY <1>14 DEF DeliverDone, RunInv, Selected
  <2>8. Complete'
    <3>1. pc = "deliver" /\ pc' = "save" /\ UNCHANGED <<spec, inst, tree, out>>
      BY <1>14 DEF DeliverDone
    <3> SUFFICES ASSUME Gated, spec.deliverable \in Mutating, NEW r \in Repos,
                        HasChanges(tree[r])
                 PROVE  out[r] = Full
      BY <3>1 DEF Complete, Full
    <3>2. next > inst.repos
      BY <1>14 DEF DeliverDone, ReadOnly, Mutating
    <3>3. r <= inst.repos
      BY SettingType DEF RunInv, Selected, HasChanges, Repos
    <3>4. r < next
      BY <3>2, <3>3, SettingType DEF RunTypeOK, Repos
    <3> QED
      BY <3>1, <3>4 DEF RunInv, Complete
  <2> QED
    BY <2>1, <2>2, <2>3, <2>4, <2>5, <2>6, <2>7, <2>8 DEF RunInv
<1>15. CASE Deliver
  <2>1. RowFollows'
    BY <1>15, RunWords DEF Deliver, RunInv, RowFollows, ToNext, Fail
  <2>2. Counted'
    BY <1>15 DEF Deliver, RunInv, Counted, ToNext
  <2>3. Departed'
    BY <1>15 DEF Deliver, RunInv, Departed, RowFollows, ToNext
  <2>4. RightKind'
    BY <1>15 DEF Deliver, RunTypeOK, RunInv, RightKind, ToNext, Leaves
  <2>5. NoOrphan'
    BY <1>15 DEF Deliver, RunInv, NoOrphan, ToNext
  <2>6. Verified'
    BY <1>15 DEF Deliver, RunInv, Verified, GateHolds
  <2>7. Selected'
    BY <1>15, SettingType DEF Deliver, RunTypeOK, RunInv, Selected, ToNext
  <2>8. Complete'
    <3>0. CASE Fail
      BY <3>0, RunWords DEF Fail, Complete
    <3>1. CASE pc' \in Delivering /\ spec' = spec /\ inst' = inst /\ pc = "deliver"
      <4> SUFFICES ASSUME Gated, spec.deliverable \in Mutating, NEW r \in Repos,
                          r < next', HasChanges(tree'[r])
                   PROVE  out'[r] = Full
        BY <3>1, RunWords DEF Complete, Full
      <4>1. CASE r = next
        BY <1>15, <3>1, <4>1, SettingType DEF Deliver, ToNext, Fail, Leaves, HasChanges, Full,
           Mutating, Pushing, RunTypeOK
      <4>2. CASE r # next
        <5>1. r < next /\ HasChanges(tree[r])
          BY <1>15, <3>1, <4>2, SettingType DEF Deliver, ToNext, Fail, Repos, RunTypeOK
        <5>2. out[r] = Full
          BY <3>1, <5>1 DEF RunInv, Complete
        <5> QED
          BY <1>15, <4>2, <5>2 DEF Deliver, Leaves, RunTypeOK
      <4> QED
        BY <4>1, <4>2
    <3> QED
      BY <1>15, <3>0, <3>1 DEF Deliver, ToNext
  <2> QED
    BY <2>1, <2>2, <2>3, <2>4, <2>5, <2>6, <2>7, <2>8 DEF RunInv
<1>16. CASE OpenPr
  <2>1. RowFollows'
    BY <1>16, RunWords DEF OpenPr, RunInv, RowFollows, ToNext, Fail
  <2>2. Counted'
    BY <1>16 DEF OpenPr, RunInv, Counted, ToNext
  <2>3. Departed'
    BY <1>16 DEF OpenPr, RunInv, Departed, RowFollows, ToNext
  <2>4. RightKind'
    BY <1>16 DEF OpenPr, RunTypeOK, RunInv, RightKind, ToNext, Leaves, Pushing
  <2>5. NoOrphan'
    BY <1>16 DEF OpenPr, RunInv, NoOrphan, ToNext
  <2>6. Verified'
    BY <1>16 DEF OpenPr, RunInv, Verified, GateHolds, RowFollows
  <2>7. Selected'
    BY <1>16 DEF OpenPr, RunInv, Selected, ToNext
  <2>8. Complete'
    <3>0. CASE Fail
      BY <3>0, RunWords DEF Fail, Complete
    <3>1. CASE /\ pc' = "deliver" /\ spec' = spec /\ inst' = inst /\ tree' = tree
               /\ pc = "openpr"
      <4> SUFFICES ASSUME Gated, spec.deliverable \in Mutating, NEW r \in Repos,
                          r < next', HasChanges(tree[r])
                   PROVE  out'[r] = Full
        BY <3>1, RunWords DEF Complete, Full
      <4>1. CASE r = next
        BY <1>16, <4>1 DEF OpenPr, Leaves, Full, RunTypeOK, RunInv, RightKind
      <4>2. CASE r # next
        <5>1. r < next
          BY <1>16, <3>1, <4>2, SettingType DEF OpenPr, ToNext, Fail, Repos, RunTypeOK
        <5>2. out[r] = Full
          BY <3>1, <5>1 DEF RunInv, Complete
        <5> QED
          BY <1>16, <4>2, <5>2 DEF OpenPr, Leaves, RunTypeOK
      <4> QED
        BY <4>1, <4>2
    <3> QED
      BY <1>16, <3>0, <3>1 DEF OpenPr, ToNext
  <2> QED
    BY <2>1, <2>2, <2>3, <2>4, <2>5, <2>6, <2>7, <2>8 DEF RunInv
<1>17. CASE FinalSave
  BY <1>17, RunWords DEF FinalSave, RunInv, RowFollows, Counted, Departed, RightKind,
      NoOrphan, Verified, Selected, Complete, GateHolds
<1>18. CASE Cleanup
  BY <1>18 DEF Cleanup, RunInv, RowFollows, Counted, Departed, RightKind, NoOrphan,
      Verified, Selected, Complete, GateHolds
<1>19. CASE Report
  BY <1>19 DEF Report, RunInv, RowFollows, Counted, Departed, RightKind, NoOrphan,
      Verified, Selected, Complete, GateHolds
<1>20. CASE Requeue
  BY <1>20 DEF Requeue, RunInv, RowFollows, Counted, Departed, RightKind, NoOrphan,
      Verified, Selected, Complete, GateHolds
<1>21. CASE OrphanWrites
  BY <1>21, WrittenType DEF OrphanWrites, RunInv, RowFollows, Counted, Departed,
      RightKind, NoOrphan, Verified, Selected, Complete, GateHolds, Full
<1>22. CASE OrphanEnds
  BY <1>22 DEF OrphanEnds, RunInv, RowFollows, Counted, Departed, RightKind, NoOrphan,
      Verified, Selected, Complete, GateHolds
\* A crash leaves a container only where nothing has been delivered yet.
<1>23. CASE Crash
  BY <1>23 DEF Crash, RunInv, RowFollows, Counted, Departed, RightKind, NoOrphan,
      Verified, Selected, Complete, GateHolds, Containers
<1>24. CASE Recover
  BY <1>24 DEF Recover, RunInv, RowFollows, Counted, Departed, RightKind, NoOrphan,
      Verified, Selected, Complete, GateHolds, Mutating, ReadOnly
<1>25. CASE UNCHANGED vars
  BY <1>25 DEF vars, RunInv, RowFollows, Counted, Departed, RightKind, NoOrphan, Verified,
      Selected, Complete, GateHolds, Full
<1> QED
  BY <1>1, <1>2, <1>3, <1>4, <1>5, <1>6, <1>7, <1>8, <1>9, <1>10, <1>11, <1>12, <1>13,
     <1>14, <1>15, <1>16, <1>17, <1>18, <1>19, <1>20, <1>21, <1>22, <1>23, <1>24, <1>25 DEF Next, RunStep

LEMMA RunInvInit == Init => RunInv
  BY JobRunAssumption, BlankIsSpec, RunWords
  DEF Init, RunInv, RowFollows, Counted, Departed, RightKind, NoOrphan, Verified, GateHolds,
      Selected, Complete, Early, Verifying, Delivering, Ending, HasChanges

\* The inductive invariant of a run: run_job and its worker keep row, attempts,
\* containers, worktrees and deliveries in step (runner.py:60-107).
THEOREM RunInvariant == Spec => [](RunTypeOK /\ RunInv)
  BY RunTypeInit, RunTypeStep, RunInvInit, RunInvStep, PTL DEF Spec

\* The retry loop makes at most one call more than the attempts allowed
\* (runner.py:250-282).
THEOREM AttemptsBoundedHolds == Spec => []AttemptsBounded
<1>1. RunTypeOK /\ RunInv => AttemptsBounded
  BY RunWords, JobRunAssumption
  DEF RunTypeOK, RunPC, RunInv, Counted, AttemptsBounded, Verifying, Delivering
<1> QED
  BY <1>1, RunInvariant, PTL

\* With a gate nothing leaves a repository that the checks have not passed as
\* it is (runner.py:323-327), not even by a container that outlived a timeout.
THEOREM GateAlwaysHolds == Spec => []GateHolds
<1>1. RunTypeOK /\ RunInv => GateHolds
  BY DEF RunInv, Verified
<1> QED
  BY <1>1, RunInvariant, PTL

\* A success delivered every change git sees in full, and no status denies a
\* push (runner.py:853-874).
THEOREM StatusTellsDeliveryHolds == Spec => []StatusTellsDelivery
<1>1. ASSUME RunTypeOK, RunInv PROVE StatusTellsDelivery
  <2>1. mem = "success" /\ pc = "save" /\ spec.deliverable \in Mutating /\ Gated
        => \A r \in Repos : HasChanges(tree[r]) => out[r] = Full
    BY <1>1 DEF RunInv, Complete
  <2>2. (\E r \in Repos : out[r] \in {"pushed", "pr"}) =>
           row \in {"running", "success", "error", "interrupted"}
    BY <1>1 DEF RunInv, Departed, RowFollows, Delivering, Ending
  <2>3. row = "success" /\ spec.deliverable = "pr" => \A r \in Repos : out[r] # "pushed"
    BY <1>1 DEF RunInv, RightKind, RowFollows, Delivering, Ending
  <2> QED
    BY <2>1, <2>2, <2>3 DEF StatusTellsDelivery, Gated
<1> QED
  BY <1>1, RunInvariant, PTL
-----------------------------------------------------------------------------
(* The run of one job implements the life cycle of JobLifecycle: the row's *)
(* status is the status, and a job is pushed once anything of it reached a *)
(* remote; engine, worktrees, containers and reports are forgotten.        *)

Pushed == \E r \in Repos : out[r] \in {"pushed", "pr"}

\* The contract's vocabulary is the run's.
LEMMA SameRunWords ==
    /\ Life!JobIds = JobIds /\ Life!JobSpec = JobSpec
    /\ Life!Mutating = Mutating /\ Life!Pushing = Pushing
    /\ Life!Terminal = Terminal
    /\ \A s : Life!Parks(s) = Parks(s)
  BY DEF Life!JobIds, JobIds, Life!JobSpec, JobSpec, Life!Deliverable,
         Deliverable, Life!ReadOnly, ReadOnly, Life!Mutating, Mutating,
         Life!Mode, Mode, Life!NoJob, NoJob, Life!Pushing, Pushing,
         Life!Terminal, Terminal, Life!Parks, Parks

LEMMA OneJob == JobIds = {1}
  BY JobRunAssumption DEF JobIds

\* Nothing the contract speaks of changes.
LEMMA Unmoved ==
    ASSUME UNCHANGED <<spec, row>>, Pushed' = Pushed
    PROVE  [Life!LNext]_(Life!lifecycleVars)
  BY DEF Life!lifecycleVars, Pushed

\* A running row moves on, and the remotes do not.
LEMMA MovesOn ==
    ASSUME row = "running", UNCHANGED <<spec, out>>,
           \/ row' = "queued" /\ ~Pushed
           \/ /\ row' \in Terminal \cup {"awaiting_approval"}
              /\ row' = "success" => ~Parks(spec)
              /\ row' = "awaiting_approval" => Parks(spec)
    PROVE  [Life!LNext]_(Life!lifecycleVars)
<1>1. Pushed' = Pushed
  BY DEF Pushed
<1>2. CASE row' = "queued" /\ ~Pushed
  <2>1. Life!Requeue(1)
    BY <1>1, <1>2, OneJob DEF Life!Requeue, Pushed
  <2> QED
    BY <2>1, OneJob, SameRunWords DEF Life!LNext
<1>3. CASE /\ row' \in Terminal \cup {"awaiting_approval"}
           /\ row' = "success" => ~Parks(spec)
           /\ row' = "awaiting_approval" => Parks(spec)
  <2>1. Life!Conclude(1)
    BY <1>1, <1>3, OneJob, SameRunWords DEF Life!Conclude, Pushed
  <2> QED
    BY <2>1, OneJob, SameRunWords DEF Life!LNext
<1> QED
  BY <1>2, <1>3

\* A repository's change reaches its remote, the first or a further one.
LEMMA Pushes ==
    ASSUME RunTypeOK, RunInv, UNCHANGED <<spec, row>>, pc \in Delivering,
           spec.deliverable \in Pushing, Pushed'
    PROVE  [Life!LNext]_(Life!lifecycleVars)
<1>1. CASE Pushed
  BY <1>1, Unmoved
<1>2. CASE ~Pushed
  <2>1. row = "running" /\ ~Parks(spec)
    BY DEF RunInv, RowFollows, Delivering
  <2>2. spec.mode # "plan"
    BY <2>1 DEF Parks, Pushing, Mutating
  <2>3. Life!Push(1)
    BY <1>2, <2>1, <2>2, OneJob, SameRunWords DEF Life!Push, Pushed
  <2> QED
    BY <2>3, OneJob, SameRunWords DEF Life!LNext
<1> QED
  BY <1>1, <1>2

LEMMA RunRefinesInit == Init => Life!LInit
  BY OneJob, SameRunWords, BlankIsSpec DEF Init, Life!LInit

LEMMA RunRefinesStep ==
    RunTypeOK /\ RunInv /\ [Next]_vars => [Life!LNext]_(Life!lifecycleVars)
<1> SUFFICES ASSUME RunTypeOK, RunInv, [Next]_vars
             PROVE  [Life!LNext]_(Life!lifecycleVars)
  OBVIOUS
<1> USE DEF durable, engine, work
<1>1. CASE Create
  <2>1. PICK q \in Requests :
           spec' = [instance |-> q.instance, session |-> q.session,
                    deliverable |-> q.deliverable, mode |-> q.mode,
                    origin |-> "operator", source |-> NoJob]
    BY <1>1 DEF Create
  <2>2. spec' \in JobSpec
    BY <2>1, RequestSpec, JobRunAssumption
  <2>3. Pushed' = Pushed
    BY <1>1 DEF Create, Pushed
  <2>4. Life!Submit(1)
    BY <1>1, <2>1, <2>2, <2>3, OneJob, SameRunWords
    DEF Create, Life!Submit, Life!Reviewed, Pushed
  <2> QED
    BY <2>4, OneJob, SameRunWords DEF Life!LNext
<1>2. CASE Claim
  <2>1. Life!Dispatch(1)
    BY <1>2, OneJob DEF Claim, Life!Dispatch
  <2> QED
    BY <2>1, OneJob, SameRunWords DEF Life!LNext
<1>3. CASE Load
  <2>1. row = "running" /\ ~Pushed
    BY <1>3, NothingOut DEF Load, Pushed, RunInv, RowFollows, Early, Returning
  <2>2. CASE row' = "running"
    BY <1>3, <2>1, <2>2, Unmoved DEF Load, Pushed
  <2>3. CASE row' # "running"
    <3>1. row' \in {"queued", "error"} /\ UNCHANGED <<spec, out>>
      BY <1>3, <2>3 DEF Load, SaveJob
    <3> QED
      BY <2>1, <3>1, MovesOn, RunWords
  <2> QED
    BY <2>2, <2>3
<1>4. CASE Deliver
  <2>1. pc \in Delivering /\ UNCHANGED <<spec, row>>
    BY <1>4 DEF Deliver, Delivering
  <2>2. CASE out' = out
    BY <2>1, <2>2, Unmoved DEF Pushed
  <2>3. CASE spec.deliverable = "patch" /\ out' = [out EXCEPT ![next] = "patch"]
    <3>1. ~Pushed
      BY <2>3 DEF Pushed, RunInv, RightKind, Pushing
    <3>2. ~Pushed'
      BY <2>3, <3>1 DEF Pushed, RunTypeOK
    <3>3. Pushed' = Pushed
      BY <3>1, <3>2 DEF Pushed
    <3> QED
      BY <2>1, <3>3, Unmoved
  <2>4. CASE spec.deliverable \in Pushing /\ out' = [out EXCEPT ![next] = "pushed"]
    <3>1. next \in Repos
      BY <1>4, SettingType DEF Deliver, RunTypeOK, Repos
    <3>2. Pushed'
      BY <2>4, <3>1 DEF Pushed, RunTypeOK
    <3> QED
      BY <2>1, <2>4, <3>2, Pushes
  <2> QED
    BY <1>4, <2>2, <2>3, <2>4 DEF Deliver, Leaves
<1>5. CASE OpenPr
  <2>1. UNCHANGED <<spec, row>> /\ pc \in Delivering /\ spec.deliverable \in Pushing
        /\ next \in Repos
    BY <1>5, SettingType DEF OpenPr, Delivering, RunInv, RightKind, Pushing, RunTypeOK, Repos
  <2>2. Pushed'
    BY <1>5, <2>1 DEF OpenPr, Leaves, Pushed, RunTypeOK
  <2> QED
    BY <2>1, <2>2, Pushes
<1>6. CASE FinalSave
  <2>1. row = "running" /\ row' = mem /\ UNCHANGED <<spec, out>>
    BY <1>6 DEF FinalSave, SaveJob, RunInv, RowFollows
  <2>2. CASE mem = "running"
    BY <2>1, <2>2, Unmoved DEF Pushed
  <2>3. CASE mem # "running"
    BY <1>6, <2>1, <2>3, MovesOn DEF FinalSave, RunInv, RowFollows, Ending
  <2> QED
    BY <2>2, <2>3
<1>7. CASE Requeue
  <2>1. row = "running" /\ row' = "queued" /\ UNCHANGED <<spec, out>>
    BY <1>7 DEF Requeue, SaveJob, RunInv, RowFollows
  <2>2. ~Pushed
    BY <1>7, NothingOut DEF Requeue, Pushed, RunInv, RowFollows, Returning
  <2> QED
    BY <2>1, <2>2, MovesOn
<1>8. CASE Recover
  <2>1. row = "running" /\ UNCHANGED <<spec, out>>
    BY <1>8 DEF Recover
  <2>2. CASE spec.deliverable \in ReadOnly
    <3>1. ~Pushed
      BY <2>2 DEF Pushed, RunInv, Departed, ReadOnly, Mutating
    <3> QED
      BY <1>8, <2>1, <2>2, <3>1, MovesOn DEF Recover
  <2>3. CASE spec.deliverable \notin ReadOnly
    BY <1>8, <2>1, <2>3, MovesOn, RunWords DEF Recover
  <2> QED
    BY <2>2, <2>3
<1>9. ASSUME UNCHANGED <<spec, row, out>>
      PROVE  [Life!LNext]_(Life!lifecycleVars)
  BY <1>9, Unmoved DEF Pushed
<1>10. CASE \/ TogglePause \/ Authenticate \/ Prepare \/ Raise \/ EngineOk \/ EngineLost
            \/ CheckPasses \/ CheckFails \/ Fix \/ DeliverDone \/ Cleanup \/ Report
            \/ OrphanWrites \/ OrphanEnds \/ Crash \/ UNCHANGED vars
  <2>1. UNCHANGED <<spec, row, out>>
    BY <1>10 DEF TogglePause, Authenticate, Prepare, Raise, EngineOk, EngineLost, CheckPasses,
       CheckFails, Fix, DeliverDone, Cleanup, Report, OrphanWrites, OrphanEnds, Crash, vars
  <2> QED
    BY <2>1, <1>9
<1>11. ASSUME NEW c \in ErrorClass, EngineFails(c)
       PROVE  [Life!LNext]_(Life!lifecycleVars)
  BY <1>9, <1>11 DEF EngineFails
<1> QED
  BY <1>1, <1>2, <1>3, <1>4, <1>5, <1>6, <1>7, <1>8, <1>10, <1>11 DEF Next, RunStep

\* Whatever engine, checks and git answer and wherever the process dies, a
\* run keeps the life cycle: terminal statuses are final, a pushed job is
\* never queued again, a plan never pushes (runner.py:306, store.py:496).
THEOREM RunRefinement == Spec => ImplementsLifecycle
<1>1. Spec => [](RunTypeOK /\ RunInv)
  BY RunInvariant
<1> QED
  BY <1>1, RunRefinesInit, RunRefinesStep, PTL DEF Spec, ImplementsLifecycle, Life!LSpec
=============================================================================
