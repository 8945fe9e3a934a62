------------------------------ MODULE Consoles ------------------------------
(***************************************************************************)
(* The other processes that write the jobs table: "agenthook run" and the  *)
(* chat REPL, which execute a job themselves; the full-screen TUI, which   *)
(* rewrites the row of the job on its page; and the deletions offered by   *)
(* the TUI and the admin API.  They share the table with the server of     *)
(* module Dispatcher and take no claim.                                    *)
(***************************************************************************)
EXTENDS Dispatcher

CONSTANT Clis   \* processes of agenthook run or chat

VARIABLES
    cpc, con, cmem,   \* as pc, on and mem, for the console processes
    page,             \* the job whose view the TUI shows
    pageMem,          \* the status in the TUI's copy of that job
    review            \* history: how each job last left awaiting_approval

cliVars == <<cpc, con, cmem>>
tuiVars == <<page, pageMem>>
consoleVars == <<vars, cpc, con, cmem, page, pageMem, review>>

\* run_job is the same code, run by a console process instead of a thread.
Cli == INSTANCE Dispatcher WITH Threads <- Clis, pc <- cpc, on <- con, mem <- cmem

CInit ==
    /\ Init
    /\ cpc = [c \in Clis |-> "idle"]
    /\ con = [c \in Clis |-> NoJob]
    /\ cmem = [c \in Clis |-> "absent"]
    /\ page = NoJob
    /\ pageMem = "absent"
    /\ review = [j \in JobIds |-> "none"]

server == <<config, phase, recover, loop, pool, exec, deciding>>
-----------------------------------------------------------------------------
(* agenthook run and chat.                                                 *)

\* run_cmd and repl: create the row, then call run_job without claiming it.
CliCreate(c, r) ==
    /\ cpc[c] = "idle"
    /\ config[r.instance] # "absent"
    /\ CreateJob(SpecOf(r, r.mode, "operator", NoJob))
    /\ cpc' = [cpc EXCEPT ![c] = "enter"]
    /\ con' = [con EXCEPT ![c] = created + 1]
    /\ cmem' = [cmem EXCEPT ![c] = "queued"]
    /\ UNCHANGED <<server, history, tuiVars>>

\* run_job up to its first save; an exception goes to the user and leaves
\* the row as it is.
CliEnter(c) ==
    /\ cpc[c] = "enter"
    /\ \/ /\ config[spec[con[c]].instance] = "active"
          /\ SaveJob(con[c], "running")
          /\ cpc' = [cpc EXCEPT ![c] = "work"]
          /\ cmem' = [cmem EXCEPT ![c] = "running"]
          /\ UNCHANGED con
       \/ Cli!Return(c) /\ UNCHANGED rows
    /\ UNCHANGED <<server, history, tuiVars>>

\* The common body of run_job.
CliWork(c) ==
    /\ \/ Cli!AuthMissing(c) \/ Cli!EngineFails(c) \/ Cli!EngineSucceeds(c)
       \/ Cli!Apply(c) \/ Cli!FinalSave(c)
    /\ UNCHANGED <<exec, tuiVars>>

\* deliver_callbacks and return: nobody puts the job back after a pause.
CliReport(c) ==
    /\ cpc[c] = "report"
    /\ told' = [told EXCEPT ![con[c]] = @ \cup {cmem[c]}]
    /\ Cli!Return(c)
    /\ UNCHANGED <<rows, server, pushes, stuck, tuiVars>>

\* The terminal is closed or the process killed.
CliKill(c) ==
    /\ cpc[c] # "idle"
    /\ Cli!Return(c)
    /\ UNCHANGED <<rows, server, history, tuiVars>>
-----------------------------------------------------------------------------
(* The TUI.  _job_view loads the job once; the user's choice is applied to *)
(* that copy however old it is by then.                                    *)

OpenPage(j) ==
    /\ status[j] # "absent"
    /\ page' = j
    /\ pageMem' = data[j]
    /\ UNCHANGED <<rows, server, history, cliVars>>

ClosePage == page' = NoJob /\ pageMem' = "absent"

\* _approve_flow: "approve" puts the same job back in the queue, and so does
\* "edit", with a note.
TuiApprove ==
    /\ pageMem = "awaiting_approval"
    /\ SaveJob(page, "queued")
    /\ ClosePage
    /\ UNCHANGED <<server, history, cliVars>>

TuiEdit ==
    /\ pageMem = "awaiting_approval"
    /\ SaveJob(page, "queued")
    /\ ClosePage
    /\ UNCHANGED <<server, history, cliVars>>

TuiReject ==
    /\ pageMem = "awaiting_approval"
    /\ SaveJob(page, "rejected")
    /\ ClosePage
    /\ UNCHANGED <<server, history, cliVars>>

\* "cancel", offered while the copy is neither terminal nor parked.
TuiCancel ==
    /\ pageMem \in {"queued", "running"}
    /\ SaveJob(page, "interrupted")
    /\ ClosePage
    /\ UNCHANGED <<server, history, cliVars>>

\* store.delete_job and store.delete_session: rows go whatever their status.
DeleteRows(S) ==
    /\ status' = [j \in JobIds |-> IF j \in S THEN "absent" ELSE status[j]]
    /\ data' = [j \in JobIds |-> IF j \in S THEN "absent" ELSE data[j]]
    /\ UNCHANGED <<created, spec>>

DeleteJob(j) ==
    /\ status[j] # "absent"
    /\ DeleteRows({j})
    /\ UNCHANGED <<server, history, cliVars, tuiVars>>

DeleteSession(s) ==
    /\ \E j \in JobIds : status[j] # "absent" /\ spec[j].session = s
    /\ DeleteRows({j \in JobIds : spec[j].session = s})
    /\ UNCHANGED <<server, history, cliVars, tuiVars>>
-----------------------------------------------------------------------------
CliStep(c) ==
    \/ \E r \in OperatorRequests : CliCreate(c, r)
    \/ CliEnter(c) \/ CliWork(c) \/ CliReport(c) \/ CliKill(c)

TuiStep ==
    \/ \E j \in JobIds : OpenPage(j) \/ DeleteJob(j)
    \/ TuiEdit \/ TuiReject \/ TuiCancel
    \/ \E s \in Sessions : DeleteSession(s)

\* review follows every step that takes a row out of awaiting_approval.
Leaves(j) == status[j] = "awaiting_approval" /\ status'[j] # "awaiting_approval"

NoteReview(how) ==
    review' = [j \in JobIds |-> IF Leaves(j) THEN how ELSE review[j]]

CNext ==
    \/ /\ \/ Next /\ UNCHANGED <<cliVars, tuiVars>>
          \/ \E c \in Clis : CliStep(c)
          \/ TuiStep
       /\ NoteReview("other")
    \/ TuiApprove /\ NoteReview("tui")

CSpec == CInit /\ [][CNext]_consoleVars
-----------------------------------------------------------------------------
(* Properties that survive the consoles.                                   *)

CTypeOK ==
    /\ TypeOK
    /\ cpc \in [Clis -> ThreadPC]
    /\ con \in [Clis -> JobIds \cup {NoJob}]
    /\ cmem \in [Clis -> RowStatus]
    /\ page \in JobIds \cup {NoJob}
    /\ pageMem \in RowStatus
    /\ review \in [JobIds -> {"none", "tui", "other"}]

\* A change a webhook asked for reaches a remote only on an instance that
\* opted into auto-apply or through an apply job whose plan left review:
\* "a webhook caller must never be able to request a direct, unreviewed
\* push" (server.py:413-414), whatever the consoles do to the rows.
ReviewedPushes ==
    \A j \in JobIds : pushes[j] > 0 =>
        /\ spec[j].origin = "hook" => spec[j].instance \in AutoApply
        /\ spec[j].origin = "apply" => review[spec[j].source] # "none"

\* However stale the page an operator acts on, the TUI and the deletions
\* never make the server push one job's change twice.
PushedAtMostOnce == \A j \in JobIds : pushes[j] <= 1

\* Beside console processes the most that can happen to a job is one push by
\* the console that created it and one by the server, whatever pauses,
\* crashes and recoveries do: the executors never bring each other to run
\* again, and a job no console created is still pushed once (cli.py:661-667,
\* chat.py:222-289, store.py:481-504).
PushedOncePerExecutor ==
    \A j \in JobIds :
        pushes[j] <= IF spec[j].origin = "operator" THEN 2 ELSE 1
-----------------------------------------------------------------------------
(* The inductive invariants behind these properties.                       *)

\* The jobs of the console processes and of the TUI are jobs where used.
ConsolesLocated ==
    /\ \A c \in Clis : cpc[c] # "idle" => con[c] \in JobIds
    /\ pageMem # "absent" => page \in JobIds

\* Ids above created are unused, and nobody works on one.
Unused ==
    /\ \A j \in JobIds : j > created =>
          status[j] = "absent" /\ spec[j] = Blank /\ pushes[j] = 0
    /\ \A t \in Threads : pc[t] # "idle" => on[t] \in 1..created
    /\ \A c \in Clis : cpc[c] # "idle" => con[c] \in 1..created
    /\ deciding # NoJob => deciding \in 1..created

\* What reaches _apply_deliverable, and what was pushed, is no plan.
Direct(j) == spec[j].deliverable \in Mutating /\ ~Parks(spec[j])

NoPlanApplied ==
    /\ \A t \in Threads : pc[t] = "apply" => Direct(on[t])
    /\ \A c \in Clis : cpc[c] = "apply" => Direct(con[c])
    /\ \A j \in JobIds : pushes[j] > 0 => Direct(j)

\* Where a job that skips the plan can come from.
DirectOrigins ==
    /\ \A j \in JobIds :
          /\ spec[j].origin = "hook" /\ Direct(j) => spec[j].instance \in AutoApply
          /\ spec[j].origin = "apply" =>
                spec[j].source \in JobIds /\ review[spec[j].source] # "none"
    /\ deciding # NoJob => review[deciding] # "none"

\* Together with CTypeOK, inductive whatever the consoles do.
ReviewInv == CopiesAgree /\ Unused /\ NoPlanApplied /\ DirectOrigins

\* A job's owner in the server: who will still move its row.
Owned(j) ==
    \/ dpc = "submit" /\ cand = j
    \/ j \in Pooled
    \/ \E t \in Threads : on[t] = j /\ Holds(t)

\* A job has at most one owner; a thread that only reports is none.
OneOwner ==
    /\ \A n, m \in 1..Len(pool) : pool[n] = pool[m] => n = m
    /\ \A t \in Threads : Holds(t) => on[t] \notin Pooled
    /\ \A t, u \in Threads : Holds(t) /\ Holds(u) /\ on[t] = on[u] => t = u
    /\ dpc = "submit" =>
          /\ cand \in 1..created /\ cand \notin Pooled
          /\ \A t \in Threads : Holds(t) => on[t] # cand
    /\ \A n \in 1..Len(pool) : pool[n] \in 1..created

\* A queued or parked row has no owner, and only plans park.
Waiting ==
    \A j \in JobIds :
        /\ status[j] \in {"queued", "awaiting_approval"} => ~Owned(j)
        /\ status[j] = "awaiting_approval" => Parks(spec[j])

\* A page that still shows a parked plan, however old, is of a plan that
\* nobody runs and that is not in the queue.
PageStale ==
    pageMem = "awaiting_approval" =>
        /\ page \in 1..created /\ Parks(spec[page])
        /\ status[page] \notin {"queued", "running"}
        /\ ~Owned(page)

\* What the phase and the program counters say.
ServerShape ==
    /\ phase \in {"down", "recovering"} => Idle /\ pool = <<>> /\ dpc = "off"
    /\ phase = "stopping" => pool = <<>>
    /\ phase = "recovering" => Running \subseteq recover
    /\ phase # "recovering" => recover = {}
    /\ \A t \in Threads :
          /\ pc[t] \in {"work", "apply", "requeue"} => mem[t] = "running"
          /\ pc[t] \in {"save", "report"} =>
                /\ mem[t] \in Terminal \cup {"running", "awaiting_approval"}
                /\ mem[t] = "awaiting_approval" => Parks(spec[on[t]])

\* A pushed job is not queued, and its owner is past the push.
PushedGone ==
    \A j \in JobIds :
        /\ pushes[j] \in {0, 1}
        /\ pushes[j] = 1 =>
              /\ status[j] # "queued"
              /\ j \notin Pooled
              /\ dpc = "submit" => cand # j
              /\ \A t \in Threads : Holds(t) /\ on[t] = j =>
                    pc[t] = "save" /\ mem[t] \in Terminal

\* Together with CTypeOK and ReviewInv, inductive while no job runs in a
\* console process.
TuiInv ==
    /\ OneOwner /\ Waiting /\ PageStale /\ ServerShape /\ NoLeakedSlot
    /\ PushedGone
-----------------------------------------------------------------------------
(* What the code and its documents say, which the consoles break.          *)

\* "Jobs are claimed atomically (queued -> running) so a job is never
\* dispatched twice" (worker.py:6-7): no job runs in a console process and
\* in the server at once.
NeverDispatchedTwice ==
    \A t \in Threads, c \in Clis :
        ~(Holds(t) /\ cpc[c] \in {"work", "apply", "save"} /\ on[t] = con[c])

\* "approved - re-queued for apply (the server picks it up)" (tui.py:2116):
\* a plan approved at the TUI does not park for approval again.
TuiApprovalApplies ==
    \A j \in JobIds : review[j] = "tui" => status[j] # "awaiting_approval"
=============================================================================
