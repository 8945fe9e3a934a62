------------------------------ MODULE LogStream ------------------------------
(***************************************************************************)
(* Following a job: a run appends lines to its log and the engine's text   *)
(* to its stream file from a pool thread, while the server's generator     *)
(* polls the row, reads both files from where it stopped, and ends with    *)
(* "done" when the row says that the job is over.  Files are lengths.      *)
(***************************************************************************)
EXTENDS Naturals

CONSTANTS
    MaxLog,    \* bound: lines of the log
    MaxText,   \* bound: deltas of text
    MaxPolls   \* rounds of the generator, 1200 in the code

ASSUME StreamAssumption == {MaxLog, MaxText, MaxPolls} \subseteq Nat

VARIABLES
    row,      \* the row: "queued", "running", "parked", "terminal" or "absent"
    run,      \* the thread: "idle", "run" or "late", after its final save
    size,     \* the lengths of the two files
    closed,   \* history: the row has been terminal
    sealed,   \* history: the lengths when it first became so
    deleted,  \* history: the files were removed
    pc,       \* the generator: "check", "log", "text", "end", "done", "cut"
    over,     \* done: what its check saw
    pos,      \* log_pos and text_pos
    polls     \* rounds so far

writer == <<row, run, size, closed, sealed, deleted>>
reader == <<pc, over, pos, polls>>
vars == <<writer, reader>>

Nothing == [log |-> 0, text |-> 0]

Init ==
    /\ row = "queued" /\ run = "idle"
    /\ size = Nothing
    /\ closed = FALSE
    /\ sealed = Nothing
    /\ deleted = FALSE
    /\ pc = "check"
    /\ over = FALSE
    /\ pos = Nothing
    /\ polls = 0
-----------------------------------------------------------------------------
(* The job.                                                                *)

Claim ==
    /\ row = "queued" /\ run = "idle"
    /\ row' = "running" /\ run' = "run"
    /\ UNCHANGED <<size, closed, sealed, deleted, reader>>

\* RunContext.log; after the final save only a callback that failed.
WriteLog ==
    /\ run \in {"run", "late"} /\ size.log < MaxLog
    /\ size' = [size EXCEPT !.log = @ + 1]
    /\ run' = IF run = "late" THEN "idle" ELSE "run"
    /\ UNCHANGED <<row, closed, sealed, deleted, reader>>

\* on_text; the file of a deleted job is written, and nobody finds it.
WriteText ==
    /\ run = "run" /\ size.text < MaxText
    /\ size' = IF deleted THEN size ELSE [size EXCEPT !.text = @ + 1]
    /\ UNCHANGED <<row, run, closed, sealed, deleted, reader>>

\* save_job updates the row, if there is one.
SaveJob(s) ==
    /\ row' = IF row = "absent" THEN row ELSE s
    /\ closed' = (closed \/ row' = "terminal")
    /\ sealed' = IF closed' /\ ~closed THEN size ELSE sealed

\* _finalize's save.
FinalSave ==
    /\ run = "run"
    /\ \E s \in {"parked", "terminal"} : SaveJob(s)
    /\ run' = "late"
    /\ UNCHANGED <<size, deleted, reader>>

\* The instance was paused: the worker puts the job back.
Requeue ==
    /\ run = "run"
    /\ SaveJob("queued")
    /\ run' = "idle"
    /\ UNCHANGED <<size, deleted, reader>>

Return ==
    /\ run = "late"
    /\ run' = "idle"
    /\ UNCHANGED <<row, size, closed, sealed, deleted, reader>>

\* A decision about a parked plan, or the TUI's cancel, which does not stop
\* the thread.
Conclude ==
    /\ row \in {"parked", "queued", "running"}
    /\ SaveJob("terminal")
    /\ UNCHANGED <<run, size, deleted, reader>>

\* delete_job: the row, then the files.
DeleteJob ==
    /\ row # "absent"
    /\ row' = "absent"
    /\ size' = Nothing
    /\ deleted' = TRUE
    /\ UNCHANGED <<run, closed, sealed, reader>>
-----------------------------------------------------------------------------
(* _log_stream.                                                            *)

\* get_job, before the files are read.
Check ==
    /\ pc = "check"
    /\ over' = (row = "terminal")
    /\ pc' = "log"
    /\ UNCHANGED <<writer, pos, polls>>

\* A file that is shorter than the offset has nothing to read.
Read(file) ==
    pos' = [pos EXCEPT ![file] = IF size[file] > @ THEN size[file] ELSE @]

DrainLog ==
    /\ pc = "log"
    /\ Read("log")
    /\ pc' = "text"
    /\ UNCHANGED <<writer, over, polls>>

DrainText ==
    /\ pc = "text"
    /\ Read("text")
    /\ pc' = "end"
    /\ UNCHANGED <<writer, over, polls>>

\* Mutant: the row is looked at when the files have been read.
OverNow == row = "terminal"

Over == over

\* Mutant: no cap on the rounds.
LastNever == FALSE

LastRound == polls + 1 >= MaxPolls

\* "done"; or half a second's sleep and the next round, if there is one.
EndRound ==
    /\ pc = "end"
    /\ pc' = IF Over THEN "done" ELSE IF LastRound THEN "cut" ELSE "check"
    /\ polls' = IF polls < MaxPolls THEN polls + 1 ELSE polls
    /\ UNCHANGED <<writer, over, pos>>

Disconnect ==
    /\ pc \notin {"done", "cut"}
    /\ pc' = "cut"
    /\ UNCHANGED <<writer, over, pos, polls>>
-----------------------------------------------------------------------------
Generator == Check \/ DrainLog \/ DrainText \/ EndRound

Next ==
    \/ Claim \/ WriteLog \/ WriteText \/ FinalSave \/ Requeue \/ Return
    \/ Conclude \/ DeleteJob
    \/ Generator \/ Disconnect

Spec == Init /\ [][Next]_vars

\* The event loop resumes the generator after its sleep; nothing obliges
\* the job to go on.
FairSpec == Spec /\ WF_vars(Generator)
-----------------------------------------------------------------------------
(* Properties.                                                             *)

StreamTypeOK ==
    /\ row \in {"queued", "running", "parked", "terminal", "absent"}
    /\ run \in {"idle", "run", "late"}
    /\ size \in [log : 0..MaxLog, text : 0..MaxText]
    /\ sealed \in [log : 0..MaxLog, text : 0..MaxText]
    /\ closed \in BOOLEAN /\ deleted \in BOOLEAN
    /\ pc \in {"check", "log", "text", "end", "done", "cut"}
    /\ over \in BOOLEAN
    /\ pos \in [log : 0..MaxLog, text : 0..MaxText]
    /\ polls \in 0..MaxPolls

\* "Check terminal before draining so the final read happens after the job
\* stopped writing" (server.py:596-597): a stream that ends with "done" has
\* delivered everything written before the job became terminal, whoever made
\* it so and however the run and the reads interleave.  Only for a job whose
\* files were deleted meanwhile it has not.
NothingLost ==
    pc = "done" /\ ~deleted =>
        pos.log >= sealed.log /\ pos.text >= sealed.text

\* Every stream ends, also that of a plan that stays parked, of a job that
\* is deleted and of one that never runs ("~10 min cap", server.py:595).
StreamsEnd == <>(pc \in {"done", "cut"})
=============================================================================
