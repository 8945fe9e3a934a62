--------------------------- MODULE LogStreamProofs --------------------------
(***************************************************************************)
(* Proofs about LogStream for files and numbers of rounds of any length.   *)
(***************************************************************************)
EXTENDS LogStream, TLAPS

\* What the generator saw stays true: a job it found over has been closed,
\* what was there when the job closed is still there, and each file that was
\* read after that has been read at least so far.
StreamInv ==
    /\ row = "terminal" => closed
    /\ over => closed
    /\ pc = "done" => over
    /\ closed /\ ~deleted => sealed.log <= size.log /\ sealed.text <= size.text
    /\ over /\ pc \in {"text", "end", "done"} /\ ~deleted => pos.log >= sealed.log
    /\ over /\ pc \in {"end", "done"} /\ ~deleted => pos.text >= sealed.text

Lengths == [log : 0..MaxLog, text : 0..MaxText]

\* The part of the type invariant without the Boolean variables.
StreamShape ==
    /\ row \in {"queued", "running", "parked", "terminal", "absent"}
    /\ run \in {"idle", "run", "late"}
    /\ size \in Lengths /\ sealed \in Lengths /\ pos \in Lengths
    /\ pc \in {"check", "log", "text", "end", "done", "cut"}
    /\ polls \in 0..MaxPolls

LEMMA StreamTypeInit == Init => StreamTypeOK
<1> SUFFICES ASSUME Init PROVE StreamTypeOK
  OBVIOUS
<1>1. closed \in BOOLEAN /\ deleted \in BOOLEAN /\ over \in BOOLEAN
  BY Zenon DEF Init
<1> QED
  BY <1>1, StreamAssumption DEF Init, StreamTypeOK, Nothing

LEMMA StreamTypeStep == StreamTypeOK /\ [Next]_vars => StreamTypeOK'
<1> SUFFICES ASSUME StreamTypeOK, [Next]_vars PROVE StreamTypeOK'
  OBVIOUS
<1>0. /\ closed \in BOOLEAN /\ deleted \in BOOLEAN /\ over \in BOOLEAN
      /\ (row = "terminal") \in BOOLEAN /\ (closed \/ row' = "terminal") \in BOOLEAN
  BY Zenon DEF StreamTypeOK
<1>1. closed' = closed \/ closed' = (closed \/ row' = "terminal")
  BY DEF Next, Generator, vars, writer, reader, Claim, WriteLog, WriteText, FinalSave,
      Requeue, Return, Conclude, DeleteJob, Check, DrainLog, DrainText, EndRound,
      Disconnect, SaveJob
<1>2. deleted' = deleted \/ deleted' = TRUE
  BY DEF Next, Generator, vars, writer, reader, Claim, WriteLog, WriteText, FinalSave,
      Requeue, Return, Conclude, DeleteJob, Check, DrainLog, DrainText, EndRound,
      Disconnect
<1>3. over' = over \/ over' = (row = "terminal")
  BY DEF Next, Generator, vars, writer, reader, Claim, WriteLog, WriteText, FinalSave,
      Requeue, Return, Conclude, DeleteJob, Check, DrainLog, DrainText, EndRound,
      Disconnect
<1>4. closed' \in BOOLEAN /\ deleted' \in BOOLEAN /\ over' \in BOOLEAN
  BY <1>0, <1>1, <1>2, <1>3, Zenon
<1>5. StreamShape'
  <2> USE StreamAssumption DEF StreamTypeOK, StreamShape, Lengths
  <2>1. CASE Claim \/ Return \/ Disconnect \/ Check \/ UNCHANGED vars
    BY <2>1 DEF Claim, Return, Disconnect, Check, vars, writer, reader
  <2>2. CASE WriteLog \/ WriteText
    BY <2>2 DEF WriteLog, WriteText, reader
  <2>3. CASE FinalSave \/ Requeue \/ Conclude
    BY <2>3 DEF FinalSave, Requeue, Conclude, SaveJob, reader
  <2>4. CASE DeleteJob
    BY <2>4 DEF DeleteJob, Nothing, reader
  <2>5. CASE DrainLog \/ DrainText
    BY <2>5 DEF DrainLog, DrainText, Read, writer
  <2>6. CASE EndRound
    BY <2>6 DEF EndRound, Over, LastRound, writer
  <2> QED
    BY <2>1, <2>2, <2>3, <2>4, <2>5, <2>6 DEF Next, Generator
<1> QED
  BY <1>4, <1>5 DEF StreamTypeOK, StreamShape, Lengths

LEMMA StreamInvStep == StreamTypeOK /\ StreamInv /\ [Next]_vars => StreamInv'
<1> SUFFICES ASSUME StreamTypeOK, StreamInv, [Next]_vars PROVE StreamInv'
  OBVIOUS
<1> USE StreamAssumption DEF StreamTypeOK, StreamInv
<1>1. CASE Claim \/ Return \/ Disconnect \/ UNCHANGED vars
  <2>1. CASE Claim
    BY <2>1 DEF Claim, reader
  <2>2. CASE Return
    BY <2>2 DEF Return, reader
  <2>3. CASE Disconnect
    <3>1. pc' = "cut" /\ UNCHANGED <<row, size, sealed>>
      BY <2>3 DEF Disconnect, writer
    <3>2. (closed' <=> closed) /\ (deleted' <=> deleted) /\ (over' <=> over)
      BY <2>3, Zenon DEF Disconnect, writer
    <3> QED
      BY <3>1, <3>2
  <2>4. CASE UNCHANGED vars
    BY <2>4 DEF vars, writer, reader
  <2> QED
    BY <1>1, <2>1, <2>2, <2>3, <2>4
<1>2. CASE Check
  <2>1. over' => row = "terminal"
    BY <1>2, Zenon DEF Check
  <2>2. UNCHANGED writer /\ pc' = "log" /\ pos' = pos
    BY <1>2 DEF Check
  <2> QED
    BY <2>1, <2>2 DEF writer
<1>3. CASE WriteLog \/ WriteText
  BY <1>3 DEF WriteLog, WriteText, reader
<1>4. CASE FinalSave \/ Requeue \/ Conclude
  <2>1. UNCHANGED <<reader, size, deleted>>
    BY <1>4 DEF FinalSave, Requeue, Conclude
  <2>2. PICK s \in {"queued", "parked", "terminal"} : SaveJob(s)
    BY <1>4 DEF FinalSave, Requeue, Conclude
  <2>3. /\ closed' <=> closed \/ row' = "terminal"
        /\ closed => sealed' = sealed
        /\ ~closed /\ closed' => sealed' = size
    BY <2>2 DEF SaveJob
  <2> QED
    BY <2>1, <2>3 DEF reader, Lengths
<1>5. CASE DeleteJob
  BY <1>5 DEF DeleteJob, reader
<1>6. CASE DrainLog \/ DrainText
  BY <1>6 DEF DrainLog, DrainText, Read, writer
<1>7. CASE EndRound
  BY <1>7 DEF EndRound, Over, LastRound, writer
<1> QED
  BY <1>1, <1>2, <1>3, <1>4, <1>5, <1>6, <1>7 DEF Next, Generator

\* The files, the job and the generator keep their types (server.py, the
\* event stream).
THEOREM StreamTypeCorrect == Spec => []StreamTypeOK
  BY StreamTypeInit, StreamTypeStep, PTL DEF Spec

\* However the run, the decisions and the deletions interleave with the reads
\* of the generator, a stream that says "done" has sent everything that was
\* written before the job became terminal.
THEOREM NothingLostHolds == Spec => []NothingLost
<1>1. Init => StreamTypeOK /\ StreamInv
  BY StreamTypeInit DEF Init, StreamInv
<1>2. StreamTypeOK /\ StreamInv /\ [Next]_vars => (StreamTypeOK /\ StreamInv)'
  BY StreamTypeStep, StreamInvStep
<1>3. StreamInv => NothingLost
  BY DEF StreamInv, NothingLost
<1> QED
  BY <1>1, <1>2, <1>3, PTL DEF Spec
=============================================================================
