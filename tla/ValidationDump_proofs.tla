------------------------ MODULE ValidationDump_proofs ------------------------
(***************************************************************************)
(* Proofs about ValidationDump: whatever jobs were killed before, what is  *)
(* published under the final name is a whole dump, for every size.         *)
(***************************************************************************)
EXTENDS ValidationDump, TLAPS

\* What a process that validates relies on: the partial file is its own and holds
\* what it has counted, until it has given it the final name.
OwnFile ==
  pc # "idle" =>
    IF status = "running"
    THEN partial = [kept |-> completed, cut |-> FALSE]
    ELSE complete = Whole /\ completed = Total

\* Where the process is agrees with how far it has counted.
Place ==
  /\ pc = "batch" => completed < Total /\ status = "running"
  /\ pc = "finish" => completed = Total /\ status = "running"

IInv ==
  /\ TypeOK
  /\ OwnFile
  /\ Place
  /\ CompleteIsWhole
  /\ CompletedIsPublished
  /\ ExactBetweenBatches

-----------------------------------------------------------------------------
LEMMA IInvInit == Init => IInv
  BY SizesAssumption
  DEF Init, IInv, TypeOK, OwnFile, Place, CompleteIsWhole, CompletedIsPublished,
      ExactBetweenBatches, NoProgress, Absent, Whole

\* A batch is not empty and does not reach beyond the last trajectory.
LEMMA NextBatchRange ==
  ASSUME completed \in 0..Total, completed < Total
  PROVE  /\ completed + NextBatch \in 0..Total
         /\ \A written \in 0..NextBatch - 1 : completed + written \in 0..Total
  BY SizesAssumption DEF NextBatch

LEMMA NotDoneOrDone ==
  ASSUME completed \in 0..Total
  PROVE  completed < Total \/ completed = Total
  BY SizesAssumption

LEMMA Appended ==
  ASSUME Append, OwnFile, Place
  PROVE  partial' = [kept |-> completed + NextBatch, cut |-> FALSE]
<1>1. partial = [kept |-> completed, cut |-> FALSE]
  BY DEF Append, OwnFile, Place
<1>2. partial' = [partial EXCEPT !.kept = partial.kept + NextBatch]
  BY DEF Append
<1> QED
  BY <1>1, <1>2

LEMMA RecordFacts ==
  /\ \A k \in 0..Total, c \in BOOLEAN : [kept |-> k, cut |-> c] \in Files
  /\ \A st \in {"running", "completed"}, k \in 0..Total :
       [status |-> st, completed |-> k] \in Payloads
  /\ Empty \in Files
  /\ Whole \in Files
  BY SizesAssumption DEF Files, Payloads, Empty, Whole

LEMMA TypeNext == IInv /\ [Next]_vars => TypeOK'
<1> SUFFICES ASSUME IInv, [Next]_vars PROVE TypeOK'
  OBVIOUS
<1>i. TypeOK /\ OwnFile /\ Place
  BY DEF IInv
<1> USE DEF TypeOK
<1>1. CASE Start
  <2>1. Empty \in Files /\ 0 \in 0..Total
    BY RecordFacts, SizesAssumption
  <2> QED
    BY <1>1, <1>i, <2>1 DEF Start
<1>2. CASE OpenTemporary
  BY <1>2, <1>i DEF OpenTemporary, disk
<1>3. CASE ReplaceProgress
  <2>1. progress' \in Payloads
    BY <1>3, <1>i, RecordFacts DEF ReplaceProgress
  <2>2. pc' \in {"idle", "batch", "finish"}
    BY <1>3 DEF ReplaceProgress, AfterProgress
  <2> QED
    BY <1>3, <1>i, <2>1, <2>2 DEF ReplaceProgress
<1>4. CASE GiveUp
  BY <1>4, <1>i DEF GiveUp, disk
<1>5. CASE Append
  <2>1. completed + NextBatch \in 0..Total
    BY <1>5, <1>i, NextBatchRange DEF Append, Place
  <2>2. partial' = [kept |-> completed + NextBatch, cut |-> FALSE]
    BY <1>5, <1>i, Appended
  <2>3. partial' \in Files
    BY <2>1, <2>2, RecordFacts
  <2> QED
    BY <1>5, <1>i, <2>1, <2>3 DEF Append
<1>6. CASE Finish
  BY <1>6, <1>i DEF Finish
<1>7. CASE Kill
  <2>1. ASSUME pc = "batch", NEW written \in 0..NextBatch - 1, NEW cut \in BOOLEAN,
               partial' = [kept |-> partial.kept + written, cut |-> cut]
        PROVE  partial' \in Files
    <3>1. partial.kept = completed
      BY <2>1, <1>i DEF OwnFile, Place
    <3>2. completed + written \in 0..Total
      BY <2>1, <1>i, NextBatchRange DEF Place
    <3> QED
      BY <2>1, <3>1, <3>2, RecordFacts
  <2>2. partial' \in Files \union {Absent}
    BY <1>7, <1>i, <2>1 DEF Kill
  <2> QED
    BY <1>7, <1>i, <2>2 DEF Kill
<1>8. CASE UNCHANGED vars
  BY <1>8, <1>i DEF vars, disk
<1> QED
  BY <1>1, <1>2, <1>3, <1>4, <1>5, <1>6, <1>7, <1>8 DEF Next

\* Where the process is, and what it has written.
LEMMA OwnNext == IInv /\ [Next]_vars => OwnFile' /\ Place'
<1> SUFFICES ASSUME IInv, [Next]_vars PROVE OwnFile' /\ Place'
  OBVIOUS
<1>i. TypeOK /\ OwnFile /\ Place
  BY DEF IInv
<1> USE DEF OwnFile, Place
<1>1. CASE Start
  BY <1>1 DEF Start, Empty
<1>2. CASE OpenTemporary
  BY <1>2, <1>i DEF OpenTemporary, disk
<1>3. CASE ReplaceProgress
  <2>1. /\ UNCHANGED <<partial, complete, completed, status>>
        /\ pc' = AfterProgress
        /\ pc # "idle"
    BY <1>3 DEF ReplaceProgress
  <2>2. completed < Total \/ completed = Total
    BY <1>i, NotDoneOrDone DEF TypeOK
  <2>3. status \in {"running", "completed"}
    BY <1>i DEF TypeOK
  <2> QED
    BY <1>i, <2>1, <2>2, <2>3 DEF AfterProgress
<1>4. CASE GiveUp \/ Kill
  BY <1>4 DEF GiveUp, Kill
<1>5. CASE Append
  <2>1. partial' = [kept |-> completed + NextBatch, cut |-> FALSE]
    BY <1>5, <1>i, Appended
  <2> QED
    BY <1>5, <1>i, <2>1 DEF Append
<1>6. CASE Finish
  BY <1>6, <1>i DEF Finish, Whole
<1>7. CASE UNCHANGED vars
  BY <1>7, <1>i DEF vars, disk
<1> QED
  BY <1>1, <1>2, <1>3, <1>4, <1>5, <1>6, <1>7 DEF Next

\* Only a whole partial file gets the final name, and the status comes after it.
LEMMA PublishedNext == IInv /\ [Next]_vars => CompleteIsWhole' /\ CompletedIsPublished'
<1> SUFFICES ASSUME IInv, [Next]_vars PROVE CompleteIsWhole' /\ CompletedIsPublished'
  OBVIOUS
<1>i. TypeOK /\ OwnFile /\ Place /\ CompleteIsWhole /\ CompletedIsPublished
  BY DEF IInv
<1> USE DEF CompleteIsWhole, CompletedIsPublished
<1>1. CASE ReplaceProgress
  <2>1. /\ progress' = [status |-> status, completed |-> completed]
        /\ UNCHANGED complete
        /\ pc # "idle"
    BY <1>1 DEF ReplaceProgress
  <2>2. status = "completed" => complete = Whole /\ completed = Total
    BY <1>i, <2>1 DEF OwnFile
  <2> QED
    BY <1>i, <2>1, <2>2
<1>2. CASE Finish
  <2>1. complete' = Whole /\ UNCHANGED progress
    BY <1>2, <1>i DEF Finish, OwnFile, Place, Whole
  <2> QED
    BY <1>i, <2>1
<1>3. CASE UNCHANGED <<complete, progress>>
  BY <1>3, <1>i
<1> QED
  BY <1>1, <1>2, <1>3
  DEF Next, Start, OpenTemporary, GiveUp, Append, Kill, vars, disk

\* The count that is published is that of the file.
LEMMA ExactNext == IInv /\ [Next]_vars => ExactBetweenBatches'
<1> SUFFICES ASSUME IInv, [Next]_vars PROVE ExactBetweenBatches'
  OBVIOUS
<1>i. TypeOK /\ OwnFile /\ ExactBetweenBatches
  BY DEF IInv
<1>1. CASE ReplaceProgress
  <2>1. pc' = "batch" => status = "running"
    BY <1>1, <1>i DEF ReplaceProgress, AfterProgress, TypeOK
  <2> QED
    BY <1>1, <1>i, <2>1 DEF ReplaceProgress, OwnFile, ExactBetweenBatches
<1>2. CASE UNCHANGED vars
  BY <1>2, <1>i DEF vars, disk, ExactBetweenBatches
<1>3. CASE pc' # "batch"
  BY <1>3 DEF ExactBetweenBatches
<1> QED
  BY <1>1, <1>2, <1>3 DEF Next, Start, OpenTemporary, GiveUp, Append, Finish, Kill

LEMMA Invariance == Spec => []IInv
<1>1. IInv /\ [Next]_vars => IInv'
  BY TypeNext, OwnNext, PublishedNext, ExactNext DEF IInv
<1> QED
  BY <1>1, IInvInit, PTL DEF Spec

-----------------------------------------------------------------------------
\* Under the final name there is nothing but a whole dump, for every number of
\* trajectories, every batch size and every sequence of kills and restarts.
THEOREM PublishedDumpIsWhole == Spec => []CompleteIsWhole
<1>1. IInv => CompleteIsWhole
  BY DEF IInv
<1> QED
  BY <1>1, Invariance, PTL

\* "completed" is read only beside the whole dump.
THEOREM CompletedMeansPublished == Spec => []CompletedIsPublished
<1>1. IInv => CompletedIsPublished
  BY DEF IInv
<1> QED
  BY <1>1, Invariance, PTL

\* While a job validates, the progress counts what the partial file holds.
THEOREM ProgressIsExact == Spec => []ExactBetweenBatches
<1>1. IInv => ExactBetweenBatches
  BY DEF IInv
<1> QED
  BY <1>1, Invariance, PTL

\* The files and the job keep their types, whatever is killed.
THEOREM TypeCorrect == Spec => []TypeOK
<1>1. IInv => TypeOK
  BY DEF IInv
<1> QED
  BY <1>1, Invariance, PTL
=============================================================================
