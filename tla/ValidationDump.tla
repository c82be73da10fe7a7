--------------------------- MODULE ValidationDump ---------------------------
(***************************************************************************)
(* The files that RayAgentTrainer._validate leaves for one step            *)
(* (arft/ray_agent_trainer.py): <step>.partial.jsonl, which grows by one   *)
(* batch at a time, <step>.progress.json, which counts its trajectories,   *)
(* and <step>.jsonl, the finished dump.  The job may be killed at any      *)
(* moment; a resumed job validates the step it resumed from again.         *)
(*                                                                         *)
(* The entries of one trajectory are one entry here, and a file is the     *)
(* number of its entries with the mark of a line that was cut off.         *)
(***************************************************************************)
EXTENDS Integers

CONSTANTS
  Total,               \* total_validation_trajectories
  BatchSize,           \* trajectories in a batch of val_dataloader
  RewardModelEnabled   \* reward_model.enable

ASSUME SizesAssumption ==
  /\ Total \in Nat \ {0} /\ BatchSize \in Nat \ {0}
  /\ RewardModelEnabled \in BOOLEAN

VARIABLES
  \* on disk
  partial,    \* <step>.partial.jsonl
  complete,   \* <step>.jsonl
  progress,   \* <step>.progress.json
  \* in the process
  pc,         \* where _validate is
  completed,  \* completed_validation_trajectories
  status      \* the status that is being published

disk == <<partial, complete, progress>>
vars == <<disk, pc, completed, status>>

-----------------------------------------------------------------------------
Absent == [kept |-> -1, cut |-> FALSE]
Empty == [kept |-> 0, cut |-> FALSE]
Whole == [kept |-> Total, cut |-> FALSE]
Files == [kept : 0..Total, cut : BOOLEAN]

NoProgress == [status |-> "absent", completed |-> 0]
Torn == [status |-> "torn", completed |-> 0]
Payloads == [status : {"running", "completed"}, completed : 0..Total]

\* val_dataloader drops no batch: the last one may be short.
NextBatch == IF BatchSize <= Total - completed THEN BatchSize ELSE Total - completed

Init ==
  /\ partial = Absent /\ complete = Absent /\ progress = NoProgress
  /\ pc = "idle" /\ completed = 0 /\ status = "running"

-----------------------------------------------------------------------------
\* Mutant of Start: the partial file of an earlier job is appended to.
Start_Append ==
  /\ pc = "idle"
  /\ partial' = IF partial = Absent THEN Empty ELSE partial
  /\ completed' = 0
  /\ status' = "running"
  /\ pc' = "open temporary"
  /\ UNCHANGED <<complete, progress>>

\* _prepare_validation_generation_dump: the partial file is emptied.
Start ==
  /\ pc = "idle"
  /\ partial' = Empty
  /\ completed' = 0
  /\ status' = "running"
  /\ pc' = "open temporary"
  /\ UNCHANGED <<complete, progress>>

-----------------------------------------------------------------------------
(***************************************************************************)
(* _write_validation_progress.                                             *)
(***************************************************************************)
\* Mutant of OpenTemporary: the progress is written in place.
OpenTemporary_InPlace ==
  /\ pc = "open temporary"
  /\ progress' = Torn
  /\ pc' = "replace progress"
  /\ UNCHANGED <<partial, complete, completed, status>>

\* Nobody reads the temporary file.
OpenTemporary ==
  /\ pc = "open temporary"
  /\ pc' = "replace progress"
  /\ UNCHANGED <<disk, completed, status>>

\* What _validate does next.
AfterProgress == IF status = "completed" THEN "idle"
                 ELSE IF completed < Total THEN "batch" ELSE "finish"

ReplaceProgress ==
  /\ pc = "replace progress"
  /\ progress' = [status |-> status, completed |-> completed]
  /\ pc' = AfterProgress
  /\ UNCHANGED <<partial, complete, completed, status>>

-----------------------------------------------------------------------------
(***************************************************************************)
(* The loop over the batches, and the end.                                 *)
(***************************************************************************)
\* A batch that is graded by a model: _validate returns {} at once.
GiveUp ==
  /\ pc = "batch"
  /\ RewardModelEnabled
  /\ pc' = "idle"
  /\ UNCHANGED <<disk, completed, status>>

\* Mutant of Append: the entries stay in a buffer of the process.
Append_Buffered ==
  /\ pc = "batch"
  /\ completed' = completed + NextBatch
  /\ pc' = "open temporary"
  /\ UNCHANGED <<disk, status>>

\* _append_validation_generations: written, flushed and fsynced.
Append ==
  /\ pc = "batch"
  /\ partial' = [partial EXCEPT !.kept = @ + NextBatch]
  /\ completed' = completed + NextBatch
  /\ pc' = "open temporary"
  /\ UNCHANGED <<complete, progress, status>>

\* Mutant of Finish: the status is published before the dump.
Finish_StatusFirst ==
  /\ pc = "finish"
  /\ IF status = "running"
     THEN /\ progress' = [status |-> "completed", completed |-> completed]
          /\ status' = "completed"
          /\ UNCHANGED <<partial, complete, pc>>
     ELSE /\ complete' = partial
          /\ partial' = Absent
          /\ pc' = "idle"
          /\ UNCHANGED <<progress, status>>
  /\ UNCHANGED completed

\* _finish_validation_generation_dump: the dump gets its name, then the status.
Finish ==
  /\ pc = "finish"
  /\ complete' = partial
  /\ partial' = Absent
  /\ status' = "completed"
  /\ pc' = "open temporary"
  /\ UNCHANGED <<progress, completed>>

\* A kill during an append leaves any prefix of the batch.
Kill ==
  /\ pc # "idle"
  /\ \/ UNCHANGED partial
     \/ /\ pc = "batch"
        /\ \E written \in 0..NextBatch - 1, cut \in BOOLEAN :
             partial' = [kept |-> partial.kept + written, cut |-> cut]
  /\ pc' = "idle"
  /\ UNCHANGED <<complete, progress, completed, status>>

Next == \/ Start
        \/ OpenTemporary \/ ReplaceProgress
        \/ GiveUp \/ Append \/ Finish
        \/ Kill

Spec == Init /\ [][Next]_vars

-----------------------------------------------------------------------------
(***************************************************************************)
(* Properties                                                              *)
(***************************************************************************)
\* Every variable holds a value the code can store in it; a reader of the
\* progress never sees part of it.
TypeOK ==
  /\ partial \in Files \union {Absent}
  /\ complete \in Files \union {Absent}
  /\ progress \in Payloads \union {NoProgress}
  /\ pc \in {"idle", "open temporary", "replace progress", "batch", "finish"}
  /\ completed \in 0..Total
  /\ status \in {"running", "completed"}

\* "Atomically publish a complete validation dump": under the final name there is
\* never anything but one entry per trajectory, whatever jobs were killed before.
CompleteIsWhole == complete \in {Absent, Whole}

\* The status "completed" is read only when the dump is there.
CompletedIsPublished ==
  progress.status = "completed" => complete = Whole /\ progress.completed = Total

\* Between two batches the progress is exactly what the partial file holds.
ExactBetweenBatches ==
  pc = "batch" => /\ progress = [status |-> "running", completed |-> completed]
                  /\ partial = [kept |-> completed, cut |-> FALSE]
=============================================================================
