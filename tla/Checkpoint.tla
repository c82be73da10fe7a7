----------------------------- MODULE Checkpoint -----------------------------
(***************************************************************************)
(* The training loop of RayAgentTrainer.fit (arft/ray_agent_trainer.py)    *)
(* against its checkpoints on disk: _save_checkpoint and _load_checkpoint  *)
(* (verl/verl/trainer/ppo/ray_trainer.py) with the rotation of             *)
(* FSDPCheckpointManager.  The process may be killed between any two       *)
(* writes and started again with the same command.                         *)
(*                                                                         *)
(* One training step is one action; the weights of a model are the number  *)
(* of updates they went through.  The shards that the ranks write into one *)
(* directory are one part, whole or not.  The loop runs over one epoch of  *)
(* EpochLength batches: what the stateful data loader resumes at the end   *)
(* of an epoch is decided outside this repository.  async_save is off.     *)
(***************************************************************************)
EXTENDS Integers, FiniteSets

CONSTANTS
  TotalSteps,   \* total_training_steps
  EpochLength,  \* len(train_dataloader)
  SaveFreq,     \* save_freq; 0 for never
  MaxKeep,      \* max_actor_ckpt_to_keep, max_critic_ckpt_to_keep; 0 for null
  CriticWarmup  \* critic_warmup: the first step that updates the actor

ASSUME StepsAssumption ==
  /\ TotalSteps \in Nat \ {0}
  /\ EpochLength \in Nat \ {0}
  /\ TotalSteps <= EpochLength
ASSUME SavingAssumption == SaveFreq \in Nat /\ MaxKeep \in Nat
ASSUME WarmupAssumption == CriticWarmup \in Nat

VARIABLES
  \* on disk
  saved,       \* saved[m][s]: the actor or critic directory of global_step_s
  data,        \* data[s]: global_step_s/data.pt
  tracker,     \* latest_checkpointed_iteration.txt
  \* in the process
  pc,          \* where fit() is
  globalSteps, \* global_steps
  weights,     \* weights[m]: updates that actor and critic went through
  position,    \* batches the data loader has handed out
  previous     \* previous_saved_paths of each checkpoint manager, as steps

disk == <<saved, data, tracker>>
memory == <<globalSteps, weights, position, previous>>
vars == <<disk, pc, memory>>

-----------------------------------------------------------------------------
Models == {"actor", "critic"}

Steps == 1..EpochLength

\* What is on disk under one name: nothing, an unfinished write, or a value.
Absent == -1
Torn == -2
Content == {Absent, Torn} \union Nat

\* The stages of _save_checkpoint: each part is opened, then written; a model's
\* directory is preceded by the removal of old ones.
Saving == {"rotate actor", "open actor", "write actor",
           "rotate critic", "open critic", "write critic",
           "open data", "write data", "open tracker", "write tracker"}

Fresh == [m \in Models |-> 0]

Init ==
  /\ saved = [m \in Models |-> [s \in Steps |-> Absent]]
  /\ data = [s \in Steps |-> Absent]
  /\ tracker = Absent
  /\ pc = "down"
  /\ globalSteps = 0
  /\ weights = Fresh
  /\ position = 0
  /\ previous = [m \in Models |-> {}]

-----------------------------------------------------------------------------
(***************************************************************************)
(* Starting: _load_checkpoint with resume_mode "auto".                     *)
(***************************************************************************)
Startable == pc \in {"down", "finished"}

\* No step is left in the epoch: the loop body never runs.
LoopPc(loaded) == IF loaded < EpochLength THEN "train" ELSE "finished"

FromScratch ==
  /\ Startable
  /\ tracker = Absent
  /\ globalSteps' = 1
  /\ weights' = Fresh
  /\ position' = 0
  /\ previous' = [m \in Models |-> {}]
  /\ pc' = LoopPc(0)
  /\ UNCHANGED disk

Loadable(s) == /\ \A m \in Models : saved[m][s] \notin {Absent, Torn}
               /\ data[s] # Torn

\* Mutant of Resume: the data loader starts again.
Resume_DataFromScratch(s) ==
  /\ Startable
  /\ tracker = s
  /\ Loadable(s)
  /\ globalSteps' = s + 1
  /\ weights' = [m \in Models |-> saved[m][s]]
  /\ position' = 0
  /\ previous' = [m \in Models |-> {}]
  /\ pc' = LoopPc(s)
  /\ UNCHANGED disk

\* The managers are new: they do not know of the paths saved by earlier processes.
Resume(s) ==
  /\ Startable
  /\ tracker = s
  /\ Loadable(s)
  /\ globalSteps' = s + 1
  /\ weights' = [m \in Models |-> saved[m][s]]
  /\ position' = IF data[s] = Absent THEN 0 ELSE data[s]
  /\ previous' = [m \in Models |-> {}]
  /\ pc' = LoopPc(s)
  /\ UNCHANGED disk

\* The tracker is not a number, or a file it leads to is missing or cut off:
\* the load raises, and would again.
Refuse ==
  /\ Startable
  /\ tracker # Absent
  /\ tracker \in Steps => ~Loadable(tracker)
  /\ pc' = "refused"
  /\ UNCHANGED <<disk, memory>>

-----------------------------------------------------------------------------
(***************************************************************************)
(* One turn of the loop.                                                   *)
(***************************************************************************)
IsLastStep == globalSteps >= TotalSteps

\* esi: the capacity the job runs on is about to expire.
SaveDue(esi) ==
  SaveFreq > 0 /\ (IsLastStep \/ globalSteps % SaveFreq = 0 \/ esi)

\* Mutant of NextTurn: the last step is not noticed.
NextTurn_NeverLast == pc' = "train" /\ globalSteps' = globalSteps + 1

\* global_steps is raised at the end of the turn.
NextTurn == IF IsLastStep
            THEN pc' = "finished" /\ UNCHANGED globalSteps
            ELSE pc' = "train" /\ globalSteps' = globalSteps + 1

\* Whether step g updates the model: the actor waits for the critic's warm-up.
Updated(m, g) == m = "critic" \/ CriticWarmup <= g

Train(esi) ==
  /\ pc = "train"
  /\ weights' = [m \in Models |->
                   IF Updated(m, globalSteps) THEN weights[m] + 1 ELSE weights[m]]
  /\ position' = position + 1
  /\ IF SaveDue(esi)
     THEN pc' = "rotate actor" /\ UNCHANGED globalSteps
     ELSE NextTurn
  /\ UNCHANGED <<disk, previous>>

-----------------------------------------------------------------------------
(***************************************************************************)
(* _save_checkpoint.                                                       *)
(***************************************************************************)
\* Mutant of Rotated: one path too many is removed.
Rotated_OneTooMany(m) ==
  IF MaxKeep = 0 THEN {}
  ELSE {s \in previous[m] : Cardinality({t \in previous[m] : t > s}) >= MaxKeep - 2}

\* Mutant of Rotated: nothing is ever removed.
Rotated_Never(m) == {}

\* previous_saved_paths[:keep_start]: all but the newest MaxKeep - 1.
Rotated(m) ==
  IF MaxKeep = 0 THEN {}
  ELSE {s \in previous[m] : Cardinality({t \in previous[m] : t > s}) >= MaxKeep - 1}

Rotating(m) == IF m = "actor" THEN "rotate actor" ELSE "rotate critic"
Opening(m) == IF m = "actor" THEN "open actor" ELSE "open critic"
Writing(m) == IF m = "actor" THEN "write actor" ELSE "write critic"
AfterWriting(m) == IF m = "actor" THEN "rotate critic" ELSE "open data"

\* Old directories go first (a half removed one loads no better than none) ...
Rotate(m) ==
  /\ pc = Rotating(m)
  /\ saved' = [saved EXCEPT ![m] =
                 [s \in Steps |-> IF s \in Rotated(m) THEN Absent ELSE saved[m][s]]]
  /\ previous' = [previous EXCEPT ![m] = @ \ Rotated(m)]
  /\ pc' = Opening(m)
  /\ UNCHANGED <<data, tracker, globalSteps, weights, position>>

\* ... then the new one is made and its first file opened.
OpenModel(m) ==
  /\ pc = Opening(m)
  /\ saved' = [saved EXCEPT ![m] = [@ EXCEPT ![globalSteps] = Torn]]
  /\ pc' = Writing(m)
  /\ UNCHANGED <<data, tracker, memory>>

WriteModel(m) ==
  /\ pc = Writing(m)
  /\ saved' = [saved EXCEPT ![m] = [@ EXCEPT ![globalSteps] = weights[m]]]
  /\ previous' = [previous EXCEPT ![m] = @ \union {globalSteps}]
  /\ pc' = AfterWriting(m)
  /\ UNCHANGED <<data, tracker, globalSteps, weights, position>>

OpenData ==
  /\ pc = "open data"
  /\ data' = [data EXCEPT ![globalSteps] = Torn]
  /\ pc' = "write data"
  /\ UNCHANGED <<saved, tracker, memory>>

WriteData ==
  /\ pc = "write data"
  /\ data' = [data EXCEPT ![globalSteps] = position]
  /\ pc' = "open tracker"
  /\ UNCHANGED <<saved, tracker, memory>>

\* open(..., "w") empties the file.
OpenTracker ==
  /\ pc = "open tracker"
  /\ tracker' = Torn
  /\ pc' = "write tracker"
  /\ UNCHANGED <<saved, data, memory>>

WriteTracker ==
  /\ pc = "write tracker"
  /\ tracker' = globalSteps
  /\ NextTurn
  /\ UNCHANGED <<saved, data, weights, position, previous>>

\* The process is killed: only the disk is left.
Crash ==
  /\ pc \notin {"down", "finished", "refused"}
  /\ pc' = "down"
  /\ globalSteps' = 0
  /\ weights' = Fresh
  /\ position' = 0
  /\ previous' = [m \in Models |-> {}]
  /\ UNCHANGED disk

-----------------------------------------------------------------------------
Refused == pc = "refused" /\ UNCHANGED vars

Next ==
  \/ FromScratch
  \/ \E s \in Steps : Resume(s)
  \/ Refuse
  \/ \E esi \in BOOLEAN : Train(esi)
  \/ \E m \in Models : Rotate(m) \/ OpenModel(m) \/ WriteModel(m)
  \/ OpenData \/ WriteData
  \/ OpenTracker \/ WriteTracker
  \/ Crash
  \/ Refused

Spec == Init /\ [][Next]_vars

-----------------------------------------------------------------------------
(***************************************************************************)
(* Properties                                                              *)
(***************************************************************************)
\* Every variable holds a value the code can store in it.
TypeOK ==
  /\ saved \in [Models -> [Steps -> Content]]
  /\ data \in [Steps -> Content]
  /\ tracker \in {Absent, Torn} \union Steps
  /\ pc \in {"down", "train", "finished", "refused"} \union Saving
  /\ globalSteps \in 0..EpochLength + 1
  /\ weights \in [Models -> Nat]
  /\ position \in Nat
  /\ previous \in [Models -> SUBSET Steps]

\* The updates that a model has had by the end of step n when no step is lost or
\* done twice.
UpdatesBy(m, n) == Cardinality({g \in 1..n : Updated(m, g)})

\* "latest checkpointed iteration tracker (for atomic usage)": whenever the
\* process is killed, the iteration on disk names a checkpoint that is whole and
\* holds the weights and the data position of that very step.
TrackedIsWhole ==
  \A s \in Steps : tracker = s =>
    /\ \A m \in Models : saved[m][s] = UpdatesBy(m, s)
    /\ data[s] = s

\* However often it was killed and resumed, a process that trains has applied to
\* both models the updates of every step so far, the actor's from the end of the
\* warm-up on, with batches none of which was skipped or repeated.
ResumesWhereItStopped ==
  pc \notin {"down", "finished", "refused"} =>
    LET trained == IF pc = "train" THEN globalSteps - 1 ELSE globalSteps IN
    /\ \A m \in Models : weights[m] = UpdatesBy(m, trained)
    /\ position = trained

\* The checkpoints that this process counts, MaxKeep of them at most, are on disk
\* and whole at every moment.  From one save to the next the two managers, which
\* rotate on their own, count the same steps, and the newest is the tracked one.
KeepsTheNewest ==
  /\ \A m \in Models :
       /\ \A s \in previous[m] : saved[m][s] = UpdatesBy(m, s)
       /\ MaxKeep > 0 => Cardinality(previous[m]) <= MaxKeep
  /\ pc = "train" =>
       /\ previous["actor"] = previous["critic"]
       /\ \A m \in Models : \A s \in previous[m] : tracker \in previous[m] /\ s <= tracker

\* "latest checkpointed iteration tracker (for atomic usage)": the tracker holds
\* the old iteration or the new one, so that no kill keeps the job from starting
\* again.  open(..., "w") makes it empty in between.
NoStartIsRefused == pc # "refused"
=============================================================================
