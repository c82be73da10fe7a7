-------------------------- MODULE Checkpoint_proofs --------------------------
(***************************************************************************)
(* Proofs about Checkpoint: when more than one checkpoint is kept, the     *)
(* tracked one is whole and a resumed job continues at its exact step,     *)
(* wherever the process is killed.                                         *)
(***************************************************************************)
EXTENDS Checkpoint, FiniteSetTheorems, WellFoundedInduction, TLAPS

Running == pc \notin {"down", "finished", "refused"}

\* The stages at which a model's directory of this step has been written.
Written(m) ==
  {"open data", "write data", "open tracker", "write tracker"}
    \union (IF m = "actor" THEN {"rotate critic", "open critic", "write critic"} ELSE {})

\* A process that runs is at a step of the epoch.
TypeInv == TypeOK /\ (Running => globalSteps \in Steps)

-----------------------------------------------------------------------------
(***************************************************************************)
(* The inductive invariant behind TrackedIsWhole.                          *)
(***************************************************************************)
\* While it saves, what the process has written of this step is whole.
WrittenIsWhole ==
  /\ \A m \in Models : pc \in Written(m) => saved[m][globalSteps] = UpdatesBy(m, globalSteps)
  /\ pc \in {"open tracker", "write tracker"} => data[globalSteps] = globalSteps

\* The process only knows of paths of this and of earlier steps.
PreviousIsPast == Running => \A m \in Models : \A s \in previous[m] : s <= globalSteps

\* The tracker is behind the step that is being made, and of the paths that the
\* process knows of, none but the one just written is newer than the tracked one:
\* rotation, which spares the newest, cannot reach it.
TrackedIsNewest ==
  Running /\ pc # "write tracker" =>
    /\ tracker \in Steps => tracker < globalSteps
    /\ \A m \in Models : \A s \in previous[m] :
         \/ s = globalSteps /\ pc \in Written(m)
         \/ tracker \in Steps /\ s <= tracker

IInv ==
  /\ TypeInv
  /\ ResumesWhereItStopped
  /\ WrittenIsWhole
  /\ PreviousIsPast
  /\ TrackedIsNewest
  /\ TrackedIsWhole

-----------------------------------------------------------------------------
(***************************************************************************)
(* The updates of a model, step by step.                                   *)
(***************************************************************************)
LEMMA UpdatesByType ==
  ASSUME NEW m, NEW n \in Nat
  PROVE  /\ UpdatesBy(m, n) \in Nat
         /\ IsFiniteSet({g \in 1..n : Updated(m, g)})
<1>1. IsFiniteSet(1..n)
  BY FS_Interval
<1>2. {g \in 1..n : Updated(m, g)} \in SUBSET (1..n)
  OBVIOUS
<1> QED
  BY <1>1, <1>2, FS_Subset, FS_CardinalityType DEF UpdatesBy

LEMMA UpdatesByIsFixed == \A m, n : UpdatesBy(m, n)' = UpdatesBy(m, n)
  BY DEF UpdatesBy, Updated

LEMMA UpdatesByNothing ==
  ASSUME NEW m
  PROVE  UpdatesBy(m, 0) = 0
<1>1. {g \in 1..0 : Updated(m, g)} = {}
  OBVIOUS
<1> QED
  BY <1>1, FS_EmptySet DEF UpdatesBy

LEMMA UpdatesByStep ==
  ASSUME NEW m, NEW n \in Nat \ {0}
  PROVE  UpdatesBy(m, n) = IF Updated(m, n) THEN UpdatesBy(m, n - 1) + 1 ELSE UpdatesBy(m, n - 1)
<1> DEFINE before == {g \in 1..(n - 1) : Updated(m, g)}
           now == {g \in 1..n : Updated(m, g)}
<1>1. IsFiniteSet(before) /\ Cardinality(before) = UpdatesBy(m, n - 1) /\ n \notin before
  <2>1. n - 1 \in Nat /\ n \notin 1..(n - 1)
    OBVIOUS
  <2> QED
    BY <2>1, UpdatesByType DEF UpdatesBy
<1>2. now = IF Updated(m, n) THEN before \union {n} ELSE before
  <2>1. \A g : g \in 1..n <=> g \in 1..(n - 1) \/ g = n
    OBVIOUS
  <2> QED
    BY <2>1
<1>3. UpdatesBy(m, n) = Cardinality(now)
  BY DEF UpdatesBy
<1> HIDE DEF before, now
<1>4. Cardinality(before \union {n}) = Cardinality(before) + 1
  BY <1>1, FS_AddElement
<1> QED
  BY <1>1, <1>2, <1>3, <1>4

-----------------------------------------------------------------------------
\* The variables keep their types, and the step counter its range.
LEMMA TypeInvInit == Init => TypeInv
  BY StepsAssumption DEF Init, TypeInv, TypeOK, Running, Content, Fresh, Models, Steps, Absent, Torn

LEMMA NextTurnRange ==
  ASSUME globalSteps \in Steps, NextTurn
  PROVE  /\ pc' \in {"train", "finished"}
         /\ globalSteps' \in Steps
         /\ globalSteps' \in 0..EpochLength + 1
  BY StepsAssumption DEF NextTurn, IsLastStep, Steps

LEMMA TypeInvNext == TypeInv /\ [Next]_vars => TypeInv'
<1> SUFFICES ASSUME TypeInv, [Next]_vars PROVE TypeInv'
  OBVIOUS
<1> USE DEF TypeInv, TypeOK, Running
<1>1. CASE FromScratch
  BY <1>1, StepsAssumption DEF FromScratch, LoopPc, disk, Fresh, Models, Steps, Content
<1>2. ASSUME NEW s \in Steps, Resume(s) PROVE TypeInv'
  <2>1. \A m \in Models : saved[m][s] \in Nat
    BY <1>2 DEF Resume, Loadable, Content
  <2>2. data[s] \in Nat \union {Absent}
    BY <1>2 DEF Resume, Loadable, Content
  <2>3. s + 1 \in 1..EpochLength + 1 /\ (s < EpochLength => s + 1 \in Steps)
    BY StepsAssumption DEF Steps
  <2>4. weights' \in [Models -> Nat] /\ position' \in Nat /\ previous' \in [Models -> SUBSET Steps]
    BY <1>2, <2>1, <2>2 DEF Resume
  <2> QED
    BY <1>2, <2>3, <2>4, StepsAssumption DEF Resume, LoopPc, disk, Steps
<1>3. CASE Refuse
  BY <1>3 DEF Refuse, disk, memory
<1>4. ASSUME NEW esi \in BOOLEAN, Train(esi) PROVE TypeInv'
  <2>1. /\ weights' = [m \in Models |-> IF Updated(m, globalSteps) THEN weights[m] + 1
                                         ELSE weights[m]]
        /\ position' = position + 1
    BY <1>4 DEF Train
  <2>3. weights' \in [Models -> Nat] /\ position' \in Nat
    BY <2>1
  <2>2. UNCHANGED globalSteps \/ NextTurn
    BY <1>4 DEF Train
  <2>6. pc' \in {"train", "finished", "rotate actor"}
    BY <1>4 DEF Train, NextTurn
  <2>7. globalSteps \in Steps
    BY <1>4 DEF Train
  <2>4. globalSteps' \in Steps /\ globalSteps' \in 0..EpochLength + 1
    BY <2>2, <2>7, NextTurnRange
  <2>5. UNCHANGED <<saved, data, tracker, previous>>
    BY <1>4 DEF Train, disk
  <2> QED
    BY <2>3, <2>4, <2>5, <2>6 DEF Saving
<1>5. ASSUME NEW m \in Models, Rotate(m) PROVE TypeInv'
  <2>1. globalSteps \in Steps
    BY <1>5 DEF Rotate, Rotating, Models
  <2>2. saved' \in [Models -> [Steps -> Content]]
    BY <1>5 DEF Rotate, Content
  <2>3. previous' \in [Models -> SUBSET Steps]
    BY <1>5 DEF Rotate
  <2>4. pc' \in Saving
    BY <1>5 DEF Rotate, Opening, Models, Saving
  <2> QED
    BY <1>5, <2>1, <2>2, <2>3, <2>4 DEF Rotate
<1>13. ASSUME NEW m \in Models, OpenModel(m) PROVE TypeInv'
  <2>1. globalSteps \in Steps
    BY <1>13 DEF OpenModel, Opening, Models
  <2>2. saved' \in [Models -> [Steps -> Content]]
    BY <1>13, <2>1 DEF OpenModel, Content
  <2>3. pc' \in Saving
    BY <1>13 DEF OpenModel, Writing, Models, Saving
  <2> QED
    BY <1>13, <2>1, <2>2, <2>3 DEF OpenModel, memory
<1>6. ASSUME NEW m \in Models, WriteModel(m) PROVE TypeInv'
  <2>1. globalSteps \in Steps
    BY <1>6 DEF WriteModel, Writing, Models
  <2>2. saved' \in [Models -> [Steps -> Content]]
    BY <1>6, <2>1 DEF WriteModel, Content
  <2>3. previous' \in [Models -> SUBSET Steps]
    BY <1>6, <2>1 DEF WriteModel
  <2>4. pc' \in Saving
    BY <1>6 DEF WriteModel, AfterWriting, Models, Saving
  <2> QED
    BY <1>6, <2>1, <2>2, <2>3, <2>4 DEF WriteModel
<1>7. CASE OpenData
  BY <1>7 DEF OpenData, memory, Content, Saving
<1>8. CASE WriteData
  BY <1>8 DEF WriteData, memory, Content, Saving
<1>9. CASE OpenTracker
  BY <1>9 DEF OpenTracker, memory, Saving
<1>10. CASE WriteTracker
  <2>1. globalSteps \in Steps
    BY <1>10 DEF WriteTracker
  <2>2. pc' \in {"train", "finished"} /\ globalSteps' \in Steps
    BY <1>10, <2>1, NextTurnRange DEF WriteTracker
  <2>3. globalSteps' \in 0..EpochLength + 1
    BY <2>2, StepsAssumption DEF Steps
  <2> QED
    BY <1>10, <2>1, <2>2, <2>3 DEF WriteTracker
<1>11. CASE Crash
  BY <1>11, StepsAssumption DEF Crash, disk, Fresh
<1>12. CASE UNCHANGED vars
  BY <1>12 DEF vars, disk, memory
<1> QED
  BY <1>1, <1>2, <1>3, <1>4, <1>5, <1>6, <1>7, <1>8, <1>9, <1>10, <1>11, <1>12, <1>13
  DEF Next, Refused

\* TypeOK of fit() and its checkpoints, for every number of steps, save frequency
\* and number of checkpoints kept.
THEOREM TypeCorrect == Spec => []TypeOK
<1>1. TypeInv => TypeOK
  BY DEF TypeInv
<1> QED
  BY <1>1, TypeInvInit, TypeInvNext, PTL DEF Spec
-----------------------------------------------------------------------------
(***************************************************************************)
(* Each part of the inductive invariant is preserved.                      *)
(***************************************************************************)
LEMMA IInvInit == Init => IInv
  BY TypeInvInit DEF IInv, Init, ResumesWhereItStopped, WrittenIsWhole, PreviousIsPast,
     TrackedIsNewest, TrackedIsWhole, Running, Written,
     Steps, Absent, Torn

\* Weights and data position move together with the step counter.
LEMMA ResumesNext == IInv /\ [Next]_vars => ResumesWhereItStopped'
<1> SUFFICES ASSUME IInv, [Next]_vars PROVE ResumesWhereItStopped'
  OBVIOUS
<1> USE DEF IInv, ResumesWhereItStopped
<1>t. TypeOK
  BY DEF TypeInv
<1>1. CASE FromScratch
  BY <1>1, UpdatesByIsFixed, UpdatesByNothing DEF FromScratch, LoopPc, Fresh
<1>2. ASSUME NEW s \in Steps, Resume(s) PROVE ResumesWhereItStopped'
  <2>1. \A m \in Models : saved[m][s] = UpdatesBy(m, s)
    BY <1>2 DEF Resume, TrackedIsWhole
  <2>2. data[s] = s /\ s # Absent /\ s \in Int /\ (s + 1) - 1 = s
    BY <1>2 DEF Resume, TrackedIsWhole, Steps, Absent
  <2>3. /\ \A m \in Models : weights'[m] = UpdatesBy(m, s)
        /\ position' = s
        /\ globalSteps' = s + 1
        /\ pc' \in {"train", "finished"}
    BY <1>2, <2>1, <2>2 DEF Resume, LoopPc
  <2> QED
    BY UpdatesByIsFixed, <2>2, <2>3
<1>3. CASE Refuse
  BY <1>3 DEF Refuse
<1>4. ASSUME NEW esi \in BOOLEAN, Train(esi) PROVE ResumesWhereItStopped'
  <2>1. globalSteps \in Int /\ (globalSteps - 1) + 1 = globalSteps /\ (globalSteps + 1) - 1 = globalSteps
    BY <1>t DEF TypeOK
  <2>2. /\ \A m \in Models : weights[m] = UpdatesBy(m, globalSteps - 1)
        /\ position = globalSteps - 1
    BY <1>4 DEF Train
  <2>3. /\ \A m \in Models : weights'[m] = UpdatesBy(m, globalSteps)
        /\ position' = globalSteps
    <3>1. /\ weights' = [m \in Models |-> IF Updated(m, globalSteps) THEN weights[m] + 1
                                           ELSE weights[m]]
          /\ position' = position + 1
      BY <1>4 DEF Train
    <3>2. globalSteps \in Nat \ {0}
      <4>1. pc = "train"
        BY <1>4 DEF Train
      <4>2. globalSteps \in Steps
        BY <4>1 DEF TypeInv, Running
      <4> QED
        BY <4>2, StepsAssumption DEF Steps
    <3>3. \A m \in Models : UpdatesBy(m, globalSteps) = IF Updated(m, globalSteps)
                                                        THEN UpdatesBy(m, globalSteps - 1) + 1
                                                        ELSE UpdatesBy(m, globalSteps - 1)
      BY <3>2, UpdatesByStep
    <3> QED
      BY <2>1, <2>2, <3>1, <3>3
  <2>4. CASE UNCHANGED globalSteps /\ pc' # "train"
    BY UpdatesByIsFixed, <2>3, <2>4
  <2>5. CASE globalSteps' = globalSteps + 1 /\ pc' = "train"
    BY UpdatesByIsFixed, <2>1, <2>3, <2>5
  <2>6. CASE pc' = "finished"
    BY <2>6
  <2> QED
    BY <1>4, <2>4, <2>5, <2>6 DEF Train, NextTurn
<1>5. ASSUME NEW m \in Models, Rotate(m) \/ OpenModel(m) \/ WriteModel(m)
      PROVE  ResumesWhereItStopped'
  BY <1>5, UpdatesByIsFixed
  DEF Rotate, OpenModel, WriteModel, memory, Rotating, Opening, Writing, AfterWriting, Models
<1>6. CASE OpenData \/ WriteData \/ OpenTracker
  BY <1>6, UpdatesByIsFixed DEF OpenData, WriteData, OpenTracker, memory
<1>7. CASE WriteTracker
  <2>1. globalSteps \in Int /\ (globalSteps + 1) - 1 = globalSteps
    BY <1>t DEF TypeOK
  <2>2. (\A m \in Models : weights[m] = UpdatesBy(m, globalSteps)) /\ position = globalSteps
    BY <1>7 DEF WriteTracker
  <2>3. CASE globalSteps' = globalSteps + 1 /\ pc' = "train"
    BY <1>7, UpdatesByIsFixed, <2>1, <2>2, <2>3 DEF WriteTracker
  <2>4. CASE pc' = "finished"
    BY <2>4
  <2> QED
    BY <1>7, <2>3, <2>4 DEF WriteTracker, NextTurn
<1>8. CASE Crash
  BY <1>8 DEF Crash
<1>9. CASE UNCHANGED vars
  BY <1>9, UpdatesByIsFixed DEF vars, memory
<1> QED
  BY <1>1, <1>2, <1>3, <1>4, <1>5, <1>6, <1>7, <1>8, <1>9 DEF Next, Refused

\* A later stage of the save does not undo an earlier one.
LEMMA WrittenNext == IInv /\ [Next]_vars => WrittenIsWhole'
<1> SUFFICES ASSUME IInv, [Next]_vars PROVE WrittenIsWhole'
  OBVIOUS
<1> USE DEF IInv, WrittenIsWhole, Written, Models
<1>t. TypeOK
  BY DEF TypeInv
<1>1. CASE FromScratch \/ (\E s \in Steps : Resume(s)) \/ Refuse \/ Crash
  BY <1>1 DEF FromScratch, Resume, Refuse, Crash, LoopPc
<1>2. ASSUME NEW esi \in BOOLEAN, Train(esi) PROVE WrittenIsWhole'
  BY <1>2 DEF Train, NextTurn
<1>3. CASE WriteTracker
  BY <1>3 DEF WriteTracker, NextTurn
<1>4. ASSUME NEW m \in Models, Rotate(m) \/ OpenModel(m) PROVE WrittenIsWhole'
  <2>1. \A n \in Models : n # m => saved'[n] = saved[n]
    BY <1>4, <1>t DEF Rotate, OpenModel, TypeOK
  <2>2. pc \notin Written(m) /\ pc' \notin Written(m)
    BY <1>4 DEF Rotate, OpenModel, Rotating, Opening, Writing
  <2>3. \A n \in Models : pc' \in Written(n) => pc \in Written(n) /\ n # m
    BY <1>4, <2>2 DEF Rotate, OpenModel, Rotating, Opening, Writing
  <2>4. UNCHANGED globalSteps /\ pc' \notin {"open tracker", "write tracker"}
    BY <1>4 DEF Rotate, OpenModel, Opening, Writing, memory
  <2> QED
    BY UpdatesByIsFixed, <2>1, <2>3, <2>4
<1>5. ASSUME NEW m \in Models, WriteModel(m) PROVE WrittenIsWhole'
  <2>1. weights[m] = UpdatesBy(m, globalSteps) /\ globalSteps \in Steps
    BY <1>5 DEF WriteModel, Writing, ResumesWhereItStopped, TypeInv, Running
  <2>2. \A n \in Models : saved'[n][globalSteps] = IF n = m THEN UpdatesBy(m, globalSteps)
                                                   ELSE saved[n][globalSteps]
    BY <1>5, <1>t, <2>1 DEF WriteModel, TypeOK
  <2> QED
    BY <1>5, UpdatesByIsFixed, <2>1, <2>2 DEF WriteModel, Writing, AfterWriting
<1>6. CASE OpenData \/ OpenTracker
  BY <1>6, UpdatesByIsFixed DEF OpenData, OpenTracker, memory
<1>7. CASE WriteData
  <2>1. position = globalSteps /\ globalSteps \in Steps
    BY <1>7 DEF WriteData, ResumesWhereItStopped, TypeInv, Running
  <2> QED
    BY <1>7, <1>t, UpdatesByIsFixed, <2>1 DEF WriteData, TypeOK, memory
<1>8. CASE UNCHANGED vars
  BY <1>8, UpdatesByIsFixed DEF vars, disk, memory
<1> QED
  BY <1>1, <1>2, <1>3, <1>4, <1>5, <1>6, <1>7, <1>8 DEF Next, Refused

\* The step counter of a running process never falls back.
LEMMA PreviousNext == IInv /\ [Next]_vars => PreviousIsPast'
<1> SUFFICES ASSUME IInv, [Next]_vars PROVE PreviousIsPast'
  OBVIOUS
<1> USE DEF IInv, PreviousIsPast, Running
<1>t. TypeOK /\ (globalSteps \in Int) /\ \A m \in Models : previous[m] \subseteq Int
  BY DEF TypeInv, TypeOK, Steps
<1>1. CASE FromScratch \/ (\E s \in Steps : Resume(s)) \/ Refuse \/ Crash
  BY <1>1 DEF FromScratch, Resume, Refuse, Crash
<1>2. CASE (\E esi \in BOOLEAN : Train(esi)) \/ WriteTracker
  <2>1. UNCHANGED previous /\ (globalSteps' = globalSteps \/ globalSteps' = globalSteps + 1) /\ Running
    BY <1>2 DEF Train, WriteTracker, NextTurn
  <2>2. ASSUME NEW m \in Models, NEW s \in previous'[m] PROVE s <= globalSteps'
    BY <1>t, <2>1, <2>2
  <2> QED
    BY <2>2
<1>3. ASSUME NEW m \in Models, Rotate(m) \/ OpenModel(m) PROVE PreviousIsPast'
  <2>1. Running /\ UNCHANGED globalSteps
    BY <1>3 DEF Rotate, OpenModel, Rotating, Opening, memory
  <2>2. \A n \in Models : previous'[n] \subseteq previous[n]
    BY <1>3, <1>t DEF Rotate, OpenModel, TypeOK, memory
  <2> QED
    BY <2>1, <2>2
<1>4. ASSUME NEW m \in Models, WriteModel(m) PROVE PreviousIsPast'
  <2>1. Running /\ UNCHANGED globalSteps
    BY <1>4 DEF WriteModel, Writing
  <2>2. \A n \in Models : previous'[n] \subseteq previous[n] \union {globalSteps}
    BY <1>4, <1>t DEF WriteModel, TypeOK
  <2> QED
    BY <1>t, <2>1, <2>2
<1>5. CASE OpenData \/ WriteData \/ OpenTracker
  BY <1>5 DEF OpenData, WriteData, OpenTracker, memory
<1>6. CASE UNCHANGED vars
  BY <1>6 DEF vars, memory
<1> QED
  BY <1>1, <1>2, <1>3, <1>4, <1>5, <1>6 DEF Next, Refused

\* The tracked step stays behind the one in the making, and stays the newest.
LEMMA NewestNext == IInv /\ [Next]_vars => TrackedIsNewest'
<1> SUFFICES ASSUME IInv, [Next]_vars PROVE TrackedIsNewest'
  OBVIOUS
<1>i. TrackedIsNewest /\ PreviousIsPast /\ TypeInv /\ TypeOK
  BY DEF IInv, TypeInv
<1>s. \A s \in Steps : s \in Int /\ s < s + 1
  BY DEF Steps
<1>t. globalSteps \in Int /\ globalSteps < globalSteps + 1
  BY <1>i DEF TypeOK
<1>1. CASE FromScratch
  <2>1. tracker' = Absent /\ \A m \in Models : previous'[m] = {}
    BY <1>1 DEF FromScratch, disk
  <2>2. Absent \notin Steps
    BY DEF Absent, Steps
  <2> QED
    BY <2>1, <2>2 DEF TrackedIsNewest
<1>2. ASSUME NEW s \in Steps, Resume(s) PROVE TrackedIsNewest'
  <2>1. tracker' = s /\ globalSteps' = s + 1 /\ \A m \in Models : previous'[m] = {}
    BY <1>2 DEF Resume, disk
  <2> QED
    BY <1>s, <2>1 DEF TrackedIsNewest
<1>3. CASE Refuse \/ Crash
  BY <1>3 DEF Refuse, Crash, TrackedIsNewest, Running
<1>4. ASSUME NEW esi \in BOOLEAN, Train(esi) PROVE TrackedIsNewest'
  <2>1. UNCHANGED <<previous, tracker>> /\ (globalSteps' = globalSteps \/ globalSteps' = globalSteps + 1)
    BY <1>4 DEF Train, NextTurn, disk
  <2>2. Running /\ pc # "write tracker" /\ \A m \in Models : pc \notin Written(m)
    BY <1>4 DEF Train, Running, Written
  <2>3. tracker \in Steps => tracker < globalSteps
    BY <1>i, <2>2 DEF TrackedIsNewest
  <2>4. tracker \in Steps => tracker < globalSteps'
    BY <1>s, <1>t, <2>1, <2>3
  <2>5. \A m \in Models : \A s \in previous[m] : tracker \in Steps /\ s <= tracker
    BY <1>i, <2>2 DEF TrackedIsNewest
  <2> QED
    BY <2>1, <2>4, <2>5 DEF TrackedIsNewest
<1>5. ASSUME NEW m \in Models, Rotate(m) \/ OpenModel(m) PROVE TrackedIsNewest'
  <2>1. Running /\ pc # "write tracker" /\ UNCHANGED <<globalSteps, tracker>>
    BY <1>5 DEF Rotate, OpenModel, Rotating, Opening, Running, memory
  <2>2. \A n \in Models : previous'[n] \subseteq previous[n]
    BY <1>5, <1>i DEF Rotate, OpenModel, TypeOK, memory
  <2>3. \A n \in Models : pc \in Written(n) => pc' \in Written(n)
    BY <1>5 DEF Rotate, OpenModel, Rotating, Opening, Writing, Written, Models
  <2> QED
    BY <1>i, <2>1, <2>2, <2>3 DEF TrackedIsNewest
<1>6. ASSUME NEW m \in Models, WriteModel(m) PROVE TrackedIsNewest'
  <2>1. Running /\ pc # "write tracker" /\ UNCHANGED <<globalSteps, tracker>>
    BY <1>6 DEF WriteModel, Writing, Running
  <2>2. \A n \in Models : \A s \in previous'[n] : s \in previous[n] \/ (s = globalSteps /\ n = m)
    BY <1>6, <1>i DEF WriteModel, TypeOK
  <2>3. \A n \in Models : pc \in Written(n) \/ n = m => pc' \in Written(n)
    BY <1>6 DEF WriteModel, Writing, AfterWriting, Written, Models
  <2> QED
    BY <1>i, <2>1, <2>2, <2>3 DEF TrackedIsNewest
<1>7. CASE OpenData \/ WriteData
  <2>1. Running /\ pc # "write tracker" /\ UNCHANGED <<globalSteps, tracker, previous>>
    BY <1>7 DEF OpenData, WriteData, memory, Running
  <2>2. \A n \in Models : pc' \in Written(n)
    BY <1>7 DEF OpenData, WriteData, Written
  <2> QED
    BY <1>i, <2>1, <2>2 DEF TrackedIsNewest
<1>8. CASE OpenTracker
  BY <1>8 DEF OpenTracker, TrackedIsNewest
<1>9. CASE WriteTracker
  <2>1. tracker' = globalSteps /\ UNCHANGED previous /\ globalSteps \in Steps
    BY <1>9, <1>i DEF WriteTracker, TypeInv, Running
  <2>2. Running' => globalSteps' = globalSteps + 1
    BY <1>9 DEF WriteTracker, NextTurn, Running
  <2>3. \A m \in Models : \A s \in previous[m] : s <= globalSteps
    BY <1>9, <1>i DEF WriteTracker, PreviousIsPast, Running
  <2> QED
    BY <1>t, <2>1, <2>2, <2>3 DEF TrackedIsNewest
<1>10. CASE UNCHANGED vars
  BY <1>10, <1>i DEF vars, disk, memory, TrackedIsNewest, Running
<1> QED
  BY <1>1, <1>2, <1>3, <1>4, <1>5, <1>6, <1>7, <1>8, <1>9, <1>10 DEF Next, Refused

-----------------------------------------------------------------------------
\* Rotation spares the newest path when more than one is kept.
LEMMA NewestIsSpared ==
  ASSUME MaxKeep # 1, NEW m \in Models, NEW t,
         \A s \in previous[m] : ~(s > t)
  PROVE  t \notin Rotated(m)
<1>1. CASE MaxKeep = 0
  BY <1>1 DEF Rotated
<1>2. CASE MaxKeep # 0
  <2>1. {s \in previous[m] : s > t} = {}
    OBVIOUS
  <2>2. Cardinality({}) = 0
    BY FS_EmptySet
  <2>3. ~(0 >= MaxKeep - 1)
    BY <1>2, SavingAssumption
  <2> QED
    BY <1>2, <2>1, <2>2, <2>3 DEF Rotated
<1> QED
  BY <1>1, <1>2

\* Neither rotation nor the next save reaches the tracked checkpoint.
LEMMA WholeNext == MaxKeep # 1 /\ IInv /\ [Next]_vars => TrackedIsWhole'
<1> SUFFICES ASSUME MaxKeep # 1, IInv, [Next]_vars PROVE TrackedIsWhole'
  OBVIOUS
<1>i. TrackedIsWhole /\ TrackedIsNewest /\ TypeOK
  BY DEF IInv, TypeInv
<1>s. Steps \subseteq Int /\ Torn \notin Steps
  BY DEF Steps, Torn
<1>1. ASSUME UNCHANGED disk PROVE TrackedIsWhole'
  BY <1>1, <1>i, UpdatesByIsFixed DEF disk, TrackedIsWhole
<1>2. ASSUME NEW m \in Models, Rotate(m) PROVE TrackedIsWhole'
  <2> SUFFICES ASSUME NEW t \in Steps, tracker = t
               PROVE  (\A n \in Models : saved'[n][t] = UpdatesBy(n, t)) /\ data[t] = t
    BY <1>2, UpdatesByIsFixed DEF Rotate, TrackedIsWhole
  <2>1. Running /\ pc # "write tracker" /\ pc \notin Written(m)
    BY <1>2 DEF Rotate, Rotating, Running, Written, Models
  <2>2. t < globalSteps /\ \A s \in previous[m] : s <= t
    BY <1>i, <2>1 DEF TrackedIsNewest
  <2>3. \A s \in previous[m] : ~(s > t)
    BY <1>i, <1>s, <2>2 DEF TypeOK
  <2>4. t \notin Rotated(m)
    BY <2>3, NewestIsSpared
  <2>5. \A n \in Models : saved'[n][t] = saved[n][t]
    BY <1>2, <1>i, <2>4 DEF Rotate, TypeOK
  <2> QED
    BY <1>i, <2>5 DEF TrackedIsWhole
<1>3. ASSUME NEW m \in Models, OpenModel(m) \/ WriteModel(m) PROVE TrackedIsWhole'
  <2> SUFFICES ASSUME NEW t \in Steps, tracker = t
               PROVE  (\A n \in Models : saved'[n][t] = UpdatesBy(n, t)) /\ data[t] = t
    BY <1>3, UpdatesByIsFixed DEF OpenModel, WriteModel, TrackedIsWhole
  <2>1. Running /\ pc # "write tracker"
    BY <1>3 DEF OpenModel, WriteModel, Opening, Writing, Running
  <2>2. t < globalSteps
    BY <1>i, <2>1 DEF TrackedIsNewest
  <2>3. t # globalSteps
    BY <1>i, <1>s, <2>2 DEF TypeOK
  <2>4. \A n \in Models : saved'[n][t] = saved[n][t]
    BY <1>3, <1>i, <2>3 DEF OpenModel, WriteModel, TypeOK
  <2> QED
    BY <1>i, <2>4 DEF TrackedIsWhole
<1>4. CASE OpenData \/ WriteData
  <2> SUFFICES ASSUME NEW t \in Steps, tracker = t
               PROVE  (\A n \in Models : saved[n][t] = UpdatesBy(n, t)) /\ data'[t] = t
    BY <1>4, UpdatesByIsFixed DEF OpenData, WriteData, TrackedIsWhole
  <2>1. Running /\ pc # "write tracker"
    BY <1>4 DEF OpenData, WriteData, Running
  <2>2. t < globalSteps
    BY <1>i, <2>1 DEF TrackedIsNewest
  <2>3. t # globalSteps
    BY <1>i, <1>s, <2>2 DEF TypeOK
  <2>4. data'[t] = data[t]
    BY <1>4, <1>i, <2>3 DEF OpenData, WriteData, TypeOK
  <2> QED
    BY <1>i, <2>4 DEF TrackedIsWhole
<1>5. CASE OpenTracker
  BY <1>5, <1>s DEF OpenTracker, TrackedIsWhole
<1>6. CASE WriteTracker
  <2>1. /\ \A m \in Models : saved[m][globalSteps] = UpdatesBy(m, globalSteps)
        /\ data[globalSteps] = globalSteps
    BY <1>6 DEF WriteTracker, IInv, WrittenIsWhole, Written
  <2> QED
    BY <1>6, UpdatesByIsFixed, <2>1 DEF WriteTracker, TrackedIsWhole
<1> QED
  BY <1>1, <1>2, <1>3, <1>4, <1>5, <1>6
  DEF Next, FromScratch, Resume, Refuse, Train, Crash, Refused, vars

-----------------------------------------------------------------------------
LEMMA Invariance == MaxKeep # 1 => (Spec => []IInv)
<1> SUFFICES ASSUME MaxKeep # 1 PROVE Spec => []IInv
  OBVIOUS
<1>1. IInv /\ [Next]_vars => IInv'
  <2> SUFFICES ASSUME IInv, [Next]_vars PROVE IInv'
    OBVIOUS
  <2>1. TypeInv'
    BY TypeInvNext DEF IInv
  <2> QED
    BY <2>1, ResumesNext, WrittenNext, PreviousNext, NewestNext, WholeNext DEF IInv
<1> QED
  BY <1>1, IInvInit, PTL DEF Spec

\* When more than one checkpoint is kept (or all of them), the iteration on disk
\* names a whole checkpoint at every moment of every sequence of kills and
\* restarts, for every length of the run and every save frequency.
THEOREM TrackedCheckpointIsWhole == MaxKeep # 1 => (Spec => []TrackedIsWhole)
<1>1. IInv => TrackedIsWhole
  BY DEF IInv
<1> QED
  BY <1>1, Invariance, PTL

\* ... and a resumed process goes on at the very step, weights and batch.
THEOREM ResumeIsExact == MaxKeep # 1 => (Spec => []ResumesWhereItStopped)
<1>1. IInv => ResumesWhereItStopped
  BY DEF IInv
<1> QED
  BY <1>1, Invariance, PTL

-----------------------------------------------------------------------------
(***************************************************************************)
(* What rotation leaves.                                                   *)
(***************************************************************************)
LEMMA SmallestStep ==
  ASSUME NEW S \in SUBSET Nat, S # {}
  PROVE  \E x \in S : \A y \in S : y # x => y > x
<1>1. PICK x \in S : \A y \in S : ~(<<y, x>> \in OpToRel(<, Nat))
  BY NatLessThanWellFounded, WFMin, Zenon
<1>2. \A y \in S : ~(y < x)
  BY <1>1 DEF OpToRel
<1> QED
  BY <1>2

\* Rotation leaves room for one more: of what it leaves, all but the oldest are
\* newer than the oldest, and those are fewer than MaxKeep - 1.
LEMMA RotationMakesRoom ==
  ASSUME TypeOK, MaxKeep > 0, NEW m \in Models
  PROVE  Cardinality(previous[m] \ Rotated(m)) <= MaxKeep - 1
<1> DEFINE P == previous[m]
           R == P \ Rotated(m)
<1>1. P \in SUBSET Steps /\ P \in SUBSET Nat /\ IsFiniteSet(P) /\ MaxKeep \in Nat
  <2>1. P \in SUBSET Steps  BY DEF TypeOK
  <2>2. IsFiniteSet(Steps)  BY StepsAssumption, FS_Interval DEF Steps
  <2>3. IsFiniteSet(P)  BY <2>1, <2>2, FS_Subset
  <2>4. P \in SUBSET Nat  BY <2>1 DEF Steps
  <2> QED
    BY <2>1, <2>3, <2>4, SavingAssumption
<1>2. \A s \in R : s \in P /\ ~(Cardinality({t \in P : t > s}) >= MaxKeep - 1)
  BY SavingAssumption DEF Rotated
<1>3. R \in SUBSET P /\ IsFiniteSet(R) /\ Cardinality(R) \in Nat
  <2>1. R \in SUBSET P  OBVIOUS
  <2> QED
    BY <1>1, <2>1, FS_Subset, FS_CardinalityType
<1> SUFFICES Cardinality(R) <= MaxKeep - 1
  OBVIOUS
<1> HIDE DEF R, P
<1>4. CASE R = {}
  <2>1. Cardinality(R) = 0  BY <1>4, FS_EmptySet
  <2> QED
    BY <1>1, <2>1
<1>5. CASE R # {}
  <2>1. PICK x \in R : \A y \in R : y # x => y > x
    BY <1>1, <1>3, <1>5, SmallestStep
  <2> DEFINE newer == {t \in P : t > x}
  <2>2. newer \in SUBSET P /\ IsFiniteSet(newer) /\ Cardinality(newer) \in Nat
    <3>1. newer \in SUBSET P  OBVIOUS
    <3> QED
      BY <1>1, <3>1, FS_Subset, FS_CardinalityType
  <2>3. R \ {x} \in SUBSET newer
    BY <1>3, <2>1
  <2>4. ~(Cardinality(newer) >= MaxKeep - 1)
    BY <1>2, <2>1
  <2> HIDE DEF newer
  <2>5. Cardinality(R \ {x}) <= Cardinality(newer)
    BY <2>2, <2>3, FS_Subset
  <2>6. Cardinality(R \ {x}) = Cardinality(R) - 1
    BY <1>3, <2>1, FS_RemoveElement
  <2> QED
    BY <1>1, <1>3, <2>2, <2>4, <2>5, <2>6
<1> QED
  BY <1>4, <1>5

\* The first half of KeepsTheNewest, and the room that rotation makes: from then
\* until its directory is written, a path is not yet counted.
CountedAreWhole ==
  \A m \in Models :
    /\ \A s \in previous[m] : saved[m][s] = UpdatesBy(m, s)
    /\ MaxKeep > 0 => Cardinality(previous[m]) <= MaxKeep

RoomToWrite ==
  MaxKeep > 0 => \A m \in Models : pc \in {Opening(m), Writing(m)} =>
                                     Cardinality(previous[m]) <= MaxKeep - 1

KeptInv == CountedAreWhole /\ RoomToWrite

LEMMA KeptForgotten ==
  ASSUME previous' = [m \in Models |-> {}]
  PROVE  KeptInv'
  BY FS_EmptySet, SavingAssumption DEF KeptInv, CountedAreWhole, RoomToWrite

LEMMA KeptUntouched ==
  ASSUME KeptInv, UNCHANGED <<saved, previous>>,
         \A m \in Models : pc' \notin {Opening(m), Writing(m)}
  PROVE  KeptInv'
  BY UpdatesByIsFixed DEF KeptInv, CountedAreWhole, RoomToWrite

LEMMA KeptRotate ==
  ASSUME IInv, KeptInv, NEW m \in Models, Rotate(m)
  PROVE  KeptInv'
<1>1. /\ pc' = Opening(m) /\ TypeOK
      /\ previous' = [previous EXCEPT ![m] = @ \ Rotated(m)]
  BY DEF Rotate, IInv, TypeInv
<1>2. ASSUME NEW n \in Models, NEW s \in previous'[n] PROVE saved'[n][s] = UpdatesBy(n, s)
  <2>1. s \in previous[n] /\ s \in Steps /\ saved[n][s] = UpdatesBy(n, s)
    BY <1>1, <1>2 DEF KeptInv, CountedAreWhole, TypeOK
  <2>2. n = m => s \notin Rotated(m)
    BY <1>1, <1>2 DEF TypeOK
  <2> QED
    BY <1>1, <2>1, <2>2 DEF Rotate, TypeOK
<1>3. ASSUME MaxKeep > 0, NEW n \in Models
      PROVE  /\ Cardinality(previous'[n]) <= MaxKeep
             /\ pc' \in {Opening(n), Writing(n)} => Cardinality(previous'[n]) <= MaxKeep - 1
  <2>1. CASE n # m
    <3>1. previous'[n] = previous[n]
      BY <1>1, <2>1 DEF TypeOK
    <3>2. pc' \notin {Opening(n), Writing(n)}
      <4>1. (m = "actor" /\ n = "critic") \/ (m = "critic" /\ n = "actor")
        BY <2>1 DEF Models
      <4> QED
        BY <1>1, <4>1 DEF Opening, Writing
    <3> QED
      BY <1>3, <3>1, <3>2 DEF KeptInv, CountedAreWhole
  <2>2. CASE n = m
    <3>1. previous'[n] = previous[m] \ Rotated(m)
      BY <1>1, <2>2 DEF TypeOK
    <3>2. Cardinality(previous'[n]) <= MaxKeep - 1
      BY <1>1, <1>3, <3>1, RotationMakesRoom
    <3>3. Cardinality(previous'[n]) \in Nat
      <4>1. previous'[n] \in SUBSET Steps
        BY <1>1, <3>1 DEF TypeOK
      <4>2. IsFiniteSet(Steps)
        BY StepsAssumption, FS_Interval DEF Steps
      <4> QED
        BY <4>1, <4>2, FS_Subset, FS_CardinalityType
    <3> QED
      BY <3>2, <3>3, SavingAssumption
  <2> QED
    BY <2>1, <2>2
<1> QED
  BY <1>2, <1>3, UpdatesByIsFixed DEF KeptInv, CountedAreWhole, RoomToWrite

LEMMA KeptOpenModel ==
  ASSUME IInv, KeptInv, NEW m \in Models, OpenModel(m)
  PROVE  KeptInv'
<1>1. /\ pc = Opening(m) /\ pc' = Writing(m) /\ TypeOK /\ UNCHANGED previous
  BY DEF OpenModel, IInv, TypeInv, memory
<1>2. globalSteps \notin previous[m]
  <2>1. Running /\ pc # "write tracker" /\ pc \notin Written(m)
    BY <1>1 DEF Running, Opening, Written, Models
  <2>2. \A s \in previous[m] : tracker \in Steps /\ s <= tracker /\ tracker < globalSteps
    BY <2>1 DEF IInv, TrackedIsNewest
  <2>3. globalSteps \in Int /\ \A s \in Steps : s \in Int
    BY <1>1 DEF TypeOK, Steps
  <2> QED
    BY <2>2, <2>3
<1>3. ASSUME NEW n \in Models, NEW s \in previous[n] PROVE saved'[n][s] = UpdatesBy(n, s)
  <2>1. s \in Steps /\ saved[n][s] = UpdatesBy(n, s)
    BY <1>1 DEF KeptInv, CountedAreWhole, TypeOK
  <2>2. n = m => s # globalSteps
    BY <1>2
  <2> QED
    BY <1>1, <2>1, <2>2 DEF OpenModel, TypeOK
<1>4. \A n \in Models : pc' \in {Opening(n), Writing(n)} => pc \in {Opening(n), Writing(n)}
  BY <1>1 DEF Opening, Writing, Models
<1> QED
  BY <1>1, <1>3, <1>4, UpdatesByIsFixed DEF KeptInv, CountedAreWhole, RoomToWrite

LEMMA KeptWriteModel ==
  ASSUME IInv, KeptInv, NEW m \in Models, WriteModel(m)
  PROVE  KeptInv'
<1>1. /\ pc = Writing(m) /\ pc' = AfterWriting(m) /\ TypeOK
      /\ previous' = [previous EXCEPT ![m] = @ \union {globalSteps}]
      /\ saved' = [saved EXCEPT ![m] = [@ EXCEPT ![globalSteps] = weights[m]]]
  BY DEF WriteModel, IInv, TypeInv
<1>2. weights[m] = UpdatesBy(m, globalSteps) /\ globalSteps \in Steps
  BY <1>1 DEF IInv, TypeInv, Running, ResumesWhereItStopped, Writing, Models
<1>3. ASSUME NEW n \in Models, NEW s \in previous'[n] PROVE saved'[n][s] = UpdatesBy(n, s)
  <2>1. CASE n = m /\ s = globalSteps
    BY <1>1, <1>2, <2>1 DEF TypeOK
  <2>2. CASE ~(n = m /\ s = globalSteps)
    <3>1. s \in previous[n] /\ saved[n][s] = UpdatesBy(n, s)
      BY <1>1, <1>3, <2>2 DEF KeptInv, CountedAreWhole, TypeOK
    <3> QED
      BY <1>1, <2>2, <3>1 DEF TypeOK
  <2> QED
    BY <2>1, <2>2
<1>4. ASSUME MaxKeep > 0, NEW n \in Models PROVE Cardinality(previous'[n]) <= MaxKeep
  <2>1. CASE n # m
    BY <1>1, <1>4, <2>1 DEF KeptInv, CountedAreWhole, TypeOK
  <2>2. CASE n = m
    <3>1. previous'[n] = previous[m] \union {globalSteps}
      BY <1>1, <2>2 DEF TypeOK
    <3>2. Cardinality(previous[m]) <= MaxKeep - 1
      BY <1>1, <1>4 DEF KeptInv, RoomToWrite
    <3>3. IsFiniteSet(previous[m]) /\ Cardinality(previous[m]) \in Nat
      <4>1. previous[m] \in SUBSET Steps
        BY <1>1 DEF TypeOK
      <4>2. IsFiniteSet(Steps)
        BY StepsAssumption, FS_Interval DEF Steps
      <4> QED
        BY <4>1, <4>2, FS_Subset, FS_CardinalityType
    <3>4. \/ Cardinality(previous'[n]) = Cardinality(previous[m])
          \/ Cardinality(previous'[n]) = Cardinality(previous[m]) + 1
      BY <3>1, <3>3, FS_AddElement
    <3> QED
      BY <3>2, <3>3, <3>4, SavingAssumption
  <2> QED
    BY <2>1, <2>2
<1>5. \A n \in Models : pc' \notin {Opening(n), Writing(n)}
  BY <1>1 DEF Opening, Writing, AfterWriting, Models
<1> QED
  BY <1>3, <1>4, <1>5, UpdatesByIsFixed DEF KeptInv, CountedAreWhole, RoomToWrite

LEMMA KeptNext == IInv /\ KeptInv /\ [Next]_vars => KeptInv'
<1> SUFFICES ASSUME IInv, KeptInv, [Next]_vars PROVE KeptInv'
  OBVIOUS
<1>1. CASE FromScratch \/ Crash \/ \E s \in Steps : Resume(s)
  BY <1>1, KeptForgotten DEF FromScratch, Crash, Resume
<1>2. ASSUME NEW m \in Models, Rotate(m) \/ OpenModel(m) \/ WriteModel(m) PROVE KeptInv'
  BY <1>2, KeptRotate, KeptOpenModel, KeptWriteModel
<1>3. CASE Refuse \/ OpenData \/ WriteData \/ OpenTracker \/ WriteTracker
           \/ \E esi \in BOOLEAN : Train(esi)
  <2>1. UNCHANGED <<saved, previous>>
    BY <1>3 DEF Refuse, OpenData, WriteData, OpenTracker, WriteTracker, Train, disk, memory
  <2>2. \A m \in Models : pc' \notin {Opening(m), Writing(m)}
    BY <1>3 DEF Refuse, OpenData, WriteData, OpenTracker, WriteTracker, Train, NextTurn,
                Opening, Writing, Models
  <2> QED
    BY <2>1, <2>2, KeptUntouched
<1>4. CASE UNCHANGED vars
  BY <1>4, UpdatesByIsFixed DEF vars, disk, memory, KeptInv, CountedAreWhole, RoomToWrite
<1> QED
  BY <1>1, <1>2, <1>3, <1>4 DEF Next, Refused

-----------------------------------------------------------------------------
(***************************************************************************)
(* The two managers rotate and write one after the other; what one is      *)
(* ahead of the other at each stage of a save.                             *)
(***************************************************************************)
\* What rotation leaves of the paths that a manager counts.
Left(m) == previous[m] \ Rotated(m)

AfterModels == {"open data", "write data", "open tracker", "write tracker"}

ManagersInStep ==
  /\ pc \in {"train", "rotate actor"} \union AfterModels => previous["actor"] = previous["critic"]
  /\ pc \in {"open actor", "write actor"} => previous["actor"] = Left("critic")
  /\ pc = "rotate critic" => previous["actor"] = Left("critic") \union {globalSteps}
  /\ pc \in {"open critic", "write critic"} =>
       previous["actor"] = previous["critic"] \union {globalSteps}
  /\ pc \in AfterModels => globalSteps \in previous["actor"]

\* Between saves the tracker names the newest path that is counted.
NewestIsTracked ==
  pc = "train" =>
    \A m \in Models : \A s \in previous[m] : tracker \in previous[m] /\ s <= tracker

InStepInv == ManagersInStep /\ NewestIsTracked

LEMMA InStepForgotten ==
  ASSUME previous' = [m \in Models |-> {}], pc' \in {"train", "finished", "down"}
  PROVE  InStepInv'
  BY DEF InStepInv, ManagersInStep, NewestIsTracked, AfterModels, Models

LEMMA InStepRotate ==
  ASSUME TypeOK, ManagersInStep, NEW m \in Models, Rotate(m)
  PROVE  InStepInv'
<1>1. CASE m = "actor"
  <2>1. /\ pc = "rotate actor" /\ pc' = "open actor"
        /\ previous' = [previous EXCEPT !["actor"] = @ \ Rotated("actor")]
    BY <1>1 DEF Rotate, Rotating, Opening
  <2>2. previous["actor"] = previous["critic"]
    BY <2>1 DEF ManagersInStep
  <2>3. Rotated("actor") = Rotated("critic")
    BY <2>2 DEF Rotated
  <2>4. previous'["actor"] = Left("critic") /\ previous'["critic"] = previous["critic"]
    BY <2>1, <2>2, <2>3 DEF Left, TypeOK, Models
  <2>5. Left("critic")' = Left("critic")
    BY <2>4 DEF Left, Rotated
  <2> QED
    BY <2>1, <2>4, <2>5 DEF InStepInv, ManagersInStep, NewestIsTracked, AfterModels
<1>2. CASE m = "critic"
  <2>1. /\ pc = "rotate critic" /\ pc' = "open critic" /\ UNCHANGED globalSteps
        /\ previous' = [previous EXCEPT !["critic"] = @ \ Rotated("critic")]
    BY <1>2 DEF Rotate, Rotating, Opening
  <2>2. previous["actor"] = Left("critic") \union {globalSteps}
    BY <2>1 DEF ManagersInStep
  <2>3. previous'["critic"] = Left("critic") /\ previous'["actor"] = previous["actor"]
    BY <2>1 DEF Left, TypeOK, Models
  <2> QED
    BY <2>1, <2>2, <2>3 DEF InStepInv, ManagersInStep, NewestIsTracked, AfterModels
<1> QED
  BY <1>1, <1>2 DEF Models

LEMMA InStepOpenModel ==
  ASSUME ManagersInStep, NEW m \in Models, OpenModel(m)
  PROVE  InStepInv'
<1>1. UNCHANGED <<previous, globalSteps>> /\ pc = Opening(m) /\ pc' = Writing(m)
  BY DEF OpenModel, memory
<1>2. Left("critic")' = Left("critic")
  BY <1>1 DEF Left, Rotated
<1>3. \/ pc = "open actor" /\ pc' = "write actor"
      \/ pc = "open critic" /\ pc' = "write critic"
  BY <1>1 DEF Opening, Writing, Models
<1> QED
  BY <1>1, <1>2, <1>3 DEF InStepInv, ManagersInStep, NewestIsTracked, AfterModels

LEMMA InStepWriteModel ==
  ASSUME TypeOK, ManagersInStep, NEW m \in Models, WriteModel(m)
  PROVE  InStepInv'
<1>1. CASE m = "actor"
  <2>1. /\ pc = "write actor" /\ pc' = "rotate critic" /\ UNCHANGED globalSteps
        /\ previous' = [previous EXCEPT !["actor"] = @ \union {globalSteps}]
    BY <1>1 DEF WriteModel, Writing, AfterWriting
  <2>2. /\ previous'["actor"] = Left("critic") \union {globalSteps}
        /\ previous'["critic"] = previous["critic"]
    BY <2>1 DEF ManagersInStep, TypeOK, Models
  <2>3. Left("critic")' = Left("critic")
    BY <2>2 DEF Left, Rotated
  <2> QED
    BY <2>1, <2>2, <2>3 DEF InStepInv, ManagersInStep, NewestIsTracked, AfterModels
<1>2. CASE m = "critic"
  <2>1. /\ pc = "write critic" /\ pc' = "open data" /\ UNCHANGED globalSteps
        /\ previous' = [previous EXCEPT !["critic"] = @ \union {globalSteps}]
    BY <1>2 DEF WriteModel, Writing, AfterWriting
  <2>2. previous["actor"] = previous["critic"] \union {globalSteps}
    BY <2>1 DEF ManagersInStep
  <2>3. /\ previous'["critic"] = previous["critic"] \union {globalSteps}
        /\ previous'["actor"] = previous["actor"]
    BY <2>1 DEF TypeOK, Models
  <2> QED
    BY <2>1, <2>2, <2>3 DEF InStepInv, ManagersInStep, NewestIsTracked, AfterModels
<1> QED
  BY <1>1, <1>2 DEF Models

LEMMA InStepNext == IInv /\ InStepInv /\ [Next]_vars => InStepInv'
<1> SUFFICES ASSUME IInv, InStepInv, [Next]_vars PROVE InStepInv'
  OBVIOUS
<1>t. TypeOK /\ ManagersInStep
  BY DEF IInv, TypeInv, InStepInv
<1>1. CASE FromScratch \/ Crash \/ \E s \in Steps : Resume(s)
  BY <1>1, InStepForgotten DEF FromScratch, Crash, Resume, LoopPc
<1>2. ASSUME NEW m \in Models, Rotate(m) \/ OpenModel(m) \/ WriteModel(m) PROVE InStepInv'
  BY <1>2, <1>t, InStepRotate, InStepOpenModel, InStepWriteModel
<1>3. ASSUME NEW esi \in BOOLEAN, Train(esi) PROVE InStepInv'
  <2>1. pc = "train" /\ UNCHANGED <<previous, tracker>> /\ pc' \in {"train", "rotate actor", "finished"}
    BY <1>3 DEF Train, NextTurn, disk
  <2> QED
    BY <2>1 DEF InStepInv, ManagersInStep, NewestIsTracked, AfterModels
<1>4. CASE OpenData \/ WriteData \/ OpenTracker
  <2>1. pc \in AfterModels /\ pc' \in AfterModels /\ UNCHANGED <<previous, globalSteps>>
    BY <1>4 DEF OpenData, WriteData, OpenTracker, memory, AfterModels
  <2> QED
    BY <2>1 DEF InStepInv, ManagersInStep, NewestIsTracked, AfterModels
<1>5. CASE WriteTracker
  <2>1. /\ pc = "write tracker" /\ pc' \in {"train", "finished"}
        /\ UNCHANGED previous /\ tracker' = globalSteps
    BY <1>5 DEF WriteTracker, NextTurn
  <2>2. previous["actor"] = previous["critic"] /\ globalSteps \in previous["actor"]
    BY <2>1 DEF InStepInv, ManagersInStep, AfterModels
  <2>3. \A m \in Models : \A s \in previous[m] : s <= globalSteps
    BY <2>1 DEF IInv, PreviousIsPast, Running
  <2> QED
    BY <2>1, <2>2, <2>3 DEF InStepInv, ManagersInStep, NewestIsTracked, AfterModels, Models
<1>6. CASE Refuse
  BY <1>6 DEF Refuse, InStepInv, ManagersInStep, NewestIsTracked, AfterModels
<1>7. CASE UNCHANGED vars
  <2>1. Left("critic")' = Left("critic")
    BY <1>7 DEF vars, memory, Left, Rotated
  <2> QED
    BY <1>7, <2>1 DEF vars, disk, memory, InStepInv, ManagersInStep, NewestIsTracked
<1> QED
  BY <1>1, <1>2, <1>3, <1>4, <1>5, <1>6, <1>7 DEF Next, Refused

\* What the process remembers of its checkpoints is on disk and whole, never more
\* than may be kept, and the same in both managers from one save to the next, with
\* the tracked checkpoint as the newest.
THEOREM NewestAreKept == MaxKeep # 1 => (Spec => []KeepsTheNewest)
<1>1. Init => KeptInv /\ InStepInv
  <2>1. Init => KeptInv
    BY FS_EmptySet, SavingAssumption DEF Init, KeptInv, CountedAreWhole, RoomToWrite
  <2>2. Init => InStepInv
    BY DEF Init, InStepInv, ManagersInStep, NewestIsTracked, AfterModels
  <2> QED
    BY <2>1, <2>2
<1>2. KeptInv /\ InStepInv => KeepsTheNewest
  BY DEF KeptInv, CountedAreWhole, InStepInv, ManagersInStep, NewestIsTracked, KeepsTheNewest
<1> QED
  BY <1>1, <1>2, KeptNext, InStepNext, Invariance, PTL DEF Spec
=============================================================================
