------------------------- MODULE PaperSearch_proofs -------------------------
(***************************************************************************)
(* Proofs about PaperSearch: for any number of papers, queries, steps and  *)
(* parallel calls, types are respected, every paper has one author and is  *)
(* paid for once, the pool implements the ledger of PaperLedger, and       *)
(* gather never hangs on its own coroutines.                               *)
(***************************************************************************)
EXTENDS PaperSearch, Sums_proofs

-----------------------------------------------------------------------------
(***************************************************************************)
(* Type correctness.                                                       *)
(***************************************************************************)
\* The part of the control state that the types need: the model is only asked
\* while steps remain, one entry of steps exists per finished step, and a
\* coroutine's argument fits its kind.
Control ==
  /\ pc = "generate" => numSteps < MaxSteps
  /\ pc = "tools" => numSteps \in 1..MaxSteps
  /\ pc = "generate" => DOMAIN steps = 1..numSteps
  /\ pc = "tools" => DOMAIN steps = 1..(numSteps - 1)
  /\ \A s \in Slots : /\ task[s].kind = "search" => task[s].arg \in Queries
                      /\ task[s].kind = "expand" => task[s].arg \in Papers

TypeInv == TypeOK /\ Control

USE PapersAssumption, BoundsAssumption, RewardAssumption

LEMMA CallCount ==
  ASSUME NEW reply \in Replies, NEW kind
  PROVE  CallsOfKind(reply, kind) \in Nat
<1>1. PICK n \in 0..MaxParallel : reply \in [1..n -> Calls]
  BY DEF Replies
<1>2. IsFiniteSet(1..n)
  BY FS_Interval
<1>3. {i \in DOMAIN reply : reply[i].kind = kind} \subseteq 1..n
  BY <1>1
<1>4. QED
  BY <1>2, <1>3, FS_Subset, FS_CardinalityType DEF CallsOfKind

LEMMA TypeInit == Init => TypeInv
<1>1. ASSUME Init PROVE TypeInv
  <2>1. pool \in [{} -> Entry] /\ steps \in [1..0 -> Totals]
    BY <1>1 DEF Init
  <2>2. task \in [Slots -> Task]
    BY <1>1 DEF Init, NewTask, Task, NoArg
  <2>3. \E n \in 0..MaxSteps : steps \in [1..n -> Totals]
    <3>1. 0 \in 0..MaxSteps
      OBVIOUS
    <3>2. QED
      BY <2>1, <3>1
  <2>4. \E D \in SUBSET Papers : pool \in [D -> Entry]
    <3>1. {} \in SUBSET Papers
      OBVIOUS
    <3>2. QED
      BY <2>1, <3>1
  <2>5. Control
    <3>1. DOMAIN steps = 1..numSteps /\ numSteps < MaxSteps
      BY <1>1, <2>1 DEF Init
    <3>2. \A s \in Slots : task[s].kind = "idle"
      BY <1>1 DEF Init, NewTask
    <3>3. QED
      BY <1>1, <3>1, <3>2 DEF Init, Control
  <2>6. totals \in Totals /\ numSteps \in 0..MaxSteps
    BY <1>1 DEF Init, Totals
  <2>7. QED
    BY <1>1, <2>2, <2>3, <2>4, <2>5, <2>6 DEF Init, TypeInv, TypeOK
<1>2. QED
  BY <1>1

LEMMA LaunchType ==
  ASSUME TypeInv, NEW reply \in Replies, Launch(reply)
  PROVE  TypeInv'
<1>1. PICK n \in 0..MaxParallel : reply \in [1..n -> Calls]
  BY DEF Replies
<1>2. task' \in [Slots -> Task]
  BY <1>1 DEF Launch, TypeInv, TypeOK, NewTask, Task, Calls
<1>3. totals' \in Totals
  BY CallCount DEF Launch, TypeInv, TypeOK, Totals
<1>4. Control' /\ numSteps' \in 0..MaxSteps /\ pc' \in {"generate", "tools", "done"}
  <2>1. \A s \in Slots : /\ task'[s].kind = "search" => task'[s].arg \in Queries
                         /\ task'[s].kind = "expand" => task'[s].arg \in Papers
    BY <1>1 DEF Launch, TypeInv, TypeOK, Control, NewTask, Calls
  <2>2. DOMAIN steps' = 1..(numSteps' - 1) /\ numSteps' \in 1..MaxSteps
    BY DEF Launch, TypeInv, TypeOK, Control
  <2>3. QED
    BY <2>1, <2>2 DEF Launch, Control
<1>5. QED
  BY <1>2, <1>3, <1>4 DEF Launch, TypeInv, TypeOK

LEMMA AnswerType == TypeInv /\ Answer => TypeInv'
<1>1. ASSUME TypeInv, Answer PROVE TypeInv'
  <2>1. numSteps \in Nat /\ numSteps + 1 \in 0..MaxSteps
    BY <1>1 DEF Answer, TypeInv, TypeOK, Control
  <2>2. steps \in [1..numSteps -> Totals]
    BY <1>1 DEF Answer, TypeInv, TypeOK, Control
  <2>3. steps' \in [1..(numSteps + 1) -> Totals]
    BY <1>1, <2>1, <2>2 DEF Answer, TypeInv, TypeOK
  <2>4. Control'
    BY <1>1, <2>1, <2>3 DEF Answer, TypeInv, Control
  <2>5. QED
    BY <1>1, <2>1, <2>3, <2>4 DEF Answer, TypeInv, TypeOK
<1>2. QED
  BY <1>1

LEMMA FinishStepType == TypeInv /\ FinishStep => TypeInv'
<1>1. ASSUME TypeInv, FinishStep PROVE TypeInv'
  <2>1. numSteps \in 1..MaxSteps
    BY <1>1 DEF FinishStep, TypeInv, TypeOK, Control
  <2>2. steps \in [1..(numSteps - 1) -> Totals]
    BY <1>1 DEF FinishStep, TypeInv, TypeOK, Control
  <2>3. steps' \in [1..numSteps -> Totals]
    BY <1>1, <2>1, <2>2 DEF FinishStep, TypeInv, TypeOK
  <2>4. Control' /\ pc' \in {"generate", "tools", "done"}
    BY <1>1, <2>1, <2>3 DEF FinishStep, TypeInv, TypeOK, Control, LoopPc
  <2>5. QED
    BY <1>1, <2>1, <2>3, <2>4 DEF FinishStep, TypeInv, TypeOK
<1>2. QED
  BY <1>1

\* How the shared pieces of search() and expand() change the coroutine s.
LEMMA ReturnType ==
  ASSUME task \in [Slots -> Task], NEW s \in Slots,
         NEW o \in {"none", "penalty", "failed", "nothing", "paid"}, Return(s, o)
  PROVE  task' \in [Slots -> Task]
<1>1. [task[s] EXCEPT !.phase = "done", !.outcome = o] \in Task
  BY DEF Task
<1>2. QED
  BY <1>1 DEF Return

LEMMA AwaitType ==
  ASSUME task \in [Slots -> Task], NEW s \in Slots, NEW found \in SUBSET Papers,
         Await(s, found)
  PROVE  task' \in [Slots -> Task]
<1>1. [task[s] EXCEPT !.phase = "score", !.cand = {p \in found : ~InPool(p)}] \in Task
  BY DEF Task
<1>2. QED
  BY <1>1 DEF Await

LEMMA SettleType ==
  ASSUME TypeOK, NEW s \in Slots, NEW score \in [task[s].cand -> Scores],
         task[s].kind \in {"search", "expand"}, task[s].arg \in Queries \union Papers,
         Settle(s, score)
  PROVE  /\ \E t \in Task : /\ task' = [task EXCEPT ![s] = t]
                          /\ t.kind = task[s].kind /\ t.arg = task[s].arg
                          /\ t.phase = "done"
         /\ \E D \in SUBSET Papers : pool' \in [D -> Entry]
<1> DEFINE kept == KeptPapers(s, score)
<1>1. task[s] \in Task /\ task[s].cand \subseteq Papers
  BY DEF TypeOK, Task
<1>2. kept \subseteq task[s].cand /\ kept \subseteq Papers
  BY <1>1 DEF KeptPapers
<1>3. PICK top \in SUBSET kept :
        task' = [task EXCEPT ![s] =
                   [@ EXCEPT !.phase = "done", !.cand = {}, !.kept = kept, !.credit = top,
                             !.outcome = IF kept = {} THEN "nothing" ELSE "paid"]]
  BY DEF Settle
<1>4. \E t \in Task : /\ task' = [task EXCEPT ![s] = t]
                     /\ t.kind = task[s].kind /\ t.arg = task[s].arg
                     /\ t.phase = "done"
  <2> DEFINE t == [task[s] EXCEPT !.phase = "done", !.cand = {}, !.kept = kept, !.credit = top,
                                  !.outcome = IF kept = {} THEN "nothing" ELSE "paid"]
  <2>1. t \in Task /\ t.kind = task[s].kind /\ t.arg = task[s].arg /\ t.phase = "done"
    BY <1>1, <1>2 DEF Task
  <2>2. task' = [task EXCEPT ![s] = t]
    BY <1>3
  <2>3. QED
    BY <2>1, <2>2
<1>5. PICK D \in SUBSET Papers : pool \in [D -> Entry]
  BY DEF TypeOK
<1>6. \A p \in kept : [source |-> task[s].kind, origin |-> task[s].arg,
                       score |-> score[p], expand |-> FALSE] \in Entry
  BY <1>1, <1>2 DEF Task, Entry, Scores
<1>7. pool' \in [D \union kept -> Entry]
  BY <1>5, <1>6 DEF Settle, AddPapers, InPool
<1>8. QED
  BY <1>2, <1>4, <1>7

-----------------------------------------------------------------------------
(***************************************************************************)
(* What one segment of a coroutine s does to the coroutines: it moves s,   *)
(* which has been launched and has not returned, and no other.             *)
(***************************************************************************)
Moves(s) ==
  /\ task[s].phase \in {"new", "fetch", "score"}
  /\ \E t \in Task :
       /\ task' = [task EXCEPT ![s] = t]
       /\ t.kind = task[s].kind /\ t.arg = task[s].arg
       /\ t.phase \in {"fetch", "score", "done"}
  /\ searched \subseteq searched' /\ searched' \subseteq Queries
  /\ \E D \in SUBSET Papers : pool' \in [D -> Entry]
  /\ UNCHANGED <<pc, numSteps, totals, steps>>

LEMMA StartMoves ==
  ASSUME TypeInv, NEW s \in Slots, Start(s)
  PROVE  Moves(s)
<1>1. task[s] \in Task /\ task \in [Slots -> Task]
  BY DEF TypeInv, TypeOK
<1>2. \A o \in {"penalty", "failed", "nothing"} : [task[s] EXCEPT !.phase = "done", !.outcome = o] \in Task
  BY <1>1 DEF Task
<1>3. [task[s] EXCEPT !.phase = "fetch"] \in Task
  BY <1>1 DEF Task
<1>4. PICK D \in SUBSET Papers : pool \in [D -> Entry]
  BY DEF TypeInv, TypeOK
<1>5. CASE StartSearch(s)
  <2>1. \E t \in Task :
          /\ task' = [task EXCEPT ![s] = t]
          /\ t.kind = task[s].kind /\ t.arg = task[s].arg
          /\ t.phase \in {"fetch", "score", "done"}
    <3>1. CASE task[s].arg \in searched
      BY <1>1, <1>2, <1>5, <3>1 DEF StartSearch, Return, Task
    <3>2. CASE task[s].arg \notin searched
      BY <1>1, <1>3, <1>5, <3>2 DEF StartSearch, Task
    <3>3. QED
      BY <3>1, <3>2
  <2>2. QED
    BY <1>4, <1>5, <2>1 DEF StartSearch, Starts, Moves, TypeInv, TypeOK
<1>6. CASE StartExpand(s)
  <2>1. \E t \in Task :
          /\ task' = [task EXCEPT ![s] = t]
          /\ t.kind = task[s].kind /\ t.arg = task[s].arg
          /\ t.phase \in {"fetch", "score", "done"}
    <3>1. CASE InPool(task[s].arg) /\ ~pool[task[s].arg].expand
      BY <1>1, <1>3, <1>6, <3>1 DEF StartExpand, Task
    <3>2. CASE ~(InPool(task[s].arg) /\ ~pool[task[s].arg].expand)
      BY <1>1, <1>2, <1>6, <3>2 DEF StartExpand, Return, Task
    <3>3. QED
      BY <3>1, <3>2
  <2>2. \E E \in SUBSET Papers : pool' \in [E -> Entry]
    <3>1. pool' \in [D -> Entry]
      <4>1. CASE UNCHANGED pool
        BY <1>4, <4>1
      <4>2. CASE /\ InPool(task[s].arg)
                 /\ pool' = [pool EXCEPT ![task[s].arg].expand = TRUE]
        BY <1>4, <4>2 DEF InPool, Entry
      <4>3. QED
        BY <1>6, <4>1, <4>2 DEF StartExpand
    <3>2. QED
      BY <3>1
  <2>3. QED
    BY <1>6, <2>1, <2>2 DEF StartExpand, Starts, Moves, TypeInv, TypeOK
<1>7. QED
  BY <1>5, <1>6 DEF Start

LEMMA RespondMoves ==
  ASSUME TypeInv, NEW s \in Slots, Respond(s)
  PROVE  Moves(s)
<1>1. task[s] \in Task /\ task \in [Slots -> Task]
  BY DEF TypeInv, TypeOK
<1>2. \A o \in {"penalty", "failed", "nothing"} : [task[s] EXCEPT !.phase = "done", !.outcome = o] \in Task
  BY <1>1 DEF Task
<1>3. \A found \in SUBSET Papers :
        [task[s] EXCEPT !.phase = "score", !.cand = {p \in found : ~InPool(p)}] \in Task
  BY <1>1 DEF Task
<1>4. \E D \in SUBSET Papers : pool \in [D -> Entry]
  BY DEF TypeInv, TypeOK
<1>5. task[s].kind = "search" => task[s].arg \in Queries
  BY DEF TypeInv, Control
<1>6. CASE SearchFails(s)
  BY <1>1, <1>2, <1>4, <1>5, <1>6 DEF SearchFails, Resumes, Return, Moves, Task, TypeInv, TypeOK
<1>7. CASE ExpandFails(s)
  BY <1>1, <1>2, <1>4, <1>5, <1>7 DEF ExpandFails, Resumes, Return, Moves, Task, TypeInv, TypeOK
<1>8. ASSUME NEW found \in SUBSET Papers, SearchReturns(s, found)
      PROVE  Moves(s)
  <2>1. CASE \E p \in found : ~InPool(p)
    BY <1>1, <1>3, <1>4, <1>5, <1>8, <2>1 DEF SearchReturns, Resumes, Await, Moves, Task, TypeInv, TypeOK
  <2>2. CASE ~(\E p \in found : ~InPool(p))
    BY <1>1, <1>2, <1>4, <1>5, <1>8, <2>2 DEF SearchReturns, Resumes, Return, Moves, Task, TypeInv, TypeOK
  <2>3. QED
    BY <2>1, <2>2
<1>9. ASSUME NEW found \in SUBSET Papers, ExpandReturns(s, found)
      PROVE  Moves(s)
  <2>1. Related(s, found) \in SUBSET Papers
    BY DEF Related
  <2>2. CASE \E p \in Related(s, found) : ~InPool(p)
    BY <1>1, <1>3, <1>4, <1>9, <2>1, <2>2 DEF ExpandReturns, Resumes, Await, Moves, Task, TypeInv, TypeOK
  <2>3. CASE ~(\E p \in Related(s, found) : ~InPool(p))
    BY <1>1, <1>2, <1>4, <1>9, <2>3 DEF ExpandReturns, Resumes, Return, Moves, Task, TypeInv, TypeOK
  <2>4. QED
    BY <2>2, <2>3
<1>10. ASSUME NEW score \in [task[s].cand -> Scores], SearchScored(s, score)
       PROVE  Moves(s)
  <2>1. /\ task[s].kind \in {"search", "expand"}
        /\ task[s].arg \in Queries \union Papers
        /\ Settle(s, score)
    BY <1>5, <1>10 DEF SearchScored, Resumes
  <2>2. /\ \E t \in Task : /\ task' = [task EXCEPT ![s] = t]
                         /\ t.kind = task[s].kind /\ t.arg = task[s].arg
                         /\ t.phase = "done"
        /\ \E D \in SUBSET Papers : pool' \in [D -> Entry]
    BY <2>1, SettleType DEF TypeInv
  <2>3. QED
    BY <1>1, <1>5, <1>10, <2>1, <2>2
    DEF SearchScored, Resumes, Moves, TypeInv, TypeOK
<1>11. ASSUME NEW score \in [task[s].cand -> Scores], ExpandScored(s, score)
       PROVE  Moves(s)
  <2>1. /\ task[s].kind \in {"search", "expand"}
        /\ task[s].arg \in Queries \union Papers
        /\ Settle(s, score)
    BY <1>11 DEF ExpandScored, Resumes, TypeInv, Control
  <2>2. /\ \E t \in Task : /\ task' = [task EXCEPT ![s] = t]
                         /\ t.kind = task[s].kind /\ t.arg = task[s].arg
                         /\ t.phase = "done"
        /\ \E D \in SUBSET Papers : pool' \in [D -> Entry]
    BY <2>1, SettleType DEF TypeInv
  <2>3. QED
    BY <1>1, <1>11, <2>1, <2>2
    DEF ExpandScored, Resumes, Moves, TypeInv, TypeOK
<1>12. QED
  BY <1>6, <1>7, <1>8, <1>9, <1>10, <1>11 DEF Respond

LEMMA MoveType ==
  ASSUME TypeInv, NEW s \in Slots, Moves(s)
  PROVE  TypeInv'
<1>1. PICK t \in Task :
        /\ task' = [task EXCEPT ![s] = t]
        /\ t.kind = task[s].kind /\ t.arg = task[s].arg
  BY DEF Moves
<1>2. task' \in [Slots -> Task]
  BY <1>1 DEF TypeInv, TypeOK
<1>3. \A r \in Slots : task'[r].kind = task[r].kind /\ task'[r].arg = task[r].arg
  BY <1>1 DEF TypeInv, TypeOK
<1>4. Control'
  BY <1>3 DEF Moves, TypeInv, Control
<1>5. QED
  BY <1>2, <1>4 DEF Moves, TypeInv, TypeOK

LEMMA NextType == TypeInv /\ [Next]_vars => TypeInv'
<1> SUFFICES ASSUME TypeInv, [Next]_vars PROVE TypeInv'
  OBVIOUS
<1>1. ASSUME NEW reply \in Replies, Launch(reply) PROVE TypeInv'
  BY <1>1, LaunchType
<1>2. ASSUME NEW s \in Slots, Start(s) \/ Respond(s) PROVE TypeInv'
  BY <1>2, StartMoves, RespondMoves, MoveType
<1>3. CASE UNCHANGED vars
  BY <1>3 DEF vars, TypeInv, TypeOK, Control
<1>4. QED
  BY <1>1, <1>2, <1>3, AnswerType, FinishStepType DEF Next, Done

\* Every variable of the trajectory always holds a value of its type.
THEOREM TypeCorrect == Spec => []TypeOK
<1>1. TypeInv => TypeOK
  BY DEF TypeInv
<1>2. QED
  BY <1>1, TypeInit, NextType, PTL DEF Spec

-----------------------------------------------------------------------------
(***************************************************************************)
(* The inductive invariant.                                                *)
(***************************************************************************)
\* A coroutine owns papers and has an outcome only once it has returned, and it
\* is paid for papers it owns.
OwnsWhenDone ==
  \A s \in Slots :
    /\ task[s].credit \subseteq task[s].kept
    /\ task[s].phase # "done" => task[s].kept = {} /\ task[s].outcome = "none"
    /\ task[s].phase = "idle" <=> task[s].kind = "idle"

\* Only the coroutines of the step that gather runs are under way.
OneRowRuns ==
  \A s \in Slots :
    /\ s[1] > numSteps => task[s].phase = "idle"
    /\ s[1] < numSteps \/ pc # "tools" => task[s].phase \in {"idle", "done"}

\* An expansion that was let through has marked its paper.
ExpansionsMark ==
  \A s \in Slots :
    /\ task[s].kind = "expand"
    /\ task[s].phase \in {"fetch", "score", "done"}
    /\ task[s].outcome # "penalty"
    => InPool(task[s].arg) /\ pool[task[s].arg].expand

\* A search that has returned has left its query in the history.
SearchesRemembered ==
  \A s \in Slots : task[s].kind = "search" /\ task[s].phase = "done" => task[s].arg \in searched

Safe ==
  /\ OwnsWhenDone
  /\ OneRowRuns
  /\ PoolHasOneAuthor
  /\ ExpansionsMark
  /\ ExpandedOnce
  /\ SearchesRemembered
  /\ RepeatedSearchPenalised

IInv == TypeInv /\ Safe

LEMMA SafeInit == Init => Safe
<1> SUFFICES ASSUME Init PROVE Safe
  OBVIOUS
<1>1. \A s \in Slots : task[s] = NewTask("idle", NoArg, "idle")
  BY DEF Init
<1>2. OwnsWhenDone /\ OneRowRuns /\ ExpansionsMark /\ SearchesRemembered
  BY <1>1 DEF OwnsWhenDone, OneRowRuns, ExpansionsMark, SearchesRemembered, NewTask
<1>3. PoolHasOneAuthor
  BY <1>1 DEF PoolHasOneAuthor, NewTask, Init
<1>4. ExpandedOnce /\ RepeatedSearchPenalised
  BY <1>1 DEF ExpandedOnce, RepeatedSearchPenalised, NewTask
<1>5. QED
  BY <1>2, <1>3, <1>4 DEF Safe

\* The coroutine s returns without touching the pool.
LEMMA ReturnSafe ==
  ASSUME IInv, NEW s \in Slots, NEW o \in {"penalty", "failed", "nothing"}, Return(s, o),
         task[s].phase \in {"new", "fetch"},
         o # "penalty" => task[s].phase = "fetch",
         searched \subseteq searched',
         task[s].kind = "search" => task[s].arg \in searched',
         UNCHANGED <<pc, numSteps, pool>>
  PROVE  Safe'
<1> DEFINE t == [task[s] EXCEPT !.phase = "done", !.outcome = o]
<1>1. task[s] \in Task /\ task \in [Slots -> Task]
  BY DEF IInv, TypeInv, TypeOK
<1>2. task' = [task EXCEPT ![s] = t]
  BY DEF Return
<1>3. /\ t.kind = task[s].kind /\ t.arg = task[s].arg /\ t.phase = "done" /\ t.outcome = o
      /\ t.kept = task[s].kept /\ t.credit = task[s].credit
  BY <1>1 DEF Task
<1> HIDE DEF t
<1>4. \A r \in Slots : r # s => task'[r] = task[r]
  BY <1>1, <1>2
<1>5. task'[s] = t
  BY <1>1, <1>2
<1>6. OwnsWhenDone'
  BY <1>3, <1>4, <1>5 DEF IInv, Safe, OwnsWhenDone
<1>7. OneRowRuns'
  BY <1>3, <1>4, <1>5 DEF IInv, Safe, OneRowRuns
<1>8. PoolHasOneAuthor'
  <2>1. \A r \in Slots : task'[r].kept = task[r].kept /\ task'[r].kind = task[r].kind
                         /\ task'[r].arg = task[r].arg
    BY <1>3, <1>4, <1>5
  <2>2. {task'[r].kept : r \in Slots} = {task[r].kept : r \in Slots}
    BY <2>1
  <2>3. QED
    BY <2>1, <2>2 DEF IInv, Safe, PoolHasOneAuthor
<1>9. ExpansionsMark'
  BY <1>3, <1>4, <1>5 DEF IInv, Safe, ExpansionsMark, OwnsWhenDone, InPool
<1>10. ExpandedOnce'
  BY <1>3, <1>4, <1>5 DEF IInv, Safe, ExpandedOnce, OwnsWhenDone
<1>11. SearchesRemembered'
  BY <1>3, <1>4, <1>5 DEF IInv, Safe, SearchesRemembered
<1>12. RepeatedSearchPenalised'
  BY <1>3, <1>4, <1>5 DEF IInv, Safe, RepeatedSearchPenalised, OwnsWhenDone
<1>13. QED
  BY <1>6, <1>7, <1>8, <1>9, <1>10, <1>11, <1>12 DEF Safe

\* The coroutine s waits for the selector.
LEMMA AwaitSafe ==
  ASSUME IInv, NEW s \in Slots, NEW found \in SUBSET Papers, Await(s, found),
         task[s].phase = "fetch", UNCHANGED <<pc, numSteps, pool, searched>>
  PROVE  Safe'
<1> DEFINE t == [task[s] EXCEPT !.phase = "score", !.cand = {p \in found : ~InPool(p)}]
<1>1. task[s] \in Task /\ task \in [Slots -> Task]
  BY DEF IInv, TypeInv, TypeOK
<1>2. task' = [task EXCEPT ![s] = t]
  BY DEF Await
<1>3. /\ t.kind = task[s].kind /\ t.arg = task[s].arg /\ t.phase = "score"
      /\ t.outcome = task[s].outcome /\ t.kept = task[s].kept /\ t.credit = task[s].credit
  BY <1>1 DEF Task
<1> HIDE DEF t
<1>4. \A r \in Slots : r # s => task'[r] = task[r]
  BY <1>1, <1>2
<1>5. task'[s] = t
  BY <1>1, <1>2
<1>6. OwnsWhenDone' /\ OneRowRuns'
  BY <1>3, <1>4, <1>5 DEF IInv, Safe, OwnsWhenDone, OneRowRuns
<1>7. PoolHasOneAuthor'
  <2>1. \A r \in Slots : task'[r].kept = task[r].kept /\ task'[r].kind = task[r].kind
                         /\ task'[r].arg = task[r].arg
    BY <1>3, <1>4, <1>5
  <2>2. {task'[r].kept : r \in Slots} = {task[r].kept : r \in Slots}
    BY <2>1
  <2>3. QED
    BY <2>1, <2>2 DEF IInv, Safe, PoolHasOneAuthor
<1>8. ExpansionsMark' /\ SearchesRemembered'
  BY <1>3, <1>4, <1>5 DEF IInv, Safe, ExpansionsMark, SearchesRemembered, InPool
<1>9. ExpandedOnce' /\ RepeatedSearchPenalised'
  BY <1>3, <1>4, <1>5 DEF IInv, Safe, ExpandedOnce, RepeatedSearchPenalised
<1>10. QED
  BY <1>6, <1>7, <1>8, <1>9 DEF Safe

\* The coroutine s sends its request: a search of a query without history, or an
\* expansion that finds its paper unmarked and marks it.
LEMMA FetchSafe ==
  ASSUME IInv, NEW s \in Slots, task[s].phase = "new",
         task' = [task EXCEPT ![s] = [@ EXCEPT !.phase = "fetch"]],
         UNCHANGED <<pc, numSteps, searched>>,
         \/ /\ task[s].kind = "search" /\ task[s].arg \notin searched
            /\ UNCHANGED pool
         \/ /\ task[s].kind = "expand" /\ InPool(task[s].arg) /\ ~pool[task[s].arg].expand
            /\ pool' = [pool EXCEPT ![task[s].arg].expand = TRUE]
  PROVE  Safe'
<1> DEFINE t == [task[s] EXCEPT !.phase = "fetch"]
<1>1. task[s] \in Task /\ task \in [Slots -> Task]
  BY DEF IInv, TypeInv, TypeOK
<1>2. task' = [task EXCEPT ![s] = t]
  OBVIOUS
<1>3. /\ t.kind = task[s].kind /\ t.arg = task[s].arg /\ t.phase = "fetch"
      /\ t.outcome = task[s].outcome /\ t.kept = task[s].kept /\ t.credit = task[s].credit
  BY <1>1 DEF Task
<1> HIDE DEF t
<1>4. \A r \in Slots : r # s => task'[r] = task[r]
  BY <1>1, <1>2
<1>5. task'[s] = t
  BY <1>1, <1>2
<1>6. /\ DOMAIN pool' = DOMAIN pool
      /\ \A p \in DOMAIN pool : /\ pool'[p].source = pool[p].source
                                /\ pool'[p].origin = pool[p].origin
                                /\ pool[p].expand => pool'[p].expand
  <2>1. PICK D \in SUBSET Papers : pool \in [D -> Entry]
    BY DEF IInv, TypeInv, TypeOK
  <2>2. \A p \in DOMAIN pool : pool[p] \in Entry
    BY <2>1
  <2>3. QED
    BY <2>2 DEF Entry, InPool
<1>7. OwnsWhenDone' /\ OneRowRuns'
  BY <1>3, <1>4, <1>5 DEF IInv, Safe, OwnsWhenDone, OneRowRuns
<1>8. PoolHasOneAuthor'
  <2>1. \A r \in Slots : task'[r].kept = task[r].kept /\ task'[r].kind = task[r].kind
                         /\ task'[r].arg = task[r].arg
    BY <1>3, <1>4, <1>5
  <2>2. {task'[r].kept : r \in Slots} = {task[r].kept : r \in Slots}
    BY <2>1
  <2>3. \A r \in Slots : task[r].kept \subseteq DOMAIN pool
    BY DEF IInv, Safe, PoolHasOneAuthor
  <2>4. QED
    BY <1>6, <2>1, <2>2, <2>3 DEF IInv, Safe, PoolHasOneAuthor
<1>9. ExpansionsMark'
  <2>1. ASSUME NEW r \in Slots, r # s,
               task[r].kind = "expand", task[r].phase \in {"fetch", "score", "done"},
               task[r].outcome # "penalty"
        PROVE  task[r].arg \in DOMAIN pool /\ pool[task[r].arg].expand
    BY <2>1 DEF IInv, Safe, ExpansionsMark, InPool
  <2>2. task[s].kind = "expand" => /\ task[s].arg \in DOMAIN pool'
                                   /\ pool'[task[s].arg].expand
    <3>1. PICK D \in SUBSET Papers : pool \in [D -> Entry]
      BY DEF IInv, TypeInv, TypeOK
    <3>2. QED
      BY <3>1 DEF Entry, InPool
  <2>3. QED
    BY <1>3, <1>4, <1>5, <1>6, <2>1, <2>2 DEF ExpansionsMark, InPool
<1>10. ExpandedOnce'
  <2>1. task[s].kind = "expand" =>
          \A r \in Slots : /\ task[r].kind = "expand" /\ task[r].arg = task[s].arg
                           /\ task[r].phase \in {"fetch", "score", "done"}
                           => task[r].outcome = "penalty"
    BY DEF IInv, Safe, ExpansionsMark
  <2>2. QED
    BY <1>3, <1>4, <1>5, <2>1 DEF IInv, Safe, ExpandedOnce
<1>11. SearchesRemembered'
  BY <1>3, <1>4, <1>5 DEF IInv, Safe, SearchesRemembered
<1>12. RepeatedSearchPenalised'
  <2>1. s[1] = numSteps
    <3>1. s[1] \in Nat /\ numSteps \in Nat
      BY DEF IInv, TypeInv, TypeOK, Slots
    <3>2. ~(s[1] > numSteps) /\ ~(s[1] < numSteps)
      BY DEF IInv, Safe, OneRowRuns
    <3>3. QED
      BY <3>1, <3>2
  <2>2. task[s].kind = "search" =>
          \A r \in Slots : task[r].kind = "search" /\ r[1] < s[1] => task[r].arg # task[s].arg
    <3>1. \A r \in Slots : task[r].kind = "search" /\ r[1] < s[1] => task[r].phase = "done"
      BY <2>1 DEF IInv, Safe, OneRowRuns, OwnsWhenDone
    <3>2. QED
      BY <3>1 DEF IInv, Safe, SearchesRemembered
  <2>3. QED
    BY <1>3, <1>4, <1>5, <2>2 DEF IInv, Safe, RepeatedSearchPenalised
<1>13. QED
  BY <1>7, <1>8, <1>9, <1>10, <1>11, <1>12 DEF Safe

\* The coroutine s adds the papers it keeps and returns.
LEMMA SettleSafe ==
  ASSUME IInv, NEW s \in Slots, NEW score \in [task[s].cand -> Scores], Settle(s, score),
         task[s].phase = "score", searched \subseteq searched',
         task[s].kind = "search" => task[s].arg \in searched',
         UNCHANGED <<pc, numSteps>>
  PROVE  Safe'
<1> DEFINE kept == KeptPapers(s, score)
<1>1. task[s] \in Task /\ task \in [Slots -> Task]
  BY DEF IInv, TypeInv, TypeOK
<1>2. PICK top \in SUBSET kept :
        task' = [task EXCEPT ![s] =
                   [@ EXCEPT !.phase = "done", !.cand = {}, !.kept = kept, !.credit = top,
                             !.outcome = IF kept = {} THEN "nothing" ELSE "paid"]]
  BY DEF Settle
<1> DEFINE t == [task[s] EXCEPT !.phase = "done", !.cand = {}, !.kept = kept, !.credit = top,
                                !.outcome = IF kept = {} THEN "nothing" ELSE "paid"]
<1>3. /\ t.kind = task[s].kind /\ t.arg = task[s].arg /\ t.phase = "done"
      /\ t.outcome # "penalty" /\ t.kept = kept /\ t.credit = top
  BY <1>1 DEF Task
<1>4. task' = [task EXCEPT ![s] = t]
  BY <1>2
<1>5. /\ DOMAIN pool' = DOMAIN pool \union kept
      /\ \A p \in DOMAIN pool : pool'[p] = pool[p]
      /\ \A p \in kept : /\ p \notin DOMAIN pool
                         /\ pool'[p].source = task[s].kind
                         /\ pool'[p].origin = task[s].arg
  BY DEF Settle, AddPapers, KeptPapers, InPool
<1>6. task[s].kept = {}
  BY DEF IInv, Safe, OwnsWhenDone
<1> HIDE DEF t, kept
<1>7. \A r \in Slots : r # s => task'[r] = task[r]
  BY <1>1, <1>4
<1>8. task'[s] = t
  BY <1>1, <1>4
<1>9. OwnsWhenDone' /\ OneRowRuns'
  BY <1>2, <1>3, <1>7, <1>8 DEF IInv, Safe, OwnsWhenDone, OneRowRuns
<1>10. PoolHasOneAuthor'
  <2>1. \A r \in Slots : task[r].kept \subseteq DOMAIN pool
    BY DEF IInv, Safe, PoolHasOneAuthor
  <2>2. DOMAIN pool' = UNION {task'[r].kept : r \in Slots}
    <3>1. DOMAIN pool = UNION {task[r].kept : r \in Slots}
      BY DEF IInv, Safe, PoolHasOneAuthor
    <3>2. \A r \in Slots : task'[r].kept = IF r = s THEN kept ELSE task[r].kept
      BY <1>3, <1>7, <1>8
    <3>3. ASSUME NEW p \in DOMAIN pool'
          PROVE  \E r \in Slots : p \in task'[r].kept
      <4>1. CASE p \in kept
        BY <3>2, <4>1
      <4>2. CASE p \in DOMAIN pool
        <5>1. PICK r \in Slots : p \in task[r].kept
          BY <3>1, <4>2
        <5>2. r # s
          BY <1>6, <5>1
        <5>3. QED
          BY <3>2, <5>1, <5>2
      <4>3. QED
        BY <1>5, <4>1, <4>2
    <3>4. ASSUME NEW r \in Slots, NEW p \in task'[r].kept
          PROVE  p \in DOMAIN pool'
      BY <1>5, <2>1, <3>2
    <3>5. QED
      BY <3>3, <3>4
  <2>3. \A a, b \in Slots : a # b => task'[a].kept \cap task'[b].kept = {}
    BY <1>3, <1>5, <1>7, <1>8, <2>1 DEF IInv, Safe, PoolHasOneAuthor
  <2>4. \A r \in Slots : \A p \in task'[r].kept :
          pool'[p].source = task'[r].kind /\ pool'[p].origin = task'[r].arg
    BY <1>3, <1>5, <1>7, <1>8, <2>1 DEF IInv, Safe, PoolHasOneAuthor
  <2>5. QED
    BY <2>2, <2>3, <2>4 DEF PoolHasOneAuthor
<1>11. ExpansionsMark'
  BY <1>3, <1>5, <1>7, <1>8 DEF IInv, Safe, ExpansionsMark, OwnsWhenDone, InPool
<1>12. ExpandedOnce'
  BY <1>3, <1>7, <1>8 DEF IInv, Safe, ExpandedOnce, OwnsWhenDone
<1>13. SearchesRemembered'
  BY <1>3, <1>7, <1>8 DEF IInv, Safe, SearchesRemembered
<1>14. RepeatedSearchPenalised'
  BY <1>3, <1>7, <1>8 DEF IInv, Safe, RepeatedSearchPenalised, OwnsWhenDone
<1>15. QED
  BY <1>9, <1>10, <1>11, <1>12, <1>13, <1>14 DEF Safe

LEMMA LaunchSafe ==
  ASSUME IInv, NEW reply \in Replies, Launch(reply)
  PROVE  Safe'
<1>1. /\ task \in [Slots -> Task] /\ numSteps \in Nat /\ numSteps' = numSteps + 1
      /\ pc = "generate" /\ pc' = "tools" /\ pool' = pool /\ searched' = searched
  BY DEF IInv, TypeInv, TypeOK, Launch
<1>2. \A s \in Slots : s[1] \in Nat
  BY DEF Slots
<1>3. \A s \in Slots : \/ task'[s] = task[s]
                       \/ /\ s[1] = numSteps + 1
                          /\ task'[s].phase = "new" /\ task'[s].kind # "idle"
                          /\ task'[s].kept = {} /\ task'[s].credit = {}
                          /\ task'[s].outcome = "none"
  <2>1. PICK n \in 0..MaxParallel : reply \in [1..n -> Calls]
    BY DEF Replies
  <2>2. QED
    BY <1>1, <2>1 DEF Launch, NewTask, Calls
<1>4. \A s \in Slots : s[1] = numSteps + 1 => task[s].phase = "idle" /\ task[s].kept = {}
  BY <1>1, <1>2 DEF IInv, Safe, OneRowRuns, OwnsWhenDone
<1>5. \A s \in Slots : task[s].phase \in {"idle", "done"}
  BY <1>1 DEF IInv, Safe, OneRowRuns
<1>6. OwnsWhenDone'
  BY <1>3 DEF IInv, Safe, OwnsWhenDone
<1>7. OneRowRuns'
  BY <1>1, <1>2, <1>3, <1>5 DEF IInv, Safe, OneRowRuns
<1>8. PoolHasOneAuthor'
  <2>1. \A s \in Slots : /\ task'[s].kept = task[s].kept
                         /\ task[s].kept # {} => task'[s] = task[s]
    BY <1>3, <1>4
  <2>2. {task'[s].kept : s \in Slots} = {task[s].kept : s \in Slots}
    BY <2>1
  <2>3. QED
    BY <1>1, <2>1, <2>2 DEF IInv, Safe, PoolHasOneAuthor
<1>9. ExpansionsMark' /\ SearchesRemembered'
  BY <1>1, <1>3 DEF IInv, Safe, ExpansionsMark, SearchesRemembered, InPool
<1>10. ExpandedOnce'
  BY <1>3 DEF IInv, Safe, ExpandedOnce
<1>11. RepeatedSearchPenalised'
  <2> SUFFICES ASSUME NEW a \in Slots, NEW b \in Slots, a[1] < b[1],
                      task'[a].kind = "search", task'[b].kind = "search",
                      task'[a].arg = task'[b].arg,
                      task'[b].phase \in {"fetch", "score", "done"}
               PROVE  task'[b].outcome = "penalty"
    BY DEF RepeatedSearchPenalised
  <2>1. task'[b] = task[b]
    BY <1>3
  <2>2. b[1] <= numSteps
    BY <1>1, <1>2, <2>1 DEF IInv, Safe, OneRowRuns
  <2>3. task'[a] = task[a]
    BY <1>1, <1>2, <1>3, <2>2
  <2>4. QED
    BY <2>1, <2>3 DEF IInv, Safe, RepeatedSearchPenalised
<1>12. QED
  BY <1>6, <1>7, <1>8, <1>9, <1>10, <1>11 DEF Safe

\* run() itself touches neither the coroutines nor what they share.
LEMMA LoopSafe ==
  ASSUME IInv, Answer \/ FinishStep \/ UNCHANGED vars
  PROVE  Safe'
<1>1. UNCHANGED <<task, pool, searched>>
  BY DEF Answer, FinishStep, vars
<1>2. OneRowRuns'
  <2>1. CASE UNCHANGED vars
    BY <2>1 DEF IInv, Safe, OneRowRuns, vars
  <2>2. CASE Answer
    <3>1. numSteps \in Nat /\ numSteps' = numSteps + 1 /\ \A s \in Slots : s[1] \in Nat
      BY <2>2 DEF IInv, TypeInv, TypeOK, Answer, Slots
    <3>2. \A s \in Slots : task[s].phase \in {"idle", "done"}
      BY <2>2 DEF IInv, Safe, OneRowRuns, Answer
    <3>3. QED
      BY <1>1, <3>1, <3>2 DEF IInv, Safe, OneRowRuns
  <2>3. CASE FinishStep
    <3>1. numSteps \in Nat /\ numSteps' = numSteps /\ \A s \in Slots : s[1] \in Nat
      BY <2>3 DEF IInv, TypeInv, TypeOK, FinishStep, Slots
    <3>2. \A s \in Slots : s[1] = numSteps => task[s].phase \in {"idle", "done"}
      BY <2>3 DEF FinishStep, Row
    <3>3. QED
      BY <1>1, <3>1, <3>2 DEF IInv, Safe, OneRowRuns
  <2>4. QED
    BY <2>1, <2>2, <2>3
<1>3. OwnsWhenDone' /\ PoolHasOneAuthor' /\ ExpansionsMark' /\ ExpandedOnce'
  BY <1>1 DEF IInv, Safe, OwnsWhenDone, PoolHasOneAuthor, ExpansionsMark, ExpandedOnce, InPool
<1>4. SearchesRemembered' /\ RepeatedSearchPenalised'
  BY <1>1 DEF IInv, Safe, SearchesRemembered, RepeatedSearchPenalised
<1>5. QED
  BY <1>2, <1>3, <1>4 DEF Safe

LEMMA StartSafe ==
  ASSUME IInv, NEW s \in Slots, Start(s)
  PROVE  Safe'
<1>1. task[s].phase = "new"
  BY DEF Start, StartSearch, StartExpand, Starts
<1>2. CASE StartSearch(s)
  <2>1. CASE task[s].arg \in searched
    BY <1>1, <1>2, <2>1, ReturnSafe DEF StartSearch
  <2>2. CASE task[s].arg \notin searched
    BY <1>1, <1>2, <2>2, FetchSafe DEF StartSearch, Starts
  <2>3. QED
    BY <2>1, <2>2
<1>3. CASE StartExpand(s)
  <2>1. task[s].kind = "expand"
    BY <1>3 DEF StartExpand, Starts
  <2>2. CASE InPool(task[s].arg) /\ ~pool[task[s].arg].expand
    BY <1>1, <1>3, <2>1, <2>2, FetchSafe DEF StartExpand
  <2>3. CASE ~(InPool(task[s].arg) /\ ~pool[task[s].arg].expand)
    BY <1>1, <1>3, <2>1, <2>3, ReturnSafe DEF StartExpand
  <2>4. QED
    BY <2>2, <2>3
<1>4. QED
  BY <1>2, <1>3 DEF Start

LEMMA RespondSafe ==
  ASSUME IInv, NEW s \in Slots, Respond(s)
  PROVE  Safe'
<1>1. CASE SearchFails(s)
  BY <1>1, ReturnSafe DEF SearchFails, Resumes
<1>2. CASE ExpandFails(s)
  BY <1>2, ReturnSafe DEF ExpandFails, Resumes
<1>3. ASSUME NEW found \in SUBSET Papers, SearchReturns(s, found) PROVE Safe'
  <2>1. CASE \E p \in found : ~InPool(p)
    BY <1>3, <2>1, AwaitSafe DEF SearchReturns, Resumes
  <2>2. CASE ~(\E p \in found : ~InPool(p))
    BY <1>3, <2>2, ReturnSafe DEF SearchReturns, Resumes
  <2>3. QED
    BY <2>1, <2>2
<1>4. ASSUME NEW found \in SUBSET Papers, ExpandReturns(s, found) PROVE Safe'
  <2>1. Related(s, found) \in SUBSET Papers
    BY DEF Related
  <2>2. CASE \E p \in Related(s, found) : ~InPool(p)
    BY <1>4, <2>1, <2>2, AwaitSafe DEF ExpandReturns, Resumes
  <2>3. CASE ~(\E p \in Related(s, found) : ~InPool(p))
    BY <1>4, <2>3, ReturnSafe DEF ExpandReturns, Resumes
  <2>4. QED
    BY <2>2, <2>3
<1>5. ASSUME NEW score \in [task[s].cand -> Scores], SearchScored(s, score) PROVE Safe'
  BY <1>5, SettleSafe DEF SearchScored, Resumes
<1>6. ASSUME NEW score \in [task[s].cand -> Scores], ExpandScored(s, score) PROVE Safe'
  BY <1>6, SettleSafe DEF ExpandScored, Resumes
<1>7. QED
  BY <1>1, <1>2, <1>3, <1>4, <1>5, <1>6 DEF Respond

LEMMA Invariance == Spec => []IInv
<1>1. Init => IInv
  BY TypeInit, SafeInit DEF IInv
<1>2. IInv /\ [Next]_vars => IInv'
  <2> SUFFICES ASSUME IInv, [Next]_vars PROVE Safe'
    BY NextType DEF IInv
  <2>1. ASSUME NEW reply \in Replies, Launch(reply) PROVE Safe'
    BY <2>1, LaunchSafe
  <2>2. ASSUME NEW s \in Slots, Start(s) \/ Respond(s) PROVE Safe'
    BY <2>2, StartSafe, RespondSafe
  <2>3. CASE Answer \/ FinishStep \/ UNCHANGED vars
    BY <2>3, LoopSafe
  <2>4. QED
    BY <2>1, <2>2, <2>3 DEF Next, Done
<1>3. QED
  BY <1>1, <1>2, PTL DEF Spec

-----------------------------------------------------------------------------
(***************************************************************************)
(* What follows from it.                                                   *)
(***************************************************************************)
\* No interleaving of the coroutines, however many, pays twice for a paper.
THEOREM NoDoubleCredit == Spec => []CreditedOnce
<1>1. IInv => CreditedOnce
  <2> SUFFICES ASSUME IInv, NEW a \in Slots, NEW b \in Slots, a # b
               PROVE  task[a].credit \cap task[b].credit = {}
    BY DEF CreditedOnce
  <2>1. task[a].credit \subseteq task[a].kept /\ task[b].credit \subseteq task[b].kept
    BY DEF IInv, Safe, OwnsWhenDone
  <2>2. task[a].kept \cap task[b].kept = {}
    BY DEF IInv, Safe, PoolHasOneAuthor
  <2>3. QED
    BY <2>1, <2>2
<1>2. QED
  BY <1>1, Invariance, PTL

\* Every pool entry has one author, whose kind and argument it records.
THEOREM SingleAuthor == Spec => []PoolHasOneAuthor
<1>1. IInv => PoolHasOneAuthor
  BY DEF IInv, Safe
<1>2. QED
  BY <1>1, Invariance, PTL

\* A paper's citations are requested at most once in a trajectory.
THEOREM SingleExpansion == Spec => []ExpandedOnce
<1>1. IInv => ExpandedOnce
  BY DEF IInv, Safe
<1>2. QED
  BY <1>1, Invariance, PTL

\* A query of an earlier step never earns anything but the penalty again.
THEOREM NoRepeatedSearch == Spec => []RepeatedSearchPenalised
<1>1. IInv => RepeatedSearchPenalised
  BY DEF IInv, Safe
<1>2. QED
  BY <1>1, Invariance, PTL

-----------------------------------------------------------------------------
(***************************************************************************)
(* The rewards of a trajectory against its pool.                           *)
(***************************************************************************)
LEMMA SlotsFinite == IsFiniteSet(Slots)
<1>1. MaxSteps \in Int /\ MaxParallel \in Int
  BY DEF BoundsAssumption
<1>2. IsFiniteSet(1..MaxSteps)
  BY <1>1, FS_Interval
<1>3. IsFiniteSet(1..MaxParallel)
  BY <1>1, FS_Interval
<1> QED
  BY <1>2, <1>3, FS_Product DEF Slots

\* A coroutine earns no more than the papers it is paid for are worth.
LEMMA RewardBelowCredit ==
  ASSUME IInv, NEW s \in Slots
  PROVE  /\ task[s].credit \in SUBSET DOMAIN pool
         /\ RewardOf(s) \in Int
         /\ RewardOf(s) <= Sum(Worth, task[s].credit)
<1>1. task[s].credit \in SUBSET DOMAIN pool
  BY DEF IInv, Safe, OwnsWhenDone, PoolHasOneAuthor
<1>2. PICK D \in SUBSET Papers : pool \in [D -> Entry]
  BY DEF IInv, TypeInv, TypeOK
<1>3. \A p \in DOMAIN pool : Worth[p] \in Nat
  BY <1>2 DEF Worth, Contribution, Entry, Scores
<1>4. IsFiniteSet(task[s].credit)
  BY <1>1, <1>2, FS_Subset
<1>5. Sum(Worth, task[s].credit) \in Nat
  BY <1>1, <1>3, <1>4, SumNat
<1> QED
  BY <1>1, <1>5 DEF RewardOf

\* Whatever the interleaving and the repetitions, for every cost and threshold,
\* a trajectory never earns more than its pool is worth.
THEOREM RewardsBacked == Spec => []RewardBackedByPool
<1>1. IInv => RewardBackedByPool
  <2> SUFFICES ASSUME IInv PROVE RewardBackedByPool
    OBVIOUS
  <2> DEFINE r == [s \in Slots |-> RewardOf(s)]
             c == [s \in Slots |-> task[s].credit]
             paid == UNION {c[s] : s \in Slots}
  <2>1. PICK D \in SUBSET Papers : pool \in [D -> Entry]
    BY DEF IInv, TypeInv, TypeOK
  <2>2. IsFiniteSet(DOMAIN pool) /\ IsFiniteSet(Slots)
    BY <2>1, FS_Subset, SlotsFinite
  <2>3. \A p \in DOMAIN pool : Worth[p] \in Nat
    BY <2>1 DEF Worth, Contribution, Entry, Scores
  <2>4. \A s \in Slots : /\ c[s] \in SUBSET DOMAIN pool /\ IsFiniteSet(c[s])
                         /\ r[s] \in Int /\ r[s] <= Sum(Worth, c[s])
    BY <2>2, RewardBelowCredit, FS_Subset
  <2>5. \A s, u \in Slots : s # u => c[s] \cap c[u] = {}
    BY DEF IInv, Safe, OwnsWhenDone, PoolHasOneAuthor
  <2>6. paid \in SUBSET DOMAIN pool
    BY <2>4
  <2> HIDE DEF r, c
  <2>7. Sum(r, Slots) <= Sum(Worth, paid)
    BY <2>2, <2>3, <2>4, <2>5, SumOfClaims
  <2> HIDE DEF paid
  <2>8. Sum(Worth, paid) <= Sum(Worth, DOMAIN pool)
    BY <2>2, <2>3, <2>6, SumSubset
  <2>9. /\ Sum(r, Slots) \in Int
        /\ Sum(Worth, paid) \in Int /\ Sum(Worth, DOMAIN pool) \in Int
    BY <2>2, <2>3, <2>4, <2>6, SumInt, FS_Subset
  <2>10. Sum(r, Slots) <= Sum(Worth, DOMAIN pool)
    BY <2>7, <2>8, <2>9
  <2> QED
    BY <2>10 DEF RewardBackedByPool, r
<1> QED
  BY <1>1, Invariance, PTL

-----------------------------------------------------------------------------
(***************************************************************************)
(* The totals of a step.                                                   *)
(***************************************************************************)
\* The calls of the first n steps.
Launched(n, kind) == {s \in Slots : s[1] <= n /\ task[s].kind = kind}

\* The running totals count what was launched, and only steps that are over have
\* recorded theirs.
Counting ==
  /\ totals.search = Cardinality(Launched(numSteps, "search"))
  /\ totals.expand = Cardinality(Launched(numSteps, "expand"))
  /\ pc # "done" => \A n \in DOMAIN steps : n \in 1..numSteps

CountInv == IInv /\ Counting /\ StepTotalsAreCumulative

\* The calls of a reply, counted in the reply and in the row it fills.
LEMMA RowOfReply ==
  ASSUME NEW n \in 1..MaxSteps, NEW reply \in Replies, NEW kind
  PROVE  LET row == {s \in Slots : /\ s[1] = n /\ s[2] \in DOMAIN reply
                                   /\ reply[s[2]].kind = kind}
         IN IsFiniteSet(row) /\ Cardinality(row) = CallsOfKind(reply, kind)
<1> DEFINE row == {s \in Slots : /\ s[1] = n /\ s[2] \in DOMAIN reply
                                 /\ reply[s[2]].kind = kind}
           places == {i \in DOMAIN reply : reply[i].kind = kind}
           b == [i \in places |-> <<n, i>>]
<1>1. PICK m \in 0..MaxParallel : reply \in [1..m -> Calls]
  BY DEF Replies
<1>2. places \in SUBSET (1..MaxParallel) /\ IsFiniteSet(places)
  <2>1. IsFiniteSet(1..MaxParallel)
    BY FS_Interval
  <2>2. places \in SUBSET (1..MaxParallel)
    BY <1>1
  <2> QED
    BY <2>1, <2>2, FS_Subset
<1>3. b \in [places -> row]
  BY <1>1, <1>2 DEF Slots
<1>4. \A i, k \in places : b[i] = b[k] => i = k
  OBVIOUS
<1>5. \A s \in row : \E i \in places : b[i] = s
  BY DEF Slots
<1> HIDE DEF row, places, b
<1>6. b \in Bijection(places, row)
  BY <1>3, <1>4, <1>5 DEF Bijection, Injection, Surjection, IsInjective
<1>7. IsFiniteSet(row) /\ Cardinality(row) = Cardinality(places)
  BY <1>2, <1>6, FS_Bijection DEF ExistsBijection
<1> QED
  BY <1>7 DEF CallsOfKind, row, places

LEMMA LaunchedFinite ==
  ASSUME NEW n, NEW kind
  PROVE  IsFiniteSet(Launched(n, kind)) /\ Cardinality(Launched(n, kind)) \in Nat
<1>1. IsFiniteSet(Slots)
  BY SlotsFinite
<1>2. Launched(n, kind) \in SUBSET Slots
  BY DEF Launched
<1>3. IsFiniteSet(Launched(n, kind))
  BY <1>1, <1>2, FS_Subset
<1> QED
  BY <1>3, FS_CardinalityType

\* One reply more adds its calls to those launched before.
LEMMA LaunchCounts ==
  ASSUME IInv, NEW reply \in Replies, Launch(reply), NEW kind \in {"search", "expand"}
  PROVE  Cardinality(Launched(numSteps, kind)')
           = Cardinality(Launched(numSteps, kind)) + CallsOfKind(reply, kind)
<1> DEFINE row == {s \in Slots : /\ s[1] = numSteps + 1 /\ s[2] \in DOMAIN reply
                                 /\ reply[s[2]].kind = kind}
           before == Launched(numSteps, kind)
<1>1. numSteps \in Nat /\ numSteps + 1 \in 1..MaxSteps /\ numSteps' = numSteps + 1
  BY DEF IInv, TypeInv, TypeOK, Control, Launch
<1>2. \A s \in Slots : s[1] \in Nat
  BY DEF Slots
<1>3. \A s \in Slots : s[1] > numSteps => task[s].kind = "idle"
  BY DEF IInv, Safe, OneRowRuns, OwnsWhenDone
<1>4. \A s \in Slots :
        task'[s].kind = IF s[1] = numSteps + 1 /\ s[2] \in DOMAIN reply
                        THEN reply[s[2]].kind ELSE task[s].kind
  BY DEF Launch, NewTask
<1>5. {s \in Slots : s[1] <= numSteps + 1 /\ task'[s].kind = kind} = before \union row
  BY <1>1, <1>2, <1>3, <1>4 DEF Launched
<1>6. before \cap row = {}
  BY <1>1, <1>2 DEF Launched
<1>7. IsFiniteSet(row) /\ Cardinality(row) = CallsOfKind(reply, kind)
  BY <1>1, RowOfReply
<1>8. IsFiniteSet(before) /\ Cardinality(before) \in Nat /\ CallsOfKind(reply, kind) \in Nat
  BY LaunchedFinite, CallCount
<1> HIDE DEF row, before
<1>9. Cardinality(before \union row) = Cardinality(before) + CallsOfKind(reply, kind)
  BY <1>6, <1>7, <1>8, FS_Union, FS_EmptySet
<1> QED
  BY <1>1, <1>5, <1>9 DEF before, Launched

LEMMA CountInit == Init => Counting /\ StepTotalsAreCumulative
<1> SUFFICES ASSUME Init PROVE Counting /\ StepTotalsAreCumulative
  OBVIOUS
<1>1. DOMAIN steps = {}
  BY DEF Init
<1>2. Launched(numSteps, "search") = {} /\ Launched(numSteps, "expand") = {}
  BY DEF Init, Launched, NewTask
<1> QED
  BY <1>1, <1>2, FS_EmptySet DEF Init, Counting, StepTotalsAreCumulative

LEMMA LaunchKeepsCount ==
  ASSUME CountInv, IInv', NEW reply \in Replies, Launch(reply)
  PROVE  Counting' /\ StepTotalsAreCumulative'
<1>1. /\ numSteps \in Nat /\ numSteps' = numSteps + 1
      /\ pc = "generate" /\ pc' = "tools" /\ steps' = steps
      /\ \A s \in Slots : s[1] \in Nat
  BY DEF CountInv, IInv, TypeInv, TypeOK, Launch, Slots
<1>2. Counting'
  <2>1. \A kind \in {"search", "expand"} :
          Cardinality(Launched(numSteps, kind)')
            = Cardinality(Launched(numSteps, kind)) + CallsOfKind(reply, kind)
    BY LaunchCounts DEF CountInv
  <2>2. \A n \in DOMAIN steps : n \in 1..numSteps + 1
    BY <1>1 DEF CountInv, Counting
  <2> QED
    BY <1>1, <2>1, <2>2 DEF CountInv, Counting, Launch
<1>3. \A n \in DOMAIN steps : n <= numSteps
  BY <1>1 DEF CountInv, Counting
<1>4. \A s \in Slots : s[1] <= numSteps => task'[s] = task[s]
  BY <1>1 DEF Launch, CountInv, IInv, TypeInv, TypeOK
<1>5. StepTotalsAreCumulative'
  <2> SUFFICES ASSUME NEW n \in DOMAIN steps
               PROVE  LET launched(kind) == {s \in Slots : s[1] <= n /\ task'[s].kind = kind} IN
                      /\ steps[n].search = Cardinality(launched("search"))
                      /\ steps[n].expand = Cardinality(launched("expand"))
                      /\ \A s \in launched("search") \union launched("expand") :
                           task'[s].phase = "done"
    BY <1>1 DEF StepTotalsAreCumulative
  <2>1. n \in Nat /\ \A s \in Slots : s[1] <= n => task'[s] = task[s]
    BY <1>1, <1>3, <1>4 DEF CountInv, Counting
  <2>2. \A kind : {s \in Slots : s[1] <= n /\ task'[s].kind = kind}
                    = {s \in Slots : s[1] <= n /\ task[s].kind = kind}
    BY <2>1
  <2> QED
    BY <2>1, <2>2 DEF CountInv, StepTotalsAreCumulative
<1> QED
  BY <1>2, <1>5

\* A coroutine that moves belongs to no finished step.
LEMMA MoveKeepsCount ==
  ASSUME CountInv, NEW s \in Slots, Moves(s)
  PROVE  Counting' /\ StepTotalsAreCumulative'
<1>1. /\ \A r \in Slots : task'[r].kind = task[r].kind
      /\ \A r \in Slots : task[r].phase = "done" => task'[r] = task[r]
      /\ UNCHANGED <<pc, numSteps, totals, steps>>
  BY DEF Moves, CountInv, IInv, TypeInv, TypeOK
<1>2. \A n, kind : {r \in Slots : r[1] <= n /\ task'[r].kind = kind}
                     = {r \in Slots : r[1] <= n /\ task[r].kind = kind}
  BY <1>1
<1>3. Counting'
  BY <1>1, <1>2 DEF CountInv, Counting, Launched
<1>4. StepTotalsAreCumulative'
  <2> SUFFICES ASSUME NEW n \in DOMAIN steps'
               PROVE  LET launched(kind) == {r \in Slots : r[1] <= n /\ task'[r].kind = kind} IN
                      /\ steps'[n].search = Cardinality(launched("search"))
                      /\ steps'[n].expand = Cardinality(launched("expand"))
                      /\ \A r \in launched("search") \union launched("expand") :
                           task'[r].phase = "done"
    BY DEF StepTotalsAreCumulative
  <2>1. /\ steps[n].search = Cardinality({r \in Slots : r[1] <= n /\ task[r].kind = "search"})
        /\ steps[n].expand = Cardinality({r \in Slots : r[1] <= n /\ task[r].kind = "expand"})
        /\ \A r \in Slots : r[1] <= n /\ task[r].kind \in {"search", "expand"}
                            => task[r].phase = "done"
    BY <1>1 DEF CountInv, StepTotalsAreCumulative
  <2>2. \A kind : {r \in Slots : r[1] <= n /\ task'[r].kind = kind}
                    = {r \in Slots : r[1] <= n /\ task[r].kind = kind}
    BY <1>2
  <2>3. steps' = steps
    BY <1>1
  <2>4. \A r \in Slots : r[1] <= n /\ task'[r].kind \in {"search", "expand"}
                         => task'[r].phase = "done"
    BY <1>1, <2>1
  <2> QED
    BY <2>1, <2>2, <2>3, <2>4
<1> QED
  BY <1>3, <1>4

\* A step that ends records the totals of all calls up to it, and all of these
\* have returned.
LEMMA AnswerKeepsCount ==
  ASSUME CountInv, Answer
  PROVE  Counting' /\ StepTotalsAreCumulative'
<1>1. /\ numSteps \in Nat /\ numSteps' = numSteps + 1 /\ pc' = "done"
      /\ UNCHANGED <<task, totals>>
      /\ \A s \in Slots : s[1] \in Nat
      /\ DOMAIN steps = 1..numSteps
      /\ steps' = [n \in 1..(numSteps + 1) |-> IF n = numSteps + 1 THEN totals ELSE steps[n]]
  BY DEF CountInv, IInv, TypeInv, TypeOK, Control, Answer, Slots
<1>2. \A s \in Slots : /\ s[1] > numSteps => task[s].kind = "idle"
                       /\ task[s].kind # "idle" => task[s].phase = "done"
  BY DEF CountInv, IInv, Safe, OneRowRuns, OwnsWhenDone, Answer
<1>3. \A kind \in {"search", "expand"} :
        {s \in Slots : s[1] <= numSteps + 1 /\ task[s].kind = kind} = Launched(numSteps, kind)
  BY <1>1, <1>2 DEF Launched
<1>4. Counting'
  BY <1>1, <1>3 DEF CountInv, Counting, Launched
<1>5. StepTotalsAreCumulative'
  <2> SUFFICES ASSUME NEW n \in DOMAIN steps'
               PROVE  LET launched(kind) == {r \in Slots : r[1] <= n /\ task'[r].kind = kind} IN
                      /\ steps'[n].search = Cardinality(launched("search"))
                      /\ steps'[n].expand = Cardinality(launched("expand"))
                      /\ \A r \in launched("search") \union launched("expand") :
                           task'[r].phase = "done"
    BY DEF StepTotalsAreCumulative
  <2>1. CASE n = numSteps + 1
    <3>1. steps'[n] = totals
      BY <1>1, <2>1
    <3> QED
      BY <1>1, <1>2, <1>3, <2>1, <3>1 DEF CountInv, Counting
  <2>2. CASE n # numSteps + 1
    <3>1. n \in DOMAIN steps /\ steps'[n] = steps[n]
      BY <1>1, <2>2
    <3> QED
      BY <1>1, <3>1 DEF CountInv, StepTotalsAreCumulative
  <2> QED
    BY <2>1, <2>2
<1> QED
  BY <1>4, <1>5

LEMMA FinishKeepsCount ==
  ASSUME CountInv, FinishStep
  PROVE  Counting' /\ StepTotalsAreCumulative'
<1>1. /\ numSteps \in 1..MaxSteps /\ UNCHANGED <<numSteps, task, totals>>
      /\ \A s \in Slots : s[1] \in Nat
      /\ DOMAIN steps = 1..(numSteps - 1)
      /\ steps' = [n \in 1..numSteps |-> IF n = numSteps THEN totals ELSE steps[n]]
  BY DEF CountInv, IInv, TypeInv, TypeOK, Control, FinishStep, Slots
<1>2. \A s \in Slots : task[s].kind # "idle" => task[s].phase = "done"
  BY <1>1 DEF CountInv, IInv, Safe, OneRowRuns, OwnsWhenDone, FinishStep, Row
<1>3. Counting'
  BY <1>1 DEF CountInv, Counting, Launched
<1>4. StepTotalsAreCumulative'
  <2> SUFFICES ASSUME NEW n \in DOMAIN steps'
               PROVE  LET launched(kind) == {r \in Slots : r[1] <= n /\ task'[r].kind = kind} IN
                      /\ steps'[n].search = Cardinality(launched("search"))
                      /\ steps'[n].expand = Cardinality(launched("expand"))
                      /\ \A r \in launched("search") \union launched("expand") :
                           task'[r].phase = "done"
    BY DEF StepTotalsAreCumulative
  <2>1. CASE n = numSteps
    <3>1. steps'[n] = totals
      BY <1>1, <2>1
    <3> QED
      BY <1>1, <1>2, <2>1, <3>1 DEF CountInv, Counting, Launched
  <2>2. CASE n # numSteps
    <3>1. n \in DOMAIN steps /\ steps'[n] = steps[n]
      BY <1>1, <2>2
    <3> QED
      BY <1>1, <3>1 DEF CountInv, StepTotalsAreCumulative
  <2> QED
    BY <2>1, <2>2
<1> QED
  BY <1>3, <1>4

\* The totals a step reports are those of all calls up to it, for any number of
\* steps, calls and interleavings.
THEOREM TotalsAccumulate == Spec => []StepTotalsAreCumulative
<1>1. Init => Counting /\ StepTotalsAreCumulative
  BY CountInit
<1>2. IInv /\ IInv' /\ Counting /\ StepTotalsAreCumulative /\ [Next]_vars
        => Counting' /\ StepTotalsAreCumulative'
  <2> SUFFICES ASSUME CountInv, IInv', [Next]_vars
               PROVE  Counting' /\ StepTotalsAreCumulative'
    BY DEF CountInv
  <2>1. ASSUME NEW reply \in Replies, Launch(reply)
        PROVE  Counting' /\ StepTotalsAreCumulative'
    BY <2>1, LaunchKeepsCount
  <2>2. ASSUME NEW s \in Slots, Start(s) \/ Respond(s)
        PROVE  Counting' /\ StepTotalsAreCumulative'
    BY <2>2, StartMoves, RespondMoves, MoveKeepsCount DEF CountInv, IInv
  <2>3. CASE UNCHANGED vars
    BY <2>3 DEF vars, CountInv, Counting, StepTotalsAreCumulative, Launched
  <2> QED
    BY <2>1, <2>2, <2>3, AnswerKeepsCount, FinishKeepsCount DEF Next, Done
<1> QED
  BY <1>1, <1>2, Invariance, PTL DEF Spec

-----------------------------------------------------------------------------
\* No step rewrites or forgets a paper of the pool.
THEOREM PoolMonotone == Spec => PoolOnlyGrows
<1> DEFINE Grows == \A p \in DOMAIN pool :
                      /\ p \in DOMAIN pool'
                      /\ pool'[p].score = pool[p].score
                      /\ pool'[p].source = pool[p].source
                      /\ pool'[p].origin = pool[p].origin
<1>1. ASSUME TypeInv, NEW s \in Slots, Start(s) PROVE Grows
  <2>1. CASE UNCHANGED pool
    BY <2>1
  <2>2. CASE pool' = [pool EXCEPT ![task[s].arg].expand = TRUE] /\ InPool(task[s].arg)
    <3>1. PICK D \in SUBSET Papers : pool \in [D -> Entry]
      BY <1>1 DEF TypeInv, TypeOK
    <3>2. \A p \in DOMAIN pool : pool[p] \in Entry
      BY <3>1
    <3>3. QED
      BY <2>2, <3>2 DEF Entry, InPool
  <2>3. QED
    BY <1>1, <2>1, <2>2 DEF Start, StartSearch, StartExpand
<1>2. ASSUME NEW s \in Slots, Respond(s) PROVE Grows
  <2>1. ASSUME NEW score, Settle(s, score) PROVE Grows
    BY <2>1 DEF Settle, AddPapers, InPool
  <2>2. CASE UNCHANGED pool
    BY <2>2
  <2>3. QED
    BY <1>2, <2>1, <2>2
    DEF Respond, SearchFails, ExpandFails, SearchReturns, ExpandReturns, SearchScored, ExpandScored
<1>3. TypeInv /\ [Next]_vars => [Grows]_pool
  <2> SUFFICES ASSUME TypeInv, [Next]_vars PROVE Grows \/ UNCHANGED pool
    OBVIOUS
  <2>1. ASSUME NEW s \in Slots, Start(s) \/ Respond(s) PROVE Grows
    BY <1>1, <1>2, <2>1
  <2>2. ASSUME NEW reply \in Replies, Launch(reply) PROVE UNCHANGED pool
    BY <2>2 DEF Launch
  <2>3. CASE Answer \/ FinishStep \/ UNCHANGED vars
    BY <2>3 DEF Answer, FinishStep, vars
  <2>4. QED
    BY <2>1, <2>2, <2>3 DEF Next, Done
<1>4. QED
  BY <1>3, TypeInit, NextType, PTL DEF Spec, PoolOnlyGrows

-----------------------------------------------------------------------------
(***************************************************************************)
(* The pool implements the ledger.                                         *)
(***************************************************************************)
\* Authors are unique, so the choice in Author is determined.
AuthorsKnown ==
  \A p \in Papers :
    /\ \A s \in Slots : p \in task[s].kept => Author[p] = s
    /\ (\A s \in Slots : p \notin task[s].kept) => Author[p] = Unclaimed

LEMMA AuthorIs == PoolHasOneAuthor => AuthorsKnown
<1> SUFFICES ASSUME PoolHasOneAuthor, NEW p \in Papers
             PROVE  /\ \A s \in Slots : p \in task[s].kept => Author[p] = s
                    /\ (\A s \in Slots : p \notin task[s].kept) => Author[p] = Unclaimed
  BY DEF AuthorsKnown
<1>1. ASSUME NEW s \in Slots, p \in task[s].kept
      PROVE  Author[p] = s
  <2>1. \A r \in Slots : p \in task[r].kept => r = s
    BY <1>1 DEF PoolHasOneAuthor
  <2>2. (CHOOSE r \in Slots : p \in task[r].kept) = s
    BY <1>1, <2>1
  <2>3. QED
    BY <1>1, <2>2 DEF Author
<1>2. QED
  BY <1>1 DEF Author

LEMMA AuthorsBeforeAndAfter == IInv /\ IInv' => AuthorsKnown /\ AuthorsKnown'
<1>1. IInv => AuthorsKnown
  BY AuthorIs DEF IInv, Safe
<1>2. QED
  BY <1>1, PTL

LEMMA MoveRefines ==
  ASSUME IInv, IInv', NEW s \in Slots, Moves(s)
  PROVE  Ledger!Next \/ UNCHANGED <<Author, Returned>>
<1>1. PICK t \in Task :
        /\ task' = [task EXCEPT ![s] = t]
        /\ t.phase \in {"fetch", "score", "done"}
  BY DEF Moves
<1>2. /\ task'[s] = t
      /\ \A r \in Slots : r # s => task'[r] = task[r]
  BY <1>1 DEF IInv, TypeInv, TypeOK
<1>3. task[s].kept = {} /\ s \notin Returned
  BY DEF IInv, Safe, OwnsWhenDone, Moves, Returned
<1>4. PoolHasOneAuthor /\ PoolHasOneAuthor'
  BY DEF IInv, Safe
<1>5. t.kept \subseteq Papers
  BY <1>1 DEF Task
<1>6. \A p \in Papers : Author'[p] = IF p \in t.kept THEN s ELSE Author[p]
  <2> TAKE p \in Papers
  <2>1. CASE p \in t.kept
    <3>1. \A r \in Slots : p \in task'[r].kept => Author'[p] = r
      BY AuthorsBeforeAndAfter DEF AuthorsKnown
    <3>2. QED
      BY <1>2, <2>1, <3>1
  <2>2. CASE p \notin t.kept
    <3>1. \A r \in Slots : p \in task'[r].kept <=> p \in task[r].kept
      BY <1>2, <1>3, <2>2
    <3>2. /\ \A r \in Slots : p \in task'[r].kept => Author'[p] = r
          /\ (\A r \in Slots : p \notin task'[r].kept) => Author'[p] = Unclaimed
          /\ \A r \in Slots : p \in task[r].kept => Author[p] = r
          /\ (\A r \in Slots : p \notin task[r].kept) => Author[p] = Unclaimed
      BY AuthorsBeforeAndAfter DEF AuthorsKnown
    <3>3. QED
      BY <2>2, <3>1, <3>2
  <2>3. QED
    BY <2>1, <2>2
<1>7. DOMAIN Author = Papers /\ Author' = [p \in Papers |-> Author'[p]]
  BY DEF Author
<1>8. CASE t.phase = "done"
  <2>1. \A p \in t.kept : Author[p] = Unclaimed
    <3>1. ASSUME NEW p \in t.kept, NEW r \in Slots
          PROVE  p \notin task[r].kept
      <4>1. CASE r = s
        BY <1>3, <4>1
      <4>2. CASE r # s
        BY <1>2, <1>4, <3>1, <4>2 DEF PoolHasOneAuthor
      <4>3. QED
        BY <4>1, <4>2
    <3>2. QED
      BY <1>5, <3>1, AuthorsBeforeAndAfter DEF AuthorsKnown
  <2>2. Returned' = Returned \union {s}
    BY <1>2, <1>8 DEF Returned
  <2>3. Author' = [p \in Papers |-> IF p \in t.kept THEN s ELSE Author[p]]
    BY <1>6, <1>7
  <2>4. Ledger!Settle(s, t.kept)
    BY <1>3, <2>1, <2>2, <2>3 DEF Ledger!Settle
  <2>5. QED
    BY <1>5, <2>4 DEF Ledger!Next
<1>9. CASE t.phase # "done"
  <2>1. t.kept = {}
    BY <1>2, <1>9 DEF IInv, Safe, OwnsWhenDone
  <2>2. Author' = Author
    BY <1>6, <1>7, <2>1 DEF Author
  <2>3. Returned' = Returned
    BY <1>2, <1>3, <1>9 DEF Returned
  <2>4. QED
    BY <2>2, <2>3
<1>10. QED
  BY <1>8, <1>9

LEMMA LoopRefines ==
  ASSUME IInv, IInv', Answer \/ FinishStep \/ UNCHANGED vars \/ \E reply \in Replies : Launch(reply)
  PROVE  UNCHANGED <<Author, Returned>>
<1>1. CASE UNCHANGED task
  BY <1>1 DEF Author, Returned
<1>2. ASSUME NEW reply \in Replies, Launch(reply)
      PROVE  UNCHANGED <<Author, Returned>>
  <2>1. \A s \in Slots : \/ task'[s] = task[s]
                         \/ /\ s[1] = numSteps + 1
                            /\ task'[s].phase = "new"
                            /\ task'[s].kept = {}
    BY <1>2 DEF Launch, NewTask
  <2>2. \A s \in Slots : s[1] = numSteps + 1 => task[s].phase = "idle" /\ task[s].kept = {}
    BY DEF IInv, Safe, OneRowRuns, OwnsWhenDone, TypeInv, TypeOK, Slots
  <2>3. \A s \in Slots : /\ task'[s].kept = task[s].kept
                         /\ task'[s].phase = "done" <=> task[s].phase = "done"
    BY <2>1, <2>2
  <2>4. Returned' = Returned
    BY <2>3 DEF Returned
  <2>5. \A p \in Papers : Author'[p] = Author[p]
    <3> TAKE p \in Papers
    <3>1. /\ \A r \in Slots : p \in task'[r].kept => Author'[p] = r
          /\ (\A r \in Slots : p \notin task'[r].kept) => Author'[p] = Unclaimed
          /\ \A r \in Slots : p \in task[r].kept => Author[p] = r
          /\ (\A r \in Slots : p \notin task[r].kept) => Author[p] = Unclaimed
      BY AuthorsBeforeAndAfter DEF AuthorsKnown
    <3>2. QED
      BY <2>3, <3>1
  <2>6. Author' = Author
    BY <2>5 DEF Author
  <2>7. QED
    BY <2>4, <2>6
<1>3. QED
  BY <1>1, <1>2 DEF Answer, FinishStep, vars

\* Seen through the authors of its papers and the coroutines that have returned,
\* the trajectory is a behaviour of the ledger.
THEOREM PoolImplementsLedger == Spec => ImplementsLedger
<1>1. Init => Ledger!Init
  <2> SUFFICES ASSUME Init PROVE Ledger!Init
    OBVIOUS
  <2>1. \A s \in Slots : task[s].kept = {} /\ task[s].phase = "idle"
    BY DEF Init, NewTask
  <2>2. Author = [p \in Papers |-> Unclaimed] /\ Returned = {}
    BY <2>1 DEF Author, Returned
  <2>3. QED
    BY <2>2 DEF Ledger!Init
<1>2. IInv /\ IInv' /\ [Next]_vars => [Ledger!Next]_(Ledger!vars)
  <2> SUFFICES ASSUME IInv, IInv', [Next]_vars
               PROVE  Ledger!Next \/ UNCHANGED <<Author, Returned>>
    BY DEF Ledger!vars
  <2>1. ASSUME NEW s \in Slots, Start(s) \/ Respond(s)
        PROVE  Ledger!Next \/ UNCHANGED <<Author, Returned>>
    BY <2>1, StartMoves, RespondMoves, MoveRefines DEF IInv
  <2>2. CASE Answer \/ FinishStep \/ UNCHANGED vars \/ \E reply \in Replies : Launch(reply)
    BY <2>2, LoopRefines
  <2>3. QED
    BY <2>1, <2>2 DEF Next, Done
<1>3. QED
  BY <1>1, <1>2, Invariance, PTL DEF Spec, ImplementsLedger, Ledger!Spec

-----------------------------------------------------------------------------
(***************************************************************************)
(* Progress: what Terminates needs besides the fairness.  While gather     *)
(* runs a coroutine or run() itself has its next segment before it, and    *)
(* every step takes work off a heap that is finite.                        *)
(***************************************************************************)
\* The rewards that are paid can always be chosen: sorted(...)[: reward_top_k].
LEMMA TopExists ==
  ASSUME NEW kept, IsFiniteSet(kept), NEW score, \A p \in kept : score[p] \in Nat
  PROVE  \E top \in SUBSET kept : IsTopK(top, kept, score)
<1> DEFINE Has(T) == \E top \in SUBSET T : IsTopK(top, T, score)
           B == {T \in SUBSET kept : ~Has(T)}
<1> SUFFICES ASSUME B # {} PROVE FALSE
  BY kept \in SUBSET kept
<1>1. PICK T \in B : \A U \in B : U \subseteq T => U = T
  <2>1. B \in SUBSET SUBSET kept
    OBVIOUS
  <2> HIDE DEF B
  <2> QED
    BY <2>1, SmallestSubset
<1>2. T \in SUBSET kept /\ IsFiniteSet(T) /\ Cardinality(T) \in Nat
  BY FS_Subset, FS_CardinalityType
<1>3. CASE Cardinality(T) <= TopK
  <2>1. IsTopK(T, T, score)
    BY <1>2, <1>3 DEF IsTopK
  <2> QED
    BY <2>1
<1>4. CASE ~(Cardinality(T) <= TopK)
  <2>1. T # {}
    BY <1>2, <1>4, FS_EmptySet
  <2>2. PICK p \in T : \A q \in T : score[q] >= score[p]
    <3> DEFINE S == {score[q] : q \in T}
    <3>1. S \in SUBSET Nat /\ S # {}
      BY <1>2, <2>1
    <3>2. PICK n \in S : \A m \in S : n <= m
      <4> HIDE DEF S
      <4> QED
        BY <3>1, LeastElement
    <3>3. PICK p \in T : n = score[p]
      BY <3>2
    <3>4. \A q \in T : score[q] >= score[p]
      BY <1>2, <3>2, <3>3
    <3> QED
      BY <3>4
  <2> DEFINE R == T \ {p}
  <2>3. R \in SUBSET kept /\ R \notin B
    BY <1>1, <1>2
  <2>4. PICK top \in SUBSET R : IsTopK(top, R, score)
    BY <2>3
  <2>5. Cardinality(R) = Cardinality(T) - 1 /\ Cardinality(R) \in Nat
    BY <1>2, FS_RemoveElement, FS_CardinalityType
  <2>6. Cardinality(top) = TopK
    BY <1>2, <1>4, <2>4, <2>5 DEF IsTopK
  <2>7. \A a \in top, q \in T \ top : score[a] >= score[q]
    BY <2>2, <2>4 DEF IsTopK
  <2>8. IsTopK(top, T, score) /\ top \in SUBSET T
    BY <1>2, <1>4, <2>6, <2>7 DEF IsTopK
  <2> QED
    BY <2>8
<1> QED
  BY <1>3, <1>4

\* The guards of Start, Respond and FinishStep.
Settles(s) ==
  \A score \in [task[s].cand -> Scores] :
    \E top \in SUBSET KeptPapers(s, score) : IsTopK(top, KeptPapers(s, score), score)

SomebodyCanMove ==
  \/ \A s \in Row(numSteps) : task[s].phase \in {"idle", "done"}
  \/ \E s \in Slots, kind \in {"search", "expand"} :
       \/ Starts(s, kind)
       \/ Resumes(s, kind, "fetch")
       \/ Resumes(s, kind, "score") /\ Settles(s)

LEMMA AlwaysSettles ==
  ASSUME IInv, NEW s \in Slots
  PROVE  Settles(s)
<1> SUFFICES ASSUME NEW score \in [task[s].cand -> Scores]
             PROVE  \E top \in SUBSET KeptPapers(s, score) :
                      IsTopK(top, KeptPapers(s, score), score)
  BY DEF Settles
<1>1. task[s].cand \in SUBSET Papers
  BY DEF IInv, TypeInv, TypeOK, Task
<1>2. KeptPapers(s, score) \in SUBSET Papers
      /\ \A p \in KeptPapers(s, score) : score[p] \in Nat
  BY <1>1 DEF KeptPapers, Scores
<1>3. IsFiniteSet(KeptPapers(s, score))
  BY <1>2, FS_Subset
<1> QED
  BY <1>2, <1>3, TopExists

LEMMA NobodyIsStuck ==
  ASSUME IInv, pc = "tools"
  PROVE  SomebodyCanMove
<1>1. /\ numSteps \in 1..MaxSteps /\ task \in [Slots -> Task]
      /\ \A s \in Row(numSteps) : s \in Slots /\ s[1] = numSteps /\ s[2] \in Nat
      /\ \A s \in Slots : task[s].phase = "idle" <=> task[s].kind = "idle"
  BY DEF IInv, TypeInv, Control, TypeOK, Safe, OwnsWhenDone, Row, Slots
<1>2. \A s \in Slots : /\ task[s].kind \in {"idle", "search", "expand"}
                       /\ task[s].phase \in {"idle", "new", "fetch", "score", "done"}
  BY <1>1 DEF Task
<1> DEFINE fresh == {s \in Row(numSteps) : task[s].phase = "new"}
<1>3. CASE fresh # {}
  <2> DEFINE P == {s[2] : s \in fresh}
  <2>1. P \in SUBSET Nat /\ P # {}
    BY <1>1, <1>3
  <2>2. PICK n \in P : \A m \in P : n <= m
    <3> HIDE DEF P
    <3> QED
      BY <2>1, LeastElement
  <2>3. PICK s \in fresh : s[2] = n
    BY <2>2
  <2>4. s \in Slots /\ Row(s[1]) = Row(numSteps) /\ task[s].phase = "new"
    BY <1>1
  <2>5. task[s].kind \in {"search", "expand"}
    BY <1>1, <1>2, <2>4
  <2>6. \A r \in Row(numSteps) : r[2] < s[2] => task[r].phase # "new"
    <3> SUFFICES ASSUME NEW r \in Row(numSteps), r[2] < s[2], task[r].phase = "new" PROVE FALSE
      OBVIOUS
    <3>1. n <= r[2]
      BY <2>2
    <3>2. n \in Nat /\ r[2] \in Nat
      BY <1>1, <2>1
    <3> QED
      BY <2>3, <3>1, <3>2
  <2>7. Starts(s, task[s].kind)
    BY <2>4, <2>6 DEF Starts
  <2> QED
    BY <2>4, <2>5, <2>7 DEF SomebodyCanMove
<1>4. CASE fresh = {}
  <2>1. CASE \A s \in Row(numSteps) : task[s].phase \in {"idle", "done"}
    BY <2>1 DEF SomebodyCanMove
  <2>2. ASSUME NEW s \in Row(numSteps), task[s].phase \notin {"idle", "done"}
        PROVE  SomebodyCanMove
    <3>1. s \in Slots /\ Row(s[1]) = Row(numSteps) /\ task[s].phase \in {"fetch", "score"}
      BY <1>1, <1>2, <1>4, <2>2
    <3>2. task[s].kind \in {"search", "expand"}
      BY <1>1, <1>2, <3>1
    <3>3. Resumes(s, task[s].kind, task[s].phase)
      BY <1>4, <3>1 DEF Resumes
    <3>4. Settles(s)
      BY <3>1, AlwaysSettles
    <3> QED
      BY <3>1, <3>2, <3>3, <3>4 DEF SomebodyCanMove
  <2> QED
    BY <2>1, <2>2
<1> QED
  BY <1>3, <1>4

\* gather never hangs on its own coroutines: in every step, however its calls
\* interleave, one of them can start or take the answer it waits for, or all of
\* them have returned.
THEOREM GatherNeverHangs == Spec => [](pc = "tools" => SomebodyCanMove)
<1>1. IInv => (pc = "tools" => SomebodyCanMove)
  BY NobodyIsStuck
<1> QED
  BY <1>1, Invariance, PTL

\* The segments a coroutine may still run ...
SegmentsLeft == [s \in Slots |-> CASE task[s].phase = "idle"  -> 4
                                   [] task[s].phase = "new"   -> 3
                                   [] task[s].phase = "fetch" -> 2
                                   [] task[s].phase = "score" -> 1
                                   [] OTHER                   -> 0]

\* ... and the rounds that are left of run()'s loop.
RoundsLeft == 2 * (MaxSteps - numSteps) + (IF pc = "tools" THEN 1 ELSE 0)

WorkLeft == Sum(SegmentsLeft, Slots) + RoundsLeft

WorkBound == Cardinality(Slots) * 4 + 2 * MaxSteps

LEMMA SegmentsTyped == \A s \in Slots : SegmentsLeft[s] \in 0..4
BY DEF SegmentsLeft

LEMMA RoundsTyped ==
  ASSUME TypeInv
  PROVE  RoundsLeft \in 0..2 * MaxSteps
BY DEF TypeInv, TypeOK, Control, RoundsLeft

LEMMA WorkIsBounded ==
  ASSUME TypeInv
  PROVE  WorkLeft \in 0..WorkBound
<1> DEFINE full == [s \in Slots |-> 4]
<1>1. \A s \in Slots : full[s] = 4 /\ SegmentsLeft[s] \in Nat /\ SegmentsLeft[s] <= full[s]
  BY SegmentsTyped
<1> HIDE DEF full
<1>2. Sum(full, Slots) = Cardinality(Slots) * 4
  <2>1. 4 \in Int
    OBVIOUS
  <2> QED
    BY <1>1, <2>1, SlotsFinite, SumConstant
<1>3. PICK p \in Nat : p = Sum(SegmentsLeft, Slots)
  BY <1>1, SlotsFinite, SumNat
<1>4. Sum(SegmentsLeft, Slots) <= Sum(full, Slots)
  <2>1. \A s \in Slots : SegmentsLeft[s] \in Int /\ full[s] \in Int /\ SegmentsLeft[s] <= full[s]
    BY <1>1
  <2> QED
    BY <2>1, SlotsFinite, SumMonotonic
<1>5. PICK c \in Nat : c = Cardinality(Slots)
  BY SlotsFinite, FS_CardinalityType
<1>6. PICK m \in Nat : m = MaxSteps
  BY DEF BoundsAssumption
<1>7. PICK r \in 0..2 * m : r = RoundsLeft
  BY <1>6, RoundsTyped
<1> QED
  BY <1>2, <1>3, <1>4, <1>5, <1>6, <1>7 DEF WorkLeft, WorkBound

\* A segment brings its coroutine nearer to its return.
LEMMA PhaseAdvances ==
  ASSUME TypeInv, NEW s \in Slots, Start(s) \/ Respond(s)
  PROVE  \/ task[s].phase = "new"   /\ task'[s].phase \in {"fetch", "score", "done"}
         \/ task[s].phase = "fetch" /\ task'[s].phase \in {"score", "done"}
         \/ task[s].phase = "score" /\ task'[s].phase = "done"
<1>1. task \in [Slots -> Task] /\ task[s] \in Task
  BY DEF TypeInv, TypeOK
<1>2. task'[s].phase \in {"fetch", "score", "done"}
  BY <1>1, StartMoves, RespondMoves DEF Moves
<1>3. ASSUME NEW o, Return(s, o) PROVE task'[s].phase = "done"
  BY <1>1, <1>3 DEF Return, Task
<1>4. ASSUME NEW found, Await(s, found) PROVE task'[s].phase = "score"
  BY <1>1, <1>4 DEF Await, Task
<1>5. ASSUME NEW score, Settle(s, score) PROVE task'[s].phase = "done"
  BY <1>1, <1>5 DEF Settle, Task
<1>6. CASE Start(s)
  BY <1>2, <1>6 DEF Start, StartSearch, StartExpand, Starts
<1>7. CASE SearchFails(s) \/ ExpandFails(s)
  BY <1>3, <1>7 DEF SearchFails, ExpandFails, Resumes
<1>8. ASSUME NEW found, SearchReturns(s, found) \/ ExpandReturns(s, found)
      PROVE  task[s].phase = "fetch" /\ task'[s].phase \in {"score", "done"}
  BY <1>3, <1>4, <1>8 DEF SearchReturns, ExpandReturns, Resumes
<1>9. ASSUME NEW score, SearchScored(s, score) \/ ExpandScored(s, score)
      PROVE  task[s].phase = "score" /\ task'[s].phase = "done"
  BY <1>5, <1>9 DEF SearchScored, ExpandScored, Resumes
<1> QED
  BY <1>6, <1>7, <1>8, <1>9 DEF Respond

\* Steps that leave every coroutine where it is or bring it nearer to its return.
LEMMA SegmentsShrink ==
  ASSUME \A s \in Slots : SegmentsLeft'[s] <= SegmentsLeft[s]
  PROVE  /\ Sum(SegmentsLeft, Slots) \in Int /\ Sum(SegmentsLeft', Slots) \in Int
         /\ Sum(SegmentsLeft', Slots) <= Sum(SegmentsLeft, Slots)
         /\ (\E s \in Slots : SegmentsLeft'[s] < SegmentsLeft[s]) =>
               Sum(SegmentsLeft', Slots) < Sum(SegmentsLeft, Slots)
<1>1. PICK f : f = SegmentsLeft
  OBVIOUS
<1>2. PICK g : g = SegmentsLeft'
  OBVIOUS
<1>3. \A s \in Slots : f[s] \in Int
  BY <1>1, SegmentsTyped
<1>4. \A s \in Slots : g[s] \in Int
  BY <1>2 DEF SegmentsLeft
<1>5. \A s \in Slots : g[s] <= f[s]
  BY <1>1, <1>2
<1>6. Sum(f, Slots) \in Int /\ Sum(g, Slots) \in Int
  BY <1>3, <1>4, SlotsFinite, SumInt
<1>7. Sum(g, Slots) <= Sum(f, Slots)
  BY <1>3, <1>4, <1>5, SlotsFinite, SumMonotonic
<1>8. ASSUME NEW s \in Slots, g[s] < f[s] PROVE Sum(g, Slots) < Sum(f, Slots)
  BY <1>3, <1>4, <1>5, <1>8, SlotsFinite, SumDecreases
<1> QED
  BY <1>1, <1>2, <1>6, <1>7, <1>8

LEMMA SegmentTakesWork ==
  ASSUME TypeInv, NEW s \in Slots, Start(s) \/ Respond(s)
  PROVE  WorkLeft' < WorkLeft
<1>1. Moves(s)
  BY StartMoves, RespondMoves
<1>2. /\ \A r \in Slots : r # s => task'[r] = task[r]
      /\ UNCHANGED <<pc, numSteps>>
  BY <1>1 DEF Moves, TypeInv, TypeOK
<1>3. SegmentsLeft'[s] < SegmentsLeft[s] /\ SegmentsLeft[s] \in Int /\ SegmentsLeft'[s] \in Int
  BY PhaseAdvances DEF SegmentsLeft
<1>4. \A r \in Slots : SegmentsLeft'[r] <= SegmentsLeft[r]
  <2> SUFFICES ASSUME NEW r \in Slots PROVE SegmentsLeft'[r] <= SegmentsLeft[r]
    OBVIOUS
  <2>1. CASE r = s
    BY <1>3, <2>1
  <2>2. CASE r # s
    <3>1. SegmentsLeft'[r] = SegmentsLeft[r]
      BY <1>2, <2>2 DEF SegmentsLeft
    <3> QED
      BY <3>1, SegmentsTyped
  <2> QED
    BY <2>1, <2>2
<1>5. RoundsLeft' = RoundsLeft
  BY <1>2 DEF RoundsLeft
<1>6. PICK r \in 0..2 * MaxSteps : r = RoundsLeft
  BY RoundsTyped
<1>7. /\ Sum(SegmentsLeft, Slots) \in Int /\ Sum(SegmentsLeft', Slots) \in Int
      /\ Sum(SegmentsLeft', Slots) < Sum(SegmentsLeft, Slots)
  BY <1>3, <1>4, SegmentsShrink
<1>8. WorkLeft = Sum(SegmentsLeft, Slots) + r /\ WorkLeft' = Sum(SegmentsLeft', Slots) + r /\ r \in Int
  BY <1>5, <1>6 DEF WorkLeft, BoundsAssumption
<1> QED
  BY <1>7, <1>8

\* The steps of run() itself.
LEMMA RoundTakesWork ==
  ASSUME IInv, (\E reply \in Replies : Launch(reply)) \/ Answer \/ FinishStep
  PROVE  WorkLeft' < WorkLeft
<1>1. /\ numSteps \in Nat /\ MaxSteps \in Nat /\ task \in [Slots -> Task]
      /\ \A s \in Slots : s[1] \in Nat
  BY DEF IInv, TypeInv, TypeOK, BoundsAssumption, Slots
<1>2. \A s \in Slots : SegmentsLeft'[s] <= SegmentsLeft[s]
  <2>1. ASSUME NEW reply \in Replies, Launch(reply), NEW s \in Slots
        PROVE  SegmentsLeft'[s] <= SegmentsLeft[s]
    <3>1. CASE task'[s] = task[s]
      <4>1. SegmentsLeft'[s] = SegmentsLeft[s]
        BY <3>1 DEF SegmentsLeft
      <4> QED
        BY <4>1, SegmentsTyped
    <3>2. CASE s[1] = numSteps + 1 /\ task'[s].phase = "new"
      <4>1. task[s].phase = "idle"
        BY <1>1, <3>2 DEF IInv, Safe, OneRowRuns
      <4> QED
        BY <3>2, <4>1 DEF SegmentsLeft
    <3> QED
      BY <1>1, <2>1, <3>1, <3>2 DEF Launch, NewTask
  <2>2. ASSUME Answer \/ FinishStep, NEW s \in Slots
        PROVE  SegmentsLeft'[s] <= SegmentsLeft[s]
    <3>1. SegmentsLeft'[s] = SegmentsLeft[s]
      BY <2>2 DEF Answer, FinishStep, SegmentsLeft
    <3> QED
      BY <3>1, SegmentsTyped
  <2> QED
    BY <2>1, <2>2
<1>3. RoundsLeft \in Int /\ RoundsLeft' \in Int /\ RoundsLeft' < RoundsLeft
  <2>1. \/ pc # "tools" /\ numSteps' = numSteps + 1
        \/ pc = "tools" /\ numSteps' = numSteps /\ pc' # "tools"
    BY DEF Launch, Answer, FinishStep, LoopPc
  <2>2. PICK n \in Int, m \in Int : n = numSteps /\ m = MaxSteps
    BY <1>1
  <2>3. CASE pc # "tools" /\ numSteps' = numSteps + 1
    <3>1. RoundsLeft = 2 * (m - n)
      BY <2>2, <2>3 DEF RoundsLeft
    <3>2. RoundsLeft' = 2 * (m - (n + 1)) + (IF pc' = "tools" THEN 1 ELSE 0)
      BY <2>2, <2>3 DEF RoundsLeft
    <3> QED
      BY <2>2, <3>1, <3>2
  <2>4. CASE pc = "tools" /\ numSteps' = numSteps /\ pc' # "tools"
    <3>1. RoundsLeft = 2 * (m - n) + 1 /\ RoundsLeft' = 2 * (m - n)
      BY <2>2, <2>4 DEF RoundsLeft
    <3> QED
      BY <2>2, <3>1
  <2> QED
    BY <2>1, <2>3, <2>4
<1>4. /\ Sum(SegmentsLeft, Slots) \in Int /\ Sum(SegmentsLeft', Slots) \in Int
      /\ Sum(SegmentsLeft', Slots) <= Sum(SegmentsLeft, Slots)
  BY <1>2, SegmentsShrink
<1> QED
  BY <1>3, <1>4 DEF WorkLeft

\* A trajectory is over after a bounded number of segments, however the answers
\* interleave: the work that is left has a bound that only the configuration gives,
\* and every step takes some of it off.
THEOREM TrajectoryTakesBoundedWork ==
  Spec => /\ [](WorkLeft \in 0..WorkBound)
          /\ [][WorkLeft' < WorkLeft]_vars
<1>1. IInv => WorkLeft \in 0..WorkBound
  BY WorkIsBounded DEF IInv
<1>2. IInv /\ [Next]_vars => [WorkLeft' < WorkLeft]_vars
  <2> SUFFICES ASSUME IInv, Next PROVE WorkLeft' < WorkLeft \/ UNCHANGED vars
    OBVIOUS
  <2>1. CASE \E s \in Slots : Start(s) \/ Respond(s)
    BY <2>1, SegmentTakesWork DEF IInv
  <2>2. CASE (\E reply \in Replies : Launch(reply)) \/ Answer \/ FinishStep
    BY <2>2, RoundTakesWork
  <2>3. CASE Done
    BY <2>3 DEF Done
  <2> QED
    BY <2>1, <2>2, <2>3 DEF Next
<1> QED
  BY <1>1, <1>2, Invariance, PTL DEF Spec
=============================================================================
