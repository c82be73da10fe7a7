---------------------------- MODULE PaperSearch ----------------------------
(***************************************************************************)
(* One trajectory of the paper-search agent flow                           *)
(* (recipe/paper_search/paper_search_agent_flow.py): the loop that asks    *)
(* the model for tool calls, the search and expand coroutines it gathers,  *)
(* and the paper pool and query history those coroutines share.            *)
(*                                                                         *)
(* asyncio runs a coroutine without interruption from one await to the     *)
(* next, so every action below is one such segment.  The segments of       *)
(* different coroutines of a step interleave in any order, except that     *)
(* asyncio.gather starts the coroutines first-in first-out and no answer   *)
(* can arrive before the last of them has started.                         *)
(*                                                                         *)
(* A reward is kept as the set of papers it pays for (credit) and the      *)
(* way the coroutine ended (outcome); RewardOf gives its number.           *)
(***************************************************************************)
EXTENDS Integers, FiniteSets, FiniteSetsExt, Sums

CONSTANTS
  Papers,        \* papers the search service knows
  Queries,       \* queries the model may write
  Abstractless,  \* papers the service returns with an empty abstract
  MaxSteps,      \* max_steps: model calls in one trajectory
  MaxParallel,   \* max_parallel_calls: tool calls of one step that are run
  TopK,          \* reward_top_k
  One,           \* the reward unit 1.0, as an integer
  Threshold,     \* score_threshold, in the same unit
  Discrete,      \* use_discrete_reward
  SearchCost,    \* search_cost, in the same unit
  ExpandCost,    \* expand_cost, in the same unit
  Penalty        \* the 0.5 a repeated or impossible call loses

ASSUME PapersAssumption ==
  /\ IsFiniteSet(Papers)
  /\ Papers \cap Queries = {}
  /\ Abstractless \subseteq Papers
ASSUME BoundsAssumption ==
  /\ MaxSteps \in Nat \ {0}
  /\ MaxParallel \in Nat \ {0}
  /\ TopK \in Nat \ {0}
ASSUME RewardAssumption ==
  /\ One \in Nat \ {0}
  /\ Threshold \in 0..One
  /\ Discrete \in BOOLEAN
  /\ {SearchCost, ExpandCost, Penalty} \subseteq Nat

VARIABLES
  pc,        \* where run() is: "generate", "tools" (inside gather) or "done"
  numSteps,  \* num_steps
  pool,      \* PaperPool.papers: paper -> entry, a partial function
  searched,  \* the keys of history_search_queries
  task,      \* the coroutines: (step, position) -> record
  totals,    \* total_search_action_count and total_expand_action_count
  steps      \* per finished step, the totals its reward_extra_info records

vars == <<pc, numSteps, pool, searched, task, totals, steps>>

-----------------------------------------------------------------------------
Slots == (1..MaxSteps) \X (1..MaxParallel)

\* Relevance scores; 0 stands for every score below 0.01, a failed selector
\* call included.
Scores == 0..One

NoArg == "none"

\* A tool call that passed the name, decoding and argument checks of run().
Calls == [kind : {"search"}, arg : Queries] \union [kind : {"expand"}, arg : Papers]

\* A reply of the model after truncation to max_parallel_calls: its valid calls
\* in order.  Invalid calls are skipped, so the list may be empty.
Replies == UNION {[1..n -> Calls] : n \in 0..MaxParallel}

Entry == [source : {"search", "expand"}, origin : Queries \union Papers,
          score : Scores, expand : BOOLEAN]

Task == [kind    : {"idle", "search", "expand"},
         arg     : Queries \union Papers \union {NoArg},
         phase   : {"idle", "new", "fetch", "score", "done"},
         cand    : SUBSET Papers,    \* new_papers: candidates being scored
         kept    : SUBSET Papers,    \* kept_papers: what it added to the pool
         credit  : SUBSET Papers,    \* the top-k of kept that its reward pays
         outcome : {"none", "penalty", "failed", "nothing", "paid"}]

Totals == [search : Nat, expand : Nat]

NewTask(kind, arg, phase) ==
  [kind |-> kind, arg |-> arg, phase |-> phase, cand |-> {}, kept |-> {},
   credit |-> {}, outcome |-> "none"]

\* Mutant of InPool: papers that expansions added are not looked up.
InPool_SearchOnly(p) == p \in DOMAIN pool /\ pool[p].source = "search"

InPool(p) == p \in DOMAIN pool

\* The coroutines of step n.
Row(n) == {s \in Slots : s[1] = n}

Init ==
  /\ pc = "generate"
  /\ numSteps = 0
  /\ pool = [p \in {} |-> {}]
  /\ searched = {}
  /\ task = [s \in Slots |-> NewTask("idle", NoArg, "idle")]
  /\ totals = [search |-> 0, expand |-> 0]
  /\ steps = [n \in {} |-> {}]

-----------------------------------------------------------------------------
(***************************************************************************)
(* run(): the model answers, its calls become coroutines, and gather       *)
(* resumes run() when the last of them has returned.                       *)
(***************************************************************************)
\* Mutant of LoopPc: the loop runs once too often.
LoopPc_OneMore(n) == IF n <= MaxSteps THEN "generate" ELSE "done"

\* while num_steps < max_steps
LoopPc(n) == IF n < MaxSteps THEN "generate" ELSE "done"

CallsOfKind(reply, kind) == Cardinality({i \in DOMAIN reply : reply[i].kind = kind})

\* Mutant of Launch: the totals start again in every step.
Launch_TotalsReset(reply) ==
  /\ pc = "generate"
  /\ numSteps' = numSteps + 1
  /\ task' = [s \in Slots |->
                IF s[1] = numSteps + 1 /\ s[2] \in DOMAIN reply
                THEN NewTask(reply[s[2]].kind, reply[s[2]].arg, "new")
                ELSE task[s]]
  /\ totals' = [search |-> CallsOfKind(reply, "search"),
                expand |-> CallsOfKind(reply, "expand")]
  /\ pc' = "tools"
  /\ UNCHANGED <<pool, searched, steps>>

\* History and totals are updated for every launched call before gather runs
\* the first of them.
Launch(reply) ==
  /\ pc = "generate"
  /\ numSteps' = numSteps + 1
  /\ task' = [s \in Slots |->
                IF s[1] = numSteps + 1 /\ s[2] \in DOMAIN reply
                THEN NewTask(reply[s[2]].kind, reply[s[2]].arg, "new")
                ELSE task[s]]
  /\ totals' = [search |-> totals.search + CallsOfKind(reply, "search"),
                expand |-> totals.expand + CallsOfKind(reply, "expand")]
  /\ pc' = "tools"
  /\ UNCHANGED <<pool, searched, steps>>

\* A reply without any tool call ends the trajectory with a step of its own.
Answer ==
  /\ pc = "generate"
  /\ numSteps' = numSteps + 1
  /\ steps' = [n \in 1..(numSteps + 1) |-> IF n = numSteps + 1 THEN totals ELSE steps[n]]
  /\ pc' = "done"
  /\ UNCHANGED <<pool, searched, task, totals>>

\* gather returned: the step is recorded and the loop goes on or stops.
FinishStep ==
  /\ pc = "tools"
  /\ \A s \in Row(numSteps) : task[s].phase \in {"idle", "done"}
  /\ steps' = [n \in 1..numSteps |-> IF n = numSteps THEN totals ELSE steps[n]]
  /\ pc' = LoopPc(numSteps)
  /\ UNCHANGED <<numSteps, pool, searched, task, totals>>

-----------------------------------------------------------------------------
(***************************************************************************)
(* What search() and expand() share.                                       *)
(***************************************************************************)
\* gather starts its coroutines in order ...
Starts(s, kind) ==
  /\ task[s].phase = "new"
  /\ task[s].kind = kind
  /\ \A r \in Row(s[1]) : r[2] < s[2] => task[r].phase # "new"

\* ... and the event loop delivers answers only when all of them have started.
Resumes(s, kind, phase) ==
  /\ task[s].phase = phase
  /\ task[s].kind = kind
  /\ \A r \in Row(s[1]) : task[r].phase # "new"

Return(s, outcome) ==
  task' = [task EXCEPT ![s] = [@ EXCEPT !.phase = "done", !.outcome = outcome]]

\* Papers that are in the pool already are not sent to the selector.
Await(s, found) ==
  task' = [task EXCEPT ![s] = [@ EXCEPT !.phase = "score",
                                        !.cand = {p \in found : ~InPool(p)}]]

\* Mutant of KeptPapers: the pool check made before the scoring is relied on.
KeptPapers_StaleCheck(s, score) == {p \in task[s].cand : score[p] > 0}

\* Back from the selector, the pool is looked at again: another coroutine may
\* have added the paper in the meantime.
KeptPapers(s, score) == {p \in task[s].cand : score[p] > 0 /\ ~InPool(p)}

\* Mutant of AddPapers: expand() passes the label of search().
AddPapers_WrongSource(s, kept, score) ==
  pool' = [p \in DOMAIN pool \union kept |->
             IF InPool(p) THEN pool[p]
             ELSE [source |-> "search", origin |-> task[s].arg,
                   score |-> score[p], expand |-> FALSE]]

\* PaperPool.add_paper keeps the entry that is there.
AddPapers(s, kept, score) ==
  pool' = [p \in DOMAIN pool \union kept |->
             IF InPool(p) THEN pool[p]
             ELSE [source |-> task[s].kind, origin |-> task[s].arg,
                   score |-> score[p], expand |-> FALSE]]

\* sorted(kept_scores, reverse=True)[: reward_top_k]
IsTopK(top, kept, score) ==
  /\ top \subseteq kept
  /\ Cardinality(top) = (IF Cardinality(kept) < TopK THEN Cardinality(kept) ELSE TopK)
  /\ \A p \in top, q \in kept \ top : score[p] >= score[q]

Settle(s, score) ==
  LET kept == KeptPapers(s, score) IN
  /\ AddPapers(s, kept, score)
  /\ \E top \in SUBSET kept :
       /\ IsTopK(top, kept, score)
       /\ task' = [task EXCEPT ![s] =
                     [@ EXCEPT !.phase = "done", !.cand = {}, !.kept = kept, !.credit = top,
                               !.outcome = IF kept = {} THEN "nothing" ELSE "paid"]]

-----------------------------------------------------------------------------
(***************************************************************************)
(* search(query)                                                           *)
(***************************************************************************)
StartSearch(s) ==
  /\ Starts(s, "search")
  /\ IF task[s].arg \in searched
     THEN Return(s, "penalty")
     ELSE task' = [task EXCEPT ![s] = [@ EXCEPT !.phase = "fetch"]]
  /\ UNCHANGED <<pc, numSteps, pool, searched, totals, steps>>

\* Mutant of SearchFails: a failed query may be tried again.
SearchFails_NotRecorded(s) ==
  /\ Resumes(s, "search", "fetch")
  /\ Return(s, "failed")
  /\ UNCHANGED <<pc, numSteps, pool, searched, totals, steps>>

\* Mutant of SearchFails: the coroutine starts over until the service answers.
SearchFails_RetryForever(s) ==
  /\ Resumes(s, "search", "fetch")
  /\ task' = [task EXCEPT ![s] = [@ EXCEPT !.phase = "new"]]
  /\ UNCHANGED <<pc, numSteps, pool, searched, totals, steps>>

\* client.search raised: the query is remembered all the same.
SearchFails(s) ==
  /\ Resumes(s, "search", "fetch")
  /\ searched' = searched \union {task[s].arg}
  /\ Return(s, "failed")
  /\ UNCHANGED <<pc, numSteps, pool, totals, steps>>

SearchReturns(s, found) ==
  /\ Resumes(s, "search", "fetch")
  /\ IF \E p \in found : ~InPool(p)
     THEN Await(s, found) /\ UNCHANGED searched
     ELSE Return(s, "nothing") /\ searched' = searched \union {task[s].arg}
  /\ UNCHANGED <<pc, numSteps, pool, totals, steps>>

SearchScored(s, score) ==
  /\ Resumes(s, "search", "score")
  /\ Settle(s, score)
  /\ searched' = searched \union {task[s].arg}
  /\ UNCHANGED <<pc, numSteps, totals, steps>>

-----------------------------------------------------------------------------
(***************************************************************************)
(* expand(paper_id)                                                        *)
(***************************************************************************)
\* Mutant of StartExpand: the mark is left to whoever comes back first.
StartExpand_Unmarked(s) ==
  /\ Starts(s, "expand")
  /\ IF InPool(task[s].arg) /\ ~pool[task[s].arg].expand
     THEN task' = [task EXCEPT ![s] = [@ EXCEPT !.phase = "fetch"]]
     ELSE Return(s, "penalty")
  /\ UNCHANGED <<pc, numSteps, pool, searched, totals, steps>>

StartExpand(s) ==
  LET p == task[s].arg IN
  /\ Starts(s, "expand")
  /\ IF InPool(p) /\ ~pool[p].expand
     THEN /\ pool' = [pool EXCEPT ![p].expand = TRUE]
          /\ task' = [task EXCEPT ![s] = [@ EXCEPT !.phase = "fetch"]]
     ELSE Return(s, "penalty") /\ UNCHANGED pool
  /\ UNCHANGED <<pc, numSteps, searched, totals, steps>>

\* get_citations or get_references raised.
ExpandFails(s) ==
  /\ Resumes(s, "expand", "fetch")
  /\ Return(s, "failed")
  /\ UNCHANGED <<pc, numSteps, pool, searched, totals, steps>>

\* Citations and references together, without the paper itself and without
\* papers that have no abstract.
Related(s, found) == found \ ({task[s].arg} \union Abstractless)

ExpandReturns(s, found) ==
  /\ Resumes(s, "expand", "fetch")
  /\ IF \E p \in Related(s, found) : ~InPool(p)
     THEN Await(s, Related(s, found))
     ELSE Return(s, "nothing")
  /\ UNCHANGED <<pc, numSteps, pool, searched, totals, steps>>

ExpandScored(s, score) ==
  /\ Resumes(s, "expand", "score")
  /\ Settle(s, score)
  /\ UNCHANGED <<pc, numSteps, searched, totals, steps>>

-----------------------------------------------------------------------------
Start(s) == StartSearch(s) \/ StartExpand(s)

\* The services answer or fail, at a time of their choosing.
Respond(s) ==
  \/ SearchFails(s)
  \/ ExpandFails(s)
  \/ \E found \in SUBSET Papers : SearchReturns(s, found)
  \/ \E found \in SUBSET Papers : ExpandReturns(s, found)
  \/ \E score \in [task[s].cand -> Scores] : SearchScored(s, score)
  \/ \E score \in [task[s].cand -> Scores] : ExpandScored(s, score)

Done == pc = "done" /\ UNCHANGED vars

Next ==
  \/ \E reply \in Replies : Launch(reply)
  \/ Answer
  \/ FinishStep
  \/ \E s \in Slots : Start(s) \/ Respond(s)
  \/ Done

Spec == Init /\ [][Next]_vars

\* The model server answers, and every HTTP call has a timeout and a bounded
\* number of retries, so each wait of the loop and of a coroutine ends.
Fairness ==
  /\ WF_vars((\E reply \in Replies : Launch(reply)) \/ Answer)
  /\ WF_vars(FinishStep)
  /\ \A s \in Slots : WF_vars(Start(s)) /\ WF_vars(Respond(s))

FairSpec == Spec /\ Fairness

-----------------------------------------------------------------------------
(***************************************************************************)
(* The number of a reward.                                                 *)
(***************************************************************************)
Contribution(score) ==
  IF ~Discrete THEN score
  ELSE IF score >= Threshold THEN One ELSE 0

Worth == [p \in DOMAIN pool |-> Contribution(pool[p].score)]

\* Mutant of RewardOf: the cost of a call is added to its reward.
RewardOf_CostAdded(s) ==
  LET t    == task[s]
      cost == IF t.kind = "search" THEN SearchCost ELSE ExpandCost
  IN CASE t.outcome = "penalty" -> -Penalty
       [] t.outcome = "paid" -> Sum(Worth, t.credit) + cost
       [] OTHER -> 0

RewardOf(s) ==
  LET t    == task[s]
      cost == IF t.kind = "search" THEN SearchCost ELSE ExpandCost
  IN CASE t.outcome = "penalty" -> -Penalty
       [] t.outcome = "paid" -> Sum(Worth, t.credit) - cost
       [] OTHER -> 0

-----------------------------------------------------------------------------
(***************************************************************************)
(* Properties                                                              *)
(***************************************************************************)
\* Every variable holds a value the code can store in it.
TypeOK ==
  /\ pc \in {"generate", "tools", "done"}
  /\ numSteps \in 0..MaxSteps
  /\ \E D \in SUBSET Papers : pool \in [D -> Entry]
  /\ searched \in SUBSET Queries
  /\ task \in [Slots -> Task]
  /\ totals \in Totals
  /\ \E n \in 0..MaxSteps : steps \in [1..n -> Totals]

\* No paper is ever paid for twice: however the coroutines of a step interleave
\* between their pool check and their scoring, one paper earns one reward.
CreditedOnce ==
  \A a, b \in Slots : a # b => task[a].credit \cap task[b].credit = {}

\* A pool entry has exactly one author among the coroutines and names it: the
\* kind and the argument of the call that added it, never those of a later one.
PoolHasOneAuthor ==
  /\ DOMAIN pool = UNION {task[s].kept : s \in Slots}
  /\ \A a, b \in Slots : a # b => task[a].kept \cap task[b].kept = {}
  /\ \A s \in Slots : \A p \in task[s].kept :
       pool[p].source = task[s].kind /\ pool[p].origin = task[s].arg

\* Whatever the trajectory repeats, its rewards never exceed what the papers of
\* its pool are worth together.
RewardBackedByPool ==
  Sum([s \in Slots |-> RewardOf(s)], Slots) <= Sum(Worth, DOMAIN pool)

\* The citations of one paper are requested by at most one coroutine of the
\* trajectory, parallel calls of one step included.
ExpandedOnce ==
  \A a, b \in Slots :
    /\ a # b
    /\ task[a].kind = "expand" /\ task[b].kind = "expand"
    /\ task[a].arg = task[b].arg
    /\ task[a].phase \in {"fetch", "score", "done"} /\ task[b].phase \in {"fetch", "score", "done"}
    => "penalty" \in {task[a].outcome, task[b].outcome}

\* A query of an earlier step is penalised in every later one, even when the
\* earlier request failed or found nothing.
RepeatedSearchPenalised ==
  \A a, b \in Slots :
    /\ a[1] < b[1]
    /\ task[a].kind = "search" /\ task[b].kind = "search"
    /\ task[a].arg = task[b].arg
    /\ task[b].phase \in {"fetch", "score", "done"}
    => task[b].outcome = "penalty"

\* The totals a step reports count every call launched so far, and every call of
\* a reported step has returned.
StepTotalsAreCumulative ==
  \A n \in DOMAIN steps :
    LET launched(kind) == {s \in Slots : s[1] <= n /\ task[s].kind = kind} IN
    /\ steps[n].search = Cardinality(launched("search"))
    /\ steps[n].expand = Cardinality(launched("expand"))
    /\ \A s \in launched("search") \union launched("expand") : task[s].phase = "done"

\* A step never removes a paper from the pool and never rewrites the score or
\* the origin of one, so the prompt and the rewards keep agreeing on its worth.
PoolOnlyGrows ==
  [][\A p \in DOMAIN pool :
       /\ p \in DOMAIN pool'
       /\ pool'[p].score = pool[p].score
       /\ pool'[p].source = pool[p].source
       /\ pool'[p].origin = pool[p].origin]_pool

\* No step 0 exists, so this is the author of no paper.
Unclaimed == <<0, 0>>

\* The author of a paper, seen through the kept_papers of the coroutines.
Author == [p \in Papers |->
             IF \E s \in Slots : p \in task[s].kept
             THEN CHOOSE s \in Slots : p \in task[s].kept
             ELSE Unclaimed]

Returned == {s \in Slots : task[s].phase = "done"}

Ledger == INSTANCE PaperLedger WITH
            Claimants <- Slots, Nobody <- Unclaimed, owner <- Author, settled <- Returned

\* The shared pool behaves as an atomic ledger: each coroutine settles once and
\* takes only papers that no other has taken, whatever happened while it waited.
ImplementsLedger == Ledger!Spec

\* The trajectory ends: every gather returns and the loop runs out of steps or
\* meets an answer.
Terminates == <>(pc = "done")

\* The tag the prompt prints for an entry says "Paper has been expanded already":
\* while the model is asked, every marked paper had its citations fetched.
ExpTagMeansExpanded ==
  pc = "generate" =>
    \A p \in DOMAIN pool : pool[p].expand =>
      \E s \in Slots : /\ task[s].kind = "expand"
                       /\ task[s].arg = p
                       /\ task[s].outcome \in {"nothing", "paid"}
=============================================================================
