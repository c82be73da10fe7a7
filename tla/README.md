# Verification project for CAPO (`arft` and its recipes)

CAPO trains tool-using language-model agents with PPO-style algorithms.  The
repository's own code is `src/arft` (the trainer, the agent-flow manager and
workers, the advantage estimators) and `src/recipe` (one agent flow per
environment: paper search, ALFWorld, WebShop, ScienceWorld, HotpotQA).
`src/verl` is a vendored copy of verl; of it only the parts that the trainer
inherits or calls are looked at here.  All line numbers below are of this
commit.

## 1. Inventory

| Component | State | Operations | Interacts with |
|---|---|---|---|
| Paper-search flow (`recipe/paper_search/paper_search_agent_flow.py`, `utils.py`) | paper pool, query history, steps, action totals | `run`, `search`, `expand`, `get_relevance_score` | model server, search service, selector, all awaited; coroutines of one step share the pool |
| HTTP client (`recipe/paper_search/http_retry.py`) | semaphore shared by the calls of a client, attempt counter per call | `httpx_request_with_retry`, `requests_request_with_retry` | called by `PaperSearchClient`, `SelectorClient` |
| Agent-flow manager and workers (`arft/agent_flow/agent_flow.py`) | rollout servers asleep or awake, one task per trajectory | `generate_sequences` (split, gather, concatenate), `_postprocess` | trainer, flows, reward worker |
| Trainer (`arft/ray_agent_trainer.py`) | step counter, the rows of a batch, reward scaler, validation dump files | `fit` (pad, balance, scale, advantages, updates), `_validate`, dump functions | manager, worker groups, checkpoints |
| Checkpoints (`verl/.../ray_trainer.py`, `checkpoint_manager.py`, `fsdp_checkpoint_manager.py`) | directories per step, tracker file, in-memory list of saved paths | `_save_checkpoint`, `_load_checkpoint`, rotation | trainer; killed and restarted jobs |
| Reward loop (`arft/reward_loop.py`) | none between calls | `compute_score`, `_post_request` with retries | reward-model router |
| Advantages, losses, scaling (`arft/core_algos.py`, `policy_losses.py`, `reward_scaling.py`) | running moments of the scaler | GAE over tokens and steps, GRPO, GiGPO, RLOO | trainer |
| ScienceWorld (`recipe/scienceworld`) | pool of leased environments | `acquire`, `release`, `run` | worker-local, one lease per trajectory |
| WebShop (`recipe/webshop`) | the state of an episode, which the flow carries and the server forgets | `run`, `reset`, `step`, `available_actions`, `compute_reward` | model server, page server over HTTP |
| ALFWorld, HotpotQA (`recipe/...`) | one episode per trajectory; a retriever shared under a lock | `run`, `reset`, `step` | model server, environment |
| Entry point, configuration, metrics, data scripts | none | wiring, text, I/O | - |

Where the code is hard: coroutines that read shared state, await a service and
use what they read (paper pool); permits and leases that must come back on
every path (semaphore, environment pool); a job that is killed between two
writes and restarted (checkpoints, validation dump); retries with several
conditions for the last try; batches that are split, padded, reordered and must
stay aligned (manager, trainer, advantages); a state that travels with every
request and must not part from the page it belongs to (WebShop).  `PROJECT.json` lists each such
hazard at its line with the property that covers it or the reason why none
does yet.

What makes each component correct:

* paper search: a paper is added, credited and expanded once whatever the order
  of the answers; rewards are backed by the pool; the trajectory ends;
* HTTP client: permits are conserved and never idle while a call waits; a call
  gives up after exactly `max_retries + 1` requests; every call ends;
* checkpoints: what the tracker names can be loaded and belongs to one step; a
  resumed job repeats and skips nothing; a process counts no more checkpoints than
  configured, all of them on disk, the same ones for actor and critic;
* manager: output rows are those of the input samples in order; servers sleep
  after a batch;
* environment pool: exclusive leases, none lost;
* training batch: padding and reordering keep every step exactly once; no value
  crosses a trajectory boundary; trajectories are compared within their prompt,
  steps at their anchor; padding changes no statistic and no loss;
* WebShop: a prompt shows the page of the state the next request carries; the
  success reward pays for choices made on the product bought, once;
* validation dump: a published dump is whole, a running progress is exact.

## 2. Modules

| Module | Models | Role |
|---|---|---|
| `PaperSearch` | `run`, `search`, `expand`, `PaperPool` | state machine, properties |
| `PaperLedger` | what the shared pool promises | abstract specification |
| `PaperSearch_proofs` | - | theorems about `PaperSearch` |
| `Sums`, `Sums_proofs` | the sums of rewards, scores and advantages | operator over finite sets, lemmas for the proofs |
| `MCPaperSearch` | - | instances for TLC |
| `HttpRetry`, `MCHttpRetry` | `httpx_request_with_retry` | state machine, instance |
| `HttpRetry_proofs` | - | theorems about `HttpRetry` |
| `Checkpoint` | `fit`, `_save_checkpoint`, `_load_checkpoint`, rotation | state machine |
| `Checkpoint_proofs` | - | theorems about `Checkpoint` |
| `ValidationDump` | `_validate` and the files of one step | state machine |
| `ValidationDump_proofs` | - | theorems about `ValidationDump` |
| `Rollout` | `generate_sequences` of manager and workers, the ScienceWorld pool and loop | state machine |
| `Rollout_proofs` | - | theorems about `Rollout` |
| `Advantage` | the estimators of `core_algos.py`, `get_valid_data` | operators over a batch |
| `TrainBatch`, `MCTrainBatch` | `_postprocess`, padding, balancing, scaling, `compute_advantage`, critic and actor masks | state machine, instance |
| `TrainBatch_proofs` | - | theorems about `TrainBatch` |
| `WebShopEngine` | `reset`, `step`, `available_actions`, pages and success test of the page engine | operators on the state of an episode |
| `WebShop`, `MCWebShop` | `run` of the WebShop flow against the engine | state machine, instance |
| `WebShop_proofs` | - | theorems about `WebShop` |

### PaperSearch

asyncio runs a coroutine without interruption between two awaits, so one action
is one such segment.  `Launch` is a turn of the loop up to `asyncio.gather`
(history and totals are updated for every launched call before the first of
them runs), `FinishStep` what follows the gather, `Answer` the turn without tool
calls.  `StartSearch` and `StartExpand` are the segments up to the first await
(history check; lookup and mark under the lock), `SearchReturns`, `SearchFails`,
`ExpandReturns`, `ExpandFails` the segments that an answer of the service
resumes, `SearchScored` and `ExpandScored` those that the selector resumes.  The
`threading.Lock` around the pool protects no await, hence needs no step of its
own.  gather starts its coroutines in order, and no answer arrives before the
last of them has started: `Starts` and `Resumes` say so.

Abstractions: a query, a paper and a score are members of small sets; score 0
stands for every score below 0.01 and for a failed selector call; a reward is
kept as the set of papers it pays for and `RewardOf` computes its number;
a reply is the list of its valid calls after truncation.  The prompt, the token
lists and the records other than the action totals are left out.

### PaperLedger

Each call settles once, atomically, taking papers nobody owns.  The refinement
maps the owner of a paper to the coroutine that kept it and the settled calls
to those that have returned.

### HttpRetry

One process per concurrent call.  `Call` and `Wake` are the segments that reach
`semaphore.acquire()`; `Succeeds`, `RefusedByServer`, `Fails` and `Raises` the
ways a request ends, each releasing the permit in the `finally` before the call
sleeps or returns.  The semaphore itself is asyncio's (external): a queue in
order, and a release hands the permit to its head.  `PaperSearchClient` has two
such semaphores (details apart); one is modelled.  Delays are left out: a
sleeping call wakes at any time, which includes every delay.

### Checkpoint

One training step is one action; it updates the critic and, once
`critic_warmup` steps have been reached, the actor.  Saving is cut into opening
and writing each file (actor directory, critic directory, `data.pt`, tracker),
with the removal of old directories (`Rotate`) before each model's directory, and
`Crash` may strike between any two.  Memory is lost, the disk stays.  `Resume` reads what
the tracker names; `Refuse` is the start that raises because the tracker is
empty or a file it leads to is missing.  Weights are counted in updates, so
"the right weights" is a number, `UpdatesBy`.  Actor and critic keep equally many
checkpoints.  The shards of the ranks in one directory are
one part.  The loop runs over one epoch: what the stateful data loader yields
when it is resumed exactly at an epoch's end is a matter of a library that is
not in the repository.  A job without critic saves one part less.

### ValidationDump

The three files that `_validate` leaves for one step.  `Start` empties the partial
file, `OpenTemporary` and `ReplaceProgress` are `_write_validation_progress`,
`Append` is a batch from its generation to the fsync of its entries, `Finish` the
rename to the final name; the status follows through the same two progress
actions.  `Kill` may strike between any two and, during an append, leaves any
prefix of the batch with or without a cut line.  A failed generation is a kill:
the exception ends the job.  A restart validates the same step again, because
`fit` validates the step it resumed from before it trains.  A file is the number
of its entries and the mark of a cut line; the entries of one trajectory are one.

### Rollout

A batch on its way through `AgentFlowManager`, its workers and their environment
pools.  `Generate` wakes the servers, splits the batch and calls the workers; it
fails when the rounded-up split size gives fewer chunks than workers.
`StartWorker` is the segment in which asyncio starts all tasks of a chunk: the
first lease the free environments and reset them, the others queue in
`acquire()`.  `Play` is a turn that goes on (a malformed call leaves the
environment alone), `PlayLast` the turn that ends the episode or is the last one
allowed, `Raise` an exception of anything the trajectory calls; both release the
environment in the `finally`, and a waiter takes it and resets it.  asyncio's
queue (external) hands an item to the getter it wakes; no other `acquire()` can
come between, because all tasks of a worker start together, so release and
hand-over are one action.  `WorkerReturns` and `WorkerRaises` are the gather,
`ManagerReturns` the concatenation and the step counts, `ManagerFails` the
exception that `ray.get` passes on and that ends the job.  `SampleOfRow` is what
`fit` makes of the counts.

Abstractions: a trajectory is its place in the batch, a row the trajectory and
the number of its step, the padding of a step, scores and prompts are left out;
pools exist from the start (the code makes them on first use); a trajectory that
raises before it has a lease (its sample names no task, the pool cannot be made)
is left out, since it has nothing to give back; tracing and the
reward-model manager are left out; the time of a turn is one unit.

### Advantage and TrainBatch

The way of one batch through `fit`, after the rollout.  `CollectStep` is a round
of the inner loop of `_postprocess`: one row for each step, its reward on the
last generated token.  `Pad` is `_pad_dataproto_to_world_size` (copies of the
first rows, marked by `is_pad`), `Balance` is `_balance_batch`, `Scale` is
`scale_batch`.  `ComputeAdvantage` is the entry of `compute_advantage`, which
picks one of seven estimators.  The two GAE estimators are loops over steps and
tokens that carry state for every trajectory at once: `GaeStep` is a round of the
one, `TokenStep` and `TokenRound` are the two nested rounds of the other,
`GaeEnd` and `TokenGaeEnd` their ends (whitening, broadcast).  `Outcome` are the
five estimators without a value function, each an operator of `Advantage`.
`MaskForCritic` and `UpdateCritic` are the exchange of the response mask around
`_update_critic`; `UpdateActor` ends the batch.

Abstractions: numbers are integers, an advantage is a numerator for each token
over one denominator, and the division by a standard deviation (one positive
factor for a batch or a group) is left out, hence also its failure on a single
row, where `std()` is NaN, and `masked_whiten`'s refusal of a single token.
Responses have at least one generated token.  `Balance` takes any order that
moves at most `MaxMoved` rows, which includes what the partitioning by length
gives and does not depend on how it is computed, and the order it found, which
is what a job without `balance_batch` has.  Scaling multiplies by any
member of `ScaleFactors`: the running moments behind the factor are floating
point.  The estimator is chosen for each batch, while the code fixes it for the
job: no state is carried from batch to batch, so this adds nothing.  GiGPO is
its mode `mean_norm` with observations compared exactly.  A critic is used with
the GAE estimators only, as `need_critic` has it unless `critic.enable` is set.
Log-probabilities, the KL penalty and the rollout correction are left out.

### WebShopEngine and WebShop

The page engine keeps nothing between two requests; `WebShopEngine` therefore has
no variables: `Search`, `BackToSearch`, `BackToItem`, `Open`, `Choose` and the
other cases of `Click` map the state of an episode to the next one, `Refuses` is
the fall-through to `click_target_not_available`, `Render` the page and
`AvailableClicks` the offers.  `WebShop` is the loop of `run`: `Act` is a turn
whose request is answered (a malformed command included), `ActFails` one whose
request raises, `CallWrongly` one whose response is not exactly one call of
`env_step` with a command.  `env_state`, the observation and the offers are three
variables, because the flow keeps them apart and updates them in different
branches.

Abstractions: the text of a page is the data it shows, but for the page number
in the head of a result list (the hits of that page are shown); `task_score` and
`last_action` are left out; texts are compared for equality where the full data
set uses a fuzzy score; which products suit a goal by text, category and price is
part of the goal (`suits`).  The coroutine shares nothing with other
trajectories, so one turn is one step.  The retriever's ranking is the constant
`Hits`.

## 3. What TLC checks

| Run | Instance | Result | Shows |
|---|---|---|---|
| `papersearch` | 3 papers (one without abstract), 2 queries, 2 steps of 2 calls, a search costs 1 unit | pass | no order of answers and failures credits, adds or expands a paper twice; rewards are backed by the pool; pool entries are never rewritten; the pool implements the ledger; the trajectory ends |
| `papersearch_exptag` | 2 papers, 1 query, 3 steps of 2 calls | violation | after a failed expansion the prompt shows `[EXP]` on a paper that was not expanded |
| `httpretry` | 4 calls, 2 permits, 3 tries | pass | permits conserved, no idle permit, exact number of tries, every call ends |
| `checkpoint` | 5 steps of an epoch of 6, save every 2, keep 2, the actor updated from step 2 on, any number of kills | pass | the tracked checkpoint is whole; resuming is exact; both managers keep the same newest checkpoints |
| `checkpoint_keepone` | keep 1 | violation | the tracked checkpoint is removed before its successor exists |
| `checkpoint_torn` | keep 2 | violation | a kill between emptying and writing the tracker file makes every later start fail |
| `validation_dump` | 10 trajectories in batches of 3, any number of kills | pass | only whole dumps are published; a running validation's progress is exact |
| `rollout` | 2 workers with 1 environment each, batches of 1, 3 and 6, 2 turns | pass | leases are exclusive, rows belong to their samples, a returned batch leaves nobody running, every batch ends |
| `trainbatch` | 3 trajectories (2 of one prompt) of 1 or 2 steps, at most 4 rows, padded to 5, responses of 1 or 2 tokens | pass | each step stays one row; step and token GAE run along one trajectory; outcome estimators compare within the prompt, GiGPO at the anchor; whitening is centred on the real rows |
| `trainbatch_pads` | the same | violation | padding keeps the response mask of the rows it copies, and the critic's mask selects it |
| `webshop` | 4 turns, 2 products with a shared option value, pages of 1 product, a goal of each data set | pass | prompt and offers belong to the current state; the success reward is paid exactly for a purchase the answered commands earn |
| `rollout_times` | a batch of 2 | violation | the times reported for trajectories are sums over other trajectories |

Bounds.  Two parallel calls are enough for every race of two coroutines of a
step, and no property relates three; a third paper lets two expansions meet in
a paper that both find, and gives one paper without abstract; the second query
lets a new search race an expansion of what an earlier step found, and the second
step repeats the queries and papers of the first.  Scores are 0 or 1 in this run:
no property depends on the order of two positive scores, and the proofs are for
every unit.  The papers are interchangeable, but a liveness property rules out
`SYMMETRY`.  Four calls over two permits give queues of two and
hand-offs while another permit is in use.  Five steps with saves every second
step, the last step and every step at which the capacity expires (`esi`) give
up to five checkpoints, enough for two rotations in one process and one more
after a restart; with a warm-up up to step 2 the two models differ by one update.  Ten trajectories in batches of three give three full batches
and a last one of a single trajectory.  The kills need no bound: the state
spaces are finite.  Six trajectories over two workers of one environment give
queues of two and two hand-offs in a row; three give chunks of different length
and one leaves a worker without a chunk.  Two turns distinguish first, last and
malformed turns.  Pools of several environments are left to the proof.
Three trajectories give a group of two and a singleton; four rows padded to five
give one pad (or two, of three rows), and every exchange of two rows (`MaxMoved`)
brings a pad before its original, or a later step before an earlier one, of the
same or of another trajectory.  Discount 2 and lambda 3 over pairwise different
values make a value taken from a wrong place visible.  Four turns reach the
deepest case of `webshop` (open a product, choose, open the other, buy) and every
page; a page of one product makes a first, a last and an empty page of two hits.

Fairness.  Paper search: weak fairness of the model's reply, of gather's return
and, per coroutine, of its start and its answer: every HTTP call has a timeout
and a bounded number of retries, which is what `httpretry` shows of the client.
HTTP client: weak fairness of each call's answer and wake-up, because httpx has a
timeout and `asyncio.sleep` returns; none of making a call and none of the
service answering well.  Rollout: weak fairness of each worker's steps, each trajectory's turns
and the manager's return, because Ray runs what was called and model server and
environment answer or raise; none of starting a batch.  `Checkpoint` and
`ValidationDump` have safety properties only: a job may be killed for ever.
`TrainBatch` is one process that computes, and the loop of `WebShop` ends with
its step counter, so that neither has a liveness property worth a run.

## 4. What is proved

`PaperSearch_proofs` proves, for every choice of the constants that satisfies
the three assumptions of `PaperSearch` (finite set of papers disjoint from the
queries, positive bounds, natural rewards):

* `TypeCorrect`: `Spec => []TypeOK`;
* `NoDoubleCredit`, `SingleAuthor`, `SingleExpansion`, `NoRepeatedSearch`: the
  safety invariants `CreditedOnce`, `PoolHasOneAuthor`, `ExpandedOnce`,
  `RepeatedSearchPenalised`;
* `RewardsBacked`: `RewardBackedByPool`, and `TotalsAccumulate`:
  `StepTotalsAreCumulative`;
* `PoolMonotone`: `PoolOnlyGrows`, from the invariant;
* `PoolImplementsLedger`: the initial states map to initial states of
  `PaperLedger` and every step to a settlement or a stutter.

The inductive invariant is `TypeInv /\ Safe`.  `TypeInv` adds to the types where
control is: only the coroutines of the current step are unfinished.  `Safe` adds
that a coroutine owns papers only once it is done (so the sets it holds while it
waits are claims, not possessions), that the pool's domain is what the done
coroutines kept, that every running expansion has marked its paper, and that
every finished search is in the history.  Without the second of these
`CreditedOnce` is not inductive: the pool check of `KeptPapers` refers to the
pool, the property to the coroutines.  `RewardsBacked` is about two sums, over
the coroutines and over the pool: because no two coroutines hold a paper, what is
paid is at most the worth of the union of what they hold (`SumOfClaims`), which
is part of the pool.  `TotalsAccumulate` has an invariant of its own
(`Counting`): what the loop carries from step to step is the sum over the
finished calls of the steps behind it.

`Sums_proofs` is what these proofs and those of `TrainBatch` and `Rollout` need
of sums over finite sets (they do not depend on the order, split over disjoint
sets, scale, are monotonic, and sum to zero about their mean) and of recursion
over an interval (`BackwardExists`, `UpwardInduction`).  The library's induction
theorems take an operator and cannot be cited here, so each of these facts is an
argument about a smallest counterexample in a finite set of subsets.

`Checkpoint_proofs` proves, for every number of steps, length of the epoch and
save frequency (`StepsAssumption`, `SavingAssumption`), `TypeCorrect` and, unless
exactly one checkpoint is kept (`MaxKeep # 1`, where `checkpoint_keepone` refutes
the first of them), for every length of the warm-up (`WarmupAssumption`):

* `TrackedCheckpointIsWhole`: `TrackedIsWhole`;
* `ResumeIsExact`: `ResumesWhereItStopped`;
* `NewestAreKept`: `KeepsTheNewest`.

The first two need each other, so they are conjuncts of one inductive invariant
`IInv`: a resume is exact because the tracked checkpoint is whole, and what is
saved is right because the process that saves resumed exactly.  What `IInv` adds
is the argument about rotation.  `TrackedIsNewest`: until the tracker is
rewritten, no path the process knows of is newer than the tracked step, except
the directory just written in this save; hence rotation, which spares the newest
of at least one path (`NewestIsSpared`), cannot remove the tracked one, and the
next save writes to a later step.  `WrittenIsWhole`: what this save has finished
stays finished until the tracker names it.  `PreviousIsPast` orders the known
paths by the step counter.  How many updates a whole checkpoint holds is a count
over the steps behind it; `UpdatesByStep` is its recursion.  `KeepsTheNewest`
needs two more invariants.  `KeptInv`: from the rotation to the end of the
directory's writing there is room for one more path (`RoomToWrite`), because
rotation leaves at most `MaxKeep - 1` (`RotationMakesRoom`).  `InStepInv`: what the
actor's manager is ahead of the critic's at each stage of a save, a rotation, a
written path or both (`ManagersInStep`), so that they agree when the tracker is
written, and on its newest path (`NewestIsTracked`).  That no start fails on the
tracker file itself is not a theorem: `checkpoint_torn` refutes it.

`HttpRetry_proofs` proves, for every finite set of calls and every number of
permits and retries, `PermitBalance` (`PermitsConserved`), `PermitsAreHandedOn`
(`NoIdlePermit`), `ExactlyAllTries` (`GivesUpOnlyWhenExhausted`) and `TypeCorrect`.  Each action
is one of two moves, `Enter` and `Leave`, so the semaphore is reasoned about
twice and not once per action.  `NoIdlePermit` makes the hand-off sound: the
head of the queue is a call that is really waiting, hence not in flight yet.
`SentMatchesAttempt` ties the requests a call has sent to its loop variable.

`ValidationDump_proofs` proves `PublishedDumpIsWhole` (`CompleteIsWhole`),
`CompletedMeansPublished`, `ProgressIsExact` (`ExactBetweenBatches`) and `TypeCorrect` for every
number of trajectories and every batch size.  The invariant adds `OwnFile`: from
`Start` to `Finish` the partial file holds what this process has counted and
nothing of an earlier one; without it nothing is known of the file that `Finish`
renames.

`Rollout_proofs` proves, for every number of workers, environments per pool and
turns and every finite set of batch sizes, `ExclusiveLeases`
(`LeasesAreExclusive`), `NobodyWaitsInVain` (`NoWaitWhileFree`), `OwnEpisodes`
(`PlaysOwnEpisode`), `QuietAfterBatch` (`QuietBetweenBatches`), `TypeCorrect` and
`RowsAreTheSamples` (`RowsMatchSamples`).  The slices
come first: chunks are disjoint (`ChunksApart`), so a trajectory has one pool,
and none is empty once the split has given every worker one (`ChunksAreFull`).
`IInv` adds who may play (`OnlyWorkersPlay`: only trajectories of a worker that
has been started and has not returned), what a queue holds (`QueuesHoldWaiters`,
without which a hand-over could reset the environment of somebody who plays)
and that environments stay with their worker (`PoolsAreLocal`).

The two results about what is returned rest on `TurnsInv`: a trajectory that
plays has a turn left and one that has ended took at least one (`StepsBounded`),
and a worker that has returned is done with every trajectory of its chunk
(`WorkersInStep`).  `FlattenIs` says what concatenation does: given where each
part ends (`Cuts`), every element is at its place and every place belongs to one
part.  With it `TasksInOrder` puts the chunks together to the whole batch, and
`RowsDoFit` compares the flattened rows with the samples repeated by `num_steps`,
place by place.

`TrainBatch_proofs` proves, for every number of trajectories, steps and tokens,
every divisor, order of the rows, score, scale factor, value function, discount
and lambda (`AdvantageAssumption`, `TrainBatchAssumption`):

* `EachStepStaysOnce`: `EachStepOnce`;
* `StepGaeStaysInItsTrajectory`: `StepGaeAlongTrajectory`;
* `TokenGaeFollowsTheTimeline`: `TokenGaeIsOneTimeline`;
* `OutcomesAreRelative`: `RelativeToItsGroup`;
* `StepsAreComparedAtTheirAnchor`: `StepsComparedAtTheirAnchor`;
* `WhiteningCentres`: `WhitenedIsCentred`;
* `TypeCorrect`.

The first is the base of the other two: because a step of a trajectory is one
row, the maps that the estimators build by position are functions of the step.
The invariants of the two loops say what a backward pass has done when it has
come down to step `t` (and token `j`): the recursion holds for every later step
(and token), and what is carried for a trajectory is what its earliest step so
far left, or nothing where the trajectory has not begun.  The second half is the
point: a trajectory that ends early must still carry zero when its last step is
met.

The last four are conjuncts of `CompareInv`, which adds to the invariants of the
loops: `EarnedInv` (the rows of a trajectory that are not padding add up to what
it has earned, and no trajectory is without a step, through padding, reordering
and scaling; hence the groups that an estimator finds in the rows are the rivals
of a trajectory), `TypeInv` (a cell has an integer for every token over a
positive denominator) and `AdvantageLoop` (what a GAE loop has written so far).
The rest is arithmetic: numbers less their mean add up to zero (`SumCentred`), a
scalar on the action tokens of a row leaves the padding alone (`BroadcastCell`),
a product of the denominators of all groups is a multiple of each
(`CommonDenDivides`), and the return that is computed from the last step down
is the discounted sum of the rewards from this step on (`DiscountedIsReturn`).

`WebShop_proofs` proves, for every catalogue, set of goals and number of steps
(`WebShopAssumption`, `FlowAssumption`), `PaidWhenEarned` (`PaidForItsClicks`) and
`PromptStaysCurrent` (`PromptIsCurrent`).  The property of the reward is about the
history of commands, the code decides on the state, so the invariant relates
them: `LogOpened` (the state's product is the one last clicked since the last
search) and `LogChosen` (a value is selected exactly when it was the last one
clicked for its option on that product).

Only model-checked: the liveness properties `Terminates`, `EveryCallEnds` and
`EveryBatchEnds`, which need fairness and `ENABLED`.  Every invariant and action
property that a passing run checks is also a theorem, and so are the two halves
of each liveness property that do not speak of fairness:

| property | nobody is stuck | every step takes work off |
| --- | --- | --- |
| `Terminates` | `GatherNeverHangs` | `TrajectoryTakesBoundedWork` |
| `EveryCallEnds` | `WaitsForAnAnswer` | `CallsTakeBoundedWork` |
| `EveryBatchEnds` | `SomebodyMoves` | `BatchTakesBoundedWork` |

On the left, while gather runs or a batch is generated some action has its guard
true; elsewhere the model's answer has no guard but the phase (for `HttpRetry`:
whoever waits for a permit waits for a request on the wire; what ends the other
phases is the answer or the timer alone).
The hard cases are those where everybody waits for somebody.  In `Rollout` a
trajectory waits in the queue of its pool only while none of the pool's
environments is free, each environment that is not free belongs to a trajectory
that plays, and a trajectory of a started worker that does neither has ended or
raised (`NobodyForgotten` is what the inductive invariant needs for this).  In
`PaperSearch` gather starts its coroutines in order, so the first that has not
started always may, and a scored coroutine can always choose the papers it is
paid for (`TopExists`).  On the right, a measure of the work left has a bound that only the constants give,
and every step decreases it (in `Rollout` every step but the last of a batch).
What no theorem says is that an action whose guard stays true is taken: that is
the fairness of section 3, and it is all that the liveness runs add to these
theorems.

## 5. Findings

* `expand()` marks a paper before it fetches and never clears the mark when the
  fetch fails, while the prompt says the tag means "expanded already".
* `save_checkpoint` with `max_ckpt_to_keep = 1` removes the tracked checkpoint
  before it writes the next one.
* The tracker file is commented as being "for atomic usage", but it is opened with
  `"w"` and then written: a kill in between leaves it empty, and every later start
  fails on `int('')`, whole checkpoints or not.
* `_performance_metrics` cuts the times of trajectories out of a list with one
  entry per trajectory as if it had one per step.
* `fit()` says the padding of a batch is masked out; the pads keep the response
  mask of the rows they copy, and the critic is trained on them towards 0.

Seen in the models, without a run of their own: the checkpoints of earlier
processes are never rotated, so more than `max_ckpt_to_keep` stay on disk after a
restart, against the docstring of `save_checkpoint` ("keeping at most
`max_ckpt_to_keep`") if it is read across restarts (`Checkpoint`; `KeepsTheNewest`
speaks of what one process counts); a restarted validation empties the partial dump before it
resets the progress (`ValidationDump`); a job that is started again after its last
step trains one more (`Checkpoint`); five samples over four workers fail
(`Rollout`); a goal that wants a shared value for the first of two options cannot
be bought (`WebShop`).

## 6. State of the plan

Done, each with proofs: `PaperSearch` with its ledger, `HttpRetry`, `Checkpoint`,
`ValidationDump`, `Rollout`, `Advantage` with `TrainBatch`, `WebShopEngine` with
`WebShop`.  Next would be the reward loop between `Rollout` and `TrainBatch`,
GiGPO's similarity groups, which depend on the order of the rows, and the
rollout server manager.

### Not modelled

* Reward loop: its retry loop differs from the one of `HttpRetry` in the
  conditions only; the rest passes data on.
* ALFWorld and HotpotQA: loops of the shape modelled in `Rollout` and `WebShop`;
  the environment is a library, the retriever a pure function under a lock.
* Policy losses, ratio diagnostics and the running moments of reward scaling:
  floating-point arithmetic without control of their own.
* Entry point, configuration and metrics (wiring); data preparation and offline
  inference scripts (run once, I/O).
* The vendored verl, most of the repository's lines, beyond the checkpoint code,
  `DataProto` and `_balance_batch`: model, worker and kernel code that CAPO uses
  as a library.
