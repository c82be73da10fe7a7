------------------------------- MODULE Rollout -------------------------------
(***************************************************************************)
(* One rollout batch: AgentFlowManager.generate_sequences splits it over   *)
(* the workers, each worker runs its trajectories concurrently             *)
(* (arft/agent_flow/agent_flow.py), and the trajectories of a worker share *)
(* its pool of environments (recipe/scienceworld/utils.py,                 *)
(* scienceworld_agent_flow.py).  The rows that come back are matched with  *)
(* the samples by RayAgentTrainer.fit.                                     *)
(*                                                                         *)
(* A trajectory is its place in the batch, a row the pair of a trajectory  *)
(* and the number of its step.  A turn of the model and the environment is *)
(* one action; what the model says is whether its call is well formed and  *)
(* whether it ends the episode.                                            *)
(***************************************************************************)
EXTENDS Integers, Sequences, FiniteSetsExt, SequencesExt

CONSTANTS
  NumWorkers,  \* rollout.agent.num_workers
  PoolSize,    \* env_pool_size
  MaxSteps,    \* max_steps of a trajectory
  BatchSizes   \* the sizes of the batches that are rolled out

ASSUME RolloutAssumption ==
  /\ NumWorkers \in Nat \ {0} /\ PoolSize \in Nat \ {0} /\ MaxSteps \in Nat \ {0}
  /\ BatchSizes \subseteq Nat \ {0} /\ IsFiniteSet(BatchSizes) /\ BatchSizes # {}

VARIABLES
  manager,   \* where generate_sequences of the manager is
  size,      \* len(prompts)
  awake,     \* the rollout servers are awake
  worker,    \* where generate_sequences of each worker is
  phase,     \* where each trajectory is
  steps,     \* num_steps of each trajectory
  lease,     \* the environment each trajectory holds
  free,      \* _queue of each worker's pool
  waiting,   \* the trajectories suspended in acquire(), first come first
  episode,   \* of each environment: whose task it was reset for, steps played
  output,    \* the rows that the manager returned
  numSteps   \* meta_info["num_steps"] that it returned

pools == <<lease, free, waiting, episode>>
returned == <<output, numSteps>>
vars == <<manager, size, awake, worker, phase, steps, pools, returned>>

-----------------------------------------------------------------------------
Workers == 1..NumWorkers
Trajectories == UNION {1..n : n \in BatchSizes}
Envs == Workers \X (1..PoolSize)
NoEnv == <<0, 0>>

SplitSize(n) == (n - 1) \div NumWorkers + 1

\* prompts.split(split_size): slices of the batch, the last one may be short.
ChunkCount(n) == (n - 1) \div SplitSize(n) + 1

Start(w) == (w - 1) * SplitSize(size)

Stop(w) == IF w * SplitSize(size) < size THEN w * SplitSize(size) ELSE size

Chunk(w) == Start(w) + 1..Stop(w)

WorkerOf(t) == CHOOSE w \in Workers : t \in Chunk(w)

Unplayed == [t \in Trajectories |-> 0]

Init ==
  /\ manager = "idle" /\ size = 0 /\ awake = FALSE
  /\ worker = [w \in Workers |-> "idle"]
  /\ phase = [t \in Trajectories |-> "none"]
  /\ steps = Unplayed
  /\ lease = [t \in Trajectories |-> NoEnv]
  /\ free = [w \in Workers |-> [i \in 1..PoolSize |-> <<w, i>>]]
  /\ waiting = [w \in Workers |-> <<>>]
  /\ episode = [e \in Envs |-> [task |-> 0, moves |-> 0]]
  /\ output = <<>> /\ numSteps = <<>>

-----------------------------------------------------------------------------
(***************************************************************************)
(* The manager calls the workers.  zip(..., strict=True) raises when there *)
(* are fewer chunks than workers, once each chunk has been handed out.     *)
(***************************************************************************)
Generate(n) ==
  /\ manager = "idle"
  /\ size' = n
  /\ awake' = TRUE
  /\ manager' = IF ChunkCount(n) = NumWorkers THEN "generating" ELSE "failed"
  /\ worker' = [w \in Workers |-> IF w <= ChunkCount(n) THEN "called" ELSE "idle"]
  /\ phase' = [t \in Trajectories |-> "none"]
  /\ steps' = Unplayed
  /\ output' = <<>> /\ numSteps' = <<>>
  /\ UNCHANGED pools

Reset(t) == [task |-> t, moves |-> 0]

\* asyncio starts all tasks of a worker before any of them is resumed: the first
\* ones lease the environments that are free, the others queue.
StartWorker(w) ==
  LET leases == Start(w) + Len(free[w])
      leased == {t \in Chunk(w) : t <= leases}
      queued == {t \in Chunk(w) : t > leases}
  IN
  /\ manager = "generating"
  /\ worker[w] = "called"
  /\ worker' = [worker EXCEPT ![w] = "running"]
  /\ phase' = [t \in Trajectories |-> IF t \in leased THEN "playing"
                                      ELSE IF t \in queued THEN "waiting" ELSE phase[t]]
  /\ lease' = [t \in Trajectories |-> IF t \in leased THEN free[w][t - Start(w)] ELSE lease[t]]
  /\ episode' = [e \in Envs |->
                   IF \E t \in leased : lease'[t] = e
                   THEN Reset(CHOOSE t \in leased : lease'[t] = e) ELSE episode[e]]
  /\ waiting' = [waiting EXCEPT ![w] = [i \in 1..Stop(w) - leases |-> leases + i]]
  /\ free' = [free EXCEPT ![w] = SubSeq(@, Stop(w) - Start(w) + 1, Len(@))]
  /\ UNCHANGED <<manager, size, awake, steps, returned>>

-----------------------------------------------------------------------------
(***************************************************************************)
(* A trajectory: ScienceWorldAgentFlow.run.                                *)
(***************************************************************************)
\* Mutant of Release: the next trajectory plays on without a reset.
Release_NoReset(t, next) ==
  LET w == WorkerOf(t) IN
  IF waiting[w] = <<>>
  THEN /\ free' = [free EXCEPT ![w] = Append(@, lease[t])]
       /\ phase' = [phase EXCEPT ![t] = next]
       /\ lease' = [lease EXCEPT ![t] = NoEnv]
       /\ UNCHANGED <<waiting, episode>>
  ELSE LET h == Head(waiting[w]) IN
       /\ waiting' = [waiting EXCEPT ![w] = Tail(@)]
       /\ phase' = [phase EXCEPT ![t] = next, ![h] = "playing"]
       /\ lease' = [lease EXCEPT ![t] = NoEnv, ![h] = lease[t]]
       /\ UNCHANGED <<free, episode>>

\* Mutant of Release: the environment goes back although a trajectory waits.
Release_NobodyWoken(t, next) ==
  LET w == WorkerOf(t) IN
  /\ free' = [free EXCEPT ![w] = Append(@, lease[t])]
  /\ phase' = [phase EXCEPT ![t] = next]
  /\ lease' = [lease EXCEPT ![t] = NoEnv]
  /\ UNCHANGED <<waiting, episode>>

\* pool.release(executor) in the finally: the first waiter takes the environment
\* and resets it for its own task.
Release(t, next) ==
  LET w == WorkerOf(t) IN
  IF waiting[w] = <<>>
  THEN /\ free' = [free EXCEPT ![w] = Append(@, lease[t])]
       /\ phase' = [phase EXCEPT ![t] = next]
       /\ lease' = [lease EXCEPT ![t] = NoEnv]
       /\ UNCHANGED <<waiting, episode>>
  ELSE LET h == Head(waiting[w]) IN
       /\ waiting' = [waiting EXCEPT ![w] = Tail(@)]
       /\ phase' = [phase EXCEPT ![t] = next, ![h] = "playing"]
       /\ lease' = [lease EXCEPT ![t] = NoEnv, ![h] = lease[t]]
       /\ episode' = [episode EXCEPT ![lease[t]] = Reset(h)]
       /\ UNCHANGED free

\* Mutant of Play: the loop forgets max_steps.
Play_Unbounded(t, wellFormed) ==
  /\ manager = "generating"
  /\ phase[t] = "playing"
  /\ steps' = [steps EXCEPT ![t] = @ + 1]
  /\ episode' = IF wellFormed THEN [episode EXCEPT ![lease[t]].moves = @ + 1] ELSE episode
  /\ UNCHANGED <<manager, size, awake, worker, phase, lease, free, waiting, returned>>

\* A turn that is not the last one; a malformed call leaves the environment alone.
Play(t, wellFormed) ==
  /\ manager = "generating"
  /\ phase[t] = "playing"
  /\ steps[t] + 1 < MaxSteps
  /\ steps' = [steps EXCEPT ![t] = @ + 1]
  /\ episode' = IF wellFormed THEN [episode EXCEPT ![lease[t]].moves = @ + 1] ELSE episode
  /\ UNCHANGED <<manager, size, awake, worker, phase, lease, free, waiting, returned>>

\* The turn that ends the episode, or the last one allowed.
PlayLast(t, wellFormed) ==
  /\ manager = "generating"
  /\ phase[t] = "playing"
  /\ wellFormed \/ steps[t] + 1 = MaxSteps
  /\ steps' = [steps EXCEPT ![t] = @ + 1]
  /\ Release(t, "ended")
  /\ UNCHANGED <<manager, size, awake, worker, returned>>

\* Mutant of Raise: without the finally, the environment is never given back.
Raise_EnvLost(t) ==
  /\ manager = "generating"
  /\ phase[t] = "playing"
  /\ phase' = [phase EXCEPT ![t] = "raised"]
  /\ lease' = [lease EXCEPT ![t] = NoEnv]
  /\ UNCHANGED <<manager, size, awake, worker, steps, free, waiting, episode, returned>>

\* Mutant of Raise: a trajectory that raised is started over, without a bound.
Raise_StartsOver(t) ==
  /\ manager = "generating"
  /\ phase[t] = "playing"
  /\ steps' = [steps EXCEPT ![t] = 0]
  /\ episode' = [episode EXCEPT ![lease[t]] = Reset(t)]
  /\ UNCHANGED <<manager, size, awake, worker, phase, lease, free, waiting, returned>>

\* The server, the parser or the environment raises.
Raise(t) ==
  /\ manager = "generating"
  /\ phase[t] = "playing"
  /\ Release(t, "raised")
  /\ UNCHANGED <<manager, size, awake, worker, steps, returned>>

-----------------------------------------------------------------------------
(***************************************************************************)
(* The worker gathers its tasks: the first exception is raised at once,    *)
(* the other tasks play on.  _postprocess flattens the steps.              *)
(***************************************************************************)
WorkerReturns(w) ==
  /\ manager = "generating"
  /\ worker[w] = "running"
  /\ \A t \in Chunk(w) : phase[t] = "ended"
  /\ worker' = [worker EXCEPT ![w] = "returned"]
  /\ UNCHANGED <<manager, size, awake, phase, steps, pools, returned>>

WorkerRaises(w) ==
  /\ manager = "generating"
  /\ worker[w] = "running"
  /\ \E t \in Chunk(w) : phase[t] = "raised"
  /\ worker' = [worker EXCEPT ![w] = "raised"]
  /\ UNCHANGED <<manager, size, awake, phase, steps, pools, returned>>

Rows(t) == [k \in 1..steps[t] |-> <<t, k>>]

\* Mutant of Tasks: the outputs of the shortest trajectories come first.
Tasks_AsCompleted(w) == SetToSortSeq(Chunk(w), LAMBDA s, t :
                          steps[s] < steps[t] \/ (steps[s] = steps[t] /\ s < t))

\* gather returns the outputs in the order of the tasks.
Tasks(w) == [i \in 1..Stop(w) - Start(w) |-> Start(w) + i]

\* DataProto.concat in the order of the workers.
ManagerReturns ==
  LET tasks == FlattenSeq([w \in Workers |-> Tasks(w)]) IN
  /\ manager = "generating"
  /\ \A w \in Workers : worker[w] = "returned"
  /\ output' = FlattenSeq([i \in DOMAIN tasks |-> Rows(tasks[i])])
  /\ numSteps' = [i \in DOMAIN tasks |-> steps[tasks[i]]]
  /\ awake' = FALSE
  /\ manager' = "idle"
  /\ worker' = [w \in Workers |-> "idle"]
  /\ UNCHANGED <<size, phase, steps, pools>>

\* Mutant of ManagerFails: the rows of the other workers are returned.
ManagerFails_Ignored ==
  /\ manager = "generating"
  /\ \E w \in Workers : worker[w] = "raised"
  /\ awake' = FALSE
  /\ manager' = "idle"
  /\ worker' = [w \in Workers |-> "idle"]
  /\ UNCHANGED <<size, phase, steps, pools, returned>>

\* ray.get raises, and with it fit(): the job ends.
ManagerFails ==
  /\ manager = "generating"
  /\ \E w \in Workers : worker[w] = "raised"
  /\ manager' = "failed"
  /\ UNCHANGED <<size, awake, worker, phase, steps, pools, returned>>

-----------------------------------------------------------------------------
Turn(t) == Raise(t) \/ \E wellFormed \in BOOLEAN : Play(t, wellFormed) \/ PlayLast(t, wellFormed)

Failed == manager = "failed" /\ UNCHANGED vars

Next ==
  \/ \E n \in BatchSizes : Generate(n)
  \/ \E w \in Workers : StartWorker(w) \/ WorkerReturns(w) \/ WorkerRaises(w)
  \/ \E t \in Trajectories : Turn(t)
  \/ ManagerReturns \/ ManagerFails
  \/ Failed

Spec == Init /\ [][Next]_vars

\* Ray runs what it was called for, and the servers and environments answer.
Fairness ==
  /\ \A w \in Workers : WF_vars(StartWorker(w)) /\ WF_vars(WorkerReturns(w) \/ WorkerRaises(w))
  /\ \A t \in Trajectories : WF_vars(Turn(t))
  /\ WF_vars(ManagerReturns \/ ManagerFails)

FairSpec == Spec /\ Fairness

-----------------------------------------------------------------------------
(***************************************************************************)
(* What the callers make of the batch.                                     *)
(***************************************************************************)
\* batch.sample_level_repeat(num_steps): the sample of each row.
SampleOfRow == FlattenSeq([i \in DOMAIN numSteps |-> [k \in 1..numSteps[i] |-> i]])

\* _performance_metrics, with one unit of time for each turn: the metrics have
\* one entry for each trajectory, and the slice of a trajectory is cut as if they
\* had one for each step.
ReportedTime(i) ==
  LET idx == MapThenSumSet(LAMBDA j : numSteps[j], 1..i - 1) IN
  MapThenSumSet(LAMBDA j : numSteps[j], (idx + 1..idx + numSteps[i]) \intersect DOMAIN numSteps)

-----------------------------------------------------------------------------
(***************************************************************************)
(* Properties                                                              *)
(***************************************************************************)
\* Every variable holds a value the code can store in it.
TypeOK ==
  /\ manager \in {"idle", "generating", "failed"}
  /\ size \in BatchSizes \union {0} /\ awake \in BOOLEAN
  /\ worker \in [Workers -> {"idle", "called", "running", "returned", "raised"}]
  /\ phase \in [Trajectories -> {"none", "waiting", "playing", "ended", "raised"}]
  /\ steps \in [Trajectories -> 0..MaxSteps]
  /\ lease \in [Trajectories -> Envs \union {NoEnv}]
  /\ free \in [Workers -> Seq(Envs)] /\ waiting \in [Workers -> Seq(Trajectories)]
  /\ episode \in [Envs -> [task : Trajectories \union {0}, moves : 0..MaxSteps]]
  /\ output \in Seq(Trajectories \X (1..MaxSteps)) /\ numSteps \in Seq(1..MaxSteps)

\* "A leased JVM remains exclusive for one whole trajectory": an environment is
\* leased by one trajectory that plays or free once, never both, never lost,
\* whatever trajectories raise and whoever waits.
LeasesAreExclusive ==
  /\ \A t \in Trajectories : phase[t] = "playing" <=> lease[t] # NoEnv
  /\ \A s, t \in Trajectories : lease[s] = lease[t] /\ lease[s] # NoEnv => s = t
  /\ \A w \in Workers : \A i, j \in DOMAIN free[w] : free[w][i] = free[w][j] => i = j
  /\ \A w \in Workers, e \in Envs :
       e[1] = w => ((\E t \in Trajectories : lease[t] = e)
                    <=> ~ \E j \in DOMAIN free[w] : free[w][j] = e)

\* The observations a trajectory sees are those of its own task, and the
\* environment has never moved without it.
PlaysOwnEpisode ==
  \A t \in Trajectories : phase[t] = "playing" =>
    episode[lease[t]].task = t /\ episode[lease[t]].moves <= steps[t]

\* A trajectory waits only while its worker has no free environment.
NoWaitWhileFree == \A w \in Workers : waiting[w] # <<>> => free[w] = <<>>

\* A batch that is returned has the rows of every sample, in the order of the
\* samples and of the steps, cut where num_steps says: the repeated samples that
\* fit() joins to the rows, and the last steps that _validate picks, are theirs.
RowsMatchSamples ==
  manager = "idle" /\ size > 0 =>
    /\ Len(numSteps) = size
    /\ Len(output) = Len(SampleOfRow)
    /\ \A k \in DOMAIN output :
         /\ output[k][1] = SampleOfRow[k]
         /\ k + 1 \in DOMAIN output /\ SampleOfRow[k + 1] = SampleOfRow[k] =>
              output[k + 1][2] = output[k][2] + 1
         /\ k + 1 \notin DOMAIN output \/ SampleOfRow[k + 1] # SampleOfRow[k] =>
              output[k][2] = numSteps[SampleOfRow[k]]

\* When generate_sequences has returned, the servers sleep and nobody needs them:
\* no trajectory plays or waits, and every environment is back in its pool.
QuietBetweenBatches ==
  manager = "idle" =>
    /\ ~awake
    /\ \A t \in Trajectories : phase[t] \notin {"playing", "waiting"}
    /\ \A w \in Workers : waiting[w] = <<>>
    /\ \A e \in Envs : \E j \in DOMAIN free[e[1]] : free[e[1]][j] = e

\* Every batch comes back or fails, however many trajectories share one
\* environment.
EveryBatchEnds == manager = "generating" ~> manager # "generating"

\* "Trajectory-level statistics - aggregate step times by trajectory".
TimesAreTheTrajectories ==
  manager = "idle" => \A i \in DOMAIN numSteps : ReportedTime(i) = numSteps[i]
=============================================================================
