--------------------------- MODULE Rollout_proofs ---------------------------
(***************************************************************************)
(* Proofs about Rollout: leases are exclusive, nobody waits for a free     *)
(* environment, every trajectory plays its own episode, the rows that come *)
(* back are those of the samples, and a batch never hangs on itself, for   *)
(* any number of workers, environments and trajectories.                   *)
(***************************************************************************)
EXTENDS Rollout, Sums_proofs, SequenceTheorems, TLAPS

\* The types of everything but the rows that are returned.
LeaseTypes ==
  /\ manager \in {"idle", "generating", "failed"}
  /\ size \in BatchSizes \union {0}
  /\ worker \in [Workers -> {"idle", "called", "running", "returned", "raised"}]
  /\ phase \in [Trajectories -> {"none", "waiting", "playing", "ended", "raised"}]
  /\ steps \in [Trajectories -> Nat]
  /\ lease \in [Trajectories -> Envs \union {NoEnv}]
  /\ free \in [Workers -> Seq(Envs)]
  /\ waiting \in [Workers -> Seq(Trajectories)]
  /\ episode \in [Envs -> [task : Trajectories \union {0}, moves : Nat]]

\* Only trajectories of a worker that runs, or has raised, play or wait.
OnlyWorkersPlay ==
  /\ manager = "idle" => \A w \in Workers : worker[w] = "idle"
  /\ manager # "idle" => size # 0
  /\ manager = "generating" => ChunkCount(size) = NumWorkers
  /\ \A t \in Trajectories : phase[t] \in {"playing", "waiting"} =>
       \E w \in Workers : t \in Chunk(w) /\ worker[w] \in {"running", "raised"}

\* The queue of a pool holds trajectories of its worker, each once.
QueuesHoldWaiters ==
  /\ \A w \in Workers : \A i \in DOMAIN waiting[w] :
       waiting[w][i] \in Chunk(w) /\ phase[waiting[w][i]] = "waiting"
  /\ \A w \in Workers : \A i, j \in DOMAIN waiting[w] :
       waiting[w][i] = waiting[w][j] => i = j

\* Environments never move from one worker to another.
PoolsAreLocal ==
  /\ \A w \in Workers : \A j \in DOMAIN free[w] : free[w][j][1] = w
  /\ \A w \in Workers, t \in Trajectories :
       t \in Chunk(w) /\ lease[t] # NoEnv => lease[t][1] = w

IInv ==
  /\ LeaseTypes
  /\ OnlyWorkersPlay
  /\ QueuesHoldWaiters
  /\ PoolsAreLocal
  /\ LeasesAreExclusive
  /\ NoWaitWhileFree
  /\ PlaysOwnEpisode

-----------------------------------------------------------------------------
(***************************************************************************)
(* The slices of a batch.                                                  *)
(***************************************************************************)
LEMMA SplitIsPositive ==
  ASSUME NEW n \in Nat \ {0}
  PROVE  SplitSize(n) \in Nat \ {0}
<1>1. NumWorkers \in Nat \ {0}
  BY RolloutAssumption
<1>2. (n - 1) \div NumWorkers \in Nat
  BY <1>1
<1> QED
  BY <1>2 DEF SplitSize

LEMMA TrajectoriesAreNat == Trajectories \subseteq Nat \ {0}
  BY RolloutAssumption DEF Trajectories

LEMMA NoEnvApart == NoEnv \notin Envs
  BY DEF NoEnv, Envs, Workers

\* Where the slice of a worker lies.
LEMMA SliceBounds ==
  ASSUME NEW w \in Workers, size \in Nat \ {0}
  PROVE  /\ Start(w) \in Nat /\ Stop(w) \in Nat
         /\ Stop(w) <= size /\ Stop(w) <= w * SplitSize(size)
         /\ Chunk(w) \subseteq 1..size
<1> DEFINE S == SplitSize(size)
<1>1. w \in Nat \ {0} /\ S \in Nat \ {0}
  BY SplitIsPositive DEF Workers
<1> HIDE DEF S
<1>2. (w - 1) * S \in Nat /\ w * S \in Nat
  BY <1>1
<1>3. Start(w) = (w - 1) * S /\ Stop(w) = IF w * S < size THEN w * S ELSE size
  BY DEF Start, Stop, S
<1>4. Start(w) \in Nat /\ Stop(w) \in Nat /\ Stop(w) <= size /\ Stop(w) <= w * S
  BY <1>2, <1>3
<1> QED
  BY <1>4 DEF Chunk, S

\* A trajectory has one worker.
LEMMA ChunksApart ==
  ASSUME NEW w \in Workers, NEW v \in Workers, size \in Nat \ {0},
         NEW t, t \in Chunk(w), t \in Chunk(v)
  PROVE  w = v
<1>1. ASSUME NEW a \in Workers, NEW b \in Workers, a < b, t \in Chunk(a), t \in Chunk(b)
      PROVE  FALSE
  <2> DEFINE S == SplitSize(size)
  <2>1. S \in Nat /\ a \in Nat /\ b \in Nat
    BY SplitIsPositive DEF Workers
  <2> HIDE DEF S
  <2>2. t \in Nat /\ t <= a * S
    <3>1. Start(a) \in Nat /\ Stop(a) \in Nat /\ Stop(a) <= a * S
      BY SliceBounds DEF S
    <3>2. t \in Start(a) + 1..Stop(a)
      BY <1>1 DEF Chunk
    <3>3. a * S \in Nat
      BY <2>1
    <3> QED
      BY <3>1, <3>2, <3>3
  <2>3. t > (b - 1) * S
    <3>1. Start(b) \in Nat /\ Stop(b) \in Nat /\ Start(b) = (b - 1) * S
      BY SliceBounds DEF S, Start
    <3>2. t \in Start(b) + 1..Stop(b)
      BY <1>1 DEF Chunk
    <3> QED
      BY <3>1, <3>2
  <2>4. PICK d \in Nat : b - 1 = a + d
    <3>1. b - 1 - a \in Nat /\ b - 1 = a + (b - 1 - a)
      BY <1>1, <2>1
    <3> QED
      BY <3>1
  <2>5. (b - 1) * S = a * S + d * S
    BY <2>1, <2>4
  <2>6. d * S \in Nat /\ a * S \in Nat
    BY <2>1, <2>4
  <2> QED
    BY <2>2, <2>3, <2>5, <2>6
<1>2. w \in Int /\ v \in Int
  BY DEF Workers
<1> QED
  BY <1>1, <1>2

\* When every worker has a chunk, none of them is empty.
LEMMA ChunksAreFull ==
  ASSUME NEW w \in Workers, size \in Nat \ {0}, ChunkCount(size) = NumWorkers
  PROVE  Start(w) < Stop(w)
<1> DEFINE S == SplitSize(size)
<1>1. S \in Nat \ {0} /\ w \in Nat /\ NumWorkers \in Nat /\ w >= 1 /\ w <= NumWorkers
  BY SplitIsPositive, RolloutAssumption DEF Workers
<1>2. (size - 1) \div S = NumWorkers - 1
  BY <1>1 DEF ChunkCount, S
<1> HIDE DEF S
<1>3. (NumWorkers - 1) * S <= size - 1
  <2>1. ((size - 1) \div S) * S <= size - 1
    BY <1>1
  <2> QED
    BY <2>1, <1>2
<1>4. PICK d \in Nat : NumWorkers - 1 = (w - 1) + d
  <2>1. NumWorkers - w \in Nat /\ NumWorkers - 1 = (w - 1) + (NumWorkers - w)
    BY <1>1
  <2> QED
    BY <2>1
<1>5. (NumWorkers - 1) * S = (w - 1) * S + d * S /\ d * S \in Nat /\ (w - 1) * S \in Nat
  BY <1>1, <1>4
<1>6. (w - 1) * S < size
  BY <1>3, <1>5
<1>7. w * S = (w - 1) * S + S
  BY <1>1
<1>8. Start(w) = (w - 1) * S /\ Stop(w) = IF w * S < size THEN w * S ELSE size
  BY DEF Start, Stop, S
<1> QED
  BY <1>1, <1>5, <1>6, <1>7, <1>8

LEMMA ChunkInTrajectories ==
  ASSUME NEW w \in Workers, size \in BatchSizes
  PROVE  Chunk(w) \subseteq Trajectories
<1>1. size \in Nat \ {0}
  BY RolloutAssumption
<1> QED
  BY <1>1, SliceBounds DEF Trajectories

-----------------------------------------------------------------------------
LEMMA IInvInit == Init => IInv
<1> SUFFICES ASSUME Init PROVE IInv
  OBVIOUS
<1>1. /\ manager = "idle" /\ size = 0
      /\ worker = [w \in Workers |-> "idle"]
      /\ phase = [t \in Trajectories |-> "none"]
      /\ steps = [t \in Trajectories |-> 0]
      /\ lease = [t \in Trajectories |-> NoEnv]
      /\ free = [w \in Workers |-> [i \in 1..PoolSize |-> <<w, i>>]]
      /\ waiting = [w \in Workers |-> <<>>]
      /\ episode = [e \in Envs |-> [task |-> 0, moves |-> 0]]
  BY DEF Init, Unplayed
<1>2. PoolSize \in Nat
  BY RolloutAssumption
<1>3. ASSUME NEW w \in Workers
      PROVE  free[w] = [i \in 1..PoolSize |-> <<w, i>>] /\ free[w] \in Seq(Envs)
             /\ DOMAIN free[w] = 1..PoolSize
  <2>1. free[w] = [i \in 1..PoolSize |-> <<w, i>>]
    BY <1>1
  <2>2. [i \in 1..PoolSize |-> <<w, i>>] \in [1..PoolSize -> Envs]
    BY DEF Envs
  <2> QED
    BY <2>1, <2>2, <1>2
<1>4. LeaseTypes
  BY <1>1, <1>3 DEF LeaseTypes
<1>5. OnlyWorkersPlay
  BY <1>1 DEF OnlyWorkersPlay
<1>6. QueuesHoldWaiters
  BY <1>1 DEF QueuesHoldWaiters
<1>7. PoolsAreLocal
  BY <1>1, <1>3 DEF PoolsAreLocal
<1>8. LeasesAreExclusive
  <2>1. ASSUME NEW w \in Workers, NEW e \in Envs, e[1] = w
        PROVE  \E j \in DOMAIN free[w] : free[w][j] = e
    <3>1. e[2] \in 1..PoolSize /\ e = <<w, e[2]>>
      BY <2>1 DEF Envs
    <3>2. e[2] \in DOMAIN free[w] /\ free[w][e[2]] = <<w, e[2]>>
      BY <3>1, <1>3
    <3> QED
      BY <3>1, <3>2
  <2>2. \A t \in Trajectories : lease[t] \notin Envs
    BY <1>1, NoEnvApart
  <2> QED
    BY <1>1, <1>3, <2>1, <2>2 DEF LeasesAreExclusive
<1>9. NoWaitWhileFree
  BY <1>1 DEF NoWaitWhileFree
<1>10. PlaysOwnEpisode
  BY <1>1 DEF PlaysOwnEpisode
<1> QED
  BY <1>4, <1>5, <1>6, <1>7, <1>8, <1>9, <1>10 DEF IInv

-----------------------------------------------------------------------------
(***************************************************************************)
(* The steps.                                                              *)
(***************************************************************************)
LEMMA NobodyPlaysWhenIdle ==
  ASSUME IInv, manager = "idle"
  PROVE  /\ \A t \in Trajectories : phase[t] \notin {"playing", "waiting"} /\ lease[t] = NoEnv
         /\ \A w \in Workers : waiting[w] = <<>>
<1>1. \A t \in Trajectories : phase[t] \notin {"playing", "waiting"}
  BY DEF IInv, OnlyWorkersPlay
<1>2. \A t \in Trajectories : lease[t] = NoEnv
  BY <1>1 DEF IInv, LeasesAreExclusive
<1>3. ASSUME NEW w \in Workers PROVE waiting[w] = <<>>
  <2>1. waiting[w] \in Seq(Trajectories)
    BY DEF IInv, LeaseTypes
  <2>2. \A i \in DOMAIN waiting[w] : waiting[w][i] \in Trajectories /\ phase[waiting[w][i]] = "waiting"
    BY <2>1 DEF IInv, QueuesHoldWaiters
  <2>3. 1 \notin DOMAIN waiting[w]
    BY <2>2, <1>1
  <2> QED
    BY <2>1, <2>3
<1> QED
  BY <1>1, <1>2, <1>3

\* A new batch finds every environment free and nobody in the queues.
LEMMA GenerateKeeps ==
  ASSUME IInv, NEW n \in BatchSizes, Generate(n)
  PROVE  IInv'
<1>1. /\ manager = "idle" /\ size' = n /\ manager' \in {"generating", "failed"}
      /\ manager' = "generating" => ChunkCount(n) = NumWorkers
      /\ worker' \in [Workers -> {"called", "idle"}]
      /\ phase' = [t \in Trajectories |-> "none"]
      /\ steps' = [t \in Trajectories |-> 0]
      /\ UNCHANGED <<lease, free, waiting, episode>>
  BY DEF Generate, Unplayed, pools
<1>2. n # 0
  BY RolloutAssumption
<1>4. \A t \in Trajectories : lease[t] = NoEnv
  BY <1>1, NobodyPlaysWhenIdle
<1>5. \A w \in Workers : waiting[w] = <<>>
  BY <1>1, NobodyPlaysWhenIdle
<1>6. LeaseTypes'
  <2>1. worker' \in [Workers -> {"idle", "called", "running", "returned", "raised"}]
    BY <1>1
  <2> QED
    BY <1>1, <2>1 DEF IInv, LeaseTypes
<1>7. OnlyWorkersPlay'
  <2>1. \A t \in Trajectories : phase'[t] \notin {"playing", "waiting"}
    BY <1>1
  <2>2. manager' = "generating" => ChunkCount(size') = NumWorkers
    BY <1>1
  <2> QED
    BY <1>1, <1>2, <2>1, <2>2 DEF OnlyWorkersPlay, ChunkCount, SplitSize
<1>8. QueuesHoldWaiters'
  BY <1>1, <1>5 DEF QueuesHoldWaiters
<1>9. PoolsAreLocal'
  BY <1>1, <1>4 DEF IInv, PoolsAreLocal
<1>10. LeasesAreExclusive'
  BY <1>1, <1>4 DEF IInv, LeasesAreExclusive
<1>11. NoWaitWhileFree'
  BY <1>1, <1>5 DEF NoWaitWhileFree
<1>12. PlaysOwnEpisode'
  BY <1>1 DEF PlaysOwnEpisode
<1> QED
  BY <1>6, <1>7, <1>8, <1>9, <1>10, <1>11, <1>12 DEF IInv

\* The trajectories that find a free environment when their worker starts.
Leased(w) == {t \in Chunk(w) : t <= Start(w) + Len(free[w])}

\* What is left of a sequence when its first n elements are taken.
LEMMA DroppedPrefix ==
  ASSUME NEW T, NEW F \in Seq(T), NEW n \in Nat
  PROVE  LET D == SubSeq(F, n + 1, Len(F)) IN
         /\ D \in Seq(T)
         /\ Len(F) < n => D = <<>>
         /\ \A j \in DOMAIN D : j + n \in DOMAIN F /\ j \in Nat \ {0} /\ D[j] = F[j + n]
         /\ \A j \in DOMAIN F : j > n => j - n \in DOMAIN D
<1> DEFINE D == SubSeq(F, n + 1, Len(F))
<1>1. Len(F) \in Nat /\ DOMAIN F = 1..Len(F)
  OBVIOUS
<1>2. \A i \in n + 1..Len(F) : F[i] \in T
  BY <1>1
<1>3. /\ D \in Seq(T)
      /\ Len(D) = IF n + 1 <= Len(F) THEN Len(F) - (n + 1) + 1 ELSE 0
      /\ \A i \in 1..Len(F) - (n + 1) + 1 : D[i] = F[(n + 1) + i - 1]
  BY <1>1, <1>2, SubSeqProperties
<1>4. Len(F) < n => D = <<>>
  BY <1>1, SubSeqEmpty
<1> HIDE DEF D
<1>5. (Len(F) > n => DOMAIN D = 1..Len(F) - n) /\ (~ Len(F) > n => DOMAIN D = {})
  <2>1. Len(D) = IF Len(F) > n THEN Len(F) - n ELSE 0
    <3>1. Len(D) = IF n + 1 <= Len(F) THEN Len(F) - (n + 1) + 1 ELSE 0
      BY <1>3
    <3>2. (n + 1 <= Len(F) <=> Len(F) > n) /\ Len(F) - (n + 1) + 1 = Len(F) - n
      BY <1>1
    <3> QED
      BY <3>1, <3>2
  <2>2. DOMAIN D = 1..Len(D)
    BY <1>3
  <2> QED
    BY <2>1, <2>2
<1>6. ASSUME NEW j \in DOMAIN D
      PROVE  j + n \in DOMAIN F /\ j \in Nat \ {0} /\ D[j] = F[j + n]
  <2>1. j \in Nat \ {0} /\ j <= Len(F) - n
    BY <1>1, <1>5
  <2>2. (n + 1) + j - 1 = j + n /\ j \in 1..Len(F) - (n + 1) + 1
    BY <1>1, <2>1
  <2>3. D[j] = F[j + n]
    BY <2>2, <1>3
  <2> QED
    BY <2>1, <2>3, <1>1
<1>7. ASSUME NEW j \in DOMAIN F, j > n
      PROVE  j - n \in DOMAIN D
  <2>1. Len(F) > n /\ j - n \in 1..Len(F) - n
    BY <1>1, <1>7
  <2> QED
    BY <2>1, <1>5
<1> QED
  BY <1>3, <1>4, <1>6, <1>7 DEF D

\* What StartWorker leaves in the pool and in its queue.
LEMMA StartedPool ==
  ASSUME IInv, NEW w \in Workers, StartWorker(w)
  PROVE  /\ Chunk(w) \subseteq Trajectories
         /\ \A t \in Chunk(w) : phase[t] \notin {"playing", "waiting"} /\ lease[t] = NoEnv
         /\ \A t \in Leased(w) : t - Start(w) \in DOMAIN free[w]
         /\ \A j \in DOMAIN free[w] :
              \/ Start(w) + j \in Leased(w)
              \/ j - (Stop(w) - Start(w)) \in DOMAIN free'[w]
         /\ free' \in [Workers -> Seq(Envs)]
         /\ \A v \in Workers : v # w => free'[v] = free[v]
         /\ \A j \in DOMAIN free'[w] :
              /\ j + (Stop(w) - Start(w)) \in DOMAIN free[w]
              /\ free'[w][j] = free[w][j + (Stop(w) - Start(w))]
              /\ \A t \in Leased(w) : t - Start(w) < j + (Stop(w) - Start(w))
         /\ waiting' \in [Workers -> Seq(Trajectories)]
         /\ \A v \in Workers : v # w => waiting'[v] = waiting[v]
         /\ \A i \in DOMAIN waiting'[w] :
              waiting'[w][i] \in Chunk(w) \ Leased(w)
         /\ \A i, j \in DOMAIN waiting'[w] : waiting'[w][i] = waiting'[w][j] => i = j
         /\ waiting'[w] # <<>> => free'[w] = <<>>
<1> DEFINE from == Start(w)
           to == Stop(w)
           n == to - from
           F == free[w]
           Q == [i \in 1..to - (from + Len(F)) |-> (from + Len(F)) + i]
<1>1. /\ manager = "generating" /\ worker[w] = "called"
      /\ free' = [free EXCEPT ![w] = SubSeq(F, n + 1, Len(F))]
      /\ waiting' = [waiting EXCEPT ![w] = Q]
  BY DEF StartWorker
<1>2. size \in BatchSizes /\ size \in Nat \ {0} /\ ChunkCount(size) = NumWorkers
  BY <1>1, RolloutAssumption DEF IInv, LeaseTypes, OnlyWorkersPlay
<1>3. from \in Nat /\ to \in Nat /\ from < to /\ Chunk(w) = from + 1..to
  BY <1>2, SliceBounds, ChunksAreFull DEF Chunk
<1>4. Chunk(w) \subseteq Trajectories
  BY <1>2, ChunkInTrajectories
<1>5. \A t \in Chunk(w) : phase[t] \notin {"playing", "waiting"} /\ lease[t] = NoEnv
  <2> SUFFICES ASSUME NEW t \in Chunk(w) PROVE phase[t] \notin {"playing", "waiting"} /\ lease[t] = NoEnv
    OBVIOUS
  <2>1. ASSUME phase[t] \in {"playing", "waiting"} PROVE FALSE
    <3>1. PICK v \in Workers : t \in Chunk(v) /\ worker[v] \in {"running", "raised"}
      BY <2>1, <1>4 DEF IInv, OnlyWorkersPlay
    <3>2. v = w
      BY <3>1, <1>2, ChunksApart
    <3> QED
      BY <3>1, <3>2, <1>1
  <2> QED
    BY <2>1, <1>4 DEF IInv, LeasesAreExclusive
<1>6. F \in Seq(Envs) /\ Len(F) \in Nat /\ DOMAIN F = 1..Len(F)
      /\ free \in [Workers -> Seq(Envs)] /\ waiting \in [Workers -> Seq(Trajectories)]
  BY DEF IInv, LeaseTypes
<1>7. Leased(w) = {t \in Chunk(w) : t <= from + Len(F)}
  BY DEF Leased
<1> HIDE DEF from, to, F
<1>8. n \in Nat \ {0}
  BY <1>3
<1> HIDE DEF n
<1>9. to = from + n
  BY <1>3 DEF n
<1>10. \A t \in Leased(w) : t - from \in 1..Len(F) /\ t - from <= n
  BY <1>3, <1>6, <1>7, <1>8, <1>9
<1> DEFINE D == SubSeq(F, n + 1, Len(F))
<1>11. /\ D \in Seq(Envs)
       /\ Len(F) < n => D = <<>>
       /\ \A j \in DOMAIN D : j + n \in DOMAIN F /\ j \in Nat \ {0} /\ D[j] = F[j + n]
       /\ \A j \in DOMAIN F : j > n => j - n \in DOMAIN D
  BY <1>6, <1>8, DroppedPrefix
<1> HIDE DEF D
<1>12. \A j \in DOMAIN F : from + j \in Leased(w) \/ j - n \in DOMAIN D
  <2> SUFFICES ASSUME NEW j \in 1..Len(F), ~ j > n PROVE from + j \in Leased(w)
    BY <1>6, <1>8, <1>11
  <2> QED
    BY <1>3, <1>6, <1>7, <1>8, <1>9
<1>13. /\ Q \in Seq(Trajectories)
       /\ \A i \in DOMAIN Q : Q[i] \in Chunk(w) \ Leased(w)
       /\ \A i, j \in DOMAIN Q : Q[i] = Q[j] => i = j
       /\ Q # <<>> => Len(F) < n
  <2>1. CASE to > from + Len(F)
    <3>1. to - (from + Len(F)) \in Nat /\ Len(F) < n
      BY <2>1, <1>3, <1>6, <1>8, <1>9
    <3>2. \A i \in 1..to - (from + Len(F)) :
             (from + Len(F)) + i \in Chunk(w) \ Leased(w) /\ i \in Nat
      BY <1>3, <1>6, <1>7, <3>1
    <3>3. \A i \in DOMAIN Q : Q[i] \in Chunk(w) \ Leased(w)
      BY <3>2
    <3>4. \A i, j \in DOMAIN Q : Q[i] = Q[j] => i = j
      BY <3>2, <1>3, <1>6
    <3>5. Q \in [1..to - (from + Len(F)) -> Trajectories]
      BY <3>2, <1>4
    <3>6. Q \in Seq(Trajectories)
      BY <3>1, <3>5
    <3> QED
      BY <3>1, <3>3, <3>4, <3>6
  <2>2. CASE ~ to > from + Len(F)
    <3>1. 1..to - (from + Len(F)) = {}
      BY <2>2, <1>3, <1>6
    <3>2. Q = <<>> /\ DOMAIN Q = {}
      BY <3>1
    <3> HIDE DEF Q
    <3>3. Q \in Seq(Trajectories)
      BY <3>2
    <3> QED
      BY <3>2, <3>3
  <2> QED
    BY <2>1, <2>2
<1> HIDE DEF Q
<1>14. free'[w] = D /\ waiting'[w] = Q
       /\ free' \in [Workers -> Seq(Envs)] /\ waiting' \in [Workers -> Seq(Trajectories)]
       /\ \A v \in Workers : v # w => free'[v] = free[v] /\ waiting'[v] = waiting[v]
  BY <1>1, <1>6, <1>11, <1>13 DEF D
<1>15. ASSUME NEW j \in DOMAIN free'[w]
       PROVE  /\ j + n \in DOMAIN F
              /\ free'[w][j] = F[j + n]
              /\ \A t \in Leased(w) : t - from < j + n
  <2>1. j \in Nat \ {0}
    BY <1>11, <1>14
  <2> QED
    BY <2>1, <1>6, <1>8, <1>10, <1>11, <1>14
<1>16. waiting'[w] # <<>> => free'[w] = <<>>
  BY <1>11, <1>13, <1>14
<1>17. \A t \in Leased(w) : t - from \in DOMAIN F
  BY <1>6, <1>10
<1>18. \A j \in DOMAIN F : from + j \in Leased(w) \/ j - n \in DOMAIN free'[w]
  BY <1>12, <1>14
<1> QED
  BY <1>4, <1>5, <1>13, <1>14, <1>15, <1>16, <1>17, <1>18 DEF from, to, n, F

\* A worker that starts leases environments that were free, one for each of its
\* first trajectories.
LEMMA StartKeeps ==
  ASSUME IInv, NEW w \in Workers, StartWorker(w)
  PROVE  IInv'
<1> DEFINE from == Start(w)
           n == Stop(w) - Start(w)
           F == free[w]
<1>1. /\ manager = "generating" /\ worker[w] = "called"
      /\ worker' = [worker EXCEPT ![w] = "running"]
      /\ UNCHANGED <<manager, size, steps>>
  BY DEF StartWorker
<1>2. size \in BatchSizes /\ size \in Nat \ {0}
  BY <1>1, RolloutAssumption DEF IInv, LeaseTypes, OnlyWorkersPlay
<1>3. \A v \in Workers : Chunk(v)' = Chunk(v)
  BY <1>1 DEF Chunk, Start, Stop, SplitSize
<1>4. from \in Nat /\ Stop(w) \in Nat /\ Chunk(w) \subseteq Nat /\ F \in Seq(Envs)
  BY <1>2, SliceBounds DEF IInv, LeaseTypes
<1>5. Leased(w) \subseteq Chunk(w) /\ Chunk(w) \subseteq Trajectories
  BY <1>2, ChunkInTrajectories DEF Leased
<1>6. \A t \in Chunk(w) : phase[t] \notin {"playing", "waiting"} /\ lease[t] = NoEnv
  BY StartedPool
<1>7. \A t \in Leased(w) : t - from \in DOMAIN F /\ F[t - from] \in Envs /\ F[t - from][1] = w
  <2>1. \A t \in Leased(w) : t - from \in DOMAIN F
    BY StartedPool
  <2>2. \A j \in DOMAIN F : F[j] \in Envs /\ F[j][1] = w
    BY <1>4 DEF IInv, PoolsAreLocal
  <2> QED
    BY <2>1, <2>2
<1>8. \A j \in DOMAIN F : from + j \in Leased(w) \/ j - n \in DOMAIN free'[w]
  BY StartedPool
<1>9. \A j \in DOMAIN free'[w] :
        /\ j + n \in DOMAIN F
        /\ free'[w][j] = F[j + n]
        /\ \A t \in Leased(w) : t - from < j + n
  BY StartedPool
<1>10. /\ free' \in [Workers -> Seq(Envs)] /\ waiting' \in [Workers -> Seq(Trajectories)]
       /\ \A v \in Workers : v # w => free'[v] = free[v] /\ waiting'[v] = waiting[v]
  BY StartedPool
<1>11. /\ \A i \in DOMAIN waiting'[w] : waiting'[w][i] \in Chunk(w) \ Leased(w)
       /\ \A i, j \in DOMAIN waiting'[w] : waiting'[w][i] = waiting'[w][j] => i = j
       /\ waiting'[w] # <<>> => free'[w] = <<>>
  BY StartedPool
<1>12. phase' = [t \in Trajectories |-> IF t \in Leased(w) THEN "playing"
                                        ELSE IF t \in Chunk(w) THEN "waiting" ELSE phase[t]]
  <2>1. Len(F) \in Nat
    BY <1>4
  <2>2. {t \in Chunk(w) : t > Start(w) + Len(free[w])} = Chunk(w) \ Leased(w)
    BY <1>4, <2>1 DEF Leased
  <2>3. phase' = [t \in Trajectories |-> IF t \in Leased(w) THEN "playing"
                                         ELSE IF t \in Chunk(w) \ Leased(w) THEN "waiting" ELSE phase[t]]
    BY <2>2 DEF StartWorker, Leased
  <2> QED
    BY <2>3
<1>13. lease' = [t \in Trajectories |-> IF t \in Leased(w) THEN F[t - from] ELSE lease[t]]
  BY DEF StartWorker, Leased
<1>14. episode' = [e \in Envs |-> IF \E t \in Leased(w) : lease'[t] = e
                                  THEN Reset(CHOOSE t \in Leased(w) : lease'[t] = e) ELSE episode[e]]
  BY DEF StartWorker, Leased
<1> HIDE DEF from, n, F
<1>15. LeaseTypes'
  <2>1. phase' \in [Trajectories -> {"none", "waiting", "playing", "ended", "raised"}]
    BY <1>12 DEF IInv, LeaseTypes
  <2>2. lease' \in [Trajectories -> Envs \union {NoEnv}]
    BY <1>7, <1>13 DEF IInv, LeaseTypes
  <2>3. episode' \in [Envs -> [task : Trajectories \union {0}, moves : Nat]]
    <3>1. ASSUME NEW e \in Envs, \E t \in Leased(w) : lease'[t] = e
          PROVE  Reset(CHOOSE t \in Leased(w) : lease'[t] = e)
                   \in [task : Trajectories \union {0}, moves : Nat]
      <4>1. (CHOOSE t \in Leased(w) : lease'[t] = e) \in Trajectories
        BY <3>1, <1>5
      <4> QED
        BY <4>1 DEF Reset
    <3>2. \A e \in Envs : episode[e] \in [task : Trajectories \union {0}, moves : Nat]
      BY DEF IInv, LeaseTypes
    <3> QED
      BY <3>1, <3>2, <1>14
  <2>4. worker' \in [Workers -> {"idle", "called", "running", "returned", "raised"}]
    BY <1>1 DEF IInv, LeaseTypes
  <2> QED
    BY <1>1, <1>10, <2>1, <2>2, <2>3, <2>4 DEF IInv, LeaseTypes
<1>16. OnlyWorkersPlay'
  <2>1. ASSUME NEW t \in Trajectories, phase'[t] \in {"playing", "waiting"}
        PROVE  \E v \in Workers : t \in Chunk(v)' /\ worker'[v] \in {"running", "raised"}
    <3>1. CASE t \in Chunk(w)
      BY <3>1, <1>1, <1>3 DEF IInv, LeaseTypes
    <3>2. CASE t \notin Chunk(w)
      <4>1. phase[t] \in {"playing", "waiting"}
        BY <2>1, <3>2, <1>5, <1>12
      <4>2. PICK v \in Workers : t \in Chunk(v) /\ worker[v] \in {"running", "raised"}
        BY <4>1 DEF IInv, OnlyWorkersPlay
      <4>3. worker'[v] = worker[v]
        BY <4>2, <1>1 DEF IInv, LeaseTypes
      <4> QED
        BY <4>2, <4>3, <1>3
    <3> QED
      BY <3>1, <3>2
  <2>2. ChunkCount(size)' = ChunkCount(size)
    BY <1>1 DEF ChunkCount, SplitSize
  <2> QED
    BY <1>1, <2>1, <2>2 DEF IInv, OnlyWorkersPlay
<1>17. QueuesHoldWaiters'
  <2>1. ASSUME NEW v \in Workers, NEW i \in DOMAIN waiting'[v]
        PROVE  waiting'[v][i] \in Chunk(v) /\ phase'[waiting'[v][i]] = "waiting"
    <3>1. CASE v = w
      BY <3>1, <1>5, <1>11, <1>12
    <3>2. CASE v # w
      <4>1. waiting'[v] = waiting[v] /\ waiting[v] \in Seq(Trajectories)
        BY <3>2, <1>10 DEF IInv, LeaseTypes
      <4>2. waiting[v][i] \in Chunk(v) /\ phase[waiting[v][i]] = "waiting" /\ waiting[v][i] \in Trajectories
        BY <4>1 DEF IInv, QueuesHoldWaiters
      <4>3. waiting[v][i] \notin Chunk(w)
        BY <4>2, <3>2, <1>2, ChunksApart
      <4> QED
        BY <4>1, <4>2, <4>3, <1>5, <1>12
    <3> QED
      BY <3>1, <3>2
  <2>2. ASSUME NEW v \in Workers, NEW i \in DOMAIN waiting'[v], NEW j \in DOMAIN waiting'[v],
               waiting'[v][i] = waiting'[v][j]
        PROVE  i = j
    <3>1. CASE v = w
      BY <3>1, <2>2, <1>11
    <3>2. CASE v # w
      BY <3>2, <2>2, <1>10 DEF IInv, QueuesHoldWaiters
    <3> QED
      BY <3>1, <3>2
  <2> QED
    BY <2>1, <2>2, <1>3 DEF QueuesHoldWaiters
<1>18. PoolsAreLocal'
  <2>1. ASSUME NEW v \in Workers, NEW j \in DOMAIN free'[v]
        PROVE  free'[v][j][1] = v
    <3>1. CASE v = w
      <4>1. \A k \in DOMAIN F : F[k][1] = w
        BY DEF IInv, PoolsAreLocal, F
      <4> QED
        BY <4>1, <3>1, <1>9
    <3>2. CASE v # w
      BY <3>2, <1>10 DEF IInv, PoolsAreLocal
    <3> QED
      BY <3>1, <3>2
  <2>2. ASSUME NEW v \in Workers, NEW t \in Trajectories, t \in Chunk(v), lease'[t] # NoEnv
        PROVE  lease'[t][1] = v
    <3>1. CASE t \in Leased(w)
      <4>1. v = w
        BY <3>1, <2>2, <1>2, <1>5, ChunksApart
      <4> QED
        BY <4>1, <3>1, <1>7, <1>13
    <3>2. CASE t \notin Leased(w)
      BY <3>2, <2>2, <1>13 DEF IInv, PoolsAreLocal
    <3> QED
      BY <3>1, <3>2
  <2> QED
    BY <2>1, <2>2, <1>3 DEF PoolsAreLocal
<1>19. \A s, t \in Trajectories : lease'[s] = lease'[t] /\ lease'[s] # NoEnv => s = t
  <2>1. ASSUME NEW s \in Leased(w), NEW t \in Leased(w), lease'[s] = lease'[t]
        PROVE  s = t
    <3>1. F[s - from] = F[t - from] /\ s - from \in DOMAIN F /\ t - from \in DOMAIN F
      BY <2>1, <1>5, <1>7, <1>13
    <3>2. s - from = t - from
      BY <3>1 DEF IInv, LeasesAreExclusive, F
    <3>3. s \in Nat /\ t \in Nat
      BY <1>4, <1>5
    <3> QED
      BY <3>2, <3>3, <1>4
  <2>2. ASSUME NEW s \in Leased(w), NEW t \in Trajectories \ Leased(w), lease'[s] = lease'[t]
        PROVE  FALSE
    <3>1. lease[t] = F[s - from] /\ s - from \in DOMAIN F /\ F[s - from] \in Envs /\ F[s - from][1] = w
      BY <2>2, <1>5, <1>7, <1>13
    <3> QED
      BY <3>1 DEF IInv, LeasesAreExclusive, F
  <2>3. ASSUME NEW s \in Trajectories \ Leased(w), NEW t \in Trajectories \ Leased(w),
               lease'[s] = lease'[t], lease'[s] # NoEnv
        PROVE  s = t
    BY <2>3, <1>13 DEF IInv, LeasesAreExclusive
  <2> QED
    BY <2>1, <2>2, <2>3
<1>20. LeasesAreExclusive'
  <2>1. ASSUME NEW t \in Trajectories
        PROVE  phase'[t] = "playing" <=> lease'[t] # NoEnv
    <3>1. CASE t \in Leased(w)
      BY <3>1, <1>7, <1>12, <1>13, NoEnvApart
    <3>2. CASE t \in Chunk(w) \ Leased(w)
      BY <3>2, <1>6, <1>12, <1>13
    <3>3. CASE t \notin Chunk(w)
      BY <3>3, <1>5, <1>12, <1>13 DEF IInv, LeasesAreExclusive
    <3> QED
      BY <3>1, <3>2, <3>3
  <2>2. ASSUME NEW v \in Workers, NEW i \in DOMAIN free'[v], NEW j \in DOMAIN free'[v],
               free'[v][i] = free'[v][j]
        PROVE  i = j
    <3>1. CASE v = w
      <4>1. F[i + n] = F[j + n] /\ i + n \in DOMAIN F /\ j + n \in DOMAIN F
        BY <3>1, <2>2, <1>9
      <4>2. i + n = j + n
        BY <4>1 DEF IInv, LeasesAreExclusive, F
      <4>3. i \in Int /\ j \in Int /\ n \in Int
        BY <3>1, <1>4, <1>10 DEF n, from
      <4> QED
        BY <4>2, <4>3
    <3>2. CASE v # w
      BY <3>2, <2>2, <1>10 DEF IInv, LeasesAreExclusive
    <3> QED
      BY <3>1, <3>2
  <2>3. ASSUME NEW v \in Workers, NEW e \in Envs, e[1] = v, v # w
        PROVE  (\E t \in Trajectories : lease'[t] = e) <=> ~ \E j \in DOMAIN free'[v] : free'[v][j] = e
    <3>1. \A t \in Trajectories : lease'[t] = e <=> lease[t] = e
      BY <2>3, <1>5, <1>6, <1>7, <1>13, NoEnvApart
    <3>2. free'[v] = free[v]
      BY <2>3, <1>10
    <3> QED
      BY <2>3, <3>1, <3>2 DEF IInv, LeasesAreExclusive
  <2>4. ASSUME NEW e \in Envs, e[1] = w, NEW t \in Trajectories, lease'[t] = e,
               NEW j \in DOMAIN free'[w], free'[w][j] = e
        PROVE  FALSE
    <3>1. F[j + n] = e /\ j + n \in DOMAIN F
      BY <2>4, <1>9
    <3>2. CASE t \in Leased(w)
      <4>1. F[t - from] = F[j + n] /\ t - from \in DOMAIN F
        BY <2>4, <3>1, <3>2, <1>7, <1>13
      <4>2. t - from = j + n
        BY <3>1, <4>1 DEF IInv, LeasesAreExclusive, F
      <4>3. t - from < j + n /\ t - from \in Int
        BY <3>2, <1>4, <1>5, <1>9
      <4> QED
        BY <4>2, <4>3
    <3>3. CASE t \notin Leased(w)
      <4>1. lease[t] = e
        BY <2>4, <3>3, <1>13
      <4> QED
        BY <2>4, <3>1, <4>1 DEF IInv, LeasesAreExclusive, F
    <3> QED
      BY <3>2, <3>3
  <2>5. ASSUME NEW e \in Envs, e[1] = w, ~ \E j \in DOMAIN free'[w] : free'[w][j] = e
        PROVE  \E t \in Trajectories : lease'[t] = e
    <3>1. CASE \E t \in Trajectories : lease[t] = e
      <4>1. PICK t \in Trajectories : lease[t] = e
        BY <3>1
      <4>2. t \notin Leased(w)
        BY <4>1, <1>5, <1>6, NoEnvApart
      <4> QED
        BY <4>1, <4>2, <1>13
    <3>2. CASE \E j \in DOMAIN F : F[j] = e
      <4>1. PICK j \in DOMAIN F : F[j] = e
        BY <3>2
      <4>2. CASE from + j \in Leased(w)
        <5>1. (from + j) - from = j
          BY <4>1, <1>4
        <5>2. lease'[from + j] = e /\ from + j \in Trajectories
          BY <4>1, <4>2, <5>1, <1>5, <1>13
        <5> QED
          BY <5>2
      <4>3. CASE j - n \in DOMAIN free'[w]
        <5>1. (j - n) + n = j
          BY <4>1, <1>4 DEF n, from
        <5>2. free'[w][j - n] = e
          BY <4>1, <4>3, <5>1, <1>9
        <5> QED
          BY <5>2, <4>3, <2>5
      <4> QED
        BY <4>1, <4>2, <4>3, <1>8
    <3> QED
      BY <2>5, <3>1, <3>2 DEF IInv, LeasesAreExclusive, F
  <2>6. ASSUME NEW v \in Workers, NEW e \in Envs, e[1] = v
        PROVE  (\E t \in Trajectories : lease'[t] = e) <=> ~ \E j \in DOMAIN free'[v] : free'[v][j] = e
    BY <2>3, <2>4, <2>5, <2>6
  <2> QED
    BY <2>1, <2>2, <2>6, <1>19 DEF LeasesAreExclusive
<1>21. NoWaitWhileFree'
  BY <1>10, <1>11 DEF IInv, NoWaitWhileFree
<1>22. PlaysOwnEpisode'
  <2> SUFFICES ASSUME NEW t \in Trajectories, phase'[t] = "playing"
               PROVE  episode'[lease'[t]].task = t /\ episode'[lease'[t]].moves <= steps[t]
    BY <1>1 DEF PlaysOwnEpisode
  <2>1. lease'[t] \in Envs
    BY <1>15, <1>20 DEF LeaseTypes, LeasesAreExclusive
  <2>2. CASE t \in Leased(w)
    <3>1. lease'[t] # NoEnv
      BY <2>1, NoEnvApart
    <3>2. (CHOOSE s \in Leased(w) : lease'[s] = lease'[t]) = t
      BY <2>2, <3>1, <1>5, <1>19
    <3>3. episode'[lease'[t]] = Reset(t)
      BY <2>1, <2>2, <3>2, <1>14
    <3>4. steps[t] \in Nat
      BY DEF IInv, LeaseTypes
    <3> QED
      BY <3>3, <3>4 DEF Reset
  <2>3. CASE t \notin Leased(w)
    <3>1. phase[t] = "playing" /\ lease'[t] = lease[t]
      BY <2>3, <1>12, <1>13
    <3>2. ~ \E s \in Leased(w) : lease'[s] = lease'[t]
      BY <2>1, <2>3, <1>5, <1>19, NoEnvApart
    <3>3. episode'[lease'[t]] = episode[lease[t]]
      BY <2>1, <3>1, <3>2, <1>14
    <3> QED
      BY <3>1, <3>3 DEF IInv, PlaysOwnEpisode
  <2> QED
    BY <2>2, <2>3
<1> QED
  BY <1>15, <1>16, <1>17, <1>18, <1>20, <1>21, <1>22 DEF IInv

\* What is known of a trajectory that plays.
LEMMA PlayerFacts ==
  ASSUME IInv, NEW t \in Trajectories, phase[t] = "playing"
  PROVE  /\ WorkerOf(t) \in Workers /\ t \in Chunk(WorkerOf(t))
         /\ lease[t] \in Envs /\ lease[t] # NoEnv /\ lease[t][1] = WorkerOf(t)
         /\ \A v \in Workers : \A j \in DOMAIN free[v] : free[v][j] # lease[t]
         /\ \A s \in Trajectories : lease[s] = lease[t] => s = t
<1>1. WorkerOf(t) \in Workers /\ t \in Chunk(WorkerOf(t))
  BY DEF IInv, OnlyWorkersPlay, WorkerOf
<1>2. lease[t] \in Envs /\ lease[t] # NoEnv
  BY DEF IInv, LeaseTypes, LeasesAreExclusive
<1>3. lease[t][1] = WorkerOf(t)
  BY <1>1, <1>2 DEF IInv, PoolsAreLocal
<1>4. ASSUME NEW v \in Workers, NEW j \in DOMAIN free[v], free[v][j] = lease[t]
      PROVE  FALSE
  <2>1. lease[t][1] = v
    BY <1>4 DEF IInv, PoolsAreLocal
  <2> QED
    BY <1>2, <1>4, <2>1 DEF IInv, LeasesAreExclusive
<1>5. \A s \in Trajectories : lease[s] = lease[t] => s = t
  BY <1>2 DEF IInv, LeasesAreExclusive
<1> QED
  BY <1>1, <1>2, <1>3, <1>4, <1>5

\* An environment that nobody waits for goes back into the pool.
LEMMA FreeingKeeps ==
  ASSUME IInv, NEW t \in Trajectories, phase[t] = "playing",
         NEW next \in {"ended", "raised"}, Release(t, next), waiting[WorkerOf(t)] = <<>>,
         UNCHANGED <<manager, size, worker>>, steps' \in [Trajectories -> Nat],
         \A s \in Trajectories : s # t => steps'[s] = steps[s]
  PROVE  IInv'
<1> DEFINE w == WorkerOf(t)
           e == lease[t]
           F == free[w]
<1>1. /\ free' = [free EXCEPT ![w] = Append(F, e)]
      /\ phase' = [phase EXCEPT ![t] = next]
      /\ lease' = [lease EXCEPT ![t] = NoEnv]
      /\ UNCHANGED <<waiting, episode>>
  BY DEF Release
<1>2. /\ w \in Workers /\ t \in Chunk(w)
      /\ e \in Envs /\ e # NoEnv /\ e[1] = w
      /\ \A v \in Workers : \A j \in DOMAIN free[v] : free[v][j] # e
      /\ \A s \in Trajectories : lease[s] = e => s = t
  BY PlayerFacts
<1>3. \A v \in Workers : Chunk(v)' = Chunk(v)
  BY DEF Chunk, Start, Stop, SplitSize
<1>4. F \in Seq(Envs) /\ free \in [Workers -> Seq(Envs)]
  BY <1>2 DEF IInv, LeaseTypes
<1> HIDE DEF w, e, F
<1>5. /\ Append(F, e) \in Seq(Envs)
      /\ DOMAIN Append(F, e) = DOMAIN F \union {Len(F) + 1}
      /\ Len(F) + 1 \notin DOMAIN F
      /\ Append(F, e)[Len(F) + 1] = e
      /\ \A j \in DOMAIN F : Append(F, e)[j] = F[j]
  BY <1>2, <1>4
<1>6. /\ free' \in [Workers -> Seq(Envs)] /\ free'[w] = Append(F, e)
      /\ \A v \in Workers : v # w => free'[v] = free[v]
  BY <1>1, <1>2, <1>4, <1>5
<1>7. /\ phase'[t] = next /\ lease'[t] = NoEnv
      /\ \A s \in Trajectories : s # t => phase'[s] = phase[s] /\ lease'[s] = lease[s]
      /\ phase' \in [Trajectories -> {"none", "waiting", "playing", "ended", "raised"}]
      /\ lease' \in [Trajectories -> Envs \union {NoEnv}]
  BY <1>1 DEF IInv, LeaseTypes
<1>8. LeaseTypes'
  BY <1>1, <1>6, <1>7 DEF IInv, LeaseTypes
<1>9. OnlyWorkersPlay'
  <2>1. \A s \in Trajectories : phase'[s] \in {"playing", "waiting"} => phase[s] \in {"playing", "waiting"}
    BY <1>7
  <2>2. ChunkCount(size)' = ChunkCount(size)
    BY DEF ChunkCount, SplitSize
  <2> QED
    BY <1>3, <2>1, <2>2 DEF IInv, OnlyWorkersPlay
<1>10. QueuesHoldWaiters'
  <2>1. ASSUME NEW v \in Workers, NEW i \in DOMAIN waiting[v]
        PROVE  waiting[v][i] \in Chunk(v) /\ phase'[waiting[v][i]] = "waiting"
    <3>1. waiting[v][i] \in Trajectories /\ waiting[v][i] \in Chunk(v) /\ phase[waiting[v][i]] = "waiting"
      BY DEF IInv, LeaseTypes, QueuesHoldWaiters
    <3> QED
      BY <3>1, <1>7
  <2> QED
    BY <1>1, <1>3, <2>1 DEF IInv, QueuesHoldWaiters
<1>11. PoolsAreLocal'
  <2>1. ASSUME NEW v \in Workers, NEW j \in DOMAIN free'[v]
        PROVE  free'[v][j][1] = v
    <3>1. CASE v # w
      BY <3>1, <1>6 DEF IInv, PoolsAreLocal
    <3>2. CASE v = w
      BY <3>2, <1>2, <1>5, <1>6 DEF IInv, PoolsAreLocal, F
    <3> QED
      BY <3>1, <3>2
  <2>2. \A s \in Trajectories : lease'[s] # NoEnv => lease'[s] = lease[s]
    BY <1>7
  <2> QED
    BY <1>3, <2>1, <2>2 DEF IInv, PoolsAreLocal
<1>12. LeasesAreExclusive'
  <2>1. \A s \in Trajectories : phase'[s] = "playing" <=> lease'[s] # NoEnv
    BY <1>7 DEF IInv, LeasesAreExclusive
  <2>2. \A s, r \in Trajectories : lease'[s] = lease'[r] /\ lease'[s] # NoEnv => s = r
    BY <1>7 DEF IInv, LeasesAreExclusive
  <2>3. ASSUME NEW v \in Workers, NEW i \in DOMAIN free'[v], NEW j \in DOMAIN free'[v],
               free'[v][i] = free'[v][j]
        PROVE  i = j
    <3>1. CASE v # w
      BY <3>1, <2>3, <1>6 DEF IInv, LeasesAreExclusive
    <3>2. CASE v = w
      <4>1. \A k, l \in DOMAIN F : F[k] = F[l] => k = l
        BY <1>2 DEF IInv, LeasesAreExclusive, F
      <4>2. \A k \in DOMAIN F : F[k] # e
        BY <1>2 DEF F
      <4> QED
        BY <3>2, <2>3, <4>1, <4>2, <1>5, <1>6
    <3> QED
      BY <3>1, <3>2
  <2>4. ASSUME NEW v \in Workers, NEW x \in Envs, x[1] = v
        PROVE  (\E s \in Trajectories : lease'[s] = x) <=> ~ \E j \in DOMAIN free'[v] : free'[v][j] = x
    <3>1. x # NoEnv
      BY NoEnvApart
    <3>2. (\E s \in Trajectories : lease'[s] = x) <=> x # e /\ \E s \in Trajectories : lease[s] = x
      BY <1>2, <1>7, <3>1 DEF e
    <3>3. (\E j \in DOMAIN free'[v] : free'[v][j] = x) <=> x = e \/ \E j \in DOMAIN free[v] : free[v][j] = x
      <4>1. CASE v # w
        BY <4>1, <2>4, <1>2, <1>6
      <4>2. CASE v = w
        BY <4>2, <1>5, <1>6 DEF F
      <4> QED
        BY <4>1, <4>2
    <3> QED
      BY <2>4, <3>2, <3>3 DEF IInv, LeasesAreExclusive
  <2> QED
    BY <2>1, <2>2, <2>3, <2>4 DEF LeasesAreExclusive
<1>13. NoWaitWhileFree'
  <2>1. waiting[w] = <<>>
    BY DEF w
  <2> QED
    BY <1>1, <1>6, <2>1 DEF IInv, NoWaitWhileFree
<1>14. PlaysOwnEpisode'
  BY <1>1, <1>7 DEF IInv, PlaysOwnEpisode
<1> QED
  BY <1>8, <1>9, <1>10, <1>11, <1>12, <1>13, <1>14 DEF IInv

\* An environment that somebody waits for passes to the first waiter, reset.
LEMMA HandingOnKeeps ==
  ASSUME IInv, manager = "generating", NEW t \in Trajectories, phase[t] = "playing",
         NEW next \in {"ended", "raised"}, Release(t, next), waiting[WorkerOf(t)] # <<>>,
         UNCHANGED <<manager, size, worker>>, steps' \in [Trajectories -> Nat],
         \A s \in Trajectories : s # t => steps'[s] = steps[s]
  PROVE  IInv'
<1> DEFINE w == WorkerOf(t)
           e == lease[t]
           Q == waiting[w]
           h == Head(Q)
<1>1. /\ waiting' = [waiting EXCEPT ![w] = Tail(Q)]
      /\ phase' = [phase EXCEPT ![t] = next, ![h] = "playing"]
      /\ lease' = [lease EXCEPT ![t] = NoEnv, ![h] = e]
      /\ episode' = [episode EXCEPT ![e] = Reset(h)]
      /\ UNCHANGED free
  BY DEF Release
<1>2. /\ w \in Workers /\ t \in Chunk(w)
      /\ e \in Envs /\ e # NoEnv /\ e[1] = w
      /\ \A v \in Workers : \A j \in DOMAIN free[v] : free[v][j] # e
      /\ \A s \in Trajectories : lease[s] = e => s = t
  BY PlayerFacts
<1>3. \A v \in Workers : Chunk(v)' = Chunk(v)
  BY DEF Chunk, Start, Stop, SplitSize
<1>4. Q \in Seq(Trajectories) /\ waiting \in [Workers -> Seq(Trajectories)] /\ Q # <<>>
  BY <1>2 DEF IInv, LeaseTypes
<1>5. \A i \in DOMAIN Q : Q[i] \in Chunk(w) /\ phase[Q[i]] = "waiting"
  BY <1>2 DEF IInv, QueuesHoldWaiters
<1>6. \A i, j \in DOMAIN Q : Q[i] = Q[j] => i = j
  BY <1>2 DEF IInv, QueuesHoldWaiters
<1>7. size \in Nat \ {0}
  BY RolloutAssumption DEF IInv, LeaseTypes, OnlyWorkersPlay
<1> HIDE DEF w, e, Q, h
<1>8. 1 \in DOMAIN Q /\ h = Q[1] /\ h \in Trajectories
  BY <1>4 DEF h
<1>9. h \in Chunk(w) /\ phase[h] = "waiting" /\ h # t
  BY <1>5, <1>8
<1>10. /\ Tail(Q) \in Seq(Trajectories)
       /\ \A i \in DOMAIN Tail(Q) : i + 1 \in DOMAIN Q /\ Tail(Q)[i] = Q[i + 1] /\ i \in Nat \ {0}
  BY <1>4, HeadTailProperties
<1>11. /\ waiting' \in [Workers -> Seq(Trajectories)] /\ waiting'[w] = Tail(Q)
       /\ \A v \in Workers : v # w => waiting'[v] = waiting[v]
  BY <1>1, <1>2, <1>4, <1>10
<1>12. /\ phase'[t] = next /\ lease'[t] = NoEnv
       /\ phase'[h] = "playing" /\ lease'[h] = e
       /\ \A s \in Trajectories : s # t /\ s # h => phase'[s] = phase[s] /\ lease'[s] = lease[s]
       /\ phase' \in [Trajectories -> {"none", "waiting", "playing", "ended", "raised"}]
       /\ lease' \in [Trajectories -> Envs \union {NoEnv}]
  BY <1>1, <1>2, <1>8, <1>9 DEF IInv, LeaseTypes
<1>13. /\ episode'[e] = Reset(h) /\ \A x \in Envs : x # e => episode'[x] = episode[x]
       /\ episode' \in [Envs -> [task : Trajectories \union {0}, moves : Nat]]
  <2>1. Reset(h) \in [task : Trajectories \union {0}, moves : Nat]
    BY <1>8 DEF Reset
  <2> QED
    BY <2>1, <1>1, <1>2 DEF IInv, LeaseTypes
<1>14. lease[h] = NoEnv
  BY <1>8, <1>9 DEF IInv, LeasesAreExclusive
<1>15. LeaseTypes'
  BY <1>1, <1>11, <1>12, <1>13 DEF IInv, LeaseTypes
<1>16. OnlyWorkersPlay'
  <2>1. \A s \in Trajectories : phase'[s] \in {"playing", "waiting"} => phase[s] \in {"playing", "waiting"}
    BY <1>9, <1>12
  <2>2. ChunkCount(size)' = ChunkCount(size)
    BY DEF ChunkCount, SplitSize
  <2> QED
    BY <1>3, <2>1, <2>2 DEF IInv, OnlyWorkersPlay
<1>17. QueuesHoldWaiters'
  <2>1. ASSUME NEW v \in Workers, NEW i \in DOMAIN waiting'[v]
        PROVE  waiting'[v][i] \in Chunk(v) /\ phase'[waiting'[v][i]] = "waiting"
    <3>1. CASE v = w
      <4>1. waiting'[v][i] = Q[i + 1] /\ i + 1 \in DOMAIN Q /\ i \in Nat \ {0}
        BY <3>1, <1>10, <1>11
      <4>2. Q[i + 1] # Q[1]
        BY <4>1, <1>6, <1>8
      <4>3. Q[i + 1] \in Trajectories /\ Q[i + 1] \in Chunk(w) /\ phase[Q[i + 1]] = "waiting"
        BY <4>1, <1>4, <1>5
      <4> QED
        BY <3>1, <4>1, <4>2, <4>3, <1>8, <1>12
    <3>2. CASE v # w
      <4>1. waiting'[v] = waiting[v] /\ waiting[v] \in Seq(Trajectories)
        BY <3>2, <1>4, <1>11
      <4>2. waiting[v][i] \in Trajectories /\ waiting[v][i] \in Chunk(v) /\ phase[waiting[v][i]] = "waiting"
        BY <4>1 DEF IInv, QueuesHoldWaiters
      <4>3. waiting[v][i] # h
        BY <4>2, <3>2, <1>2, <1>7, <1>9, ChunksApart
      <4> QED
        BY <4>1, <4>2, <4>3, <1>12
    <3> QED
      BY <3>1, <3>2
  <2>2. ASSUME NEW v \in Workers, NEW i \in DOMAIN waiting'[v], NEW j \in DOMAIN waiting'[v],
               waiting'[v][i] = waiting'[v][j]
        PROVE  i = j
    <3>1. CASE v = w
      <4>1. Q[i + 1] = Q[j + 1] /\ i + 1 \in DOMAIN Q /\ j + 1 \in DOMAIN Q /\ i \in Nat /\ j \in Nat
        BY <3>1, <2>2, <1>10, <1>11
      <4>2. i + 1 = j + 1
        BY <4>1, <1>6
      <4> QED
        BY <4>1, <4>2
    <3>2. CASE v # w
      BY <3>2, <2>2, <1>11 DEF IInv, QueuesHoldWaiters
    <3> QED
      BY <3>1, <3>2
  <2> QED
    BY <2>1, <2>2, <1>3 DEF QueuesHoldWaiters
<1>18. PoolsAreLocal'
  <2>1. ASSUME NEW v \in Workers, NEW s \in Trajectories, s \in Chunk(v), lease'[s] # NoEnv
        PROVE  lease'[s][1] = v
    <3>1. CASE s = h
      <4>1. v = w
        BY <3>1, <2>1, <1>2, <1>7, <1>9, ChunksApart
      <4> QED
        BY <3>1, <4>1, <1>2, <1>12
    <3>2. CASE s # h
      BY <3>2, <2>1, <1>12 DEF IInv, PoolsAreLocal
    <3> QED
      BY <3>1, <3>2
  <2> QED
    BY <2>1, <1>1, <1>3 DEF IInv, PoolsAreLocal
<1>19. LeasesAreExclusive'
  <2>1. \A s \in Trajectories : phase'[s] = "playing" <=> lease'[s] # NoEnv
    BY <1>2, <1>12 DEF IInv, LeasesAreExclusive
  <2>2. \A s, r \in Trajectories : lease'[s] = lease'[r] /\ lease'[s] # NoEnv => s = r
    <3>1. \A s \in Trajectories : s # h /\ lease'[s] # NoEnv => lease'[s] = lease[s] /\ s # t
      BY <1>12
    <3>2. \A s \in Trajectories : s # h => lease'[s] # e
      BY <1>2, <3>1
    <3>3. \A s, r \in Trajectories : lease[s] = lease[r] /\ lease[s] # NoEnv => s = r
      BY DEF IInv, LeasesAreExclusive
    <3> QED
      BY <3>1, <3>2, <3>3, <1>12
  <2>3. \A x \in Envs : (\E s \in Trajectories : lease'[s] = x) <=> (\E s \in Trajectories : lease[s] = x)
    <3> SUFFICES ASSUME NEW x \in Envs
                 PROVE  (\E s \in Trajectories : lease'[s] = x) <=> (\E s \in Trajectories : lease[s] = x)
      OBVIOUS
    <3>1. x # NoEnv
      BY NoEnvApart
    <3>2. CASE x = e
      BY <3>2, <1>8, <1>12 DEF e
    <3>3. CASE x # e
      <4>1. \A s \in Trajectories : lease'[s] = x <=> lease[s] = x
        BY <3>1, <3>3, <1>12, <1>14 DEF e
      <4> QED
        BY <4>1
    <3> QED
      BY <3>2, <3>3
  <2>4. ASSUME NEW v \in Workers, NEW x \in Envs, x[1] = v
        PROVE  (\E s \in Trajectories : lease'[s] = x) <=> ~ \E j \in DOMAIN free'[v] : free'[v][j] = x
    <3>1. (\E s \in Trajectories : lease[s] = x) <=> ~ \E j \in DOMAIN free[v] : free[v][j] = x
      BY <2>4 DEF IInv, LeasesAreExclusive
    <3> QED
      BY <2>3, <3>1, <1>1
  <2>5. \A v \in Workers : \A i, j \in DOMAIN free'[v] : free'[v][i] = free'[v][j] => i = j
    BY <1>1 DEF IInv, LeasesAreExclusive
  <2> QED
    BY <2>1, <2>2, <2>4, <2>5 DEF LeasesAreExclusive
<1>20. NoWaitWhileFree'
  <2>1. free[w] = <<>>
    BY <1>2, <1>4 DEF IInv, NoWaitWhileFree, Q
  <2> QED
    BY <2>1, <1>1, <1>11 DEF IInv, NoWaitWhileFree
<1>21. PlaysOwnEpisode'
  <2> SUFFICES ASSUME NEW s \in Trajectories, phase'[s] = "playing"
               PROVE  episode'[lease'[s]].task = s /\ episode'[lease'[s]].moves <= steps'[s]
    BY DEF PlaysOwnEpisode
  <2>1. s # t
    BY <1>12
  <2>2. CASE s = h
    <3>1. steps'[h] \in Nat
      BY <1>8
    <3> QED
      BY <2>2, <3>1, <1>12, <1>13 DEF Reset
  <2>3. CASE s # h
    <3>1. phase[s] = "playing" /\ lease'[s] = lease[s] /\ steps'[s] = steps[s]
      BY <2>1, <2>3, <1>12
    <3>2. lease[s] # e /\ lease[s] \in Envs
      BY <2>1, <3>1, <1>2 DEF IInv, LeaseTypes, LeasesAreExclusive
    <3>3. episode'[lease'[s]] = episode[lease[s]]
      BY <3>1, <3>2, <1>13
    <3> QED
      BY <3>1, <3>3 DEF IInv, PlaysOwnEpisode
  <2> QED
    BY <2>2, <2>3
<1> QED
  BY <1>15, <1>16, <1>17, <1>18, <1>19, <1>20, <1>21 DEF IInv

\* A trajectory that ends or raises gives its environment back.
LEMMA ReleaseKeeps ==
  ASSUME IInv, manager = "generating", NEW t \in Trajectories, phase[t] = "playing",
         NEW next \in {"ended", "raised"}, Release(t, next),
         UNCHANGED <<manager, size, worker>>, steps' \in [Trajectories -> Nat],
         \A s \in Trajectories : s # t => steps'[s] = steps[s]
  PROVE  IInv'
  BY FreeingKeeps, HandingOnKeeps

\* A turn moves the trajectory's own environment only.
LEMMA PlayKeeps ==
  ASSUME IInv, NEW t \in Trajectories, NEW wellFormed \in BOOLEAN, Play(t, wellFormed)
  PROVE  IInv'
<1>1. /\ phase[t] = "playing"
      /\ steps' = [steps EXCEPT ![t] = @ + 1]
      /\ UNCHANGED <<manager, size, worker, phase, lease, free, waiting>>
      /\ \/ episode' = [episode EXCEPT ![lease[t]].moves = @ + 1]
         \/ episode' = episode
  BY DEF Play
<1>2. /\ lease[t] \in Envs /\ \A s \in Trajectories : lease[s] = lease[t] => s = t
  BY <1>1, PlayerFacts
<1>3. /\ steps' \in [Trajectories -> Nat] /\ steps'[t] = steps[t] + 1
      /\ \A s \in Trajectories : s # t => steps'[s] = steps[s]
      /\ steps[t] \in Nat
  BY <1>1 DEF IInv, LeaseTypes
<1>4. /\ episode[lease[t]].task \in Trajectories \union {0} /\ episode[lease[t]].moves \in Nat
      /\ \A x \in Envs : x # lease[t] => episode'[x] = episode[x]
      /\ episode'[lease[t]].task = episode[lease[t]].task
      /\ episode'[lease[t]].moves \in {episode[lease[t]].moves, episode[lease[t]].moves + 1}
      /\ episode' \in [Envs -> [task : Trajectories \union {0}, moves : Nat]]
  <2>1. episode \in [Envs -> [task : Trajectories \union {0}, moves : Nat]]
    BY DEF IInv, LeaseTypes
  <2>2. CASE episode' = [episode EXCEPT ![lease[t]].moves = @ + 1]
    BY <2>1, <2>2, <1>2
  <2>3. CASE episode' = episode
    BY <2>1, <2>3, <1>2
  <2> QED
    BY <1>1, <2>2, <2>3
<1>5. \A v \in Workers : Chunk(v)' = Chunk(v)
  BY <1>1 DEF Chunk, Start, Stop, SplitSize
<1>6. ChunkCount(size)' = ChunkCount(size)
  BY <1>1 DEF ChunkCount, SplitSize
<1>7. LeaseTypes'
  BY <1>1, <1>3, <1>4 DEF IInv, LeaseTypes
<1>8. OnlyWorkersPlay'
  BY <1>1, <1>5, <1>6 DEF IInv, OnlyWorkersPlay
<1>9. QueuesHoldWaiters'
  BY <1>1, <1>5 DEF IInv, QueuesHoldWaiters
<1>10. PoolsAreLocal'
  BY <1>1, <1>5 DEF IInv, PoolsAreLocal
<1>11. LeasesAreExclusive'
  BY <1>1 DEF IInv, LeasesAreExclusive
<1>12. NoWaitWhileFree'
  BY <1>1 DEF IInv, NoWaitWhileFree
<1>13. PlaysOwnEpisode'
  <2> SUFFICES ASSUME NEW s \in Trajectories, phase[s] = "playing"
               PROVE  episode'[lease[s]].task = s /\ episode'[lease[s]].moves <= steps'[s]
    BY <1>1 DEF PlaysOwnEpisode
  <2>1. episode[lease[s]].task = s /\ episode[lease[s]].moves <= steps[s]
    BY DEF IInv, PlaysOwnEpisode
  <2>2. CASE s = t
    BY <2>1, <2>2, <1>3, <1>4
  <2>3. CASE s # t
    <3>1. lease[s] \in Envs /\ lease[s] # lease[t]
      BY <2>3, <1>2 DEF IInv, LeaseTypes, LeasesAreExclusive
    <3> QED
      BY <2>1, <2>3, <3>1, <1>3, <1>4
  <2> QED
    BY <2>2, <2>3
<1> QED
  BY <1>7, <1>8, <1>9, <1>10, <1>11, <1>12, <1>13 DEF IInv

\* The steps of workers and manager leave trajectories and pools alone.
LEMMA OthersKeep ==
  ASSUME IInv,
         UNCHANGED <<size, phase, steps, lease, free, waiting, episode>>,
         manager' \in {"idle", "generating", "failed"},
         worker' \in [Workers -> {"idle", "called", "running", "returned", "raised"}],
         OnlyWorkersPlay'
  PROVE  IInv'
<1>1. \A v \in Workers : Chunk(v)' = Chunk(v)
  BY DEF Chunk, Start, Stop, SplitSize
<1>2. LeaseTypes'
  BY DEF IInv, LeaseTypes
<1>3. QueuesHoldWaiters'
  BY <1>1 DEF IInv, QueuesHoldWaiters
<1>4. PoolsAreLocal'
  BY <1>1 DEF IInv, PoolsAreLocal
<1>5. LeasesAreExclusive'
  BY DEF IInv, LeasesAreExclusive
<1>6. NoWaitWhileFree'
  BY DEF IInv, NoWaitWhileFree
<1>7. PlaysOwnEpisode'
  BY DEF IInv, PlaysOwnEpisode
<1> QED
  BY <1>2, <1>3, <1>4, <1>5, <1>6, <1>7 DEF IInv

LEMMA WorkerEndsKeeps ==
  ASSUME IInv, NEW w \in Workers, WorkerReturns(w) \/ WorkerRaises(w)
  PROVE  IInv'
<1>1. /\ manager = "generating"
      /\ UNCHANGED <<manager, size, phase, steps, lease, free, waiting, episode>>
      /\ \/ worker' = [worker EXCEPT ![w] = "returned"] /\ \A t \in Chunk(w) : phase[t] = "ended"
         \/ worker' = [worker EXCEPT ![w] = "raised"]
  BY DEF WorkerReturns, WorkerRaises, pools
<1>2. /\ worker' \in [Workers -> {"idle", "called", "running", "returned", "raised"}]
      /\ \A v \in Workers : v # w => worker'[v] = worker[v]
      /\ worker'[w] = "raised" \/ \A t \in Chunk(w) : phase[t] = "ended"
  BY <1>1 DEF IInv, LeaseTypes
<1>3. OnlyWorkersPlay'
  <2>1. ASSUME NEW t \in Trajectories, phase[t] \in {"playing", "waiting"}
        PROVE  \E v \in Workers : t \in Chunk(v) /\ worker'[v] \in {"running", "raised"}
    <3>1. PICK v \in Workers : t \in Chunk(v) /\ worker[v] \in {"running", "raised"}
      BY <2>1 DEF IInv, OnlyWorkersPlay
    <3>2. CASE v = w
      BY <2>1, <3>1, <3>2, <1>2
    <3>3. CASE v # w
      BY <3>1, <3>3, <1>2
    <3> QED
      BY <3>2, <3>3
  <2>2. \A v \in Workers : Chunk(v)' = Chunk(v)
    BY <1>1 DEF Chunk, Start, Stop, SplitSize
  <2>3. ChunkCount(size)' = ChunkCount(size)
    BY <1>1 DEF ChunkCount, SplitSize
  <2> QED
    BY <1>1, <2>1, <2>2, <2>3 DEF IInv, OnlyWorkersPlay
<1>4. manager' \in {"idle", "generating", "failed"}
  BY <1>1
<1> QED
  BY <1>1, <1>2, <1>3, <1>4, OthersKeep

LEMMA ManagerEndsKeeps ==
  ASSUME IInv, ManagerReturns \/ ManagerFails
  PROVE  IInv'
<1>1. UNCHANGED <<size, phase, steps, lease, free, waiting, episode>>
  BY DEF ManagerReturns, ManagerFails, pools
<1>2. \A v \in Workers : Chunk(v)' = Chunk(v)
  BY <1>1 DEF Chunk, Start, Stop, SplitSize
<1>3. CASE ManagerReturns
  <2>1. /\ \A w \in Workers : worker[w] = "returned"
        /\ manager' = "idle" /\ worker' = [w \in Workers |-> "idle"]
    BY <1>3 DEF ManagerReturns
  <2>2. \A t \in Trajectories : phase[t] \notin {"playing", "waiting"}
    BY <2>1 DEF IInv, OnlyWorkersPlay
  <2>3. OnlyWorkersPlay'
    BY <1>1, <2>1, <2>2 DEF OnlyWorkersPlay
  <2>4. worker' \in [Workers -> {"idle", "called", "running", "returned", "raised"}]
    BY <2>1
  <2> QED
    BY <1>1, <2>1, <2>3, <2>4, OthersKeep
<1>4. CASE ManagerFails
  <2>1. manager = "generating" /\ manager' = "failed" /\ worker' = worker
    BY <1>4 DEF ManagerFails
  <2>2. OnlyWorkersPlay'
    BY <1>1, <1>2, <2>1 DEF IInv, OnlyWorkersPlay
  <2>3. worker' \in [Workers -> {"idle", "called", "running", "returned", "raised"}]
    BY <2>1 DEF IInv, LeaseTypes
  <2> QED
    BY <1>1, <2>1, <2>2, <2>3, OthersKeep
<1> QED
  BY <1>3, <1>4

LEMMA IInvNext == IInv /\ [Next]_vars => IInv'
<1> SUFFICES ASSUME IInv, [Next]_vars PROVE IInv'
  OBVIOUS
<1>1. CASE \E n \in BatchSizes : Generate(n)
  BY <1>1, GenerateKeeps
<1>2. CASE \E w \in Workers : StartWorker(w)
  BY <1>2, StartKeeps
<1>3. CASE \E w \in Workers : WorkerReturns(w) \/ WorkerRaises(w)
  BY <1>3, WorkerEndsKeeps
<1>4. ASSUME NEW t \in Trajectories, Raise(t)
      PROVE  IInv'
  <2>1. /\ manager = "generating" /\ phase[t] = "playing" /\ Release(t, "raised")
        /\ UNCHANGED <<manager, size, worker, steps>>
    BY <1>4 DEF Raise
  <2>2. steps' \in [Trajectories -> Nat] /\ \A s \in Trajectories : steps'[s] = steps[s]
    BY <2>1 DEF IInv, LeaseTypes
  <2> QED
    BY <2>1, <2>2, ReleaseKeeps
<1>5. ASSUME NEW t \in Trajectories, NEW wellFormed \in BOOLEAN, PlayLast(t, wellFormed)
      PROVE  IInv'
  <2>1. /\ manager = "generating" /\ phase[t] = "playing" /\ Release(t, "ended")
        /\ UNCHANGED <<manager, size, worker>>
        /\ steps' = [steps EXCEPT ![t] = @ + 1]
    BY <1>5 DEF PlayLast
  <2>2. steps' \in [Trajectories -> Nat] /\ \A s \in Trajectories : s # t => steps'[s] = steps[s]
    BY <2>1 DEF IInv, LeaseTypes
  <2> QED
    BY <2>1, <2>2, ReleaseKeeps
<1>6. CASE \E t \in Trajectories : Turn(t)
  BY <1>4, <1>5, <1>6, PlayKeeps DEF Turn
<1>7. CASE ManagerReturns \/ ManagerFails
  BY <1>7, ManagerEndsKeeps
<1>8. CASE UNCHANGED vars
  <2>1. UNCHANGED <<manager, size, worker, phase, steps, lease, free, waiting, episode>>
    BY <1>8 DEF vars, pools
  <2>2. OnlyWorkersPlay'
    BY <2>1 DEF IInv, OnlyWorkersPlay, Chunk, Start, Stop, SplitSize, ChunkCount
  <2>3. /\ manager' \in {"idle", "generating", "failed"}
        /\ worker' \in [Workers -> {"idle", "called", "running", "returned", "raised"}]
    BY <2>1 DEF IInv, LeaseTypes
  <2> QED
    BY <2>1, <2>2, <2>3, OthersKeep
<1> QED
  BY <1>1, <1>2, <1>3, <1>6, <1>7, <1>8 DEF Next, Failed

LEMMA IInvAlways == Spec => []IInv
  BY IInvInit, IInvNext, PTL DEF Spec

-----------------------------------------------------------------------------
(***************************************************************************)
(* Theorems                                                                *)
(***************************************************************************)
\* However many trajectories share a pool, raise or wait, an environment is leased
\* by one of them or free (ScienceWorldEnvPool.acquire and release).
THEOREM ExclusiveLeases == Spec => []LeasesAreExclusive
<1>1. IInv => LeasesAreExclusive
  BY DEF IInv
<1> QED
  BY <1>1, IInvAlways, PTL

\* A released environment never idles while a trajectory waits for one.
THEOREM NobodyWaitsInVain == Spec => []NoWaitWhileFree
<1>1. IInv => NoWaitWhileFree
  BY DEF IInv
<1> QED
  BY <1>1, IInvAlways, PTL

\* A trajectory sees the episode of its own task and no move but its own
\* (ScienceWorldAgentFlow.run resets what it has leased).
THEOREM OwnEpisodes == Spec => []PlaysOwnEpisode
<1>1. IInv => PlaysOwnEpisode
  BY DEF IInv
<1> QED
  BY <1>1, IInvAlways, PTL

\* The servers sleep whenever the manager is idle.
SleepsWhenIdle == manager = "idle" => ~awake

LEMMA SleepsAlways == Spec => []SleepsWhenIdle
<1>1. Init => SleepsWhenIdle
  BY DEF Init, SleepsWhenIdle
<1>2. SleepsWhenIdle /\ [Next]_vars => SleepsWhenIdle'
  BY DEF SleepsWhenIdle, Next, vars, Generate, StartWorker, WorkerReturns, WorkerRaises, Turn, Play,
         PlayLast, Raise, ManagerReturns, ManagerFails, Failed
<1> QED
  BY <1>1, <1>2, PTL DEF Spec

\* When generate_sequences has returned, the servers sleep, no trajectory runs and
\* every environment is back in its pool.
THEOREM QuietAfterBatch == Spec => []QuietBetweenBatches
<1>1. IInv /\ SleepsWhenIdle => QuietBetweenBatches
  <2> SUFFICES ASSUME IInv, SleepsWhenIdle, manager = "idle" PROVE QuietBetweenBatches
    BY DEF QuietBetweenBatches
  <2>1. \A t \in Trajectories : phase[t] \notin {"playing", "waiting"} /\ lease[t] = NoEnv
    BY NobodyPlaysWhenIdle
  <2>2. \A w \in Workers : waiting[w] = <<>>
    BY NobodyPlaysWhenIdle
  <2>3. ASSUME NEW e \in Envs
        PROVE  \E j \in DOMAIN free[e[1]] : free[e[1]][j] = e
    <3>1. e[1] \in Workers /\ ~ \E t \in Trajectories : lease[t] = e
      BY <2>1, NoEnvApart DEF Envs
    <3> QED
      BY <3>1 DEF IInv, LeasesAreExclusive
  <2> QED
    BY <2>1, <2>2, <2>3 DEF QuietBetweenBatches, SleepsWhenIdle
<1> QED
  BY <1>1, IInvAlways, SleepsAlways, PTL

-----------------------------------------------------------------------------
(***************************************************************************)
(* Flattening.                                                             *)
(***************************************************************************)
\* P[i] is where the i-th of the sequences of s ends in FlattenSeq(s).
Cuts(P, s) ==
  /\ P \in [0..Len(s) -> Nat]
  /\ P[0] = 0
  /\ \A i \in 1..Len(s) : P[i] = P[i - 1] + Len(s[i])

\* k is a place in the i-th of them.
In(s, i, k) == i \in 1..Len(s) /\ k \in 1..Len(s[i])

\* The flattened sequence: every element at its place, and nothing else.
Flattened(F, P, s) ==
  /\ DOMAIN F = 1..P[Len(s)] /\ Len(F) = P[Len(s)]
  /\ \A i, k : In(s, i, k) => P[i - 1] + k \in DOMAIN F /\ F[P[i - 1] + k] = s[i][k]
  /\ \A q \in DOMAIN F : \E i, k : In(s, i, k) /\ q = P[i - 1] + k

LEMMA FunctionIsSeq ==
  ASSUME NEW T, NEW n \in Nat, NEW f \in [1..n -> T]
  PROVE  f \in Seq(T) /\ Len(f) = n /\ DOMAIN f = 1..n
  OBVIOUS

LEMMA CutFacts ==
  ASSUME NEW T, NEW s \in Seq(Seq(T)), NEW P, Cuts(P, s), NEW i \in 1..Len(s)
  PROVE  /\ i - 1 \in 0..Len(s) /\ i \in 0..Len(s)
         /\ s[i] \in Seq(T) /\ Len(s[i]) \in Nat
         /\ P[i - 1] \in Nat /\ P[i] \in Nat
         /\ P[i] = P[i - 1] + Len(s[i]) /\ P[0] = 0
<1>1. Len(s) \in Nat /\ i - 1 \in 0..Len(s) /\ i \in 0..Len(s)
  OBVIOUS
<1>2. s[i] \in Seq(T)
  BY ElementOfSeq
<1>3. P[i - 1] \in Nat /\ P[i] \in Nat /\ P[i] = P[i - 1] + Len(s[i]) /\ P[0] = 0
  BY <1>1 DEF Cuts
<1> QED
  BY <1>1, <1>2, <1>3

LEMMA CutsGrow ==
  ASSUME NEW T, NEW s \in Seq(Seq(T)), NEW P, Cuts(P, s),
         NEW i \in 0..Len(s), NEW j \in 0..Len(s), i <= j
  PROVE  P[i] <= P[j]
<1> DEFINE n == Len(s)
           A == {l \in i..n : P[i] <= P[l]}
<1>1. n \in Nat /\ P \in [0..n -> Nat]
  BY DEF Cuts
<1>2. ASSUME NEW l \in 1..n PROVE s[l] \in Seq(T) /\ Len(s[l]) \in Nat /\ P[l] = P[l - 1] + Len(s[l])
  BY DEF Cuts
<1>3. i \in A
  BY <1>1
<1>4. ASSUME NEW l \in i..n, l # n, l \in A PROVE l + 1 \in A
  <2>1. l + 1 \in 1..n /\ (l + 1) - 1 = l /\ l \in 0..n
    BY <1>1, <1>4
  <2>2. P[l + 1] = P[l] + Len(s[l + 1]) /\ Len(s[l + 1]) \in Nat
    BY <2>1, <1>2
  <2>3. P[i] \in Nat /\ P[l] \in Nat
    BY <2>1, <1>1
  <2> QED
    BY <1>4, <2>1, <2>2, <2>3
<1> HIDE DEF A, n
<1>5. i \in Int /\ n \in Int /\ i <= n
  BY <1>1 DEF n
<1>6. Span(i, n) \subseteq A
  BY <1>3, <1>4, <1>5, UpwardInduction DEF Span
<1>7. j \in i..n
  BY DEF n
<1> QED
  BY <1>6, <1>7 DEF Span, A

\* A place of the flattened sequence belongs to one of them only.
LEMMA PlacesApart ==
  ASSUME NEW T, NEW s \in Seq(Seq(T)), NEW P, Cuts(P, s),
         NEW i, NEW k, In(s, i, k), NEW j, NEW l, In(s, j, l),
         P[i - 1] + k = P[j - 1] + l
  PROVE  i = j /\ k = l
<1>1. ASSUME NEW a, NEW b, In(s, a, b)
      PROVE  /\ a \in 1..Len(s) /\ a - 1 \in 0..Len(s) /\ a \in 0..Len(s)
             /\ P[a - 1] \in Nat /\ P[a] \in Nat /\ b \in Nat \ {0} /\ P[a - 1] + b <= P[a]
  <2>1. a \in 1..Len(s) /\ b \in 1..Len(s[a]) /\ Len(s) \in Nat /\ s[a] \in Seq(T)
    BY <1>1 DEF In
  <2>2. a - 1 \in 0..Len(s) /\ a \in 0..Len(s)
    BY <2>1
  <2>3. P[a] = P[a - 1] + Len(s[a]) /\ P[a - 1] \in Nat /\ P[a] \in Nat
    BY <2>1, <2>2 DEF Cuts
  <2> QED
    BY <2>1, <2>2, <2>3
<1>2. ASSUME NEW a, NEW b, In(s, a, b), NEW c, NEW d, In(s, c, d), a < c
      PROVE  P[a - 1] + b < P[c - 1] + d
  <2>1. a \in 0..Len(s) /\ c - 1 \in 0..Len(s) /\ a <= c - 1
    BY <1>1, <1>2
  <2>2. P[a] <= P[c - 1]
    BY <2>1, CutsGrow
  <2>3. P[a - 1] \in Nat /\ P[a] \in Nat /\ b \in Nat /\ P[a - 1] + b <= P[a]
    BY <1>1, <1>2
  <2>4. P[c - 1] \in Nat /\ d \in Nat \ {0}
    BY <1>1, <1>2
  <2> QED
    BY <2>2, <2>3, <2>4
<1>3. i \in Int /\ j \in Int /\ P[i - 1] \in Nat /\ P[j - 1] \in Nat /\ k \in Nat /\ l \in Nat
  BY <1>1
<1>4. i = j
  <2>1. ASSUME i < j PROVE P[i - 1] + k < P[j - 1] + l
    BY <1>2, <2>1
  <2>2. ASSUME j < i PROVE P[j - 1] + l < P[i - 1] + k
    BY <1>2, <2>2
  <2> QED
    BY <1>3, <2>1, <2>2
<1> QED
  BY <1>3, <1>4

\* Every place of the flattened sequence belongs to one of them.
LEMMA PlacesCover ==
  ASSUME NEW T, NEW s \in Seq(Seq(T)), NEW P, Cuts(P, s), NEW m \in 0..Len(s)
  PROVE  \A q \in 1..P[m] : \E i, k : In(s, i, k) /\ i <= m /\ q = P[i - 1] + k
<1> DEFINE n == Len(s)
           A == {l \in 0..n : \A q \in 1..P[l] : \E i, k : In(s, i, k) /\ i <= l /\ q = P[i - 1] + k}
<1>1. n \in Nat /\ P \in [0..n -> Nat] /\ P[0] = 0
  BY DEF Cuts
<1>2. 0 \in A
  BY <1>1
<1>3. ASSUME NEW l \in 0..n, l # n, l \in A PROVE l + 1 \in A
  <2>1. l + 1 \in 1..n /\ (l + 1) - 1 = l /\ s[l + 1] \in Seq(T)
    BY <1>1, <1>3
  <2>2. P[l + 1] = P[l] + Len(s[l + 1]) /\ Len(s[l + 1]) \in Nat /\ P[l] \in Nat
    <3>1. P[l + 1] = P[(l + 1) - 1] + Len(s[l + 1]) /\ Len(s[l + 1]) \in Nat /\ P[(l + 1) - 1] \in Nat
      BY <2>1, CutFacts
    <3> QED
      BY <2>1, <3>1
  <2>3. ASSUME NEW q \in 1..P[l + 1]
        PROVE  \E i, k : In(s, i, k) /\ i <= l + 1 /\ q = P[i - 1] + k
    <3>1. CASE q <= P[l]
      <4>1. PICK i, k : In(s, i, k) /\ i <= l /\ q = P[i - 1] + k
        BY <3>1, <1>3, <2>2
      <4>2. i <= l + 1
        BY <4>1, <1>1 DEF In
      <4> QED
        BY <4>1, <4>2
    <3>2. CASE q > P[l]
      <4>1. q - P[l] \in 1..Len(s[l + 1]) /\ q = P[l] + (q - P[l])
        BY <3>2, <2>2
      <4>2. In(s, l + 1, q - P[l]) /\ l + 1 <= l + 1
        BY <4>1, <2>1 DEF In
      <4> QED
        BY <4>1, <4>2, <2>1
    <3> QED
      BY <3>1, <3>2, <2>2
  <2> QED
    BY <2>1, <2>3
<1>4. Span(0, n) \subseteq A
  <2>1. n \in Int /\ 0 <= n
    BY <1>1
  <2> HIDE DEF A, n
  <2>2. \A l \in Span(0, n) : l # n /\ l \in A => l + 1 \in A
    BY <1>3 DEF Span
  <2> QED
    BY <1>2, <2>1, <2>2, UpwardInduction
<1> QED
  BY <1>4 DEF Span

\* The element at a place of the flattened sequence, and its first sequences.
At(P, s, q) == CHOOSE x : \E i, k : In(s, i, k) /\ q = P[i - 1] + k /\ x = s[i][k]
Filled(P, s, i) == [q \in 1..P[i] |-> At(P, s, q)]

LEMMA AtIs ==
  ASSUME NEW T, NEW s \in Seq(Seq(T)), NEW P, Cuts(P, s), NEW i, NEW k, In(s, i, k)
  PROVE  At(P, s, P[i - 1] + k) = s[i][k] /\ s[i][k] \in T
<1>1. \A j, l : In(s, j, l) /\ P[i - 1] + k = P[j - 1] + l => s[j][l] = s[i][k]
  BY PlacesApart
<1>2. s[i][k] \in T
  BY DEF In
<1> QED
  BY <1>1, <1>2 DEF At

LEMMA FilledType ==
  ASSUME NEW T, NEW s \in Seq(Seq(T)), NEW P, Cuts(P, s), NEW i \in 0..Len(s)
  PROVE  /\ Filled(P, s, i) \in Seq(T) /\ Len(Filled(P, s, i)) = P[i]
         /\ \A q \in 1..P[i] : Filled(P, s, i)[q] = At(P, s, q)
<1>1. P[i] \in Nat
  BY DEF Cuts
<1>2. ASSUME NEW q \in 1..P[i] PROVE At(P, s, q) \in T
  <2>1. PICK j, k : In(s, j, k) /\ q = P[j - 1] + k
    BY PlacesCover
  <2> QED
    BY <2>1, AtIs
<1>3. Filled(P, s, i) \in [1..P[i] -> T]
  BY <1>2 DEF Filled
<1>4. \A q \in 1..P[i] : Filled(P, s, i)[q] = At(P, s, q)
  BY DEF Filled
<1>5. Filled(P, s, i) \in Seq(T) /\ Len(Filled(P, s, i)) = P[i]
  <2>1. PICK m \in Nat : m = P[i]
    BY <1>1
  <2> DEFINE G == Filled(P, s, i)
  <2>2. G \in [1..m -> T]
    BY <1>3, <2>1
  <2> HIDE DEF G
  <2>3. G \in Seq(T) /\ Len(G) = m
    BY <2>2
  <2> QED
    BY <2>1, <2>3 DEF G
<1> QED
  BY <1>4, <1>5

LEMMA FilledGrows ==
  ASSUME NEW T, NEW s \in Seq(Seq(T)), NEW P, Cuts(P, s), NEW i \in 1..Len(s)
  PROVE  Filled(P, s, i) = IF i = 1 THEN s[i] ELSE Filled(P, s, i - 1) \o s[i]
<1>1. /\ i - 1 \in 0..Len(s) /\ i \in 0..Len(s) /\ s[i] \in Seq(T) /\ Len(s[i]) \in Nat
      /\ P[i] = P[i - 1] + Len(s[i]) /\ P[i - 1] \in Nat /\ P[i] \in Nat /\ P[0] = 0
  BY CutFacts
<1> DEFINE G == Filled(P, s, i)
           H == Filled(P, s, i - 1)
<1>2. G \in Seq(T) /\ Len(G) = P[i] /\ \A q \in 1..P[i] : G[q] = At(P, s, q)
  BY <1>1, FilledType
<1>3. H \in Seq(T) /\ Len(H) = P[i - 1] /\ \A q \in 1..P[i - 1] : H[q] = At(P, s, q)
  BY <1>1, FilledType
<1>4. \A k \in 1..Len(s[i]) : At(P, s, P[i - 1] + k) = s[i][k]
  <2>1. \A k \in 1..Len(s[i]) : In(s, i, k)
    BY DEF In
  <2> QED
    BY <2>1, AtIs
<1> HIDE DEF G, H
<1>5. CASE i = 1
  <2>1. P[i - 1] = 0
    BY <1>1, <1>5
  <2>2. Len(G) = Len(s[i])
    BY <1>1, <1>2, <2>1
  <2>3. \A k \in 1..Len(G) : G[k] = s[i][k]
    <3> SUFFICES ASSUME NEW k \in 1..Len(s[i]) PROVE G[k] = s[i][k]
      BY <2>2
    <3>1. P[i - 1] + k = k
      BY <2>1
    <3> QED
      BY <3>1, <1>2, <1>4, <2>2
  <2>4. G = s[i]
    BY <1>1, <1>2, <2>2, <2>3, SeqEqual
  <2> QED
    BY <2>4, <1>5 DEF G
<1>6. CASE i # 1
  <2>1. H \o s[i] \in Seq(T) /\ Len(H \o s[i]) = P[i - 1] + Len(s[i])
        /\ \A q \in 1..P[i - 1] + Len(s[i]) :
             (H \o s[i])[q] = IF q <= P[i - 1] THEN H[q] ELSE s[i][q - P[i - 1]]
    <3>1. /\ H \o s[i] \in Seq(T) /\ Len(H \o s[i]) = Len(H) + Len(s[i])
          /\ \A q \in 1..Len(H) + Len(s[i]) :
               (H \o s[i])[q] = IF q <= Len(H) THEN H[q] ELSE s[i][q - Len(H)]
      BY <1>1, <1>3, ConcatProperties
    <3> QED
      BY <3>1, <1>3
  <2>2. ASSUME NEW q \in 1..P[i] PROVE G[q] = (H \o s[i])[q]
    <3>1. CASE q <= P[i - 1]
      BY <3>1, <2>1, <1>1, <1>2, <1>3
    <3>2. CASE q > P[i - 1]
      <4>1. q - P[i - 1] \in 1..Len(s[i]) /\ P[i - 1] + (q - P[i - 1]) = q
        BY <3>2, <1>1
      <4>2. At(P, s, q) = s[i][q - P[i - 1]]
        BY <4>1, <1>4
      <4>3. (H \o s[i])[q] = s[i][q - P[i - 1]]
        <5>1. q \in 1..P[i - 1] + Len(s[i]) /\ ~ q <= P[i - 1]
          BY <3>2, <1>1
        <5> QED
          BY <5>1, <2>1
      <4> QED
        BY <4>2, <4>3, <1>2
    <3>3. q <= P[i - 1] \/ q > P[i - 1]
      BY <1>1
    <3> QED
      BY <3>1, <3>2, <3>3
  <2>3. G = H \o s[i]
    BY <2>1, <2>2, <1>1, <1>2, SeqEqual
  <2> QED
    BY <2>3, <1>6 DEF G, H
<1> QED
  BY <1>5, <1>6

LEMMA FlattenIs ==
  ASSUME NEW T, NEW s \in Seq(Seq(T)), s # <<>>, NEW P, Cuts(P, s)
  PROVE  FlattenSeq(s) \in Seq(T) /\ Flattened(FlattenSeq(s), P, s)
<1> DEFINE n == Len(s)
           Rec(f) == f = [i \in 1..n |-> IF i = 1 THEN s[i] ELSE f[i - 1] \o s[i]]
           full == [i \in 1..n |-> Filled(P, s, i)]
           fl == CHOOSE f : Rec(f)
<1>1. n \in Nat \ {0}
  OBVIOUS
<1>2. FlattenSeq(s) = fl[n]
  BY <1>1 DEF FlattenSeq
<1>3. Rec(full)
  <2>1. ASSUME NEW i \in 1..n PROVE full[i] = IF i = 1 THEN s[i] ELSE full[i - 1] \o s[i]
    <3>1. i # 1 => i - 1 \in 1..n
      BY <1>1
    <3>2. full[i] = Filled(P, s, i) /\ (i # 1 => full[i - 1] = Filled(P, s, i - 1))
      BY <3>1
    <3>3. Filled(P, s, i) = IF i = 1 THEN s[i] ELSE Filled(P, s, i - 1) \o s[i]
      BY FilledGrows
    <3> QED
      BY <3>2, <3>3
  <2> QED
    BY <2>1
<1>4. Rec(fl)
  BY <1>3
<1> DEFINE A == {i \in 1..n : fl[i] = Filled(P, s, i)}
<1>5. ASSUME NEW i \in 1..n PROVE fl[i] = IF i = 1 THEN s[i] ELSE fl[i - 1] \o s[i]
  BY <1>4
<1> HIDE DEF fl, n
<1>6. 1 \in A
  <2>1. 1 \in 1..n
    BY <1>1
  <2>2. fl[1] = s[1]
    BY <2>1, <1>5
  <2>3. Filled(P, s, 1) = s[1]
    <3>1. 1 \in 1..Len(s)
      BY <2>1 DEF n
    <3>2. Filled(P, s, 1) = IF 1 = 1 THEN s[1] ELSE Filled(P, s, 1 - 1) \o s[1]
      BY <3>1, FilledGrows
    <3> QED
      BY <3>2
  <2> QED
    BY <2>1, <2>2, <2>3
<1>7. ASSUME NEW i \in 1..n, i # n, i \in A PROVE i + 1 \in A
  <2>1. i + 1 \in 1..n /\ i + 1 # 1 /\ (i + 1) - 1 = i
    BY <1>1, <1>7
  <2>2. fl[i + 1] = fl[i] \o s[i + 1]
    BY <2>1, <1>5
  <2>3. Filled(P, s, i + 1) = Filled(P, s, i) \o s[i + 1]
    BY <2>1, FilledGrows DEF n
  <2> QED
    BY <1>7, <2>1, <2>2, <2>3
<1>8. Span(1, n) \subseteq A
  <2>1. 1 \in Int /\ n \in Int /\ 1 <= n
    BY <1>1
  <2> HIDE DEF A
  <2>2. \A l \in Span(1, n) : l # n /\ l \in A => l + 1 \in A
    BY <1>7 DEF Span
  <2> QED
    BY <1>6, <2>1, <2>2, UpwardInduction
<1>9. FlattenSeq(s) = Filled(P, s, n)
  BY <1>1, <1>2, <1>8 DEF Span
<1> HIDE DEF A
<1>10. n \in 0..Len(s) /\ P[n] \in Nat
  <2>1. n \in 1..Len(s)
    BY <1>1 DEF n
  <2> QED
    BY <2>1, CutFacts
<1>11. /\ FlattenSeq(s) \in Seq(T) /\ Len(FlattenSeq(s)) = P[n]
       /\ \A q \in 1..P[n] : FlattenSeq(s)[q] = At(P, s, q)
  BY <1>9, <1>10, FilledType
<1>12. DOMAIN FlattenSeq(s) = 1..P[n]
  BY <1>11
<1>13. ASSUME NEW i, NEW k, In(s, i, k)
       PROVE  P[i - 1] + k \in 1..P[n] /\ FlattenSeq(s)[P[i - 1] + k] = s[i][k]
  <2>1. i \in 1..Len(s) /\ k \in 1..Len(s[i]) /\ i \in 0..Len(s) /\ i - 1 \in 0..Len(s) /\ i <= n
    BY <1>1, <1>13 DEF In, n
  <2>2. P[i] = P[i - 1] + Len(s[i]) /\ P[i - 1] \in Nat /\ P[i] \in Nat /\ Len(s[i]) \in Nat
    BY <2>1, CutFacts
  <2>3. P[i] <= P[n]
    BY <2>1, <1>10, CutsGrow
  <2>4. P[i - 1] + k \in 1..P[n]
    BY <2>1, <2>2, <2>3, <1>10
  <2>5. At(P, s, P[i - 1] + k) = s[i][k]
    BY <1>13, AtIs
  <2> QED
    BY <2>4, <2>5, <1>11
<1>14. \A q \in 1..P[n] : \E i, k : In(s, i, k) /\ q = P[i - 1] + k
  BY <1>10, PlacesCover
<1> QED
  BY <1>11, <1>12, <1>13, <1>14 DEF Flattened, n

-----------------------------------------------------------------------------
(***************************************************************************)
(* The rows that are returned.                                             *)
(***************************************************************************)
\* A trajectory that plays has a turn left, one that has ended took at least one.
StepsBounded ==
  \A t \in Trajectories :
    /\ phase[t] \in {"none", "waiting"} => steps[t] = 0
    /\ phase[t] \in {"playing", "raised"} => steps[t] < MaxSteps
    /\ phase[t] = "ended" => steps[t] \in 1..MaxSteps

\* A worker has not touched its chunk before it starts, and is done with it when it
\* returns.
WorkersInStep ==
  \A w \in Workers : \A t \in Chunk(w) :
    /\ worker[w] = "called" => phase[t] = "none"
    /\ worker[w] = "returned" => phase[t] = "ended"

EpisodesBounded == \A e \in Envs : episode[e].moves \in 0..MaxSteps

ReturnedTypes ==
  /\ awake \in BOOLEAN
  /\ output \in Seq(Trajectories \X (1..MaxSteps))
  /\ numSteps \in Seq(1..MaxSteps)

TurnsInv ==
  /\ IInv
  /\ StepsBounded
  /\ WorkersInStep
  /\ EpisodesBounded

LEMMA TurnsInit == Init => TurnsInv
<1> SUFFICES ASSUME Init PROVE TurnsInv
  OBVIOUS
<1>1. /\ steps = [t \in Trajectories |-> 0]
      /\ phase = [t \in Trajectories |-> "none"]
      /\ worker = [w \in Workers |-> "idle"]
      /\ episode = [e \in Envs |-> [task |-> 0, moves |-> 0]]
  BY DEF Init, Unplayed
<1>2. StepsBounded
  BY <1>1 DEF StepsBounded
<1>3. WorkersInStep
  BY <1>1 DEF WorkersInStep
<1>4. EpisodesBounded
  BY <1>1, RolloutAssumption DEF EpisodesBounded
<1> QED
  BY <1>2, <1>3, <1>4, IInvInit DEF TurnsInv

\* The chunks depend on the size of the batch only.
LEMMA SameChunks ==
  ASSUME size' = size, NEW w \in Workers
  PROVE  Chunk(w)' = Chunk(w)
  BY DEF Chunk, Start, Stop, SplitSize

\* When trajectories change their phase, they were playing or waiting: their worker
\* has started and has not returned.
LEMMA StepsStay ==
  ASSUME TurnsInv, size' = size, worker' = worker,
         \A s \in Trajectories : phase'[s] # phase[s] => phase[s] \in {"playing", "waiting"},
         manager = "generating"
  PROVE  WorkersInStep'
<1> SUFFICES ASSUME NEW w \in Workers, NEW s \in Chunk(w)
             PROVE  /\ worker[w] = "called" => phase'[s] = "none"
                    /\ worker[w] = "returned" => phase'[s] = "ended"
  BY SameChunks DEF WorkersInStep
<1>1. s \in Trajectories
  BY ChunkInTrajectories DEF TurnsInv, IInv, LeaseTypes, OnlyWorkersPlay
<1>2. /\ worker[w] = "called" => phase[s] = "none"
      /\ worker[w] = "returned" => phase[s] = "ended"
  BY DEF TurnsInv, WorkersInStep
<1> QED
  BY <1>1, <1>2

LEMMA ReleaseTurns ==
  ASSUME TurnsInv, manager = "generating", NEW t \in Trajectories, phase[t] = "playing",
         NEW next \in {"ended", "raised"}, Release(t, next),
         UNCHANGED <<manager, size, worker>>, steps' \in [Trajectories -> Nat],
         \A s \in Trajectories : s # t => steps'[s] = steps[s],
         next = "ended" => steps'[t] \in 1..MaxSteps,
         next = "raised" => steps'[t] < MaxSteps
  PROVE  StepsBounded' /\ WorkersInStep' /\ EpisodesBounded'
<1> DEFINE w == WorkerOf(t)
           e == lease[t]
           h == Head(waiting[w])
<1>1. w \in Workers /\ e \in Envs
  BY PlayerFacts DEF TurnsInv
<1>2. /\ phase \in [Trajectories -> {"none", "waiting", "playing", "ended", "raised"}]
      /\ episode \in [Envs -> [task : Trajectories \union {0}, moves : Nat]]
      /\ waiting[w] \in Seq(Trajectories)
  BY <1>1 DEF TurnsInv, IInv, LeaseTypes
<1>3. MaxSteps \in Nat \ {0}
  BY RolloutAssumption
<1>4. CASE waiting[w] = <<>>
  <2>1. /\ phase' = [phase EXCEPT ![t] = next]
        /\ episode' = episode
    BY <1>4 DEF Release
  <2>2. StepsBounded'
    BY <2>1, <1>2 DEF TurnsInv, StepsBounded
  <2>3. \A s \in Trajectories : phase'[s] # phase[s] => phase[s] \in {"playing", "waiting"}
    BY <2>1, <1>2
  <2>4. WorkersInStep'
    BY <2>3, StepsStay
  <2>5. EpisodesBounded'
    BY <2>1 DEF TurnsInv, EpisodesBounded
  <2> QED
    BY <2>2, <2>4, <2>5
<1>5. CASE waiting[w] # <<>>
  <2>1. /\ phase' = [phase EXCEPT ![t] = next, ![h] = "playing"]
        /\ episode' = [episode EXCEPT ![e] = Reset(h)]
    BY <1>5 DEF Release
  <2>2. 1 \in DOMAIN waiting[w] /\ h = waiting[w][1] /\ h \in Trajectories
    BY <1>2, <1>5
  <2>3. phase[h] = "waiting"
    BY <2>2, <1>1 DEF TurnsInv, IInv, QueuesHoldWaiters
  <2> HIDE DEF w, e, h
  <2>4. /\ h # t /\ phase'[h] = "playing" /\ phase'[t] = next
        /\ \A s \in Trajectories : s # t /\ s # h => phase'[s] = phase[s]
    BY <2>1, <2>2, <2>3, <1>2
  <2>5. steps[h] = 0
    BY <2>2, <2>3 DEF TurnsInv, StepsBounded
  <2>6. StepsBounded'
    <3> SUFFICES ASSUME NEW s \in Trajectories
                 PROVE  /\ phase'[s] \in {"none", "waiting"} => steps'[s] = 0
                        /\ phase'[s] \in {"playing", "raised"} => steps'[s] < MaxSteps
                        /\ phase'[s] = "ended" => steps'[s] \in 1..MaxSteps
      BY DEF StepsBounded
    <3>1. CASE s = t
      BY <3>1, <2>4
    <3>2. CASE s = h
      BY <3>2, <2>2, <2>4, <2>5, <1>3
    <3>3. CASE s # t /\ s # h
      BY <3>3, <2>4 DEF TurnsInv, StepsBounded
    <3> QED
      BY <3>1, <3>2, <3>3
  <2>7. \A s \in Trajectories : phase'[s] # phase[s] => phase[s] \in {"playing", "waiting"}
    BY <2>3, <2>4
  <2>8. WorkersInStep'
    BY <2>7, StepsStay
  <2>9. EpisodesBounded'
    <3> SUFFICES ASSUME NEW x \in Envs PROVE episode'[x].moves \in 0..MaxSteps
      BY DEF EpisodesBounded
    <3>1. x = e => episode'[x].moves = 0
      BY <2>1, <1>1, <1>2 DEF Reset
    <3>2. x # e => episode'[x] = episode[x]
      BY <2>1, <1>2
    <3> QED
      BY <3>1, <3>2, <1>3 DEF TurnsInv, EpisodesBounded
  <2> QED
    BY <2>6, <2>8, <2>9
<1> QED
  BY <1>4, <1>5

LEMMA GenerateTurns ==
  ASSUME TurnsInv, NEW n \in BatchSizes, Generate(n)
  PROVE  StepsBounded' /\ WorkersInStep' /\ EpisodesBounded'
<1>1. /\ phase' = [t \in Trajectories |-> "none"] /\ steps' = [t \in Trajectories |-> 0]
      /\ worker' \in [Workers -> {"called", "idle"}] /\ size' = n /\ episode' = episode
  BY DEF Generate, Unplayed, pools
<1>2. StepsBounded'
  BY <1>1 DEF StepsBounded
<1>3. WorkersInStep'
  <2> SUFFICES ASSUME NEW w \in Workers, NEW t \in Chunk(w)'
               PROVE  worker'[w] # "returned" /\ phase'[t] = "none"
    BY DEF WorkersInStep
  <2>1. Chunk(w)' \subseteq Trajectories
    <3>1. size' \in Nat \ {0} /\ size' \in BatchSizes
      BY <1>1, RolloutAssumption
    <3>2. Chunk(w)' \subseteq 1..size'
      <4> DEFINE S == SplitSize(size')
      <4>1. S \in Nat \ {0} /\ w \in Nat \ {0}
        BY <3>1, SplitIsPositive DEF Workers
      <4>2. Start(w)' = (w - 1) * S /\ Stop(w)' = IF w * S < size' THEN w * S ELSE size'
        BY DEF Start, Stop, SplitSize
      <4> HIDE DEF S
      <4>3. (w - 1) * S \in Nat /\ w * S \in Nat
        BY <4>1
      <4>4. Chunk(w)' = Start(w)' + 1..Stop(w)'
        BY DEF Chunk
      <4> QED
        BY <3>1, <4>2, <4>3, <4>4
    <3> QED
      BY <3>1, <3>2 DEF Trajectories
  <2> QED
    BY <1>1, <2>1
<1>4. EpisodesBounded'
  BY <1>1 DEF TurnsInv, EpisodesBounded
<1> QED
  BY <1>2, <1>3, <1>4

LEMMA StartTurns ==
  ASSUME TurnsInv, NEW w \in Workers, StartWorker(w)
  PROVE  StepsBounded' /\ WorkersInStep' /\ EpisodesBounded'
<1>1. /\ manager = "generating" /\ worker[w] = "called"
      /\ worker' = [worker EXCEPT ![w] = "running"]
      /\ UNCHANGED <<size, steps>>
      /\ worker \in [Workers -> {"idle", "called", "running", "returned", "raised"}]
  BY DEF StartWorker, TurnsInv, IInv, LeaseTypes
<1>2. size \in Nat \ {0} /\ Chunk(w) \subseteq Trajectories
  BY <1>1, RolloutAssumption, ChunkInTrajectories DEF TurnsInv, IInv, LeaseTypes, OnlyWorkersPlay
<1>3. /\ \A t \in Trajectories : t \notin Chunk(w) => phase'[t] = phase[t]
      /\ \A t \in Chunk(w) : phase'[t] \in {"playing", "waiting"}
  <2>1. phase' = [t \in Trajectories |->
                    IF t \in {u \in Chunk(w) : u <= Start(w) + Len(free[w])} THEN "playing"
                    ELSE IF t \in {u \in Chunk(w) : u > Start(w) + Len(free[w])} THEN "waiting"
                    ELSE phase[t]]
    BY DEF StartWorker
  <2>2. free[w] \in Seq(Envs)
    BY DEF TurnsInv, IInv, LeaseTypes
  <2>3. \A t \in Chunk(w) : t <= Start(w) + Len(free[w]) \/ t > Start(w) + Len(free[w])
    BY <1>2, <2>2, SliceBounds
  <2> QED
    BY <1>2, <2>1, <2>3
<1>4. StepsBounded'
  <2> SUFFICES ASSUME NEW t \in Trajectories, t \in Chunk(w)
               PROVE  phase'[t] \in {"playing", "waiting"} /\ steps[t] = 0 /\ steps[t] < MaxSteps
    BY <1>1, <1>3 DEF TurnsInv, StepsBounded
  <2>1. phase[t] = "none"
    BY <1>1 DEF TurnsInv, WorkersInStep
  <2>2. steps[t] = 0
    BY <2>1 DEF TurnsInv, StepsBounded
  <2> QED
    BY <2>2, <1>3, RolloutAssumption
<1>5. WorkersInStep'
  <2> SUFFICES ASSUME NEW v \in Workers, NEW t \in Chunk(v)
               PROVE  /\ worker'[v] = "called" => phase'[t] = "none"
                      /\ worker'[v] = "returned" => phase'[t] = "ended"
    BY <1>1, SameChunks DEF WorkersInStep
  <2>1. CASE v = w
    BY <2>1, <1>1
  <2>2. CASE v # w
    <3>1. t \notin Chunk(w)
      BY <2>2, <1>2, ChunksApart
    <3>2. t \in Trajectories
      BY <1>1, ChunkInTrajectories DEF TurnsInv, IInv, LeaseTypes, OnlyWorkersPlay
    <3>3. phase'[t] = phase[t] /\ worker'[v] = worker[v]
      BY <2>2, <3>1, <3>2, <1>1, <1>3
    <3> QED
      BY <3>3 DEF TurnsInv, WorkersInStep
  <2> QED
    BY <2>1, <2>2
<1>6. EpisodesBounded'
  <2> SUFFICES ASSUME NEW e \in Envs PROVE episode'[e].moves \in 0..MaxSteps
    BY DEF EpisodesBounded
  <2>1. \/ episode'[e] = episode[e]
        \/ \E t : episode'[e] = Reset(t)
    BY DEF StartWorker
  <2>2. episode[e].moves \in 0..MaxSteps
    BY DEF TurnsInv, EpisodesBounded
  <2>3. \A t : Reset(t).moves = 0
    BY DEF Reset
  <2>4. 0 \in 0..MaxSteps
    BY RolloutAssumption
  <2> QED
    BY <2>1, <2>2, <2>3, <2>4
<1> QED
  BY <1>4, <1>5, <1>6

LEMMA PlayTurns ==
  ASSUME TurnsInv, NEW t \in Trajectories, NEW wellFormed \in BOOLEAN, Play(t, wellFormed)
  PROVE  StepsBounded' /\ WorkersInStep' /\ EpisodesBounded'
<1>1. /\ phase[t] = "playing" /\ steps[t] + 1 < MaxSteps
      /\ steps' = [steps EXCEPT ![t] = @ + 1]
      /\ \/ episode' = [episode EXCEPT ![lease[t]].moves = @ + 1]
         \/ episode' = episode
      /\ UNCHANGED <<size, worker, phase>>
      /\ steps \in [Trajectories -> Nat] /\ MaxSteps \in Nat
  BY RolloutAssumption DEF Play, TurnsInv, IInv, LeaseTypes
<1>2. StepsBounded'
  BY <1>1 DEF TurnsInv, StepsBounded
<1>3. WorkersInStep'
  BY <1>1, SameChunks DEF TurnsInv, WorkersInStep
<1>4. EpisodesBounded'
  <2>1. /\ lease[t] \in Envs /\ episode[lease[t]].moves <= steps[t]
        /\ episode \in [Envs -> [task : Trajectories \union {0}, moves : Nat]]
    BY <1>1, PlayerFacts DEF TurnsInv, IInv, PlaysOwnEpisode, LeaseTypes
  <2> SUFFICES ASSUME NEW e \in Envs PROVE episode'[e].moves \in 0..MaxSteps
    BY DEF EpisodesBounded
  <2>2. episode[e].moves \in 0..MaxSteps
    BY DEF TurnsInv, EpisodesBounded
  <2>3. CASE episode' = episode
    BY <2>2, <2>3
  <2>4. CASE episode' = [episode EXCEPT ![lease[t]].moves = @ + 1]
    <3>1. CASE e = lease[t]
      <4>1. episode'[e].moves = episode[e].moves + 1 /\ steps[t] \in Nat
        BY <2>1, <2>4, <3>1, <1>1
      <4>2. episode[e].moves + 1 <= MaxSteps
        BY <2>1, <2>2, <3>1, <4>1, <1>1
      <4> QED
        BY <4>1, <4>2, <2>2, <1>1
    <3>2. CASE e # lease[t]
      BY <2>1, <2>2, <2>4, <3>2
    <3> QED
      BY <3>1, <3>2
  <2> QED
    BY <2>3, <2>4, <1>1
<1> QED
  BY <1>2, <1>3, <1>4

LEMMA TurnsNext == TurnsInv /\ [Next]_vars => TurnsInv'
<1> SUFFICES ASSUME TurnsInv, [Next]_vars PROVE StepsBounded' /\ WorkersInStep' /\ EpisodesBounded'
  BY IInvNext DEF TurnsInv
<1>1. CASE \E n \in BatchSizes : Generate(n)
  BY <1>1, GenerateTurns
<1>2. CASE \E w \in Workers : StartWorker(w)
  BY <1>2, StartTurns
<1>3. ASSUME NEW w \in Workers, WorkerReturns(w) \/ WorkerRaises(w)
      PROVE  StepsBounded' /\ WorkersInStep' /\ EpisodesBounded'
  <2>1. /\ UNCHANGED <<size, phase, steps, episode>>
        /\ \/ worker' = [worker EXCEPT ![w] = "returned"] /\ \A t \in Chunk(w) : phase[t] = "ended"
           \/ worker' = [worker EXCEPT ![w] = "raised"]
        /\ worker \in [Workers -> {"idle", "called", "running", "returned", "raised"}]
    BY <1>3 DEF WorkerReturns, WorkerRaises, pools, TurnsInv, IInv, LeaseTypes
  <2>2. WorkersInStep'
    BY <2>1, SameChunks DEF TurnsInv, WorkersInStep
  <2> QED
    BY <2>1, <2>2 DEF TurnsInv, StepsBounded, EpisodesBounded
<1>4. ASSUME NEW t \in Trajectories, Raise(t)
      PROVE  StepsBounded' /\ WorkersInStep' /\ EpisodesBounded'
  <2>1. /\ manager = "generating" /\ phase[t] = "playing" /\ Release(t, "raised")
        /\ UNCHANGED <<manager, size, worker, steps>>
        /\ steps \in [Trajectories -> Nat] /\ steps[t] < MaxSteps
    BY <1>4 DEF Raise, TurnsInv, IInv, LeaseTypes, StepsBounded
  <2> QED
    BY <2>1, ReleaseTurns
<1>5. ASSUME NEW t \in Trajectories, NEW wellFormed \in BOOLEAN, PlayLast(t, wellFormed)
      PROVE  StepsBounded' /\ WorkersInStep' /\ EpisodesBounded'
  <2>1. /\ manager = "generating" /\ phase[t] = "playing" /\ Release(t, "ended")
        /\ UNCHANGED <<manager, size, worker>>
        /\ steps' = [steps EXCEPT ![t] = @ + 1]
        /\ steps \in [Trajectories -> Nat] /\ steps[t] < MaxSteps
    BY <1>5 DEF PlayLast, TurnsInv, IInv, LeaseTypes, StepsBounded
  <2>2. /\ steps' \in [Trajectories -> Nat] /\ \A s \in Trajectories : s # t => steps'[s] = steps[s]
        /\ steps'[t] \in 1..MaxSteps
    BY <2>1, RolloutAssumption
  <2> QED
    BY <2>1, <2>2, ReleaseTurns
<1>6. CASE \E t \in Trajectories : Turn(t)
  BY <1>4, <1>5, <1>6, PlayTurns DEF Turn
<1>7. CASE ManagerReturns
  <2>1. UNCHANGED <<size, phase, steps, episode>> /\ worker' = [w \in Workers |-> "idle"]
    BY <1>7 DEF ManagerReturns, pools
  <2>2. WorkersInStep'
    BY <2>1, SameChunks DEF WorkersInStep
  <2> QED
    BY <2>1, <2>2 DEF TurnsInv, StepsBounded, EpisodesBounded
<1>8. CASE ManagerFails \/ UNCHANGED vars
  <2>1. UNCHANGED <<size, worker, phase, steps, episode>>
    BY <1>8 DEF ManagerFails, vars, pools
  <2>2. WorkersInStep'
    BY <2>1, SameChunks DEF TurnsInv, WorkersInStep
  <2> QED
    BY <2>1, <2>2 DEF TurnsInv, StepsBounded, EpisodesBounded
<1> QED
  BY <1>1, <1>2, <1>3, <1>6, <1>7, <1>8 DEF Next, Failed

-----------------------------------------------------------------------------
(***************************************************************************)
(* Rows and samples: c[i] steps of the i-th of n trajectories.             *)
(***************************************************************************)
StepRows(c, n) == [i \in 1..n |-> [k \in 1..c[i] |-> <<i, k>>]]
SampleRows(c, n) == [i \in 1..n |-> [k \in 1..c[i] |-> i]]

\* A place is the k-th step of the i-th trajectory.
StepPlace(c, n, i, k) == i \in 1..n /\ k \in 1..c[i]

\* Where the steps of each trajectory end.
Ends(c, n) == [i \in 0..n |-> Sum(c, 1..i)]

LEMMA EndsAdd ==
  ASSUME NEW n \in Nat \ {0}, NEW c \in [1..n -> Nat]
  PROVE  /\ Ends(c, n) \in [0..n -> Nat] /\ Ends(c, n)[0] = 0
         /\ \A i \in 1..n : Ends(c, n)[i] = Ends(c, n)[i - 1] + c[i]
<1>1. ASSUME NEW i \in 0..n PROVE Sum(c, 1..i) \in Nat
  <2>1. IsFiniteSet(1..i)
    BY FS_Interval
  <2>2. \A j \in 1..i : c[j] \in Nat
    OBVIOUS
  <2> QED
    BY <2>1, <2>2, SumNat
<1>2. Sum(c, 1..0) = 0
  BY 1..0 = {}, SumEmpty
<1>3. ASSUME NEW i \in 1..n PROVE Sum(c, 1..i) = Sum(c, 1..(i - 1)) + c[i]
  <2> DEFINE S == 1..(i - 1)
  <2>1. 1..i = S \union {i} /\ i \notin S
    OBVIOUS
  <2>2. IsFiniteSet(S)
    BY FS_Interval
  <2>3. \A j \in S \union {i} : c[j] \in Int
    OBVIOUS
  <2>4. Sum(c, S) \in Nat
    <3>1. i - 1 \in 0..n
      OBVIOUS
    <3> QED
      BY <3>1, <1>1
  <2> HIDE DEF S
  <2>5. Sum(c, S \union {i}) = c[i] + Sum(c, S)
    BY <2>1, <2>2, <2>3, SumAdd
  <2>6. c[i] \in Nat
    OBVIOUS
  <2> QED
    <3>1. Sum(c, 1..i) = c[i] + Sum(c, S)
      BY <2>1, <2>5, Zenon
    <3>2. c[i] + Sum(c, S) = Sum(c, S) + c[i]
      BY <2>4, <2>6
    <3> QED
      BY <3>1, <3>2 DEF S
<1> QED
  BY <1>1, <1>2, <1>3 DEF Ends

\* Two sequences of sequences with the same lengths have the same places.
LEMMA RowSequences ==
  ASSUME NEW n \in Nat \ {0}, NEW m \in Nat, NEW c \in [1..n -> 0..m]
  PROVE  /\ StepRows(c, n) \in Seq(Seq((1..n) \X (1..m))) /\ StepRows(c, n) # <<>>
         /\ SampleRows(c, n) \in Seq(Seq(1..n)) /\ SampleRows(c, n) # <<>>
         /\ Cuts(Ends(c, n), StepRows(c, n)) /\ Cuts(Ends(c, n), SampleRows(c, n))
         /\ Len(StepRows(c, n)) = n /\ Len(SampleRows(c, n)) = n
         /\ \A i, k : In(StepRows(c, n), i, k) <=> StepPlace(c, n, i, k)
         /\ \A i, k : In(SampleRows(c, n), i, k) <=> StepPlace(c, n, i, k)
         /\ \A i, k : StepPlace(c, n, i, k) => StepRows(c, n)[i][k] = <<i, k>> /\ SampleRows(c, n)[i][k] = i
<1> DEFINE R == StepRows(c, n)
           Q == SampleRows(c, n)
<1>1. ASSUME NEW i \in 1..n
      PROVE  /\ R[i] \in Seq((1..n) \X (1..m)) /\ Len(R[i]) = c[i]
             /\ Q[i] \in Seq(1..n) /\ Len(Q[i]) = c[i]
             /\ \A k \in 1..c[i] : R[i][k] = <<i, k>> /\ Q[i][k] = i
  <2>1. PICK l \in 0..m : l = c[i]
    OBVIOUS
  <2>2. R[i] = [k \in 1..l |-> <<i, k>>] /\ Q[i] = [k \in 1..l |-> i]
    BY <2>1 DEF StepRows, SampleRows
  <2>3. R[i] \in [1..l -> (1..n) \X (1..m)] /\ Q[i] \in [1..l -> 1..n]
    BY <2>2
  <2>4. \A k \in 1..l : R[i][k] = <<i, k>> /\ Q[i][k] = i
    BY <2>2
  <2> HIDE DEF R, Q
  <2>5. R[i] \in Seq((1..n) \X (1..m)) /\ Len(R[i]) = l
    BY <2>3, FunctionIsSeq
  <2>6. Q[i] \in Seq(1..n) /\ Len(Q[i]) = l
    BY <2>3, FunctionIsSeq
  <2> QED
    BY <2>1, <2>4, <2>5, <2>6
<1>2. R \in [1..n -> Seq((1..n) \X (1..m))] /\ Q \in [1..n -> Seq(1..n)]
  BY <1>1 DEF StepRows, SampleRows
<1> HIDE DEF R, Q
<1>3. R \in Seq(Seq((1..n) \X (1..m))) /\ Len(R) = n /\ R # <<>>
  <2>1. R \in Seq(Seq((1..n) \X (1..m))) /\ Len(R) = n
    BY <1>2, FunctionIsSeq
  <2> QED
    BY <2>1
<1>4. Q \in Seq(Seq(1..n)) /\ Len(Q) = n /\ Q # <<>>
  <2>1. Q \in Seq(Seq(1..n)) /\ Len(Q) = n
    BY <1>2, FunctionIsSeq
  <2> QED
    BY <2>1
<1>5. /\ Ends(c, n) \in [0..n -> Nat] /\ Ends(c, n)[0] = 0
      /\ \A i \in 1..n : Ends(c, n)[i] = Ends(c, n)[i - 1] + c[i]
  <2>1. c \in [1..n -> Nat]
    OBVIOUS
  <2> QED
    BY <2>1, EndsAdd
<1>6. Cuts(Ends(c, n), R) /\ Cuts(Ends(c, n), Q)
  BY <1>1, <1>3, <1>4, <1>5 DEF Cuts
<1>7. \A i, k : In(R, i, k) <=> StepPlace(c, n, i, k)
  BY <1>1, <1>3 DEF In, StepPlace
<1>8. \A i, k : In(Q, i, k) <=> StepPlace(c, n, i, k)
  BY <1>1, <1>4 DEF In, StepPlace
<1>9. \A i, k : StepPlace(c, n, i, k) => R[i][k] = <<i, k>> /\ Q[i][k] = i
  BY <1>1 DEF StepPlace
<1> QED
  BY <1>3, <1>4, <1>6, <1>7, <1>8, <1>9 DEF R, Q

\* Row by row: a row is of the sample at its place, the rows of a sample are its
\* steps in order, and the last of them is the last of its c[i] steps.
RowsFit(F, G, c) ==
  /\ Len(F) = Len(G)
  /\ \A k \in DOMAIN F :
       /\ F[k][1] = G[k]
       /\ k + 1 \in DOMAIN F /\ G[k + 1] = G[k] => F[k + 1][2] = F[k][2] + 1
       /\ k + 1 \notin DOMAIN F \/ G[k + 1] # G[k] => F[k][2] = c[G[k]]

LEMMA RowsDoFit ==
  ASSUME NEW n \in Nat \ {0}, NEW m \in Nat, NEW c \in [1..n -> 0..m]
  PROVE  /\ FlattenSeq(StepRows(c, n)) \in Seq((1..n) \X (1..m))
         /\ RowsFit(FlattenSeq(StepRows(c, n)), FlattenSeq(SampleRows(c, n)), c)
<1> DEFINE R == StepRows(c, n)
           Q == SampleRows(c, n)
           P == Ends(c, n)
           F == FlattenSeq(R)
           G == FlattenSeq(Q)
<1>1. /\ R \in Seq(Seq((1..n) \X (1..m))) /\ R # <<>> /\ Q \in Seq(Seq(1..n)) /\ Q # <<>>
      /\ Cuts(P, R) /\ Cuts(P, Q) /\ Len(R) = n /\ Len(Q) = n
  BY RowSequences
<1>2. \A i, k : In(R, i, k) <=> StepPlace(c, n, i, k)
  BY RowSequences
<1>3. \A i, k : In(Q, i, k) <=> StepPlace(c, n, i, k)
  BY RowSequences
<1>4. \A i, k : StepPlace(c, n, i, k) => R[i][k] = <<i, k>> /\ Q[i][k] = i
  BY RowSequences
<1>5. F \in Seq((1..n) \X (1..m)) /\ Flattened(F, P, R)
  BY <1>1, FlattenIs
<1>6. G \in Seq(1..n) /\ Flattened(G, P, Q)
  BY <1>1, FlattenIs
<1> HIDE DEF R, Q, P, F, G
<1>7. Len(F) = Len(G) /\ DOMAIN F = 1..P[n]
  BY <1>1, <1>5, <1>6 DEF Flattened
<1>8. ASSUME NEW i, NEW k, StepPlace(c, n, i, k)
      PROVE  P[i - 1] + k \in DOMAIN F /\ F[P[i - 1] + k] = <<i, k>> /\ G[P[i - 1] + k] = i
  <2>1. In(R, i, k) /\ In(Q, i, k)
    BY <1>2, <1>3, <1>8
  <2>2. P[i - 1] + k \in DOMAIN F /\ F[P[i - 1] + k] = R[i][k]
    BY <2>1, <1>5 DEF Flattened
  <2>3. G[P[i - 1] + k] = Q[i][k]
    BY <2>1, <1>6 DEF Flattened
  <2>4. R[i][k] = <<i, k>> /\ Q[i][k] = i
    BY <1>4, <1>8
  <2> QED
    BY <2>2, <2>3, <2>4
<1>9. ASSUME NEW q \in DOMAIN F
      PROVE  \E i, k : StepPlace(c, n, i, k) /\ q = P[i - 1] + k
  BY <1>2, <1>5 DEF Flattened
<1>10. ASSUME NEW i, NEW k, StepPlace(c, n, i, k)
       PROVE  /\ i \in 1..n /\ k \in Nat \ {0} /\ k <= c[i] /\ c[i] \in Nat /\ P[i - 1] \in Nat
              /\ (P[i - 1] + k) + 1 = P[i - 1] + (k + 1)
  <2>1. i \in 1..n /\ k \in 1..c[i] /\ c[i] \in Nat
    BY <1>10 DEF StepPlace
  <2>2. P[i - 1] \in Nat
    BY <2>1, <1>1, CutFacts
  <2> QED
    BY <2>1, <2>2
<1>11. ASSUME NEW q \in DOMAIN F
       PROVE  /\ F[q][1] = G[q]
              /\ q + 1 \in DOMAIN F /\ G[q + 1] = G[q] => F[q + 1][2] = F[q][2] + 1
              /\ q + 1 \notin DOMAIN F \/ G[q + 1] # G[q] => F[q][2] = c[G[q]]
  <2>1. PICK i, k : StepPlace(c, n, i, k) /\ q = P[i - 1] + k
    BY <1>9
  <2>2. F[q] = <<i, k>> /\ G[q] = i
    BY <2>1, <1>8
  <2>3. /\ i \in 1..n /\ k \in Nat \ {0} /\ k <= c[i] /\ c[i] \in Nat /\ P[i - 1] \in Nat
        /\ q + 1 = P[i - 1] + (k + 1)
    BY <2>1, <1>10
  <2>4. ASSUME q + 1 \in DOMAIN F, G[q + 1] = G[q]
        PROVE  F[q + 1][2] = F[q][2] + 1
    <3>1. PICK j, l : StepPlace(c, n, j, l) /\ q + 1 = P[j - 1] + l
      BY <2>4, <1>9
    <3>2. F[q + 1] = <<j, l>> /\ G[q + 1] = j
      BY <3>1, <1>8
    <3>3. j = i /\ l \in Nat
      BY <3>1, <3>2, <2>2, <2>4, <1>10
    <3>4. l = k + 1
      BY <3>1, <3>3, <2>3
    <3> QED
      BY <3>2, <3>4, <2>2
  <2>5. ASSUME q + 1 \notin DOMAIN F \/ G[q + 1] # G[q]
        PROVE  F[q][2] = c[G[q]]
    <3>1. ASSUME k # c[i] PROVE FALSE
      <4>1. StepPlace(c, n, i, k + 1)
        BY <3>1, <2>3 DEF StepPlace
      <4>2. q + 1 \in DOMAIN F /\ G[q + 1] = i
        BY <4>1, <1>8, <2>3
      <4> QED
        BY <4>2, <2>2, <2>5
    <3> QED
      BY <3>1, <2>2
  <2> QED
    BY <2>2, <2>4, <2>5
<1>12. RowsFit(F, G, c)
  BY <1>7, <1>11 DEF RowsFit
<1> QED
  BY <1>5, <1>12 DEF F, G, R, Q

\* The outputs of the workers, one after the other, are those of the whole batch.
LEMMA TasksInOrder ==
  ASSUME size \in Nat \ {0}, ChunkCount(size) = NumWorkers
  PROVE  /\ FlattenSeq([w \in Workers |-> Tasks(w)]) = [i \in 1..size |-> i]
         /\ \A i \in 1..size : \E w \in Workers : i \in Chunk(w)
<1> DEFINE T == [w \in Workers |-> Tasks(w)]
           S == SplitSize(size)
           P == [i \in 0..NumWorkers |-> IF i = 0 THEN 0 ELSE Stop(i)]
<1>1. NumWorkers \in Nat \ {0} /\ S \in Nat \ {0} /\ Workers = 1..NumWorkers
  BY RolloutAssumption, SplitIsPositive DEF Workers
<1> HIDE DEF S
<1>2. ASSUME NEW w \in Workers
      PROVE  /\ Start(w) \in Nat /\ Stop(w) \in Nat /\ Start(w) < Stop(w) /\ Stop(w) <= size
             /\ Start(w) = (w - 1) * S /\ Stop(w) = IF w * S < size THEN w * S ELSE size
  BY SliceBounds, ChunksAreFull DEF Start, Stop, S
<1>3. ASSUME NEW w \in Workers
      PROVE  /\ Tasks(w) \in Seq(1..size) /\ Len(Tasks(w)) = Stop(w) - Start(w)
             /\ \A k \in 1..Stop(w) - Start(w) : Tasks(w)[k] = Start(w) + k
  <2>1. PICK a \in Nat, l \in Nat : a = Start(w) /\ l = Stop(w) - Start(w) /\ a + l <= size
    BY <1>2
  <2>2. Tasks(w) = [i \in 1..l |-> a + i]
    BY <2>1 DEF Tasks
  <2>3. [i \in 1..l |-> a + i] \in [1..l -> 1..size]
    BY <2>1
  <2>4. Tasks(w) \in Seq(1..size) /\ Len(Tasks(w)) = l
    BY <2>2, <2>3, FunctionIsSeq
  <2> QED
    BY <2>1, <2>2, <2>4
<1>4. T \in Seq(Seq(1..size)) /\ Len(T) = NumWorkers /\ T # <<>>
  <2>1. T \in [1..NumWorkers -> Seq(1..size)]
    BY <1>1, <1>3
  <2> HIDE DEF T
  <2>2. T \in Seq(Seq(1..size)) /\ Len(T) = NumWorkers
    BY <2>1, <1>1, FunctionIsSeq
  <2> QED
    BY <2>2, <1>1
<1>5. ASSUME NEW w \in Workers PROVE P[w - 1] = Start(w) /\ P[w] = Stop(w)
  <2>1. w \in 1..NumWorkers /\ w \in 0..NumWorkers /\ w - 1 \in 0..NumWorkers /\ w # 0
    BY <1>1
  <2>2. P[w] = Stop(w)
    BY <2>1
  <2>3. CASE w = 1
    <3>1. (w - 1) * S = 0
      BY <2>3, <1>1
    <3> QED
      BY <2>1, <2>2, <2>3, <3>1, <1>2
  <2>4. CASE w # 1
    <3>1. w - 1 \in Workers
      BY <2>1, <2>4, <1>1
    <3>2. P[w - 1] = Stop(w - 1)
      BY <2>1, <2>4
    <3>3. (w - 1) * S < size
      BY <1>2
    <3>4. Stop(w - 1) = (w - 1) * S
      BY <3>1, <3>3, <1>2
    <3> QED
      BY <2>2, <3>2, <3>4, <1>2
  <2> QED
    BY <2>3, <2>4
<1>6. Cuts(P, T)
  <2>1. P \in [0..NumWorkers -> Nat] /\ P[0] = 0
    BY <1>1, <1>2
  <2>2. ASSUME NEW i \in 1..Len(T) PROVE P[i] = P[i - 1] + Len(T[i])
    <3>1. i \in Workers /\ T[i] = Tasks(i)
      BY <1>1, <1>4
    <3>2. P[i - 1] = Start(i) /\ P[i] = Stop(i) /\ Len(T[i]) = Stop(i) - Start(i)
      BY <3>1, <1>3, <1>5
    <3>3. Start(i) \in Nat /\ Stop(i) \in Nat
      BY <3>1, <1>2
    <3> QED
      BY <3>2, <3>3
  <2> QED
    BY <2>1, <2>2, <1>4 DEF Cuts
<1>7. P[NumWorkers] = size
  <2>1. NumWorkers \in Workers
    BY <1>1
  <2>2. P[NumWorkers] = Stop(NumWorkers)
    BY <2>1, <1>5
  <2>3. (size - 1) \div S = NumWorkers - 1
    BY <1>1 DEF ChunkCount, S
  <2>4. size - 1 < (((size - 1) \div S) + 1) * S
    BY <1>1
  <2>5. size <= NumWorkers * S
    <3>1. ((size - 1) \div S) + 1 = NumWorkers
      BY <2>3, <1>1
    <3>2. NumWorkers * S \in Nat
      BY <1>1
    <3> QED
      BY <2>4, <3>1, <3>2
  <2> QED
    BY <2>1, <2>2, <2>5, <1>1, <1>2
<1>8. \A w \in Workers : T[w] = Tasks(w)
  OBVIOUS
<1> HIDE DEF T, P
<1>9. FlattenSeq(T) \in Seq(1..size) /\ Flattened(FlattenSeq(T), P, T)
  BY <1>4, <1>6, FlattenIs
<1>10. Len(FlattenSeq(T)) = size /\ DOMAIN FlattenSeq(T) = 1..size
  BY <1>4, <1>7, <1>9 DEF Flattened
<1>11. ASSUME NEW q \in 1..size
       PROVE  FlattenSeq(T)[q] = q /\ \E w \in Workers : q \in Chunk(w)
  <2>1. PICK w, k : In(T, w, k) /\ q = P[w - 1] + k
    BY <1>9, <1>10 DEF Flattened
  <2>2. w \in Workers /\ T[w] = Tasks(w)
    BY <2>1, <1>1, <1>4, <1>8 DEF In
  <2>3. k \in 1..Stop(w) - Start(w) /\ q = Start(w) + k
    BY <2>1, <2>2, <1>3, <1>5 DEF In
  <2>4. FlattenSeq(T)[q] = Tasks(w)[k]
    BY <2>1, <2>2, <1>9 DEF Flattened
  <2>5. q \in Start(w) + 1..Stop(w)
    BY <2>2, <2>3, <1>2
  <2> QED
    BY <2>2, <2>3, <2>4, <2>5, <1>3 DEF Chunk
<1>12. FlattenSeq(T) = [i \in 1..size |-> i]
  <2> DEFINE I == [i \in 1..size |-> i]
  <2>1. I \in [1..size -> 1..size]
    OBVIOUS
  <2>2. \A i \in 1..size : I[i] = i
    OBVIOUS
  <2> HIDE DEF I
  <2>3. I \in Seq(1..size) /\ Len(I) = size
    BY <2>1, FunctionIsSeq
  <2>4. FlattenSeq(T) = I
    BY <2>2, <2>3, <1>9, <1>10, <1>11, SeqEqual
  <2> QED
    BY <2>4 DEF I
<1> QED
  BY <1>11, <1>12 DEF T

RowsInv == TurnsInv /\ ReturnedTypes /\ RowsMatchSamples

LEMMA RowsInit == Init => RowsInv
<1> SUFFICES ASSUME Init PROVE RowsInv
  OBVIOUS
<1>1. awake = FALSE /\ output = <<>> /\ numSteps = <<>> /\ size = 0
  BY DEF Init
<1>2. ReturnedTypes
  BY <1>1, EmptySeq DEF ReturnedTypes
<1>3. RowsMatchSamples
  BY <1>1 DEF RowsMatchSamples
<1> QED
  BY <1>2, <1>3, TurnsInit DEF RowsInv

\* What the manager returns when all its workers have.
LEMMA ReturnedRows ==
  ASSUME TurnsInv, ManagerReturns
  PROVE  ReturnedTypes' /\ RowsMatchSamples'
<1> DEFINE tasks == FlattenSeq([w \in Workers |-> Tasks(w)])
           c == [i \in 1..size |-> steps[i]]
<1>1. /\ manager = "generating" /\ \A w \in Workers : worker[w] = "returned"
      /\ output' = FlattenSeq([i \in DOMAIN tasks |-> Rows(tasks[i])])
      /\ numSteps' = [i \in DOMAIN tasks |-> steps[tasks[i]]]
      /\ awake' = FALSE /\ size' = size
  BY DEF ManagerReturns
<1>2. size \in BatchSizes /\ size \in Nat \ {0} /\ ChunkCount(size) = NumWorkers
  BY <1>1, RolloutAssumption DEF TurnsInv, IInv, LeaseTypes, OnlyWorkersPlay
<1>3. tasks = [i \in 1..size |-> i] /\ \A i \in 1..size : \E w \in Workers : i \in Chunk(w)
  BY <1>2, TasksInOrder
<1> HIDE DEF tasks
<1>4. DOMAIN tasks = 1..size /\ \A i \in 1..size : tasks[i] = i
  BY <1>3
<1>5. ASSUME NEW i \in 1..size PROVE i \in Trajectories /\ steps[i] \in 1..MaxSteps
  <2>1. i \in Trajectories
    BY <1>2 DEF Trajectories
  <2>2. phase[i] = "ended"
    BY <1>1, <1>3 DEF TurnsInv, WorkersInStep
  <2> QED
    BY <2>1, <2>2 DEF TurnsInv, StepsBounded
<1>6. c \in [1..size -> 1..MaxSteps] /\ c \in [1..size -> 0..MaxSteps] /\ MaxSteps \in Nat
  BY <1>5, RolloutAssumption
<1>7. numSteps' = c
  BY <1>1, <1>4
<1>8. output' = FlattenSeq(StepRows(c, size))
  <2>1. [i \in DOMAIN tasks |-> Rows(tasks[i])] = StepRows(c, size)
    BY <1>4 DEF StepRows, Rows
  <2> QED
    BY <2>1, <1>1
<1> HIDE DEF c
<1>9. DOMAIN c = 1..size /\ c \in Seq(1..MaxSteps) /\ Len(c) = size
  BY <1>2, <1>6, FunctionIsSeq
<1>10. SampleOfRow' = FlattenSeq(SampleRows(c, size))
  <2>1. [i \in DOMAIN numSteps' |-> [k \in 1..numSteps'[i] |-> i]] = SampleRows(c, size)
    BY <1>7, <1>9 DEF SampleRows
  <2> QED
    BY <2>1 DEF SampleOfRow
<1>11. /\ FlattenSeq(StepRows(c, size)) \in Seq((1..size) \X (1..MaxSteps))
       /\ RowsFit(FlattenSeq(StepRows(c, size)), FlattenSeq(SampleRows(c, size)), c)
  BY <1>2, <1>6, RowsDoFit
<1>12. (1..size) \X (1..MaxSteps) \subseteq Trajectories \X (1..MaxSteps)
  BY <1>5
<1>13. output' \in Seq(Trajectories \X (1..MaxSteps))
  BY <1>8, <1>11, <1>12, SeqMonotonic
<1>14. ReturnedTypes'
  BY <1>1, <1>7, <1>9, <1>13 DEF ReturnedTypes
<1>15. RowsFit(output', SampleOfRow', numSteps')
  BY <1>7, <1>8, <1>10, <1>11
<1>16. RowsMatchSamples'
  BY <1>1, <1>7, <1>9, <1>15 DEF RowsMatchSamples, RowsFit
<1> QED
  BY <1>14, <1>16

LEMMA RowsNext == RowsInv /\ [Next]_vars => RowsInv'
<1> SUFFICES ASSUME RowsInv, [Next]_vars PROVE ReturnedTypes' /\ RowsMatchSamples'
  BY TurnsNext DEF RowsInv
<1>1. ASSUME manager' # "idle" \/ UNCHANGED <<manager, size>>, awake' \in BOOLEAN,
             UNCHANGED returned
      PROVE  ReturnedTypes' /\ RowsMatchSamples'
  <2>1. SampleOfRow' = SampleOfRow /\ UNCHANGED <<output, numSteps>>
    BY <1>1 DEF SampleOfRow, returned
  <2> QED
    BY <2>1, <1>1 DEF RowsInv, ReturnedTypes, RowsMatchSamples
<1>2. CASE \E n \in BatchSizes : Generate(n)
  <2>1. manager' # "idle" /\ awake' = TRUE /\ output' = <<>> /\ numSteps' = <<>>
    BY <1>2 DEF Generate
  <2> QED
    BY <2>1, EmptySeq DEF ReturnedTypes, RowsMatchSamples
<1>3. awake \in BOOLEAN
  BY DEF RowsInv, ReturnedTypes
<1>4. CASE \E w \in Workers : StartWorker(w) \/ WorkerReturns(w) \/ WorkerRaises(w)
  BY <1>1, <1>3, <1>4 DEF StartWorker, WorkerReturns, WorkerRaises
<1>5. CASE \E t \in Trajectories : Turn(t)
  BY <1>1, <1>3, <1>5 DEF Turn, Raise, Play, PlayLast
<1>6. CASE ManagerReturns
  BY <1>6, ReturnedRows DEF RowsInv
<1>7. CASE ManagerFails
  BY <1>1, <1>3, <1>7 DEF ManagerFails
<1>8. CASE UNCHANGED vars
  BY <1>1, <1>3, <1>8 DEF vars
<1> QED
  BY <1>2, <1>4, <1>5, <1>6, <1>7, <1>8 DEF Next, Failed

LEMMA RowsAlways == Spec => []RowsInv
  BY RowsInit, RowsNext, PTL DEF Spec

\* Every variable holds a value the code can store in it: no trajectory exceeds
\* max_steps, whatever raises, and what generate_sequences returns are rows and counts.
THEOREM TypeCorrect == Spec => []TypeOK
<1>1. RowsInv => TypeOK
  <2> SUFFICES ASSUME RowsInv PROVE TypeOK
    OBVIOUS
  <2>1. /\ LeaseTypes /\ StepsBounded /\ EpisodesBounded /\ ReturnedTypes
        /\ MaxSteps \in Nat \ {0}
    BY RolloutAssumption DEF RowsInv, TurnsInv, IInv
  <2>2. steps \in [Trajectories -> 0..MaxSteps]
    <3>1. ASSUME NEW t \in Trajectories PROVE steps[t] \in 0..MaxSteps
      <4>1. /\ phase[t] \in {"none", "waiting", "playing", "ended", "raised"}
            /\ steps[t] \in Nat
        BY <2>1 DEF LeaseTypes
      <4>2. steps[t] = 0 \/ steps[t] < MaxSteps \/ steps[t] \in 1..MaxSteps
        BY <2>1, <4>1 DEF StepsBounded
      <4> QED
        BY <2>1, <4>1, <4>2
    <3> QED
      BY <2>1, <3>1 DEF LeaseTypes
  <2>3. episode \in [Envs -> [task : Trajectories \union {0}, moves : 0..MaxSteps]]
    BY <2>1 DEF LeaseTypes, EpisodesBounded
  <2> QED
    BY <2>1, <2>2, <2>3 DEF LeaseTypes, ReturnedTypes, TypeOK
<1> QED
  BY <1>1, RowsAlways, PTL

\* The rows of a returned batch are those of its samples, in the order of the samples
\* and of the steps, and num_steps cuts them where each trajectory ends
\* (AgentFlowManager.generate_sequences, the repeat in RayAgentTrainer.fit).
THEOREM RowsAreTheSamples == Spec => []RowsMatchSamples
<1>1. RowsInv => RowsMatchSamples
  BY DEF RowsInv
<1> QED
  BY <1>1, RowsAlways, PTL

-----------------------------------------------------------------------------
(***************************************************************************)
(* Progress: what EveryBatchEnds needs besides the fairness.  While a      *)
(* batch is generated an action is enabled, and each action takes work off *)
(* a heap that is finite.                                                  *)
(***************************************************************************)
\* No worker was left out of the batch; the chunk of a worker that started has
\* started with it; who waits has its place in the queue.
NobodyForgotten ==
  /\ manager = "generating" => \A w \in Workers : worker[w] # "idle"
  /\ \A w \in Workers : worker[w] \in {"running", "returned", "raised"} =>
       \A t \in Chunk(w) : phase[t] # "none"
  /\ \A w \in Workers : \A t \in Chunk(w) : phase[t] = "waiting" =>
       \E i \in DOMAIN waiting[w] : waiting[w][i] = t

ProgressInv == TurnsInv /\ NobodyForgotten

\* Some worker, trajectory or the manager has its next step before it: the guards
\* of StartWorker, Turn, WorkerReturns, WorkerRaises, ManagerReturns, ManagerFails.
SomebodyCanMove ==
  \/ \E w \in Workers : worker[w] = "called"
  \/ \E t \in Trajectories : phase[t] = "playing"
  \/ \E w \in Workers : /\ worker[w] = "running"
                        /\ \/ \A t \in Chunk(w) : phase[t] = "ended"
                           \/ \E t \in Chunk(w) : phase[t] = "raised"
  \/ \A w \in Workers : worker[w] = "returned"
  \/ \E w \in Workers : worker[w] = "raised"

LEMMA SizeOfBatch ==
  ASSUME IInv, manager # "idle"
  PROVE  size \in BatchSizes /\ size \in Nat \ {0}
BY RolloutAssumption DEF IInv, LeaseTypes, OnlyWorkersPlay

\* Whoever waits, waits for a trajectory that plays.
LEMMA WaitsForAPlayer ==
  ASSUME ProgressInv, NEW w \in Workers, NEW t \in Chunk(w), phase[t] = "waiting"
  PROVE  \E s \in Trajectories : phase[s] = "playing"
<1>1. waiting[w] # <<>> /\ waiting[w] \in Seq(Trajectories)
  <2>1. PICK i \in DOMAIN waiting[w] : waiting[w][i] = t
    BY DEF ProgressInv, NobodyForgotten
  <2>2. waiting[w] \in Seq(Trajectories)
    BY DEF ProgressInv, TurnsInv, IInv, LeaseTypes
  <2> QED
    BY <2>1, <2>2
<1>2. free[w] = <<>>
  BY <1>1 DEF ProgressInv, TurnsInv, IInv, NoWaitWhileFree
<1>3. <<w, 1>> \in Envs
  BY RolloutAssumption DEF Envs
<1>4. ~ \E j \in DOMAIN free[w] : free[w][j] = <<w, 1>>
  BY <1>2
<1>5. PICK s \in Trajectories : lease[s] = <<w, 1>>
  BY <1>3, <1>4 DEF ProgressInv, TurnsInv, IInv, LeasesAreExclusive
<1>6. lease[s] # NoEnv
  BY <1>3, <1>5, NoEnvApart
<1> QED
  BY <1>6 DEF ProgressInv, TurnsInv, IInv, LeasesAreExclusive

LEMMA NobodyIsStuck ==
  ASSUME ProgressInv, manager = "generating"
  PROVE  SomebodyCanMove
<1> SUFFICES ASSUME \A w \in Workers : worker[w] \notin {"called", "raised"},
                    NEW w \in Workers, worker[w] # "returned"
             PROVE  SomebodyCanMove
  BY DEF SomebodyCanMove
<1>1. worker[w] = "running"
  BY DEF ProgressInv, TurnsInv, IInv, LeaseTypes, NobodyForgotten
<1>2. Chunk(w) \subseteq Trajectories
  BY SizeOfBatch, ChunkInTrajectories DEF ProgressInv, TurnsInv
<1>3. CASE \A t \in Chunk(w) : phase[t] = "ended"
  BY <1>1, <1>3 DEF SomebodyCanMove
<1>4. ASSUME NEW t \in Chunk(w), phase[t] # "ended" PROVE SomebodyCanMove
  <2>1. phase[t] \in {"waiting", "playing", "raised"}
    BY <1>1, <1>2, <1>4 DEF ProgressInv, TurnsInv, IInv, LeaseTypes, NobodyForgotten
  <2>2. CASE phase[t] = "raised"
    BY <1>1, <2>2 DEF SomebodyCanMove
  <2>3. CASE phase[t] = "playing"
    BY <1>2, <2>3 DEF SomebodyCanMove
  <2>4. CASE phase[t] = "waiting"
    BY <2>4, WaitsForAPlayer DEF SomebodyCanMove
  <2> QED
    BY <2>1, <2>2, <2>3, <2>4
<1> QED
  BY <1>3, <1>4

LEMMA ProgressInit == Init => ProgressInv
<1>1. Init => NobodyForgotten
  <2> SUFFICES ASSUME Init PROVE NobodyForgotten
    OBVIOUS
  <2>1. size = 0 /\ manager = "idle" /\ worker = [w \in Workers |-> "idle"]
    BY DEF Init
  <2>2. \A w \in Workers : Chunk(w) = {}
    <3> SUFFICES ASSUME NEW w \in Workers PROVE Chunk(w) = {}
      OBVIOUS
    <3>1. w \in Nat \ {0}
      BY DEF Workers
    <3>2. PICK S \in Int : S = SplitSize(size)
      <4>1. (0 - 1) \div NumWorkers + 1 \in Int
        BY RolloutAssumption
      <4> QED
        BY <4>1, <2>1 DEF SplitSize
    <3> QED
      BY <3>1, <3>2, <2>1 DEF Chunk, Start, Stop
  <2> QED
    BY <2>1, <2>2 DEF NobodyForgotten
<1> QED
  BY <1>1, TurnsInit DEF ProgressInv

LEMMA NewChunk ==
  ASSUME NEW w \in Workers, size' \in BatchSizes
  PROVE  Chunk(w)' \subseteq Trajectories
<1>1. size' \in Nat \ {0}
  BY RolloutAssumption
<1>2. Chunk(w)' \subseteq 1..size'
  <2> DEFINE S == SplitSize(size')
  <2>1. S \in Nat \ {0} /\ w \in Nat \ {0}
    BY <1>1, SplitIsPositive DEF Workers
  <2>2. Start(w)' = (w - 1) * S /\ Stop(w)' = IF w * S < size' THEN w * S ELSE size'
    BY DEF Start, Stop, SplitSize
  <2> HIDE DEF S
  <2>3. (w - 1) * S \in Nat /\ w * S \in Nat
    BY <2>1
  <2>4. Chunk(w)' = Start(w)' + 1..Stop(w)'
    BY DEF Chunk
  <2> QED
    BY <1>1, <2>2, <2>3, <2>4
<1> QED
  BY <1>1, <1>2 DEF Trajectories

\* What the start of a worker does to the trajectories.
LEMMA StartedPhases ==
  ASSUME TurnsInv, NEW w \in Workers, StartWorker(w)
  PROVE  /\ \A t \in Trajectories : t \notin Chunk(w) => phase'[t] = phase[t]
         /\ \A t \in Chunk(w) : phase'[t] \in {"playing", "waiting"} /\ phase[t] = "none"
<1>1. Chunk(w) \subseteq Trajectories /\ size \in Nat \ {0}
  BY SizeOfBatch, ChunkInTrajectories DEF TurnsInv, StartWorker
<1>2. phase' = [t \in Trajectories |->
                  IF t \in {u \in Chunk(w) : u <= Start(w) + Len(free[w])} THEN "playing"
                  ELSE IF t \in {u \in Chunk(w) : u > Start(w) + Len(free[w])} THEN "waiting"
                  ELSE phase[t]]
  BY DEF StartWorker
<1>3. free[w] \in Seq(Envs)
  BY DEF TurnsInv, IInv, LeaseTypes
<1>4. \A t \in Chunk(w) : t <= Start(w) + Len(free[w]) \/ t > Start(w) + Len(free[w])
  BY <1>1, <1>3, SliceBounds
<1>5. \A t \in Chunk(w) : phase[t] = "none"
  BY DEF StartWorker, TurnsInv, WorkersInStep
<1> QED
  BY <1>1, <1>2, <1>4, <1>5

LEMMA StartForgetsNobody ==
  ASSUME ProgressInv, NEW w \in Workers, StartWorker(w)
  PROVE  NobodyForgotten'
<1>1. /\ manager = "generating" /\ UNCHANGED <<manager, size>>
      /\ worker' = [worker EXCEPT ![w] = "running"]
      /\ worker \in [Workers -> {"idle", "called", "running", "returned", "raised"}]
      /\ waiting \in [Workers -> Seq(Trajectories)] /\ free[w] \in Seq(Envs)
  BY DEF StartWorker, ProgressInv, TurnsInv, IInv, LeaseTypes
<1> DEFINE leases == Start(w) + Len(free[w])
<1>2. waiting' = [waiting EXCEPT ![w] = [i \in 1..Stop(w) - leases |-> leases + i]]
  BY DEF StartWorker
<1>3. size \in Nat \ {0} /\ \A v \in Workers : Chunk(v) \subseteq Trajectories
  BY <1>1, SizeOfBatch, ChunkInTrajectories DEF ProgressInv, TurnsInv
<1>4. /\ \A t \in Trajectories : t \notin Chunk(w) => phase'[t] = phase[t]
      /\ \A t \in Chunk(w) : phase'[t] \in {"playing", "waiting"}
  BY StartedPhases DEF ProgressInv
<1>5. \A v \in Workers : v # w => \A t \in Chunk(v) : phase'[t] = phase[t]
  BY <1>3, <1>4, ChunksApart
<1>6. ASSUME NEW t \in Chunk(w), phase'[t] = "waiting"
      PROVE  \E i \in DOMAIN waiting'[w] : waiting'[w][i] = t
  <2>1. Start(w) \in Nat /\ Stop(w) \in Nat /\ Len(free[w]) \in Nat
    BY <1>1, <1>3, SliceBounds
  <2>2. t \in Int /\ t <= Stop(w)
    BY <2>1 DEF Chunk
  <2>3. t > leases
    <3>1. t \in Trajectories
      BY <1>3
    <3>2. t <= leases => phase'[t] = "playing"
      BY <3>1 DEF StartWorker
    <3> QED
      BY <3>2, <1>6, <2>1, <2>2
  <2>4. t - leases \in 1..Stop(w) - leases /\ leases + (t - leases) = t
    BY <2>1, <2>2, <2>3
  <2>5. waiting'[w] = [i \in 1..Stop(w) - leases |-> leases + i]
    BY <1>1, <1>2
  <2> HIDE DEF leases
  <2> QED
    BY <2>4, <2>5
<1>7. \A v \in Workers : v # w => waiting'[v] = waiting[v] /\ worker'[v] = worker[v]
  BY <1>1, <1>2
<1>8. \A v \in Workers : Chunk(v)' = Chunk(v)
  BY <1>1, SameChunks
<1>9. \A v \in Workers : worker'[v] # "idle"
  BY <1>1 DEF ProgressInv, NobodyForgotten
<1>10. \A v \in Workers : worker'[v] \in {"running", "returned", "raised"} =>
         \A t \in Chunk(v) : phase'[t] # "none"
  BY <1>4, <1>5, <1>7 DEF ProgressInv, NobodyForgotten
<1>11. \A v \in Workers : \A t \in Chunk(v) : phase'[t] = "waiting" =>
         \E i \in DOMAIN waiting'[v] : waiting'[v][i] = t
  <2> SUFFICES ASSUME NEW v \in Workers, NEW t \in Chunk(v), phase'[t] = "waiting"
               PROVE  \E i \in DOMAIN waiting'[v] : waiting'[v][i] = t
    OBVIOUS
  <2>1. CASE v = w
    BY <2>1, <1>6
  <2>2. CASE v # w
    BY <2>2, <1>5, <1>7 DEF ProgressInv, NobodyForgotten
  <2> QED
    BY <2>1, <2>2
<1> QED
  BY <1>8, <1>9, <1>10, <1>11 DEF NobodyForgotten

LEMMA ReleaseForgetsNobody ==
  ASSUME ProgressInv, manager = "generating", NEW t \in Trajectories, phase[t] = "playing",
         NEW next \in {"ended", "raised"}, Release(t, next),
         UNCHANGED <<manager, size, worker>>
  PROVE  NobodyForgotten'
<1> DEFINE w == WorkerOf(t)
           h == Head(waiting[w])
<1>1. /\ w \in Workers
      /\ phase \in [Trajectories -> {"none", "waiting", "playing", "ended", "raised"}]
      /\ waiting \in [Workers -> Seq(Trajectories)] /\ waiting[w] \in Seq(Trajectories)
  BY PlayerFacts DEF ProgressInv, TurnsInv, IInv, LeaseTypes
<1>2. \A v \in Workers : Chunk(v)' = Chunk(v) /\ Chunk(v) \subseteq Trajectories
  BY SameChunks, SizeOfBatch, ChunkInTrajectories DEF ProgressInv, TurnsInv
<1>3. /\ \A s \in Trajectories : phase'[s] = "none" => phase[s] = "none"
      /\ \A s \in Trajectories : phase'[s] = "waiting" => phase[s] = "waiting"
  BY <1>1 DEF Release
<1>4. \A v \in Workers, s \in Trajectories :
        phase'[s] = "waiting" /\ (\E i \in DOMAIN waiting[v] : waiting[v][i] = s)
          => \E i \in DOMAIN waiting'[v] : waiting'[v][i] = s
  <2> SUFFICES ASSUME NEW v \in Workers, NEW s \in Trajectories, phase'[s] = "waiting",
                      NEW i \in DOMAIN waiting[v], waiting[v][i] = s
               PROVE  \E n \in DOMAIN waiting'[v] : waiting'[v][n] = s
    OBVIOUS
  <2>1. CASE waiting[w] = <<>>
    BY <2>1 DEF Release
  <2>2. CASE waiting[w] # <<>>
    <3>1. /\ waiting' = [waiting EXCEPT ![w] = Tail(@)]
          /\ phase' = [phase EXCEPT ![t] = next, ![h] = "playing"]
      BY <2>2 DEF Release
    <3>2. CASE v # w
      BY <3>1, <3>2
    <3>3. CASE v = w
      <4>1. h = waiting[w][1] /\ h \in Trajectories
        BY <1>1, <2>2
      <4>2. s # h
        BY <3>1, <4>1, <1>1
      <4>3. i \in 1..Len(waiting[w]) /\ i # 1
        BY <3>3, <4>1, <4>2, <1>1
      <4>4. waiting'[w] = Tail(waiting[w])
        BY <3>1, <1>1
      <4>5. i - 1 \in DOMAIN Tail(waiting[w]) /\ Tail(waiting[w])[i - 1] = waiting[w][i]
        BY <4>3, <1>1, <2>2
      <4> QED
        BY <3>3, <4>4, <4>5
    <3> QED
      BY <3>2, <3>3
  <2> QED
    BY <2>1, <2>2
<1> QED
  BY <1>2, <1>3, <1>4 DEF ProgressInv, NobodyForgotten

LEMMA ProgressNext == ProgressInv /\ [Next]_vars => ProgressInv'
<1> SUFFICES ASSUME ProgressInv, [Next]_vars PROVE NobodyForgotten'
  BY TurnsNext DEF ProgressInv
<1>1. ASSUME NEW n \in BatchSizes, Generate(n) PROVE NobodyForgotten'
  <2>1. /\ manager' = IF ChunkCount(n) = NumWorkers THEN "generating" ELSE "failed"
        /\ worker' = [w \in Workers |-> IF w <= ChunkCount(n) THEN "called" ELSE "idle"]
        /\ phase' = [t \in Trajectories |-> "none"] /\ size' \in BatchSizes
    BY <1>1 DEF Generate
  <2>2. manager' = "generating" => \A w \in Workers : worker'[w] # "idle"
    BY <2>1, RolloutAssumption DEF Workers
  <2>3. \A w \in Workers : \A t \in Chunk(w)' : phase'[t] = "none"
    BY <2>1, NewChunk
  <2> QED
    BY <2>1, <2>2, <2>3 DEF NobodyForgotten
<1>2. CASE \E w \in Workers : StartWorker(w)
  BY <1>2, StartForgetsNobody
<1>3. ASSUME NEW w \in Workers, WorkerReturns(w) \/ WorkerRaises(w)
      PROVE  NobodyForgotten'
  <2>1. /\ worker[w] = "running" /\ UNCHANGED <<manager, size, phase, waiting>>
        /\ \/ worker' = [worker EXCEPT ![w] = "returned"]
           \/ worker' = [worker EXCEPT ![w] = "raised"]
        /\ worker \in [Workers -> {"idle", "called", "running", "returned", "raised"}]
    BY <1>3 DEF WorkerReturns, WorkerRaises, pools, ProgressInv, TurnsInv, IInv, LeaseTypes
  <2> QED
    BY <2>1, SameChunks DEF ProgressInv, NobodyForgotten
<1>4. ASSUME NEW t \in Trajectories, Turn(t) PROVE NobodyForgotten'
  <2>1. CASE \E wellFormed \in BOOLEAN : Play(t, wellFormed)
    <3>1. UNCHANGED <<manager, size, worker, phase, waiting>>
      BY <2>1 DEF Play
    <3> QED
      BY <3>1, SameChunks DEF ProgressInv, NobodyForgotten
  <2>2. CASE Raise(t) \/ \E wellFormed \in BOOLEAN : PlayLast(t, wellFormed)
    BY <2>2, ReleaseForgetsNobody DEF Raise, PlayLast
  <2> QED
    BY <2>1, <2>2, <1>4 DEF Turn
<1>5. CASE ManagerReturns
  <2>1. /\ UNCHANGED <<size, phase, waiting>> /\ worker' = [w \in Workers |-> "idle"]
        /\ manager' = "idle"
    BY <1>5 DEF ManagerReturns, pools
  <2> QED
    BY <2>1, SameChunks DEF ProgressInv, NobodyForgotten
<1>6. CASE ManagerFails \/ UNCHANGED vars
  <2>1. /\ UNCHANGED <<size, worker, phase, waiting>>
        /\ manager' = "generating" => manager = "generating"
    BY <1>6 DEF ManagerFails, vars, pools
  <2> QED
    BY <2>1, SameChunks DEF ProgressInv, NobodyForgotten
<1> QED
  BY <1>1, <1>2, <1>3, <1>4, <1>5, <1>6 DEF Next, Failed

LEMMA ProgressAlways == Spec => []ProgressInv
BY ProgressInit, ProgressNext, PTL DEF Spec

\* Nobody waits for everybody: while a batch is generated the manager, a worker or
\* a trajectory can take its next step, however few environments the trajectories
\* of a worker share and whatever raises.
THEOREM SomebodyMoves == Spec => [](manager = "generating" => SomebodyCanMove)
<1>1. ProgressInv => (manager = "generating" => SomebodyCanMove)
  BY NobodyIsStuck
<1> QED
  BY <1>1, ProgressAlways, PTL

-----------------------------------------------------------------------------
(***************************************************************************)
(* The work that is left of a batch: the turns of its trajectories and     *)
(* what its workers still do.                                              *)
(***************************************************************************)
Batch == 1..size

TurnsLeft == [t \in Batch |-> IF phase[t] \in {"ended", "raised"} THEN 0 ELSE MaxSteps - steps[t]]

CallsLeft == [w \in Workers |-> CASE worker[w] = "called"  -> 2
                                  [] worker[w] = "running" -> 1
                                  [] OTHER                 -> 0]

WorkLeft == Sum(TurnsLeft, Batch) + Sum(CallsLeft, Workers)

\* What a batch of this size may take.
WorkBound == size * MaxSteps + NumWorkers * 2

LEMMA WorkTypes ==
  ASSUME TurnsInv, manager = "generating"
  PROVE  /\ size \in Nat \ {0} /\ IsFiniteSet(Batch) /\ Cardinality(Batch) = size
         /\ IsFiniteSet(Workers) /\ Cardinality(Workers) = NumWorkers
         /\ Batch \subseteq Trajectories
         /\ \A t \in Batch : TurnsLeft[t] \in 0..MaxSteps
         /\ \A w \in Workers : CallsLeft[w] \in 0..2
<1>1. size \in BatchSizes /\ size \in Nat \ {0}
  BY SizeOfBatch DEF TurnsInv
<1>2. IsFiniteSet(Batch) /\ Cardinality(Batch) = size
  BY <1>1, FS_Interval DEF Batch
<1>3. IsFiniteSet(Workers) /\ Cardinality(Workers) = NumWorkers
  BY RolloutAssumption, FS_Interval DEF Workers
<1>4. Batch \subseteq Trajectories
  BY <1>1 DEF Batch, Trajectories
<1>5. ASSUME NEW t \in Batch PROVE TurnsLeft[t] \in 0..MaxSteps
  <2>1. /\ t \in Trajectories /\ steps[t] \in Nat
        /\ phase[t] \in {"none", "waiting", "playing", "ended", "raised"}
    BY <1>4 DEF TurnsInv, IInv, LeaseTypes
  <2>2. steps[t] <= MaxSteps
    BY <2>1, RolloutAssumption DEF TurnsInv, StepsBounded
  <2> QED
    BY <2>1, <2>2, RolloutAssumption DEF TurnsLeft
<1>6. \A w \in Workers : CallsLeft[w] \in 0..2
  BY DEF CallsLeft
<1> QED
  BY <1>1, <1>2, <1>3, <1>4, <1>5, <1>6

LEMMA WorkIsBounded ==
  ASSUME TurnsInv, manager = "generating"
  PROVE  WorkLeft \in 0..WorkBound
<1> DEFINE full == [t \in Batch |-> MaxSteps]
           calls == [w \in Workers |-> 2]
<1>1. /\ IsFiniteSet(Batch) /\ Cardinality(Batch) = size /\ size \in Nat
      /\ IsFiniteSet(Workers) /\ Cardinality(Workers) = NumWorkers
      /\ \A t \in Batch : TurnsLeft[t] \in 0..MaxSteps
      /\ \A w \in Workers : CallsLeft[w] \in 0..2
      /\ NumWorkers \in Nat /\ MaxSteps \in Int
  BY WorkTypes, RolloutAssumption
<1>2. /\ \A t \in Batch : full[t] = MaxSteps /\ TurnsLeft[t] \in Nat /\ TurnsLeft[t] <= full[t]
      /\ \A w \in Workers : calls[w] = 2 /\ CallsLeft[w] \in Nat /\ CallsLeft[w] <= calls[w]
  BY <1>1
<1> HIDE DEF full, calls
<1>3. Sum(full, Batch) = size * MaxSteps
  BY <1>1, <1>2, SumConstant
<1>4. Sum(calls, Workers) = NumWorkers * 2
  <2>1. 2 \in Int
    OBVIOUS
  <2> QED
    BY <1>1, <1>2, <2>1, SumConstant
<1>5. Sum(TurnsLeft, Batch) \in Nat /\ Sum(CallsLeft, Workers) \in Nat
  BY <1>1, <1>2, SumNat
<1>6. Sum(TurnsLeft, Batch) <= Sum(full, Batch)
  <2>1. \A t \in Batch : TurnsLeft[t] \in Int /\ full[t] \in Int /\ TurnsLeft[t] <= full[t]
    BY <1>1, <1>2
  <2> QED
    BY <1>1, <2>1, SumMonotonic
<1>7. Sum(CallsLeft, Workers) <= Sum(calls, Workers)
  <2>1. \A w \in Workers : CallsLeft[w] \in Int /\ calls[w] \in Int /\ CallsLeft[w] <= calls[w]
    BY <1>1, <1>2
  <2> QED
    BY <1>1, <2>1, SumMonotonic
<1>8. PICK p \in Nat, q \in Nat : p = Sum(TurnsLeft, Batch) /\ q = Sum(CallsLeft, Workers)
  BY <1>5
<1>9. PICK b \in Nat, c \in Nat : b = size * MaxSteps /\ c = NumWorkers * 2
  BY <1>1, RolloutAssumption
<1> QED
  BY <1>3, <1>4, <1>6, <1>7, <1>8, <1>9 DEF WorkLeft, WorkBound

\* Some turn less, and none more; or some call less, and none more.
LEMMA LessTurns ==
  ASSUME TurnsInv, manager = "generating", size' = size, worker' = worker,
         \A s \in Batch : TurnsLeft'[s] \in Int /\ TurnsLeft'[s] <= TurnsLeft[s],
         NEW t \in Batch, TurnsLeft'[t] < TurnsLeft[t]
  PROVE  WorkLeft' < WorkLeft
<1>1. /\ IsFiniteSet(Batch) /\ IsFiniteSet(Workers)
      /\ \A s \in Batch : TurnsLeft[s] \in Int
      /\ \A w \in Workers : CallsLeft[w] \in Int
  BY WorkTypes
<1>2. Batch' = Batch /\ CallsLeft' = CallsLeft
  BY DEF Batch, CallsLeft
<1>3. WorkLeft' = Sum(TurnsLeft', Batch) + Sum(CallsLeft, Workers)
  BY <1>2 DEF WorkLeft
<1>4. PICK f : f = TurnsLeft'
  OBVIOUS
<1>5. Sum(f, Batch) < Sum(TurnsLeft, Batch)
  BY <1>1, <1>4, SumDecreases
<1>6. Sum(f, Batch) \in Int /\ Sum(TurnsLeft, Batch) \in Int /\ Sum(CallsLeft, Workers) \in Int
  BY <1>1, <1>4, SumInt
<1> QED
  BY <1>3, <1>4, <1>5, <1>6 DEF WorkLeft

LEMMA LessCalls ==
  ASSUME TurnsInv, manager = "generating", size' = size,
         \A s \in Batch : TurnsLeft'[s] = TurnsLeft[s],
         \A v \in Workers : CallsLeft'[v] \in Int /\ CallsLeft'[v] <= CallsLeft[v],
         NEW w \in Workers, CallsLeft'[w] < CallsLeft[w]
  PROVE  WorkLeft' < WorkLeft
<1>1. /\ IsFiniteSet(Batch) /\ IsFiniteSet(Workers)
      /\ \A s \in Batch : TurnsLeft[s] \in Int
      /\ \A v \in Workers : CallsLeft[v] \in Int
  BY WorkTypes
<1>2. Batch' = Batch
  BY DEF Batch
<1>3. WorkLeft' = Sum(TurnsLeft', Batch) + Sum(CallsLeft', Workers)
  BY <1>2 DEF WorkLeft
<1>4. PICK f, g : f = TurnsLeft' /\ g = CallsLeft'
  OBVIOUS
<1>5. Sum(f, Batch) = Sum(TurnsLeft, Batch)
  BY <1>1, <1>4, SumSame
<1>6. Sum(g, Workers) < Sum(CallsLeft, Workers)
  BY <1>1, <1>4, SumDecreases
<1>7. /\ Sum(TurnsLeft, Batch) \in Int /\ Sum(CallsLeft, Workers) \in Int
      /\ Sum(g, Workers) \in Int
  BY <1>1, <1>4, SumInt
<1> QED
  BY <1>3, <1>4, <1>5, <1>6, <1>7 DEF WorkLeft

LEMMA StartTakesWork ==
  ASSUME TurnsInv, NEW w \in Workers, StartWorker(w)
  PROVE  WorkLeft' < WorkLeft
<1>1. /\ manager = "generating" /\ UNCHANGED <<size, steps>>
      /\ worker[w] = "called" /\ worker' = [worker EXCEPT ![w] = "running"]
      /\ worker \in [Workers -> {"idle", "called", "running", "returned", "raised"}]
  BY DEF StartWorker, TurnsInv, IInv, LeaseTypes
<1>2. /\ \A t \in Trajectories : t \notin Chunk(w) => phase'[t] = phase[t]
      /\ \A t \in Chunk(w) : phase'[t] \in {"playing", "waiting"} /\ phase[t] = "none"
  BY StartedPhases
<1>3. \A t \in Batch : TurnsLeft'[t] = TurnsLeft[t]
  <2>1. Batch' = Batch /\ Batch \subseteq Trajectories
    BY <1>1, WorkTypes DEF Batch
  <2> QED
    BY <1>1, <1>2, <2>1 DEF TurnsLeft
<1>4. /\ CallsLeft[w] = 2 /\ CallsLeft'[w] = 1
      /\ \A v \in Workers : v # w => CallsLeft'[v] = CallsLeft[v]
  BY <1>1 DEF CallsLeft
<1>5. \A v \in Workers : CallsLeft[v] \in 0..2
  BY <1>1, WorkTypes
<1>6. \A v \in Workers : CallsLeft'[v] \in Int /\ CallsLeft'[v] <= CallsLeft[v]
  BY <1>4, <1>5
<1> QED
  BY <1>1, <1>3, <1>4, <1>6, LessCalls

LEMMA ReturnTakesWork ==
  ASSUME TurnsInv, NEW w \in Workers, WorkerReturns(w) \/ WorkerRaises(w)
  PROVE  WorkLeft' < WorkLeft
<1>1. /\ manager = "generating" /\ UNCHANGED <<size, steps, phase>> /\ worker[w] = "running"
      /\ \/ worker' = [worker EXCEPT ![w] = "returned"]
         \/ worker' = [worker EXCEPT ![w] = "raised"]
      /\ worker \in [Workers -> {"idle", "called", "running", "returned", "raised"}]
  BY DEF WorkerReturns, WorkerRaises, TurnsInv, IInv, LeaseTypes
<1>2. \A t \in Batch : TurnsLeft'[t] = TurnsLeft[t]
  BY <1>1 DEF TurnsLeft, Batch
<1>3. /\ CallsLeft[w] = 1 /\ CallsLeft'[w] = 0
      /\ \A v \in Workers : v # w => CallsLeft'[v] = CallsLeft[v]
  BY <1>1 DEF CallsLeft
<1>4. \A v \in Workers : CallsLeft[v] \in 0..2
  BY <1>1, WorkTypes
<1>5. \A v \in Workers : CallsLeft'[v] \in Int /\ CallsLeft'[v] <= CallsLeft[v]
  BY <1>3, <1>4
<1> QED
  BY <1>1, <1>2, <1>3, <1>5, LessCalls

\* What a release does to the trajectories: the first waiter plays.
LEMMA ReleasedPhases ==
  ASSUME TurnsInv, NEW t \in Trajectories, phase[t] = "playing", NEW next, Release(t, next)
  PROVE  /\ phase'[t] = next
         /\ \A s \in Trajectories : s # t =>
              \/ phase'[s] = phase[s]
              \/ phase[s] = "waiting" /\ phase'[s] = "playing"
<1> DEFINE w == WorkerOf(t)
           h == Head(waiting[w])
<1>1. /\ waiting[w] \in Seq(Trajectories) /\ w \in Workers
      /\ phase \in [Trajectories -> {"none", "waiting", "playing", "ended", "raised"}]
  BY PlayerFacts DEF TurnsInv, IInv, LeaseTypes
<1>2. CASE waiting[w] = <<>>
  BY <1>1, <1>2 DEF Release
<1>3. CASE waiting[w] # <<>>
  <2>1. phase' = [phase EXCEPT ![t] = next, ![h] = "playing"]
    BY <1>3 DEF Release
  <2>2. 1 \in DOMAIN waiting[w] /\ h = waiting[w][1]
    BY <1>1, <1>3
  <2>3. phase[h] = "waiting"
    BY <1>1, <2>2 DEF TurnsInv, IInv, QueuesHoldWaiters
  <2> HIDE DEF h
  <2> QED
    BY <1>1, <2>1, <2>3
<1> QED
  BY <1>2, <1>3

LEMMA TurnTakesWork ==
  ASSUME TurnsInv, NEW t \in Trajectories, Turn(t)
  PROVE  WorkLeft' < WorkLeft
<1>1. /\ manager = "generating" /\ phase[t] = "playing" /\ UNCHANGED <<size, worker>>
      /\ phase \in [Trajectories -> {"none", "waiting", "playing", "ended", "raised"}]
      /\ steps \in [Trajectories -> Nat] /\ steps[t] < MaxSteps /\ MaxSteps \in Nat
  BY RolloutAssumption
     DEF Turn, Raise, Play, PlayLast, TurnsInv, IInv, LeaseTypes, StepsBounded
<1>2. /\ Batch' = Batch /\ Batch \subseteq Trajectories
      /\ \A s \in Batch : TurnsLeft[s] \in 0..MaxSteps
  BY <1>1, WorkTypes DEF Batch
<1>3. t \in Batch
  <2>1. PICK w \in Workers : t \in Chunk(w)
    BY <1>1 DEF TurnsInv, IInv, OnlyWorkersPlay
  <2>2. Chunk(w) \subseteq 1..size
    BY <1>1, WorkTypes, SliceBounds
  <2> QED
    BY <2>1, <2>2 DEF Batch
<1>4. /\ \A s \in Trajectories : s # t => steps'[s] = steps[s]
      /\ \/ steps' = steps /\ phase'[t] = "raised"
         \/ steps'[t] = steps[t] + 1 /\ phase'[t] \in {"playing", "ended"}
      /\ \A s \in Trajectories : s # t =>
           \/ phase'[s] = phase[s]
           \/ phase[s] = "waiting" /\ phase'[s] = "playing"
  <2>1. CASE Raise(t)
    BY <2>1, <1>1, ReleasedPhases DEF Raise
  <2>2. CASE \E wellFormed \in BOOLEAN : Play(t, wellFormed)
    BY <2>2, <1>1 DEF Play
  <2>3. CASE \E wellFormed \in BOOLEAN : PlayLast(t, wellFormed)
    BY <2>3, <1>1, ReleasedPhases DEF PlayLast
  <2> QED
    BY <2>1, <2>2, <2>3 DEF Turn
<1>5. \A s \in Trajectories : s # t =>
        (phase'[s] \in {"ended", "raised"} <=> phase[s] \in {"ended", "raised"})
  BY <1>4
<1>6. TurnsLeft[t] = MaxSteps - steps[t] /\ TurnsLeft'[t] \in Int /\ TurnsLeft'[t] < TurnsLeft[t]
  BY <1>1, <1>2, <1>3, <1>4 DEF TurnsLeft
<1>7. \A s \in Batch : s # t => TurnsLeft'[s] = TurnsLeft[s]
  BY <1>2, <1>4, <1>5 DEF TurnsLeft
<1>8. \A s \in Batch : TurnsLeft'[s] \in Int /\ TurnsLeft'[s] <= TurnsLeft[s]
  <2>1. \A s \in Batch : TurnsLeft[s] \in Int
    BY <1>2
  <2>2. TurnsLeft[t] \in Int
    BY <2>1, <1>3
  <2> QED
    BY <2>1, <2>2, <1>6, <1>7
<1> QED
  BY <1>1, <1>3, <1>6, <1>8, LessTurns

\* Every step of a batch that is not its last takes some work off.
LEMMA StepsTakeWork ==
  TurnsInv /\ [Next]_vars => [manager = "generating" /\ manager' = "generating" =>
                                WorkLeft' < WorkLeft]_vars
<1> SUFFICES ASSUME TurnsInv, Next, manager = "generating", manager' = "generating"
             PROVE  WorkLeft' < WorkLeft \/ UNCHANGED vars
  OBVIOUS
<1>1. CASE \E n \in BatchSizes : Generate(n)
  BY <1>1 DEF Generate
<1>2. CASE \E w \in Workers : StartWorker(w) \/ WorkerReturns(w) \/ WorkerRaises(w)
  BY <1>2, StartTakesWork, ReturnTakesWork
<1>3. CASE \E t \in Trajectories : Turn(t)
  BY <1>3, TurnTakesWork
<1>4. CASE ManagerReturns \/ ManagerFails \/ Failed
  BY <1>4 DEF ManagerReturns, ManagerFails, Failed
<1> QED
  BY <1>1, <1>2, <1>3, <1>4 DEF Next

\* A batch of n samples is over after at most n times max_steps turns and two steps
\* of each worker: the work that is left has that bound, and every step that is not
\* the last of the batch takes some of it off.
THEOREM BatchTakesBoundedWork ==
  Spec => /\ [](manager = "generating" => WorkLeft \in 0..WorkBound)
          /\ [][manager = "generating" /\ manager' = "generating" => WorkLeft' < WorkLeft]_vars
<1>1. TurnsInv => (manager = "generating" => WorkLeft \in 0..WorkBound)
  BY WorkIsBounded
<1> QED
  BY <1>1, TurnsInit, TurnsNext, StepsTakeWork, PTL DEF Spec
=============================================================================
