----------------------------- MODULE TrainBatch -----------------------------
(***************************************************************************)
(* What RayAgentTrainer.fit does with the trajectories of one batch        *)
(* (arft/ray_agent_trainer.py): AgentFlowWorker._postprocess lays them     *)
(* out, one row for each step, the rows are padded to the number of        *)
(* workers, reordered to balance these, scaled, given advantages, and then *)
(* the critic and the actor are updated.                                   *)
(*                                                                         *)
(* The loops of the two GAE estimators are stepped through; the other      *)
(* estimators are the operators of Advantage.                              *)
(***************************************************************************)
EXTENDS Advantage

CONSTANTS
  Divisor,      \* the world size the batch is padded to
  MaxRows,      \* bound on the steps of all trajectories of a batch
  MaxMoved,     \* bound on the rows that balancing moves
  Scores,       \* reward_score of a step
  ScaleFactors  \* what reward scaling multiplies a batch with

ASSUME TrainBatchAssumption ==
  /\ Divisor \in Nat \ {0} /\ MaxRows \in Nat /\ MaxMoved \in Nat
  /\ Scores \subseteq Int /\ ScaleFactors \subseteq Int

Estimators ==
  {"gae", "token_gae", "grpo", "reinforce_plus_plus",
   "reinforce_plus_plus_baseline", "rloo", "gigpo"}

VARIABLES
  pc,        \* where fit is
  traj,      \* the trajectory that _postprocess lays out
  steps,     \* num_steps of each trajectory
  batch,     \* the rows
  lossMask,  \* batch["response_mask"], as the workers read it
  est,       \* algorithm.adv_estimator
  top,       \* max_step
  t, j,      \* the step and the token that a GAE loop did last
  lastgaelam, bootstrap,  \* its state for each trajectory
  gae,       \* advantages_map
  adv, ret,  \* batch["advantages"], batch["returns"]
  earned     \* history: what each trajectory was scored, scaled with its batch

layout == <<traj, steps, batch, earned>>
loop == <<top, t, j, lastgaelam, bootstrap, gae>>
vars == <<pc, layout, lossMask, est, loop, adv, ret>>

-----------------------------------------------------------------------------
ZeroTable == [i \in Trajs |-> [u \in Steps |-> 0]]
Zeros == [i \in Trajs |-> 0]

Init ==
  /\ pc = "rollout"
  /\ traj = 1 /\ steps = Zeros
  /\ batch = <<>> /\ lossMask = <<>> /\ adv = <<>> /\ ret = <<>>
  /\ est = "none"
  /\ top = 0 /\ t = 0 /\ j = 0
  /\ lastgaelam = Zeros /\ bootstrap = Zeros /\ gae = ZeroTable
  /\ earned = Zeros

\* Mutant: goes past the last trajectory.
CollectStep_PastTheEnd(score, len, isLast) ==
  /\ pc = "rollout"
  /\ IF isLast THEN TRUE
     ELSE steps[traj] + 1 < MaxSteps /\ Len(batch) + NumTrajs - traj + 1 < MaxRows
  /\ batch' = Append(batch, [traj |-> traj, step |-> steps[traj], len |-> len,
                             reward |-> score, pad |-> FALSE])
  /\ steps' = [steps EXCEPT ![traj] = @ + 1]
  /\ earned' = [earned EXCEPT ![traj] = @ + score]
  /\ traj' = IF isLast THEN traj + 1 ELSE traj
  /\ pc' = IF isLast /\ traj = NumTrajs THEN "pad" ELSE "rollout"
  /\ UNCHANGED <<lossMask, est, loop, adv, ret>>

\* One round of the inner loop of _postprocess.  Every trajectory has a step.
CollectStep(score, len, isLast) ==
  /\ pc = "rollout"
  /\ IF isLast THEN TRUE
     ELSE steps[traj] + 1 < MaxSteps /\ Len(batch) + NumTrajs - traj + 1 < MaxRows
  /\ batch' = Append(batch, [traj |-> traj, step |-> steps[traj], len |-> len,
                             reward |-> score, pad |-> FALSE])
  /\ steps' = [steps EXCEPT ![traj] = @ + 1]
  /\ earned' = [earned EXCEPT ![traj] = @ + score]
  /\ traj' = IF isLast /\ traj < NumTrajs THEN traj + 1 ELSE traj
  /\ pc' = IF isLast /\ traj = NumTrajs THEN "pad" ELSE "rollout"
  /\ UNCHANGED <<lossMask, est, loop, adv, ret>>

PadSize == (Divisor - (Len(batch) % Divisor)) % Divisor

\* pad_dataproto_to_divisor: copies of the rows, from the first on.
Padded ==
  [k \in 1..Len(batch) + PadSize |->
     IF k <= Len(batch) THEN batch[k]
     ELSE [batch[((k - 1) % Len(batch)) + 1] EXCEPT !.pad = TRUE]]

Pad ==
  /\ pc = "pad"
  /\ batch' = Padded
  /\ pc' = "balance"
  /\ UNCHANGED <<traj, steps, earned, lossMask, est, loop, adv, ret>>

Orders == {f \in Bijection(DOMAIN batch, DOMAIN batch) :
             Cardinality({k \in DOMAIN batch : f[k] # k}) <= MaxMoved}

\* Mutant: is_pad stays where it was.
Balance_FlagsStay ==
  /\ pc = "balance"
  /\ \E order \in Orders :
       /\ batch' = [k \in DOMAIN batch |-> [batch[order[k]] EXCEPT !.pad = batch[k].pad]]
       /\ lossMask' = [k \in DOMAIN batch |-> Mask(batch[order[k]])]
  /\ pc' = "scale"
  /\ UNCHANGED <<traj, steps, earned, est, loop, adv, ret>>

\* _balance_batch: any order of the rows, DataProto.reorder.
Balance ==
  /\ pc = "balance"
  /\ \E order \in Orders :
       /\ batch' = [k \in DOMAIN batch |-> batch[order[k]]]
       /\ lossMask' = [k \in DOMAIN batch |-> Mask(batch[order[k]])]
  /\ pc' = "scale"
  /\ UNCHANGED <<traj, steps, earned, est, loop, adv, ret>>

\* RewardScalingByReturnStd.scale_batch: one factor, for the rows no padding made.
Scale(factor) ==
  /\ pc = "scale"
  /\ batch' = [k \in DOMAIN batch |->
                 IF batch[k].pad THEN batch[k]
                 ELSE [batch[k] EXCEPT !.reward = @ * factor]]
  /\ earned' = [i \in Trajs |-> earned[i] * factor]
  /\ pc' = "advantage"
  /\ UNCHANGED <<traj, steps, lossMask, est, loop, adv, ret>>

-----------------------------------------------------------------------------
\* The entry of compute_advantage and of the estimator: max_step is the
\* largest step index plus one.
ComputeAdvantage(e) ==
  /\ pc = "advantage"
  /\ est' = e
  /\ adv' = [k \in DOMAIN batch |-> NoCell]
  /\ ret' = [k \in DOMAIN batch |-> NoCell]
  /\ \E m \in 1..MaxSteps :
       /\ \E k \in Real(batch) : batch[k].step = m - 1
       /\ \A k \in Real(batch) : batch[k].step < m
       /\ top' = m
       /\ t' = m
  /\ pc' = IF e \in {"gae", "token_gae"} THEN e ELSE "outcome"
  /\ UNCHANGED <<layout, lossMask, j, lastgaelam, bootstrap, gae>>

\* A round of the loop of compute_gae_advantage_return.
GaeStep ==
  /\ pc = "gae" /\ t > 0
  /\ t' = t - 1
  /\ lastgaelam' = [i \in Trajs |-> Delta(batch, top, i, t - 1) + Gamma * Lambda * lastgaelam[i]]
  /\ gae' = [i \in Trajs |-> [gae[i] EXCEPT ![t - 1] = lastgaelam'[i]]]
  /\ UNCHANGED <<pc, layout, lossMask, est, top, j, bootstrap, adv, ret>>

RawAdvantage == [k \in DOMAIN batch |-> gae[batch[k].traj][batch[k].step]]

\* Its end: whitened over the steps, then broadcast to the tokens.
GaeEnd ==
  /\ pc = "gae" /\ t = 0
  /\ adv' = StepWhitened(batch, RawAdvantage)
  /\ ret' = [k \in DOMAIN batch |->
               IF batch[k].pad THEN NoCell
               ELSE Broadcast(batch[k], RawAdvantage[k] + Value(batch[k], 1), 1)]
  /\ pc' = "critic"
  /\ UNCHANGED <<layout, lossMask, est, loop>>

\* Mutant: every step bootstraps from nothing.
TokenStep_ForgetsTheFuture ==
  /\ pc = "token_gae" /\ t > 0 /\ j = 0
  /\ t' = t - 1
  /\ j' = RespLen
  /\ bootstrap' = Zeros
  /\ UNCHANGED <<pc, layout, lossMask, est, top, lastgaelam, gae, adv, ret>>

\* row_map[:, t] of compute_token_gae_advantage_return: the next step of each
\* trajectory that has so many.
TokenStep ==
  /\ pc = "token_gae" /\ t > 0 /\ j = 0
  /\ t' = t - 1
  /\ j' = RespLen
  /\ UNCHANGED <<pc, layout, lossMask, est, top, lastgaelam, bootstrap, gae, adv, ret>>

\* The rows whose token j is an action.
Acting == {k \in Real(batch) : batch[k].step = t /\ Mask(batch[k])[j] = 1}

\* lastgaelam_ of that token.
TokenGae(row) ==
  TokenReward(row, j) + Gamma * bootstrap[row.traj] - Value(row, j)
    + Gamma * Lambda * lastgaelam[row.traj]

\* A round of its inner loop: other tokens do not advance the recursion.
TokenRound ==
  /\ pc = "token_gae" /\ j > 0
  /\ j' = j - 1
  /\ lastgaelam' = [i \in Trajs |->
       IF \E k \in Acting : batch[k].traj = i
       THEN TokenGae(batch[CHOOSE k \in Acting : batch[k].traj = i])
       ELSE lastgaelam[i]]
  /\ bootstrap' = [i \in Trajs |->
       IF \E k \in Acting : batch[k].traj = i
       THEN Value(batch[CHOOSE k \in Acting : batch[k].traj = i], j)
       ELSE bootstrap[i]]
  /\ adv' = [k \in DOMAIN batch |->
       IF k \in Acting THEN [adv[k] EXCEPT !.num[j] = TokenGae(batch[k])] ELSE adv[k]]
  /\ ret' = [k \in DOMAIN batch |->
       IF k \in Acting
       THEN [ret[k] EXCEPT !.num[j] = TokenGae(batch[k]) + Value(batch[k], j)]
       ELSE ret[k]]
  /\ UNCHANGED <<pc, layout, lossMask, est, top, t, gae>>

\* Its end: whitened over the action tokens.
TokenGaeEnd ==
  /\ pc = "token_gae" /\ t = 0 /\ j = 0
  /\ adv' = TokenWhitened(batch, [k \in DOMAIN batch |-> adv[k].num], 1)
  /\ pc' = "critic"
  /\ UNCHANGED <<layout, lossMask, est, loop, ret>>

\* The estimators without a value function, which need no critic either.
Outcome ==
  /\ pc = "outcome"
  /\ adv' = CASE est = "grpo" -> GrpoAdvantage(batch)
              [] est = "rloo" -> RlooAdvantage(batch)
              [] est = "gigpo" -> GigpoAdvantage(batch)
              [] est = "reinforce_plus_plus" -> PlusPlusAdvantage(batch)
              [] est = "reinforce_plus_plus_baseline" -> BaselineAdvantage(batch)
  /\ ret' = IF est = "reinforce_plus_plus" THEN PlusPlusReturns(batch) ELSE adv'
  /\ pc' = "actor"
  /\ UNCHANGED <<layout, lossMask, est, loop>>

-----------------------------------------------------------------------------
\* _critic_vf_loss_response_mask, for every row of the batch.
CriticMask(k) ==
  IF est = "token_gae" THEN lossMask[k]
  ELSE [l \in Tokens |-> IF l = 1 THEN 1 ELSE 0]

\* The swap of response_mask before _update_critic.
MaskForCritic ==
  /\ pc = "critic"
  /\ lossMask' = [k \in DOMAIN batch |-> CriticMask(k)]
  /\ pc' = "update_critic"
  /\ UNCHANGED <<layout, est, loop, adv, ret>>

\* _update_critic, then response_mask is put back.
UpdateCritic ==
  /\ pc = "update_critic"
  /\ lossMask' = [k \in DOMAIN batch |-> Mask(batch[k])]
  /\ pc' = "actor"
  /\ UNCHANGED <<layout, est, loop, adv, ret>>

\* _update_actor, and on to the next batch.
UpdateActor ==
  /\ pc = "actor"
  /\ pc' = "rollout"
  /\ traj' = 1 /\ steps' = Zeros
  /\ batch' = <<>> /\ lossMask' = <<>> /\ adv' = <<>> /\ ret' = <<>>
  /\ est' = "none"
  /\ top' = 0 /\ t' = 0 /\ j' = 0
  /\ lastgaelam' = Zeros /\ bootstrap' = Zeros /\ gae' = ZeroTable
  /\ earned' = Zeros

Next ==
  \/ \E score \in Scores, len \in Tokens, isLast \in BOOLEAN : CollectStep(score, len, isLast)
  \/ Pad
  \/ Balance
  \/ \E factor \in ScaleFactors : Scale(factor)
  \/ \E e \in Estimators : ComputeAdvantage(e)
  \/ GaeStep \/ GaeEnd
  \/ TokenStep \/ TokenRound \/ TokenGaeEnd
  \/ Outcome
  \/ MaskForCritic \/ UpdateCritic
  \/ UpdateActor

Spec == Init /\ [][Next]_vars

-----------------------------------------------------------------------------
(***************************************************************************)
(* Properties.                                                             *)
(***************************************************************************)
\* The types of all variables.  What compute_advantage writes has one cell
\* for each row.
TypeOK ==
  /\ pc \in {"rollout", "pad", "balance", "scale", "advantage", "gae", "token_gae",
            "outcome", "critic", "update_critic", "actor"}
  /\ traj \in Trajs
  /\ steps \in [Trajs -> 0..MaxSteps]
  /\ batch \in Seq(Row)
  /\ est \in Estimators \union {"none"}
  /\ top \in 0..MaxSteps /\ t \in 0..top /\ j \in 0..RespLen
  /\ lastgaelam \in [Trajs -> Int] /\ bootstrap \in [Trajs -> Int]
  /\ gae \in [Trajs -> [Steps -> Int]]
  /\ earned \in [Trajs -> Int]
  /\ lossMask # <<>> => lossMask \in [DOMAIN batch -> [Tokens -> {0, 1}]]
  /\ adv # <<>> => adv \in [DOMAIN batch -> [num : [Tokens -> Int], den : Nat \ {0}]]
  /\ ret # <<>> => ret \in [DOMAIN batch -> [num : [Tokens -> Int], den : Nat \ {0}]]

\* Padding and reordering lose and repeat nothing: once the batch is laid out
\* get_valid_data finds each step of each trajectory in exactly one row, and
\* every other row is a copy of one of these.
EachStepOnce ==
  pc \notin {"rollout", "pad"} =>
    /\ Len(batch) % Divisor = 0
    /\ \A i \in Trajs, u \in Steps : u < steps[i] => RowsOf(batch, i, u) # {}
    /\ \A k, l \in Real(batch) :
         batch[k].traj = batch[l].traj /\ batch[k].step = batch[l].step => k = l
    /\ \A k \in DOMAIN batch : batch[k].step < steps[batch[k].traj]
    /\ \A k \in DOMAIN batch : \E l \in Real(batch) :
         /\ batch[l].traj = batch[k].traj /\ batch[l].step = batch[k].step
         /\ batch[l].len = batch[k].len

AdvantagesReady == pc \in {"critic", "update_critic", "actor"}

\* The row of the step after that of row k, if its trajectory has one.
Following(k) ==
  {l \in Real(batch) : batch[l].traj = batch[k].traj /\ batch[l].step = batch[k].step + 1}

StepAdvantage(k) == ret[k].num[1] - Value(batch[k], 1)

\* Step-level GAE runs along one trajectory: wherever its rows are in the
\* batch, the advantage of a step continues in the next step of the same
\* trajectory, and the last step of each trajectory bootstraps from nothing,
\* even when other trajectories go on.
StepGaeAlongTrajectory ==
  AdvantagesReady /\ est = "gae" =>
    \A k \in Real(batch) :
      /\ Following(k) = {} =>
           StepAdvantage(k) = batch[k].reward - Value(batch[k], 1)
      /\ \A l \in Following(k) :
           StepAdvantage(k) =
             batch[k].reward + Gamma * Value(batch[l], 1) - Value(batch[k], 1)
               + Gamma * Lambda * StepAdvantage(l)

TokenAdvantage(k, n) == ret[k].num[n] - Value(batch[k], n)

\* What token n of row k is worth when token m of row l comes next.
Continues(k, n, l, m) ==
  TokenAdvantage(k, n) =
    TokenReward(batch[k], n) + Gamma * Value(batch[l], m) - Value(batch[k], n)
      + Gamma * Lambda * TokenAdvantage(l, m)

\* Token-level GAE sees a trajectory as one timeline of its action tokens: the
\* last token of a step continues in the first token of the next step, and
\* that of the last step bootstraps from nothing.
TokenGaeIsOneTimeline ==
  AdvantagesReady /\ est = "token_gae" =>
    \A k \in Real(batch) :
      /\ \A n \in 1..batch[k].len - 1 : Continues(k, n, k, n + 1)
      /\ \A l \in Following(k) : Continues(k, batch[k].len, l, 1)
      /\ Following(k) = {} =>
           TokenAdvantage(k, batch[k].len) =
             batch[k].reward - Value(batch[k], batch[k].len)

Rivals(i) == {h \in Trajs : PromptOf[h] = PromptOf[i]}

\* Size(i) times what trajectory i earned more than its group did on average.
Size(i) == Cardinality(Rivals(i))
Excess(i) == IF Size(i) = 1 THEN earned[i] ELSE Size(i) * earned[i] - Sum(earned, Rivals(i))

\* The advantage of an outcome estimator compares a trajectory with those of
\* the same prompt, whatever their numbers of steps, the padding and the
\* order of the rows: its score less the mean score (grpo), or less the mean
\* of the others (rloo), the same for all its tokens; a lone trajectory keeps
\* its score.
RelativeToItsGroup ==
  pc = "actor" /\ est \in {"grpo", "rloo"} =>
    \A k \in Real(batch) : \A m \in 1..batch[k].len :
      LET i == batch[k].traj
          others == Rivals(i) \ {i}
      IN IF est = "grpo" \/ others = {}
         THEN Size(i) * adv[k].num[m] = adv[k].den * Excess(i)
         ELSE Cardinality(others) * (adv[k].num[m] - adv[k].den * earned[i])
                = - adv[k].den * Sum(earned, others)

\* The powers of Gamma.
GammaTo == LET power[n \in 0..MaxSteps] == IF n = 0 THEN 1 ELSE Gamma * power[n - 1] IN power

\* What a trajectory earned from the step of row k on, discounted.
Future(k) ==
  {l \in Real(batch) : batch[l].traj = batch[k].traj /\ batch[l].step >= batch[k].step}

Discounted(k) ==
  Sum([l \in Future(k) |-> batch[l].reward * GammaTo[batch[l].step - batch[k].step]], Future(k))

\* The rows of the same prompt that start from the same observation.
Alike(k) ==
  {l \in Real(batch) :
     /\ batch[l].traj \in Rivals(batch[k].traj)
     /\ AnchorOf[batch[l].traj][batch[l].step] = AnchorOf[batch[k].traj][batch[k].step]}

\* GiGPO credits a step for its future only: rows of a prompt that start from
\* one observation differ by what their trajectories earned in all, and by
\* StepWeight times what they earned from that step on, and over these rows
\* the second part adds up to zero.
StepsComparedAtTheirAnchor ==
  pc = "actor" /\ est = "gigpo" =>
    \A k \in Real(batch) :
      /\ \A l \in Alike(k) :
           adv[k].num[1] - adv[l].num[1] =
             adv[k].den * (earned[batch[k].traj] - earned[batch[l].traj]
                             + StepWeight * (Discounted(k) - Discounted(l)))
      /\ Size(batch[k].traj) * Sum([l \in Alike(k) |-> adv[l].num[1]], Alike(k)) =
           adv[k].den * Sum([l \in Alike(k) |-> Excess(batch[l].traj)], Alike(k))

\* Whitening moves all advantages by one mean, over the real rows only: their
\* sum is zero (over the steps for gae, over the action tokens for the others),
\* and the differences between them are those before whitening.
WhitenedIsCentred ==
  /\ AdvantagesReady /\ est = "gae" =>
       /\ Sum([k \in Real(batch) |-> adv[k].num[1]], Real(batch)) = 0
       /\ \A k, l \in Real(batch) :
            adv[k].num[1] - adv[l].num[1] =
              adv[k].den * (StepAdvantage(k) - StepAdvantage(l))
  /\ AdvantagesReady
       /\ est \in {"token_gae", "reinforce_plus_plus", "reinforce_plus_plus_baseline"} =>
       /\ Sum([c \in ActionCells(batch) |-> adv[c[1]].num[c[2]]], ActionCells(batch)) = 0
       /\ \A c, d \in ActionCells(batch) :
            LET moved == adv[c[1]].num[c[2]] - adv[d[1]].num[d[2]]
                den   == adv[c[1]].den
                i     == batch[c[1]].traj
                h     == batch[d[1]].traj
            IN CASE est = "token_gae" ->
                      moved = den * (TokenAdvantage(c[1], c[2]) - TokenAdvantage(d[1], d[2]))
                 [] est = "reinforce_plus_plus" ->
                      moved = den * (ret[c[1]].num[c[2]] - ret[d[1]].num[d[2]])
                 [] est = "reinforce_plus_plus_baseline" ->
                      Size(i) * Size(h) * moved = den * (Size(h) * Excess(i) - Size(i) * Excess(h))

\* The comment at ray_agent_trainer.py:1000: "batch needs to be padded to
\* divisor of world size, we will pad with everything masked out".
PadsAreMaskedOut ==
  pc \in {"update_critic", "actor"} =>
    \A k \in DOMAIN batch : batch[k].pad => \A m \in Tokens : lossMask[k][m] = 0
=============================================================================
