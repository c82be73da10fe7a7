------------------------------ MODULE Advantage ------------------------------
(***************************************************************************)
(* The advantage estimators of arft/core_algos.py, as operators over a     *)
(* batch of rows.  A row is one step of one trajectory: its response has   *)
(* RespLen token places of which the first len were generated (the         *)
(* response mask), and its whole reward sits on the last of these.         *)
(*                                                                         *)
(* Numbers are integers.  An advantage is a numerator for each token over  *)
(* one denominator; the division by a standard deviation, one positive     *)
(* factor for each batch or group, is left out.                            *)
(***************************************************************************)
EXTENDS Integers, Sequences, Sums

CONSTANTS
  NumTrajs,  \* the trajectories of a batch
  MaxSteps,  \* max_steps of a trajectory
  RespLen,   \* rollout.response_length
  Prompts,   \* uid of the samples
  PromptOf,  \* the sample each trajectory was rolled out from
  Anchors,   \* the observations a step may start from
  AnchorOf,  \* anchor_obs of each step
  ValueOf,   \* the critic: the value before each token of each step
  Gamma, Lambda,
  StepWeight \* gigpo.step_advantage_w

Trajs == 1..NumTrajs
Steps == 0..MaxSteps - 1
Tokens == 1..RespLen

ASSUME AdvantageAssumption ==
  /\ NumTrajs \in Nat \ {0} /\ MaxSteps \in Nat \ {0} /\ RespLen \in Nat \ {0}
  /\ PromptOf \in [Trajs -> Prompts]
  /\ AnchorOf \in [Trajs -> [Steps -> Anchors]]
  /\ ValueOf \in [Trajs -> [Steps -> [Tokens -> Int]]]
  /\ Gamma \in Int /\ Lambda \in Int /\ StepWeight \in Int

Row == [traj : Trajs, step : Steps, len : Tokens, reward : Int, pad : BOOLEAN]

-----------------------------------------------------------------------------
Mask(row) == [j \in Tokens |-> IF j <= row.len THEN 1 ELSE 0]

TokenReward(row, j) == IF j = row.len THEN row.reward ELSE 0

Value(row, j) == ValueOf[row.traj][row.step][j]

\* get_valid_data: the rows that no padding made.
Real(batch) == {k \in DOMAIN batch : ~batch[k].pad}

RowsOf(batch, i, u) ==
  {k \in Real(batch) : batch[k].traj = i /\ batch[k].step = u}

\* rewards_map and values_map: zero where a trajectory has no such step.
RewardsMap(batch, i, u) ==
  IF RowsOf(batch, i, u) = {} THEN 0
  ELSE batch[CHOOSE k \in RowsOf(batch, i, u) : TRUE].reward

ValuesMap(batch, i, u) ==
  IF RowsOf(batch, i, u) = {} THEN 0
  ELSE Value(batch[CHOOSE k \in RowsOf(batch, i, u) : TRUE], 1)

\* Mutant: the last step of the longest trajectory bootstraps from itself.
Delta_SelfBootstrap(batch, top, i, u) ==
  RewardsMap(batch, i, u) - ValuesMap(batch, i, u)
    + Gamma * ValuesMap(batch, i, IF u < top - 1 THEN u + 1 ELSE u)

\* One iteration of the loop of compute_gae_advantage_return, u = t.
Delta(batch, top, i, u) ==
  RewardsMap(batch, i, u) - ValuesMap(batch, i, u)
    + (IF u < top - 1 THEN Gamma * ValuesMap(batch, i, u + 1) ELSE 0)

-----------------------------------------------------------------------------
Cell(num, den) == [num |-> num, den |-> den]
NoCell == Cell([j \in Tokens |-> 0], 1)

\* A scalar of the row on each of its action tokens.
Broadcast(row, num, den) == Cell([j \in Tokens |-> num * Mask(row)[j]], den)

\* Mutant: the mean is taken over the padding too.
StepWhitened_WithPads(batch, raw) ==
  LET n     == Len(batch)
      total == Sum(raw, DOMAIN batch)
  IN [k \in DOMAIN batch |->
        IF batch[k].pad THEN NoCell
        ELSE Broadcast(batch[k], n * raw[k] - total, n)]

ActionCells(batch) == {c \in Real(batch) \X Tokens : Mask(batch[c[1]])[c[2]] = 1}

StepWhitened(batch, raw) ==
  LET n     == Cardinality(Real(batch))
      total == Sum(raw, Real(batch))
  IN [k \in DOMAIN batch |->
        IF batch[k].pad THEN NoCell
        ELSE Broadcast(batch[k], n * raw[k] - total, n)]

\* masked_whiten over the action tokens; x is a numerator over den.
TokenWhitened(batch, x, den) ==
  LET n     == Cardinality(ActionCells(batch))
      total == Sum([c \in ActionCells(batch) |-> x[c[1]][c[2]]], ActionCells(batch))
  IN [k \in DOMAIN batch |->
        IF batch[k].pad THEN NoCell
        ELSE Cell([j \in Tokens |-> n * x[k][j] - total], n * den)]

Masked(batch, cells) ==
  [k \in DOMAIN batch |->
     Cell([j \in Tokens |-> cells[k].num[j] * Mask(batch[k])[j]], cells[k].den)]

-----------------------------------------------------------------------------
\* traj2total_score, and the trajectories of a sample.
RowsOfTraj(batch, i) == {k \in Real(batch) : batch[k].traj = i}

Total(batch, i) == Sum([k \in RowsOfTraj(batch, i) |-> batch[k].reward], RowsOfTraj(batch, i))

Group(batch, p) ==
  {i \in Trajs : PromptOf[i] = p /\ RowsOfTraj(batch, i) # {}}

GroupTotal(batch, p) == Sum([i \in Trajs |-> Total(batch, i)], Group(batch, p))

\* The outcome minus the mean of its group, or the outcome of a singleton.
OverGroupMean(batch, i) ==
  LET p == PromptOf[i]
      n == Cardinality(Group(batch, p))
  IN [num |-> IF n > 1 THEN n * Total(batch, i) - GroupTotal(batch, p)
              ELSE Total(batch, i),
      den |-> IF n > 1 THEN n ELSE 1]

\* Mutant: the sum over the others is divided by the size of the group.
RlooAdvantage_WithItself(batch) ==
  [k \in DOMAIN batch |->
     IF batch[k].pad THEN NoCell
     ELSE LET i == batch[k].traj
              p == PromptOf[i]
              n == Cardinality(Group(batch, p))
          IN IF n > 1
             THEN Broadcast(batch[k], n * Total(batch, i) - GroupTotal(batch, p), n)
             ELSE Broadcast(batch[k], Total(batch, i), 1)]

GrpoAdvantage(batch) ==
  [k \in DOMAIN batch |->
     IF batch[k].pad THEN NoCell
     ELSE LET a == OverGroupMean(batch, batch[k].traj)
          IN Broadcast(batch[k], a.num, a.den)]

RlooAdvantage(batch) ==
  [k \in DOMAIN batch |->
     IF batch[k].pad THEN NoCell
     ELSE LET i == batch[k].traj
              p == PromptOf[i]
              n == Cardinality(Group(batch, p))
          IN IF n > 1
             THEN Broadcast(batch[k], n * Total(batch, i) - GroupTotal(batch, p), n - 1)
             ELSE Broadcast(batch[k], Total(batch, i), 1)]

\* A common denominator of the group means.
CommonDen(batch) ==
  LET product[i \in 1..NumTrajs + 1] ==
        IF i = NumTrajs + 1 THEN 1 ELSE OverGroupMean(batch, i).den * product[i + 1]
  IN product[1]

\* The group means over it, then whitened.
BaselineAdvantage(batch) ==
  LET den == CommonDen(batch)
      x   == [k \in DOMAIN batch |->
                LET a == OverGroupMean(batch, batch[k].traj)
                IN [j \in Tokens |-> a.num * (den \div a.den) * Mask(batch[k])[j]]]
  IN Masked(batch, TokenWhitened(batch, x, den))

\* compute_reinforce_plus_plus_outcome_advantage: returns inside each row.
RowReturns(row) ==
  LET run[j \in 1..RespLen + 1] ==
        IF j = RespLen + 1 THEN 0
        ELSE Mask(row)[j] * (TokenReward(row, j) + Gamma * run[j + 1])
  IN [j \in Tokens |-> TokenReward(row, j) + Gamma * run[j + 1]]

PlusPlusReturns(batch) ==
  [k \in DOMAIN batch |->
     IF batch[k].pad THEN NoCell ELSE Cell(RowReturns(batch[k]), 1)]

PlusPlusAdvantage(batch) ==
  Masked(batch, TokenWhitened(batch, [k \in DOMAIN batch |-> RowReturns(batch[k])], 1))

\* Mutant: accumulated from the first step on, as reward scaling does.
StepReturn_Forward(batch, i) ==
  LET run[u \in Steps] ==
        IF u = 0 THEN RewardsMap(batch, i, 0)
        ELSE RewardsMap(batch, i, u) + Gamma * run[u - 1]
  IN run

-----------------------------------------------------------------------------
\* compute_step_discounted_returns
StepReturn(batch, i) ==
  LET run[u \in 0..MaxSteps] ==
        IF u = MaxSteps THEN 0 ELSE RewardsMap(batch, i, u) + Gamma * run[u + 1]
  IN run

\* _build_step_groups: the rows of a sample that start from one observation.
StepGroup(batch, k) ==
  {l \in Real(batch) :
     /\ PromptOf[batch[l].traj] = PromptOf[batch[k].traj]
     /\ AnchorOf[batch[l].traj][batch[l].step] = AnchorOf[batch[k].traj][batch[k].step]}

\* mode mean_norm, observations compared exactly.
GigpoAdvantage(batch) ==
  LET return == [k \in Real(batch) |-> StepReturn(batch, batch[k].traj)[batch[k].step]]
  IN [k \in DOMAIN batch |->
        IF batch[k].pad THEN NoCell
        ELSE LET a == OverGroupMean(batch, batch[k].traj)
                 m == Cardinality(StepGroup(batch, k))
                 s == m * return[k] - Sum(return, StepGroup(batch, k))
             IN Broadcast(batch[k], a.num * m + StepWeight * s * a.den, a.den * m)]
=============================================================================
