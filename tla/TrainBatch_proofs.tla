-------------------------- MODULE TrainBatch_proofs --------------------------
(***************************************************************************)
(* Proofs about TrainBatch, for any number of trajectories, steps and      *)
(* workers: padding and reordering keep every step exactly once, the two   *)
(* GAE estimators stay inside their trajectory, the outcome estimators     *)
(* compare a trajectory with its own group and a step with the steps at    *)
(* its own anchor, and what is whitened adds up to zero.                   *)
(***************************************************************************)
EXTENDS TrainBatch, Sums_proofs

\* The types of what the layout of the batch rests on.
LayoutTypes ==
  /\ traj \in Trajs
  /\ steps \in [Trajs -> 0..MaxSteps]
  /\ batch \in Seq(Row)

\* The rows are the steps of the trajectories.
LaidOut ==
  /\ \A i \in Trajs, u \in Steps : u < steps[i] => RowsOf(batch, i, u) # {}
  /\ \A k, l \in Real(batch) :
       batch[k].traj = batch[l].traj /\ batch[k].step = batch[l].step => k = l
  /\ \A k \in DOMAIN batch : batch[k].step < steps[batch[k].traj]

\* What is added to the batch is a copy.
PadsAreCopies ==
  \A k \in DOMAIN batch : \E l \in Real(batch) :
    /\ batch[l].traj = batch[k].traj /\ batch[l].step = batch[k].step
    /\ batch[l].len = batch[k].len

\* While rows are collected the next trajectories have none.
Collecting ==
  /\ pc = "rollout" => /\ steps[traj] < MaxSteps
                       /\ \A i \in Trajs : i > traj => steps[i] = 0
  /\ pc = "pad" => batch # <<>>
  /\ pc \in {"rollout", "pad"} => \A k \in DOMAIN batch : ~batch[k].pad

LayoutInv ==
  /\ LayoutTypes
  /\ LaidOut
  /\ PadsAreCopies
  /\ Collecting
  /\ pc \notin {"rollout", "pad"} => Len(batch) % Divisor = 0

-----------------------------------------------------------------------------
(***************************************************************************)
(* The layout.                                                             *)
(***************************************************************************)
LEMMA Sizes ==
  /\ NumTrajs \in Nat \ {0} /\ MaxSteps \in Nat \ {0} /\ RespLen \in Nat \ {0}
  /\ Divisor \in Nat \ {0}
  /\ Gamma \in Int /\ Lambda \in Int
BY AdvantageAssumption, TrainBatchAssumption

LEMMA ValuesAreIntegers ==
  ASSUME NEW row \in Row, NEW n \in Tokens
  PROVE  Value(row, n) \in Int
BY AdvantageAssumption DEF Value, Row

\* The rows of a sequence of rows.
LEMMA RowsAreRows ==
  ASSUME NEW b \in Seq(Row), NEW k \in DOMAIN b
  PROVE  b[k] \in Row
OBVIOUS

LEMMA LayoutInit == Init => LayoutInv
<1> SUFFICES ASSUME Init PROVE LayoutInv
  OBVIOUS
<1>1. traj = 1 /\ steps = Zeros /\ batch = <<>> /\ pc = "rollout"
  BY DEF Init
<1>2. LayoutTypes
  BY <1>1, Sizes DEF LayoutTypes, Zeros, Trajs
<1>3. LaidOut /\ PadsAreCopies
  BY <1>1 DEF LaidOut, PadsAreCopies, Zeros, Steps, Real
<1>4. Collecting
  BY <1>1, <1>2, Sizes DEF Collecting, Zeros, LayoutTypes
<1> QED
  BY <1>1, <1>2, <1>3, <1>4 DEF LayoutInv

\* One more row.
LEMMA CollectLayout ==
  ASSUME LayoutInv,
         NEW score \in Scores, NEW len \in Tokens, NEW isLast \in BOOLEAN,
         CollectStep(score, len, isLast)
  PROVE  LayoutInv'
<1> DEFINE new == [traj |-> traj, step |-> steps[traj], len |-> len,
                   reward |-> score, pad |-> FALSE]
           n == Len(batch)
<1>1. /\ LayoutTypes /\ LaidOut /\ PadsAreCopies /\ Collecting
      /\ pc = "rollout"
      /\ batch' = Append(batch, new)
      /\ steps' = [steps EXCEPT ![traj] = @ + 1]
      /\ traj' = IF isLast /\ traj < NumTrajs THEN traj + 1 ELSE traj
      /\ pc' = IF isLast /\ traj = NumTrajs THEN "pad" ELSE "rollout"
      /\ isLast \/ steps[traj] + 1 < MaxSteps
  BY DEF LayoutInv, CollectStep
<1>2. /\ traj \in Trajs /\ steps \in [Trajs -> 0..MaxSteps] /\ batch \in Seq(Row)
      /\ steps[traj] < MaxSteps /\ \A i \in Trajs : i > traj => steps[i] = 0
      /\ \A k \in DOMAIN batch : ~batch[k].pad
  BY <1>1 DEF LayoutTypes, Collecting
<1>3. new \in Row
  BY <1>2, Sizes, TrainBatchAssumption DEF Row, Steps, Trajs
<1>4. /\ batch' \in Seq(Row) /\ DOMAIN batch' = DOMAIN batch \union {n + 1}
      /\ n + 1 \notin DOMAIN batch
      /\ batch'[n + 1] = new
      /\ \A k \in DOMAIN batch : batch'[k] = batch[k]
  <2> HIDE DEF new
  <2> QED
    BY <1>1, <1>2, <1>3
<1>5. LayoutTypes'
  BY <1>1, <1>2, <1>4, Sizes DEF LayoutTypes, Trajs
<1>6. Real(batch) = DOMAIN batch /\ Real(batch)' = DOMAIN batch'
  <2>1. \A k \in DOMAIN batch' : ~batch'[k].pad
    BY <1>2, <1>4
  <2> QED
    BY <2>1, <1>2 DEF Real
<1>7. LaidOut'
  <2>1. ASSUME NEW i \in Trajs, NEW u \in Steps, u < steps'[i]
        PROVE  RowsOf(batch, i, u)' # {}
    <3>1. CASE i = traj /\ u = steps[traj]
      BY <3>1, <1>4, <1>6 DEF RowsOf
    <3>2. CASE ~(i = traj /\ u = steps[traj])
      <4>1. u < steps[i]
        BY <3>2, <2>1, <1>1, <1>2 DEF Steps
      <4>2. PICK k \in DOMAIN batch : batch[k].traj = i /\ batch[k].step = u
        BY <4>1, <1>1, <1>6 DEF LaidOut, RowsOf
      <4> QED
        BY <4>2, <1>4, <1>6 DEF RowsOf
    <3> QED
      BY <3>1, <3>2
  <2>2. ASSUME NEW k \in DOMAIN batch'
        PROVE  batch'[k].step < steps'[batch'[k].traj]
    <3>1. CASE k = n + 1
      BY <3>1, <1>1, <1>2, <1>4
    <3>2. CASE k \in DOMAIN batch
      <4>1. batch[k] \in Row /\ batch[k].step < steps[batch[k].traj]
        BY <3>2, <1>1, <1>2, RowsAreRows DEF LaidOut
      <4> QED
        BY <3>2, <4>1, <1>1, <1>2, <1>4 DEF Row, Steps
    <3> QED
      BY <3>1, <3>2, <1>4
  <2>3. ASSUME NEW k \in DOMAIN batch', NEW l \in DOMAIN batch',
               batch'[k].traj = batch'[l].traj, batch'[k].step = batch'[l].step
        PROVE  k = l
    <3>1. \A m \in DOMAIN batch : ~(batch[m].traj = traj /\ batch[m].step = steps[traj])
      <4> SUFFICES ASSUME NEW m \in DOMAIN batch, batch[m].traj = traj,
                          batch[m].step = steps[traj]
                   PROVE  FALSE
        OBVIOUS
      <4>1. steps[traj] < steps[traj]
        BY <1>1 DEF LaidOut
      <4> QED
        BY <4>1, <1>2
    <3> QED
      BY <2>3, <3>1, <1>1, <1>4, <1>6 DEF LaidOut
  <2> QED
    BY <2>1, <2>2, <2>3, <1>6 DEF LaidOut
<1>8. PadsAreCopies'
  BY <1>6 DEF PadsAreCopies
<1>9. Collecting'
  <2>1. \A k \in DOMAIN batch' : ~batch'[k].pad
    BY <1>2, <1>4
  <2>2. batch' # <<>>
    BY <1>4
  <2>3. ASSUME pc' = "rollout"
        PROVE  steps'[traj'] < MaxSteps /\ \A i \in Trajs : i > traj' => steps'[i] = 0
    <3>1. CASE isLast
      <4>1. traj' = traj + 1 /\ traj + 1 \in Trajs
        BY <2>3, <3>1, <1>1, <1>2, Sizes DEF Trajs
      <4>2. \A i \in Trajs : i > traj => steps'[i] = 0
        BY <1>1, <1>2 DEF Trajs
      <4>3. traj' > traj /\ \A i \in Trajs : i > traj' => i > traj
        BY <4>1, <1>2 DEF Trajs
      <4>4. steps'[traj'] = 0
        BY <4>1, <4>2, <4>3
      <4> QED
        BY <4>2, <4>3, <4>4, Sizes
    <3>2. CASE ~isLast
      BY <3>2, <1>1, <1>2 DEF Trajs
    <3> QED
      BY <3>1, <3>2
  <2> QED
    BY <2>1, <2>2, <2>3, <1>1 DEF Collecting
<1> QED
  BY <1>1, <1>5, <1>7, <1>8, <1>9 DEF LayoutInv

\* Arithmetic of the padding.
LEMMA PadFills ==
  ASSUME NEW n \in Nat, NEW d \in Nat \ {0}
  PROVE  LET p == (d - (n % d)) % d
         IN p \in Nat /\ (n + p) % d = 0
<1> DEFINE r == n % d
           p == (d - r) % d
<1>1. r \in 0..d - 1 /\ n = d * (n \div d) + r /\ n \div d \in Nat
  OBVIOUS
<1>2. PICK q \in Nat : n = d * q + r
  BY <1>1
<1>3. CASE r = 0
  <2>1. p = 0
    BY <1>3
  <2> QED
    BY <2>1, <1>3
<1>4. CASE r # 0
  <2>1. d - r \in 1..d - 1
    BY <1>4, <1>1
  <2>2. p = d - r
    <3> HIDE DEF r
    <3> QED
      BY <2>1
  <2>3. n + p = d * (q + 1)
    <3> HIDE DEF r, p
    <3>1. n + p = d * q + d
      BY <2>2, <1>2, <1>1
    <3> QED
      BY <3>1
  <2>4. (d * (q + 1)) % d = 0
    OBVIOUS
  <2>5. p \in Nat
    BY <2>1, <2>2
  <2> QED
    BY <2>3, <2>4, <2>5
<1> QED
  BY <1>3, <1>4

LEMMA ModInRange ==
  ASSUME NEW m \in Int, NEW d \in Nat \ {0}
  PROVE  (m % d) + 1 \in 1..d
OBVIOUS

LEMMA PadLayout == LayoutInv /\ Pad => LayoutInv'
<1> SUFFICES ASSUME LayoutInv, Pad PROVE LayoutInv'
  OBVIOUS
<1> DEFINE n == Len(batch)
           src(k) == IF k <= n THEN k ELSE ((k - 1) % n) + 1
<1>1. /\ LayoutTypes /\ LaidOut /\ batch # <<>>
      /\ \A k \in DOMAIN batch : ~batch[k].pad
      /\ batch' = Padded /\ pc' = "balance"
      /\ steps' = steps /\ traj' = traj
  BY DEF LayoutInv, Pad, Collecting
<1>2. batch \in Seq(Row) /\ n \in Nat \ {0} /\ DOMAIN batch = 1..n
  BY <1>1 DEF LayoutTypes
<1>3. PadSize \in Nat /\ (n + PadSize) % Divisor = 0
  BY <1>2, Sizes, PadFills DEF PadSize
<1>4. \A k \in 1..n + PadSize : src(k) \in 1..n
  <2> SUFFICES ASSUME NEW k \in 1..n + PadSize PROVE src(k) \in 1..n
    OBVIOUS
  <2> HIDE DEF n
  <2>1. k \in Int /\ k >= 1 /\ k - 1 \in Int
    BY <1>2, <1>3
  <2>2. ((k - 1) % n) + 1 \in 1..n
    BY <2>1, <1>2, ModInRange
  <2>3. k <= n => k \in 1..n
    BY <2>1, <1>2
  <2> QED
    BY <2>2, <2>3, Zenon
<1>5. /\ DOMAIN batch' = 1..n + PadSize
      /\ \A k \in 1..n : batch'[k] = batch[k]
      /\ \A k \in 1..n + PadSize : k > n => batch'[k] = [batch[src(k)] EXCEPT !.pad = TRUE]
  <2>1. batch' = [k \in 1..n + PadSize |->
                    IF k <= n THEN batch[k]
                    ELSE [batch[((k - 1) % n) + 1] EXCEPT !.pad = TRUE]]
    BY <1>1 DEF Padded
  <2> HIDE DEF n
  <2>2. 1..n \subseteq 1..n + PadSize /\ \A k \in 1..n : k <= n
    BY <1>2, <1>3
  <2>3. \A k \in 1..n + PadSize : k > n => ~(k <= n)
    BY <1>2, <1>3
  <2>4. \A k \in 1..n + PadSize : k > n => src(k) = ((k - 1) % n) + 1
    BY <2>3, Zenon
  <2>5. ASSUME NEW k \in 1..n + PadSize, k > n
        PROVE  batch'[k] = [batch[src(k)] EXCEPT !.pad = TRUE]
    <3>1. batch'[k] = [batch[((k - 1) % n) + 1] EXCEPT !.pad = TRUE]
      BY <2>1, <2>3, <2>5, Zenon
    <3> QED
      BY <3>1, <2>4, <2>5, Zenon
  <2> QED
    BY <2>1, <2>2, <2>5, Zenon
<1>6. \A k \in 1..n + PadSize :
        /\ batch'[k] \in Row
        /\ batch'[k].traj = batch[src(k)].traj /\ batch'[k].step = batch[src(k)].step
        /\ batch'[k].len = batch[src(k)].len
        /\ batch'[k].pad <=> k > n
  <2> SUFFICES ASSUME NEW k \in 1..n + PadSize
               PROVE  /\ batch'[k] \in Row
                      /\ batch'[k].traj = batch[src(k)].traj
                      /\ batch'[k].step = batch[src(k)].step
                      /\ batch'[k].len = batch[src(k)].len
                      /\ batch'[k].pad <=> k > n
    OBVIOUS
  <2>1. batch[src(k)] \in Row
    BY <1>2, <1>4
  <2>2. CASE k <= n
    BY <2>1, <2>2, <1>1, <1>2, <1>5
  <2>3. CASE k > n
    <3> HIDE DEF src
    <3>1. batch'[k] = [batch[src(k)] EXCEPT !.pad = TRUE]
      BY <2>3, <1>5
    <3> QED
      BY <3>1, <2>1, <2>3 DEF Row
  <2> QED
    BY <2>2, <2>3, <1>2, <1>3
<1>7. batch' \in Seq(Row) /\ Len(batch') = n + PadSize
  <2>1. n + PadSize \in Nat
    BY <1>2, <1>3
  <2>2. batch' = [k \in 1..n + PadSize |-> batch'[k]]
    BY <1>1, <1>2 DEF Padded
  <2> QED
    BY <2>1, <2>2, <1>6
<1>8. Real(batch) = 1..n /\ Real(batch)' = 1..n
  <2>1. Real(batch) = 1..n
    BY <1>1, <1>2 DEF Real
  <2>2. Real(batch)' = {k \in 1..n + PadSize : ~batch'[k].pad}
    BY <1>5 DEF Real
  <2>3. {k \in 1..n + PadSize : ~batch'[k].pad} = 1..n
    BY <1>2, <1>3, <1>6
  <2> QED
    BY <2>1, <2>2, <2>3
<1>9. LaidOut'
  <2>1. ASSUME NEW i \in Trajs, NEW u \in Steps, u < steps[i]
        PROVE  RowsOf(batch, i, u)' # {}
    <3>1. PICK k \in 1..n : batch[k].traj = i /\ batch[k].step = u
      BY <2>1, <1>1, <1>8 DEF LaidOut, RowsOf
    <3> QED
      BY <3>1, <1>5, <1>8 DEF RowsOf
  <2>2. \A k, l \in Real(batch)' :
          batch'[k].traj = batch'[l].traj /\ batch'[k].step = batch'[l].step => k = l
    BY <1>1, <1>5, <1>8 DEF LaidOut
  <2>3. \A k \in DOMAIN batch' : batch'[k].step < steps[batch'[k].traj]
    <3> HIDE DEF src
    <3> QED
      BY <1>1, <1>2, <1>4, <1>5, <1>6 DEF LaidOut
  <2> QED
    BY <2>1, <2>2, <2>3, <1>1 DEF LaidOut
<1>10. PadsAreCopies'
  <2> SUFFICES ASSUME NEW k \in DOMAIN batch'
               PROVE  \E l \in Real(batch)' :
                        /\ batch'[l].traj = batch'[k].traj /\ batch'[l].step = batch'[k].step
                        /\ batch'[l].len = batch'[k].len
    BY DEF PadsAreCopies
  <2>1. src(k) \in Real(batch)' /\ batch'[src(k)] = batch[src(k)]
    BY <1>4, <1>5, <1>8
  <2> HIDE DEF src
  <2> QED
    BY <2>1, <1>5, <1>6
<1>11. LayoutTypes'
  BY <1>1, <1>7 DEF LayoutTypes
<1> QED
  BY <1>1, <1>3, <1>7, <1>9, <1>10, <1>11 DEF LayoutInv, Collecting

LEMMA BalanceLayout == LayoutInv /\ Balance => LayoutInv'
<1> SUFFICES ASSUME LayoutInv, Balance PROVE LayoutInv'
  OBVIOUS
<1> DEFINE D == DOMAIN batch
<1>1. /\ LayoutTypes /\ LaidOut /\ PadsAreCopies /\ pc' = "scale"
      /\ steps' = steps /\ traj' = traj /\ Len(batch) % Divisor = 0
  BY DEF LayoutInv, Balance
<1>2. PICK order \in Bijection(D, D) : batch' = [k \in D |-> batch[order[k]]]
  BY DEF Balance, Orders
<1>3. /\ batch \in Seq(Row) /\ D = 1..Len(batch) /\ Len(batch) \in Nat
      /\ \A k \in D : batch[k] \in Row
  BY <1>1 DEF LayoutTypes
<1>4. /\ \A k \in D : order[k] \in D
      /\ \A k, l \in D : order[k] = order[l] => k = l
      /\ \A l \in D : \E k \in D : order[k] = l
  <2>1. order \in [D -> D] /\ IsInjective(order) /\ DOMAIN order = D
    BY <1>2 DEF Bijection, Injection
  <2>2. order \in Surjection(D, D)
    BY <1>2 DEF Bijection
  <2> HIDE DEF D
  <2> QED
    BY <2>1, <2>2 DEF IsInjective, Surjection
<1> HIDE DEF D
<1>5. DOMAIN batch' = D /\ \A k \in D : batch'[k] = batch[order[k]]
  BY <1>2
<1>6. batch' \in Seq(Row) /\ Len(batch') = Len(batch)
  BY <1>2, <1>3, <1>4
<1>7. Real(batch) = {k \in D : ~batch[k].pad} /\ Real(batch)' = {k \in D : ~batch[order[k]].pad}
  <2>1. Real(batch) = {k \in D : ~batch[k].pad}
    BY DEF Real, D
  <2>2. Real(batch)' = {k \in D : ~batch'[k].pad}
    BY <1>5 DEF Real
  <2> QED
    BY <2>1, <2>2, <1>5
<1>8. LaidOut'
  <2>1. ASSUME NEW i \in Trajs, NEW u \in Steps, u < steps[i]
        PROVE  RowsOf(batch, i, u)' # {}
    <3>1. PICK l \in Real(batch) : batch[l].traj = i /\ batch[l].step = u
      BY <2>1, <1>1 DEF LaidOut, RowsOf
    <3>2. PICK k \in D : order[k] = l
      BY <3>1, <1>4, <1>7
    <3> QED
      BY <3>1, <3>2, <1>5, <1>7 DEF RowsOf
  <2>2. \A k, l \in Real(batch)' :
          batch'[k].traj = batch'[l].traj /\ batch'[k].step = batch'[l].step => k = l
    BY <1>1, <1>4, <1>5, <1>7 DEF LaidOut
  <2>3. ASSUME NEW k \in D PROVE batch'[k].step < steps[batch'[k].traj]
    <3>1. order[k] \in D /\ batch'[k] = batch[order[k]]
      BY <1>4, <1>5
    <3>2. \A l \in D : batch[l].step < steps[batch[l].traj]
      BY <1>1 DEF LaidOut, D
    <3> QED
      BY <3>1, <3>2
  <2> QED
    BY <2>1, <2>2, <2>3, <1>1, <1>5 DEF LaidOut
<1>9. PadsAreCopies'
  <2> SUFFICES ASSUME NEW k \in D
               PROVE  \E l \in Real(batch)' :
                        /\ batch'[l].traj = batch'[k].traj /\ batch'[l].step = batch'[k].step
                        /\ batch'[l].len = batch'[k].len
    BY <1>5 DEF PadsAreCopies
  <2>1. PICK m \in Real(batch) :
          /\ batch[m].traj = batch[order[k]].traj /\ batch[m].step = batch[order[k]].step
          /\ batch[m].len = batch[order[k]].len
    BY <1>1, <1>4 DEF PadsAreCopies, D
  <2>2. PICK l \in D : order[l] = m
    BY <2>1, <1>4, <1>7
  <2> QED
    BY <2>1, <2>2, <1>5, <1>7
<1>10. LayoutTypes'
  BY <1>1, <1>6 DEF LayoutTypes
<1> QED
  BY <1>1, <1>6, <1>8, <1>9, <1>10 DEF LayoutInv, Collecting

\* A change of the rewards alone.
LEMMA ScaleLayout ==
  ASSUME LayoutInv, NEW factor \in ScaleFactors, Scale(factor)
  PROVE  LayoutInv'
<1>1. /\ LayoutTypes /\ LaidOut /\ PadsAreCopies /\ pc' = "advantage"
      /\ steps' = steps /\ traj' = traj /\ Len(batch) % Divisor = 0
      /\ batch' = [k \in DOMAIN batch |->
                      IF batch[k].pad THEN batch[k]
                      ELSE [batch[k] EXCEPT !.reward = @ * factor]]
  BY DEF LayoutInv, Scale
<1>2. /\ batch \in Seq(Row) /\ DOMAIN batch = 1..Len(batch) /\ Len(batch) \in Nat
      /\ \A k \in DOMAIN batch : batch[k] \in Row
  BY <1>1 DEF LayoutTypes
<1>3. DOMAIN batch' = DOMAIN batch
  BY <1>1
<1>4. \A k \in DOMAIN batch :
        /\ batch'[k] \in Row
        /\ batch'[k].traj = batch[k].traj /\ batch'[k].step = batch[k].step
        /\ batch'[k].len = batch[k].len /\ batch'[k].pad = batch[k].pad
  <2> SUFFICES ASSUME NEW k \in DOMAIN batch
               PROVE  /\ batch'[k] \in Row
                      /\ batch'[k].traj = batch[k].traj /\ batch'[k].step = batch[k].step
                      /\ batch'[k].len = batch[k].len /\ batch'[k].pad = batch[k].pad
    OBVIOUS
  <2>1. batch[k] \in Row /\ batch[k].reward * factor \in Int
    BY <1>2, TrainBatchAssumption DEF Row
  <2>2. batch'[k] = IF batch[k].pad THEN batch[k]
                    ELSE [batch[k] EXCEPT !.reward = @ * factor]
    BY <1>1
  <2> QED
    BY <2>1, <2>2 DEF Row
<1>5. batch' \in Seq(Row) /\ Len(batch') = Len(batch)
  <2>1. batch' = [k \in 1..Len(batch) |-> batch'[k]]
    BY <1>1, <1>2
  <2> QED
    BY <2>1, <1>2, <1>4
<1>6. Real(batch)' = Real(batch)
  <2>1. Real(batch)' = {k \in DOMAIN batch : ~batch'[k].pad}
    BY <1>3 DEF Real
  <2> QED
    BY <2>1, <1>4 DEF Real
<1>7. \A i \in Trajs, u \in Steps : RowsOf(batch, i, u)' = RowsOf(batch, i, u)
  <2> SUFFICES ASSUME NEW i \in Trajs, NEW u \in Steps
               PROVE  RowsOf(batch, i, u)' = RowsOf(batch, i, u)
    OBVIOUS
  <2>1. RowsOf(batch, i, u)' = {k \in Real(batch) : batch'[k].traj = i /\ batch'[k].step = u}
    BY <1>6 DEF RowsOf
  <2>2. \A k \in Real(batch) : batch'[k].traj = batch[k].traj /\ batch'[k].step = batch[k].step
    BY <1>4 DEF Real
  <2> QED
    BY <2>1, <2>2 DEF RowsOf
<1>8. \A k \in Real(batch) : k \in DOMAIN batch
  BY DEF Real
<1>9. LaidOut'
  <2>1. \A i \in Trajs, u \in Steps : u < steps'[i] => RowsOf(batch, i, u)' # {}
    BY <1>1, <1>7 DEF LaidOut
  <2>2. \A k, l \in Real(batch)' :
          batch'[k].traj = batch'[l].traj /\ batch'[k].step = batch'[l].step => k = l
    BY <1>1, <1>4, <1>6, <1>8 DEF LaidOut
  <2>3. \A k \in DOMAIN batch' : batch'[k].step < steps'[batch'[k].traj]
    BY <1>1, <1>3, <1>4 DEF LaidOut
  <2> QED
    BY <2>1, <2>2, <2>3 DEF LaidOut
<1>10. PadsAreCopies'
  <2> SUFFICES ASSUME NEW k \in DOMAIN batch
               PROVE  \E l \in Real(batch)' :
                        /\ batch'[l].traj = batch'[k].traj /\ batch'[l].step = batch'[k].step
                        /\ batch'[l].len = batch'[k].len
    BY <1>3 DEF PadsAreCopies
  <2>1. PICK l \in Real(batch) :
          /\ batch[l].traj = batch[k].traj /\ batch[l].step = batch[k].step
          /\ batch[l].len = batch[k].len
    BY <1>1 DEF PadsAreCopies
  <2> QED
    BY <2>1, <1>4, <1>6, <1>8
<1> QED
  BY <1>1, <1>2, <1>5, <1>9, <1>10 DEF LayoutInv, Collecting, LayoutTypes

\* The steps that only read the rows, and the one that drops them.
LEMMA LayoutKept ==
  ASSUME LayoutInv, UNCHANGED layout,
         pc \notin {"rollout", "pad"}, pc' \notin {"rollout", "pad"}
  PROVE  LayoutInv'
<1>1. traj' = traj /\ steps' = steps /\ batch' = batch
  BY DEF layout
<1> QED
  BY <1>1 DEF LayoutInv, LayoutTypes, LaidOut, PadsAreCopies, Collecting, Real, RowsOf

LEMMA LayoutDropped == UpdateActor => LayoutInv'
<1> SUFFICES ASSUME UpdateActor PROVE LayoutInv'
  OBVIOUS
<1>1. traj' = 1 /\ steps' = Zeros /\ batch' = <<>> /\ pc' = "rollout"
  BY DEF UpdateActor
<1>2. LayoutTypes'
  BY <1>1, Sizes DEF LayoutTypes, Zeros, Trajs
<1>3. LaidOut' /\ PadsAreCopies'
  BY <1>1 DEF LaidOut, PadsAreCopies, Zeros, Steps, Real
<1>4. Collecting'
  BY <1>1, <1>2, Sizes DEF Collecting, Zeros, LayoutTypes
<1> QED
  BY <1>1, <1>2, <1>3, <1>4 DEF LayoutInv

LEMMA LayoutNext == LayoutInv /\ [Next]_vars => LayoutInv'
<1> SUFFICES ASSUME LayoutInv, [Next]_vars PROVE LayoutInv'
  OBVIOUS
<1>1. ASSUME NEW score \in Scores, NEW len \in Tokens, NEW isLast \in BOOLEAN,
             CollectStep(score, len, isLast)
      PROVE  LayoutInv'
  BY <1>1, CollectLayout
<1>2. ASSUME NEW factor \in ScaleFactors, Scale(factor)
      PROVE  LayoutInv'
  BY <1>2, ScaleLayout
<1>3. ASSUME NEW e \in Estimators, ComputeAdvantage(e)
      PROVE  LayoutInv'
  BY <1>3, LayoutKept DEF ComputeAdvantage
<1>4. CASE GaeStep
  BY <1>4, LayoutKept DEF GaeStep
<1>5. CASE GaeEnd
  BY <1>5, LayoutKept DEF GaeEnd
<1>6. CASE TokenStep
  BY <1>6, LayoutKept DEF TokenStep
<1>7. CASE TokenRound
  BY <1>7, LayoutKept DEF TokenRound
<1>8. CASE TokenGaeEnd
  BY <1>8, LayoutKept DEF TokenGaeEnd
<1>9. CASE Outcome
  BY <1>9, LayoutKept DEF Outcome
<1>10. CASE MaskForCritic
  BY <1>10, LayoutKept DEF MaskForCritic
<1>11. CASE UpdateCritic
  BY <1>11, LayoutKept DEF UpdateCritic
<1>12. CASE UNCHANGED vars
  <2>1. traj' = traj /\ steps' = steps /\ batch' = batch /\ pc' = pc
    BY <1>12 DEF vars, layout
  <2> QED
    BY <2>1 DEF LayoutInv, LayoutTypes, LaidOut, PadsAreCopies, Collecting, Real, RowsOf
<1> QED
  BY PadLayout, BalanceLayout, LayoutDropped,
     <1>1, <1>2, <1>3, <1>4, <1>5, <1>6, <1>7, <1>8, <1>9, <1>10, <1>11, <1>12 DEF Next

LEMMA LayoutAlways == Spec => []LayoutInv
BY LayoutInit, LayoutNext, PTL DEF Spec

\* Once the batch is laid out every step of every trajectory is in exactly one
\* row that padding did not make, whatever the order of the rows
\* (_pad_dataproto_to_world_size, _balance_batch, get_valid_data).
THEOREM EachStepStaysOnce == Spec => []EachStepOnce
<1>1. LayoutInv => EachStepOnce
  BY DEF LayoutInv, LaidOut, PadsAreCopies, EachStepOnce
<1> QED
  BY <1>1, LayoutAlways, PTL

-----------------------------------------------------------------------------
(***************************************************************************)
(* The tables of the estimators.                                           *)
(***************************************************************************)
LEMMA RowTypes ==
  ASSUME LayoutInv, NEW k \in DOMAIN batch
  PROVE  /\ batch[k] \in Row
         /\ batch[k].traj \in Trajs /\ batch[k].step \in Steps
         /\ batch[k].len \in Tokens /\ batch[k].reward \in Int
         /\ \A n \in Tokens : Value(batch[k], n) \in Int
<1>1. batch[k] \in Row
  BY DEF LayoutInv, LayoutTypes
<1> QED
  BY <1>1, ValuesAreIntegers DEF Row

\* What a step is looked up as.
LEMMA LookUp ==
  ASSUME LayoutInv, NEW k \in Real(batch)
  PROVE  /\ RewardsMap(batch, batch[k].traj, batch[k].step) = batch[k].reward
         /\ ValuesMap(batch, batch[k].traj, batch[k].step) = Value(batch[k], 1)
<1>1. RowsOf(batch, batch[k].traj, batch[k].step) = {k}
  BY DEF LayoutInv, LaidOut, RowsOf
<1> QED
  BY <1>1 DEF RewardsMap, ValuesMap

LEMMA TableTypes ==
  ASSUME LayoutInv, NEW i \in Trajs, NEW u \in Nat
  PROVE  RewardsMap(batch, i, u) \in Int /\ ValuesMap(batch, i, u) \in Int
<1>1. CASE RowsOf(batch, i, u) = {}
  BY <1>1 DEF RewardsMap, ValuesMap
<1>2. CASE RowsOf(batch, i, u) # {}
  <2>1. PICK k \in RowsOf(batch, i, u) : TRUE
    BY <1>2
  <2>2. k \in Real(batch) /\ batch[k].traj = i /\ batch[k].step = u
    BY <2>1 DEF RowsOf
  <2>3. k \in DOMAIN batch
    BY <2>2 DEF Real
  <2>4. batch[k].reward \in Int /\ Value(batch[k], 1) \in Int
    BY <2>3, RowTypes, Sizes DEF Tokens
  <2> QED
    BY <2>2, <2>4, LookUp
<1> QED
  BY <1>1, <1>2

\* Beyond the end of a trajectory the tables are zero.
LEMMA NothingBeyond ==
  ASSUME LayoutInv, NEW i \in Trajs, NEW u \in Nat, steps[i] <= u
  PROVE  RowsOf(batch, i, u) = {} /\ RewardsMap(batch, i, u) = 0 /\ ValuesMap(batch, i, u) = 0
<1>1. RowsOf(batch, i, u) = {}
  <2> SUFFICES ASSUME NEW k \in RowsOf(batch, i, u) PROVE FALSE
    OBVIOUS
  <2>1. k \in DOMAIN batch /\ batch[k].traj = i /\ batch[k].step = u
    BY DEF RowsOf, Real
  <2>2. u < steps[i] /\ steps[i] \in Int
    BY <2>1 DEF LayoutInv, LaidOut, LayoutTypes
  <2> QED
    BY <2>2
<1> QED
  BY <1>1 DEF RewardsMap, ValuesMap

LEMMA DeltaType ==
  ASSUME LayoutInv, NEW i \in Trajs, NEW u \in Nat
  PROVE  Delta(batch, top, i, u) \in Int
<1>1. RewardsMap(batch, i, u) \in Int /\ ValuesMap(batch, i, u) \in Int
  BY TableTypes
<1>2. ValuesMap(batch, i, u + 1) \in Int
  BY TableTypes
<1>3. Gamma * ValuesMap(batch, i, u + 1) \in Int
  BY <1>2, Sizes
<1> QED
  BY <1>1, <1>3 DEF Delta

-----------------------------------------------------------------------------
(***************************************************************************)
(* Step-level GAE.                                                         *)
(***************************************************************************)
Rest(i, u) == IF u < top THEN gae[i][u] ELSE 0

\* Before the loops start their state is zero.
Fresh ==
  pc \in {"rollout", "pad", "balance", "scale", "advantage"} =>
    /\ lastgaelam = Zeros /\ bootstrap = Zeros /\ gae = ZeroTable /\ j = 0

\* While they run no step lies beyond top.
Looping ==
  pc \in {"gae", "token_gae"} =>
    /\ est = pc
    /\ top \in 1..MaxSteps /\ t \in 0..top
    /\ \A k \in Real(batch) : batch[k].step < top

\* The steps from t on are done, and those beyond a trajectory are zero.
StepLoop ==
  pc = "gae" =>
    /\ gae \in [Trajs -> [Steps -> Int]] /\ lastgaelam \in [Trajs -> Int]
    /\ \A i \in Trajs : lastgaelam[i] = Rest(i, t)
    /\ \A i \in Trajs, u \in Steps : t <= u /\ u < top =>
         /\ gae[i][u] = Delta(batch, top, i, u) + Gamma * Lambda * Rest(i, u + 1)
         /\ steps[i] <= u => gae[i][u] = 0

\* The estimators without a value function leave no step returns.
Outcomes == pc = "outcome" => est \notin {"gae", "token_gae"}

GaeInv == Outcomes /\ LayoutInv /\ Fresh /\ Looping /\ StepLoop /\ StepGaeAlongTrajectory

LEMMA GaeInit == Init => GaeInv
<1> SUFFICES ASSUME Init PROVE GaeInv
  OBVIOUS
<1>1. LayoutInv
  BY LayoutInit
<1>2. pc = "rollout" /\ lastgaelam = Zeros /\ bootstrap = Zeros /\ gae = ZeroTable /\ j = 0
  BY DEF Init
<1> QED
  BY <1>1, <1>2 DEF GaeInv, Outcomes, Fresh, Looping, StepLoop, StepGaeAlongTrajectory, AdvantagesReady

\* A step that comes before the loops, or that leaves the batch.
LEMMA GaeOutside ==
  ASSUME GaeInv, LayoutInv',
         pc' \in {"rollout", "pad", "balance", "scale", "advantage"},
         lastgaelam' = Zeros, bootstrap' = Zeros, gae' = ZeroTable, j' = 0
  PROVE  GaeInv'
BY DEF GaeInv, Outcomes, Fresh, Looping, StepLoop, StepGaeAlongTrajectory, AdvantagesReady

LEMMA GaeStarts ==
  ASSUME GaeInv, LayoutInv', NEW e \in Estimators, ComputeAdvantage(e)
  PROVE  GaeInv'
<1>1. /\ pc = "advantage" /\ est' = e
      /\ pc' = IF e \in {"gae", "token_gae"} THEN e ELSE "outcome"
      /\ batch' = batch /\ steps' = steps /\ gae' = gae /\ lastgaelam' = lastgaelam
      /\ top' \in 1..MaxSteps /\ t' = top'
      /\ \A k \in Real(batch) : batch[k].step < top'
  BY DEF ComputeAdvantage, layout
<1>2. lastgaelam = Zeros /\ gae = ZeroTable
  BY <1>1 DEF GaeInv, Fresh
<1>3. gae' \in [Trajs -> [Steps -> Int]] /\ lastgaelam' \in [Trajs -> Int]
  BY <1>1, <1>2 DEF Zeros, ZeroTable
<1>4. Real(batch)' = Real(batch)
  BY <1>1 DEF Real
<1>5. Looping'
  BY <1>1, <1>4, Sizes DEF Looping
<1>6. StepLoop'
  <2>1. \A i \in Trajs : lastgaelam'[i] = 0 /\ Rest(i, t)' = 0
    BY <1>1, <1>2, Sizes DEF Zeros, Rest
  <2>2. \A u \in Steps : ~(t' <= u /\ u < top')
    BY <1>1, Sizes DEF Steps
  <2> QED
    BY <2>1, <2>2, <1>3 DEF StepLoop
<1>7. pc' \in {"gae", "token_gae", "outcome"}
  BY <1>1
<1> QED
  BY <1>1, <1>5, <1>6, <1>7 DEF GaeInv, Outcomes, Fresh, StepGaeAlongTrajectory, AdvantagesReady

\* One more step of all trajectories.
LEMMA GaeStepKeeps ==
  ASSUME GaeInv, LayoutInv', GaeStep
  PROVE  GaeInv'
<1> DEFINE GL == Gamma * Lambda
<1>1. /\ pc = "gae" /\ pc' = "gae" /\ est' = est /\ top' = top /\ t' = t - 1 /\ t > 0
      /\ batch' = batch /\ steps' = steps
      /\ lastgaelam' = [i \in Trajs |-> Delta(batch, top, i, t - 1) + GL * lastgaelam[i]]
      /\ gae' = [i \in Trajs |-> [gae[i] EXCEPT ![t - 1] = lastgaelam'[i]]]
  BY DEF GaeStep, layout
<1>2. /\ LayoutInv /\ est = "gae"
      /\ top \in 1..MaxSteps /\ t \in 0..top
      /\ \A k \in Real(batch) : batch[k].step < top
      /\ gae \in [Trajs -> [Steps -> Int]] /\ lastgaelam \in [Trajs -> Int]
  BY <1>1 DEF GaeInv, Looping, StepLoop
<1>3. /\ \A i \in Trajs : lastgaelam[i] = Rest(i, t)
      /\ \A i \in Trajs, u \in Steps : t <= u /\ u < top =>
           /\ gae[i][u] = Delta(batch, top, i, u) + GL * Rest(i, u + 1)
           /\ steps[i] <= u => gae[i][u] = 0
  BY <1>1 DEF GaeInv, StepLoop
<1>4. GL \in Int
  BY Sizes
<1> HIDE DEF GL
<1>5. t - 1 \in Nat /\ t - 1 \in Steps /\ t - 1 < top /\ MaxSteps \in Nat
  BY <1>1, <1>2, Sizes DEF Steps
<1>6. lastgaelam' \in [Trajs -> Int]
  <2> SUFFICES ASSUME NEW i \in Trajs
               PROVE  Delta(batch, top, i, t - 1) + GL * lastgaelam[i] \in Int
    BY <1>1
  <2>1. Delta(batch, top, i, t - 1) \in Int
    BY <1>2, <1>5, DeltaType
  <2>2. GL * lastgaelam[i] \in Int
    BY <1>2, <1>4
  <2> QED
    BY <2>1, <2>2
<1>7. gae' \in [Trajs -> [Steps -> Int]]
  BY <1>1, <1>2, <1>5, <1>6
<1>8. \A i \in Trajs : /\ gae'[i][t - 1] = lastgaelam'[i]
                       /\ \A u \in Steps : u # t - 1 => gae'[i][u] = gae[i][u]
  BY <1>1, <1>2, <1>5
<1>9. Real(batch)' = Real(batch)
  BY <1>1 DEF Real
<1>10. Looping'
  BY <1>1, <1>2, <1>5, <1>9 DEF Looping
<1>11. \A i \in Trajs, u \in Nat : t <= u => Rest(i, u)' = Rest(i, u)
  <2> SUFFICES ASSUME NEW i \in Trajs, NEW u \in Nat, t <= u PROVE Rest(i, u)' = Rest(i, u)
    OBVIOUS
  <2>1. u < top => u \in Steps /\ u # t - 1
    BY <1>1, <1>2, Sizes DEF Steps
  <2> QED
    BY <2>1, <1>1, <1>8 DEF Rest
<1>12. \A i \in Trajs : lastgaelam'[i] = Rest(i, t)'
  BY <1>1, <1>5, <1>8 DEF Rest
<1>13. ASSUME NEW i \in Trajs, NEW u \in Steps, t - 1 <= u, u < top
       PROVE  /\ gae'[i][u] = Delta(batch, top, i, u) + GL * Rest(i, u + 1)'
              /\ steps[i] <= u => gae'[i][u] = 0
  <2>1. CASE u = t - 1
    <3>1. u + 1 = t /\ t \in Nat
      BY <2>1, <1>2
    <3>2. gae'[i][u] = Delta(batch, top, i, u) + GL * lastgaelam[i]
      BY <2>1, <1>1, <1>8
    <3>3. lastgaelam[i] = Rest(i, u + 1) /\ Rest(i, u + 1)' = Rest(i, u + 1)
      <4>1. t <= u + 1 /\ u + 1 \in Nat
        BY <3>1
      <4> QED
        BY <4>1, <3>1, <1>3, <1>11
    <3>4. gae'[i][u] = Delta(batch, top, i, u) + GL * Rest(i, u + 1)'
      BY <3>1, <3>2, <3>3
    <3>5. ASSUME steps[i] <= u PROVE gae'[i][u] = 0
      <4>1. u \in Nat /\ u + 1 \in Nat /\ steps[i] <= u + 1
        <5>1. steps[i] \in Int
          BY <1>2 DEF LayoutInv, LayoutTypes
        <5> QED
          BY <5>1, <3>1, <3>5 DEF Steps
      <4>2. /\ RewardsMap(batch, i, u) = 0 /\ ValuesMap(batch, i, u) = 0
            /\ ValuesMap(batch, i, u + 1) = 0
        BY <3>5, <4>1, <1>2, NothingBeyond
      <4>3. Delta(batch, top, i, u) = 0
        BY <4>2, Sizes DEF Delta
      <4>4. Rest(i, u + 1) = 0
        <5>1. t < top => t \in Steps
          BY <1>2, <1>5 DEF Steps
        <5>2. t < top => gae[i][t] = 0
          BY <5>1, <3>1, <4>1, <1>3
        <5> QED
          BY <5>2, <3>1 DEF Rest
      <4>5. GL * lastgaelam[i] = 0
        BY <4>4, <3>3, <1>4
      <4> QED
        BY <4>3, <4>5, <3>2
    <3> QED
      BY <3>4, <3>5
  <2>2. CASE u # t - 1
    <3>1. t <= u /\ u + 1 \in Nat /\ t <= u + 1
      BY <2>2, <1>13, <1>2, <1>5 DEF Steps
    <3>2. gae'[i][u] = gae[i][u] /\ Rest(i, u + 1)' = Rest(i, u + 1)
      BY <3>1, <2>2, <1>8, <1>11
    <3> QED
      BY <3>1, <3>2, <1>3, <1>13
  <2> QED
    BY <2>1, <2>2
<1>14. StepLoop'
  <2>1. \A i \in Trajs, u \in Steps : Delta(batch, top, i, u)' = Delta(batch, top, i, u)
    BY <1>1
  <2> QED
    BY <2>1, <1>1, <1>6, <1>7, <1>12, <1>13 DEF StepLoop, GL
<1> QED
  BY <1>1, <1>10, <1>14 DEF GaeInv, Outcomes, Fresh, StepGaeAlongTrajectory, AdvantagesReady

\* The advantage of a step, read off its return.
LEMMA GaeEndGives ==
  ASSUME GaeInv, GaeEnd, NEW k \in Real(batch)
  PROVE  /\ StepAdvantage(k)' = gae[batch[k].traj][batch[k].step]
         /\ batch[k].traj \in Trajs /\ batch[k].step \in Steps
         /\ batch[k].reward \in Int /\ Value(batch[k], 1) \in Int
         /\ StepAdvantage(k)' \in Int
<1>1. /\ batch' = batch /\ LayoutInv /\ gae \in [Trajs -> [Steps -> Int]]
      /\ ret' = [l \in DOMAIN batch |->
                    IF batch[l].pad THEN NoCell
                    ELSE Broadcast(batch[l], RawAdvantage[l] + Value(batch[l], 1), 1)]
  BY DEF GaeEnd, layout, GaeInv, StepLoop
<1>2. k \in DOMAIN batch /\ ~batch[k].pad
  BY DEF Real
<1>3. 1 \in Tokens
  BY Sizes DEF Tokens
<1>4. /\ batch[k].traj \in Trajs /\ batch[k].step \in Steps
      /\ batch[k].len \in Tokens /\ batch[k].reward \in Int
      /\ Value(batch[k], 1) \in Int
  BY <1>1, <1>2, <1>3, RowTypes
<1> DEFINE x == gae[batch[k].traj][batch[k].step]
           v == Value(batch[k], 1)
<1>5. x \in Int
  BY <1>1, <1>4
<1>6. ret'[k] = Broadcast(batch[k], x + v, 1)
  BY <1>1, <1>2 DEF RawAdvantage
<1>7. Mask(batch[k])[1] = 1
  BY <1>3, <1>4, Sizes DEF Mask, Tokens
<1>8. ret'[k].num[1] = (x + v) * 1
  <2> HIDE DEF x, v
  <2> QED
    BY <1>3, <1>6, <1>7 DEF Broadcast, Cell
<1>9. StepAdvantage(k)' = ret'[k].num[1] - v
  BY <1>1 DEF StepAdvantage
<1>10. StepAdvantage(k)' = x
  <2> HIDE DEF x, v
  <2> QED
    BY <1>4, <1>5, <1>8, <1>9 DEF v
<1> QED
  BY <1>4, <1>5, <1>10

\* What compute_gae_advantage_return gives back.
LEMMA GaeEndKeeps ==
  ASSUME GaeInv, LayoutInv', GaeEnd
  PROVE  GaeInv'
<1>1. pc = "gae" /\ t = 0 /\ pc' = "critic" /\ est' = est /\ batch' = batch
  BY DEF GaeEnd, layout
<1>2. /\ LayoutInv /\ top \in 1..MaxSteps
      /\ \A k \in Real(batch) : batch[k].step < top
      /\ gae \in [Trajs -> [Steps -> Int]]
  BY <1>1 DEF GaeInv, Looping, StepLoop
<1>3. \A i \in Trajs, u \in Steps : u < top =>
        /\ gae[i][u] = Delta(batch, top, i, u) + Gamma * Lambda * Rest(i, u + 1)
        /\ steps[i] <= u => gae[i][u] = 0
  <2>1. \A u \in Steps : t <= u
    BY <1>1 DEF Steps
  <2> QED
    BY <2>1, <1>1 DEF GaeInv, StepLoop
<1>4. Real(batch)' = Real(batch) /\ \A k \in Real(batch) : Following(k)' = Following(k)
  BY <1>1 DEF Real, Following
<1>5. ASSUME NEW k \in Real(batch)
      PROVE  /\ StepAdvantage(k)' = gae[batch[k].traj][batch[k].step]
             /\ batch[k].traj \in Trajs /\ batch[k].step \in Steps
             /\ batch[k].reward \in Int /\ Value(batch[k], 1) \in Int
             /\ StepAdvantage(k)' \in Int
  BY GaeEndGives
<1>6. ASSUME NEW k \in Real(batch), NEW l \in Following(k)
      PROVE  StepAdvantage(k)' =
               batch[k].reward + Gamma * Value(batch[l], 1) - Value(batch[k], 1)
                 + Gamma * Lambda * StepAdvantage(l)'
  <2> DEFINE i == batch[k].traj
             u == batch[k].step
  <2>1. l \in Real(batch) /\ batch[l].traj = i /\ batch[l].step = u + 1
    BY DEF Following
  <2>2. u \in Steps /\ u \in Int /\ u + 1 < top /\ u < top - 1 /\ u < top /\ i \in Trajs
    BY <2>1, <1>2, <1>5, Sizes DEF Steps
  <2>3. /\ RewardsMap(batch, i, u) = batch[k].reward
        /\ ValuesMap(batch, i, u) = Value(batch[k], 1)
        /\ ValuesMap(batch, i, u + 1) = Value(batch[l], 1)
    BY <2>1, <1>2, LookUp
  <2>4. Rest(i, u + 1) = StepAdvantage(l)'
    BY <2>1, <2>2, <1>5 DEF Rest
  <2>5. Delta(batch, top, i, u) =
          batch[k].reward - Value(batch[k], 1) + Gamma * Value(batch[l], 1)
    BY <2>2, <2>3 DEF Delta
  <2>6. StepAdvantage(k)' = Delta(batch, top, i, u) + Gamma * Lambda * StepAdvantage(l)'
    BY <2>2, <2>4, <1>3, <1>5
  <2>7. Gamma * Value(batch[l], 1) \in Int
    BY <2>1, <1>5, Sizes
  <2>8. Gamma * Lambda * StepAdvantage(l)' \in Int
    BY <2>1, <1>5, Sizes
  <2> DEFINE a == Gamma * Value(batch[l], 1)
             b == Gamma * Lambda * StepAdvantage(l)'
             r == batch[k].reward
             v == Value(batch[k], 1)
  <2>9. r \in Int /\ v \in Int
    BY <1>5
  <2>10. StepAdvantage(k)' = (r - v + a) + b
    BY <2>5, <2>6
  <2>11. (r - v + a) + b = r + a - v + b
    <3> HIDE DEF a, b, r, v
    <3> QED
      BY <2>7, <2>8, <2>9 DEF a, b
  <2> QED
    BY <2>10, <2>11
<1>7. ASSUME NEW k \in Real(batch), Following(k) = {}
      PROVE  StepAdvantage(k)' = batch[k].reward - Value(batch[k], 1)
  <2> DEFINE i == batch[k].traj
             u == batch[k].step
  <2>1. u \in Steps /\ u \in Nat /\ u + 1 \in Nat /\ u < top /\ i \in Trajs
    BY <1>2, <1>5, Sizes DEF Steps
  <2>2. steps[i] \in Int /\ steps[i] <= MaxSteps
    BY <2>1, <1>2, Sizes DEF LayoutInv, LayoutTypes
  <2>3. steps[i] <= u + 1
    <3> SUFFICES ASSUME u + 1 < steps[i] PROVE FALSE
      BY <2>1, <2>2
    <3>1. u + 1 \in Steps
      BY <2>1, <2>2, Sizes DEF Steps
    <3>2. RowsOf(batch, i, u + 1) # {}
      BY <3>1, <2>1, <1>2 DEF LayoutInv, LaidOut
    <3> QED
      BY <3>2, <1>7 DEF RowsOf, Following
  <2>4. ValuesMap(batch, i, u + 1) = 0
    BY <2>1, <2>3, <1>2, NothingBeyond
  <2>5. Rest(i, u + 1) = 0
    <3>1. u + 1 < top => u + 1 \in Steps
      BY <2>1, <1>2, Sizes DEF Steps
    <3> QED
      BY <3>1, <2>1, <2>3, <1>3 DEF Rest
  <2>6. /\ RewardsMap(batch, i, u) = batch[k].reward
        /\ ValuesMap(batch, i, u) = Value(batch[k], 1)
    BY <1>2, LookUp
  <2>7. Delta(batch, top, i, u) = batch[k].reward - Value(batch[k], 1)
    <3>1. Gamma * 0 = 0
      BY Sizes
    <3> QED
      BY <3>1, <2>4, <2>6, <1>5 DEF Delta
  <2>8. Gamma * Lambda * 0 = 0
    BY Sizes
  <2>9. StepAdvantage(k)' = Delta(batch, top, i, u) + Gamma * Lambda * 0
    BY <2>1, <2>5, <1>3, <1>5
  <2> QED
    BY <2>7, <2>8, <2>9, <1>5
<1>8. StepGaeAlongTrajectory'
  <2>1. \A k \in Real(batch) : Value(batch[k], 1)' = Value(batch[k], 1)
    BY <1>1
  <2> QED
    BY <2>1, <1>1, <1>4, <1>6, <1>7 DEF StepGaeAlongTrajectory
<1> QED
  BY <1>1, <1>8 DEF GaeInv, Outcomes, Fresh, Looping, StepLoop

\* The steps of the other estimators and of the updates.
LEMMA GaeElsewhere ==
  ASSUME GaeInv, LayoutInv', batch' = batch,
         \/ /\ pc' \in {"critic", "update_critic", "actor"} /\ est' = est
            /\ \/ ret' = ret /\ pc \in {"critic", "update_critic", "actor"}
               \/ est # "gae"
         \/ /\ pc = "token_gae" /\ pc' = "token_gae" /\ est' = est
            /\ top' = top /\ t' \in 0..top
  PROVE  GaeInv'
<1>1. Real(batch)' = Real(batch)
  BY DEF Real
<1>2. CASE /\ pc' \in {"critic", "update_critic", "actor"} /\ est' = est
           /\ est # "gae"
  BY <1>2 DEF GaeInv, Outcomes, Fresh, Looping, StepLoop, StepGaeAlongTrajectory
<1>3. CASE /\ pc' \in {"critic", "update_critic", "actor"} /\ est' = est
           /\ ret' = ret /\ pc \in {"critic", "update_critic", "actor"}
  <2>1. /\ \A k \in DOMAIN batch : StepAdvantage(k)' = StepAdvantage(k)
        /\ \A k \in DOMAIN batch : Following(k)' = Following(k)
        /\ \A k \in DOMAIN batch : Value(batch[k], 1)' = Value(batch[k], 1)
        /\ \A k \in Real(batch) : k \in DOMAIN batch
        /\ \A k \in DOMAIN batch : Following(k) \subseteq DOMAIN batch
    BY <1>1, <1>3 DEF StepAdvantage, Following, Real
  <2>2. StepGaeAlongTrajectory'
    BY <2>1, <1>1, <1>3 DEF GaeInv, StepGaeAlongTrajectory, AdvantagesReady
  <2> QED
    BY <2>2, <1>3 DEF GaeInv, Outcomes, Fresh, Looping, StepLoop
<1>4. CASE /\ pc = "token_gae" /\ pc' = "token_gae" /\ est' = est
           /\ top' = top /\ t' \in 0..top
  BY <1>1, <1>4 DEF GaeInv, Outcomes, Fresh, Looping, StepLoop, StepGaeAlongTrajectory, AdvantagesReady
<1> QED
  BY <1>2, <1>3, <1>4

LEMMA GaeNext == GaeInv /\ [Next]_vars => GaeInv'
<1> SUFFICES ASSUME GaeInv, [Next]_vars PROVE GaeInv'
  OBVIOUS
<1>1. LayoutInv'
  BY LayoutNext DEF GaeInv
<1>2. pc \in {"rollout", "pad", "balance", "scale", "advantage"} =>
        lastgaelam = Zeros /\ bootstrap = Zeros /\ gae = ZeroTable /\ j = 0
  BY DEF GaeInv, Fresh
<1>3. pc \in {"gae", "token_gae"} => est = pc /\ top \in 1..MaxSteps /\ t \in 0..top
  BY DEF GaeInv, Looping
<1>4. ASSUME NEW score \in Scores, NEW len \in Tokens, NEW isLast \in BOOLEAN,
             CollectStep(score, len, isLast)
      PROVE  GaeInv'
  BY <1>1, <1>2, <1>4, GaeOutside DEF CollectStep, loop
<1>5. CASE Pad
  BY <1>1, <1>2, <1>5, GaeOutside DEF Pad, loop
<1>6. CASE Balance
  BY <1>1, <1>2, <1>6, GaeOutside DEF Balance, loop
<1>7. ASSUME NEW factor \in ScaleFactors, Scale(factor)
      PROVE  GaeInv'
  BY <1>1, <1>2, <1>7, GaeOutside DEF Scale, loop
<1>8. ASSUME NEW e \in Estimators, ComputeAdvantage(e)
      PROVE  GaeInv'
  BY <1>1, <1>8, GaeStarts
<1>9. CASE GaeStep
  BY <1>1, <1>9, GaeStepKeeps
<1>10. CASE GaeEnd
  BY <1>1, <1>10, GaeEndKeeps
<1>11. CASE TokenStep
  <2>1. t - 1 \in 0..top
    BY <1>3, <1>11, Sizes DEF TokenStep
  <2> QED
    BY <2>1, <1>1, <1>11, GaeElsewhere DEF TokenStep, layout
<1>12. CASE TokenRound
  BY <1>1, <1>3, <1>12, GaeElsewhere DEF TokenRound, layout
<1>13. CASE TokenGaeEnd
  BY <1>1, <1>3, <1>13, GaeElsewhere DEF TokenGaeEnd, layout
<1>14. CASE Outcome
  <2>1. est # "gae"
    BY <1>14 DEF GaeInv, Outcomes, Outcome
  <2> QED
    BY <2>1, <1>1, <1>14, GaeElsewhere DEF Outcome, layout
<1>15. CASE MaskForCritic
  BY <1>1, <1>15, GaeElsewhere DEF MaskForCritic, layout
<1>16. CASE UpdateCritic
  BY <1>1, <1>16, GaeElsewhere DEF UpdateCritic, layout
<1>17. CASE UpdateActor
  BY <1>1, <1>17, GaeOutside DEF UpdateActor
<1>18. CASE UNCHANGED vars
  <2>1. /\ pc' = pc /\ est' = est /\ batch' = batch /\ steps' = steps /\ top' = top /\ t' = t
        /\ j' = j /\ lastgaelam' = lastgaelam /\ bootstrap' = bootstrap /\ gae' = gae
        /\ ret' = ret
    BY <1>18 DEF vars, layout, loop
  <2>2. Real(batch)' = Real(batch)
    BY <2>1 DEF Real
  <2>3. Outcomes' /\ Fresh' /\ Looping'
    BY <2>1, <2>2 DEF GaeInv, Outcomes, Fresh, Looping
  <2>4. StepLoop'
    BY <2>1 DEF GaeInv, StepLoop, Rest
  <2>5. StepGaeAlongTrajectory'
    BY <2>1, <2>2 DEF GaeInv, StepGaeAlongTrajectory, AdvantagesReady, Following, StepAdvantage
  <2> QED
    BY <1>1, <2>3, <2>4, <2>5 DEF GaeInv
<1> QED
  BY <1>4, <1>5, <1>6, <1>7, <1>8, <1>9, <1>10, <1>11, <1>12, <1>13, <1>14, <1>15, <1>16,
     <1>17, <1>18 DEF Next

LEMMA GaeAlways == Spec => []GaeInv
BY GaeInit, GaeNext, PTL DEF Spec

\* The advantage that compute_gae_advantage_return gives a step continues in the
\* next step of the same trajectory, and in nothing after its last step.
THEOREM StepGaeStaysInItsTrajectory == Spec => []StepGaeAlongTrajectory
<1>1. GaeInv => StepGaeAlongTrajectory
  BY DEF GaeInv
<1> QED
  BY <1>1, GaeAlways, PTL

-----------------------------------------------------------------------------
(***************************************************************************)
(* Token-level GAE.                                                        *)
(***************************************************************************)
\* The tokens whose round is over.
Seen(k, n) == batch[k].step > t \/ (batch[k].step = t /\ n > j)

\* The timeline at one token.
Linked(k, n) ==
  /\ n < batch[k].len => Continues(k, n, k, n + 1)
  /\ n = batch[k].len =>
       /\ \A l \in Following(k) : Continues(k, n, l, 1)
       /\ Following(k) = {} => TokenAdvantage(k, n) = batch[k].reward - Value(batch[k], n)

\* What the recursion of a trajectory holds: a token, or nothing.
Holds(i, k, n) == lastgaelam[i] = TokenAdvantage(k, n) /\ bootstrap[i] = Value(batch[k], n)
HoldsNothing(i) == lastgaelam[i] = 0 /\ bootstrap[i] = 0

\* The token after the last of row k, or nothing.
Carried(k) ==
  /\ \A l \in Following(k) : Holds(batch[k].traj, l, 1)
  /\ Following(k) = {} => HoldsNothing(batch[k].traj)

TokenTypes ==
  /\ j \in 0..RespLen
  /\ ret \in [DOMAIN batch -> [num : [Tokens -> Int], den : Nat \ {0}]]
  /\ lastgaelam \in [Trajs -> Int] /\ bootstrap \in [Trajs -> Int]

TokenLoop ==
  pc = "token_gae" =>
    /\ TokenTypes
    /\ \A k \in Real(batch), n \in Tokens : n <= batch[k].len /\ Seen(k, n) => Linked(k, n)
    /\ \A k \in Real(batch) : batch[k].step = t =>
         /\ j < batch[k].len => Holds(batch[k].traj, k, j + 1)
         /\ j >= batch[k].len => Carried(k)
    /\ \A i \in Trajs : steps[i] <= t => HoldsNothing(i)

TokenInv == GaeInv /\ TokenLoop /\ TokenGaeIsOneTimeline

LEMMA TokenStarts ==
  ASSUME TokenInv, GaeInv', NEW e \in Estimators, ComputeAdvantage(e)
  PROVE  TokenInv'
<1>1. /\ pc = "advantage" /\ est' = e
      /\ pc' = IF e \in {"gae", "token_gae"} THEN e ELSE "outcome"
      /\ batch' = batch /\ steps' = steps /\ j' = j
      /\ lastgaelam' = lastgaelam /\ bootstrap' = bootstrap
      /\ ret' = [k \in DOMAIN batch |-> NoCell]
      /\ top' \in 1..MaxSteps /\ t' = top'
      /\ \A k \in Real(batch) : batch[k].step < top'
  BY DEF ComputeAdvantage, layout
<1>2. lastgaelam = Zeros /\ bootstrap = Zeros /\ j = 0
  BY <1>1 DEF TokenInv, GaeInv, Fresh
<1>3. TokenTypes'
  <2>1. NoCell \in [num : [Tokens -> Int], den : Nat \ {0}]
    BY DEF NoCell, Cell
  <2> QED
    BY <2>1, <1>1, <1>2, Sizes DEF TokenTypes, Zeros
<1>4. Real(batch)' = Real(batch)
  BY <1>1 DEF Real
<1>5. \A k \in Real(batch) : batch[k].step < t' /\ batch[k].step \in Int
  <2>1. \A k \in Real(batch) : batch[k].step \in Steps
    BY RowTypes DEF TokenInv, GaeInv, Real
  <2> QED
    BY <2>1, <1>1, Sizes DEF Steps
<1>6. \A k \in Real(batch)' : ~(batch'[k].step = t') /\ ~(batch'[k].step > t')
  BY <1>1, <1>4, <1>5, Sizes
<1>7. \A i \in Trajs : HoldsNothing(i)'
  BY <1>1, <1>2 DEF HoldsNothing, Zeros
<1>8. TokenLoop'
  BY <1>3, <1>6, <1>7 DEF TokenLoop, Seen
<1> QED
  BY <1>1, <1>8 DEF TokenInv, TokenGaeIsOneTimeline, AdvantagesReady

LEMMA TokenStepKeeps ==
  ASSUME TokenInv, GaeInv', TokenStep
  PROVE  TokenInv'
<1>1. /\ pc = "token_gae" /\ pc' = "token_gae" /\ t > 0 /\ j = 0 /\ t' = t - 1 /\ j' = RespLen
      /\ batch' = batch /\ steps' = steps /\ ret' = ret
      /\ lastgaelam' = lastgaelam /\ bootstrap' = bootstrap
  BY DEF TokenStep, layout
<1>2. /\ LayoutInv /\ top \in 1..MaxSteps /\ t \in 0..top
      /\ TokenTypes
  BY <1>1 DEF TokenInv, GaeInv, Looping, TokenLoop
<1>3. /\ \A k \in Real(batch), n \in Tokens : n <= batch[k].len /\ Seen(k, n) => Linked(k, n)
      /\ \A k \in Real(batch) : batch[k].step = t =>
           (j < batch[k].len => Holds(batch[k].traj, k, j + 1))
      /\ \A i \in Trajs : steps[i] <= t => HoldsNothing(i)
  BY <1>1 DEF TokenInv, TokenLoop
<1>4. /\ Real(batch)' = Real(batch)
      /\ \A k \in Real(batch) : Following(k)' = Following(k)
  BY <1>1 DEF Real, Following
<1>5. \A k \in Real(batch) :
        /\ k \in DOMAIN batch
        /\ batch[k].step \in Steps /\ batch[k].len \in Tokens /\ batch[k].traj \in Trajs
        /\ batch[k].step \in Int
  BY <1>2, RowTypes, Sizes DEF Real, Steps
<1>6. TokenTypes'
  BY <1>1, <1>2, Sizes DEF TokenTypes
<1>7. \A k \in Real(batch), n \in Tokens : n <= batch[k].len /\ Seen(k, n)' => Linked(k, n)'
  <2> SUFFICES ASSUME NEW k \in Real(batch), NEW n \in Tokens, n <= batch[k].len, Seen(k, n)'
               PROVE  Linked(k, n)'
    OBVIOUS
  <2>1. Seen(k, n)
    BY <1>1, <1>2, <1>5, Sizes DEF Seen, Tokens
  <2>2. Linked(k, n)
    BY <2>1, <1>3
  <2> QED
    BY <2>2, <1>1, <1>4 DEF Linked, Continues, TokenAdvantage
<1>8. \A k \in Real(batch) : batch[k].step = t' => j' >= batch[k].len /\ Carried(k)'
  <2> SUFFICES ASSUME NEW k \in Real(batch), batch[k].step = t'
               PROVE  j' >= batch[k].len /\ Carried(k)'
    OBVIOUS
  <2> DEFINE i == batch[k].traj
  <2>1. j' >= batch[k].len
    BY <1>1, <1>5, Sizes DEF Tokens
  <2>2. ASSUME NEW l \in Following(k) PROVE Holds(i, l, 1)
    <3>1. l \in Real(batch) /\ batch[l].traj = i /\ batch[l].step = t
      BY <1>1, <1>2 DEF Following
    <3>2. j < batch[l].len
      BY <3>1, <1>1, <1>5, Sizes DEF Tokens
    <3>3. Holds(batch[l].traj, l, j + 1)
      BY <3>1, <3>2, <1>3
    <3>4. j + 1 = 1
      BY <1>1
    <3> QED
      BY <3>1, <3>3, <3>4
  <2>3. ASSUME Following(k) = {} PROVE HoldsNothing(i)
    <3>1. steps[i] \in 0..MaxSteps
      BY <1>2, <1>5 DEF LayoutInv, LayoutTypes
    <3>2. steps[i] <= t
      <4> SUFFICES ASSUME t < steps[i] PROVE FALSE
        BY <1>2, <3>1, Sizes
      <4>1. t \in Steps
        BY <1>2, <3>1, Sizes DEF Steps
      <4>2. RowsOf(batch, i, t) # {}
        BY <4>1, <1>2, <1>5 DEF LayoutInv, LaidOut
      <4> QED
        BY <4>2, <2>3, <1>1, <1>2 DEF RowsOf, Following
    <3> QED
      BY <3>2, <1>3, <1>5
  <2> QED
    BY <2>1, <2>2, <2>3, <1>1, <1>4 DEF Carried, Holds, HoldsNothing, TokenAdvantage
<1>9. \A i \in Trajs : steps[i] <= t' => HoldsNothing(i)'
  <2> SUFFICES ASSUME NEW i \in Trajs, steps[i] <= t' PROVE HoldsNothing(i)'
    OBVIOUS
  <2>1. steps[i] <= t
    BY <1>1, <1>2 DEF LayoutInv, LayoutTypes
  <2> QED
    BY <2>1, <1>1, <1>3 DEF HoldsNothing
<1>10. TokenLoop'
  <2>1. \A k \in Real(batch)' : batch'[k].step = t' =>
          /\ j' < batch'[k].len => Holds(batch[k].traj, k, j + 1)'
          /\ j' >= batch'[k].len => Carried(k)'
    BY <1>1, <1>4, <1>5, <1>8, Sizes DEF Tokens
  <2> QED
    BY <2>1, <1>1, <1>4, <1>6, <1>7, <1>9 DEF TokenLoop
<1> QED
  BY <1>1, <1>10 DEF TokenInv, TokenGaeIsOneTimeline, AdvantagesReady

\* What one round of the inner loop computes ...
LEMMA TokenGaeType ==
  ASSUME LayoutInv, TokenTypes, j \in Tokens, NEW k \in Acting
  PROVE  TokenGae(batch[k]) \in Int
<1> DEFINE i == batch[k].traj
<1>1. k \in DOMAIN batch
  BY DEF Acting, Real
<1>2. TokenReward(batch[k], j) \in Int /\ Value(batch[k], j) \in Int /\ i \in Trajs
  BY <1>1, RowTypes DEF TokenReward
<1>3. bootstrap[i] \in Int /\ lastgaelam[i] \in Int
  BY <1>2 DEF TokenTypes
<1>4. Gamma * bootstrap[i] \in Int /\ Gamma * Lambda * lastgaelam[i] \in Int
  BY <1>3, Sizes
<1> HIDE DEF i
<1>5. TokenGae(batch[k]) = TokenReward(batch[k], j) + Gamma * bootstrap[i] - Value(batch[k], j)
                             + Gamma * Lambda * lastgaelam[i]
  BY DEF TokenGae, i
<1> QED
  BY <1>2, <1>4, <1>5

\* ... it writes down for the rows of the round, and only for these.
LEMMA RoundWrites ==
  ASSUME LayoutInv, TokenTypes, NEW m \in Tokens, m = j, TokenRound
  PROVE  /\ \A k \in Acting : TokenAdvantage(k, m)' = TokenGae(batch[k])
         /\ \A k \in Real(batch), n \in Tokens : ~(k \in Acting /\ n = m) =>
              TokenAdvantage(k, n)' = TokenAdvantage(k, n)
<1>1. /\ batch' = batch
      /\ ret' = [k \in DOMAIN batch |->
           IF k \in Acting
           THEN [ret[k] EXCEPT !.num[j] = TokenGae(batch[k]) + Value(batch[k], j)]
           ELSE ret[k]]
      /\ \A k \in DOMAIN batch : ret[k] \in [num : [Tokens -> Int], den : Nat \ {0}]
  BY DEF TokenRound, layout, TokenTypes
<1>2. \A k \in Acting : k \in DOMAIN batch
  BY DEF Acting, Real
<1>3. ASSUME NEW k \in Acting PROVE TokenAdvantage(k, m)' = TokenGae(batch[k])
  <2>1. ret'[k].num[m] = TokenGae(batch[k]) + Value(batch[k], m)
    BY <1>1, <1>2
  <2>2. TokenAdvantage(k, m)' = ret'[k].num[m] - Value(batch[k], m)
    BY <1>1 DEF TokenAdvantage
  <2>3. Value(batch[k], m) \in Int /\ TokenGae(batch[k]) \in Int
    BY <1>2, RowTypes, TokenGaeType
  <2> QED
    BY <2>1, <2>2, <2>3
<1>4. ASSUME NEW k \in Real(batch), NEW n \in Tokens, ~(k \in Acting /\ n = m)
      PROVE  TokenAdvantage(k, n)' = TokenAdvantage(k, n)
  <2>1. k \in DOMAIN batch
    BY DEF Real
  <2>2. ret'[k].num[n] = ret[k].num[n]
    BY <2>1, <1>1, <1>4
  <2> QED
    BY <2>2, <1>1 DEF TokenAdvantage
<1> QED
  BY <1>3, <1>4

\* A round of the inner loop, whose token is m of step s.
LEMMA TokenRoundKeeps ==
  ASSUME TokenInv, GaeInv', TokenRound
  PROVE  TokenInv'
<1>1. /\ pc = "token_gae" /\ pc' = "token_gae" /\ j > 0 /\ t' = t /\ j' = j - 1
      /\ batch' = batch /\ steps' = steps
      /\ lastgaelam' = [i \in Trajs |->
           IF \E k \in Acting : batch[k].traj = i
           THEN TokenGae(batch[CHOOSE k \in Acting : batch[k].traj = i])
           ELSE lastgaelam[i]]
      /\ bootstrap' = [i \in Trajs |->
           IF \E k \in Acting : batch[k].traj = i
           THEN Value(batch[CHOOSE k \in Acting : batch[k].traj = i], j)
           ELSE bootstrap[i]]
      /\ ret' = [k \in DOMAIN batch |->
           IF k \in Acting
           THEN [ret[k] EXCEPT !.num[j] = TokenGae(batch[k]) + Value(batch[k], j)]
           ELSE ret[k]]
  BY DEF TokenRound, layout
<1>2. /\ LayoutInv /\ top \in 1..MaxSteps /\ t \in 0..top
      /\ TokenTypes
  BY <1>1 DEF TokenInv, GaeInv, Looping, TokenLoop
<1>3. /\ \A k \in Real(batch), n \in Tokens : n <= batch[k].len /\ Seen(k, n) => Linked(k, n)
      /\ \A k \in Real(batch) : batch[k].step = t =>
           /\ j < batch[k].len => Holds(batch[k].traj, k, j + 1)
           /\ j >= batch[k].len => Carried(k)
      /\ \A i \in Trajs : steps[i] <= t => HoldsNothing(i)
  BY <1>1 DEF TokenInv, TokenLoop
<1>4. PICK m \in Tokens, s \in Nat : m = j /\ s = t
  BY <1>1, <1>2, Sizes DEF TokenTypes, Tokens
<1>5. \A k \in Real(batch) :
        /\ k \in DOMAIN batch
        /\ batch[k].step \in Steps /\ batch[k].len \in Tokens /\ batch[k].traj \in Trajs
        /\ batch[k].step \in Int /\ batch[k].reward \in Int
        /\ \A n \in Tokens : Value(batch[k], n) \in Int
  BY <1>2, RowTypes, Sizes DEF Real, Steps
<1>6. Acting = {k \in Real(batch) : batch[k].step = s /\ m <= batch[k].len}
  <2>1. \A k \in Real(batch) : Mask(batch[k])[j] = 1 <=> m <= batch[k].len
    BY <1>4, <1>5, Sizes DEF Mask, Tokens
  <2> QED
    BY <2>1, <1>4 DEF Acting
<1>7. \A k, l \in Acting : batch[k].traj = batch[l].traj => k = l
  BY <1>2, <1>6 DEF LayoutInv, LaidOut
<1>8. \A k \in Acting : TokenGae(batch[k]) \in Int
  BY <1>2, <1>4, TokenGaeType
<1>9. \A k \in Acting :
        /\ lastgaelam'[batch[k].traj] = TokenGae(batch[k])
        /\ bootstrap'[batch[k].traj] = Value(batch[k], m)
  <2> SUFFICES ASSUME NEW k \in Acting
               PROVE  /\ lastgaelam'[batch[k].traj] = TokenGae(batch[k])
                      /\ bootstrap'[batch[k].traj] = Value(batch[k], m)
    OBVIOUS
  <2>1. (CHOOSE l \in Acting : batch[l].traj = batch[k].traj) = k
    BY <1>7
  <2>2. batch[k].traj \in Trajs
    BY <1>5, <1>6
  <2> QED
    BY <2>1, <2>2, <1>1, <1>4
<1>10. \A i \in Trajs : (\A k \in Acting : batch[k].traj # i) =>
         lastgaelam'[i] = lastgaelam[i] /\ bootstrap'[i] = bootstrap[i]
  BY <1>1
<1>11. TokenTypes'
  <2>1. lastgaelam' \in [Trajs -> Int] /\ bootstrap' \in [Trajs -> Int]
    <3> SUFFICES ASSUME NEW i \in Trajs PROVE lastgaelam'[i] \in Int /\ bootstrap'[i] \in Int
      BY <1>1
    <3>1. CASE \E k \in Acting : batch[k].traj = i
      BY <3>1, <1>4, <1>5, <1>6, <1>8, <1>9
    <3>2. CASE \A k \in Acting : batch[k].traj # i
      BY <3>2, <1>2, <1>10 DEF TokenTypes
    <3> QED
      BY <3>1, <3>2
  <2>2. ret' \in [DOMAIN batch -> [num : [Tokens -> Int], den : Nat \ {0}]]
    <3> SUFFICES ASSUME NEW k \in DOMAIN batch
                 PROVE  ret'[k] \in [num : [Tokens -> Int], den : Nat \ {0}]
      BY <1>1
    <3>1. ret[k] \in [num : [Tokens -> Int], den : Nat \ {0}]
      BY <1>2 DEF TokenTypes
    <3>2. CASE k \in Acting
      <4>1. TokenGae(batch[k]) + Value(batch[k], j) \in Int
        BY <3>2, <1>4, <1>5, <1>6, <1>8
      <4> QED
        BY <3>1, <3>2, <4>1, <1>1, <1>4
    <3>3. CASE k \notin Acting
      BY <3>1, <3>3, <1>1
    <3> QED
      BY <3>2, <3>3
  <2>3. j' \in 0..RespLen
    BY <1>1, <1>2, Sizes DEF TokenTypes
  <2> QED
    BY <2>1, <2>2, <2>3, <1>1 DEF TokenTypes
<1>12. /\ Real(batch)' = Real(batch)
       /\ \A k \in Real(batch) : Following(k)' = Following(k)
       /\ \A k \in Real(batch) : Following(k) \subseteq Real(batch)
  BY <1>1 DEF Real, Following
<1>13. \A k \in Acting : TokenAdvantage(k, m)' = TokenGae(batch[k])
  BY <1>2, <1>4, RoundWrites
<1>14. \A k \in Real(batch), n \in Tokens : ~(k \in Acting /\ n = m) =>
         TokenAdvantage(k, n)' = TokenAdvantage(k, n)
  BY <1>2, <1>4, RoundWrites
<1>15. ASSUME NEW k \in Acting
       PROVE  Linked(k, m)'
  <2> DEFINE i == batch[k].traj
  <2>1. k \in Real(batch) /\ batch[k].step = s /\ m <= batch[k].len
    BY <1>6
  <2>2. TokenAdvantage(k, m)' = TokenReward(batch[k], m) + Gamma * bootstrap[i] - Value(batch[k], m)
                                  + Gamma * Lambda * lastgaelam[i]
    BY <1>4, <1>13 DEF TokenGae
  <2>3. CASE m < batch[k].len
    <3>1. m + 1 \in Tokens /\ m + 1 # m
      BY <2>1, <2>3, <1>5, Sizes DEF Tokens
    <3>2. Holds(i, k, m + 1)
      BY <2>1, <2>3, <1>3, <1>4
    <3>3. TokenAdvantage(k, m + 1)' = TokenAdvantage(k, m + 1)
      BY <2>1, <3>1, <1>14
    <3>4. TokenAdvantage(k, m)' = TokenReward(batch[k], m) + Gamma * Value(batch[k], m + 1)
                                    - Value(batch[k], m)
                                    + Gamma * Lambda * TokenAdvantage(k, m + 1)'
      BY <2>2, <3>2, <3>3 DEF Holds
    <3>5. Continues(k, m, k, m + 1)'
      BY <3>4, <1>1 DEF Continues
    <3> QED
      BY <3>5, <2>3, <1>1, <1>5, <2>1 DEF Linked, Tokens
  <2>4. CASE m = batch[k].len
    <3>1. Carried(k)
      <4>1. j >= batch[k].len
        BY <2>4, <1>4, <1>5, <2>1 DEF Tokens
      <4> QED
        BY <4>1, <2>1, <1>3, <1>4
    <3>2. TokenReward(batch[k], m) = batch[k].reward
      BY <2>4 DEF TokenReward
    <3>3. ASSUME NEW l \in Following(k) PROVE Continues(k, m, l, 1)'
      <4>1. l \in Real(batch) /\ l \notin Acting
        BY <2>1, <1>4, <1>6 DEF Following
      <4>2. 1 \in Tokens
        BY Sizes DEF Tokens
      <4>3. TokenAdvantage(l, 1)' = TokenAdvantage(l, 1)
        BY <4>1, <4>2, <1>14
      <4>4. Holds(i, l, 1)
        BY <3>1 DEF Carried
      <4>5. TokenAdvantage(k, m)' = TokenReward(batch[k], m) + Gamma * Value(batch[l], 1)
                                      - Value(batch[k], m)
                                      + Gamma * Lambda * TokenAdvantage(l, 1)'
        BY <2>2, <4>3, <4>4 DEF Holds
      <4> QED
        BY <4>5, <1>1 DEF Continues
    <3>4. ASSUME Following(k) = {}
          PROVE  TokenAdvantage(k, m)' = batch[k].reward - Value(batch[k], m)
      <4>1. HoldsNothing(i)
        BY <3>1, <3>4 DEF Carried
      <4>2. Gamma * 0 = 0 /\ Gamma * Lambda * 0 = 0
        BY Sizes
      <4>3. batch[k].reward \in Int /\ Value(batch[k], m) \in Int
        BY <2>1, <1>5
      <4> QED
        BY <2>2, <3>2, <4>1, <4>2, <4>3 DEF HoldsNothing
    <3> QED
      BY <3>3, <3>4, <2>1, <2>4, <1>1, <1>5, <1>12 DEF Linked, Tokens
  <2> QED
    BY <2>1, <2>3, <2>4, <1>5 DEF Tokens
<1>16. ASSUME NEW k \in Real(batch), NEW n \in Tokens, n <= batch[k].len,
              batch[k].step > s \/ (batch[k].step = s /\ n > m)
       PROVE  Linked(k, n)'
  <2>1. Linked(k, n)
    BY <1>3, <1>4, <1>16 DEF Seen
  <2>2. ~(k \in Acting /\ n = m) /\ ~(k \in Acting /\ n + 1 = m)
    BY <1>4, <1>5, <1>6, <1>16 DEF Tokens
  <2>3. TokenAdvantage(k, n)' = TokenAdvantage(k, n)
    BY <2>2, <1>14
  <2>4. n < batch[k].len => n + 1 \in Tokens /\ TokenAdvantage(k, n + 1)' = TokenAdvantage(k, n + 1)
    <3>1. n < batch[k].len => n + 1 \in Tokens
      BY <1>5, Sizes DEF Tokens
    <3> QED
      BY <3>1, <2>2, <1>14
  <2>5. \A l \in Following(k) : TokenAdvantage(l, 1)' = TokenAdvantage(l, 1)
    <3>1. \A l \in Following(k) : l \in Real(batch) /\ l \notin Acting
      BY <1>4, <1>5, <1>6, <1>12, <1>16 DEF Following
    <3>2. 1 \in Tokens
      BY Sizes DEF Tokens
    <3> QED
      BY <3>1, <3>2, <1>14
  <2> QED
    BY <2>1, <2>3, <2>4, <2>5, <1>1, <1>12 DEF Linked, Continues
<1>17. \A k \in Real(batch), n \in Tokens : n <= batch[k].len /\ Seen(k, n)' => Linked(k, n)'
  <2> SUFFICES ASSUME NEW k \in Real(batch), NEW n \in Tokens, n <= batch[k].len, Seen(k, n)'
               PROVE  Linked(k, n)'
    OBVIOUS
  <2>1. batch[k].step > s \/ (batch[k].step = s /\ n > m - 1)
    BY <1>1, <1>4 DEF Seen
  <2>2. CASE k \in Acting /\ n = m
    BY <2>2, <1>15
  <2>3. CASE ~(k \in Acting /\ n = m)
    <3>1. batch[k].step > s \/ (batch[k].step = s /\ n > m)
      BY <2>1, <2>3, <1>4, <1>5, <1>6 DEF Tokens
    <3> QED
      BY <3>1, <1>16
  <2> QED
    BY <2>2, <2>3
<1>18. ASSUME NEW k \in Real(batch), batch[k].step = t'
       PROVE  /\ j' < batch[k].len => Holds(batch[k].traj, k, j + 1)'
              /\ j' >= batch[k].len => Carried(k)'
  <2> DEFINE i == batch[k].traj
  <2>1. batch[k].step = s /\ j' + 1 = m
    BY <1>1, <1>4, <1>18 DEF Tokens
  <2>2. CASE m <= batch[k].len
    <3>1. k \in Acting
      BY <2>1, <2>2, <1>6
    <3>2. lastgaelam'[i] = TokenAdvantage(k, m)' /\ bootstrap'[i] = Value(batch[k], m)
      BY <3>1, <1>9, <1>13
    <3>3. Holds(i, k, j + 1)'
      BY <3>2, <2>1, <1>1 DEF Holds
    <3>4. ~(j' >= batch[k].len)
      BY <2>1, <2>2, <1>1, <1>2, <1>5 DEF Tokens, TokenTypes
    <3> QED
      BY <3>3, <3>4
  <2>3. CASE ~(m <= batch[k].len)
    <3>1. \A l \in Acting : batch[l].traj # i
      <4> SUFFICES ASSUME NEW l \in Acting, batch[l].traj = i PROVE FALSE
        OBVIOUS
      <4>1. l = k
        BY <2>1, <1>2, <1>6 DEF LayoutInv, LaidOut
      <4> QED
        BY <4>1, <2>3, <1>6
    <3>2. lastgaelam'[i] = lastgaelam[i] /\ bootstrap'[i] = bootstrap[i]
      BY <3>1, <1>5, <1>10
    <3>3. Carried(k)
      BY <2>1, <2>3, <1>3, <1>4, <1>5 DEF Tokens
    <3>4. \A l \in Following(k) : TokenAdvantage(l, 1)' = TokenAdvantage(l, 1)
      <4>1. \A l \in Following(k) : l \in Real(batch) /\ l \notin Acting
        BY <2>1, <1>4, <1>6 DEF Following
      <4>2. 1 \in Tokens
        BY Sizes DEF Tokens
      <4> QED
        BY <4>1, <4>2, <1>14
    <3>5. Carried(k)'
      BY <3>2, <3>3, <3>4, <1>1, <1>12 DEF Carried, Holds, HoldsNothing
    <3>6. ~(j' < batch[k].len)
      BY <2>1, <2>3, <1>1, <1>2, <1>5 DEF Tokens, TokenTypes
    <3> QED
      BY <3>5, <3>6
  <2> QED
    BY <2>2, <2>3
<1>19. ASSUME NEW i \in Trajs, steps[i] <= t
       PROVE  HoldsNothing(i)'
  <2>1. \A k \in Acting : batch[k].traj # i
    <3> SUFFICES ASSUME NEW k \in Acting, batch[k].traj = i PROVE FALSE
      OBVIOUS
    <3>1. k \in DOMAIN batch /\ batch[k].step = t /\ steps[i] \in Int
      BY <1>2, <1>4, <1>5, <1>6 DEF LayoutInv, LayoutTypes
    <3>2. batch[k].step < steps[i]
      BY <3>1, <1>2 DEF LayoutInv, LaidOut
    <3> QED
      BY <3>1, <3>2, <1>2, <1>19
  <2> QED
    BY <2>1, <1>3, <1>10, <1>19 DEF HoldsNothing
<1>20. TokenLoop'
  BY <1>1, <1>11, <1>12, <1>17, <1>18, <1>19 DEF TokenLoop
<1> QED
  BY <1>1, <1>20 DEF TokenInv, TokenGaeIsOneTimeline, AdvantagesReady

\* What compute_token_gae_advantage_return gives back.
LEMMA TokenEndKeeps ==
  ASSUME TokenInv, GaeInv', TokenGaeEnd
  PROVE  TokenInv'
<1>1. /\ pc = "token_gae" /\ t = 0 /\ j = 0 /\ pc' = "critic" /\ est' = est
      /\ batch' = batch /\ ret' = ret
  BY DEF TokenGaeEnd, layout
<1>2. LayoutInv
  BY DEF TokenInv, GaeInv
<1>3. \A k \in Real(batch), n \in Tokens : n <= batch[k].len => Linked(k, n)
  <2> SUFFICES ASSUME NEW k \in Real(batch), NEW n \in Tokens, n <= batch[k].len
               PROVE  Linked(k, n)
    OBVIOUS
  <2>1. batch[k].step \in Steps
    BY <1>2, RowTypes DEF Real
  <2>2. Seen(k, n)
    BY <2>1, <1>1, Sizes DEF Seen, Steps, Tokens
  <2> QED
    BY <2>2, <1>1 DEF TokenInv, TokenLoop
<1>4. ASSUME NEW k \in Real(batch)
      PROVE  /\ \A n \in 1..batch[k].len - 1 : Continues(k, n, k, n + 1)
             /\ \A l \in Following(k) : Continues(k, batch[k].len, l, 1)
             /\ Following(k) = {} =>
                  TokenAdvantage(k, batch[k].len) =
                    batch[k].reward - Value(batch[k], batch[k].len)
  <2>1. batch[k].len \in Tokens /\ batch[k].len <= batch[k].len
    BY <1>2, RowTypes, Sizes DEF Real, Tokens
  <2>2. \A n \in 1..batch[k].len - 1 : n \in Tokens /\ n < batch[k].len /\ n <= batch[k].len
    BY <2>1, Sizes DEF Tokens
  <2> QED
    BY <2>1, <2>2, <1>3 DEF Linked
<1>5. TokenGaeIsOneTimeline'
  <2>1. \A k \in Real(batch) : Following(k)' = Following(k)
    BY <1>1 DEF Real, Following
  <2>2. Real(batch)' = Real(batch)
    BY <1>1 DEF Real
  <2> QED
    BY <2>1, <2>2, <1>1, <1>4
    DEF TokenGaeIsOneTimeline, Continues, TokenAdvantage
<1> QED
  BY <1>1, <1>5 DEF TokenInv, TokenLoop

\* The steps outside the loop.
LEMMA TokenElsewhere ==
  ASSUME TokenInv, GaeInv', pc' # "token_gae",
         \/ pc' \notin {"critic", "update_critic", "actor"}
         \/ est' # "token_gae"
         \/ /\ pc \in {"critic", "update_critic", "actor"}
            /\ est' = est /\ batch' = batch /\ ret' = ret
  PROVE  TokenInv'
<1>1. TokenLoop'
  BY DEF TokenLoop
<1>2. CASE pc' \notin {"critic", "update_critic", "actor"} \/ est' # "token_gae"
  BY <1>1, <1>2 DEF TokenInv, TokenGaeIsOneTimeline, AdvantagesReady
<1>3. CASE /\ pc \in {"critic", "update_critic", "actor"}
           /\ est' = est /\ batch' = batch /\ ret' = ret
  <2>1. /\ Real(batch)' = Real(batch)
        /\ \A k \in Real(batch) : Following(k)' = Following(k)
    BY <1>3 DEF Real, Following
  <2>2. TokenGaeIsOneTimeline'
    BY <2>1, <1>3
    DEF TokenInv, TokenGaeIsOneTimeline, AdvantagesReady, Continues, TokenAdvantage
  <2> QED
    BY <2>2, <1>1 DEF TokenInv
<1> QED
  BY <1>2, <1>3

LEMMA TokenNext == TokenInv /\ [Next]_vars => TokenInv'
<1> SUFFICES ASSUME TokenInv, [Next]_vars PROVE TokenInv'
  OBVIOUS
<1>1. GaeInv'
  BY GaeNext DEF TokenInv
<1>2. ASSUME NEW score \in Scores, NEW len \in Tokens, NEW isLast \in BOOLEAN,
             CollectStep(score, len, isLast)
      PROVE  TokenInv'
  BY <1>1, <1>2, TokenElsewhere DEF CollectStep
<1>3. CASE Pad
  BY <1>1, <1>3, TokenElsewhere DEF Pad
<1>4. CASE Balance
  BY <1>1, <1>4, TokenElsewhere DEF Balance
<1>5. ASSUME NEW factor \in ScaleFactors, Scale(factor)
      PROVE  TokenInv'
  BY <1>1, <1>5, TokenElsewhere DEF Scale
<1>6. ASSUME NEW e \in Estimators, ComputeAdvantage(e)
      PROVE  TokenInv'
  BY <1>1, <1>6, TokenStarts
<1>7. CASE GaeStep
  BY <1>1, <1>7, TokenElsewhere DEF GaeStep
<1>8. CASE GaeEnd
  <2>1. est = "gae"
    BY <1>8 DEF GaeEnd, TokenInv, GaeInv, Looping
  <2> QED
    BY <2>1, <1>1, <1>8, TokenElsewhere DEF GaeEnd
<1>9. CASE TokenStep
  BY <1>1, <1>9, TokenStepKeeps
<1>10. CASE TokenRound
  BY <1>1, <1>10, TokenRoundKeeps
<1>11. CASE TokenGaeEnd
  BY <1>1, <1>11, TokenEndKeeps
<1>12. CASE Outcome
  <2>1. est # "token_gae"
    BY <1>12 DEF TokenInv, GaeInv, Outcomes, Outcome
  <2> QED
    BY <2>1, <1>1, <1>12, TokenElsewhere DEF Outcome
<1>13. CASE MaskForCritic
  BY <1>1, <1>13, TokenElsewhere DEF MaskForCritic, layout
<1>14. CASE UpdateCritic
  BY <1>1, <1>14, TokenElsewhere DEF UpdateCritic, layout
<1>15. CASE UpdateActor
  BY <1>1, <1>15, TokenElsewhere DEF UpdateActor
<1>16. CASE UNCHANGED vars
  <2>1. /\ pc' = pc /\ est' = est /\ batch' = batch /\ steps' = steps /\ t' = t /\ j' = j
        /\ lastgaelam' = lastgaelam /\ bootstrap' = bootstrap /\ ret' = ret
    BY <1>16 DEF vars, layout, loop
  <2>2. /\ Real(batch)' = Real(batch)
        /\ \A k \in Real(batch) : Following(k)' = Following(k)
    BY <2>1 DEF Real, Following
  <2>3. TokenTypes' <=> TokenTypes
    BY <2>1 DEF TokenTypes
  <2>4. TokenLoop'
    BY <2>1, <2>2, <2>3
    DEF TokenInv, TokenLoop, Seen, Linked, Holds, HoldsNothing, Carried, Continues, TokenAdvantage
  <2>5. TokenGaeIsOneTimeline'
    BY <2>1, <2>2
    DEF TokenInv, TokenGaeIsOneTimeline, AdvantagesReady, Continues, TokenAdvantage
  <2> QED
    BY <1>1, <2>4, <2>5 DEF TokenInv
<1> QED
  BY <1>2, <1>3, <1>4, <1>5, <1>6, <1>7, <1>8, <1>9, <1>10, <1>11, <1>12, <1>13, <1>14,
     <1>15, <1>16 DEF Next

LEMMA TokenInit == Init => TokenInv
<1> SUFFICES ASSUME Init PROVE TokenInv
  OBVIOUS
<1>1. GaeInv
  BY GaeInit
<1>2. pc = "rollout"
  BY DEF Init
<1> QED
  BY <1>1, <1>2 DEF TokenInv, TokenLoop, TokenGaeIsOneTimeline, AdvantagesReady

\* The advantage that compute_token_gae_advantage_return gives an action token
\* continues in the action token that comes next in the trajectory, in the same
\* step or in the following one, and in nothing after its last token.
THEOREM TokenGaeFollowsTheTimeline == Spec => []TokenGaeIsOneTimeline
<1>1. TokenInv => TokenGaeIsOneTimeline
  BY DEF TokenInv
<1>2. Spec => []TokenInv
  BY TokenInit, TokenNext, PTL DEF Spec
<1> QED
  BY <1>1, <1>2, PTL

-----------------------------------------------------------------------------
(***************************************************************************)
(* What a trajectory earned.  The outcome estimators add up the scores of  *)
(* the rows they find; that is the score of the trajectory as it was       *)
(* rolled out, whatever padding, balancing and scaling did to the rows.    *)
(***************************************************************************)
EarnedIsTotal ==
  earned \in [Trajs -> Int] /\ \A i \in Trajs : earned[i] = Total(batch, i)

\* Every trajectory that has been laid out has a step.
Everyone == \A i \in Trajs : pc # "rollout" \/ i < traj => steps[i] > 0

EarnedInv == LayoutInv /\ EarnedIsTotal /\ Everyone

Reward(b, i) == [k \in RowsOfTraj(b, i) |-> b[k].reward]

LEMMA TotalIsSum ==
  ASSUME NEW b, NEW i
  PROVE  Total(b, i) = Sum(Reward(b, i), RowsOfTraj(b, i))
BY DEF Total, Reward

\* The rows of a batch, and their rewards.
LEMMA RowsAreFinite ==
  ASSUME NEW b \in Seq(Row)
  PROVE  /\ IsFiniteSet(DOMAIN b) /\ IsFiniteSet(Real(b))
         /\ \A i : /\ IsFiniteSet(RowsOfTraj(b, i))
                   /\ RowsOfTraj(b, i) \subseteq Real(b)
         /\ \A k \in DOMAIN b : b[k].reward \in Int
<1>1. DOMAIN b = 1..Len(b) /\ Len(b) \in Nat
  OBVIOUS
<1>2. IsFiniteSet(DOMAIN b)
  BY <1>1, FS_Interval
<1>3. Real(b) \in SUBSET DOMAIN b /\ \A i : RowsOfTraj(b, i) \in SUBSET Real(b)
  BY DEF Real, RowsOfTraj
<1>4. IsFiniteSet(Real(b))
  BY <1>2, <1>3, FS_Subset
<1>5. \A i : IsFiniteSet(RowsOfTraj(b, i))
  BY <1>3, <1>4, FS_Subset
<1>6. \A k \in DOMAIN b : b[k].reward \in Int
  BY RowsAreRows DEF Row
<1> QED
  BY <1>2, <1>3, <1>4, <1>5, <1>6

LEMMA RewardType ==
  ASSUME NEW b \in Seq(Row), NEW i
  PROVE  /\ \A k \in RowsOfTraj(b, i) : Reward(b, i)[k] = b[k].reward /\ b[k].reward \in Int
         /\ Total(b, i) \in Int
<1>1. \A k \in RowsOfTraj(b, i) : Reward(b, i)[k] = b[k].reward /\ b[k].reward \in Int
  BY RowsAreFinite DEF Reward, Real
<1> QED
  BY <1>1, RowsAreFinite, SumInt, TotalIsSum

\* Rows that keep their scores.
LEMMA TotalSame ==
  ASSUME NEW b \in Seq(Row), NEW c, NEW i,
         RowsOfTraj(c, i) = RowsOfTraj(b, i),
         \A k \in RowsOfTraj(b, i) : c[k].reward = b[k].reward
  PROVE  Total(c, i) = Total(b, i)
<1>1. \A k \in RowsOfTraj(b, i) : /\ Reward(b, i)[k] \in Int
                                  /\ Reward(b, i)[k] = Reward(c, i)[k]
  BY RewardType DEF Reward
<1>2. IsFiniteSet(RowsOfTraj(b, i))
  BY RowsAreFinite
<1> QED
  BY <1>1, <1>2, SumSame, TotalIsSum

LEMMA CollectEarned ==
  ASSUME EarnedInv, LayoutInv',
         NEW score \in Scores, NEW len \in Tokens, NEW isLast \in BOOLEAN,
         CollectStep(score, len, isLast)
  PROVE  EarnedInv'
<1> DEFINE new == [traj |-> traj, step |-> steps[traj], len |-> len,
                   reward |-> score, pad |-> FALSE]
           n == Len(batch) + 1
<1>1. /\ pc = "rollout" /\ batch' = Append(batch, new)
      /\ steps' = [steps EXCEPT ![traj] = @ + 1]
      /\ earned' = [earned EXCEPT ![traj] = @ + score]
      /\ traj' = IF isLast /\ traj < NumTrajs THEN traj + 1 ELSE traj
      /\ pc' = IF isLast /\ traj = NumTrajs THEN "pad" ELSE "rollout"
  BY DEF CollectStep
<1>2. /\ traj \in Trajs /\ steps \in [Trajs -> 0..MaxSteps]
      /\ batch \in Seq(Row) /\ batch' \in Seq(Row)
      /\ earned \in [Trajs -> Int] /\ \A i \in Trajs : earned[i] = Total(batch, i)
      /\ \A i \in Trajs : i < traj => steps[i] > 0
      /\ score \in Int
  BY <1>1, TrainBatchAssumption DEF EarnedInv, LayoutInv, LayoutTypes, EarnedIsTotal, Everyone
<1>3. /\ DOMAIN batch' = DOMAIN batch \union {n} /\ n \notin DOMAIN batch
      /\ batch'[n] = new /\ \A k \in DOMAIN batch : batch'[k] = batch[k]
  <2> HIDE DEF new
  <2> QED
    BY <1>1, <1>2
<1>4. batch'[n].traj = traj /\ batch'[n].reward = score /\ ~batch'[n].pad
  BY <1>3
<1> HIDE DEF new, n
<1>5. \A i \in Trajs : RowsOfTraj(batch, i)' =
        IF i = traj THEN RowsOfTraj(batch, i) \union {n} ELSE RowsOfTraj(batch, i)
  BY <1>3, <1>4 DEF RowsOfTraj, Real
<1>6. \A i \in Trajs : RowsOfTraj(batch, i) \subseteq DOMAIN batch
  BY DEF RowsOfTraj, Real
<1>7. ASSUME NEW i \in Trajs, i # traj PROVE Total(batch', i) = Total(batch, i)
  <2>1. RowsOfTraj(batch', i) = RowsOfTraj(batch, i)
    BY <1>5, <1>7
  <2> QED
    BY <1>2, <1>3, <1>6, <2>1, TotalSame
<1>8. Total(batch', traj) = Total(batch, traj) + score
  <2> DEFINE S == RowsOfTraj(batch, traj)
             g == Reward(batch', traj)
  <2>1. RowsOfTraj(batch', traj) = S \union {n} /\ n \notin S /\ IsFiniteSet(S)
    BY <1>2, <1>3, <1>5, <1>6, RowsAreFinite
  <2>2. \A k \in S \union {n} : g[k] \in Int
    <3>1. \A k \in RowsOfTraj(batch', traj) : g[k] \in Int
      BY <1>2, RewardType
    <3> QED
      BY <2>1, <3>1
  <2>3. g[n] = score
    BY <1>4, <2>1 DEF Reward
  <2>4. Sum(g, S \union {n}) = g[n] + Sum(g, S)
    <3> HIDE DEF S, g
    <3> QED
      BY <2>1, <2>2, SumAdd
  <2>5. Sum(g, S) = Sum(Reward(batch, traj), S)
    <3>1. \A k \in S : g[k] \in Int /\ g[k] = Reward(batch, traj)[k]
      BY <1>3, <1>6, <1>2, <2>1, <2>2 DEF Reward
    <3> HIDE DEF S, g
    <3> QED
      BY <2>1, <3>1, SumSame
  <2>6. Sum(g, S) \in Int
    <3> HIDE DEF S, g
    <3> QED
      BY <2>1, <2>2, SumInt
  <2>7. Total(batch', traj) = Sum(g, S \union {n}) /\ Total(batch, traj) = Sum(g, S)
    BY <2>1, <2>5, TotalIsSum
  <2> HIDE DEF S, g
  <2> QED
    BY <1>2, <2>3, <2>4, <2>6, <2>7
<1>9. EarnedIsTotal'
  <2>1. earned' \in [Trajs -> Int]
    BY <1>1, <1>2
  <2>2. \A i \in Trajs : earned'[i] = IF i = traj THEN earned[i] + score ELSE earned[i]
    BY <1>1, <1>2
  <2> QED
    BY <1>2, <1>7, <1>8, <2>1, <2>2 DEF EarnedIsTotal
<1>10. Everyone'
  <2> SUFFICES ASSUME NEW i \in Trajs, pc' # "rollout" \/ i < traj' PROVE steps'[i] > 0
    BY DEF Everyone
  <2>1. i <= traj
    BY <1>1, <1>2, Sizes DEF Trajs
  <2>2. CASE i = traj
    BY <1>1, <1>2, <2>2
  <2>3. CASE i # traj
    <3>1. i < traj
      BY <1>2, <2>1, <2>3 DEF Trajs
    <3> QED
      BY <1>1, <1>2, <2>3, <3>1
  <2> QED
    BY <2>2, <2>3
<1> QED
  BY <1>9, <1>10 DEF EarnedInv

\* What padding adds is not looked at.
LEMMA PadEarned ==
  ASSUME EarnedInv, LayoutInv', Pad
  PROVE  EarnedInv'
<1> DEFINE n == Len(batch)
<1>1. /\ LayoutInv /\ batch # <<>> /\ \A k \in DOMAIN batch : ~batch[k].pad
      /\ pc = "pad" /\ pc' = "balance" /\ batch' = Padded
      /\ steps' = steps /\ traj' = traj /\ earned' = earned
  BY DEF EarnedInv, LayoutInv, Pad, Collecting
<1>2. batch \in Seq(Row) /\ n \in Nat \ {0} /\ DOMAIN batch = 1..n
  BY <1>1 DEF LayoutInv, LayoutTypes
<1>3. PadSize \in Nat
  BY <1>2, Sizes, PadFills DEF PadSize
<1>4. /\ DOMAIN batch' = 1..n + PadSize
      /\ \A k \in 1..n : batch'[k] = batch[k]
  BY <1>1, <1>2, <1>3 DEF Padded
<1>5. \A k \in DOMAIN batch' : k \notin 1..n => batch'[k].pad
  <2> SUFFICES ASSUME NEW k \in 1..n + PadSize, k \notin 1..n PROVE batch'[k].pad
    BY <1>4
  <2>1. ~(k <= n)
    BY <1>2, <1>3
  <2>2. ((k - 1) % n) + 1 \in 1..n
    <3> HIDE DEF n
    <3>1. k - 1 \in Int
      BY <1>3, <1>2
    <3> QED
      BY <3>1, <1>2, ModInRange
  <2> DEFINE s == ((k - 1) % n) + 1
  <2>3. batch'[k] = [batch[s] EXCEPT !.pad = TRUE]
    BY <1>1, <2>1 DEF Padded
  <2>4. batch[s] \in Row
    BY <1>2, <2>2
  <2> HIDE DEF s
  <2> QED
    BY <2>3, <2>4 DEF Row
<1>6. \A i \in Trajs : RowsOfTraj(batch', i) = RowsOfTraj(batch, i)
  BY <1>1, <1>2, <1>3, <1>4, <1>5 DEF RowsOfTraj, Real
<1>7. \A i \in Trajs : Total(batch', i) = Total(batch, i)
  <2>1. \A i \in Trajs : \A k \in RowsOfTraj(batch, i) : batch'[k].reward = batch[k].reward
    BY <1>2, <1>4 DEF RowsOfTraj, Real
  <2> QED
    BY <1>2, <1>6, <2>1, TotalSame
<1> QED
  BY <1>1, <1>7 DEF EarnedInv, EarnedIsTotal, Everyone

\* Another order of the rows.
LEMMA BalanceEarned ==
  ASSUME EarnedInv, LayoutInv', Balance
  PROVE  EarnedInv'
<1> DEFINE D == DOMAIN batch
<1>1. /\ batch \in Seq(Row) /\ batch' \in Seq(Row)
      /\ pc = "balance" /\ pc' = "scale" /\ steps' = steps /\ earned' = earned
  BY DEF EarnedInv, LayoutInv, LayoutTypes, Balance
<1>2. PICK order \in Bijection(D, D) : batch' = [k \in D |-> batch[order[k]]]
  BY DEF Balance, Orders
<1>3. /\ \A k \in D : order[k] \in D
      /\ \A k, l \in D : order[k] = order[l] => k = l
      /\ \A l \in D : \E k \in D : order[k] = l
  <2>1. order \in [D -> D] /\ IsInjective(order) /\ DOMAIN order = D
    BY <1>2 DEF Bijection, Injection
  <2>2. order \in Surjection(D, D)
    BY <1>2 DEF Bijection
  <2> HIDE DEF D
  <2> QED
    BY <2>1, <2>2 DEF IsInjective, Surjection
<1> HIDE DEF D
<1>4. DOMAIN batch' = D /\ \A k \in D : batch'[k] = batch[order[k]]
  BY <1>2
<1>5. ASSUME NEW i \in Trajs PROVE Total(batch', i) = Total(batch, i)
  <2> DEFINE S == RowsOfTraj(batch', i)
             R == RowsOfTraj(batch, i)
             b == [k \in S |-> order[k]]
  <2>1. S = {k \in D : ~batch[order[k]].pad /\ batch[order[k]].traj = i}
    BY <1>4 DEF RowsOfTraj, Real
  <2>2. R = {k \in D : ~batch[k].pad /\ batch[k].traj = i}
    BY DEF RowsOfTraj, Real, D
  <2> HIDE DEF S, R
  <2>3. /\ b \in [S -> R] /\ DOMAIN b = S
        /\ \A k, l \in S : b[k] = b[l] => k = l
        /\ \A l \in R : \E k \in S : b[k] = l
    BY <1>3, <2>1, <2>2
  <2>4. b \in Bijection(S, R)
    <3> HIDE DEF b
    <3> QED
      BY <2>3 DEF Bijection, Injection, Surjection, IsInjective
  <2>5. IsFiniteSet(S)
    BY <1>1, RowsAreFinite DEF S
  <2>6. \A k \in S : Reward(batch', i)[k] \in Int /\ Reward(batch, i)[b[k]] = Reward(batch', i)[k]
    <3>1. \A k \in S : Reward(batch', i)[k] = batch'[k].reward /\ batch'[k].reward \in Int
      BY <1>1, RewardType DEF S
    <3>2. \A l \in R : Reward(batch, i)[l] = batch[l].reward
      BY <1>1, RewardType DEF R
    <3> QED
      BY <1>4, <2>1, <2>3, <3>1, <3>2
  <2>7. Sum(Reward(batch, i), R) = Sum(Reward(batch', i), S)
    <3> HIDE DEF b
    <3> QED
      BY <2>4, <2>5, <2>6, SumReindexed
  <2> QED
    BY <2>7, TotalIsSum DEF S, R
<1> QED
  BY <1>1, <1>5 DEF EarnedInv, EarnedIsTotal, Everyone

\* The scores are scaled with the rows.
LEMMA ScaleEarned ==
  ASSUME EarnedInv, LayoutInv', NEW factor \in ScaleFactors, Scale(factor)
  PROVE  EarnedInv'
<1>1. /\ batch \in Seq(Row) /\ batch' \in Seq(Row) /\ factor \in Int
      /\ pc = "scale" /\ pc' = "advantage" /\ steps' = steps
      /\ batch' = [k \in DOMAIN batch |->
                      IF batch[k].pad THEN batch[k]
                      ELSE [batch[k] EXCEPT !.reward = @ * factor]]
      /\ earned' = [i \in Trajs |-> earned[i] * factor]
      /\ earned \in [Trajs -> Int] /\ \A i \in Trajs : earned[i] = Total(batch, i)
  BY TrainBatchAssumption DEF EarnedInv, LayoutInv, LayoutTypes, EarnedIsTotal, Scale
<1>2. DOMAIN batch' = DOMAIN batch
  BY <1>1
<1>3. \A k \in DOMAIN batch :
        /\ batch'[k].pad = batch[k].pad /\ batch'[k].traj = batch[k].traj
        /\ ~batch[k].pad => batch'[k].reward = batch[k].reward * factor
        /\ batch[k].reward \in Int
  <2> SUFFICES ASSUME NEW k \in DOMAIN batch
               PROVE  /\ batch'[k].pad = batch[k].pad /\ batch'[k].traj = batch[k].traj
                      /\ ~batch[k].pad => batch'[k].reward = batch[k].reward * factor
                      /\ batch[k].reward \in Int
    OBVIOUS
  <2>1. batch[k] \in Row
    BY <1>1, RowsAreRows
  <2>2. batch'[k] = IF batch[k].pad THEN batch[k]
                    ELSE [batch[k] EXCEPT !.reward = @ * factor]
    BY <1>1
  <2> QED
    BY <2>1, <2>2 DEF Row
<1>4. ASSUME NEW i \in Trajs PROVE Total(batch', i) = factor * Total(batch, i)
  <2> DEFINE S == RowsOfTraj(batch, i)
             f == Reward(batch, i)
             h == Reward(batch', i)
  <2>1. RowsOfTraj(batch', i) = S
    BY <1>2, <1>3 DEF RowsOfTraj, Real
  <2>2. IsFiniteSet(S)
    BY <1>1, RowsAreFinite
  <2>3. \A k \in S : f[k] \in Int /\ h[k] = factor * f[k]
    <3> SUFFICES ASSUME NEW k \in S PROVE f[k] \in Int /\ h[k] = factor * f[k]
      OBVIOUS
    <3>1. f[k] = batch[k].reward /\ h[k] = batch'[k].reward
      BY <2>1 DEF Reward
    <3>2. k \in DOMAIN batch /\ ~batch[k].pad
      BY DEF RowsOfTraj, Real
    <3>3. batch'[k].reward = batch[k].reward * factor /\ batch[k].reward \in Int
      BY <1>3, <3>2
    <3> QED
      BY <1>1, <3>1, <3>3
  <2>4. Sum(h, S) = factor * Sum(f, S)
    <3> HIDE DEF S, f, h
    <3> QED
      BY <1>1, <2>2, <2>3, SumTimes
  <2> QED
    BY <2>1, <2>4, TotalIsSum
<1>5. EarnedIsTotal'
  <2>1. \A i \in Trajs : earned[i] \in Int /\ earned'[i] = earned[i] * factor
    BY <1>1
  <2>2. earned' \in [Trajs -> Int]
    <3> SUFFICES ASSUME NEW i \in Trajs PROVE earned[i] * factor \in Int
      BY <1>1
    <3> QED
      BY <1>1, <2>1
  <2>3. ASSUME NEW i \in Trajs PROVE earned'[i] = Total(batch', i)
    BY <1>1, <1>4, <2>1
  <2> QED
    BY <2>2, <2>3 DEF EarnedIsTotal
<1> QED
  BY <1>1, <1>5 DEF EarnedInv, Everyone

\* The steps that leave the rows alone, and the one that drops them.
LEMMA EarnedKept ==
  ASSUME EarnedInv, LayoutInv', batch' = batch, steps' = steps, earned' = earned, traj' = traj,
         pc' = pc \/ (pc # "rollout" /\ pc' # "rollout")
  PROVE  EarnedInv'
BY DEF EarnedInv, EarnedIsTotal, Everyone

LEMMA EarnedEmpty ==
  ASSUME NEW b, b = <<>>, NEW i
  PROVE  Total(b, i) = 0
<1>1. RowsOfTraj(b, i) = {}
  BY DEF RowsOfTraj, Real
<1> QED
  BY <1>1, SumEmpty, TotalIsSum

LEMMA EarnedFresh ==
  /\ Init => EarnedIsTotal /\ Everyone
  /\ UpdateActor => EarnedIsTotal' /\ Everyone'
<1>1. ASSUME Init PROVE EarnedIsTotal /\ Everyone
  <2>1. earned = Zeros /\ batch = <<>> /\ traj = 1 /\ pc = "rollout"
    BY <1>1 DEF Init
  <2> QED
    BY <2>1, EarnedEmpty DEF EarnedIsTotal, Everyone, Zeros, Trajs
<1>2. ASSUME UpdateActor PROVE EarnedIsTotal' /\ Everyone'
  <2>1. earned' = Zeros /\ batch' = <<>> /\ traj' = 1 /\ pc' = "rollout"
    BY <1>2 DEF UpdateActor
  <2>2. \A i \in Trajs : Total(batch', i) = 0
    BY <2>1, EarnedEmpty
  <2> QED
    BY <2>1, <2>2 DEF EarnedIsTotal, Everyone, Zeros, Trajs
<1> QED
  BY <1>1, <1>2

LEMMA EarnedNext == EarnedInv /\ [Next]_vars => EarnedInv'
<1> SUFFICES ASSUME EarnedInv, [Next]_vars PROVE EarnedInv'
  OBVIOUS
<1>1. LayoutInv'
  BY LayoutNext DEF EarnedInv
<1>2. ASSUME NEW score \in Scores, NEW len \in Tokens, NEW isLast \in BOOLEAN,
             CollectStep(score, len, isLast)
      PROVE  EarnedInv'
  BY <1>1, <1>2, CollectEarned
<1>3. CASE Pad
  BY <1>1, <1>3, PadEarned
<1>4. CASE Balance
  BY <1>1, <1>4, BalanceEarned
<1>5. ASSUME NEW factor \in ScaleFactors, Scale(factor)
      PROVE  EarnedInv'
  BY <1>1, <1>5, ScaleEarned
<1>6. ASSUME NEW e \in Estimators, ComputeAdvantage(e)
      PROVE  EarnedInv'
  BY <1>1, <1>6, EarnedKept DEF ComputeAdvantage, layout
<1>7. CASE GaeStep
  BY <1>1, <1>7, EarnedKept DEF GaeStep, layout
<1>8. CASE GaeEnd
  BY <1>1, <1>8, EarnedKept DEF GaeEnd, layout
<1>9. CASE TokenStep
  BY <1>1, <1>9, EarnedKept DEF TokenStep, layout
<1>10. CASE TokenRound
  BY <1>1, <1>10, EarnedKept DEF TokenRound, layout
<1>11. CASE TokenGaeEnd
  BY <1>1, <1>11, EarnedKept DEF TokenGaeEnd, layout
<1>12. CASE Outcome
  BY <1>1, <1>12, EarnedKept DEF Outcome, layout
<1>13. CASE MaskForCritic
  BY <1>1, <1>13, EarnedKept DEF MaskForCritic, layout
<1>14. CASE UpdateCritic
  BY <1>1, <1>14, EarnedKept DEF UpdateCritic, layout
<1>15. CASE UpdateActor
  BY <1>1, <1>15, EarnedFresh DEF EarnedInv
<1>16. CASE UNCHANGED vars
  BY <1>1, <1>16, EarnedKept DEF vars, layout
<1> QED
  BY <1>2, <1>3, <1>4, <1>5, <1>6, <1>7, <1>8, <1>9, <1>10, <1>11, <1>12, <1>13, <1>14,
     <1>15, <1>16 DEF Next

LEMMA EarnedAlways == Spec => []EarnedInv
<1>1. Init => EarnedInv
  BY LayoutInit, EarnedFresh DEF EarnedInv
<1> QED
  BY <1>1, EarnedNext, PTL DEF Spec

-----------------------------------------------------------------------------
(***************************************************************************)
(* The outcome estimators compare a trajectory with its group.             *)
(***************************************************************************)
\* Only the estimators with a value function go by way of the critic.
ByWayOfTheCritic ==
  /\ est \in Estimators \union {"none"}
  /\ pc \in {"gae", "token_gae"} => est = pc
  /\ pc \in {"critic", "update_critic"} => est \in {"gae", "token_gae"}
  /\ pc = "outcome" => est \in Estimators \ {"gae", "token_gae"}

\* One positive factor for the group of trajectory i, for all of its rows.
LEMMA GroupIsRivals ==
  ASSUME EarnedInv, pc # "rollout", NEW i \in Trajs
  PROVE  /\ IsFiniteSet(Rivals(i)) /\ i \in Rivals(i) /\ Size(i) \in Nat \ {0}
         /\ Group(batch, PromptOf[i]) = Rivals(i)
         /\ GroupTotal(batch, PromptOf[i]) = Sum(earned, Rivals(i))
         /\ Sum(earned, Rivals(i)) \in Int /\ earned[i] \in Int /\ Excess(i) \in Int
         /\ Total(batch, i) = earned[i]
         /\ OverGroupMean(batch, i) = [num |-> Excess(i), den |-> Size(i)]
<1>1. /\ earned \in [Trajs -> Int] /\ \A h \in Trajs : earned[h] = Total(batch, h)
      /\ \A h \in Trajs : steps[h] > 0
      /\ \A h \in Trajs, u \in Steps : u < steps[h] => RowsOf(batch, h, u) # {}
  BY DEF EarnedInv, EarnedIsTotal, Everyone, LayoutInv, LaidOut
<1>2. Rivals(i) \in SUBSET Trajs /\ IsFiniteSet(Trajs) /\ i \in Rivals(i)
  BY Sizes, FS_Interval DEF Rivals, Trajs
<1>3. IsFiniteSet(Rivals(i)) /\ Size(i) \in Nat
  BY <1>2, FS_Subset, FS_CardinalityType DEF Size
<1>4. Size(i) # 0
  BY <1>2, <1>3, FS_EmptySet DEF Size
<1>5. Group(batch, PromptOf[i]) = Rivals(i)
  <2> SUFFICES ASSUME NEW h \in Trajs PROVE RowsOfTraj(batch, h) # {}
    BY DEF Group, Rivals
  <2>1. 0 \in Steps /\ 0 < steps[h]
    BY <1>1, Sizes DEF Steps
  <2>2. RowsOf(batch, h, 0) # {}
    BY <1>1, <2>1
  <2> QED
    BY <2>2 DEF RowsOf, RowsOfTraj
<1>6. GroupTotal(batch, PromptOf[i]) = Sum(earned, Rivals(i))
  <2> DEFINE f == [h \in Trajs |-> Total(batch, h)]
  <2>1. \A h \in Rivals(i) : f[h] \in Int /\ f[h] = earned[h]
    BY <1>1, <1>2
  <2>2. GroupTotal(batch, PromptOf[i]) = Sum(f, Rivals(i))
    BY <1>5 DEF GroupTotal
  <2> HIDE DEF f
  <2> QED
    BY <1>3, <2>1, <2>2, SumSame
<1>7. Sum(earned, Rivals(i)) \in Int /\ earned[i] \in Int
  BY <1>1, <1>2, <1>3, SumInt
<1>8. Excess(i) \in Int
  BY <1>3, <1>7 DEF Excess
<1>9. OverGroupMean(batch, i) = [num |-> Excess(i), den |-> Size(i)]
  <2>1. Cardinality(Group(batch, PromptOf[i])) = Size(i)
    BY <1>5 DEF Size
  <2>2. Size(i) > 1 \/ Size(i) = 1
    BY <1>3, <1>4
  <2> QED
    BY <1>1, <1>6, <2>1, <2>2 DEF OverGroupMean, Excess
<1> QED
  BY <1>1, <1>2, <1>3, <1>4, <1>5, <1>6, <1>7, <1>8, <1>9

\* A scalar on the action tokens of a row.
LEMMA ActionTokens ==
  ASSUME LayoutInv, NEW k \in Real(batch)
  PROVE  /\ batch[k].len \in Tokens /\ 1 \in 1..batch[k].len /\ 1 \in Tokens
         /\ \A m \in 1..batch[k].len : m \in Tokens /\ Mask(batch[k])[m] = 1
<1>1. batch[k].len \in Tokens
  BY RowTypes DEF Real
<1> QED
  BY <1>1, Sizes DEF Tokens, Mask

LEMMA BroadcastCell ==
  ASSUME LayoutInv, NEW k \in Real(batch), NEW num \in Int, NEW den \in Int
  PROVE  /\ Broadcast(batch[k], num, den).den = den
         /\ \A m \in 1..batch[k].len : Broadcast(batch[k], num, den).num[m] = num
<1>1. Broadcast(batch[k], num, den) = [num |-> [m \in Tokens |-> num * Mask(batch[k])[m]],
                                       den |-> den]
  BY DEF Broadcast, Cell
<1>2. num * 1 = num
  OBVIOUS
<1> QED
  BY <1>1, <1>2, ActionTokens

LEMMA OutcomeRelative ==
  ASSUME EarnedInv, Outcome
  PROVE  RelativeToItsGroup'
<1>1. /\ pc = "outcome" /\ batch' = batch /\ est' = est /\ earned' = earned
      /\ est = "grpo" => adv' = GrpoAdvantage(batch)
      /\ est = "rloo" => adv' = RlooAdvantage(batch)
  BY DEF Outcome, layout
<1>2. LayoutInv
  BY DEF EarnedInv
<1> SUFFICES ASSUME est \in {"grpo", "rloo"}, NEW k \in Real(batch), NEW m \in 1..batch[k].len
             PROVE  LET i == batch[k].traj
                        others == Rivals(i) \ {i}
                    IN IF est = "grpo" \/ others = {}
                       THEN Size(i) * adv'[k].num[m] = adv'[k].den * Excess(i)
                       ELSE Cardinality(others) * (adv'[k].num[m] - adv'[k].den * earned[i])
                              = - adv'[k].den * Sum(earned, others)
  BY <1>1 DEF RelativeToItsGroup, Real, Excess
<1>3. k \in DOMAIN batch /\ ~batch[k].pad /\ batch[k].traj \in Trajs
  BY <1>2, RowTypes DEF Real
<1>4. PICK i \in Trajs : i = batch[k].traj
  BY <1>3
<1>5. PICK others : others = Rivals(i) \ {i}
  OBVIOUS
<1>6. /\ IsFiniteSet(Rivals(i)) /\ i \in Rivals(i) /\ Size(i) \in Nat \ {0}
      /\ Group(batch, PromptOf[i]) = Rivals(i)
      /\ GroupTotal(batch, PromptOf[i]) = Sum(earned, Rivals(i))
      /\ Sum(earned, Rivals(i)) \in Int /\ earned[i] \in Int /\ Excess(i) \in Int
      /\ Total(batch, i) = earned[i]
      /\ OverGroupMean(batch, i) = [num |-> Excess(i), den |-> Size(i)]
  BY <1>1, GroupIsRivals
<1>7. PICK n \in Nat \ {0} : n = Size(i)
  BY <1>6
<1>8. Cardinality(Group(batch, PromptOf[i])) = n
  BY <1>6, <1>7 DEF Size
<1>9. Cardinality(others) = n - 1 /\ IsFiniteSet(others)
  BY <1>5, <1>6, <1>7, FS_RemoveElement DEF Size
<1>10. others = {} <=> n = 1
  BY <1>7, <1>9, FS_EmptySet
<1>11. PICK e \in Int, o \in Int : /\ e = earned[i] /\ o = Sum(earned, others)
                                   /\ Sum(earned, Rivals(i)) = e + o
  <2>1. \A h \in Rivals(i) : earned[h] \in Int
    BY DEF EarnedInv, EarnedIsTotal, Rivals
  <2>2. Sum(earned, Rivals(i)) = earned[i] + Sum(earned, others)
    BY <1>5, <1>6, <2>1, SumRemove
  <2>3. Sum(earned, others) \in Int
    BY <1>5, <1>9, <2>1, SumInt
  <2> QED
    BY <1>6, <2>2, <2>3
<1>12. CASE est = "grpo"
  <2>1. adv'[k] = Broadcast(batch[k], Excess(i), n)
    BY <1>1, <1>3, <1>4, <1>6, <1>7, <1>12 DEF GrpoAdvantage
  <2>2. adv'[k].num[m] = Excess(i) /\ adv'[k].den = n
    <3>1. PICK x \in Int : x = Excess(i)
      BY <1>6
    <3>2. /\ Broadcast(batch[k], x, n).den = n
          /\ \A l \in 1..batch[k].len : Broadcast(batch[k], x, n).num[l] = x
      BY <1>2, BroadcastCell
    <3> QED
      BY <2>1, <3>1, <3>2
  <2> QED
    BY <2>2, <1>4, <1>7, <1>12
<1>13. CASE est = "rloo" /\ n = 1
  <2>1. adv'[k] = Broadcast(batch[k], e, 1)
    BY <1>1, <1>3, <1>4, <1>6, <1>8, <1>11, <1>13 DEF RlooAdvantage
  <2>2. adv'[k].num[m] = e /\ adv'[k].den = 1
    <3>1. /\ Broadcast(batch[k], e, 1).den = 1
          /\ \A l \in 1..batch[k].len : Broadcast(batch[k], e, 1).num[l] = e
      BY <1>2, BroadcastCell
    <3> QED
      BY <2>1, <3>1
  <2>3. Excess(i) = e
    BY <1>7, <1>11, <1>13 DEF Excess
  <2> QED
    BY <2>2, <2>3, <1>4, <1>5, <1>7, <1>10, <1>13
<1>14. CASE est = "rloo" /\ n # 1
  <2>1. PICK s \in Int : s = n * e - (e + o)
    OBVIOUS
  <2>2. adv'[k] = Broadcast(batch[k], s, n - 1)
    BY <1>1, <1>3, <1>4, <1>6, <1>8, <1>11, <1>14, <2>1 DEF RlooAdvantage
  <2>3. adv'[k].num[m] = s /\ adv'[k].den = n - 1
    <3>1. PICK d \in Int : d = n - 1
      OBVIOUS
    <3>2. /\ Broadcast(batch[k], s, d).den = d
          /\ \A l \in 1..batch[k].len : Broadcast(batch[k], s, d).num[l] = s
      BY <1>2, BroadcastCell
    <3> QED
      BY <2>2, <3>1, <3>2
  <2>4. s - (n - 1) * e = - o
    BY <2>1
  <2>5. (n - 1) * (s - (n - 1) * e) = - (n - 1) * o
    <3>1. PICK q \in Int : q = n - 1
      OBVIOUS
    <3>2. q * (- o) = - q * o
      OBVIOUS
    <3> QED
      BY <2>4, <3>1, <3>2
  <2> QED
    BY <2>3, <2>5, <1>4, <1>5, <1>9, <1>10, <1>11, <1>14
<1> QED
  BY <1>7, <1>12, <1>13, <1>14

-----------------------------------------------------------------------------
(***************************************************************************)
(* The recursions inside the outcome estimators.                           *)
(***************************************************************************)
\* What the loop over the tokens of a row computes.
TokenRun(row, g) ==
  g = [i \in 1..RespLen + 1 |->
         IF i = RespLen + 1 THEN 0
         ELSE Mask(row)[i] * (TokenReward(row, i) + Gamma * g[i + 1])]

LEMMA RowReturnsRun ==
  ASSUME NEW row
  PROVE  RowReturns(row) =
           [n \in Tokens |-> TokenReward(row, n) + Gamma * (CHOOSE g : TokenRun(row, g))[n + 1]]
BY DEF RowReturns, TokenRun

LEMMA RowReturnsType ==
  ASSUME NEW row \in Row
  PROVE  RowReturns(row) \in [Tokens -> Int]
<1> DEFINE n == RespLen + 1
           I == Span(1, n)
           F == [i \in I |-> [x \in Int |->
                   IF i = n THEN 0 ELSE Mask(row)[i] * (TokenReward(row, i) + Gamma * x)]]
<1>1. n \in Int /\ 1 <= n /\ I = 1..n
  BY Sizes DEF Span
<1>2. \A i \in 1..n : i # n => Mask(row)[i] \in Int /\ TokenReward(row, i) \in Int
  BY <1>1, Sizes DEF Mask, TokenReward, Tokens, Row
<1>3. \A i \in 1..n, x \in Int :
        i # n => Mask(row)[i] * (TokenReward(row, i) + Gamma * x) \in Int
  <2> SUFFICES ASSUME NEW i \in 1..n, NEW x \in Int, i # n
               PROVE  Mask(row)[i] * (TokenReward(row, i) + Gamma * x) \in Int
    OBVIOUS
  <2>1. TokenReward(row, i) + Gamma * x \in Int
    BY <1>2, Sizes
  <2> QED
    BY <1>2, <2>1
<1>4. Rounds(F, 1, n)
  <2> DEFINE y(i, x) == Mask(row)[i] * (TokenReward(row, i) + Gamma * x)
  <2>1. \A i \in I, x \in Int : i # n => y(i, x) \in Int
    BY <1>1, <1>3
  <2>2. F = [i \in I |-> [x \in Int |-> IF i = n THEN 0 ELSE y(i, x)]]
    OBVIOUS
  <2> HIDE DEF F, y, n, I
  <2>3. F \in [I -> [Int -> Int]]
    BY <2>1, <2>2
  <2> QED
    BY <2>3 DEF Rounds, I
<1>5. PICK f : Backward(f, F, 0, 1, n)
  <2>1. 1 \in Int /\ 0 \in Int
    OBVIOUS
  <2> HIDE DEF n, F, I
  <2> QED
    BY <1>1, <1>4, <2>1, BackwardExists
<1>6. TokenRun(row, f)
  <2>1. f \in [I -> Int] /\ \A i \in I : f[i] = IF i = n THEN 0 ELSE F[i][f[i + 1]]
    BY <1>5 DEF Backward
  <2>2. \A i \in I : i # n => f[i + 1] \in Int
    BY <1>1, <2>1
  <2>3. \A i \in I : f[i] = IF i = n THEN 0
                            ELSE Mask(row)[i] * (TokenReward(row, i) + Gamma * f[i + 1])
    BY <2>1, <2>2
  <2> HIDE DEF F, I
  <2> QED
    BY <1>1, <2>1, <2>3 DEF TokenRun
<1> DEFINE r == CHOOSE g : TokenRun(row, g)
<1>7. TokenRun(row, r)
  BY <1>6
<1> HIDE DEF r
<1>8. \A i \in 1..n : r[i] = IF i = n THEN 0
                             ELSE Mask(row)[i] * (TokenReward(row, i) + Gamma * r[i + 1])
  BY <1>7 DEF TokenRun
<1>9. r[n] = 0 /\ \A i \in I : i # n /\ r[i + 1] \in Int => r[i] \in Int
  <2> HIDE DEF n, I
  <2>1. \A i \in 1..n : i # n /\ r[i + 1] \in Int => r[i] \in Int
    BY <1>3, <1>8
  <2> QED
    BY <1>1, <1>8, <2>1
<1>10. \A i \in I : r[i] \in Int
  <2>1. 1 \in Int /\ r[n] \in Int
    BY <1>9
  <2> HIDE DEF n
  <2> QED
    BY <1>1, <1>9, <2>1, BackwardType
<1>11. \A m \in Tokens : TokenReward(row, m) + Gamma * r[m + 1] \in Int
  <2> SUFFICES ASSUME NEW m \in Tokens PROVE TokenReward(row, m) + Gamma * r[m + 1] \in Int
    OBVIOUS
  <2>1. m + 1 \in 1..n /\ m \in 1..n /\ m # n
    BY <1>1, Sizes DEF Tokens
  <2> QED
    BY <1>1, <1>2, <1>10, <2>1, Sizes
<1> QED
  BY <1>11, RowReturnsRun DEF r

\* What compute_step_discounted_returns computes for one trajectory.
StepRun(b, i, g) ==
  g = [u \in 0..MaxSteps |->
         IF u = MaxSteps THEN 0 ELSE RewardsMap(b, i, u) + Gamma * g[u + 1]]

LEMMA StepReturnRun ==
  ASSUME NEW b, NEW i
  PROVE  StepReturn(b, i) = CHOOSE g : StepRun(b, i, g)
BY DEF StepReturn, StepRun

LEMMA StepReturnIs ==
  ASSUME LayoutInv, NEW i \in Trajs
  PROVE  /\ StepReturn(batch, i)[MaxSteps] = 0
         /\ \A u \in Steps : StepReturn(batch, i)[u] =
              RewardsMap(batch, i, u) + Gamma * StepReturn(batch, i)[u + 1]
         /\ \A u \in 0..MaxSteps : StepReturn(batch, i)[u] \in Int
<1> DEFINE I == Span(0, MaxSteps)
           F == [u \in I |-> [x \in Int |-> RewardsMap(batch, i, u) + Gamma * x]]
<1>1. /\ 0 <= MaxSteps /\ MaxSteps \in Int /\ I = 0..MaxSteps
      /\ Steps = {u \in 0..MaxSteps : u # MaxSteps}
  BY Sizes DEF Steps, Span
<1>2. \A u \in 0..MaxSteps : RewardsMap(batch, i, u) \in Int
  BY <1>1, TableTypes
<1>3. \A u \in 0..MaxSteps, x \in Int : RewardsMap(batch, i, u) + Gamma * x \in Int
  <2> SUFFICES ASSUME NEW u \in 0..MaxSteps, NEW x \in Int
               PROVE  RewardsMap(batch, i, u) + Gamma * x \in Int
    OBVIOUS
  <2>1. Gamma * x \in Int
    BY Sizes
  <2> QED
    BY <1>2, <2>1
<1>4. Rounds(F, 0, MaxSteps)
  BY <1>1, <1>3 DEF Rounds
<1>5. PICK f : Backward(f, F, 0, 0, MaxSteps)
  <2>1. 0 \in Int
    OBVIOUS
  <2> HIDE DEF F, I
  <2> QED
    BY <1>1, <1>4, <2>1, BackwardExists
<1>6. StepRun(batch, i, f)
  <2>1. f \in [I -> Int] /\ \A u \in I : f[u] = IF u = MaxSteps THEN 0 ELSE F[u][f[u + 1]]
    BY <1>5 DEF Backward
  <2>2. \A u \in I : u # MaxSteps => f[u + 1] \in Int
    BY <1>1, <2>1
  <2>3. \A u \in I : f[u] = IF u = MaxSteps THEN 0
                            ELSE RewardsMap(batch, i, u) + Gamma * f[u + 1]
    BY <2>1, <2>2
  <2> HIDE DEF F, I
  <2> QED
    BY <1>1, <2>1, <2>3 DEF StepRun
<1> DEFINE r == StepReturn(batch, i)
<1>7. StepRun(batch, i, r)
  BY <1>6, StepReturnRun
<1> HIDE DEF r
<1>8. \A u \in 0..MaxSteps : r[u] = IF u = MaxSteps THEN 0
                                    ELSE RewardsMap(batch, i, u) + Gamma * r[u + 1]
  BY <1>7 DEF StepRun
<1>9. r[MaxSteps] = 0 /\ \A u \in Steps : r[u] = RewardsMap(batch, i, u) + Gamma * r[u + 1]
  BY <1>1, <1>8
<1>10. \A u \in 0..MaxSteps : r[u] \in Int
  <2>1. \A u \in 0..MaxSteps : u # MaxSteps /\ r[u + 1] \in Int => r[u] \in Int
    BY <1>3, <1>8
  <2>2. \A u \in I : u # MaxSteps /\ r[u + 1] \in Int => r[u] \in Int
    BY <1>1, <2>1
  <2>3. 0 \in Int /\ r[MaxSteps] \in Int
    BY <1>9
  <2>4. \A u \in I : r[u] \in Int
    BY <1>1, <2>2, <2>3, BackwardType
  <2> QED
    BY <1>1, <2>4
<1> QED
  BY <1>9, <1>10 DEF r

\* A common denominator of the group means is one.
DenRun(b, g) ==
  g = [i \in 1..NumTrajs + 1 |->
         IF i = NumTrajs + 1 THEN 1 ELSE OverGroupMean(b, i).den * g[i + 1]]

LEMMA CommonDenRun ==
  ASSUME NEW b
  PROVE  CommonDen(b) = (CHOOSE g : DenRun(b, g))[1]
BY DEF CommonDen, DenRun

LEMMA CommonDenDivides ==
  ASSUME EarnedInv, pc # "rollout"
  PROVE  /\ CommonDen(batch) \in Nat \ {0}
         /\ \A i \in Trajs : /\ CommonDen(batch) \div Size(i) \in Nat
                             /\ CommonDen(batch) = Size(i) * (CommonDen(batch) \div Size(i))
<1> DEFINE n == NumTrajs + 1
           I == Span(1, n)
           F == [i \in I |-> [x \in Int |-> IF i = n THEN 0 ELSE Size(i) * x]]
<1>1. n \in Int /\ 1 <= n /\ 1 \in I /\ I = 1..n /\ Trajs = {i \in I : i # n}
  BY Sizes DEF Trajs, Span
<1>2. \A i \in Trajs : OverGroupMean(batch, i).den = Size(i) /\ Size(i) \in Nat \ {0}
  BY GroupIsRivals
<1>3. Rounds(F, 1, n)
  BY <1>1, <1>2 DEF Rounds
<1>4. PICK f : Backward(f, F, 1, 1, n)
  <2>1. 1 \in Int
    OBVIOUS
  <2> HIDE DEF n, F, I
  <2> QED
    BY <1>1, <1>3, <2>1, BackwardExists
<1>5. DenRun(batch, f)
  <2>1. f \in [I -> Int] /\ \A i \in I : f[i] = IF i = n THEN 1 ELSE F[i][f[i + 1]]
    BY <1>4 DEF Backward
  <2>2. \A i \in I : i # n => f[i + 1] \in Int
    BY <1>1, <2>1
  <2>3. \A i \in I : i # n => F[i][f[i + 1]] = Size(i) * f[i + 1]
    BY <2>2
  <2> HIDE DEF F, I
  <2>4. \A i \in I : f[i] = IF i = n THEN 1 ELSE OverGroupMean(batch, i).den * f[i + 1]
    BY <1>1, <1>2, <2>1, <2>3
  <2> QED
    BY <1>1, <2>1, <2>4 DEF DenRun
<1> DEFINE r == CHOOSE g : DenRun(batch, g)
<1>6. DenRun(batch, r)
  BY <1>5
<1> HIDE DEF r
<1>7. r[n] = 1 /\ \A i \in Trajs : r[i] = Size(i) * r[i + 1]
  <2>1. \A i \in 1..n : r[i] = IF i = n THEN 1 ELSE OverGroupMean(batch, i).den * r[i + 1]
    BY <1>6 DEF DenRun
  <2> QED
    BY <1>1, <1>2, <2>1
<1> DEFINE A == {i \in 1..n : /\ r[i] \in Nat \ {0}
                              /\ \A h \in Trajs : h >= i => \E q \in Nat : r[i] = Size(h) * q}
<1>8. n \in A
  BY <1>1, <1>7
<1>9. ASSUME NEW i \in I, i # n, i + 1 \in A PROVE i \in A
  <2>1. i \in Trajs
    BY <1>1, <1>9
  <2>2. PICK s \in Nat \ {0} : s = Size(i)
    BY <1>2, <2>1
  <2>3. PICK x \in Nat \ {0} : x = r[i + 1]
    BY <1>9
  <2>4. r[i] = s * x
    BY <1>7, <2>1, <2>2, <2>3
  <2>5. r[i] \in Nat \ {0}
    <3>1. s * x >= x
      BY <2>2, <2>3
    <3> QED
      BY <2>2, <2>3, <2>4, <3>1
  <2>6. ASSUME NEW h \in Trajs, h >= i PROVE \E q \in Nat : r[i] = Size(h) * q
    <3>1. CASE h = i
      BY <3>1, <2>2, <2>3, <2>4
    <3>2. CASE h # i
      <4>1. h >= i + 1
        BY <3>2, <2>6, <1>1
      <4>2. PICK q \in Nat : r[i + 1] = Size(h) * q
        BY <4>1, <1>9
      <4>3. PICK y \in Nat : y = Size(h)
        BY <1>2
      <4>4. s * (y * q) = y * (s * q) /\ s * q \in Nat
        BY <2>2, <4>2, <4>3
      <4> QED
        BY <2>3, <2>4, <4>2, <4>3, <4>4
    <3> QED
      BY <3>1, <3>2
  <2>7. i \in 1..n
    BY <1>1
  <2> QED
    BY <2>5, <2>6, <2>7
<1>10. 1 \in A
  <2>1. 1 \in Int /\ \A i \in I : i # n /\ i + 1 \in A => i \in A
    BY <1>9
  <2> HIDE DEF A, n
  <2>2. I \subseteq A
    BY <1>1, <1>8, <2>1, DownwardInduction
  <2> QED
    BY <1>1, <2>2
<1>11. CommonDen(batch) = r[1]
  BY CommonDenRun DEF r
<1>12. ASSUME NEW i \in Trajs
       PROVE  CommonDen(batch) \div Size(i) \in Nat
              /\ CommonDen(batch) = Size(i) * (CommonDen(batch) \div Size(i))
  <2>1. PICK q \in Nat : r[1] = Size(i) * q
    BY <1>1, <1>10
  <2>2. PICK s \in Nat \ {0} : s = Size(i)
    BY <1>2
  <2>3. (s * q) \div s = q
    BY <2>2
  <2> QED
    BY <1>11, <2>1, <2>2, <2>3
<1> QED
  BY <1>10, <1>11, <1>12

-----------------------------------------------------------------------------
(***************************************************************************)
(* What whitening does to numbers over one denominator.                    *)
(***************************************************************************)
CellType == [num : [Tokens -> Int], den : Nat \ {0}]

LEMMA CellIsTyped ==
  ASSUME NEW num \in [Tokens -> Int], NEW den \in Nat \ {0}
  PROVE  Cell(num, den) \in CellType
BY DEF Cell, CellType

LEMMA NoCellIsTyped == NoCell \in CellType
<1>1. [n \in Tokens |-> 0] \in [Tokens -> Int] /\ 1 \in Nat \ {0}
  OBVIOUS
<1> QED
  BY <1>1, CellIsTyped DEF NoCell

LEMMA MaskBits ==
  ASSUME NEW row, NEW n \in Tokens
  PROVE  Mask(row)[n] \in {0, 1} /\ \A x \in Int : x * Mask(row)[n] \in Int
<1>1. Mask(row)[n] \in {0, 1}
  BY DEF Mask
<1> QED
  BY <1>1

LEMMA BroadcastType ==
  ASSUME NEW row, NEW num \in Int, NEW den \in Nat \ {0}
  PROVE  Broadcast(row, num, den) \in CellType
<1>1. [n \in Tokens |-> num * Mask(row)[n]] \in [Tokens -> Int]
  BY MaskBits
<1> QED
  BY <1>1, CellIsTyped DEF Broadcast

LEMMA MaskedKeeps ==
  ASSUME NEW b, NEW w \in [DOMAIN b -> CellType]
  PROVE  /\ Masked(b, w) \in [DOMAIN b -> CellType]
         /\ \A k \in DOMAIN b : Masked(b, w)[k].den = w[k].den
         /\ \A k \in DOMAIN b, n \in Tokens :
              Mask(b[k])[n] = 1 => Masked(b, w)[k].num[n] = w[k].num[n]
<1>1. \A k \in DOMAIN b : w[k].num \in [Tokens -> Int] /\ w[k].den \in Nat \ {0}
  BY DEF CellType
<1>2. \A k \in DOMAIN b : [n \in Tokens |-> w[k].num[n] * Mask(b[k])[n]] \in [Tokens -> Int]
  BY <1>1, MaskBits
<1>3. Masked(b, w) = [k \in DOMAIN b |->
                        Cell([n \in Tokens |-> w[k].num[n] * Mask(b[k])[n]], w[k].den)]
  BY DEF Masked
<1>4. Masked(b, w) \in [DOMAIN b -> CellType]
  BY <1>1, <1>2, <1>3, CellIsTyped
<1>5. \A k \in DOMAIN b : Masked(b, w)[k].den = w[k].den
  BY <1>3 DEF Cell
<1>6. ASSUME NEW k \in DOMAIN b, NEW n \in Tokens, Mask(b[k])[n] = 1
      PROVE  Masked(b, w)[k].num[n] = w[k].num[n]
  <2>1. w[k].num[n] \in Int
    BY <1>1
  <2>2. Masked(b, w)[k].num[n] = w[k].num[n] * 1
    BY <1>3, <1>6 DEF Cell
  <2> QED
    BY <2>1, <2>2
<1> QED
  BY <1>4, <1>5, <1>6

LEMMA ActionCellsAre ==
  ASSUME LayoutInv
  PROVE  /\ IsFiniteSet(ActionCells(batch)) /\ Cardinality(ActionCells(batch)) \in Nat
         /\ \A c \in ActionCells(batch) :
              /\ c[1] \in Real(batch) /\ c[1] \in DOMAIN batch /\ ~batch[c[1]].pad
              /\ c[2] \in Tokens /\ c[2] \in 1..batch[c[1]].len
              /\ Mask(batch[c[1]])[c[2]] = 1
<1>1. IsFiniteSet(Real(batch)) /\ IsFiniteSet(Tokens)
  <2>1. IsFiniteSet(Real(batch))
    BY RowsAreFinite DEF LayoutInv, LayoutTypes
  <2>2. IsFiniteSet(Tokens)
    BY FS_Interval, Sizes DEF Tokens
  <2> QED
    BY <2>1, <2>2
<1>2. IsFiniteSet(Real(batch) \X Tokens)
  BY <1>1, FS_Product
<1>3. ActionCells(batch) \in SUBSET (Real(batch) \X Tokens)
  BY DEF ActionCells
<1>4. IsFiniteSet(ActionCells(batch)) /\ Cardinality(ActionCells(batch)) \in Nat
  BY <1>2, <1>3, FS_Subset, FS_CardinalityType
<1>5. ASSUME NEW c \in ActionCells(batch)
      PROVE  /\ c[1] \in Real(batch) /\ c[1] \in DOMAIN batch /\ ~batch[c[1]].pad
             /\ c[2] \in Tokens /\ c[2] \in 1..batch[c[1]].len
             /\ Mask(batch[c[1]])[c[2]] = 1
  <2>1. c[1] \in Real(batch) /\ c[2] \in Tokens /\ Mask(batch[c[1]])[c[2]] = 1
    BY <1>5 DEF ActionCells
  <2>2. batch[c[1]].len \in Tokens
    BY <2>1, ActionTokens
  <2>3. c[2] <= batch[c[1]].len
    BY <2>1 DEF Mask
  <2> QED
    BY <2>1, <2>2, <2>3, Sizes DEF Real, Tokens
<1> QED
  BY <1>4, <1>5

\* A row of the rollout has an action token.
LEMMA ActionCellOfRow ==
  ASSUME LayoutInv, NEW k \in Real(batch)
  PROVE  ActionCells(batch) # {}
<1>1. 1 \in Tokens /\ 1 \in 1..batch[k].len /\ Mask(batch[k])[1] = 1
  BY ActionTokens
<1>2. <<k, 1>> \in ActionCells(batch)
  BY <1>1 DEF ActionCells
<1> QED
  BY <1>2

\* The numbers x over den, n of them, centred: n times as much over n times den.
Centred(w, x, den, n) ==
  /\ w \in [DOMAIN batch -> CellType]
  /\ \A k \in Real(batch) : w[k].den = n * den
  /\ Sum([c \in ActionCells(batch) |-> w[c[1]].num[c[2]]], ActionCells(batch)) = 0
  /\ \A c, d \in ActionCells(batch) :
       w[c[1]].num[c[2]] - w[d[1]].num[d[2]] = n * (x[c[1]][c[2]] - x[d[1]][d[2]])

\* masked_whiten: the numbers of the action tokens, centred.
LEMMA WhitenedTokens ==
  ASSUME LayoutInv, NEW x \in [DOMAIN batch -> [Tokens -> Int]],
         NEW den \in Nat \ {0}
  PROVE  Centred(TokenWhitened(batch, x, den), x, den, Cardinality(ActionCells(batch)))
<1>14. PICK w, n : w = TokenWhitened(batch, x, den) /\ n = Cardinality(ActionCells(batch))
  OBVIOUS
<1> DEFINE C == ActionCells(batch)
           f == [c \in C |-> x[c[1]][c[2]]]
           h == [c \in C |-> w[c[1]].num[c[2]]]
<1>1. /\ IsFiniteSet(C) /\ n \in Nat
      /\ \A c \in C : c[1] \in Real(batch) /\ c[2] \in Tokens
  BY <1>14, ActionCellsAre
<1>2. \A k \in Real(batch) : k \in DOMAIN batch /\ ~batch[k].pad
  BY DEF Real
<1>3. \A c \in C : x[c[1]][c[2]] \in Int
  BY <1>1, <1>2
<1>4. PICK total \in Int : total = Sum(f, C)
  <2>1. \A c \in C : f[c] \in Int
    BY <1>3
  <2> HIDE DEF C, f
  <2> QED
    BY <1>1, <2>1, SumInt
<1>5. w = [k \in DOMAIN batch |->
             IF batch[k].pad THEN NoCell
             ELSE Cell([m \in Tokens |-> n * x[k][m] - total], n * den)]
  BY <1>4, <1>14 DEF TokenWhitened
<1>6. \A k \in DOMAIN batch : [m \in Tokens |-> n * x[k][m] - total] \in [Tokens -> Int]
  <2> SUFFICES ASSUME NEW k \in DOMAIN batch, NEW m \in Tokens
               PROVE  n * x[k][m] - total \in Int
    OBVIOUS
  <2>1. PICK y \in Int : y = x[k][m]
    OBVIOUS
  <2> QED
    BY <1>1, <2>1
<1>7. \A k \in DOMAIN batch : ~batch[k].pad => n * den \in Nat \ {0}
  <2> SUFFICES ASSUME NEW k \in DOMAIN batch, ~batch[k].pad PROVE n * den \in Nat \ {0}
    OBVIOUS
  <2>1. C # {}
    BY ActionCellOfRow DEF Real
  <2>2. n # 0
    BY <1>1, <1>14, <2>1, FS_EmptySet
  <2>3. PICK p \in Nat \ {0} : p = n
    BY <1>1, <2>2
  <2> QED
    BY <2>3
<1>8. w \in [DOMAIN batch -> CellType]
  <2> SUFFICES ASSUME NEW k \in DOMAIN batch PROVE w[k] \in CellType
    BY <1>5
  <2> DEFINE num == [m \in Tokens |-> n * x[k][m] - total]
  <2>1. num \in [Tokens -> Int]
    BY <1>6
  <2>2. w[k] = IF batch[k].pad THEN NoCell ELSE Cell(num, n * den)
    BY <1>5
  <2> HIDE DEF num
  <2> QED
    BY <1>7, <2>1, <2>2, CellIsTyped, NoCellIsTyped
<1>9. \A k \in Real(batch) : w[k].den = n * den
  BY <1>2, <1>5 DEF Cell
<1>10. \A k \in Real(batch), m \in Tokens : w[k].num[m] = n * x[k][m] - total
  BY <1>2, <1>5 DEF Cell
<1>11. \A c \in C : /\ f[c] \in Int /\ f[c] = x[c[1]][c[2]]
                    /\ h[c] = w[c[1]].num[c[2]]
                    /\ h[c] = n * f[c] - total
  BY <1>1, <1>3, <1>10
<1>12. Sum(h, C) = 0
  <2>1. \A c \in C : f[c] \in Int /\ h[c] = Cardinality(C) * f[c] - Sum(f, C)
    BY <1>4, <1>11, <1>14
  <2> HIDE DEF C, f, h
  <2> QED
    BY <1>1, <2>1, SumCentred
<1>13. ASSUME NEW c \in C, NEW d \in C
       PROVE  w[c[1]].num[c[2]] - w[d[1]].num[d[2]] = n * (x[c[1]][c[2]] - x[d[1]][d[2]])
  <2> HIDE DEF f, h
  <2>1. PICK y \in Int, z \in Int : y = f[c] /\ z = f[d]
    BY <1>11
  <2>2. (n * y - total) - (n * z - total) = n * (y - z)
    <3>1. PICK p \in Int, q \in Int : p = n * y /\ q = n * z
      BY <1>1
    <3>2. n * (y - z) = p - q
      BY <1>1, <3>1
    <3> QED
      BY <3>1, <3>2
  <2> QED
    BY <1>11, <2>1, <2>2
<1> QED
  BY <1>8, <1>9, <1>12, <1>13, <1>14 DEF Centred

\* Whitening over the steps, and the advantage of a step on its tokens.
LEMMA WhitenedSteps ==
  ASSUME LayoutInv, NEW raw, \A k \in Real(batch) : raw[k] \in Int,
         NEW w, w = StepWhitened(batch, raw),
         NEW n, n = Cardinality(Real(batch))
  PROVE  /\ w \in [DOMAIN batch -> CellType]
         /\ \A k \in Real(batch) : w[k].den = n
         /\ Sum([k \in Real(batch) |-> w[k].num[1]], Real(batch)) = 0
         /\ \A k, l \in Real(batch) : w[k].num[1] - w[l].num[1] = n * (raw[k] - raw[l])
<1> DEFINE R == Real(batch)
           h == [k \in R |-> w[k].num[1]]
<1>1. IsFiniteSet(R) /\ n \in Int
  BY RowsAreFinite, FS_CardinalityType DEF LayoutInv, LayoutTypes
<1>2. PICK total \in Int : total = Sum(raw, R)
  <2> HIDE DEF R
  <2>1. \A k \in R : raw[k] \in Int
    BY DEF R
  <2> QED
    BY <1>1, <2>1, SumInt
<1>3. w = [k \in DOMAIN batch |->
             IF batch[k].pad THEN NoCell
             ELSE Broadcast(batch[k], n * raw[k] - total, n)]
  BY <1>2 DEF StepWhitened
<1>4. \A k \in R : k \in DOMAIN batch /\ ~batch[k].pad
  BY DEF Real
<1>5. \A k \in DOMAIN batch : ~batch[k].pad => k \in R
  BY DEF Real
<1>11. \A k \in R : n \in Nat \ {0}
  <2>1. R # {} => Cardinality(R) # 0
    BY <1>1, FS_EmptySet
  <2>2. Cardinality(R) \in Nat
    BY <1>1, FS_CardinalityType
  <2> QED
    BY <2>1, <2>2
<1>6. \A k \in R : n * raw[k] - total \in Int
  <2> SUFFICES ASSUME NEW k \in R PROVE n * raw[k] - total \in Int
    OBVIOUS
  <2>1. PICK y \in Int : y = raw[k]
    OBVIOUS
  <2> QED
    BY <1>1, <2>1
<1>7. w \in [DOMAIN batch -> CellType]
  BY <1>3, <1>5, <1>6, <1>11, BroadcastType, NoCellIsTyped
<1>8. \A k \in R : w[k].den = n /\ w[k].num[1] = n * raw[k] - total
  <2> SUFFICES ASSUME NEW k \in R PROVE w[k].den = n /\ w[k].num[1] = n * raw[k] - total
    OBVIOUS
  <2>1. w[k] = Broadcast(batch[k], n * raw[k] - total, n)
    BY <1>3, <1>4
  <2>2. PICK y \in Int : y = n * raw[k] - total
    BY <1>6
  <2> QED
    BY <1>1, <2>1, <2>2, ActionTokens, BroadcastCell
<1>9. Sum(h, R) = 0
  <2>1. \A k \in R : raw[k] \in Int /\ h[k] = Cardinality(R) * raw[k] - Sum(raw, R)
    BY <1>2, <1>8
  <2> HIDE DEF R, h
  <2> QED
    BY <1>1, <2>1, SumCentred
<1>10. ASSUME NEW k \in R, NEW l \in R PROVE w[k].num[1] - w[l].num[1] = n * (raw[k] - raw[l])
  <2>1. PICK y \in Int, z \in Int : y = raw[k] /\ z = raw[l]
    OBVIOUS
  <2>2. PICK p \in Int, q \in Int : p = n * y /\ q = n * z
    BY <1>1
  <2>3. n * (y - z) = p - q
    BY <1>1, <2>2
  <2> QED
    BY <1>8, <2>1, <2>2, <2>3
<1> QED
  BY <1>7, <1>8, <1>9, <1>10

-----------------------------------------------------------------------------
(***************************************************************************)
(* GiGPO: the return of a step is what its trajectory earned from it on.   *)
(***************************************************************************)
PowerRun(g) == g = [n \in 0..MaxSteps |-> IF n = 0 THEN 1 ELSE Gamma * g[n - 1]]

LEMMA GammaToRun == GammaTo = CHOOSE g : PowerRun(g)
BY DEF GammaTo, PowerRun

LEMMA GammaPowers ==
  /\ GammaTo[0] = 1
  /\ \A n \in 0..MaxSteps : GammaTo[n] \in Int
  /\ \A n \in 1..MaxSteps : GammaTo[n] = Gamma * GammaTo[n - 1]
<1> DEFINE I == Span(0, MaxSteps)
           F == [n \in I |-> [x \in Int |-> Gamma * x]]
<1>1. 0 <= MaxSteps /\ MaxSteps \in Int /\ I = 0..MaxSteps /\ Gamma \in Int
  BY Sizes DEF Span
<1>2. Rounds(F, 0, MaxSteps)
  BY <1>1 DEF Rounds
<1>3. PICK f : Backward(f, F, 1, 0, MaxSteps)
  <2>1. 0 \in Int /\ 1 \in Int
    OBVIOUS
  <2> HIDE DEF F, I
  <2> QED
    BY <1>1, <1>2, <2>1, BackwardExists
<1>4. f \in [I -> Int] /\ \A n \in I : f[n] = IF n = MaxSteps THEN 1 ELSE F[n][f[n + 1]]
  BY <1>3 DEF Backward
<1>5. f[MaxSteps] = 1 /\ \A n \in 0..MaxSteps : f[n] \in Int
  <2> HIDE DEF F, I
  <2>1. MaxSteps \in I /\ \A n \in 0..MaxSteps : n \in I
    BY <1>1
  <2> QED
    BY <1>4, <2>1
<1>6. \A n \in 0..MaxSteps : n # MaxSteps => f[n] = Gamma * f[n + 1]
  <2>1. \A n \in I : n # MaxSteps => f[n + 1] \in Int
    BY <1>1, <1>4
  <2> QED
    BY <1>1, <1>4, <2>1
<1> HIDE DEF F, I
<1> DEFINE g == [n \in 0..MaxSteps |-> f[MaxSteps - n]]
<1>7. PowerRun(g)
  <2>1. ASSUME NEW n \in 0..MaxSteps
        PROVE  g[n] = IF n = 0 THEN 1 ELSE Gamma * g[n - 1]
    <3>1. g[n] = f[MaxSteps - n]
      OBVIOUS
    <3>2. CASE n = 0
      BY <1>1, <1>5, <3>1, <3>2
    <3>3. CASE n # 0
      <4>1. n - 1 \in 0..MaxSteps /\ MaxSteps - n \in 0..MaxSteps /\ MaxSteps - n # MaxSteps
        BY <1>1, <3>3
      <4>2. (MaxSteps - n) + 1 = MaxSteps - (n - 1)
        BY <1>1
      <4>3. g[n - 1] = f[MaxSteps - (n - 1)]
        BY <4>1
      <4> HIDE DEF g
      <4> QED
        BY <1>6, <3>1, <3>3, <4>1, <4>2, <4>3
    <3> QED
      BY <3>2, <3>3
  <2> QED
    BY <2>1 DEF PowerRun
<1>8. PowerRun(GammaTo)
  BY <1>7, GammaToRun
<1>9. \A n \in 0..MaxSteps : GammaTo[n] = IF n = 0 THEN 1 ELSE Gamma * GammaTo[n - 1]
  BY <1>8 DEF PowerRun
<1>10. \A n \in 0..MaxSteps : GammaTo[n] \in Int
  <2> DEFINE h == [n \in 0..MaxSteps |-> GammaTo[MaxSteps - n]]
  <2>1. h[MaxSteps] \in Int
    BY <1>1, <1>9
  <2>2. ASSUME NEW n \in I, n # MaxSteps, h[n + 1] \in Int PROVE h[n] \in Int
    <3>1. /\ n \in 0..MaxSteps /\ n + 1 \in 0..MaxSteps
          /\ MaxSteps - n \in 0..MaxSteps /\ MaxSteps - n # 0
          /\ (MaxSteps - n) - 1 = MaxSteps - (n + 1)
      BY <1>1, <2>2
    <3>2. GammaTo[MaxSteps - n] = Gamma * GammaTo[MaxSteps - (n + 1)]
      BY <1>9, <3>1
    <3>3. h[n] = GammaTo[MaxSteps - n] /\ h[n + 1] = GammaTo[MaxSteps - (n + 1)]
      BY <3>1
    <3> HIDE DEF h
    <3> QED
      BY <1>1, <2>2, <3>2, <3>3
  <2>3. \A n \in I : h[n] \in Int
    <3> HIDE DEF h
    <3>1. 0 \in Int
      OBVIOUS
    <3> QED
      BY <1>1, <2>1, <2>2, <3>1, BackwardType DEF I
  <2>4. \A n \in 0..MaxSteps : MaxSteps - n \in 0..MaxSteps /\ MaxSteps - (MaxSteps - n) = n
    BY <1>1
  <2> QED
    BY <1>1, <2>3, <2>4
<1> QED
  BY <1>1, <1>9, <1>10

\* What trajectory i earned from step u on, seen from there.
FutureOf(i, u) == {l \in Real(batch) : batch[l].traj = i /\ batch[l].step >= u}
Worth(i, u) == [l \in FutureOf(i, u) |-> batch[l].reward * GammaTo[batch[l].step - u]]

LEMMA WorthTypes ==
  ASSUME LayoutInv, NEW i \in Trajs, NEW u \in 0..MaxSteps
  PROVE  /\ IsFiniteSet(FutureOf(i, u))
         /\ \A l \in FutureOf(i, u) :
              /\ batch[l].reward \in Int /\ batch[l].step \in Steps
              /\ batch[l].step - u \in 0..MaxSteps
              /\ Worth(i, u)[l] \in Int
<1>1. IsFiniteSet(FutureOf(i, u))
  <2>1. FutureOf(i, u) \in SUBSET Real(batch)
    BY DEF FutureOf
  <2> QED
    BY <2>1, RowsAreFinite, FS_Subset DEF LayoutInv, LayoutTypes
<1>2. ASSUME NEW l \in FutureOf(i, u)
      PROVE  /\ batch[l].reward \in Int /\ batch[l].step \in Steps
             /\ batch[l].step - u \in 0..MaxSteps
             /\ Worth(i, u)[l] \in Int
  <2>1. l \in DOMAIN batch /\ batch[l].step >= u
    BY DEF FutureOf, Real
  <2>2. batch[l].reward \in Int /\ batch[l].step \in Steps
    BY <2>1, RowTypes
  <2>3. batch[l].step - u \in 0..MaxSteps
    BY <2>1, <2>2, Sizes DEF Steps
  <2>4. GammaTo[batch[l].step - u] \in Int
    BY <2>3, GammaPowers
  <2> QED
    BY <2>2, <2>3, <2>4 DEF Worth
<1> QED
  BY <1>1, <1>2

\* One step earlier.
LEMMA WorthOneEarlier ==
  ASSUME LayoutInv, NEW i \in Trajs, NEW u \in Steps
  PROVE  Sum(Worth(i, u), FutureOf(i, u)) =
           RewardsMap(batch, i, u) + Gamma * Sum(Worth(i, u + 1), FutureOf(i, u + 1))
<1> DEFINE S == FutureOf(i, u + 1)
           f == Worth(i, u)
           g == Worth(i, u + 1)
<1>1. u \in 0..MaxSteps /\ u + 1 \in 0..MaxSteps /\ u \in Int
  BY Sizes DEF Steps
<1>2. /\ IsFiniteSet(S) /\ IsFiniteSet(FutureOf(i, u))
      /\ \A l \in S : /\ g[l] \in Int /\ batch[l].reward \in Int
                      /\ batch[l].step - (u + 1) \in 0..MaxSteps
      /\ \A l \in FutureOf(i, u) : f[l] \in Int
  BY <1>1, WorthTypes
<1>3. \A l \in Real(batch) : batch[l].step \in Int
  BY RowTypes, Sizes DEF Real, Steps
<1>4. S \subseteq FutureOf(i, u)
  BY <1>1, <1>3 DEF FutureOf
<1>5. \A l \in S : f[l] = Gamma * g[l]
  <2> SUFFICES ASSUME NEW l \in S PROVE f[l] = Gamma * g[l]
    OBVIOUS
  <2>1. PICK s \in Int : s = batch[l].step
    BY <1>3 DEF FutureOf
  <2>2. s - u \in 1..MaxSteps /\ (s - u) - 1 = s - (u + 1)
    <3>1. s - (u + 1) \in 0..MaxSteps
      BY <1>2, <2>1
    <3>2. s - u <= MaxSteps
      BY <1>1, <1>2, <1>4, <2>1, WorthTypes, Sizes
    <3> QED
      BY <1>1, <3>1, <3>2, Sizes
  <2>3. GammaTo[s - u] = Gamma * GammaTo[s - (u + 1)]
    BY <2>2, GammaPowers
  <2>4. f[l] = batch[l].reward * GammaTo[s - u] /\ g[l] = batch[l].reward * GammaTo[s - (u + 1)]
    BY <1>4, <2>1 DEF Worth
  <2>5. PICK r \in Int, p \in Int : r = batch[l].reward /\ p = GammaTo[s - (u + 1)]
    BY <1>2, <2>1, GammaPowers
  <2>6. r * (Gamma * p) = Gamma * (r * p)
    BY Sizes
  <2> QED
    BY <2>3, <2>4, <2>5, <2>6
<1>6. Sum(f, S) = Gamma * Sum(g, S)
  <2> HIDE DEF S, f, g
  <2>1. Gamma \in Int
    BY Sizes
  <2> QED
    BY <1>2, <1>5, <2>1, SumTimes
<1>7. Sum(f, S) \in Int
  <2>1. \A l \in S : f[l] \in Int
    BY <1>2, <1>4
  <2> HIDE DEF S, f
  <2> QED
    BY <1>2, <2>1, SumInt
<1>8. \A l \in FutureOf(i, u) : l \in S \/ l \in RowsOf(batch, i, u)
  BY <1>1, <1>3 DEF FutureOf, RowsOf
<1>9. \A l \in RowsOf(batch, i, u) : l \in FutureOf(i, u) /\ l \notin S
  BY <1>1, <1>3 DEF FutureOf, RowsOf
<1>10. CASE RowsOf(batch, i, u) = {}
  <2>1. FutureOf(i, u) = S
    BY <1>4, <1>8, <1>10
  <2>2. RewardsMap(batch, i, u) = 0
    BY <1>10 DEF RewardsMap
  <2> HIDE DEF S, f, g
  <2> QED
    BY <1>6, <1>7, <2>1, <2>2 DEF f, g, S
<1>11. CASE RowsOf(batch, i, u) # {}
  <2>1. PICK l : l \in RowsOf(batch, i, u)
    BY <1>11
  <2>2. l \in Real(batch) /\ batch[l].traj = i /\ batch[l].step = u
    BY <2>1 DEF RowsOf
  <2>3. \A k \in RowsOf(batch, i, u) : k = l
    BY <2>2 DEF RowsOf, LayoutInv, LaidOut
  <2>4. FutureOf(i, u) = S \union {l} /\ l \notin S
    BY <1>4, <1>8, <1>9, <2>1, <2>3
  <2>5. RewardsMap(batch, i, u) = batch[l].reward
    BY <2>2, LookUp
  <2>6. f[l] = batch[l].reward
    <3>1. f[l] = batch[l].reward * GammaTo[u - u] /\ batch[l].reward \in Int
      BY <2>2, <2>4, <1>1, WorthTypes DEF Worth
    <3>2. u - u = 0
      BY <1>1
    <3> QED
      BY <3>1, <3>2, GammaPowers
  <2>7. Sum(f, S \union {l}) = f[l] + Sum(f, S)
    <3>1. \A k \in S \union {l} : f[k] \in Int
      BY <1>2, <2>4
    <3> HIDE DEF S, f
    <3> QED
      BY <1>2, <2>4, <3>1, SumAdd
  <2> QED
    BY <1>6, <2>4, <2>5, <2>6, <2>7
<1> QED
  BY <1>10, <1>11

LEMMA DiscountedIsReturn ==
  ASSUME LayoutInv, NEW k \in Real(batch)
  PROVE  /\ Discounted(k) = StepReturn(batch, batch[k].traj)[batch[k].step]
         /\ Discounted(k) \in Int
<1>1. batch[k].traj \in Trajs /\ batch[k].step \in Steps
  BY RowTypes DEF Real
<1>2. PICK i \in Trajs, s \in Steps : i = batch[k].traj /\ s = batch[k].step
  BY <1>1
<1> DEFINE r == StepReturn(batch, i)
           A == {u \in 0..MaxSteps : Sum(Worth(i, u), FutureOf(i, u)) = r[u]}
<1>3. /\ r[MaxSteps] = 0 /\ \A u \in Steps : r[u] = RewardsMap(batch, i, u) + Gamma * r[u + 1]
      /\ \A u \in 0..MaxSteps : r[u] \in Int
  BY StepReturnIs
<1>4. /\ 0 \in Int /\ 0 <= MaxSteps /\ MaxSteps \in Int /\ MaxSteps \in 0..MaxSteps
      /\ Span(0, MaxSteps) = 0..MaxSteps
      /\ Steps = {u \in 0..MaxSteps : u # MaxSteps}
  BY Sizes DEF Steps, Span
<1>5. MaxSteps \in A
  <2>1. \A l \in Real(batch) : batch[l].step \in Steps
    BY RowTypes DEF Real
  <2>2. FutureOf(i, MaxSteps) = {}
    BY <2>1, Sizes DEF FutureOf, Steps
  <2>3. Sum(Worth(i, MaxSteps), FutureOf(i, MaxSteps)) = 0
    BY <2>2, SumEmpty
  <2> QED
    BY <1>3, <1>4, <2>3
<1>6. \A u \in Span(0, MaxSteps) : u # MaxSteps /\ u + 1 \in A => u \in A
  <2> SUFFICES ASSUME NEW u \in Steps, u + 1 \in A PROVE u \in A
    BY <1>4
  <2>1. Sum(Worth(i, u), FutureOf(i, u)) = RewardsMap(batch, i, u) + Gamma * r[u + 1]
    BY WorthOneEarlier
  <2> HIDE DEF r
  <2> QED
    BY <1>3, <1>4, <2>1
<1>7. s \in A
  <2> HIDE DEF A
  <2>1. Span(0, MaxSteps) \subseteq A
    BY <1>4, <1>5, <1>6, DownwardInduction
  <2> QED
    BY <1>4, <2>1
<1>8. Discounted(k) = Sum(Worth(i, s), FutureOf(i, s))
  <2>1. Future(k) = FutureOf(i, s)
    BY <1>2 DEF Future, FutureOf
  <2> QED
    BY <1>2, <2>1 DEF Discounted, Worth
<1>9. Discounted(k) = r[s] /\ r[s] \in Int
  <2> HIDE DEF r
  <2> QED
    BY <1>3, <1>4, <1>7, <1>8
<1> QED
  BY <1>2, <1>9

\* What GiGPO adds to the advantage of an outcome: how the return of a step
\* compares with those of the steps that start from the same observation.
Discounts == [l \in Real(batch) |-> Discounted(l)]
StepPart(k) == Cardinality(Alike(k)) * Discounts[k] - Sum(Discounts, Alike(k))

LEMMA AlikeAre ==
  ASSUME EarnedInv, pc # "rollout", NEW k \in Real(batch)
  PROVE  /\ IsFiniteSet(Alike(k)) /\ Alike(k) \in SUBSET Real(batch) /\ k \in Alike(k)
         /\ Cardinality(Alike(k)) \in Nat \ {0}
         /\ Alike(k) = StepGroup(batch, k)
         /\ \A l \in Real(batch) : Discounts[l] = Discounted(l) /\ Discounts[l] \in Int
         /\ Sum(Discounts, Alike(k)) \in Int /\ StepPart(k) \in Int
<1>1. LayoutInv
  BY DEF EarnedInv
<1>2. \A l \in Real(batch) : batch[l].traj \in Trajs
  BY <1>1, RowTypes DEF Real
<1>3. Alike(k) \in SUBSET Real(batch) /\ k \in Alike(k)
  BY <1>2 DEF Alike, Rivals
<1>4. IsFiniteSet(Real(batch))
  BY <1>1, RowsAreFinite DEF LayoutInv, LayoutTypes
<1>5. IsFiniteSet(Alike(k)) /\ Cardinality(Alike(k)) \in Nat
  BY <1>3, <1>4, FS_Subset, FS_CardinalityType
<1>6. Cardinality(Alike(k)) # 0
  BY <1>3, <1>5, FS_EmptySet
<1>7. Alike(k) = StepGroup(batch, k)
  BY <1>2 DEF Alike, StepGroup, Rivals
<1>8. \A l \in Real(batch) : Discounts[l] = Discounted(l) /\ Discounts[l] \in Int
  BY <1>1, DiscountedIsReturn DEF Discounts
<1>9. Sum(Discounts, Alike(k)) \in Int
  <2>1. \A l \in Alike(k) : Discounts[l] \in Int
    BY <1>3, <1>8
  <2> QED
    BY <1>5, <2>1, SumInt
<1>10. StepPart(k) \in Int
  BY <1>5, <1>8, <1>9 DEF StepPart
<1> QED
  BY <1>3, <1>5, <1>6, <1>7, <1>8, <1>9, <1>10

LEMMA GigpoCell ==
  ASSUME EarnedInv, pc # "rollout", NEW k \in Real(batch),
         NEW n, n = Size(batch[k].traj), NEW m, m = Cardinality(Alike(k))
  PROVE  GigpoAdvantage(batch)[k] =
           Broadcast(batch[k], Excess(batch[k].traj) * m + StepWeight * StepPart(k) * n, n * m)
<1> DEFINE return == [l \in Real(batch) |-> StepReturn(batch, batch[l].traj)[batch[l].step]]
<1>1. LayoutInv
  BY DEF EarnedInv
<1>2. return = Discounts
  BY <1>1, DiscountedIsReturn DEF Discounts
<1>3. k \in DOMAIN batch /\ ~batch[k].pad /\ batch[k].traj \in Trajs
  BY <1>1, RowTypes DEF Real
<1>4. OverGroupMean(batch, batch[k].traj) = [num |-> Excess(batch[k].traj), den |-> n]
  BY <1>3, GroupIsRivals
<1>5. Alike(k) = StepGroup(batch, k)
  BY AlikeAre
<1>6. GigpoAdvantage(batch)[k] =
        LET a == OverGroupMean(batch, batch[k].traj)
            c == Cardinality(StepGroup(batch, k))
            s == c * return[k] - Sum(return, StepGroup(batch, k))
        IN Broadcast(batch[k], a.num * c + StepWeight * s * a.den, a.den * c)
  BY <1>3 DEF GigpoAdvantage
<1>7. StepPart(k) = m * return[k] - Sum(return, StepGroup(batch, k))
  BY <1>2, <1>5 DEF StepPart
<1> HIDE DEF return
<1> QED
  BY <1>4, <1>5, <1>6, <1>7

\* Rows that start from the same observation.
LEMMA AlikeTogether ==
  ASSUME EarnedInv, pc # "rollout", NEW k \in Real(batch), NEW l \in Alike(k)
  PROVE  /\ l \in Real(batch) /\ Alike(l) = Alike(k)
         /\ batch[k].traj \in Trajs /\ batch[l].traj \in Trajs
         /\ Rivals(batch[l].traj) = Rivals(batch[k].traj)
         /\ Size(batch[l].traj) = Size(batch[k].traj)
         /\ Excess(batch[k].traj) - Excess(batch[l].traj) =
              Size(batch[k].traj) * (earned[batch[k].traj] - earned[batch[l].traj])
<1>1. \A h \in Real(batch) : batch[h].traj \in Trajs
  BY RowTypes DEF Real, EarnedInv
<1>2. l \in Real(batch) /\ Rivals(batch[l].traj) = Rivals(batch[k].traj)
  BY <1>1 DEF Alike, Rivals
<1>3. Alike(l) = Alike(k)
  BY <1>1, <1>2 DEF Alike, Rivals
<1>4. PICK i \in Trajs, h \in Trajs : i = batch[k].traj /\ h = batch[l].traj
  BY <1>1, <1>2
<1>5. PICK total : total = Sum(earned, Rivals(i)) /\ total = Sum(earned, Rivals(h))
  BY <1>2, <1>4
<1>6. PICK n \in Nat \ {0} : n = Size(i) /\ n = Size(h)
  <2>1. Size(i) \in Nat \ {0}
    BY GroupIsRivals
  <2> QED
    BY <2>1, <1>2, <1>4 DEF Size
<1>7. /\ earned[i] \in Int /\ earned[h] \in Int /\ total \in Int
  BY <1>5, GroupIsRivals
<1>8. Excess(i) - Excess(h) = n * (earned[i] - earned[h])
  <2>1. CASE n = 1
    BY <2>1, <1>6, <1>7 DEF Excess
  <2>2. CASE n # 1
    <3>1. PICK x \in Int, y \in Int : x = earned[i] /\ y = earned[h]
      BY <1>7
    <3>2. Excess(i) = n * x - total /\ Excess(h) = n * y - total
      BY <2>2, <3>1, <1>5, <1>6 DEF Excess
    <3>3. (n * x - total) - (n * y - total) = n * (x - y)
      BY <1>7
    <3> QED
      BY <3>1, <3>2, <3>3
  <2> QED
    BY <2>1, <2>2
<1> QED
  BY <1>1, <1>2, <1>3, <1>4, <1>6, <1>8

LEMMA OutcomeGigpo ==
  ASSUME EarnedInv, Outcome
  PROVE  StepsComparedAtTheirAnchor'
<1>1. /\ pc = "outcome" /\ batch' = batch /\ est' = est /\ earned' = earned
      /\ est = "gigpo" => adv' = GigpoAdvantage(batch)
  BY DEF Outcome, layout
<1>2. LayoutInv
  BY DEF EarnedInv
<1> SUFFICES ASSUME est = "gigpo", NEW k \in Real(batch)
    PROVE /\ \A l \in Alike(k) :
               adv'[k].num[1] - adv'[l].num[1] =
                 adv'[k].den * (earned[batch[k].traj] - earned[batch[l].traj]
                                  + StepWeight * (Discounted(k) - Discounted(l)))
          /\ Size(batch[k].traj) * Sum([l \in Alike(k) |-> adv'[l].num[1]], Alike(k)) =
               adv'[k].den * Sum([l \in Alike(k) |-> Excess(batch[l].traj)], Alike(k))
  <2>1. /\ Real(batch)' = Real(batch)
        /\ \A h : Excess(h)' = Excess(h) /\ Size(h)' = Size(h)
    BY <1>1 DEF Real, Excess, Size
  <2>2. /\ \A h : Alike(h)' = Alike(h)
        /\ \A h : Discounted(h)' = Discounted(h)
    BY <1>1 DEF Alike, Discounted, Future, Real
  <2> QED
    BY <2>1, <2>2, <1>1 DEF StepsComparedAtTheirAnchor
<1> DEFINE S == Alike(k)
           num == [l \in S |-> adv'[l].num[1]]
           excess == [l \in S |-> Excess(batch[l].traj)]
           part == [l \in S |-> StepPart(l)]
<1>3. PICK m \in Nat \ {0} : m = Cardinality(S)
  BY <1>1, AlikeAre
<1>4. PICK n \in Nat \ {0} : n = Size(batch[k].traj)
  <2>1. batch[k].traj \in Trajs
    BY <1>2, RowTypes DEF Real
  <2> QED
    BY <2>1, <1>1, GroupIsRivals
<1>5. IsFiniteSet(S) /\ k \in S /\ \A l \in S : l \in Real(batch) /\ Discounts[l] \in Int
  BY <1>1, AlikeAre
<1>6. ASSUME NEW l \in S
      PROVE  /\ Alike(l) = S /\ Size(batch[l].traj) = n
             /\ Excess(batch[l].traj) \in Int /\ StepPart(l) \in Int
             /\ earned[batch[l].traj] \in Int
  <2>1. /\ Alike(l) = Alike(k) /\ Size(batch[l].traj) = n /\ batch[l].traj \in Trajs
        /\ l \in Real(batch)
    BY <1>1, <1>4, AlikeTogether
  <2>2. StepPart(l) \in Int
    BY <2>1, <1>1, AlikeAre
  <2>3. Excess(batch[l].traj) \in Int /\ earned[batch[l].traj] \in Int
    BY <2>1, <1>1, GroupIsRivals
  <2> QED
    BY <2>1, <2>2, <2>3
<1>7. ASSUME NEW l \in S
      PROVE  /\ adv'[l].num[1] = Excess(batch[l].traj) * m + StepWeight * StepPart(l) * n
             /\ adv'[l].den = n * m
  <2>1. l \in Real(batch) /\ Size(batch[l].traj) = n /\ Cardinality(Alike(l)) = m
    BY <1>3, <1>5, <1>6
  <2>2. adv'[l] = Broadcast(batch[l], Excess(batch[l].traj) * m + StepWeight * StepPart(l) * n, n * m)
    BY <2>1, <1>1, GigpoCell
  <2>3. PICK x \in Int : x = Excess(batch[l].traj) * m + StepWeight * StepPart(l) * n
    <3>1. StepWeight * StepPart(l) \in Int /\ Excess(batch[l].traj) * m \in Int
      BY <1>6, AdvantageAssumption
    <3> QED
      BY <3>1
  <2>4. n * m \in Int
    OBVIOUS
  <2>5. 1 \in 1..batch[l].len
    BY <2>1, <1>2, ActionTokens
  <2> QED
    BY <2>1, <2>2, <2>3, <2>4, <2>5, <1>2, BroadcastCell
<1>8. ASSUME NEW l \in S
      PROVE  adv'[k].num[1] - adv'[l].num[1] =
               adv'[k].den * (earned[batch[k].traj] - earned[batch[l].traj]
                                + StepWeight * (Discounted(k) - Discounted(l)))
  <2>1. PICK a \in Int, b \in Int, x \in Int, y \in Int :
          /\ a = earned[batch[k].traj] /\ b = earned[batch[l].traj]
          /\ x = Discounts[k] /\ y = Discounts[l]
    BY <1>5, <1>6
  <2>2. PICK p \in Int, q \in Int : p = Excess(batch[k].traj) /\ q = Excess(batch[l].traj)
    BY <1>5, <1>6
  <2>3. p - q = n * (a - b)
    BY <2>1, <2>2, <1>1, <1>4, AlikeTogether
  <2>4. PICK s \in Int, r \in Int : s = StepPart(k) /\ r = StepPart(l)
    BY <1>5, <1>6
  <2>5. s - r = m * (x - y)
    <3>1. PICK total \in Int : total = Sum(Discounts, S)
      BY <1>1, AlikeAre
    <3>2. s = m * x - total /\ r = m * y - total
      BY <2>1, <2>4, <3>1, <1>3, <1>6 DEF StepPart
    <3>3. (m * x - total) - (m * y - total) = m * (x - y)
      OBVIOUS
    <3> QED
      BY <3>2, <3>3
  <2>6. Discounted(k) = x /\ Discounted(l) = y
    BY <2>1, <1>1, <1>5, AlikeAre
  <2>7. PICK w \in Int : w = StepWeight
    BY AdvantageAssumption
  <2>8. (p * m + w * s * n) - (q * m + w * r * n) = (p - q) * m + w * (s - r) * n
    OBVIOUS
  <2>9. (n * (a - b)) * m + w * (m * (x - y)) * n = (n * m) * (a - b + w * (x - y))
    OBVIOUS
  <2> QED
    BY <2>1, <2>2, <2>3, <2>4, <2>5, <2>6, <2>7, <2>8, <2>9, <1>5, <1>7
<1>9. n * Sum(num, S) = (n * m) * Sum(excess, S)
  <2> DEFINE u == [l \in S |-> m * excess[l]]
             v == [l \in S |-> (StepWeight * n) * part[l]]
  <2>1. StepWeight * n \in Int /\ m \in Int
    BY AdvantageAssumption
  <2>2. \A l \in S : /\ part[l] \in Int /\ excess[l] \in Int /\ Discounts[l] \in Int
                     /\ part[l] = Cardinality(S) * Discounts[l] - Sum(Discounts, S)
    BY <1>5, <1>6 DEF StepPart
  <2>3. Sum(part, S) = 0
    <3> HIDE DEF S, part
    <3> QED
      BY <1>5, <2>2, SumCentred
  <2>4. \A l \in S : u[l] = m * excess[l] /\ v[l] = (StepWeight * n) * part[l]
    OBVIOUS
  <2>5. \A l \in S : u[l] \in Int /\ v[l] \in Int
    <3> HIDE DEF S, part, excess, u, v
    <3> QED
      BY <2>1, <2>2, <2>4
  <2>6. \A l \in S : num[l] = u[l] + v[l]
    <3> SUFFICES ASSUME NEW l \in S PROVE num[l] = u[l] + v[l]
      OBVIOUS
    <3>1. num[l] = excess[l] * m + StepWeight * part[l] * n
      BY <1>7
    <3>2. PICK x \in Int, y \in Int, w \in Int : x = excess[l] /\ y = part[l] /\ w = StepWeight
      BY <2>2, AdvantageAssumption
    <3>3. x * m + w * y * n = m * x + (w * n) * y
      OBVIOUS
    <3> HIDE DEF S, part, excess, u, v, num
    <3> QED
      BY <2>4, <3>1, <3>2, <3>3
  <2> HIDE DEF S, part, excess, u, v, num
  <2>7. Sum(num, S) = Sum(u, S) + Sum(v, S)
    BY <1>5, <2>5, <2>6, SumPlus
  <2>8. Sum(u, S) = m * Sum(excess, S)
    BY <1>5, <2>1, <2>2, <2>4, SumTimes
  <2>9. Sum(v, S) = (StepWeight * n) * Sum(part, S)
    BY <1>5, <2>1, <2>2, <2>4, SumTimes
  <2>10. Sum(v, S) = 0
    BY <2>1, <2>3, <2>9
  <2>11. PICK x \in Int : x = Sum(excess, S)
    BY <1>5, <2>2, SumInt
  <2>12. n * (m * x + 0) = (n * m) * x
    OBVIOUS
  <2> QED
    BY <2>7, <2>8, <2>10, <2>11, <2>12
<1> QED
  BY <1>4, <1>5, <1>7, <1>8, <1>9

-----------------------------------------------------------------------------
(***************************************************************************)
(* The whitened outcomes: REINFORCE++ with and without a baseline.         *)
(***************************************************************************)
\* Multiplied with the mask, whitened numbers stay what they are where it counts.
LEMMA MaskedStaysCentred ==
  ASSUME LayoutInv, NEW u, NEW x, NEW den, NEW n, Centred(u, x, den, n)
  PROVE  Centred(Masked(batch, u), x, den, n)
<1>1. PICK w : w = Masked(batch, u)
  OBVIOUS
<1>2. /\ u \in [DOMAIN batch -> CellType]
      /\ \A k \in Real(batch) : u[k].den = n * den
      /\ Sum([c \in ActionCells(batch) |-> u[c[1]].num[c[2]]], ActionCells(batch)) = 0
      /\ \A c, d \in ActionCells(batch) :
           u[c[1]].num[c[2]] - u[d[1]].num[d[2]] = n * (x[c[1]][c[2]] - x[d[1]][d[2]])
  BY DEF Centred
<1>3. /\ w \in [DOMAIN batch -> CellType]
      /\ \A k \in DOMAIN batch : w[k].den = u[k].den
      /\ \A k \in DOMAIN batch, m \in Tokens :
           Mask(batch[k])[m] = 1 => w[k].num[m] = u[k].num[m]
  BY <1>1, <1>2, MaskedKeeps
<1>4. \A c \in ActionCells(batch) : w[c[1]].num[c[2]] = u[c[1]].num[c[2]]
  BY <1>3, ActionCellsAre
<1>5. [c \in ActionCells(batch) |-> w[c[1]].num[c[2]]] =
        [c \in ActionCells(batch) |-> u[c[1]].num[c[2]]]
  BY <1>4
<1>6. \A k \in Real(batch) : w[k].den = n * den
  BY <1>2, <1>3 DEF Real
<1>7. ASSUME NEW c \in ActionCells(batch), NEW d \in ActionCells(batch)
      PROVE  w[c[1]].num[c[2]] - w[d[1]].num[d[2]] = n * (x[c[1]][c[2]] - x[d[1]][d[2]])
  BY <1>2, <1>4
<1>8. Sum([c \in ActionCells(batch) |-> w[c[1]].num[c[2]]], ActionCells(batch)) = 0
  BY <1>2, <1>5
<1> QED
  BY <1>1, <1>3, <1>6, <1>7, <1>8 DEF Centred

LEMMA PlusPlusWhitened ==
  ASSUME LayoutInv, NEW w, w = PlusPlusAdvantage(batch), NEW r, r = PlusPlusReturns(batch)
  PROVE  /\ w \in [DOMAIN batch -> CellType] /\ r \in [DOMAIN batch -> CellType]
         /\ Sum([c \in ActionCells(batch) |-> w[c[1]].num[c[2]]], ActionCells(batch)) = 0
         /\ \A c, d \in ActionCells(batch) :
              w[c[1]].num[c[2]] - w[d[1]].num[d[2]] =
                w[c[1]].den * (r[c[1]].num[c[2]] - r[d[1]].num[d[2]])
<1>1. PICK n : n = Cardinality(ActionCells(batch))
  OBVIOUS
<1>2. n \in Nat
  BY <1>1, ActionCellsAre
<1> DEFINE x == [k \in DOMAIN batch |-> RowReturns(batch[k])]
<1>3. \A k \in DOMAIN batch : RowReturns(batch[k]) \in [Tokens -> Int]
  BY RowTypes, RowReturnsType
<1>4. x \in [DOMAIN batch -> [Tokens -> Int]]
  BY <1>3
<1>5. w = Masked(batch, TokenWhitened(batch, x, 1))
  BY DEF PlusPlusAdvantage
<1>6. 1 \in Nat \ {0}
  OBVIOUS
<1>7. \A k \in DOMAIN batch : x[k] = RowReturns(batch[k])
  OBVIOUS
<1> HIDE DEF x
<1>8. Centred(w, x, 1, n)
  BY <1>1, <1>4, <1>5, <1>6, WhitenedTokens, MaskedStaysCentred
<1>12. /\ w \in [DOMAIN batch -> CellType]
       /\ \A k \in Real(batch) : w[k].den = n * 1
       /\ Sum([c \in ActionCells(batch) |-> w[c[1]].num[c[2]]], ActionCells(batch)) = 0
       /\ \A c, d \in ActionCells(batch) :
            w[c[1]].num[c[2]] - w[d[1]].num[d[2]] = n * (x[c[1]][c[2]] - x[d[1]][d[2]])
  BY <1>8 DEF Centred
<1>9. \A k \in DOMAIN batch : r[k] = IF batch[k].pad THEN NoCell ELSE Cell(x[k], 1)
  BY <1>7 DEF PlusPlusReturns
<1>10. r \in [DOMAIN batch -> CellType]
  <2>1. \A k \in DOMAIN batch : Cell(x[k], 1) \in CellType
    BY <1>4, <1>6, CellIsTyped
  <2> QED
    BY <1>9, <2>1, NoCellIsTyped DEF PlusPlusReturns
<1>11. \A c \in ActionCells(batch) : /\ c[1] \in Real(batch)
                                     /\ r[c[1]].num[c[2]] = x[c[1]][c[2]]
  <2> SUFFICES ASSUME NEW c \in ActionCells(batch)
               PROVE  c[1] \in Real(batch) /\ r[c[1]].num[c[2]] = x[c[1]][c[2]]
    OBVIOUS
  <2>1. c[1] \in Real(batch) /\ c[1] \in DOMAIN batch /\ ~batch[c[1]].pad
    BY ActionCellsAre
  <2>2. r[c[1]] = [num |-> x[c[1]], den |-> 1]
    BY <2>1, <1>9 DEF Cell
  <2> QED
    BY <2>1, <2>2
<1>13. \A k \in Real(batch) : w[k].den = n
  <2>1. n * 1 = n
    BY <1>2
  <2> QED
    BY <1>12, <2>1
<1>14. ASSUME NEW c \in ActionCells(batch), NEW d \in ActionCells(batch)
       PROVE  w[c[1]].num[c[2]] - w[d[1]].num[d[2]] =
                w[c[1]].den * (r[c[1]].num[c[2]] - r[d[1]].num[d[2]])
  <2>1. w[c[1]].den = n /\ r[c[1]].num[c[2]] = x[c[1]][c[2]] /\ r[d[1]].num[d[2]] = x[d[1]][d[2]]
    BY <1>11, <1>13
  <2> QED
    BY <1>12, <2>1
<1> QED
  BY <1>10, <1>12, <1>14

LEMMA BaselineWhitened ==
  ASSUME EarnedInv, pc # "rollout", NEW w, w = BaselineAdvantage(batch)
  PROVE  /\ w \in [DOMAIN batch -> CellType]
         /\ Sum([c \in ActionCells(batch) |-> w[c[1]].num[c[2]]], ActionCells(batch)) = 0
         /\ \A c, d \in ActionCells(batch) :
              LET i == batch[c[1]].traj
                  h == batch[d[1]].traj
              IN Size(i) * Size(h) * (w[c[1]].num[c[2]] - w[d[1]].num[d[2]]) =
                   w[c[1]].den * (Size(h) * Excess(i) - Size(i) * Excess(h))
<1>1. LayoutInv
  BY DEF EarnedInv
<1>2. PICK n \in Nat : n = Cardinality(ActionCells(batch))
  BY <1>1, ActionCellsAre
<1>3. PICK den \in Nat \ {0} : den = CommonDen(batch)
  BY CommonDenDivides
<1> DEFINE share(i) == den \div Size(i)
<1>4. \A i \in Trajs : /\ share(i) \in Nat /\ den = Size(i) * share(i)
                       /\ Size(i) \in Nat \ {0} /\ Excess(i) \in Int
                       /\ OverGroupMean(batch, i) = [num |-> Excess(i), den |-> Size(i)]
  BY <1>3, CommonDenDivides, GroupIsRivals
<1> DEFINE x == [k \in DOMAIN batch |->
                   LET a == OverGroupMean(batch, batch[k].traj)
                   IN [m \in Tokens |-> a.num * (den \div a.den) * Mask(batch[k])[m]]]
<1>5. w = Masked(batch, TokenWhitened(batch, x, den))
  BY <1>3 DEF BaselineAdvantage
<1>6. \A k \in DOMAIN batch :
        x[k] = [m \in Tokens |->
                  Excess(batch[k].traj) * share(batch[k].traj) * Mask(batch[k])[m]]
  <2> SUFFICES ASSUME NEW k \in DOMAIN batch
               PROVE  x[k] = [m \in Tokens |->
                                Excess(batch[k].traj) * share(batch[k].traj) * Mask(batch[k])[m]]
    OBVIOUS
  <2>1. batch[k].traj \in Trajs
    BY <1>1, RowTypes
  <2>2. OverGroupMean(batch, batch[k].traj) =
          [num |-> Excess(batch[k].traj), den |-> Size(batch[k].traj)]
    BY <2>1, <1>4
  <2> QED
    BY <2>2
<1> HIDE DEF share
<1>7. x \in [DOMAIN batch -> [Tokens -> Int]]
  <2> SUFFICES ASSUME NEW k \in DOMAIN batch PROVE x[k] \in [Tokens -> Int]
    OBVIOUS
  <2>1. PICK y \in Int : y = Excess(batch[k].traj) * share(batch[k].traj)
    <3>1. Excess(batch[k].traj) \in Int /\ share(batch[k].traj) \in Int
      BY <1>1, <1>4, RowTypes
    <3> QED
      BY <3>1
  <2>2. x[k] = [m \in Tokens |-> y * Mask(batch[k])[m]]
    BY <2>1, <1>6
  <2>3. \A m \in Tokens : y * Mask(batch[k])[m] \in Int
    BY MaskBits
  <2> HIDE DEF x
  <2> QED
    BY <2>2, <2>3
<1>8. \A c \in ActionCells(batch) :
        x[c[1]][c[2]] = Excess(batch[c[1]].traj) * share(batch[c[1]].traj)
  <2> SUFFICES ASSUME NEW c \in ActionCells(batch)
               PROVE  x[c[1]][c[2]] = Excess(batch[c[1]].traj) * share(batch[c[1]].traj)
    OBVIOUS
  <2>1. c[1] \in DOMAIN batch /\ c[2] \in Tokens /\ Mask(batch[c[1]])[c[2]] = 1
    BY <1>1, ActionCellsAre
  <2>2. PICK y \in Int : y = Excess(batch[c[1]].traj) * share(batch[c[1]].traj)
    <3>1. Excess(batch[c[1]].traj) \in Int /\ share(batch[c[1]].traj) \in Int
      BY <2>1, <1>1, <1>4, RowTypes
    <3> QED
      BY <3>1
  <2> HIDE DEF x
  <2>3. x[c[1]] = [m \in Tokens |-> y * Mask(batch[c[1]])[m]]
    BY <2>1, <2>2, <1>6
  <2>4. x[c[1]][c[2]] = y * 1
    BY <2>1, <2>3
  <2> QED
    BY <2>2, <2>4
<1> HIDE DEF x
<1>9. Centred(w, x, den, n)
  BY <1>1, <1>2, <1>5, <1>7, WhitenedTokens, MaskedStaysCentred
<1>10. /\ w \in [DOMAIN batch -> CellType]
       /\ \A k \in Real(batch) : w[k].den = n * den
       /\ Sum([c \in ActionCells(batch) |-> w[c[1]].num[c[2]]], ActionCells(batch)) = 0
       /\ \A c, d \in ActionCells(batch) :
            w[c[1]].num[c[2]] - w[d[1]].num[d[2]] = n * (x[c[1]][c[2]] - x[d[1]][d[2]])
  BY <1>9 DEF Centred
<1>11. ASSUME NEW c \in ActionCells(batch), NEW d \in ActionCells(batch),
              NEW i \in Trajs, NEW h \in Trajs, i = batch[c[1]].traj, h = batch[d[1]].traj
       PROVE  Size(i) * Size(h) * (w[c[1]].num[c[2]] - w[d[1]].num[d[2]]) =
                w[c[1]].den * (Size(h) * Excess(i) - Size(i) * Excess(h))
  <2>1. PICK a \in Int, b \in Int, p \in Int, q \in Int, e \in Int, g \in Int :
          /\ a = Size(i) /\ b = Size(h) /\ p = share(i) /\ q = share(h)
          /\ e = Excess(i) /\ g = Excess(h)
    BY <1>4
  <2>2. den = a * p /\ den = b * q
    BY <2>1, <1>4
  <2>3. w[c[1]].num[c[2]] - w[d[1]].num[d[2]] = n * (e * p - g * q)
    BY <2>1, <1>8, <1>10, <1>11
  <2>4. w[c[1]].den = n * den
    BY <1>1, <1>10, ActionCellsAre
  <2>5. a * b * (n * (e * p - g * q)) = n * (b * e * (a * p) - a * g * (b * q))
    OBVIOUS
  <2>6. n * (b * e * den - a * g * den) = n * den * (b * e - a * g)
    OBVIOUS
  <2> QED
    BY <2>1, <2>2, <2>3, <2>4, <2>5, <2>6
<1>12. \A c \in ActionCells(batch) : batch[c[1]].traj \in Trajs
  BY <1>1, ActionCellsAre, RowTypes
<1> QED
  BY <1>10, <1>11, <1>12

\* The types of the others.
LEMMA BroadcastOutcomes ==
  ASSUME EarnedInv, pc # "rollout"
  PROVE  /\ GrpoAdvantage(batch) \in [DOMAIN batch -> CellType]
         /\ RlooAdvantage(batch) \in [DOMAIN batch -> CellType]
         /\ GigpoAdvantage(batch) \in [DOMAIN batch -> CellType]
<1>1. \A k \in DOMAIN batch : batch[k].traj \in Trajs
  BY RowTypes DEF EarnedInv
<1>2. \A i \in Trajs :
        /\ OverGroupMean(batch, i) = [num |-> Excess(i), den |-> Size(i)]
        /\ Excess(i) \in Int /\ Size(i) \in Nat \ {0} /\ Total(batch, i) \in Int
        /\ GroupTotal(batch, PromptOf[i]) \in Int
        /\ Cardinality(Group(batch, PromptOf[i])) = Size(i)
  BY GroupIsRivals DEF Size
<1>3. GrpoAdvantage(batch) \in [DOMAIN batch -> CellType]
  <2>1. \A k \in DOMAIN batch : GrpoAdvantage(batch)[k] \in CellType
    BY <1>1, <1>2, BroadcastType, NoCellIsTyped DEF GrpoAdvantage
  <2> QED
    BY <2>1 DEF GrpoAdvantage
<1>4. RlooAdvantage(batch) \in [DOMAIN batch -> CellType]
  <2> SUFFICES ASSUME NEW k \in DOMAIN batch PROVE RlooAdvantage(batch)[k] \in CellType
    BY DEF RlooAdvantage
  <2>1. PICK i \in Trajs : i = batch[k].traj
    BY <1>1
  <2>2. PICK n \in Nat \ {0}, e \in Int, g \in Int :
          /\ n = Cardinality(Group(batch, PromptOf[i]))
          /\ e = Total(batch, i) /\ g = GroupTotal(batch, PromptOf[i])
    BY <1>2
  <2>3. n * e - g \in Int /\ (n > 1 => n - 1 \in Nat \ {0}) /\ 1 \in Nat \ {0}
    OBVIOUS
  <2>4. RlooAdvantage(batch)[k] =
          IF batch[k].pad THEN NoCell
          ELSE IF n > 1 THEN Broadcast(batch[k], n * e - g, n - 1)
               ELSE Broadcast(batch[k], e, 1)
    BY <2>1, <2>2 DEF RlooAdvantage
  <2> QED
    BY <2>3, <2>4, BroadcastType, NoCellIsTyped
<1>5. GigpoAdvantage(batch) \in [DOMAIN batch -> CellType]
  <2> SUFFICES ASSUME NEW k \in DOMAIN batch PROVE GigpoAdvantage(batch)[k] \in CellType
    BY DEF GigpoAdvantage
  <2>1. CASE batch[k].pad
    BY <2>1, NoCellIsTyped DEF GigpoAdvantage
  <2>2. CASE ~batch[k].pad
    <3>1. k \in Real(batch)
      BY <2>2 DEF Real
    <3>2. PICK n \in Nat \ {0}, m \in Nat \ {0}, e \in Int, s \in Int :
            /\ n = Size(batch[k].traj) /\ m = Cardinality(Alike(k))
            /\ e = Excess(batch[k].traj) /\ s = StepPart(k)
      BY <3>1, <1>1, <1>2, AlikeAre
    <3>3. PICK num \in Int, den \in Nat \ {0} : num = e * m + StepWeight * s * n /\ den = n * m
      BY AdvantageAssumption
    <3>4. GigpoAdvantage(batch)[k] = Broadcast(batch[k], num, den)
      BY <3>1, <3>2, <3>3, GigpoCell
    <3> QED
      BY <3>4, BroadcastType
  <2> QED
    BY <2>1, <2>2
<1> QED
  BY <1>3, <1>4, <1>5

-----------------------------------------------------------------------------
(***************************************************************************)
(* The types of the whole of TrainBatch.                                   *)
(***************************************************************************)
\* Before compute_advantage there is nothing to update with.
Early == {"rollout", "pad", "balance", "scale", "advantage"}

CellsOf(b) == [DOMAIN b -> CellType]

TypeInv ==
  /\ pc \in Early \union {"gae", "token_gae", "outcome", "critic", "update_critic", "actor"}
  /\ ByWayOfTheCritic
  /\ top \in 0..MaxSteps /\ t \in 0..top /\ j \in 0..RespLen
  /\ lastgaelam \in [Trajs -> Int] /\ bootstrap \in [Trajs -> Int]
  /\ gae \in [Trajs -> [Steps -> Int]]
  /\ IF pc \in {"rollout", "pad", "balance"} THEN lossMask = <<>>
     ELSE lossMask \in [DOMAIN batch -> [Tokens -> {0, 1}]]
  /\ IF pc \in Early THEN adv = <<>> /\ ret = <<>>
     ELSE adv \in CellsOf(batch) /\ ret \in CellsOf(batch)

LEMMA TypesSuffice == TypeInv /\ EarnedInv => TypeOK
BY DEF TypeInv, TypeOK, EarnedInv, EarnedIsTotal, LayoutInv, LayoutTypes, ByWayOfTheCritic,
       Early, CellsOf, CellType

LEMMA MasksAreBits ==
  ASSUME NEW row
  PROVE  Mask(row) \in [Tokens -> {0, 1}]
BY DEF Mask

\* The state of the loops before the first of them and after the last update.
LEMMA NothingYet ==
  /\ Zeros \in [Trajs -> Int] /\ ZeroTable \in [Trajs -> [Steps -> Int]]
  /\ 0 \in 0..MaxSteps /\ 0 \in 0..0 /\ 0 \in 0..RespLen
BY Sizes DEF Zeros, ZeroTable

LEMMA TypeInit == Init => TypeInv
BY NothingYet DEF Init, TypeInv, ByWayOfTheCritic, Early

\* The actions before the estimators.
LEMMA TypeEarly ==
  ASSUME TypeInv, pc \in Early, pc' \in Early,
         est' = est, top' = top, t' = t, j' = j, adv' = adv, ret' = ret,
         lastgaelam' = lastgaelam, bootstrap' = bootstrap, gae' = gae,
         IF pc' \in {"rollout", "pad", "balance"} THEN lossMask' = <<>>
         ELSE lossMask' \in [DOMAIN batch' -> [Tokens -> {0, 1}]]
  PROVE  TypeInv'
BY DEF TypeInv, ByWayOfTheCritic, Early

LEMMA TypeStarts ==
  ASSUME TypeInv, NEW e \in Estimators, ComputeAdvantage(e)
  PROVE  TypeInv'
<1>1. /\ pc = "advantage" /\ est' = e
      /\ pc' = IF e \in {"gae", "token_gae"} THEN e ELSE "outcome"
      /\ batch' = batch /\ lossMask' = lossMask /\ j' = j
      /\ lastgaelam' = lastgaelam /\ bootstrap' = bootstrap /\ gae' = gae
      /\ adv' = [k \in DOMAIN batch |-> NoCell]
      /\ ret' = [k \in DOMAIN batch |-> NoCell]
      /\ top' \in 1..MaxSteps /\ t' = top'
  BY DEF ComputeAdvantage, layout
<1>2. top' \in 0..MaxSteps /\ t' \in 0..top'
  BY <1>1, Sizes
<1>3. adv' \in CellsOf(batch') /\ ret' \in CellsOf(batch')
  BY <1>1, NoCellIsTyped DEF CellsOf
<1>4. lossMask' \in [DOMAIN batch' -> [Tokens -> {0, 1}]]
  BY <1>1 DEF TypeInv
<1>5. ByWayOfTheCritic' /\ pc' \in {"gae", "token_gae", "outcome"}
  BY <1>1 DEF ByWayOfTheCritic, Estimators
<1> QED
  BY <1>1, <1>2, <1>3, <1>4, <1>5 DEF TypeInv, Early

\* The rounds of the two loops.
LEMMA TypeRounds ==
  ASSUME TypeInv, TokenInv, TokenInv', GaeStep \/ TokenStep \/ TokenRound
  PROVE  TypeInv'
<1>1. /\ pc \in {"gae", "token_gae"} /\ pc' = pc /\ est' = est /\ top' = top
      /\ batch' = batch /\ lossMask' = lossMask
  BY DEF GaeStep, TokenStep, TokenRound, layout
<1>2. top \in 0..MaxSteps /\ t \in 0..top /\ j \in 0..RespLen
  BY DEF TypeInv
<1>3. t' \in 0..top' /\ j' \in 0..RespLen
  BY <1>1, <1>2, Sizes DEF GaeStep, TokenStep, TokenRound
<1>4. adv \in CellsOf(batch) /\ ret \in CellsOf(batch)
  BY <1>1 DEF TypeInv, Early
<1>5. CASE GaeStep
  <2>1. lastgaelam' \in [Trajs -> Int] /\ gae' \in [Trajs -> [Steps -> Int]]
    BY <1>1, <1>5 DEF GaeStep, TokenInv, GaeInv, StepLoop
  <2>2. bootstrap' = bootstrap /\ adv' = adv /\ ret' = ret
    BY <1>5 DEF GaeStep
  <2> QED
    BY <1>1, <1>2, <1>3, <1>4, <2>1, <2>2 DEF TypeInv, ByWayOfTheCritic, Early
<1>6. CASE TokenStep
  BY <1>1, <1>2, <1>3, <1>4, <1>6 DEF TokenStep, TypeInv, ByWayOfTheCritic, Early
<1>7. CASE TokenRound
  <2>1. pc = "token_gae" /\ pc' = "token_gae" /\ gae' = gae /\ j > 0
    BY <1>7 DEF TokenRound
  <2>2. TokenTypes' /\ TokenTypes /\ LayoutInv
    BY <2>1 DEF TokenInv, GaeInv, TokenLoop
  <2>3. j \in Tokens
    BY <2>1, <1>2, Sizes DEF Tokens
  <2>4. adv' \in CellsOf(batch')
    <3> SUFFICES ASSUME NEW k \in DOMAIN batch PROVE adv'[k] \in CellType
      BY <1>1, <1>7 DEF TokenRound, CellsOf
    <3>1. adv'[k] = IF k \in Acting THEN [adv[k] EXCEPT !.num[j] = TokenGae(batch[k])] ELSE adv[k]
      BY <1>7 DEF TokenRound
    <3>2. adv[k] \in CellType
      BY <1>4 DEF CellsOf
    <3>3. k \in Acting => TokenGae(batch[k]) \in Int
      BY <2>2, <2>3, TokenGaeType
    <3> QED
      BY <3>1, <3>2, <3>3, <2>3 DEF CellType
  <2>5. ret' \in CellsOf(batch') /\ lastgaelam' \in [Trajs -> Int] /\ bootstrap' \in [Trajs -> Int]
    BY <2>2 DEF TokenTypes, CellsOf, CellType
  <2> QED
    BY <1>1, <1>2, <1>3, <2>1, <2>4, <2>5 DEF TypeInv, ByWayOfTheCritic, Early
<1> QED
  BY <1>5, <1>6, <1>7

\* What the estimators leave, and the updates.
LEMMA TypeLate ==
  ASSUME TypeInv, pc \notin Early, pc' \in {"critic", "update_critic", "actor"},
         pc' \in {"critic", "update_critic"} => est \in {"gae", "token_gae"},
         batch' = batch, est' = est, UNCHANGED loop,
         lossMask' \in [DOMAIN batch -> [Tokens -> {0, 1}]],
         adv' \in CellsOf(batch), ret' \in CellsOf(batch)
  PROVE  TypeInv'
BY DEF TypeInv, ByWayOfTheCritic, Early, loop

LEMMA TypeGaeEnd ==
  ASSUME TypeInv, TokenInv, GaeEnd
  PROVE  TypeInv'
<1>1. /\ pc = "gae" /\ pc' = "critic" /\ batch' = batch /\ est' = est /\ est = "gae"
      /\ UNCHANGED loop /\ lossMask' = lossMask
      /\ adv' = StepWhitened(batch, RawAdvantage)
      /\ ret' = [k \in DOMAIN batch |->
                    IF batch[k].pad THEN NoCell
                    ELSE Broadcast(batch[k], RawAdvantage[k] + Value(batch[k], 1), 1)]
  BY DEF GaeEnd, layout, TypeInv, ByWayOfTheCritic
<1>2. LayoutInv /\ gae \in [Trajs -> [Steps -> Int]]
  BY DEF TokenInv, GaeInv, TypeInv
<1>3. 1 \in Tokens
  BY Sizes DEF Tokens
<1>4. \A k \in DOMAIN batch : RawAdvantage[k] \in Int /\ Value(batch[k], 1) \in Int
  BY <1>2, <1>3, RowTypes DEF RawAdvantage
<1>5. adv' \in CellsOf(batch)
  <2>1. \A k \in Real(batch) : RawAdvantage[k] \in Int
    BY <1>4 DEF Real
  <2> QED
    BY <1>1, <1>2, <2>1, WhitenedSteps DEF CellsOf
<1>6. ret' \in CellsOf(batch)
  <2>1. \A k \in DOMAIN batch : RawAdvantage[k] + Value(batch[k], 1) \in Int /\ 1 \in Nat \ {0}
    BY <1>4
  <2> QED
    BY <1>1, <2>1, BroadcastType, NoCellIsTyped DEF CellsOf
<1>7. pc \notin Early /\ lossMask' \in [DOMAIN batch -> [Tokens -> {0, 1}]]
  BY <1>1 DEF TypeInv, Early
<1> QED
  BY <1>1, <1>5, <1>6, <1>7, TypeLate

\* The numbers that compute_token_gae_advantage_return whitens.
TokenRaw == [k \in DOMAIN batch |-> adv[k].num]

LEMMA TokenRawType ==
  ASSUME TypeInv, pc \notin Early
  PROVE  TokenRaw \in [DOMAIN batch -> [Tokens -> Int]]
BY DEF TypeInv, CellsOf, CellType, TokenRaw

LEMMA TypeTokenGaeEnd ==
  ASSUME TypeInv, TokenInv, TokenGaeEnd
  PROVE  TypeInv'
<1>1. /\ pc = "token_gae" /\ pc' = "critic" /\ batch' = batch /\ est' = est /\ est = "token_gae"
      /\ UNCHANGED loop /\ lossMask' = lossMask /\ ret' = ret
      /\ adv' = TokenWhitened(batch, TokenRaw, 1)
  BY DEF TokenGaeEnd, layout, TypeInv, ByWayOfTheCritic, TokenRaw
<1>2. /\ LayoutInv /\ pc \notin Early /\ ret' \in CellsOf(batch)
      /\ lossMask' \in [DOMAIN batch -> [Tokens -> {0, 1}]]
  BY <1>1 DEF TokenInv, GaeInv, TypeInv, Early
<1>3. adv' \in CellsOf(batch)
  <2>1. 1 \in Nat \ {0} /\ TokenRaw \in [DOMAIN batch -> [Tokens -> Int]]
    BY <1>2, TokenRawType
  <2>2. Centred(adv', TokenRaw, 1, Cardinality(ActionCells(batch)))
    BY <1>1, <1>2, <2>1, WhitenedTokens
  <2> QED
    BY <2>2 DEF Centred, CellsOf
<1> QED
  BY <1>1, <1>2, <1>3, TypeLate

LEMMA TypeOutcome ==
  ASSUME TypeInv, EarnedInv, Outcome
  PROVE  TypeInv'
<1>1. /\ pc = "outcome" /\ pc' = "actor" /\ batch' = batch /\ est' = est
      /\ UNCHANGED loop /\ lossMask' = lossMask
      /\ ret' = IF est = "reinforce_plus_plus" THEN PlusPlusReturns(batch) ELSE adv'
      /\ est \in Estimators \ {"gae", "token_gae"}
  BY DEF Outcome, layout, TypeInv, ByWayOfTheCritic
<1>2. LayoutInv
  BY DEF EarnedInv
<1>3. adv' \in CellsOf(batch)
  <2>1. \/ adv' = GrpoAdvantage(batch) \/ adv' = RlooAdvantage(batch)
        \/ adv' = GigpoAdvantage(batch)
        \/ adv' = PlusPlusAdvantage(batch) \/ adv' = BaselineAdvantage(batch)
    BY <1>1 DEF Outcome, Estimators
  <2>2. pc # "rollout"
    BY <1>1
  <2> QED
    BY <1>2, <2>1, <2>2, BroadcastOutcomes, PlusPlusWhitened, BaselineWhitened DEF CellsOf
<1>4. ret' \in CellsOf(batch)
  BY <1>1, <1>2, <1>3, PlusPlusWhitened DEF CellsOf
<1>5. pc \notin Early /\ lossMask' \in [DOMAIN batch -> [Tokens -> {0, 1}]]
  BY <1>1 DEF TypeInv, Early
<1> QED
  BY <1>1, <1>3, <1>4, <1>5, TypeLate

LEMMA TypeNext ==
  ASSUME TypeInv, TokenInv, TokenInv', EarnedInv, [Next]_vars
  PROVE  TypeInv'
<1>1. ASSUME NEW score \in Scores, NEW len \in Tokens, NEW isLast \in BOOLEAN,
             CollectStep(score, len, isLast)
      PROVE  TypeInv'
  <2>1. /\ pc = "rollout" /\ pc' \in {"rollout", "pad"} /\ lossMask' = <<>>
        /\ UNCHANGED <<est, loop, adv, ret>>
    BY <1>1 DEF CollectStep, TypeInv
  <2> QED
    BY <2>1, TypeEarly DEF Early, loop
<1>2. CASE Pad
  <2>1. /\ pc = "pad" /\ pc' = "balance" /\ lossMask' = <<>>
        /\ UNCHANGED <<est, loop, adv, ret>>
    BY <1>2 DEF Pad, TypeInv
  <2> QED
    BY <2>1, TypeEarly DEF Early, loop
<1>3. CASE Balance
  <2>1. PICK order \in Orders :
          /\ batch' = [k \in DOMAIN batch |-> batch[order[k]]]
          /\ lossMask' = [k \in DOMAIN batch |-> Mask(batch[order[k]])]
    BY <1>3 DEF Balance
  <2>2. pc = "balance" /\ pc' = "scale" /\ UNCHANGED <<est, loop, adv, ret>>
    BY <1>3 DEF Balance
  <2>3. lossMask' \in [DOMAIN batch' -> [Tokens -> {0, 1}]]
    BY <2>1, MasksAreBits
  <2> QED
    BY <2>2, <2>3, TypeEarly DEF Early, loop
<1>4. ASSUME NEW factor \in ScaleFactors, Scale(factor)
      PROVE  TypeInv'
  <2>1. /\ pc = "scale" /\ pc' = "advantage" /\ DOMAIN batch' = DOMAIN batch
        /\ lossMask' = lossMask /\ UNCHANGED <<est, loop, adv, ret>>
    BY <1>4 DEF Scale
  <2>2. lossMask' \in [DOMAIN batch' -> [Tokens -> {0, 1}]]
    BY <2>1 DEF TypeInv
  <2> QED
    BY <2>1, <2>2, TypeEarly DEF Early, loop
<1>5. ASSUME NEW e \in Estimators, ComputeAdvantage(e)
      PROVE  TypeInv'
  BY <1>5, TypeStarts
<1>6. CASE GaeStep \/ TokenStep \/ TokenRound
  BY <1>6, TypeRounds
<1>7. CASE GaeEnd
  BY <1>7, TypeGaeEnd
<1>8. CASE TokenGaeEnd
  BY <1>8, TypeTokenGaeEnd
<1>9. CASE Outcome
  BY <1>9, TypeOutcome
<1>10. CASE MaskForCritic
  <2>1. /\ pc = "critic" /\ pc' = "update_critic" /\ batch' = batch /\ est' = est
        /\ UNCHANGED loop /\ adv' = adv /\ ret' = ret
        /\ lossMask' = [k \in DOMAIN batch |-> CriticMask(k)]
    BY <1>10 DEF MaskForCritic, layout
  <2>2. /\ adv' \in CellsOf(batch) /\ ret' \in CellsOf(batch) /\ pc \notin Early
        /\ lossMask \in [DOMAIN batch -> [Tokens -> {0, 1}]]
        /\ est \in {"gae", "token_gae"}
    BY <2>1 DEF TypeInv, Early, ByWayOfTheCritic
  <2>3. \A k \in DOMAIN batch : CriticMask(k) \in [Tokens -> {0, 1}]
    BY <2>2 DEF CriticMask
  <2> QED
    BY <2>1, <2>2, <2>3, TypeLate
<1>11. CASE UpdateCritic
  <2>1. /\ pc = "update_critic" /\ pc' = "actor" /\ batch' = batch /\ est' = est
        /\ UNCHANGED loop /\ adv' = adv /\ ret' = ret
        /\ lossMask' = [k \in DOMAIN batch |-> Mask(batch[k])]
    BY <1>11 DEF UpdateCritic, layout
  <2>2. adv' \in CellsOf(batch) /\ ret' \in CellsOf(batch) /\ pc \notin Early
    BY <2>1 DEF TypeInv, Early
  <2>3. lossMask' \in [DOMAIN batch -> [Tokens -> {0, 1}]]
    BY <2>1, MasksAreBits
  <2> QED
    BY <2>1, <2>2, <2>3, TypeLate
<1>12. CASE UpdateActor
  BY <1>12, NothingYet DEF UpdateActor, TypeInv, ByWayOfTheCritic, Early
<1>13. CASE UNCHANGED vars
  BY <1>13 DEF vars, layout, loop, TypeInv, ByWayOfTheCritic, Early, CellsOf
<1> QED
  BY <1>1, <1>2, <1>3, <1>4, <1>5, <1>6, <1>7, <1>8, <1>9, <1>10, <1>11, <1>12, <1>13 DEF Next

-----------------------------------------------------------------------------
(***************************************************************************)
(* Whitening and comparing, in every step of the program.                  *)
(***************************************************************************)
\* The tokens whose round is over have the advantage that their return shows.
AdvantageLoop ==
  pc = "token_gae" =>
    \A k \in Real(batch), n \in Tokens :
      n <= batch[k].len /\ Seen(k, n) => adv[k].num[n] = TokenAdvantage(k, n)

LEMMA LoopStarts ==
  ASSUME TokenInv, NEW e \in Estimators, ComputeAdvantage(e)
  PROVE  AdvantageLoop'
<1>1. /\ batch' = batch /\ t' = top' /\ top' \in Nat
      /\ \A k \in Real(batch) : batch[k].step < top'
  BY Sizes DEF ComputeAdvantage, layout
<1>2. \A k \in Real(batch) : batch[k].step \in Nat
  BY RowTypes DEF TokenInv, GaeInv, Real, Steps
<1>3. Real(batch)' = Real(batch)
  BY <1>1 DEF Real
<1>4. \A k \in Real(batch)', n \in Tokens : ~Seen(k, n)'
  <2> SUFFICES ASSUME NEW k \in Real(batch), NEW n \in Tokens PROVE ~Seen(k, n)'
    BY <1>3
  <2>1. batch'[k].step < t'
    BY <1>1
  <2>2. ~(batch'[k].step > t') /\ batch'[k].step # t'
    BY <2>1, <1>1, <1>2
  <2> QED
    BY <2>2 DEF Seen
<1> QED
  BY <1>4 DEF AdvantageLoop

LEMMA LoopStepKeeps ==
  ASSUME AdvantageLoop, TokenInv, TypeInv, TokenStep
  PROVE  AdvantageLoop'
<1>1. /\ pc = "token_gae" /\ t > 0 /\ j = 0 /\ t' = t - 1 /\ j' = RespLen
      /\ batch' = batch /\ ret' = ret /\ adv' = adv
  BY DEF TokenStep, layout
<1>2. t \in Int
  BY Sizes DEF TypeInv
<1>3. Real(batch)' = Real(batch)
  BY <1>1 DEF Real
<1>4. ASSUME NEW k \in Real(batch), NEW n \in Tokens, n <= batch[k].len, Seen(k, n)'
      PROVE  adv[k].num[n] = TokenAdvantage(k, n)
  <2>1. batch[k].step \in Int
    BY RowTypes, Sizes DEF TokenInv, GaeInv, Real, Steps
  <2>2. Seen(k, n)
    BY <2>1, <1>1, <1>2, <1>4, Sizes DEF Seen, Tokens
  <2> QED
    BY <2>2, <1>1, <1>4 DEF AdvantageLoop
<1> QED
  BY <1>1, <1>3, <1>4 DEF AdvantageLoop, TokenAdvantage

LEMMA LoopRoundKeeps ==
  ASSUME AdvantageLoop, TokenInv, TypeInv, TokenRound
  PROVE  AdvantageLoop'
<1>1. /\ pc = "token_gae" /\ j > 0 /\ t' = t /\ j' = j - 1 /\ batch' = batch
      /\ adv' = [k \in DOMAIN batch |->
           IF k \in Acting THEN [adv[k] EXCEPT !.num[j] = TokenGae(batch[k])] ELSE adv[k]]
  BY DEF TokenRound, layout
<1>2. LayoutInv /\ TokenTypes /\ adv \in CellsOf(batch)
  BY <1>1 DEF TokenInv, GaeInv, TokenLoop, TypeInv, Early
<1>3. PICK m \in Tokens : m = j
  BY <1>1, <1>2, Sizes DEF TokenTypes, Tokens
<1>4. /\ \A k \in Acting : TokenAdvantage(k, m)' = TokenGae(batch[k])
      /\ \A k \in Real(batch), n \in Tokens : ~(k \in Acting /\ n = m) =>
           TokenAdvantage(k, n)' = TokenAdvantage(k, n)
  BY <1>2, <1>3, RoundWrites
<1>5. Real(batch)' = Real(batch)
  BY <1>1 DEF Real
<1>6. ASSUME NEW k \in Real(batch), NEW n \in Tokens, n <= batch[k].len, Seen(k, n)'
      PROVE  adv'[k].num[n] = TokenAdvantage(k, n)'
  <2>1. /\ k \in DOMAIN batch /\ batch[k].len \in Tokens
        /\ adv[k] \in [num : [Tokens -> Int], den : Nat \ {0}]
    BY <1>2, RowTypes DEF Real, CellsOf, CellType
  <2>2. CASE k \in Acting /\ n = m
    BY <2>1, <2>2, <1>1, <1>3, <1>4
  <2>3. CASE ~(k \in Acting /\ n = m)
    <3>1. adv'[k].num[n] = adv[k].num[n]
      BY <2>1, <2>3, <1>1, <1>3
    <3>2. Seen(k, n)
      <4>1. batch[k].step > t \/ (batch[k].step = t /\ n > m - 1)
        BY <1>1, <1>3, <1>6 DEF Seen
      <4>2. CASE batch[k].step = t /\ n = m
        <5>1. Mask(batch[k])[m] = 1
          BY <4>2, <2>1, <1>6 DEF Mask
        <5> QED
          BY <5>1, <4>2, <2>3, <1>3 DEF Acting
      <4>3. CASE ~(batch[k].step = t /\ n = m)
        BY <4>1, <4>3, <1>3, Sizes DEF Seen, Tokens
      <4> QED
        BY <4>2, <4>3
    <3> QED
      BY <3>1, <3>2, <2>3, <1>1, <1>4, <1>6 DEF AdvantageLoop
  <2> QED
    BY <2>2, <2>3
<1> QED
  BY <1>1, <1>5, <1>6 DEF AdvantageLoop

\* What WhitenedIsCentred says of step-level GAE.
WhitenedStepwise ==
  /\ Sum([k \in Real(batch) |-> adv[k].num[1]], Real(batch)) = 0
  /\ \A k, l \in Real(batch) :
       adv[k].num[1] - adv[l].num[1] = adv[k].den * (StepAdvantage(k) - StepAdvantage(l))

LEMMA GaeEndCentres ==
  ASSUME TokenInv, GaeEnd
  PROVE  WhitenedIsCentred'
<1>1. /\ pc = "gae" /\ est' = est /\ est = "gae" /\ batch' = batch
      /\ adv' = StepWhitened(batch, RawAdvantage)
  BY DEF GaeEnd, layout, TokenInv, GaeInv, Looping
<1>2. GaeInv /\ LayoutInv
  BY DEF TokenInv, GaeInv
<1>3. \A k \in Real(batch) : RawAdvantage[k] = StepAdvantage(k)' /\ RawAdvantage[k] \in Int
  <2> SUFFICES ASSUME NEW k \in Real(batch)
               PROVE  RawAdvantage[k] = StepAdvantage(k)' /\ RawAdvantage[k] \in Int
    OBVIOUS
  <2>1. RawAdvantage[k] = gae[batch[k].traj][batch[k].step]
    BY DEF RawAdvantage, Real
  <2> QED
    BY <2>1, <1>2, GaeEndGives
<1>4. PICK n : n = Cardinality(Real(batch))
  OBVIOUS
<1>5. /\ \A k \in Real(batch) : adv'[k].den = n
      /\ Sum([k \in Real(batch) |-> adv'[k].num[1]], Real(batch)) = 0
      /\ \A k, l \in Real(batch) :
           adv'[k].num[1] - adv'[l].num[1] = n * (RawAdvantage[k] - RawAdvantage[l])
  BY <1>1, <1>2, <1>3, <1>4, WhitenedSteps
<1>6. Real(batch)' = Real(batch)
  BY <1>1 DEF Real
<1>7. ASSUME NEW k \in Real(batch), NEW l \in Real(batch)
      PROVE  adv'[k].num[1] - adv'[l].num[1] =
               adv'[k].den * (StepAdvantage(k)' - StepAdvantage(l)')
  BY <1>3, <1>5
<1>8. WhitenedStepwise'
  BY <1>5, <1>6, <1>7 DEF WhitenedStepwise
<1> QED
  BY <1>1, <1>8 DEF WhitenedIsCentred, WhitenedStepwise

LEMMA TokenGaeEndCentres ==
  ASSUME TokenInv, TypeInv, AdvantageLoop, TokenGaeEnd
  PROVE  WhitenedIsCentred'
<1>1. /\ pc = "token_gae" /\ t = 0 /\ j = 0 /\ est' = est /\ est = "token_gae" /\ batch' = batch
      /\ ret' = ret /\ adv' = TokenWhitened(batch, TokenRaw, 1)
  BY DEF TokenGaeEnd, layout, TokenRaw, TypeInv, ByWayOfTheCritic
<1>2. LayoutInv /\ TokenRaw \in [DOMAIN batch -> [Tokens -> Int]] /\ 1 \in Int
  BY <1>1, TokenRawType DEF TokenInv, GaeInv, Early
<1>3. PICK n : n = Cardinality(ActionCells(batch))
  OBVIOUS
<1>4. Centred(adv', TokenRaw, 1, n)
  BY <1>1, <1>2, <1>3, WhitenedTokens
<1>5. /\ \A k \in Real(batch) : adv'[k].den = n * 1
      /\ Sum([c \in ActionCells(batch) |-> adv'[c[1]].num[c[2]]], ActionCells(batch)) = 0
      /\ \A c, d \in ActionCells(batch) :
           adv'[c[1]].num[c[2]] - adv'[d[1]].num[d[2]] =
             n * (TokenRaw[c[1]][c[2]] - TokenRaw[d[1]][d[2]])
  BY <1>4 DEF Centred
<1>6. n * 1 = n
  BY <1>2, <1>3, ActionCellsAre
<1>7. ASSUME NEW c \in ActionCells(batch)
      PROVE  /\ adv'[c[1]].den = n
             /\ TokenRaw[c[1]][c[2]] = TokenAdvantage(c[1], c[2])'
  <2>1. /\ c[1] \in Real(batch) /\ c[1] \in DOMAIN batch
        /\ c[2] \in Tokens /\ c[2] \in 1..batch[c[1]].len
    BY <1>2, ActionCellsAre
  <2>2. batch[c[1]].step \in Nat
    BY <2>1, <1>2, RowTypes DEF Steps
  <2>3. Seen(c[1], c[2]) /\ c[2] <= batch[c[1]].len
    BY <2>1, <2>2, <1>1, Sizes DEF Seen, Tokens
  <2>4. adv[c[1]].num[c[2]] = TokenAdvantage(c[1], c[2])
    BY <2>1, <2>3, <1>1 DEF AdvantageLoop
  <2>5. TokenAdvantage(c[1], c[2])' = TokenAdvantage(c[1], c[2])
    BY <1>1 DEF TokenAdvantage
  <2> QED
    BY <2>1, <2>4, <2>5, <1>5, <1>6 DEF TokenRaw
<1>8. ActionCells(batch)' = ActionCells(batch)
  BY <1>1 DEF ActionCells, Real
<1>9. ASSUME NEW c \in ActionCells(batch), NEW d \in ActionCells(batch)
      PROVE  adv'[c[1]].num[c[2]] - adv'[d[1]].num[d[2]] =
               adv'[c[1]].den * (TokenAdvantage(c[1], c[2])' - TokenAdvantage(d[1], d[2])')
  BY <1>5, <1>7
<1> QED
  BY <1>1, <1>5, <1>8, <1>9 DEF WhitenedIsCentred

LEMMA OutcomeCentres ==
  ASSUME EarnedInv, TypeInv, Outcome
  PROVE  WhitenedIsCentred'
<1>1. /\ pc = "outcome" /\ est' = est /\ batch' = batch /\ earned' = earned
      /\ est \in Estimators \ {"gae", "token_gae"}
  BY DEF Outcome, layout, TypeInv, ByWayOfTheCritic
<1>2. LayoutInv
  BY DEF EarnedInv
<1>3. /\ ActionCells(batch)' = ActionCells(batch)
      /\ \A h : Excess(h)' = Excess(h) /\ Size(h)' = Size(h)
  BY <1>1 DEF ActionCells, Real, Excess, Size
<1>4. CASE est = "reinforce_plus_plus"
  <2>1. adv' = PlusPlusAdvantage(batch) /\ ret' = PlusPlusReturns(batch)
    BY <1>4 DEF Outcome
  <2>2. /\ Sum([c \in ActionCells(batch) |-> adv'[c[1]].num[c[2]]], ActionCells(batch)) = 0
        /\ \A c, d \in ActionCells(batch) :
             adv'[c[1]].num[c[2]] - adv'[d[1]].num[d[2]] =
               adv'[c[1]].den * (ret'[c[1]].num[c[2]] - ret'[d[1]].num[d[2]])
    BY <2>1, <1>2, PlusPlusWhitened
  <2> QED
    BY <2>2, <1>1, <1>3, <1>4 DEF WhitenedIsCentred
<1>5. CASE est = "reinforce_plus_plus_baseline"
  <2>1. adv' = BaselineAdvantage(batch)
    BY <1>5 DEF Outcome
  <2>2. pc # "rollout"
    BY <1>1
  <2>3. /\ Sum([c \in ActionCells(batch) |-> adv'[c[1]].num[c[2]]], ActionCells(batch)) = 0
        /\ \A c, d \in ActionCells(batch) :
             LET i == batch[c[1]].traj
                 h == batch[d[1]].traj
             IN Size(i) * Size(h) * (adv'[c[1]].num[c[2]] - adv'[d[1]].num[d[2]]) =
                  adv'[c[1]].den * (Size(h) * Excess(i) - Size(i) * Excess(h))
    BY <2>1, <2>2, BaselineWhitened
  <2> QED
    BY <2>3, <1>1, <1>3, <1>5 DEF WhitenedIsCentred
<1>6. CASE est \notin {"reinforce_plus_plus", "reinforce_plus_plus_baseline"}
  BY <1>1, <1>6 DEF WhitenedIsCentred
<1> QED
  BY <1>4, <1>5, <1>6

\* What WhitenedIsCentred says of the others.
Moved(c, d) == adv[c[1]].num[c[2]] - adv[d[1]].num[d[2]]

WhitenedTokenwise ==
  /\ Sum([c \in ActionCells(batch) |-> adv[c[1]].num[c[2]]], ActionCells(batch)) = 0
  /\ \A c, d \in ActionCells(batch) :
       CASE est = "token_gae" ->
              Moved(c, d) =
                adv[c[1]].den * (TokenAdvantage(c[1], c[2]) - TokenAdvantage(d[1], d[2]))
         [] est = "reinforce_plus_plus" ->
              Moved(c, d) = adv[c[1]].den * (ret[c[1]].num[c[2]] - ret[d[1]].num[d[2]])
         [] est = "reinforce_plus_plus_baseline" ->
              Size(batch[c[1]].traj) * Size(batch[d[1]].traj) * Moved(c, d) =
                adv[c[1]].den * (Size(batch[d[1]].traj) * Excess(batch[c[1]].traj)
                                   - Size(batch[c[1]].traj) * Excess(batch[d[1]].traj))

LEMMA WhitenedHalves ==
  WhitenedIsCentred <=>
    /\ AdvantagesReady /\ est = "gae" => WhitenedStepwise
    /\ AdvantagesReady
         /\ est \in {"token_gae", "reinforce_plus_plus", "reinforce_plus_plus_baseline"} =>
         WhitenedTokenwise
BY DEF WhitenedIsCentred, WhitenedStepwise, WhitenedTokenwise, Moved

Compared == RelativeToItsGroup /\ StepsComparedAtTheirAnchor /\ WhitenedIsCentred

CompareInv ==
  TokenInv /\ EarnedInv /\ TypeInv /\ AdvantageLoop /\ Compared

\* The advantages are not touched between an estimator and the next batch.
LEMMA ComparedKept ==
  ASSUME TypeInv, Compared, UNCHANGED <<est, batch, adv, ret, earned>>,
         \/ pc' \in Early \union {"gae", "token_gae", "outcome"}
         \/ pc \in {"critic", "update_critic"} /\ AdvantagesReady'
         \/ pc' = pc
  PROVE  Compared'
<1>1. /\ Real(batch)' = Real(batch) /\ ActionCells(batch)' = ActionCells(batch)
      /\ \A h : Excess(h)' = Excess(h) /\ Size(h)' = Size(h) /\ Rivals(h)' = Rivals(h)
      /\ \A k : Alike(k)' = Alike(k) /\ Discounted(k)' = Discounted(k)
      /\ \A k : StepAdvantage(k)' = StepAdvantage(k)
      /\ \A k, n : TokenAdvantage(k, n)' = TokenAdvantage(k, n)
  BY DEF Real, ActionCells, Excess, Size, Rivals, Alike, Discounted, Future, StepAdvantage,
         TokenAdvantage
<1>5. ASSUME AdvantagesReady' => AdvantagesReady PROVE WhitenedIsCentred'
  <2>1. WhitenedStepwise' <=> WhitenedStepwise
    BY <1>1 DEF WhitenedStepwise
  <2>2. \A c, d : Moved(c, d)' = Moved(c, d)
    BY DEF Moved
  <2>3. ASSUME est \in {"token_gae", "reinforce_plus_plus", "reinforce_plus_plus_baseline"},
               WhitenedTokenwise
        PROVE  WhitenedTokenwise'
    <3>1. Sum([c \in ActionCells(batch) |-> adv[c[1]].num[c[2]]], ActionCells(batch))' = 0
      BY <1>1, <2>3 DEF WhitenedTokenwise
    <3>2. \A c, d \in ActionCells(batch) :
            /\ est = "token_gae" =>
                 Moved(c, d)' =
                   adv[c[1]].den * (TokenAdvantage(c[1], c[2])' - TokenAdvantage(d[1], d[2])')
            /\ est = "reinforce_plus_plus" =>
                 Moved(c, d)' = adv[c[1]].den * (ret[c[1]].num[c[2]] - ret[d[1]].num[d[2]])
            /\ est = "reinforce_plus_plus_baseline" =>
                 Size(batch[c[1]].traj) * Size(batch[d[1]].traj) * Moved(c, d)' =
                   adv[c[1]].den * (Size(batch[d[1]].traj) * Excess(batch[c[1]].traj)
                                      - Size(batch[c[1]].traj) * Excess(batch[d[1]].traj))
      BY <1>1, <2>2, <2>3 DEF WhitenedTokenwise
    <3>3. \A k : /\ Size(batch[k].traj)' = Size(batch[k].traj)
                 /\ Excess(batch[k].traj)' = Excess(batch[k].traj)
      BY <1>1
    <3>4. /\ est' = est /\ batch' = batch /\ adv' = adv /\ ret' = ret
          /\ ActionCells(batch)' = ActionCells(batch)
      BY <1>1
    <3>5. CASE est = "token_gae"
      BY <3>1, <3>2, <3>4, <3>5 DEF WhitenedTokenwise
    <3>6. CASE est = "reinforce_plus_plus"
      BY <3>1, <3>2, <3>4, <3>6 DEF WhitenedTokenwise
    <3>7. CASE est = "reinforce_plus_plus_baseline"
      BY <3>1, <3>2, <3>3, <3>4, <3>7 DEF WhitenedTokenwise
    <3> QED
      BY <2>3, <3>5, <3>6, <3>7
  <2>4. WhitenedIsCentred' <=>
          /\ AdvantagesReady' /\ est' = "gae" => WhitenedStepwise'
          /\ AdvantagesReady'
               /\ est' \in {"token_gae", "reinforce_plus_plus", "reinforce_plus_plus_baseline"} =>
               WhitenedTokenwise'
    BY DEF WhitenedIsCentred, WhitenedStepwise, WhitenedTokenwise, Moved
  <2> QED
    BY <1>5, <2>1, <2>3, <2>4, WhitenedHalves DEF Compared
<1>2. CASE pc' \in Early \union {"gae", "token_gae", "outcome"}
  BY <1>2 DEF Compared, RelativeToItsGroup, StepsComparedAtTheirAnchor, WhitenedIsCentred,
              AdvantagesReady, Early
<1>3. CASE pc \in {"critic", "update_critic"} /\ AdvantagesReady'
  <2>1. est \in {"gae", "token_gae"} /\ AdvantagesReady
    BY <1>3 DEF TypeInv, ByWayOfTheCritic, AdvantagesReady
  <2>2. RelativeToItsGroup' /\ StepsComparedAtTheirAnchor'
    BY <2>1 DEF RelativeToItsGroup, StepsComparedAtTheirAnchor
  <2>3. WhitenedIsCentred'
    BY <1>5, <2>1
  <2> QED
    BY <2>2, <2>3 DEF Compared
<1>4. CASE pc' = pc
  <2>1. RelativeToItsGroup'
    BY <1>1, <1>4 DEF Compared, RelativeToItsGroup
  <2>2. StepsComparedAtTheirAnchor'
    BY <1>1, <1>4 DEF Compared, StepsComparedAtTheirAnchor
  <2>3. WhitenedIsCentred'
    BY <1>4, <1>5 DEF AdvantagesReady
  <2> QED
    BY <2>1, <2>2, <2>3 DEF Compared
<1> QED
  BY <1>2, <1>3, <1>4

\* Where there are no advantages to compare.
LEMMA ComparedEarly ==
  ASSUME pc' \in Early \union {"gae", "token_gae", "outcome"}
  PROVE  Compared'
BY DEF Compared, RelativeToItsGroup, StepsComparedAtTheirAnchor, WhitenedIsCentred,
       AdvantagesReady, Early

LEMMA ComparedWithCritic ==
  ASSUME pc' = "critic", WhitenedIsCentred'
  PROVE  Compared'
BY DEF Compared, RelativeToItsGroup, StepsComparedAtTheirAnchor

LEMMA CompareNext == CompareInv /\ [Next]_vars => CompareInv'
<1> SUFFICES ASSUME CompareInv, [Next]_vars PROVE CompareInv'
  OBVIOUS
<1>1. TokenInv /\ EarnedInv /\ TypeInv /\ AdvantageLoop /\ Compared
  BY DEF CompareInv
<1>2. TokenInv' /\ EarnedInv'
  BY <1>1, TokenNext, EarnedNext
<1>3. TypeInv'
  BY <1>1, <1>2, TypeNext
<1>4. pc' # "token_gae" => AdvantageLoop'
  BY DEF AdvantageLoop
<1> SUFFICES AdvantageLoop' /\ Compared'
  BY <1>2, <1>3 DEF CompareInv
<1>5. ASSUME NEW score \in Scores, NEW len \in Tokens, NEW isLast \in BOOLEAN,
             CollectStep(score, len, isLast)
      PROVE  AdvantageLoop' /\ Compared'
  <2>1. pc' \in {"rollout", "pad"}
    BY <1>5 DEF CollectStep
  <2> QED
    BY <2>1, <1>4, ComparedEarly DEF Early
<1>6. CASE Pad \/ Balance
  <2>1. pc' \in {"balance", "scale"}
    BY <1>6 DEF Pad, Balance
  <2> QED
    BY <2>1, <1>4, ComparedEarly DEF Early
<1>7. ASSUME NEW factor \in ScaleFactors, Scale(factor)
      PROVE  AdvantageLoop' /\ Compared'
  <2>1. pc' = "advantage"
    BY <1>7 DEF Scale
  <2> QED
    BY <2>1, <1>4, ComparedEarly DEF Early
<1>8. ASSUME NEW e \in Estimators, ComputeAdvantage(e)
      PROVE  AdvantageLoop' /\ Compared'
  <2>1. pc' \in {"gae", "token_gae", "outcome"}
    BY <1>8 DEF ComputeAdvantage
  <2> QED
    BY <2>1, <1>1, <1>8, LoopStarts, ComparedEarly
<1>9. CASE GaeStep
  <2>1. pc' = "gae"
    BY <1>9 DEF GaeStep
  <2> QED
    BY <2>1, <1>4, ComparedEarly
<1>10. CASE TokenStep \/ TokenRound
  <2>1. pc' = "token_gae"
    BY <1>10 DEF TokenStep, TokenRound
  <2> QED
    BY <2>1, <1>1, <1>10, LoopStepKeeps, LoopRoundKeeps, ComparedEarly
<1>11. CASE GaeEnd
  <2>1. pc' = "critic"
    BY <1>11 DEF GaeEnd
  <2> QED
    BY <2>1, <1>1, <1>4, <1>11, GaeEndCentres, ComparedWithCritic
<1>12. CASE TokenGaeEnd
  <2>1. pc' = "critic"
    BY <1>12 DEF TokenGaeEnd
  <2> QED
    BY <2>1, <1>1, <1>4, <1>12, TokenGaeEndCentres, ComparedWithCritic
<1>13. CASE Outcome
  <2>1. pc' = "actor"
    BY <1>13 DEF Outcome
  <2> QED
    BY <2>1, <1>1, <1>4, <1>13, OutcomeRelative, OutcomeGigpo, OutcomeCentres DEF Compared
<1>14. CASE MaskForCritic \/ UpdateCritic
  <2>1. /\ UNCHANGED <<est, batch, adv, ret, earned>>
        /\ pc \in {"critic", "update_critic"} /\ pc' \in {"update_critic", "actor"}
    BY <1>14 DEF MaskForCritic, UpdateCritic, layout
  <2> QED
    BY <2>1, <1>1, <1>4, ComparedKept DEF AdvantagesReady
<1>15. CASE UpdateActor
  <2>1. pc' = "rollout"
    BY <1>15 DEF UpdateActor
  <2> QED
    BY <2>1, <1>4, ComparedEarly DEF Early
<1>16. CASE UNCHANGED vars
  <2>1. UNCHANGED <<pc, est, batch, adv, ret, earned, t, j>>
    BY <1>16 DEF vars, layout, loop
  <2>2. AdvantageLoop'
    BY <2>1, <1>1 DEF AdvantageLoop, Seen, TokenAdvantage, Real
  <2> QED
    BY <2>1, <2>2, <1>1, ComparedKept
<1> QED
  BY <1>5, <1>6, <1>7, <1>8, <1>9, <1>10, <1>11, <1>12, <1>13, <1>14, <1>15, <1>16 DEF Next

LEMMA CompareAlways == Spec => []CompareInv
<1>1. Init => CompareInv
  <2> SUFFICES ASSUME Init PROVE CompareInv
    OBVIOUS
  <2>1. TokenInv /\ TypeInv /\ EarnedInv
    BY TokenInit, TypeInit, LayoutInit, EarnedFresh DEF EarnedInv
  <2>2. pc = "rollout"
    BY DEF Init
  <2>3. AdvantageLoop /\ Compared
    BY <2>2 DEF AdvantageLoop, Compared, RelativeToItsGroup, StepsComparedAtTheirAnchor,
                WhitenedIsCentred, AdvantagesReady
  <2> QED
    BY <2>1, <2>3 DEF CompareInv
<1> QED
  BY <1>1, CompareNext, PTL DEF Spec

\* Every variable keeps its type, and what compute_advantage writes has one cell
\* for each row of the batch, whichever estimator wrote it.
THEOREM TypeCorrect == Spec => []TypeOK
<1>1. CompareInv => TypeOK
  BY TypesSuffice DEF CompareInv
<1> QED
  BY <1>1, CompareAlways, PTL

\* compute_grpo_outcome_advantage and compute_rloo_outcome_advantage give all
\* tokens of a trajectory its score less that of its group, or of the others in
\* it, whatever padding, balancing and scaling did to the rows.
THEOREM OutcomesAreRelative == Spec => []RelativeToItsGroup
<1>1. CompareInv => RelativeToItsGroup
  BY DEF CompareInv, Compared
<1> QED
  BY <1>1, CompareAlways, PTL

\* compute_gigpo_outcome_advantage credits a step with what its trajectory earned
\* from it on, compared with the steps that start from the same observation.
THEOREM StepsAreComparedAtTheirAnchor == Spec => []StepsComparedAtTheirAnchor
<1>1. CompareInv => StepsComparedAtTheirAnchor
  BY DEF CompareInv, Compared
<1> QED
  BY <1>1, CompareAlways, PTL

\* The two GAE estimators and the two REINFORCE++ estimators move all advantages
\* of a batch by one mean, which the padding has no part in.
THEOREM WhiteningCentres == Spec => []WhitenedIsCentred
<1>1. CompareInv => WhitenedIsCentred
  BY DEF CompareInv, Compared
<1> QED
  BY <1>1, CompareAlways, PTL
=============================================================================
