-------------------------- MODULE HttpRetry_proofs --------------------------
(***************************************************************************)
(* Proofs about HttpRetry: permits are conserved and handed on, a call     *)
(* gives up after exactly MaxRetries + 1 requests, and nobody waits for    *)
(* everybody, for any number of calls and permits.                         *)
(***************************************************************************)
EXTENDS HttpRetry, Sums_proofs

\* How many requests a call has sent, by where it is.
SentMatchesAttempt ==
  \A r \in Requests :
    /\ phase[r] = "idle" => attempt[r] = 0 /\ sent[r] = 0
    /\ phase[r] = "queued" => sent[r] = attempt[r]
    /\ phase[r] \in {"inflight", "backoff", "done"} => sent[r] = attempt[r] + 1
    /\ phase[r] = "backoff" => attempt[r] < MaxRetries
    /\ result[r] \in {"bad", "error"} => phase[r] = "done" /\ attempt[r] = MaxRetries

IInv ==
  /\ TypeOK
  /\ PermitsConserved
  /\ NoIdlePermit
  /\ SentMatchesAttempt

\* Every action is one of two moves of one call, to and from the semaphore.
Enter(r) == phase[r] \in {"idle", "backoff"} /\ Acquire(r)

Leave(r, next) == phase[r] = "inflight" /\ Release(r, next)

-----------------------------------------------------------------------------
LEMMA IInvInit == Init => IInv
<1> SUFFICES ASSUME Init PROVE IInv
  OBVIOUS
<1> USE DEF Init
<1>1. TypeOK
  BY PermitsAssumption, RetriesAssumption DEF TypeOK, Phases, Results
<1>2. InFlight = {} /\ Queued = {}
  BY DEF InFlight, Queued
<1>3. PermitsConserved
  BY <1>2, FS_EmptySet, PermitsAssumption DEF PermitsConserved
<1>4. NoIdlePermit
  BY <1>2 DEF NoIdlePermit
<1>5. SentMatchesAttempt
  BY DEF SentMatchesAttempt
<1> QED
  BY <1>1, <1>3, <1>4, <1>5 DEF IInv

LEMMA InFlightFinite == IsFiniteSet(InFlight)
  BY RequestsAssumption, FS_Subset DEF InFlight

\* A call that enters either takes a permit or queues behind the calls that
\* wait already, with no permit left.
LEMMA EnterKeeps ==
  ASSUME TypeOK, PermitsConserved, NoIdlePermit, NEW r \in Requests, Enter(r)
  PROVE  PermitsConserved' /\ NoIdlePermit' /\ (free \in 0..Permits)' /\ (waiters \in Seq(Requests))'
<1> USE DEF TypeOK
<1>1. CASE free > 0 /\ waiters = <<>>
  <2>1. /\ free' = free - 1
        /\ phase' = [phase EXCEPT ![r] = "inflight"]
        /\ waiters' = waiters
    BY <1>1 DEF Enter, Acquire
  <2>2. InFlight' = InFlight \union {r} /\ r \notin InFlight /\ Queued' = Queued
    BY <2>1 DEF InFlight, Queued, Enter
  <2>3. Cardinality(InFlight') = Cardinality(InFlight) + 1
    BY <2>2, InFlightFinite, FS_AddElement
  <2>4. Cardinality(InFlight) \in Nat
    BY InFlightFinite, FS_CardinalityType
  <2>5. PermitsConserved'
    BY <1>1, <2>1, <2>3, <2>4, PermitsAssumption DEF PermitsConserved
  <2>6. NoIdlePermit'
    BY <1>1, <2>1, <2>2 DEF NoIdlePermit
  <2>7. free' \in 0..Permits
    BY <1>1, <2>1, PermitsAssumption
  <2> QED
    BY <2>1, <2>5, <2>6, <2>7
<1>2. CASE ~(free > 0 /\ waiters = <<>>)
  <2>1. /\ UNCHANGED free
        /\ phase' = [phase EXCEPT ![r] = "queued"]
        /\ waiters' = Append(waiters, r)
    BY <1>2 DEF Enter, Acquire
  <2>2. InFlight' = InFlight /\ Queued' = Queued \union {r} /\ r \notin Queued
    BY <2>1 DEF InFlight, Queued, Enter
  <2>3. PermitsConserved'
    BY <2>1, <2>2 DEF PermitsConserved
  <2>4. free = 0
    <3>1. waiters # <<>> => free = 0
      BY DEF NoIdlePermit
    <3> QED
      BY <1>2, <3>1, PermitsAssumption
  <2>5. /\ waiters' \in Seq(Requests)
        /\ Len(waiters') = Len(waiters) + 1
        /\ \A i \in 1..Len(waiters) : waiters'[i] = waiters[i]
        /\ waiters'[Len(waiters) + 1] = r
        /\ DOMAIN waiters' = 1..Len(waiters) + 1 /\ DOMAIN waiters = 1..Len(waiters)
        /\ Len(waiters) \in Nat
    BY <2>1
  <2>6. \A i \in 1..Len(waiters) + 1 : i \in 1..Len(waiters) \/ i = Len(waiters) + 1
    BY <2>5
  <2>7. Queued' = {waiters'[i] : i \in DOMAIN waiters'}
    <3> DEFINE n == Len(waiters)
    <3>1. Queued = {waiters[i] : i \in 1..n}
      BY <2>5 DEF NoIdlePermit
    <3>2. n + 1 \in 1..n + 1 /\ \A i \in 1..n : i \in 1..n + 1
      BY <2>5
    <3>3. \A q \in Queued' : \E i \in 1..n + 1 : waiters'[i] = q
      BY <2>2, <2>5, <3>1, <3>2
    <3>4. \A i \in 1..n + 1 : waiters'[i] \in Queued'
      BY <2>2, <2>5, <2>6, <3>1
    <3> HIDE DEF n
    <3> QED
      BY <2>5, <3>3, <3>4 DEF n
  <2>8. ASSUME NEW i \in DOMAIN waiters', NEW j \in DOMAIN waiters', waiters'[i] = waiters'[j]
        PROVE  i = j
    <3>1. \A k \in 1..Len(waiters) : waiters[k] # r
      BY <2>2, <2>5 DEF NoIdlePermit
    <3> QED
      BY <2>5, <2>6, <2>8, <3>1 DEF NoIdlePermit
  <2>9. NoIdlePermit'
    BY <2>1, <2>4, <2>7, <2>8 DEF NoIdlePermit
  <2> QED
    BY <2>1, <2>3, <2>5, <2>9
<1> QED
  BY <1>1, <1>2

\* A call that leaves hands its permit to the first waiter, or back.
LEMMA LeaveKeeps ==
  ASSUME TypeOK, PermitsConserved, NoIdlePermit,
         NEW r \in Requests, NEW next \in {"backoff", "done"}, Leave(r, next)
  PROVE  PermitsConserved' /\ NoIdlePermit' /\ (free \in 0..Permits)' /\ (waiters \in Seq(Requests))'
<1> USE DEF TypeOK
<1>r. r \in InFlight /\ Cardinality(InFlight) \in Nat
  BY InFlightFinite, FS_CardinalityType DEF Leave, InFlight
<1>a. Cardinality(InFlight \ {r}) = Cardinality(InFlight) - 1 /\ IsFiniteSet(InFlight \ {r})
  BY <1>r, InFlightFinite, FS_RemoveElement
<1>b. Cardinality(InFlight \ {r}) \in Nat
  BY <1>a, FS_CardinalityType
<1>1. CASE waiters = <<>>
  <2>1. /\ free' = free + 1
        /\ phase' = [phase EXCEPT ![r] = next]
        /\ waiters' = waiters
    BY <1>1 DEF Leave, Release
  <2>2. InFlight' = InFlight \ {r} /\ Queued' = Queued
    BY <2>1 DEF InFlight, Queued, Leave
  <2>3. PermitsConserved' /\ free' \in 0..Permits
    BY <1>a, <1>b, <1>r, <2>1, <2>2, PermitsAssumption DEF PermitsConserved
  <2>4. NoIdlePermit'
    BY <1>1, <2>1, <2>2 DEF NoIdlePermit
  <2> QED
    BY <2>1, <2>3, <2>4
<1>2. CASE waiters # <<>>
  <2> DEFINE h == Head(waiters)
             n == Len(waiters)
  <2>1. /\ UNCHANGED free
        /\ phase' = [phase EXCEPT ![r] = next, ![h] = "inflight"]
        /\ waiters' = Tail(waiters)
    BY <1>2 DEF Leave, Release
  <2>2. /\ n \in Nat \ {0} /\ DOMAIN waiters = 1..n
        /\ h = waiters[1] /\ h \in Requests
        /\ waiters' \in Seq(Requests) /\ DOMAIN waiters' = 1..n - 1
        /\ \A i \in 1..n - 1 : waiters'[i] = waiters[i + 1]
    BY <1>2, <2>1
  <2> HIDE DEF h, n
  <2>3. h \in Queued
    BY <2>2 DEF NoIdlePermit
  <2>4. h # r /\ h \notin InFlight
    BY <2>3, <1>r DEF Queued, InFlight
  <2>5. InFlight' = (InFlight \ {r}) \union {h} /\ Queued' = Queued \ {h}
    BY <2>1, <2>2, <2>4, <1>r DEF InFlight, Queued
  <2>6. Cardinality(InFlight') = Cardinality(InFlight)
    <3>1. Cardinality((InFlight \ {r}) \union {h}) = Cardinality(InFlight \ {r}) + 1
      BY <1>a, <2>4, FS_AddElement
    <3> QED
      BY <1>a, <1>r, <2>5, <3>1
  <2>7. PermitsConserved'
    BY <2>1, <2>6 DEF PermitsConserved
  <2>8. \A i, j \in 1..n : waiters[i] = waiters[j] => i = j
    BY <2>2 DEF NoIdlePermit
  <2>9. Queued' = {waiters'[i] : i \in DOMAIN waiters'}
    <3>1. \A q \in Queued' : \E i \in 1..n - 1 : waiters'[i] = q
      <4> SUFFICES ASSUME NEW q \in Queued' PROVE \E i \in 1..n - 1 : waiters'[i] = q
        OBVIOUS
      <4>1. PICK j \in 1..n : waiters[j] = q
        BY <2>2, <2>5 DEF NoIdlePermit
      <4>2. j # 1
        BY <2>2, <2>5, <4>1
      <4>3. j - 1 \in 1..n - 1 /\ (j - 1) + 1 = j
        BY <2>2, <4>2
      <4> QED
        BY <2>2, <4>1, <4>3
    <3>2. \A i \in 1..n - 1 : waiters'[i] \in Queued'
      <4> SUFFICES ASSUME NEW i \in 1..n - 1 PROVE waiters[i + 1] \in Queued /\ waiters[i + 1] # h
        BY <2>2, <2>5
      <4>1. i + 1 \in 1..n /\ i + 1 # 1 /\ 1 \in 1..n
        BY <2>2
      <4>2. waiters[i + 1] \in Queued
        BY <2>2, <4>1 DEF NoIdlePermit
      <4> QED
        BY <2>2, <2>8, <4>1, <4>2
    <3> QED
      BY <2>2, <3>1, <3>2
  <2>10. ASSUME NEW i \in 1..n - 1, NEW j \in 1..n - 1, waiters'[i] = waiters'[j]
         PROVE  i = j
    <3>1. i + 1 \in 1..n /\ j + 1 \in 1..n
      BY <2>2
    <3>2. waiters[i + 1] = waiters[j + 1]
      BY <2>2, <2>10
    <3>3. i + 1 = j + 1
      BY <2>8, <3>1, <3>2
    <3> QED
      BY <3>3
  <2>11. free' = 0
    BY <1>2, <2>1 DEF NoIdlePermit
  <2>12. NoIdlePermit'
    BY <2>2, <2>9, <2>10, <2>11 DEF NoIdlePermit
  <2> QED
    BY <2>1, <2>2, <2>7, <2>12
<1> QED
  BY <1>1, <1>2

-----------------------------------------------------------------------------
(***************************************************************************)
(* Every step is such a move, together with the counting of tries.         *)
(***************************************************************************)
\* The actions of one call, sorted by their move.
LEMMA Moves ==
  ASSUME NEW r \in Requests, Call(r) \/ Respond(r) \/ Wake(r)
  PROVE  Enter(r) \/ \E next \in {"backoff", "done"} : Leave(r, next)
  BY DEF Call, Respond, Wake, Succeeds, RefusedByServer, Fails, Raises, BackOff, Finish, Enter, Leave

LEMMA SemaphoreNext ==
  IInv /\ [Next]_vars =>
    PermitsConserved' /\ NoIdlePermit' /\ (free \in 0..Permits)' /\ (waiters \in Seq(Requests))'
<1> SUFFICES ASSUME IInv, [Next]_vars
             PROVE  /\ PermitsConserved' /\ NoIdlePermit'
                    /\ (free \in 0..Permits)' /\ (waiters \in Seq(Requests))'
  OBVIOUS
<1>i. TypeOK /\ PermitsConserved /\ NoIdlePermit
  BY DEF IInv
<1>1. ASSUME NEW r \in Requests, Call(r) \/ Respond(r) \/ Wake(r)
      PROVE  /\ PermitsConserved' /\ NoIdlePermit'
             /\ (free \in 0..Permits)' /\ (waiters \in Seq(Requests))'
  BY <1>1, <1>i, Moves, EnterKeeps, LeaveKeeps
<1>2. CASE UNCHANGED vars
  BY <1>2, <1>i DEF vars, PermitsConserved, NoIdlePermit, InFlight, Queued, TypeOK
<1> QED
  BY <1>1, <1>2 DEF Next, Done

\* What the two moves do to the calls: the one that moves, and a first waiter.
LEMMA EnterCounts ==
  ASSUME TypeOK, SentMatchesAttempt, NEW r \in Requests, Enter(r),
         NEW a \in 0..MaxRetries, a = sent[r]
  PROVE  /\ phase' \in [Requests -> Phases] /\ sent' \in [Requests -> Nat]
         /\ \A q \in Requests \ {r} : phase'[q] = phase[q] /\ sent'[q] = sent[q]
         /\ \/ phase'[r] = "inflight" /\ sent'[r] = a + 1
            \/ phase'[r] = "queued" /\ sent'[r] = a
<1>1. CASE free > 0 /\ waiters = <<>>
  <2>1. phase' = [phase EXCEPT ![r] = "inflight"] /\ sent' = [sent EXCEPT ![r] = sent[r] + 1]
    BY <1>1 DEF Enter, Acquire
  <2> QED
    BY <2>1 DEF TypeOK, Phases
<1>2. CASE ~(free > 0 /\ waiters = <<>>)
  <2>1. phase' = [phase EXCEPT ![r] = "queued"] /\ sent' = sent
    BY <1>2 DEF Enter, Acquire
  <2> QED
    BY <2>1 DEF TypeOK, Phases
<1> QED
  BY <1>1, <1>2

LEMMA LeaveCounts ==
  ASSUME TypeOK, NoIdlePermit, NEW r \in Requests, NEW next \in {"backoff", "done"}, Leave(r, next)
  PROVE  /\ phase' \in [Requests -> Phases] /\ sent' \in [Requests -> Nat]
         /\ phase'[r] = next /\ sent'[r] = sent[r]
         /\ \A q \in Requests \ {r} :
              \/ phase'[q] = phase[q] /\ sent'[q] = sent[q]
              \/ phase[q] = "queued" /\ phase'[q] = "inflight" /\ sent'[q] = sent[q] + 1
<1>1. CASE waiters = <<>>
  <2>1. phase' = [phase EXCEPT ![r] = next] /\ sent' = sent
    BY <1>1 DEF Leave, Release
  <2> QED
    BY <2>1 DEF TypeOK, Phases
<1>2. CASE waiters # <<>>
  <2> DEFINE h == Head(waiters)
  <2>1. 1 \in DOMAIN waiters /\ h = waiters[1] /\ h \in Requests
    BY <1>2 DEF TypeOK
  <2>2. phase[h] = "queued"
    BY <2>1 DEF NoIdlePermit, Queued
  <2>3. /\ phase' = [phase EXCEPT ![r] = next, ![h] = "inflight"]
        /\ sent' = [sent EXCEPT ![h] = sent[h] + 1]
        /\ phase[r] = "inflight"
    BY <1>2 DEF Leave, Release
  <2> HIDE DEF h
  <2>4. h # r
    BY <2>2, <2>3
  <2>5. phase' \in [Requests -> Phases] /\ sent' \in [Requests -> Nat]
    <3>1. next \in Phases /\ "inflight" \in Phases
      BY DEF Phases
    <3>2. phase' \in [Requests -> Phases]
      BY <2>1, <2>3, <3>1 DEF TypeOK
    <3>3. sent[h] + 1 \in Nat
      BY <2>1 DEF TypeOK
    <3>4. sent' \in [Requests -> Nat]
      BY <2>3, <3>3 DEF TypeOK
    <3> QED
      BY <3>2, <3>4
  <2>6. phase'[r] = next /\ sent'[r] = sent[r] /\ phase'[h] = "inflight" /\ sent'[h] = sent[h] + 1
    BY <2>1, <2>3, <2>4 DEF TypeOK
  <2>7. \A q \in Requests \ {r, h} : phase'[q] = phase[q] /\ sent'[q] = sent[q]
    BY <2>1, <2>3 DEF TypeOK
  <2> QED
    BY <2>2, <2>5, <2>6, <2>7
<1> QED
  BY <1>1, <1>2

\* The loop variable and the result change with the move that the code ties
\* them to.
LEMMA CallsNext ==
  IInv /\ [Next]_vars =>
    /\ SentMatchesAttempt'
    /\ phase' \in [Requests -> Phases] /\ sent' \in [Requests -> Nat]
    /\ attempt' \in [Requests -> 0..MaxRetries] /\ result' \in [Requests -> Results]
<1> DEFINE Goal == /\ SentMatchesAttempt'
                   /\ phase' \in [Requests -> Phases] /\ sent' \in [Requests -> Nat]
                   /\ attempt' \in [Requests -> 0..MaxRetries] /\ result' \in [Requests -> Results]
<1> SUFFICES ASSUME IInv, [Next]_vars PROVE Goal
  OBVIOUS
<1>i. TypeOK /\ NoIdlePermit /\ SentMatchesAttempt
  BY DEF IInv
<1>t. /\ attempt \in [Requests -> 0..MaxRetries] /\ result \in [Requests -> Results]
      /\ phase \in [Requests -> Phases] /\ sent \in [Requests -> Nat]
  BY <1>i DEF TypeOK
<1>1. ASSUME NEW r \in Requests, Call(r) PROVE Goal
  <2>1. Enter(r) /\ UNCHANGED <<attempt, result>> /\ attempt[r] = 0 /\ sent[r] = 0
    BY <1>1, <1>i DEF Call, Enter, SentMatchesAttempt
  <2>2. result[r] \notin {"bad", "error"}
    BY <1>1, <1>i DEF Call, SentMatchesAttempt
  <2>3. 0 \in 0..MaxRetries
    BY RetriesAssumption
  <2>4. /\ phase' \in [Requests -> Phases] /\ sent' \in [Requests -> Nat]
        /\ \A q \in Requests \ {r} : phase'[q] = phase[q] /\ sent'[q] = sent[q]
        /\ \/ phase'[r] = "inflight" /\ sent'[r] = 0 + 1
           \/ phase'[r] = "queued" /\ sent'[r] = 0
    BY <1>i, <2>1, <2>3, EnterCounts
  <2> QED
    BY <1>i, <1>t, <2>1, <2>2, <2>4 DEF SentMatchesAttempt
<1>2. ASSUME NEW r \in Requests, Wake(r) PROVE Goal
  <2>1. /\ Enter(r) /\ UNCHANGED result
        /\ attempt' = [attempt EXCEPT ![r] = attempt[r] + 1]
        /\ phase[r] = "backoff"
    BY <1>2 DEF Wake, Enter
  <2>2. /\ result[r] \notin {"bad", "error"}
        /\ sent[r] = attempt[r] + 1 /\ attempt[r] < MaxRetries
    BY <1>i, <2>1 DEF SentMatchesAttempt
  <2>3. attempt[r] + 1 \in 0..MaxRetries
    BY <1>t, <2>2, RetriesAssumption
  <2>4. /\ attempt' \in [Requests -> 0..MaxRetries]
        /\ attempt'[r] = attempt[r] + 1
        /\ \A q \in Requests \ {r} : attempt'[q] = attempt[q]
    BY <1>t, <2>1, <2>3
  <2>5. /\ phase' \in [Requests -> Phases] /\ sent' \in [Requests -> Nat]
        /\ \A q \in Requests \ {r} : phase'[q] = phase[q] /\ sent'[q] = sent[q]
        /\ \/ phase'[r] = "inflight" /\ sent'[r] = attempt'[r] + 1
           \/ phase'[r] = "queued" /\ sent'[r] = attempt'[r]
    BY <1>i, <2>1, <2>2, <2>3, <2>4, EnterCounts
  <2> QED
    BY <1>i, <1>t, <2>1, <2>2, <2>4, <2>5 DEF SentMatchesAttempt
<1>3. ASSUME NEW r \in Requests, BackOff(r) PROVE Goal
  <2>1. Leave(r, "backoff") /\ UNCHANGED <<attempt, result>> /\ attempt[r] < MaxRetries /\ phase[r] = "inflight"
    BY <1>3 DEF BackOff, Leave, MayRetry
  <2>2. /\ phase' \in [Requests -> Phases] /\ sent' \in [Requests -> Nat]
        /\ phase'[r] = "backoff" /\ sent'[r] = sent[r]
        /\ \A q \in Requests \ {r} :
             \/ phase'[q] = phase[q] /\ sent'[q] = sent[q]
             \/ phase[q] = "queued" /\ phase'[q] = "inflight" /\ sent'[q] = sent[q] + 1
    BY <1>i, <2>1, LeaveCounts
  <2> QED
    BY <1>i, <1>t, <2>1, <2>2 DEF SentMatchesAttempt
<1>4. ASSUME NEW r \in Requests, NEW outcome \in Results, Finish(r, outcome),
             outcome \in {"bad", "error"} => ~MayRetry(r)
      PROVE  Goal
  <2>1. /\ Leave(r, "done") /\ UNCHANGED attempt /\ phase[r] = "inflight"
        /\ result' = [result EXCEPT ![r] = outcome]
    BY <1>4 DEF Finish, Leave
  <2>2. /\ phase' \in [Requests -> Phases] /\ sent' \in [Requests -> Nat]
        /\ phase'[r] = "done" /\ sent'[r] = sent[r]
        /\ \A q \in Requests \ {r} :
             \/ phase'[q] = phase[q] /\ sent'[q] = sent[q]
             \/ phase[q] = "queued" /\ phase'[q] = "inflight" /\ sent'[q] = sent[q] + 1
    BY <1>i, <2>1, LeaveCounts
  <2>3. /\ result' \in [Requests -> Results] /\ result'[r] = outcome
        /\ \A q \in Requests \ {r} : result'[q] = result[q]
    BY <1>t, <2>1
  <2>4. outcome \in {"bad", "error"} => attempt[r] = MaxRetries
    BY <1>4, <1>t, RetriesAssumption DEF MayRetry
  <2> QED
    BY <1>i, <1>t, <2>1, <2>2, <2>3, <2>4 DEF SentMatchesAttempt
<1>5. ASSUME NEW r \in Requests, Respond(r) PROVE Goal
  BY <1>3, <1>4, <1>5 DEF Respond, Succeeds, RefusedByServer, Fails, Raises, Results
<1>6. CASE UNCHANGED vars
  BY <1>6, <1>i, <1>t DEF vars, SentMatchesAttempt
<1> QED
  BY <1>1, <1>2, <1>5, <1>6 DEF Next, Done

-----------------------------------------------------------------------------
LEMMA Invariance == Spec => []IInv
<1>1. IInv /\ [Next]_vars => IInv'
  <2> SUFFICES ASSUME IInv, [Next]_vars PROVE IInv'
    OBVIOUS
  <2>1. TypeOK'
    BY SemaphoreNext, CallsNext DEF TypeOK
  <2> QED
    BY <2>1, SemaphoreNext, CallsNext DEF IInv
<1> QED
  BY <1>1, IInvInit, PTL DEF Spec

\* However calls retry, fail and hand permits on, as many permits are free or on
\* the wire as the semaphore was made with.
THEOREM PermitBalance == Spec => []PermitsConserved
<1>1. IInv => PermitsConserved
  BY DEF IInv
<1> QED
  BY <1>1, Invariance, PTL

\* No permit is free while a call waits, and the queue holds each waiting call
\* once.
THEOREM PermitsAreHandedOn == Spec => []NoIdlePermit
<1>1. IInv => NoIdlePermit
  BY DEF IInv
<1> QED
  BY <1>1, Invariance, PTL

\* A call gives up after exactly MaxRetries + 1 requests.
THEOREM ExactlyAllTries == Spec => []GivesUpOnlyWhenExhausted
<1>1. IInv => GivesUpOnlyWhenExhausted
  <2> SUFFICES ASSUME IInv, NEW r \in Requests
               PROVE  /\ sent[r] <= MaxRetries + 1
                      /\ result[r] \in {"bad", "error"} => sent[r] = MaxRetries + 1
    BY DEF GivesUpOnlyWhenExhausted
  <2>1. phase[r] \in Phases /\ attempt[r] \in 0..MaxRetries
    BY DEF IInv, TypeOK
  <2>2. sent[r] = 0 \/ sent[r] = attempt[r] \/ sent[r] = attempt[r] + 1
    BY <2>1 DEF IInv, SentMatchesAttempt, Phases
  <2>3. result[r] \in {"bad", "error"} => sent[r] = MaxRetries + 1
    BY DEF IInv, SentMatchesAttempt
  <2> QED
    BY <2>1, <2>2, <2>3, RetriesAssumption
<1> QED
  BY <1>1, Invariance, PTL

\* However calls and permits interleave, every call and the semaphore keep their types.
THEOREM TypeCorrect == Spec => []TypeOK
<1>1. IInv => TypeOK
  BY DEF IInv
<1> QED
  BY <1>1, Invariance, PTL

-----------------------------------------------------------------------------
(***************************************************************************)
(* Progress: what EveryCallEnds needs besides the fairness.                *)
(***************************************************************************)
\* Nobody waits for everybody: a call that waits for a permit waits for one whose
\* request is on the wire, and never only for calls that sleep, wait or have ended.
THEOREM WaitsForAnAnswer ==
  Spec => [](\A r \in Requests : phase[r] = "queued" =>
               \E q \in Requests : phase[q] = "inflight")
<1>1. ASSUME IInv, NEW r \in Requests, phase[r] = "queued"
      PROVE  \E q \in Requests : phase[q] = "inflight"
  <2>1. r \in Queued
    BY <1>1 DEF Queued
  <2>2. waiters # <<>>
    BY <1>1, <2>1 DEF IInv, NoIdlePermit
  <2>3. free = 0 /\ free + Cardinality(InFlight) = Permits
    BY <1>1, <2>2 DEF IInv, NoIdlePermit, PermitsConserved
  <2>4. Cardinality(InFlight) \in Nat
    BY InFlightFinite, FS_CardinalityType
  <2>5. Cardinality(InFlight) # 0
    BY <2>3, <2>4, PermitsAssumption
  <2>6. InFlight # {}
    BY <2>5, FS_EmptySet
  <2> QED
    BY <2>6 DEF InFlight
<1>2. IInv => \A r \in Requests : phase[r] = "queued" =>
                \E q \in Requests : phase[q] = "inflight"
  BY <1>1
<1> QED
  BY <1>2, Invariance, PTL

\* The moves a call still has: three of each try that is left, and those of the try
\* it is in.
MovesLeft ==
  [r \in Requests |->
     CASE phase[r] = "idle"     -> 3 * (MaxRetries - attempt[r]) + 3
       [] phase[r] = "queued"   -> 3 * (MaxRetries - attempt[r]) + 2
       [] phase[r] = "inflight" -> 3 * (MaxRetries - attempt[r]) + 1
       [] phase[r] = "backoff"  -> 3 * (MaxRetries - attempt[r])
       [] OTHER                 -> 0]

AllMovesLeft == Sum(MovesLeft, Requests)

AllMoves == Cardinality(Requests) * (3 * MaxRetries + 3)

LEMMA MovesTyped ==
  ASSUME TypeOK
  PROVE  \A r \in Requests : MovesLeft[r] \in 0..3 * MaxRetries + 3
<1> SUFFICES ASSUME NEW r \in Requests PROVE MovesLeft[r] \in 0..3 * MaxRetries + 3
  OBVIOUS
<1>1. PICK a \in 0..MaxRetries : a = attempt[r]
  BY DEF TypeOK
<1>2. MaxRetries \in Nat
  BY RetriesAssumption
<1> QED
  BY <1>1, <1>2 DEF MovesLeft

LEMMA MovesBounded ==
  ASSUME TypeOK
  PROVE  AllMovesLeft \in 0..AllMoves
<1> DEFINE full == [r \in Requests |-> 3 * MaxRetries + 3]
<1>1. PICK m \in Nat : m = 3 * MaxRetries + 3
  BY RetriesAssumption
<1>2. \A r \in Requests : full[r] = m /\ MovesLeft[r] \in Nat /\ MovesLeft[r] <= full[r]
  BY <1>1, MovesTyped
<1> HIDE DEF full
<1>3. Sum(full, Requests) = Cardinality(Requests) * m
  BY <1>1, <1>2, RequestsAssumption, SumConstant
<1>4. Sum(MovesLeft, Requests) \in Nat
  BY <1>2, RequestsAssumption, SumNat
<1>5. Sum(MovesLeft, Requests) <= Sum(full, Requests)
  <2>1. \A r \in Requests : MovesLeft[r] \in Int /\ full[r] \in Int /\ MovesLeft[r] <= full[r]
    BY <1>1, <1>2
  <2> QED
    BY <2>1, RequestsAssumption, SumMonotonic
<1>6. PICK c \in Nat : c = Cardinality(Requests) * m
  <2>1. Cardinality(Requests) \in Nat
    BY RequestsAssumption, FS_CardinalityType
  <2> QED
    BY <2>1
<1>7. PICK left \in Nat : left = Sum(MovesLeft, Requests)
  BY <1>4
<1> QED
  BY <1>1, <1>3, <1>5, <1>6, <1>7 DEF AllMovesLeft, AllMoves

\* A move of call r is one less of r, and one less of the waiter it may wake.
LEMMA MovesAreUsedUp ==
  ASSUME IInv, NEW r \in Requests, Call(r) \/ Respond(r) \/ Wake(r)
  PROVE  AllMovesLeft' < AllMovesLeft
<1>1. /\ phase \in [Requests -> Phases] /\ attempt \in [Requests -> 0..MaxRetries]
      /\ TypeOK /\ NoIdlePermit /\ SentMatchesAttempt /\ MaxRetries \in Nat
  BY RetriesAssumption DEF IInv, TypeOK
<1>2. \A q \in Requests \ {r} : attempt'[q] = attempt[q]
  BY <1>1 DEF Call, Respond, Wake, Succeeds, RefusedByServer, Fails, Raises, BackOff, Finish
<1>3. /\ \A q \in Requests \ {r} :
           \/ phase'[q] = phase[q]
           \/ phase[q] = "queued" /\ phase'[q] = "inflight"
      /\ \/ /\ phase[r] = "idle" /\ attempt'[r] = attempt[r]
            /\ phase'[r] \in {"queued", "inflight"}
         \/ /\ phase[r] = "inflight" /\ attempt'[r] = attempt[r]
            /\ phase'[r] \in {"backoff", "done"}
         \/ /\ phase[r] = "backoff" /\ attempt'[r] = attempt[r] + 1
            /\ phase'[r] \in {"queued", "inflight"}
  <2>1. CASE Call(r)
    BY <2>1, <1>1 DEF Call, Acquire
  <2>2. CASE Wake(r)
    BY <2>2, <1>1 DEF Wake, Acquire
  <2>3. CASE Respond(r)
    <3>1. attempt' = attempt
      BY <2>3 DEF Respond, Succeeds, RefusedByServer, Fails, Raises, BackOff, Finish
    <3>2. PICK next \in {"backoff", "done"} : Leave(r, next)
      BY <2>3 DEF Respond, Succeeds, RefusedByServer, Fails, Raises, BackOff, Finish, Leave
    <3>3. /\ phase'[r] = next
          /\ \A q \in Requests \ {r} :
               \/ phase'[q] = phase[q]
               \/ phase[q] = "queued" /\ phase'[q] = "inflight"
      BY <1>1, <3>2, LeaveCounts
    <3> QED
      BY <3>1, <3>2, <3>3 DEF Leave
  <2> QED
    BY <2>1, <2>2, <2>3
<1>4. \A q \in Requests : MovesLeft[q] \in Int
  BY <1>1, MovesTyped
<1>5. MovesLeft'[r] \in Int /\ MovesLeft'[r] < MovesLeft[r]
  <2>1. PICK a \in 0..MaxRetries : a = attempt[r]
    BY <1>1
  <2>2. phase[r] = "backoff" => a < MaxRetries
    BY <1>1, <2>1 DEF SentMatchesAttempt
  <2>3. MovesLeft'[r] = CASE phase'[r] = "idle"     -> 3 * (MaxRetries - attempt'[r]) + 3
                          [] phase'[r] = "queued"   -> 3 * (MaxRetries - attempt'[r]) + 2
                          [] phase'[r] = "inflight" -> 3 * (MaxRetries - attempt'[r]) + 1
                          [] phase'[r] = "backoff"  -> 3 * (MaxRetries - attempt'[r])
                          [] OTHER                 -> 0
    BY DEF MovesLeft
  <2>4. MovesLeft[r] = CASE phase[r] = "idle"     -> 3 * (MaxRetries - a) + 3
                         [] phase[r] = "queued"   -> 3 * (MaxRetries - a) + 2
                         [] phase[r] = "inflight" -> 3 * (MaxRetries - a) + 1
                         [] phase[r] = "backoff"  -> 3 * (MaxRetries - a)
                         [] OTHER                 -> 0
    BY <2>1 DEF MovesLeft
  <2>5. CASE phase[r] = "idle"
    BY <2>1, <2>3, <2>4, <2>5, <1>1, <1>3
  <2>6. CASE phase[r] = "inflight"
    BY <2>1, <2>3, <2>4, <2>6, <1>1, <1>3
  <2>7. CASE phase[r] = "backoff"
    BY <2>1, <2>2, <2>3, <2>4, <2>7, <1>1, <1>3
  <2> QED
    BY <2>5, <2>6, <2>7, <1>3
<1>6. ASSUME NEW q \in Requests \ {r}
      PROVE  MovesLeft'[q] \in Int /\ MovesLeft'[q] <= MovesLeft[q]
  <2>1. PICK a \in 0..MaxRetries : a = attempt[q] /\ a = attempt'[q]
    BY <1>1, <1>2
  <2>2. CASE phase'[q] = phase[q]
    <3>1. MovesLeft'[q] = MovesLeft[q]
      BY <2>1, <2>2 DEF MovesLeft
    <3> QED
      BY <3>1, <1>4
  <2>3. CASE phase[q] = "queued" /\ phase'[q] = "inflight"
    <3>1. MovesLeft[q] = 3 * (MaxRetries - a) + 2
      BY <2>1, <2>3 DEF MovesLeft
    <3>2. MovesLeft'[q] = 3 * (MaxRetries - a) + 1
      BY <2>1, <2>3 DEF MovesLeft
    <3> QED
      BY <3>1, <3>2, <1>1
  <2> QED
    BY <2>2, <2>3, <1>3
<1>7. PICK f : f = MovesLeft'
  OBVIOUS
<1>8. \A q \in Requests : f[q] \in Int /\ f[q] <= MovesLeft[q]
  <2>1. MovesLeft[r] \in Int
    BY <1>4
  <2> QED
    BY <2>1, <1>5, <1>6, <1>7
<1>9. Sum(f, Requests) < Sum(MovesLeft, Requests)
  BY <1>4, <1>5, <1>7, <1>8, RequestsAssumption, SumDecreases
<1> QED
  BY <1>7, <1>9 DEF AllMovesLeft

\* Calls cannot retry, queue and sleep for ever: however they compete for the
\* permits, all of them together are over after a number of steps that depends on
\* their number and on max_retries only.
THEOREM CallsTakeBoundedWork ==
  Spec => [](AllMovesLeft \in 0..AllMoves) /\ [][AllMovesLeft' < AllMovesLeft]_vars
<1>1. IInv => AllMovesLeft \in 0..AllMoves
  BY MovesBounded DEF IInv
<1>2. IInv /\ [Next]_vars => [AllMovesLeft' < AllMovesLeft]_vars
  BY MovesAreUsedUp DEF Next, Done
<1> QED
  BY <1>1, <1>2, Invariance, PTL DEF Spec
=============================================================================
