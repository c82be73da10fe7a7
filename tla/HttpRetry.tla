----------------------------- MODULE HttpRetry -----------------------------
(***************************************************************************)
(* httpx_request_with_retry (recipe/paper_search/http_retry.py): HTTP      *)
(* calls of one client that share an asyncio.Semaphore, each trying up to  *)
(* MaxRetries + 1 times.  PaperSearchClient._request                       *)
(* (recipe/paper_search/utils.py) makes the calls; every search and every  *)
(* expansion of a PaperSearch trajectory waits for one or two of them.     *)
(*                                                                         *)
(* The semaphore belongs to asyncio: waiters queue in order and release    *)
(* hands the permit to the first.  A client without a semaphore is the     *)
(* instance with a permit for every request.  Delays are left out: a       *)
(* sleeping call may wake at any time.                                     *)
(***************************************************************************)
EXTENDS Naturals, Sequences, FiniteSets

CONSTANTS
  Requests,    \* the concurrent calls of httpx_request_with_retry
  Permits,     \* max_concurrency
  MaxRetries   \* max_retries: extra tries after the first

ASSUME RequestsAssumption == IsFiniteSet(Requests)
ASSUME PermitsAssumption == Permits \in Nat \ {0}
ASSUME RetriesAssumption == MaxRetries \in Nat

VARIABLES
  phase,     \* where each call is
  attempt,   \* the loop variable of each call
  sent,      \* how many HTTP requests each call has sent
  result,    \* what a finished call gave its caller
  free,      \* value of the semaphore
  waiters    \* calls suspended in semaphore.acquire(), first come first

vars == <<phase, attempt, sent, result, free, waiters>>

-----------------------------------------------------------------------------
Phases == {"idle", "queued", "inflight", "backoff", "done"}

\* "good": a response whose status is not to be retried; "bad": the last
\* response had a status to be retried; "error": the last retryable exception
\* (httpx.RequestError); "raised": any other exception.
Results == {"none", "good", "bad", "error", "raised"}

Init ==
  /\ phase = [r \in Requests |-> "idle"]
  /\ attempt = [r \in Requests |-> 0]
  /\ sent = [r \in Requests |-> 0]
  /\ result = [r \in Requests |-> "none"]
  /\ free = Permits
  /\ waiters = <<>>

\* semaphore.acquire(), then the request goes out.
Acquire(r) ==
  IF free > 0 /\ waiters = <<>>
  THEN /\ free' = free - 1
       /\ phase' = [phase EXCEPT ![r] = "inflight"]
       /\ sent' = [sent EXCEPT ![r] = @ + 1]
       /\ UNCHANGED waiters
  ELSE /\ waiters' = Append(waiters, r)
       /\ phase' = [phase EXCEPT ![r] = "queued"]
       /\ UNCHANGED <<free, sent>>

\* Mutant of Release: a waiter is woken without being given the permit.
Release_PermitKept(r, next) ==
  IF waiters = <<>>
  THEN /\ free' = free + 1
       /\ phase' = [phase EXCEPT ![r] = next]
       /\ UNCHANGED <<sent, waiters>>
  ELSE /\ waiters' = Tail(waiters)
       /\ free' = free + 1
       /\ phase' = [phase EXCEPT ![r] = next, ![Head(waiters)] = "inflight"]
       /\ sent' = [sent EXCEPT ![Head(waiters)] = @ + 1]

\* Mutant of Release: the permit goes back but nobody is woken.
Release_NobodyWoken(r, next) ==
  /\ free' = free + 1
  /\ phase' = [phase EXCEPT ![r] = next]
  /\ UNCHANGED <<sent, waiters>>

\* semaphore.release() while r goes on to its next phase: the first waiter is
\* given the permit and sends its request.
Release(r, next) ==
  IF waiters = <<>>
  THEN /\ free' = free + 1
       /\ phase' = [phase EXCEPT ![r] = next]
       /\ UNCHANGED <<sent, waiters>>
  ELSE /\ waiters' = Tail(waiters)
       /\ phase' = [phase EXCEPT ![r] = next, ![Head(waiters)] = "inflight"]
       /\ sent' = [sent EXCEPT ![Head(waiters)] = @ + 1]
       /\ UNCHANGED free

-----------------------------------------------------------------------------
Call(r) ==
  /\ phase[r] = "idle"
  /\ Acquire(r)
  /\ UNCHANGED <<attempt, result>>

Finish(r, outcome) ==
  /\ phase[r] = "inflight"
  /\ Release(r, "done")
  /\ result' = [result EXCEPT ![r] = outcome]
  /\ UNCHANGED attempt

\* Mutant of MayRetry: max_retries counts all tries.
MayRetry_TotalTries(r) == attempt[r] + 1 < MaxRetries

MayRetry(r) == attempt[r] < MaxRetries

\* The permit is released before the call sleeps.
BackOff(r) ==
  /\ phase[r] = "inflight"
  /\ MayRetry(r)
  /\ Release(r, "backoff")
  /\ UNCHANGED <<attempt, result>>

Succeeds(r) == Finish(r, "good")

\* A status in retry_status_codes: retried, or returned by the last try.
RefusedByServer(r) ==
  IF MayRetry(r) THEN BackOff(r) ELSE Finish(r, "bad")

\* Mutant of Fails: without its finally, the exception keeps the permit.
Fails_PermitLost(r) ==
  IF MayRetry(r)
  THEN /\ phase[r] = "inflight"
       /\ phase' = [phase EXCEPT ![r] = "backoff"]
       /\ UNCHANGED <<attempt, sent, result, free, waiters>>
  ELSE Finish(r, "error")

\* A transport error or timeout: retried, or raised by the last try.
Fails(r) ==
  IF MayRetry(r) THEN BackOff(r) ELSE Finish(r, "error")

\* An exception outside retry_exceptions leaves at once.
Raises(r) == Finish(r, "raised")

\* asyncio.sleep is over: the next turn of the loop.
Wake(r) ==
  /\ phase[r] = "backoff"
  /\ attempt' = [attempt EXCEPT ![r] = @ + 1]
  /\ Acquire(r)
  /\ UNCHANGED result

Respond(r) == Succeeds(r) \/ RefusedByServer(r) \/ Fails(r) \/ Raises(r)

Done == (\A r \in Requests : phase[r] = "done") /\ UNCHANGED vars

Next == (\E r \in Requests : Call(r) \/ Respond(r) \/ Wake(r)) \/ Done

Spec == Init /\ [][Next]_vars

\* httpx gives every request a timeout and every sleep ends; nothing obliges a
\* call to be made, nor the service to answer well.
Fairness == \A r \in Requests : WF_vars(Respond(r)) /\ WF_vars(Wake(r))

FairSpec == Spec /\ Fairness

-----------------------------------------------------------------------------
(***************************************************************************)
(* Properties                                                              *)
(***************************************************************************)
Queued == {r \in Requests : phase[r] = "queued"}

InFlight == {r \in Requests : phase[r] = "inflight"}

\* Every variable holds a value the code can store in it.
TypeOK ==
  /\ phase \in [Requests -> Phases]
  /\ attempt \in [Requests -> 0..MaxRetries]
  /\ sent \in [Requests -> Nat]
  /\ result \in [Requests -> Results]
  /\ free \in 0..Permits
  /\ waiters \in Seq(Requests)

\* Retries, hand-offs and every way a try can end keep the permits in balance:
\* never more than max_concurrency requests are on the wire, and a call that
\* sleeps or has ended holds no permit.
PermitsConserved == free + Cardinality(InFlight) = Permits

\* A call waits for a permit only while all of them are in use: no release of a
\* sleeping, failing or finishing call passes the queue by.
NoIdlePermit ==
  /\ waiters # <<>> => free = 0
  /\ Queued = {waiters[i] : i \in DOMAIN waiters}
  /\ \A i, j \in DOMAIN waiters : waiters[i] = waiters[j] => i = j

\* "total attempts = max_retries + 1": a call gives a refusal or a transport error
\* to its caller after exactly that many requests, and never sends more.
GivesUpOnlyWhenExhausted ==
  \A r \in Requests :
    /\ sent[r] <= MaxRetries + 1
    /\ result[r] \in {"bad", "error"} => sent[r] = MaxRetries + 1

\* Every call comes back to its caller, however many compete for the permits.
EveryCallEnds == \A r \in Requests : phase[r] # "idle" ~> phase[r] = "done"
=============================================================================
