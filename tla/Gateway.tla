------------------------------ MODULE Gateway -------------------------------
(***************************************************************************)
(* LLMGateway.complete: the calls that share a credential, a provider and  *)
(* a job, through circuit breakers, rate limiter and retries.              *)
(*                                                                         *)
(* Each call is a program: the operations it has still to do, one step     *)
(* each.  With Redis the calls are of many workers, which share the keys.  *)
(* The last write of a circuit wins there, and the other workers write it  *)
(* too: a read finds any state, so the model keeps none.  Without Redis    *)
(* the calls are coroutines of one process, the limiter lets everything    *)
(* pass, and an operation on a circuit awaits nothing: it is one step.     *)
(*                                                                         *)
(* A definition named X_Y is a mutated form of X; no specification uses it.*)
(***************************************************************************)
EXTENDS RateLimiter, CircuitBreaker, FiniteSets, Sequences

CONSTANTS Calls,           \* the coroutines that call complete, again and again
          MaxRetries

ASSUME CallsAssumption == IsFiniteSet(Calls)
ASSUME RetriesAssumption == MaxRetries \in Nat

Keys == {"prov", "cred"}

VARIABLES
  redis,        \* the gateway has a Redis client
  circuit,      \* the circuits of the provider and of the credential, without Redis
  todo,         \* the operations each call has still to do; <<>>: no call
  count,        \* the counter it has read
  attempt,      \* the attempts behind it
  used,         \* actual_tokens, until they are released
  abandoned     \* some call has left slots behind (history)

callVars == <<todo, count, attempt, used>>
vars == <<limiterVars, redis, circuit, callVars, abandoned>>

Doing(c, op) == todo[c] # <<>> /\ Head(todo[c]) = op

Do(c, program) == todo' = [todo EXCEPT ![c] = program]

Proceed(c) == Do(c, Tail(todo[c]))
------------------------------------------------------------------------------
(* The programs *)

Attempt == <<"check_prov", "check_cred", "reserve",
             "read_provider", "take_provider", "read_job", "take_job", "call">>

Release == <<"release", "read_provider_slot", "return_provider_slot",
             "read_job_slot", "return_job_slot">>

\* An operation on the slots of a scope, by the scope.
Taking == [prov |-> "take_provider", job |-> "take_job"]
Looking == [prov |-> "read_provider_slot", job |-> "read_job_slot"]
Returning == [prov |-> "return_provider_slot", job |-> "return_job_slot"]

\* An operation on a circuit, by the circuit's key.
Checking == [prov |-> "check_prov", cred |-> "check_cred"]
Success == [prov |-> "success_prov", cred |-> "success_cred"]
Failure == [prov |-> "failure_prov", cred |-> "failure_cred"]
Rejection == [prov |-> "reject_prov", cred |-> "reject_cred"]

Outcomes == {"ok", "context", "permanent", "invalid_key", "rate_limited",
             "unavailable", "transport", "unexpected"}

\* Without Redis the limiter returns at once.
WithRedis(program) == IF redis THEN program ELSE <<>>

\* What complete does, in this order, when the provider has answered.
Aftermath(outcome) ==
  LET released == WithRedis(Release)
  IN  CASE outcome = "ok" -> <<"success_prov", "success_cred">> \o released
        [] outcome = "context" -> released
        [] outcome = "permanent" -> <<"failure_cred">> \o released
        [] outcome = "invalid_key" -> <<"reject_cred">> \o released
        [] outcome = "rate_limited" ->
             released \o WithRedis(<<"cool_down">>) \o <<"failure_cred", "retry">>
        [] outcome = "unavailable" -> <<"failure_prov">> \o released \o <<"retry">>
        [] outcome = "transport" -> <<"failure_cred">> \o released \o <<"retry">>
        [] outcome = "unexpected" -> released
------------------------------------------------------------------------------
Init ==
  /\ LimiterInit
  /\ redis \in BOOLEAN
  /\ circuit = [k \in Keys |-> Closed]
  /\ todo = [c \in Calls |-> <<>>]
  /\ count = [c \in Calls |-> 0]
  /\ attempt = [c \in Calls |-> 0]
  /\ used = [c \in Calls |-> 0]
  /\ abandoned = FALSE

Begin(c) ==
  /\ todo[c] = <<>>
  /\ Do(c, Attempt)
  /\ attempt' = [attempt EXCEPT ![c] = 0]
  /\ UNCHANGED <<limiterVars, redis, circuit, count, used, abandoned>>

\* The call waits, then tries again, unless it was the last attempt.
Retry_Forever(c) ==
  /\ Doing(c, "retry")
  /\ Do(c, Attempt)
  /\ UNCHANGED <<limiterVars, redis, circuit, count, attempt, used, abandoned>>

Retry(c) ==
  /\ Doing(c, "retry")
  /\ IF attempt[c] < MaxRetries
       THEN Do(c, Attempt) /\ attempt' = [attempt EXCEPT ![c] = @ + 1]
       ELSE Do(c, <<>>) /\ UNCHANGED attempt
  /\ UNCHANGED <<limiterVars, redis, circuit, count, used, abandoned>>
------------------------------------------------------------------------------
(* Circuit breakers *)

\* An open circuit ends the call; one that has been open long enough is half open then.
Check(c, k) ==
  /\ Doing(c, Checking[k])
  /\ \/ /\ redis \/ Rejects(circuit[k])
        /\ Do(c, <<>>) /\ UNCHANGED circuit
     \/ /\ redis \/ ~Rejects(circuit[k])
        /\ Proceed(c)
        /\ circuit' = IF Probes(circuit[k]) THEN [circuit EXCEPT ![k] = HalfOpen(@)] ELSE circuit
  /\ UNCHANGED <<limiterVars, redis, count, attempt, used, abandoned>>

Update(c, op, k, new) ==
  /\ Doing(c, op[k])
  /\ Proceed(c)
  /\ circuit' = IF redis THEN circuit ELSE [circuit EXCEPT ![k] = new]
  /\ UNCHANGED <<limiterVars, redis, count, attempt, used, abandoned>>

RecordSuccess(c, k) == Update(c, Success, k, AfterSuccess(circuit[k]))
RecordFailure(c, k) == Update(c, Failure, k, AfterFailure(circuit[k], FALSE))
RecordRejection(c, k) == Update(c, Rejection, k, AfterFailure(circuit[k], TRUE))

\* half_open_after goes by.
Age(k) ==
  /\ circuit[k].state = "open" /\ ~circuit[k].aged
  /\ circuit' = [circuit EXCEPT ![k].aged = TRUE]
  /\ UNCHANGED <<limiterVars, redis, callVars, abandoned>>

------------------------------------------------------------------------------
(* RateLimiter.reserve *)

ReserveCredential(c) ==
  /\ Doing(c, "reserve")
  /\ IF ~redis
       THEN Do(c, <<"call">>) /\ UNCHANGED limiterVars
     ELSE IF CredentialBlocked
       THEN Do(c, <<"retry">>) /\ UNCHANGED limiterVars
       ELSE Proceed(c) /\ Reserve
  /\ UNCHANGED <<redis, circuit, count, attempt, used, abandoned>>

\* At its limit, the counter of the provider or of the job undoes the reservation.
ReadCounter(c, op, limit, n, undo) ==
  /\ Doing(c, op)
  /\ Do(c, IF AtLimit(limit, n) THEN undo \o <<"retry">> ELSE Tail(todo[c]))
  /\ UNCHANGED <<limiterVars, redis, circuit, count, attempt, used, abandoned>>

ReadProvider(c) == ReadCounter(c, "read_provider", MaxProvider, slots.prov, <<"release">>)

ReadJob_CredentialOnly(c) ==
  ReadCounter(c, "read_job", MaxJob, slots.job, <<"release">>)

ReadJob(c) ==
  ReadCounter(c, "read_job", MaxJob, slots.job, <<"release", "give_back_provider">>)

\* INCR, then EXPIRE: a key that disappears between them may as well do so after them.
TakeSlot(c, k) ==
  /\ Doing(c, Taking[k])
  /\ slots' = [slots EXCEPT ![k] = @ + 1]
  /\ expires' = [expires EXCEPT ![k] = TRUE]
  /\ Proceed(c)
  /\ UNCHANGED <<credKeys, cooldown, redis, circuit, count, attempt, used, abandoned>>

\* DECR keeps a key's TTL, and gives a new key none.
GiveBack(c) ==
  /\ Doing(c, "give_back_provider")
  /\ slots' = [slots EXCEPT !.prov = @ - 1]
  /\ Proceed(c)
  /\ UNCHANGED <<credKeys, cooldown, expires, redis, circuit, count, attempt, used, abandoned>>
------------------------------------------------------------------------------
(* The provider call; the credential is resolved just before it. *)

Answer(c) ==
  /\ Doing(c, "call")
  /\ \E outcome \in Outcomes :
       /\ Do(c, Aftermath(outcome))
       /\ \E n \in IF redis /\ outcome = "ok" THEN Actual ELSE {0} :
            used' = [used EXCEPT ![c] = n]
  /\ UNCHANGED <<limiterVars, redis, circuit, count, attempt, abandoned>>

\* Between the provider call and its release: the body of `try` and its handlers.
InTry(c) ==
  \/ Doing(c, "call")
  \/ \E i \in 2..Len(todo[c]) : todo[c][i] = "release"

\* It has slots, and no `finally` returns them.
Exposed(c) ==
  Head(todo[c]) \in {Attempt[i] : i \in 4..7} \cup {Release[i] : i \in DOMAIN Release}
                    \cup {"give_back_provider"}

\* It leaves at an await: from within `try` the slots are released, with the tokens
\* spent.
Leaves(c, spent) ==
  /\ todo[c] # <<>>
  /\ Exposed(c) => ~abandoned            \* bound: one call leaves slots behind
  /\ IF redis /\ InTry(c)
       THEN Do(c, Release) /\ used' = [used EXCEPT ![c] = spent] /\ UNCHANGED abandoned
       ELSE Do(c, <<>>) /\ used' = [used EXCEPT ![c] = 0] /\ abandoned' = (abandoned \/ Exposed(c))
  /\ UNCHANGED <<limiterVars, redis, circuit, count, attempt>>

\* The job is timed out: CancelledError passes the handlers, and `finally` releases.
Cancelled(c) == Leaves(c, used[c])

\* A command of Redis raises before it takes effect; one that raises after it has is the
\* next one that raises before.  In `try` a handler releases without tokens, or `finally`
\* does; a release that raises is not tried again, since the token counts as released.
RedisRaises(c) ==
  /\ redis /\ ~Doing(c, "call") /\ ~Doing(c, "retry")
  /\ Leaves(c, 0)
------------------------------------------------------------------------------
(* RateLimiter.release, and the rollback of a reservation *)

ReleaseCredential(c) ==
  /\ Doing(c, "release")
  /\ Released(used[c])
  /\ used' = [used EXCEPT ![c] = 0]
  /\ Proceed(c)
  /\ UNCHANGED <<redis, circuit, count, attempt, abandoned>>

ReadSlot(c, k) ==
  /\ Doing(c, Looking[k])
  /\ count' = [count EXCEPT ![c] = slots[k]]
  /\ Proceed(c)
  /\ UNCHANGED <<limiterVars, redis, circuit, attempt, used, abandoned>>

\* What has been read may be too much by now: other calls have returned theirs, or the
\* key is gone.
ReturnSlot(c, k) ==
  /\ Doing(c, Returning[k])
  /\ slots' = IF count[c] > 0 THEN [slots EXCEPT ![k] = @ - 1] ELSE slots
  /\ count' = [count EXCEPT ![c] = 0]
  /\ Proceed(c)
  /\ UNCHANGED <<credKeys, cooldown, expires, redis, circuit, attempt, used, abandoned>>

\* With a Retry-After of the provider the credential cools down.
CoolDown(c) ==
  /\ Doing(c, "cool_down")
  /\ cooldown' \in {cooldown, TRUE}
  /\ Proceed(c)
  /\ UNCHANGED <<credKeys, slotKeys, redis, circuit, count, attempt, used, abandoned>>
------------------------------------------------------------------------------
\* A call goes on, but for being begun and for leaving.
Step(c) ==
  \/ Retry(c)
  \/ \E k \in Keys : \/ Check(c, k)
                     \/ RecordSuccess(c, k) \/ RecordFailure(c, k) \/ RecordRejection(c, k)
  \/ \E k \in Scopes : TakeSlot(c, k) \/ ReadSlot(c, k) \/ ReturnSlot(c, k)
  \/ ReserveCredential(c) \/ ReadProvider(c) \/ ReadJob(c) \/ GiveBack(c)
  \/ Answer(c)
  \/ ReleaseCredential(c)
  \/ CoolDown(c)

Time ==
  /\ RpmWindowEnds \/ TpmWindowEnds \/ CooldownEnds \/ \E k \in Scopes : SlotKeyEnds(k)
  /\ UNCHANGED <<redis, circuit, callVars, abandoned>>

Next ==
  \/ \E c \in Calls : Begin(c) \/ Cancelled(c) \/ RedisRaises(c) \/ Step(c)
  \/ \E k \in Keys : Age(k)
  \/ Time

Spec == Init /\ [][Next]_vars

\* Every operation has a timeout of its own, and sleeping ends.
FairSpec == Spec /\ \A c \in Calls : WF_vars(Step(c))
------------------------------------------------------------------------------
Operations ==
  {Attempt[i] : i \in DOMAIN Attempt} \cup {Release[i] : i \in DOMAIN Release}
  \cup {"give_back_provider", "cool_down", "retry"}
  \cup {op[k] : op \in {Success, Failure, Rejection}, k \in Keys}

\* The types of the variables.  The credential's counters are never negative, whatever
\* windows end and calls release meanwhile; those of the provider and of the job, whose
\* keys expire under calls that still count on them, fall at most by one for each call.
TypeOK ==
  /\ rpm \in Nat /\ tpm \in Nat /\ active \in Nat
  /\ slots \in [Scopes -> Int] /\ \A k \in Scopes : slots[k] >= 0 - Cardinality(Calls)
  /\ tpmExpires \in BOOLEAN /\ expires \in [Scopes -> BOOLEAN] /\ cooldown \in BOOLEAN
  /\ redis \in BOOLEAN /\ abandoned \in BOOLEAN
  /\ circuit \in [Keys -> Circuit]
  /\ \A c \in Calls : \A i \in DOMAIN todo[c] : todo[c][i] \in Operations
  /\ count \in [Calls -> Int]
  /\ attempt \in [Calls -> 0..MaxRetries]
  /\ used \in [Calls -> {0} \cup Actual]

\* With Redis a credential never has more provider calls under way than its limit,
\* however calls are cancelled, retried and rolled back.
CallsWithinLimit ==
  redis /\ MaxConcurrent > 0 =>
    Cardinality({c \in Calls : Doing(c, "call")}) <= MaxConcurrent

\* When no call is under way none of its slots is taken any more, however the calls
\* ended and whichever keys expired under them, if none left while it was reserving or
\* releasing.  (A key that expired may have been decremented below zero.)
SlotsReturned ==
  (\A c \in Calls : todo[c] = <<>>) /\ ~abandoned =>
    active = 0 /\ \A k \in Scopes : slots[k] <= 0

\* In one process an open circuit stays open for half_open_after, whatever calls that
\* were already under way report.
OpenCircuitRests ==
  [][\A k \in Keys : ~redis /\ Rejects(circuit[k]) => circuit'[k].state = "open"]_vars

\* Every call returns or raises, whatever the provider answers and however long the
\* limits hold it off.
CallsEnd == \A c \in Calls : todo[c] # <<>> ~> todo[c] = <<>>
==============================================================================
