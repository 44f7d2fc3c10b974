--------------------------- MODULE CircuitBreaker ---------------------------
(***************************************************************************)
(* The resilience layer of the TypeScript client (resilience.ts): callers  *)
(* that share one circuit breaker and retry their calls.  Everything runs  *)
(* on one event loop, so that a step goes from one await to the next: the  *)
(* settling of an attempt, the end of a pause, a new call.                 *)
(*                                                                         *)
(* Time is the age of the last failure, in units of which resetTimeoutMs   *)
(* has ResetTimeout, counted up to that limit; failures is counted up to   *)
(* the threshold.  The code compares each with its limit only.             *)
(***************************************************************************)
EXTENDS Integers

CONSTANTS
    Callers,            \* concurrent users of the client
    maxAttempts,        \* attempts of one call
    failureThreshold,   \* failures before the breaker opens
    ResetTimeout        \* age at which an open breaker lets a call pass

ASSUME BreakerAssumption ==
    {maxAttempts, failureThreshold, ResetTimeout} \subseteq Nat \ {0}

VARIABLES
    state,       \* CircuitBreaker.state
    failures,    \* CircuitBreaker.failures, up to failureThreshold
    age,         \* Date.now() - lastFailureTime, up to ResetTimeout
    healthy,     \* external: every attempt is answered in time and without error
    pc,          \* where each caller is
    attempt,     \* the attempt each caller is at
    since        \* history: the callers let in after the breaker last opened

vars == <<state, failures, age, healthy, pc, attempt, since>>

breakerVars == <<state, failures, age>>

-----------------------------------------------------------------------------
(* CircuitBreaker *)

Elapsed == age >= ResetTimeout

\* isOpen answers true and leaves the state alone ...
isOpen == state = "open" /\ ~Elapsed /\ UNCHANGED state

\* Slip: an open breaker that lets a call pass stays open.
Passes_StaysOpen == (state # "open" \/ Elapsed) /\ UNCHANGED state

\* ... or false; an open breaker whose time has come turns half-open.
Passes ==
    /\ state # "open" \/ Elapsed
    /\ state' = IF state = "open" THEN "half-open" ELSE state

\* Slip: the count of failures survives a success.
recordSuccess_KeepsCount == state' = "closed" /\ UNCHANGED <<failures, age>>

\* Slip: the state is left to the next isOpen.
recordSuccess_CountOnly == failures' = 0 /\ UNCHANGED <<state, age>>

recordSuccess ==
    /\ failures' = 0
    /\ state' = "closed"
    /\ UNCHANGED age

recordFailure ==
    /\ failures' = IF failures < failureThreshold THEN failures + 1 ELSE failures
    /\ age' = 0
    /\ state' = IF failures' >= failureThreshold THEN "open" ELSE state

-----------------------------------------------------------------------------
(* withRetry *)

Active(c) == pc[c] \in {"trying", "pausing"}

\* A call is refused, or makes its first attempt.
Refuse(c) ==
    /\ pc[c] = "idle"
    /\ isOpen
    /\ pc' = [pc EXCEPT ![c] = "refused"]
    /\ UNCHANGED <<failures, age, healthy, attempt, since>>

Admit(c) ==
    /\ pc[c] = "idle"
    /\ Passes
    /\ pc' = [pc EXCEPT ![c] = "trying"]
    /\ attempt' = [attempt EXCEPT ![c] = 1]
    /\ since' = since \cup {c}
    /\ UNCHANGED <<failures, age, healthy>>

\* The attempt is answered in time; an endpoint in trouble may still answer.
Succeed(c) ==
    /\ pc[c] = "trying"
    /\ recordSuccess
    /\ pc' = [pc EXCEPT ![c] = "answered"]
    /\ UNCHANGED <<healthy, attempt, since>>

\* The attempt throws (an error of the contract counts like one of the network)
\* or times out, and a late answer is ignored.  After the last attempt the call
\* throws, else it pauses.
Fail(c) ==
    /\ pc[c] = "trying"
    /\ ~healthy
    /\ recordFailure
    /\ pc' = [pc EXCEPT ![c] = IF attempt[c] = maxAttempts THEN "failed" ELSE "pausing"]
    /\ since' = IF state # "open" /\ state' = "open" THEN {} ELSE since
    /\ UNCHANGED <<healthy, attempt>>

\* Slip: the attempts are not counted.
Retry_Uncounted(c) ==
    /\ pc[c] = "pausing"
    /\ pc' = [pc EXCEPT ![c] = "trying"]
    /\ UNCHANGED <<breakerVars, healthy, attempt, since>>

\* The pause is over.  The breaker is not asked again.
Retry(c) ==
    /\ pc[c] = "pausing"
    /\ pc' = [pc EXCEPT ![c] = "trying"]
    /\ attempt' = [attempt EXCEPT ![c] = @ + 1]
    /\ UNCHANGED <<breakerVars, healthy, since>>

\* The user of the client has the result and may call again.
Return(c) ==
    /\ pc[c] \in {"refused", "answered", "failed"}
    /\ pc' = [pc EXCEPT ![c] = "idle"]
    /\ since' = since \ {c}
    /\ UNCHANGED <<breakerVars, healthy, attempt>>

-----------------------------------------------------------------------------

Tick ==
    /\ ~Elapsed
    /\ age' = age + 1
    /\ UNCHANGED <<state, failures, healthy, pc, attempt, since>>

EndpointChanges ==
    /\ healthy' = ~healthy
    /\ UNCHANGED <<breakerVars, pc, attempt, since>>

\* lastFailureTime starts at 0, long ago.
Init ==
    /\ state = "closed"
    /\ failures = 0
    /\ age = ResetTimeout
    /\ healthy \in BOOLEAN
    /\ pc = [c \in Callers |-> "idle"]
    /\ attempt = [c \in Callers |-> 0]
    /\ since = {}

Step(c) == Refuse(c) \/ Admit(c) \/ Succeed(c) \/ Fail(c) \/ Retry(c) \/ Return(c)

Next == (\E c \in Callers : Step(c)) \/ Tick \/ EndpointChanges

Spec == Init /\ [][Next]_vars

\* Time passes; withTimeout settles every attempt; timers fire.  That callers
\* call again is an assumption about the program that uses the client.
Fairness ==
    /\ WF_vars(Tick)
    /\ \A c \in Callers : WF_vars(Step(c))

FairSpec == Spec /\ Fairness

-----------------------------------------------------------------------------
(* Properties *)

\* Every variable holds a value of its type; no call makes more attempts than
\* it may.
TypeOK ==
    /\ state \in {"closed", "open", "half-open"}
    /\ failures \in 0..failureThreshold
    /\ age \in 0..ResetTimeout
    /\ healthy \in BOOLEAN
    /\ pc \in [Callers -> {"idle", "trying", "pausing", "refused", "answered", "failed"}]
    /\ attempt \in [Callers -> 0..maxAttempts]
    /\ since \subseteq Callers

\* The state and the count of failures agree, whoever records what in which
\* order: the breaker is closed exactly while the failures since the last
\* success are fewer than the threshold.  So one more failure opens a half-open
\* breaker again, and a closed one has its full count before it.
ClosedBelowThreshold == state = "closed" <=> failures < failureThreshold

\* While the breaker is open, the only callers that still make attempts are
\* those let in before it opened.
OpenAdmitsNobody ==
    state = "open" => \A c \in since : ~Active(c)

\* Every call ends, also when the endpoint never answers again.
CallsEnd == \A c \in Callers : Active(c) ~> ~Active(c)

\* When the endpoint works again for good, the breaker closes for good.
Recovers == <>[]healthy => <>[](state = "closed")
=============================================================================
