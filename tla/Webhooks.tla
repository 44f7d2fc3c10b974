------------------------------ MODULE Webhooks ------------------------------
(***************************************************************************)
(* Webhook delivery (indexer/src/webhooks.ts).  A delivery is one event    *)
(* for one registered endpoint: it is sent up to MAX_ATTEMPTS times, and   *)
(* what could not be delivered leaves a failure record, which an operator  *)
(* may replay (POST /admin/retry-webhook/:id).  Deliveries and replays run *)
(* interleaved in one Node.js process; an await is a point where another   *)
(* may run, the database may fail or the process may die.                  *)
(***************************************************************************)
EXTENDS Naturals, FiniteSets

CONSTANTS
    Deliveries,      \* pairs of an event and an endpoint
    Replayers,       \* requests to replay a failure that may run at once
    MAX_ATTEMPTS,
    MaxReplays,      \* bound of the model on replay requests
    MaxCrashes,      \* bound of the model on crashes of the process
    MaxDbErrors      \* bound of the model on failing database calls

ASSUME WebhooksAssumption ==
    /\ MAX_ATTEMPTS \in Nat \ {0}
    /\ MaxReplays \in Nat /\ MaxCrashes \in Nat /\ MaxDbErrors \in Nat

VARIABLES
    delivery,     \* the activations of deliverWithRetry
    failure,      \* status of the failure record of a delivery, or "none"
    replay,       \* the activations of replayFailure
    received,     \* history: deliveries the endpoint has accepted
    seenOk,       \* history: deliveries for which a caller saw the answer ok
    unrecorded,   \* history: failed deliveries whose record could not be written
    replays, crashes, dbErrors

vars == <<delivery, failure, replay, received, seenOk, unrecorded,
          replays, crashes, dbErrors>>

counters == <<replays, crashes, dbErrors>>

NoReplay == [pc |-> "idle"]

-----------------------------------------------------------------------------
(* The endpoint.  A request is answered ok, with a status 4xx or with      *)
(* another status, or it fails; a request that failed or timed out may     *)
(* have been accepted all the same.                                        *)

Answers == {"ok", "4xx", "error"}

Request(d, answer) ==
    /\ CASE answer = "ok" -> received' = received \cup {d}
         [] answer = "4xx" -> received' = received
         [] answer = "error" -> received' \in {received, received \cup {d}}
    /\ seenOk' = IF answer = "ok" THEN seenOk \cup {d} ELSE seenOk

-----------------------------------------------------------------------------
(* deliverWithRetry *)

dispatchWebhooks(d) ==
    /\ delivery[d].pc = "new"
    /\ delivery' = [delivery EXCEPT ![d] = [pc |-> "send", attempt |-> 1]]
    /\ UNCHANGED <<failure, replay, received, seenOk, unrecorded, counters>>

\* Slip: the attempts start over instead of ending.
AfterAnswer_Forever(d, answer) ==
    LET attempt == delivery[d].attempt
    IN  CASE answer = "ok"  -> [pc |-> "done", attempt |-> attempt]
          [] answer = "4xx" -> [pc |-> "persist", attempt |-> attempt]
          [] answer = "error" ->
                [pc |-> "send", attempt |-> IF attempt = MAX_ATTEMPTS THEN 1 ELSE attempt + 1]

\* What deliverWithRetry does with the answer to an attempt.
AfterAnswer(d, answer) ==
    LET attempt == delivery[d].attempt
    IN  CASE answer = "ok"  -> [pc |-> "done", attempt |-> attempt]
          [] answer = "4xx" -> [pc |-> "persist", attempt |-> attempt]
          [] answer = "error" ->
                IF attempt = MAX_ATTEMPTS THEN [pc |-> "persist", attempt |-> attempt]
                ELSE [pc |-> "send", attempt |-> attempt + 1]

deliverWithRetry(d) ==
    /\ delivery[d].pc = "send"
    /\ \E answer \in Answers :
          /\ Request(d, answer)
          /\ delivery' = [delivery EXCEPT ![d] = AfterAnswer(d, answer)]
    /\ UNCHANGED <<failure, replay, unrecorded, counters>>

persistFailure(d) ==
    /\ delivery[d].pc = "persist"
    /\ delivery' = [delivery EXCEPT ![d].pc = "done"]
    /\ failure' = [failure EXCEPT ![d] = "FAILED"]
    /\ UNCHANGED <<replay, received, seenOk, unrecorded, counters>>

\* persistFailure logs an error of the database and swallows it.
persistFailureThrows(d) ==
    /\ delivery[d].pc = "persist"
    /\ dbErrors < MaxDbErrors
    /\ dbErrors' = dbErrors + 1
    /\ delivery' = [delivery EXCEPT ![d].pc = "done"]
    /\ unrecorded' = unrecorded \cup {d}
    /\ UNCHANGED <<failure, replay, received, seenOk, replays, crashes>>

-----------------------------------------------------------------------------
(* replayFailure *)

\* The record is read.  A request for a record that is missing or is marked
\* RETRYING returns at once and changes nothing.
ReadFailure(r, d) ==
    /\ replay[r] = NoReplay
    /\ replays < MaxReplays
    /\ replays' = replays + 1
    /\ failure[d] = "FAILED"
    /\ replay' = [replay EXCEPT ![r] = [pc |-> "mark", of |-> d]]
    /\ UNCHANGED <<delivery, failure, received, seenOk, unrecorded, crashes, dbErrors>>

Replaying(r, pc) == replay[r].pc = pc

\* Slip: the record is deleted before the request is made.
Marked_Deleted(d) == [failure EXCEPT ![d] = "none"]

\* An update of a record that is gone throws and ends the request.
Marked(d) == IF failure[d] = "none" THEN failure ELSE [failure EXCEPT ![d] = "RETRYING"]

MarkRetrying(r) ==
    /\ Replaying(r, "mark")
    /\ failure' = Marked(replay[r].of)
    /\ replay' = [replay EXCEPT ![r] =
          IF failure[@.of] = "none" THEN NoReplay ELSE [@ EXCEPT !.pc = "send"]]
    /\ UNCHANGED <<delivery, received, seenOk, unrecorded, counters>>

SendReplay(r) ==
    /\ Replaying(r, "send")
    /\ \E answer \in Answers :
          /\ Request(replay[r].of, answer)
          /\ \E next \in CASE answer = "ok" -> {"delete"}
                           [] answer = "4xx" -> {"fail"}
                           [] answer = "error" -> {"fail", "catch"} :
                replay' = [replay EXCEPT ![r].pc = next]
    /\ UNCHANGED <<delivery, failure, unrecorded, counters>>

\* The record is deleted after the endpoint's ok.  When another request has
\* deleted it, delete and the update in the catch block throw.
DeleteFailure(r) ==
    /\ Replaying(r, "delete")
    /\ failure' = [failure EXCEPT ![replay[r].of] = "none"]
    /\ replay' = [replay EXCEPT ![r] = NoReplay]
    /\ UNCHANGED <<delivery, received, seenOk, unrecorded, counters>>

\* Slip: only the error message is updated, the status is left alone.
AfterFail_NoStatus(d) == failure

\* The status written when the endpoint has not accepted the replay.
AfterFail(d) == IF failure[d] = "none" THEN failure ELSE [failure EXCEPT ![d] = "FAILED"]

\* After an answer that is not ok, and in the catch block.
MarkFailed(r) ==
    /\ Replaying(r, "fail") \/ Replaying(r, "catch")
    /\ failure' = AfterFail(replay[r].of)
    /\ replay' = [replay EXCEPT ![r] = NoReplay]
    /\ UNCHANGED <<delivery, received, seenOk, unrecorded, counters>>

\* A call of the database throws.  Inside the try block (delete, the update
\* after an answer) the catch block goes on; outside of it (the update to
\* RETRYING, the look-up of the secret before the request, the update of the
\* catch block) the request is rejected, and the record keeps its status.
ReplayThrows(r) ==
    /\ replay[r] # NoReplay
    /\ dbErrors < MaxDbErrors
    /\ dbErrors' = dbErrors + 1
    /\ replay' = [replay EXCEPT ![r] =
          IF @.pc \in {"delete", "fail"} THEN [@ EXCEPT !.pc = "catch"] ELSE NoReplay]
    /\ UNCHANGED <<delivery, failure, received, seenOk, unrecorded, replays, crashes>>

-----------------------------------------------------------------------------
\* The process dies: its deliveries and its replays are gone, the records stay.
Crash ==
    /\ crashes < MaxCrashes
    /\ crashes' = crashes + 1
    /\ delivery' = [d \in Deliveries |->
          IF delivery[d].pc \in {"send", "persist"} THEN [delivery[d] EXCEPT !.pc = "lost"]
          ELSE delivery[d]]
    /\ replay' = [r \in Replayers |-> NoReplay]
    /\ UNCHANGED <<failure, received, seenOk, unrecorded, replays, dbErrors>>

Init ==
    /\ delivery = [d \in Deliveries |-> [pc |-> "new", attempt |-> 0]]
    /\ failure = [d \in Deliveries |-> "none"]
    /\ replay = [r \in Replayers |-> NoReplay]
    /\ received = {} /\ seenOk = {} /\ unrecorded = {}
    /\ replays = 0 /\ crashes = 0 /\ dbErrors = 0

Deliver(d) == dispatchWebhooks(d) \/ deliverWithRetry(d) \/ persistFailure(d)

replayFailure(r) == MarkRetrying(r) \/ SendReplay(r) \/ DeleteFailure(r) \/ MarkFailed(r)

Next ==
    \/ \E d \in Deliveries : Deliver(d) \/ persistFailureThrows(d)
    \/ \E r \in Replayers, d \in Deliveries : ReadFailure(r, d)
    \/ \E r \in Replayers : replayFailure(r) \/ ReplayThrows(r)
    \/ Crash

\* An operator may never ask for a replay, and nothing has to crash or fail;
\* what was started is carried on by the event loop, since every request is
\* answered or aborted after ten seconds.
FairSpec ==
    /\ Init /\ [][Next]_vars
    /\ \A d \in Deliveries : WF_vars(deliverWithRetry(d)) /\ WF_vars(persistFailure(d))
    /\ \A r \in Replayers : WF_vars(replayFailure(r))

-----------------------------------------------------------------------------
(* Properties *)

\* The types of the variables.
TypeOK ==
    /\ delivery \in [Deliveries -> [pc : {"new", "send", "persist", "done", "lost"},
                                    attempt : 0..MAX_ATTEMPTS]]
    /\ failure \in [Deliveries -> {"none", "FAILED", "RETRYING"}]
    /\ replay \in [Replayers -> {NoReplay} \cup
          [pc : {"mark", "send", "delete", "fail", "catch"}, of : Deliveries]]
    /\ {received, seenOk, unrecorded} \subseteq SUBSET Deliveries
    /\ seenOk \subseteq received

\* A delivery that ended is known to have reached its endpoint, or has a
\* failure record an operator can find, or is one whose record could not be
\* written: retries, concurrent replays, failing calls and crashes between
\* the answer and the database never make it vanish.
NothingDropped ==
    \A d \in Deliveries :
        delivery[d].pc = "done" => d \in seenOk \/ failure[d] # "none" \/ d \in unrecorded

\* Every delivery that was started ends, and the process does not retry for ever.
DeliveriesEnd ==
    \A d \in Deliveries :
        delivery[d].pc = "send" ~> delivery[d].pc \in {"done", "lost"}

\* A record marked RETRYING leaves that status again, unless the process has
\* crashed or a call of the database has failed: whatever another request
\* does in between, it is replayed or can be.
RetryingEnds ==
    \A d \in Deliveries :
        failure[d] = "RETRYING" ~> failure[d] # "RETRYING" \/ crashes + dbErrors > 0
============================================================================
