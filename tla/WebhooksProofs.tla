--------------------------- MODULE WebhooksProofs ---------------------------
(***************************************************************************)
(* Theorems about Webhooks, for any number of deliveries, attempts,        *)
(* concurrent replays, failing database calls and crashes.                 *)
(***************************************************************************)
EXTENDS Webhooks, TLAPS

Running == [pc : {"mark", "send", "delete", "fail", "catch"}, of : Deliveries]

\* A replay that is about to delete a record has seen the endpoint's ok.
DeletesWhatArrived == \A r \in Replayers : replay[r].pc = "delete" => replay[r].of \in seenOk

Inv == TypeOK /\ NothingDropped /\ DeletesWhatArrived

\* What a replay in progress is, in the terms the steps need.
LEMMA ReplayFacts ==
    ASSUME TypeOK, NEW r \in Replayers
    PROVE  /\ replay[r] = NoReplay \/ replay[r] \in Running
           /\ replay[r] = NoReplay => replay[r].pc = "idle"
           /\ replay[r].pc # "idle" => replay[r] \in Running /\ replay[r].of \in Deliveries
BY DEF TypeOK, NoReplay, Running

\* The histories only grow, and an answer ok is remembered.
LEMMA RequestRemembers ==
    ASSUME TypeOK, NEW d \in Deliveries, NEW answer \in Answers, Request(d, answer)
    PROVE  /\ seenOk \subseteq seenOk' /\ seenOk' \subseteq received'
           /\ received' \subseteq Deliveries
           /\ answer = "ok" => d \in seenOk'
BY DEF TypeOK, Request, Answers

\* The steps of a delivery.
LEMMA DeliverInv ==
    ASSUME Inv, NEW d \in Deliveries, Deliver(d) \/ persistFailureThrows(d)
    PROVE  Inv'
<1> USE DEF Inv
<1>0. /\ delivery \in [Deliveries -> [pc : {"new", "send", "persist", "done", "lost"},
                                      attempt : 0..MAX_ATTEMPTS]]
      /\ failure \in [Deliveries -> {"none", "FAILED", "RETRYING"}]
      /\ MAX_ATTEMPTS \in Nat \ {0}
  BY WebhooksAssumption DEF TypeOK
<1>1. CASE dispatchWebhooks(d)
  <2>1. TypeOK'
    BY <1>0, <1>1 DEF dispatchWebhooks, TypeOK
  <2>2. NothingDropped' /\ DeletesWhatArrived'
    BY <1>0, <1>1 DEF dispatchWebhooks, NothingDropped, DeletesWhatArrived
  <2> QED
    BY <2>1, <2>2
<1>2. CASE deliverWithRetry(d)
  <2>1. PICK answer \in Answers :
           /\ Request(d, answer)
           /\ delivery' = [delivery EXCEPT ![d] = AfterAnswer(d, answer)]
    BY <1>2 DEF deliverWithRetry
  <2>2. UNCHANGED <<failure, replay, unrecorded>>
    BY <1>2 DEF deliverWithRetry
  <2>3. /\ AfterAnswer(d, answer) \in [pc : {"send", "persist", "done"}, attempt : 0..MAX_ATTEMPTS]
        /\ AfterAnswer(d, answer).pc = "done" => answer = "ok"
    BY <1>0, <2>1, SMTT(20) DEF AfterAnswer, Answers
  <2>4. /\ seenOk \subseteq seenOk' /\ seenOk' \subseteq received'
        /\ received' \subseteq Deliveries
        /\ answer = "ok" => d \in seenOk'
    BY <2>1, RequestRemembers
  <2>5. TypeOK'
    <3>1. delivery' \in [Deliveries -> [pc : {"new", "send", "persist", "done", "lost"},
                                        attempt : 0..MAX_ATTEMPTS]]
      BY <1>0, <2>1, <2>3
    <3> QED
      BY <2>2, <2>4, <3>1 DEF TypeOK
  <2>6. NothingDropped'
    BY <1>0, <2>1, <2>2, <2>3, <2>4 DEF NothingDropped
  <2>7. DeletesWhatArrived'
    BY <2>2, <2>4 DEF DeletesWhatArrived
  <2> QED
    BY <2>5, <2>6, <2>7
<1>3. CASE persistFailure(d)
  <2>1. TypeOK'
    BY <1>0, <1>3 DEF persistFailure, TypeOK
  <2>2. NothingDropped' /\ DeletesWhatArrived'
    BY <1>0, <1>3 DEF persistFailure, NothingDropped, DeletesWhatArrived
  <2> QED
    BY <2>1, <2>2
<1>4. CASE persistFailureThrows(d)
  <2>1. TypeOK'
    BY <1>0, <1>4 DEF persistFailureThrows, TypeOK
  <2>2. NothingDropped' /\ DeletesWhatArrived'
    BY <1>0, <1>4 DEF persistFailureThrows, NothingDropped, DeletesWhatArrived
  <2> QED
    BY <2>1, <2>2
<1> QED
  BY <1>1, <1>2, <1>3, <1>4 DEF Deliver

\* The steps of a replay request.
LEMMA ReplayInv ==
    ASSUME Inv, NEW r \in Replayers,
           \/ \E d \in Deliveries : ReadFailure(r, d)
           \/ replayFailure(r)
           \/ ReplayThrows(r)
    PROVE  Inv'
<1> USE DEF Inv
<1>0. /\ replay \in [Replayers -> {NoReplay} \cup Running]
      /\ failure \in [Deliveries -> {"none", "FAILED", "RETRYING"}]
      /\ NoReplay.pc = "idle"
  BY DEF TypeOK, Running, NoReplay
<1>1. ASSUME NEW d \in Deliveries, ReadFailure(r, d) PROVE Inv'
  <2>1. replay' = [replay EXCEPT ![r] = [pc |-> "mark", of |-> d]]
        /\ UNCHANGED <<delivery, failure, received, seenOk, unrecorded>>
    BY <1>1 DEF ReadFailure
  <2>2. replay' \in [Replayers -> {NoReplay} \cup Running]
    BY <1>0, <2>1 DEF Running
  <2>3. TypeOK'
    BY <2>1, <2>2 DEF TypeOK, Running
  <2> QED
    BY <1>0, <2>1, <2>3 DEF NothingDropped, DeletesWhatArrived
<1>2. CASE MarkRetrying(r)
  <2>1. PICK d \in Deliveries : d = replay[r].of /\ replay[r] \in Running
    BY <1>2, ReplayFacts DEF MarkRetrying, Replaying
  <2>2. /\ failure' = IF failure[d] = "none" THEN failure
                                             ELSE [failure EXCEPT ![d] = "RETRYING"]
        /\ replay' = [replay EXCEPT ![r] = IF failure[d] = "none" THEN NoReplay
                                           ELSE [replay[r] EXCEPT !.pc = "send"]]
        /\ UNCHANGED <<delivery, received, seenOk, unrecorded>>
    BY <1>0, <1>2, <2>1 DEF MarkRetrying, Marked
  <2>3. /\ [replay[r] EXCEPT !.pc = "send"] \in Running
        /\ [replay[r] EXCEPT !.pc = "send"].pc = "send"
    BY <2>1 DEF Running
  <2>4. /\ replay' \in [Replayers -> {NoReplay} \cup Running]
        /\ replay'[r].pc # "delete"
        /\ \A x \in Replayers \ {r} : replay'[x] = replay[x]
    BY <1>0, <2>2, <2>3
  <2>5. /\ failure' \in [Deliveries -> {"none", "FAILED", "RETRYING"}]
        /\ \A x \in Deliveries : failure'[x] = "none" => failure[x] = "none"
    BY <1>0, <2>1, <2>2
  <2>6. TypeOK'
    BY <2>2, <2>4, <2>5 DEF TypeOK, Running
  <2> QED
    BY <2>2, <2>4, <2>5, <2>6 DEF NothingDropped, DeletesWhatArrived
<1>3. CASE SendReplay(r)
  <2>1. PICK d \in Deliveries : d = replay[r].of /\ replay[r] \in Running
    BY <1>3, ReplayFacts DEF SendReplay, Replaying
  <2>2. PICK answer \in Answers, next \in {"delete", "fail", "catch"} :
           /\ Request(d, answer)
           /\ next = "delete" => answer = "ok"
           /\ replay' = [replay EXCEPT ![r].pc = next]
    BY <1>3, <2>1 DEF SendReplay, Answers
  <2>3. UNCHANGED <<delivery, failure, unrecorded>>
    BY <1>3 DEF SendReplay
  <2>4. /\ seenOk \subseteq seenOk' /\ seenOk' \subseteq received'
        /\ received' \subseteq Deliveries
        /\ answer = "ok" => d \in seenOk'
    BY <2>2, RequestRemembers
  <2>5. /\ [replay[r] EXCEPT !.pc = next] \in Running
        /\ [replay[r] EXCEPT !.pc = next].pc = next
        /\ [replay[r] EXCEPT !.pc = next].of = d
    BY <2>1 DEF Running
  <2>6. /\ replay' \in [Replayers -> {NoReplay} \cup Running]
        /\ replay'[r].pc = next /\ replay'[r].of = d
        /\ \A x \in Replayers \ {r} : replay'[x] = replay[x]
    BY <1>0, <2>2, <2>5
  <2>7. TypeOK'
    BY <2>3, <2>4, <2>6 DEF TypeOK, Running
  <2>8. NothingDropped'
    BY <2>3, <2>4 DEF NothingDropped
  <2>9. DeletesWhatArrived'
    BY <2>2, <2>4, <2>6 DEF DeletesWhatArrived
  <2> QED
    BY <2>7, <2>8, <2>9
<1>4. CASE DeleteFailure(r)
  <2>1. PICK d \in Deliveries : d = replay[r].of /\ d \in seenOk
    BY <1>4, ReplayFacts DEF DeleteFailure, Replaying, DeletesWhatArrived
  <2>2. /\ failure' = [failure EXCEPT ![d] = "none"]
        /\ replay' = [replay EXCEPT ![r] = NoReplay]
        /\ UNCHANGED <<delivery, received, seenOk, unrecorded>>
    BY <1>4, <2>1 DEF DeleteFailure
  <2>3. TypeOK'
    BY <1>0, <2>1, <2>2 DEF TypeOK
  <2> QED
    BY <1>0, <2>1, <2>2, <2>3 DEF NothingDropped, DeletesWhatArrived
<1>5. CASE MarkFailed(r)
  <2>1. PICK d \in Deliveries : d = replay[r].of
    BY <1>5, ReplayFacts DEF MarkFailed, Replaying
  <2>2. /\ failure' = IF failure[d] = "none" THEN failure
                                             ELSE [failure EXCEPT ![d] = "FAILED"]
        /\ replay' = [replay EXCEPT ![r] = NoReplay]
        /\ UNCHANGED <<delivery, received, seenOk, unrecorded>>
    BY <1>5, <2>1 DEF MarkFailed, AfterFail
  <2>3. TypeOK'
    BY <1>0, <2>1, <2>2 DEF TypeOK
  <2> QED
    BY <1>0, <2>1, <2>2, <2>3 DEF NothingDropped, DeletesWhatArrived
<1>6. CASE ReplayThrows(r)
  <2>1. replay[r] \in Running
    BY <1>6, ReplayFacts DEF ReplayThrows
  <2>2. /\ replay' = [replay EXCEPT ![r] =
              IF replay[r].pc \in {"delete", "fail"} THEN [replay[r] EXCEPT !.pc = "catch"]
                                                     ELSE NoReplay]
        /\ UNCHANGED <<delivery, failure, received, seenOk, unrecorded>>
    BY <1>0, <1>6 DEF ReplayThrows
  <2>3. /\ [replay[r] EXCEPT !.pc = "catch"] \in Running
        /\ [replay[r] EXCEPT !.pc = "catch"].pc = "catch"
    BY <2>1 DEF Running
  <2>4. /\ replay' \in [Replayers -> {NoReplay} \cup Running]
        /\ replay'[r].pc # "delete"
        /\ \A x \in Replayers \ {r} : replay'[x] = replay[x]
    BY <1>0, <2>2, <2>3
  <2>5. TypeOK'
    BY <2>2, <2>4 DEF TypeOK, Running
  <2> QED
    BY <2>2, <2>4, <2>5 DEF NothingDropped, DeletesWhatArrived
<1> QED
  BY <1>1, <1>2, <1>3, <1>4, <1>5, <1>6 DEF replayFailure

\* Every step, a crash included.
LEMMA NextInv == Inv /\ [Next]_vars => Inv'
<1> SUFFICES ASSUME Inv, [Next]_vars PROVE Inv'
  OBVIOUS
<1>1. CASE Crash
  <2>0. /\ delivery \in [Deliveries -> [pc : {"new", "send", "persist", "done", "lost"},
                                        attempt : 0..MAX_ATTEMPTS]]
        /\ NoReplay.pc = "idle"
    BY DEF Inv, TypeOK, NoReplay
  <2>1. /\ delivery' = [d \in Deliveries |->
              IF delivery[d].pc \in {"send", "persist"} THEN [delivery[d] EXCEPT !.pc = "lost"]
              ELSE delivery[d]]
        /\ replay' = [r \in Replayers |-> NoReplay]
        /\ UNCHANGED <<failure, received, seenOk, unrecorded>>
    BY <1>1 DEF Crash
  <2>2. \A d \in Deliveries : [delivery[d] EXCEPT !.pc = "lost"].pc = "lost"
    BY <2>0
  <2>3. /\ delivery' \in [Deliveries -> [pc : {"new", "send", "persist", "done", "lost"},
                                         attempt : 0..MAX_ATTEMPTS]]
        /\ \A d \in Deliveries : delivery'[d].pc = "done" => delivery[d].pc = "done"
    BY <2>0, <2>1, <2>2
  <2>4. TypeOK'
    BY <2>1, <2>3 DEF Inv, TypeOK
  <2> QED
    BY <2>0, <2>1, <2>3, <2>4 DEF Inv, NothingDropped, DeletesWhatArrived
<1>2. CASE UNCHANGED vars
  BY <1>2 DEF vars, Inv, TypeOK, NothingDropped, DeletesWhatArrived
<1> QED
  BY <1>1, <1>2, DeliverInv, ReplayInv DEF Next

\* No delivery vanishes: when it has ended, the endpoint is known to have it,
\* or there is a failure record, or the record could not be written.
THEOREM NothingIsDropped == FairSpec => []NothingDropped
<1>1. Init => Inv
  BY WebhooksAssumption DEF Init, Inv, TypeOK, NothingDropped, DeletesWhatArrived, NoReplay
<1>2. Inv /\ [Next]_vars => Inv'
  BY NextInv
<1>3. Inv => NothingDropped
  BY DEF Inv
<1> QED
  BY <1>1, <1>2, <1>3, PTL DEF FairSpec
=============================================================================
