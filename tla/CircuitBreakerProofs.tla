------------------------ MODULE CircuitBreakerProofs ------------------------
(***************************************************************************)
(* Proofs about CircuitBreaker, for any number of callers and any limits.  *)
(* The type invariant bounds the attempts of a call, and is not inductive  *)
(* alone: that a pausing caller has an attempt left is the missing part.   *)
(***************************************************************************)
EXTENDS CircuitBreaker, TLAPS

\* A caller pauses only when it may try again.
AttemptLeft == \A c \in Callers : pc[c] = "pausing" => attempt[c] < maxAttempts

TypeInv == TypeOK /\ AttemptLeft

\* Every variable keeps its type, whichever caller takes a step: the failures
\* stay within the threshold and the attempts within maxAttempts.
LEMMA TypeStep == TypeInv /\ [Next]_vars => TypeInv'
  <1> SUFFICES ASSUME TypeInv, [Next]_vars PROVE TypeInv'
    OBVIOUS
  <1> USE BreakerAssumption DEF TypeInv, TypeOK, AttemptLeft
  <1>1. ASSUME NEW c \in Callers, Step(c) PROVE TypeInv'
    <2>1. CASE Refuse(c)
      BY <2>1 DEF Refuse, isOpen
    <2>2. CASE Admit(c)
      BY <2>2 DEF Admit, Passes
    <2>3. CASE Succeed(c)
      BY <2>3 DEF Succeed, recordSuccess
    <2>4. CASE Fail(c)
      BY <2>4 DEF Fail, recordFailure
    <2>5. CASE Retry(c)
      BY <2>5 DEF Retry, breakerVars
    <2>6. CASE Return(c)
      BY <2>6 DEF Return, breakerVars
    <2> QED
      BY <1>1, <2>1, <2>2, <2>3, <2>4, <2>5, <2>6 DEF Step
  <1>2. CASE Tick
    BY <1>2 DEF Tick, Elapsed
  <1>3. CASE EndpointChanges
    BY <1>3 DEF EndpointChanges, breakerVars
  <1>4. CASE UNCHANGED vars
    BY <1>4 DEF vars
  <1> QED
    BY <1>1, <1>2, <1>3, <1>4 DEF Next

\* The strengthened type invariant holds.
LEMMA TypeInvHolds == Spec => []TypeInv
  <1>1. Init => TypeInv
    BY BreakerAssumption DEF Init, TypeInv, TypeOK, AttemptLeft
  <1> QED
    BY <1>1, TypeStep, PTL DEF Spec

\* No call of withRetry makes more than maxAttempts attempts, and the breaker
\* never counts past its threshold.
THEOREM BreakerTypes == Spec => []TypeOK
  <1>1. TypeInv => TypeOK
    BY DEF TypeInv
  <1> QED
    BY <1>1, TypeInvHolds, PTL

\* recordSuccess, recordFailure and isOpen of any number of interleaved calls
\* keep the state and the count of failures in agreement.
THEOREM ClosedMeansBelowThreshold == Spec => []ClosedBelowThreshold
  <1>1. Init => ClosedBelowThreshold
    BY BreakerAssumption DEF Init, ClosedBelowThreshold
  <1>2. TypeInv /\ ClosedBelowThreshold /\ [Next]_vars => ClosedBelowThreshold'
    <2> SUFFICES ASSUME TypeInv, ClosedBelowThreshold, [Next]_vars
                 PROVE  ClosedBelowThreshold'
      OBVIOUS
    <2> USE BreakerAssumption DEF ClosedBelowThreshold, TypeInv, TypeOK
    <2>1. ASSUME NEW c \in Callers, Step(c) PROVE ClosedBelowThreshold'
      BY <2>1 DEF Step, Refuse, Admit, Succeed, Fail, Retry, Return,
                  isOpen, Passes, recordSuccess, recordFailure, breakerVars
    <2>2. CASE Tick \/ EndpointChanges \/ UNCHANGED vars
      BY <2>2 DEF Tick, EndpointChanges, vars, breakerVars
    <2> QED
      BY <2>1, <2>2 DEF Next
  <1> QED
    BY <1>1, <1>2, TypeInvHolds, PTL DEF Spec

\* An open breaker lets nobody in: whoever still makes attempts was let in
\* before the failure that opened it.
THEOREM NobodyAdmittedWhileOpen == Spec => []OpenAdmitsNobody
  <1>1. Init => OpenAdmitsNobody
    BY DEF Init, OpenAdmitsNobody
  <1>2. TypeInv /\ OpenAdmitsNobody /\ [Next]_vars => OpenAdmitsNobody'
    <2> SUFFICES ASSUME TypeInv, OpenAdmitsNobody, [Next]_vars
                 PROVE  OpenAdmitsNobody'
      OBVIOUS
    <2> USE DEF OpenAdmitsNobody, Active, TypeInv, TypeOK
    <2>1. ASSUME NEW c \in Callers, Step(c) PROVE OpenAdmitsNobody'
      <3>1. CASE Refuse(c) \/ Retry(c) \/ Return(c)
        BY <3>1 DEF Refuse, isOpen, Retry, Return, breakerVars
      <3>2. CASE Admit(c) \/ Succeed(c)
        BY <3>2 DEF Admit, Passes, Succeed, recordSuccess
      <3>3. CASE Fail(c)
        BY <3>3 DEF Fail, recordFailure
      <3> QED
        BY <2>1, <3>1, <3>2, <3>3 DEF Step
    <2>2. CASE Tick \/ EndpointChanges \/ UNCHANGED vars
      BY <2>2 DEF Tick, EndpointChanges, vars, breakerVars
    <2> QED
      BY <2>1, <2>2 DEF Next
  <1> QED
    BY <1>1, <1>2, TypeInvHolds, PTL DEF Spec
=============================================================================
