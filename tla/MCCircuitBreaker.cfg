\* Three callers share a breaker that opens after two failures.
SPECIFICATION FairSpec
CONSTANTS
    Callers = {c1, c2, c3}
    maxAttempts = 2
    failureThreshold = 2
    ResetTimeout = 2
INVARIANTS
    ClosedBelowThreshold
    
PROPERTIES
    CallsEnd
    Recovers
