\* Deliveries and concurrent replays with a crash and a failing call.
SPECIFICATION FairSpec
CONSTANTS
    Deliveries = {d1, d2}
    Replayers = {r1, r2}
    MAX_ATTEMPTS = 2
    MaxReplays = 4
    MaxCrashes = 1
    MaxDbErrors = 1
CHECK_DEADLOCK FALSE

    
PROPERTIES
    DeliveriesEnd
    RetryingEnds
