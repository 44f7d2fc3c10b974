\* Crashes and failing calls, one event per ledger.
SPECIFICATION FairSpec
CONSTANTS
    Topics = {"created", "revoked", "ms_prop", "ms_sign", "ms_actv"}
    PageLimit = 2
    StartLedger = 0
    MaxLedger = 4
    MaxEventsPerLedger = 1
    MaxCrashes = 2
    MaxReindexes = 0
    MaxFailures = 1
INVARIANTS
    CheckpointCovers
    

    
