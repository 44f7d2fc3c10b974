\* Pages that end inside a ledger, a crash and a failing call.
SPECIFICATION Spec
CONSTANTS
    Topics = {"imported", "revoked", "ms_prop"}
    PageLimit = 3
    StartLedger = 0
    MaxLedger = 4
    MaxEventsPerLedger = 2
    MaxCrashes = 1
    MaxReindexes = 0
    MaxFailures = 1
INVARIANTS
    SkipsOnlyTails
