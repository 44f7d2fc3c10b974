\* Events handled again by a reindex job and after a restart with START_LEDGER.
SPECIFICATION Spec
CONSTANTS
    Topics = {"created", "revoked", "att_req", "req_ful", "req_rej", "ms_prop", "ms_actv", "ms_sign", "iss_reg"}
    PageLimit = 2
    StartLedger = 1
    MaxLedger = 3
    MaxEventsPerLedger = 1
    MaxCrashes = 1
    MaxReindexes = 1
    MaxFailures = 0
PROPERTIES
    TerminalStatesStick
