\* Who may change an attestation: registration, removal and re-registration of
\* issuers, an address that may become a bridge, pauses, endorsements.
SPECIFICATION FeedSpec
CONSTANTS
    i1 = i1  i2 = i2  b1 = b1  s1 = s1  s2 = s2  a1 = a1  d1 = d1
    kyc = kyc  aml = aml  tx1 = tx1  None = None
    Admins = {a1}
    Issuers = {i1, i2}
    Bridges = {i2}
    Subjects = {s1}
    Delegates = {}
    ClaimTypes = {kyc}
    Sources = {tx1}
    PauseReasons = {None}
    RemovableIssuers = {i1, i2}
    Endorsers = {i2}
    MaxTotalIssuers = 2
    DefaultLimits <- MCWideLimits
    LimitChoices = {}
    IntervalChoices = {}
    RegistrableClaims = {}
    RegistryFlags = {}
    WhitelistIssuers = {}
    Expirations = {None, 2}
    ValidFroms = {1}
    MaxTime = 1
    MaxAttestations = 1
    MaxAuditEntries = 3
    MaxBatch = 50
    ChunkSize = 1
    Rank <- MCRank
    Unknown = Unknown

    
PROPERTIES
    PausedFreezesIssuance
    OnlyRegisteredOwnersChange
