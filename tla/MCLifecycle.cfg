\* The life cycle of attestations under the default policy: two issuers that
\* transfer, revoke in batches and renew, one bridge, one subject.
SPECIFICATION FeedSpec
CONSTANTS
    i1 = i1  i2 = i2  b1 = b1  s1 = s1  s2 = s2  a1 = a1  d1 = d1
    kyc = kyc  aml = aml  tx1 = tx1  None = None
    Admins = {a1}
    Issuers = {i1, i2}
    Bridges = {}
    Subjects = {s1}
    Delegates = {}
    ClaimTypes = {kyc}
    Sources = {}
    PauseReasons = {}
    RemovableIssuers = {}
    Endorsers = {}
    MaxTotalIssuers = 2
    DefaultLimits <- MCWideLimits
    LimitChoices = {}
    IntervalChoices = {}
    RegistrableClaims = {}
    RegistryFlags = {}
    WhitelistIssuers = {}
    Expirations = {None, 1}
    ValidFroms = {None}
    MaxTime = 1
    MaxAttestations = 2
    MaxAuditEntries = 4
    MaxBatch = 50
    ChunkSize = 1
    Rank <- MCRank
    Unknown = Unknown
INVARIANTS
    TypeOK
    ClaimQueriesAgree
    
    IndexInv
    StatsMatchRecords
    AuditExplainsRecord
    PagesCover
    CursorResumes
    FeedDeterminesRecords
PROPERTIES
    HistoryImmutable
    ImplementsClaimRegistry
    ImplementsIdList
