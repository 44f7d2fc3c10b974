\* Storage limits and rate limits, changed while attestations are created one by
\* one, in batches and by a delegate, revoked, deleted and imported.
SPECIFICATION Spec
SYMMETRY MCSymmetry
CONSTANTS
    i1 = i1  s1 = s1  s2 = s2  a1 = a1  d1 = d1  kyc = kyc  aml = aml  None = None
    Admins = {a1}
    Issuers = {i1}
    Bridges = {}
    Subjects = {s1, s2}
    Delegates = {d1}
    ClaimTypes = {kyc, aml}
    Sources = {}
    PauseReasons = {}
    RemovableIssuers = {}
    Endorsers = {}
    MaxTotalIssuers = 1
    DefaultLimits <- MCTightLimits
    LimitChoices <- MCLimitChoices
    IntervalChoices = {1}
    RegistrableClaims = {}
    RegistryFlags = {}
    WhitelistIssuers = {}
    Expirations = {None}
    ValidFroms = {None}
    MaxTime = 1
    MaxAttestations = 2
    MaxAuditEntries = 3
    MaxBatch = 50
PROPERTIES
    IssuanceWithinLimits
    RateLimitSpaced
