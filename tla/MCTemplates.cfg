\* Templates written through both functions, deleted and used while the issuer is
\* removed and registered again and the registry, its flags, the whitelist and
\* the delegations change.
SPECIFICATION TemplatesSpec
CONSTANTS
    i1 = i1  s1 = s1  a1 = a1  d1 = d1  kyc = kyc  aml = aml  n1 = n1  n2 = n2  None = None
    Admins = {a1}
    Issuers = {i1}
    Bridges = {}
    Subjects = {s1}
    Delegates = {d1}
    ClaimTypes = {kyc, aml}
    Sources = {}
    PauseReasons = {}
    RemovableIssuers = {i1}
    Endorsers = {}
    MaxTotalIssuers = 1
    DefaultLimits <- MCWideLimits
    LimitChoices = {}
    IntervalChoices = {}
    RegistrableClaims = {kyc}
    RegistryFlags = {TRUE, FALSE}
    WhitelistIssuers = {i1}
    Expirations = {None, 1}
    ValidFroms = {None}
    MaxTime = 1
    MaxAttestations = 1
    MaxAuditEntries = 1
    MaxBatch = 50
    Names = {n1, n2}
    Lifetimes = {1}
INVARIANTS
    DelegationListingExact
PROPERTIES
    ImplementsTemplateLists
    TemplatesGiveNoExemption
