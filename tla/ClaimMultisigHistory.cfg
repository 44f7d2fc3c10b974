\* A proposal is finalized over an attestation with the same id.
SPECIFICATION WorkflowFeedSpec
CONSTANTS
    i1 = i1  i2 = i2  i3 = i3  s1 = s1  a1 = a1  kyc = kyc  acc = acc  None = None
    Admins = {a1}
    Bridges = {}
    Subjects = {s1}
    Delegates = {}
    Sources = {}
    Endorsers = {}
    DefaultLimits <- MCWideLimits
    LimitChoices = {}
    IntervalChoices = {}
    RegistrableClaims = {}
    RegistryFlags = {}
    WhitelistIssuers = {}
    ValidFroms = {None}
    MaxBatch = 50
    Accredited = acc
    Issuers = {i1, i2, i3}
    ClaimTypes = {kyc}
    SignerLists <- MCSignerLists
    PremiumIssuers = {}
    MaxProposals = 2
    MaxRequests = 2
    MaxStored = 2
    Requesters = {}
    Responders = {}
    PauseReasons = {}
    RemovableIssuers = {}
    MaxTotalIssuers = 2
    MaxTime = 1
    MaxAttestations = 2
    MaxAuditEntries = 3
    ProposalTTL = 1
    RequestTTL = 1
    Expirations = {None}
PROPERTIES
    DeletionIsFinal
