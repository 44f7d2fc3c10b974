\* Proposals of three issuers and the requests of one subject, interleaved.
SPECIFICATION WorkflowFeedSpec
CONSTANTS
    i1 = i1  i2 = i2  i3 = i3  s1 = s1  a1 = a1  kyc = kyc  acc = acc  None = None
    Admins = {a1}
    Bridges = {}
    Subjects = {s1}
    Delegates = {}
    Sources = {}
    Endorsers = {}
    DefaultLimits <- MCWideLimits
    LimitChoices = {}
    IntervalChoices = {}
    RegistrableClaims = {}
    RegistryFlags = {}
    WhitelistIssuers = {}
    ValidFroms = {None}
    MaxBatch = 50
    Accredited = acc
    Issuers = {i1, i2, i3}
    ClaimTypes = {acc}
    SignerLists <- MCSignerLists
    PremiumIssuers = {i1}
    MaxProposals = 1
    MaxRequests = 2
    MaxStored = 2
    Requesters = {s1}
    Responders = {i1}
    PauseReasons = {}
    RemovableIssuers = {}
    MaxTotalIssuers = 3
    MaxTime = 1
    MaxAttestations = 1
    MaxAuditEntries = 0
    ProposalTTL = 1
    RequestTTL = 1
    Expirations = {None}
INVARIANTS
    PendingListExact
    FinalizedIsSigned
    FeedDeterminesWorkflows
PROPERTIES
    AnsweredOnce
