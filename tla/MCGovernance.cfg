\* Three addresses, councils that are replaced and handed over, one proposal.
SPECIFICATION Spec
CONSTANTS
    Addresses = {a1, a2, a3}
    Issuers = {i1}
    None = None
    MaxMembers = 2
    MaxProposals = 1
INVARIANTS
    ApprovalsDistinct
    AdminsFollowFromEvents
PROPERTIES
    ExecutedIsFinal
    NeverEmptiedAtOnce
