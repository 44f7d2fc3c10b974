------------------------------- MODULE Policy -------------------------------
(***************************************************************************)
(* What an issuance is checked against: storage limits, rate limits,       *)
(* whitelists, the claim type registry and delegations (the setters of     *)
(* admin.rs, the checks of attestation.rs and validation.rs).              *)
(***************************************************************************)
EXTENDS Registry

CONSTANTS
    DefaultLimits,     \* StorageLimits::default()
    LimitChoices,      \* limits an admin may set
    IntervalChoices,   \* rate limit intervals an admin may set, in seconds
    RegistrableClaims, \* claim types an admin may register
    RegistryFlags,     \* values given to set_require_registered_claim_type
    WhitelistIssuers,  \* issuers that use whitelists
    MaxBatch,          \* MAX_BATCH of the bulk operations
    Expirations,       \* expiration values callers pass
    ValidFroms         \* valid_from values callers pass

StorageLimits == [max_attestations_per_issuer : Nat, max_attestations_per_subject : Nat]

ASSUME PolicyAssumption ==
    /\ DefaultLimits \in StorageLimits
    /\ LimitChoices \subseteq StorageLimits
    /\ IntervalChoices \subseteq Nat
    /\ RegistryFlags \subseteq BOOLEAN
    /\ RegistrableClaims \subseteq ClaimTypes
    /\ WhitelistIssuers \subseteq Issuers
    /\ MaxBatch \in Nat
    /\ Expirations \subseteq OptionTime
    /\ ValidFroms \subseteq OptionTime

VARIABLES
    limits,            \* StorageKey::StorageLimits
    rateLimit,         \* RateLimitConfig.min_issuance_interval, None if unset
    claimRateLimit,    \* StorageKey::ClaimTypeRateLimit
    lastIssuance,      \* StorageKey::LastIssuance
    whitelistMode,     \* issuers whose StorageKey::WhitelistEnabled is true
    whitelist,         \* StorageKey::Whitelist, pairs <<issuer, subject>>
    claimRegistry,     \* StorageKey::ClaimType
    requireRegistered, \* ContractConfig.require_registered_claim_type
    delegations,       \* StorageKey::Delegation: key -> expiration
    delegatorIndex     \* StorageKey::DelegatorIndex, without its order

delegationVars == <<delegations, delegatorIndex>>
whitelistVars == <<whitelistMode, whitelist>>
claimVars == <<claimRegistry, requireRegistered>>
rateVars == <<rateLimit, claimRateLimit, lastIssuance>>
policyVars == <<limits, rateVars, whitelistVars, claimVars, delegationVars>>

-----------------------------------------------------------------------------
(* Checks *)

validate_native_expiration(e) == e # None => e > now

validate_valid_from(v) == v # None => v > now

validate_import_timestamps(timestamp, expiration) ==
    /\ timestamp <= now
    /\ expiration # None => expiration > timestamp

require_registered_claim_type(claimType) ==
    requireRegistered => claimType \in claimRegistry

WhitelistAllows(issuer, subject) ==
    issuer \in whitelistMode => <<issuer, subject>> \in whitelist

\* The override of the claim type replaces the global interval, a zero
\* interval and an unset one both mean no limit.
RateInterval(claimType) ==
    CASE claimRateLimit[claimType] # None -> claimRateLimit[claimType]
      [] claimRateLimit[claimType] = None /\ rateLimit # None -> rateLimit
      [] OTHER -> 0

check_rate_limit(issuer, claimType) ==
    RateInterval(claimType) # 0 /\ lastIssuance[issuer] # None
       => now - lastIssuance[issuer] >= RateInterval(claimType)

\* Slip: the count before the addition is compared.
IssuerHasRoom_OffByOne(issuer, n) ==
    Len32(issuerIndex[issuer]) <= limits.max_attestations_per_issuer

\* Room for n more entries in the flat index of an issuer, of a subject.
IssuerHasRoom(issuer, n) ==
    Len32(issuerIndex[issuer]) + n <= limits.max_attestations_per_issuer

SubjectHasRoom(subject) ==
    Len32(subjectIndex[subject]) < limits.max_attestations_per_subject

\* Slip: only the first issuance is recorded.
set_last_issuance_time_First(issuer) ==
    lastIssuance' = [lastIssuance EXCEPT ![issuer] = IF @ = None THEN now ELSE @]

set_last_issuance_time(issuer) ==
    lastIssuance' = [lastIssuance EXCEPT ![issuer] = now]

DelegationActive(key) ==
    /\ key \in DOMAIN delegations
    /\ delegations[key] # None => now < delegations[key]

-----------------------------------------------------------------------------
(* Storage of the claim type registry and of the delegations *)

set_claim_type(claimType) == claimRegistry' = claimRegistry \cup {claimType}

DelegationKey(issuer, delegate, claimType) == <<issuer, delegate, claimType>>

\* A second delegation of the same key replaces the expiration of the first
\* and is listed once.
set_delegation(issuer, delegate, claimType, expiration) ==
    LET key == DelegationKey(issuer, delegate, claimType)
    IN  /\ delegations' = [k \in DOMAIN delegations \cup {key} |->
                              IF k = key THEN expiration ELSE delegations[k]]
        /\ delegatorIndex' =
              [delegatorIndex EXCEPT ![issuer] = @ \cup {<<delegate, claimType>>}]

\* Slip: the entry is taken off the list but stays in storage.
remove_delegation_IndexOnly(issuer, delegate, claimType) ==
    /\ delegatorIndex' =
          [delegatorIndex EXCEPT ![issuer] = @ \ {<<delegate, claimType>>}]
    /\ UNCHANGED delegations

remove_delegation(issuer, delegate, claimType) ==
    LET key == DelegationKey(issuer, delegate, claimType)
    IN  /\ delegations' = [k \in DOMAIN delegations \ {key} |-> delegations[k]]
        /\ delegatorIndex' =
              [delegatorIndex EXCEPT ![issuer] = @ \ {<<delegate, claimType>>}]

-----------------------------------------------------------------------------
(* Settings of the admins *)

set_limits(l) ==
    /\ limits' = l
    /\ UNCHANGED <<rateVars, whitelistVars, claimVars, delegationVars>>

set_rate_limit(interval) ==
    /\ rateLimit' = interval
    /\ UNCHANGED <<claimRateLimit, lastIssuance, limits, whitelistVars, claimVars,
                   delegationVars>>

set_rate_limit_for_claim_type(claimType, interval) ==
    /\ claimRateLimit' = [claimRateLimit EXCEPT ![claimType] = interval]
    /\ UNCHANGED <<rateLimit, lastIssuance, limits, whitelistVars, claimVars,
                   delegationVars>>

register_claim_type(claimType) ==
    /\ set_claim_type(claimType)
    /\ UNCHANGED <<requireRegistered, limits, rateVars, whitelistVars, delegationVars>>

set_require_registered_claim_type(require) ==
    /\ requireRegistered' = require
    /\ UNCHANGED <<claimRegistry, limits, rateVars, whitelistVars, delegationVars>>

-----------------------------------------------------------------------------
(* Settings of an issuer *)

set_whitelist_enabled(issuer, enabled) ==
    /\ require_issuer(issuer)
    /\ whitelistMode' = IF enabled THEN whitelistMode \cup {issuer}
                                   ELSE whitelistMode \ {issuer}
    /\ UNCHANGED <<whitelist, limits, rateVars, claimVars, delegationVars>>

\* One subject (add_to_whitelist) or several (bulk_add_to_whitelist).
bulk_add_to_whitelist(issuer, subjects) ==
    /\ require_issuer(issuer)
    /\ Cardinality(subjects) <= MaxBatch
    /\ whitelist' = whitelist \cup ({issuer} \X subjects)
    /\ UNCHANGED <<whitelistMode, limits, rateVars, claimVars, delegationVars>>

remove_from_whitelist(issuer, subject) ==
    /\ require_issuer(issuer)
    /\ whitelist' = whitelist \ {<<issuer, subject>>}
    /\ UNCHANGED <<whitelistMode, limits, rateVars, claimVars, delegationVars>>

delegate_claim_type(issuer, delegate, claimType, expiration) ==
    /\ require_issuer(issuer)
    /\ issuer # delegate
    /\ validate_native_expiration(expiration)
    /\ set_delegation(issuer, delegate, claimType, expiration)
    /\ UNCHANGED <<limits, rateVars, whitelistVars, claimVars>>

revoke_delegation(issuer, delegate, claimType) ==
    /\ require_issuer(issuer)
    /\ DelegationKey(issuer, delegate, claimType) \in DOMAIN delegations
    /\ remove_delegation(issuer, delegate, claimType)
    /\ UNCHANGED <<limits, rateVars, whitelistVars, claimVars>>

\* The delegations in force that the index of a delegator leads to.
list_delegations_by_delegator(delegator) ==
    {key \in {DelegationKey(delegator, e[1], e[2]) : e \in delegatorIndex[delegator]} :
        DelegationActive(key)}

-----------------------------------------------------------------------------

PolicyInit ==
    /\ limits = DefaultLimits
    /\ rateLimit = None
    /\ claimRateLimit = [c \in ClaimTypes |-> None]
    /\ lastIssuance = [i \in Issuers |-> None]
    /\ whitelistMode = {}
    /\ whitelist = {}
    /\ claimRegistry = {}
    /\ requireRegistered = FALSE
    /\ delegations = [k \in {} |-> None]
    /\ delegatorIndex = [i \in Issuers |-> {}]

AdminSetting ==
    /\ Admins # {}
    /\ \/ \E l \in LimitChoices : set_limits(l)
       \/ \E n \in IntervalChoices : set_rate_limit(n)
       \/ \E c \in ClaimTypes, n \in IntervalChoices :
             set_rate_limit_for_claim_type(c, n)
       \/ \E c \in RegistrableClaims : register_claim_type(c)
       \/ \E b \in RegistryFlags : set_require_registered_claim_type(b)

WhitelistSetting ==
    \E i \in WhitelistIssuers :
       \/ \E b \in BOOLEAN : set_whitelist_enabled(i, b)
       \/ \E S \in SUBSET Subjects : bulk_add_to_whitelist(i, S)
       \/ \E s \in Subjects : remove_from_whitelist(i, s)

DelegationSetting ==
    \E i \in Issuers, d \in Delegates, c \in ClaimTypes :
       \/ \E e \in Expirations : delegate_claim_type(i, d, c, e)
       \/ revoke_delegation(i, d, c)

PolicyNext == AdminSetting \/ WhitelistSetting \/ DelegationSetting

PolicyTypeOK ==
    /\ limits \in StorageLimits
    /\ rateLimit \in OptionTime
    /\ claimRateLimit \in [ClaimTypes -> OptionTime]
    /\ lastIssuance \in [Issuers -> OptionTime]
    /\ whitelistMode \subseteq Issuers
    /\ whitelist \subseteq Issuers \X Subjects
    /\ claimRegistry \subseteq ClaimTypes
    /\ requireRegistered \in BOOLEAN
    /\ DOMAIN delegations \subseteq Issuers \X Delegates \X ClaimTypes
    /\ \A k \in DOMAIN delegations : delegations[k] \in OptionTime
    /\ delegatorIndex \in [Issuers -> SUBSET (Delegates \X ClaimTypes)]
=============================================================================
