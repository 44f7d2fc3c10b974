---------------------------- MODULE Attestations ----------------------------
(***************************************************************************)
(* The attestation life cycle of the TrustLink contract: the entry points  *)
(* of attestation.rs and the claim queries of query.rs, composed with the  *)
(* registries and the issuance policy.                                     *)
(*                                                                         *)
(* A contract invocation is atomic: one that returns an error or traps     *)
(* changes nothing, so a call whose checks fail is no step of the model.   *)
(* Several invocations may see the same ledger timestamp.                  *)
(***************************************************************************)
EXTENDS Policy, FiniteSetsExt

CONSTANTS
    Endorsers,         \* issuers that endorse attestations of others
    MaxTime,           \* bound of the model on the ledger timestamp
    MaxAttestations,   \* bound of the model on the records stored
    MaxAuditEntries    \* bound of the model on all the audit entries

ASSUME EndorsersAssumption == Endorsers \subseteq Issuers

ASSUME BoundAssumption ==
    {MaxTime, MaxAttestations, MaxAuditEntries} \subseteq Nat

VARIABLE
    endorsements       \* StorageKey::Endorsements: id -> endorsers

vars == <<ledgerVars, registryVars, policyVars, endorsements>>

StorageHasRoom(n) == Cardinality(DOMAIN attestations) + n <= MaxAttestations

AuditSize == MapThenSumSet(LAMBDA id : Len(auditLog[id]), DOMAIN auditLog)

AuditHasRoom(n) == AuditSize + n <= MaxAuditEntries

-----------------------------------------------------------------------------
(* Creation *)

\* Slip: an id that is in use is not refused.
Create_Overwrite(id, a, actor) ==
    /\ StorageHasRoom(1)
    /\ AuditHasRoom(1)
    /\ store_attestation(id, a)
    /\ append_audit_entry({id}, Entry("Created", actor, a.timestamp, None))
    /\ UNCHANGED <<now, registryVars, endorsements>>

\* A new record under a new id, with its Created entry.
Create(id, a, actor) ==
    /\ ~has_attestation(id)
    /\ StorageHasRoom(1)
    /\ AuditHasRoom(1)
    /\ store_attestation(id, a)
    /\ append_audit_entry({id}, Entry("Created", actor, a.timestamp, None))
    /\ UNCHANGED <<now, registryVars, endorsements>>

create_attestation_internal(issuer, subject, claimType, expiration, validFrom) ==
    /\ require_not_paused
    /\ require_issuer(issuer)
    /\ require_registered_claim_type(claimType)
    /\ validate_native_expiration(expiration)
    /\ validate_valid_from(validFrom)
    /\ issuer # subject
    /\ WhitelistAllows(issuer, subject)
    /\ check_rate_limit(issuer, claimType)
    /\ IssuerHasRoom(issuer, 1)
    /\ SubjectHasRoom(subject)
    /\ Create(generate_id(issuer, subject, claimType, now),
              NewAttestation(issuer, subject, claimType, now, expiration,
                             validFrom, "Native"),
              issuer)
    /\ set_last_issuance_time(issuer)
    /\ UNCHANGED <<limits, rateLimit, claimRateLimit, whitelistVars, claimVars,
                   delegationVars>>

import_attestation(admin, issuer, subject, claimType, timestamp, expiration) ==
    /\ require_not_paused
    /\ require_issuer(issuer)
    /\ validate_import_timestamps(timestamp, expiration)
    /\ Create(generate_id(issuer, subject, claimType, timestamp),
              NewAttestation(issuer, subject, claimType, timestamp, expiration,
                             None, "Imported"),
              admin)
    /\ UNCHANGED policyVars

bridge_attestation(bridge, subject, claimType, source) ==
    /\ require_bridge(bridge)
    /\ require_not_paused
    /\ Create(generate_bridge_id(bridge, subject, claimType, source, now),
              NewAttestation(bridge, subject, claimType, now, None, None, "Bridged"),
              bridge)
    /\ UNCHANGED policyVars

\* A repeated subject makes the call fail, so the subjects are a set.
create_attestations_batch(issuer, subjects, claimType, expiration) ==
    LET batchId(s) == generate_id(issuer, s, claimType, now)
        ids == {batchId(s) : s \in subjects}
        new == [id \in ids |->
                  NewAttestation(issuer, id.subject, claimType, now, expiration,
                                 None, "Native")]
    IN  /\ require_issuer(issuer)
        /\ require_not_paused
        /\ validate_native_expiration(expiration)
        /\ check_rate_limit(issuer, claimType)
        /\ IssuerHasRoom(issuer, Cardinality(subjects))
        /\ \A s \in subjects : ~has_attestation(batchId(s)) /\ SubjectHasRoom(s)
        /\ StorageHasRoom(Cardinality(subjects))
        /\ AuditHasRoom(Cardinality(subjects))
        /\ store_attestations(issuer, new)
        /\ append_audit_entry(ids, Entry("Created", issuer, now, None))
        /\ set_last_issuance_time(issuer)
        /\ UNCHANGED <<now, registryVars, endorsements, limits, rateLimit,
                       claimRateLimit, whitelistVars, claimVars, delegationVars>>

create_attestation_as_delegate(delegate, delegator, subject, claimType, expiration) ==
    /\ require_not_paused
    /\ require_issuer(delegator)
    /\ validate_native_expiration(expiration)
    /\ DelegationActive(DelegationKey(delegator, delegate, claimType))
    /\ delegator # subject
    /\ IssuerHasRoom(delegator, 1)
    /\ SubjectHasRoom(subject)
    /\ Create(generate_id(delegator, subject, claimType, now),
              NewAttestation(delegator, subject, claimType, now, expiration,
                             None, "Native"),
              delegate)
    /\ UNCHANGED policyVars

-----------------------------------------------------------------------------
(* Changes of a stored attestation *)

\* Slip: any issuer may change any attestation.
OwnedUnrevoked_AnyIssuer(issuer, id) ==
    has_attestation(id) /\ ~attestations[id].revoked

\* Slip: a revoked attestation can be revoked, or renewed, again.
OwnedUnrevoked_Revoked(issuer, id) ==
    has_attestation(id) /\ attestations[id].issuer = issuer

OwnedUnrevoked(issuer, id) ==
    /\ has_attestation(id)
    /\ attestations[id].issuer = issuer
    /\ ~attestations[id].revoked

revoke_attestation(issuer, id) ==
    /\ require_not_paused
    /\ require_issuer(issuer)
    /\ OwnedUnrevoked(issuer, id)
    /\ AuditHasRoom(1)
    /\ set_attestation(id, [attestations[id] EXCEPT !.revoked = TRUE])
    /\ remove_subject_attestation({id})
    /\ remove_valid_attestation({id})
    /\ remove_issuer_attestation(issuer, {id})
    /\ ChunkedIndex_remove_subject({id})
    /\ ChunkedIndex_remove_issuer(issuer, {id})
    /\ append_audit_entry({id}, Entry("Revoked", issuer, now, None))
    /\ globalStats' = [globalStats EXCEPT !.total_revocations = @ + 1]
    /\ UNCHANGED <<now, issuerStats, registryVars, policyVars, endorsements>>

\* Only the two flat indexes are updated.
revoke_attestations_batch(issuer, ids) ==
    /\ require_not_paused
    /\ require_issuer(issuer)
    /\ Cardinality(ids) <= MaxBatch
    /\ \A id \in ids : OwnedUnrevoked(issuer, id)
    /\ AuditHasRoom(Cardinality(ids))
    /\ set_attestations([id \in ids |-> [attestations[id] EXCEPT !.revoked = TRUE]])
    /\ remove_subject_attestation(ids)
    /\ remove_issuer_attestation(issuer, ids)
    /\ append_audit_entry(ids, Entry("Revoked", issuer, now, None))
    /\ globalStats' = [globalStats EXCEPT !.total_revocations = @ + Cardinality(ids)]
    /\ UNCHANGED <<now, validIndex, subjectChunks, issuerChunks, issuerStats,
                   registryVars, policyVars, endorsements>>

\* What renew_attestation and update_expiration share.
SetExpiration(issuer, id, expiration, entry) ==
    /\ require_issuer(issuer)
    /\ require_not_paused
    /\ validate_native_expiration(expiration)
    /\ OwnedUnrevoked(issuer, id)
    /\ AuditHasRoom(1)
    /\ set_attestation(id, [attestations[id] EXCEPT !.expiration = expiration])
    /\ append_audit_entry({id}, entry)
    /\ UNCHANGED <<now, indexVars, statVars, registryVars, policyVars, endorsements>>

renew_attestation(issuer, id, expiration) ==
    SetExpiration(issuer, id, expiration, Entry("Renewed", issuer, now, expiration))

update_expiration(issuer, id, expiration) ==
    SetExpiration(issuer, id, expiration, Entry("Updated", issuer, now, None))

MoveIndexEntry(id, oldIssuer, newIssuer) ==
    issuerIndex' = [issuerIndex EXCEPT ![oldIssuer] = Drop(@, {id}),
                                       ![newIssuer] = Push(@, {id})]

\* Slip: the old issuer's count is left alone.
MoveStats_OnlyUp(oldIssuer, newIssuer) ==
    issuerStats' = [issuerStats EXCEPT ![newIssuer] = @ + 1]

MoveStats(oldIssuer, newIssuer) ==
    issuerStats' = [issuerStats EXCEPT ![oldIssuer] = IF @ = 0 THEN 0 ELSE @ - 1,
                                       ![newIssuer] = @ + 1]

\* No pause check; the chunked indexes are left alone.
transfer_attestation(admin, id, newIssuer) ==
    LET oldIssuer == attestations[id].issuer
    IN  /\ require_issuer(newIssuer)
        /\ has_attestation(id)
        /\ oldIssuer # newIssuer
        /\ AuditHasRoom(1)
        /\ MoveIndexEntry(id, oldIssuer, newIssuer)
        /\ MoveStats(oldIssuer, newIssuer)
        /\ set_attestation(id, [attestations[id] EXCEPT !.issuer = newIssuer])
        /\ append_audit_entry({id}, Entry("Transferred", admin, now, newIssuer))
        /\ UNCHANGED <<now, subjectIndex, validIndex, subjectChunks, issuerChunks,
                       globalStats, registryVars, policyVars, endorsements>>

\* No pause check, and no check that the attestation is not deleted yet.
request_deletion(subject, id) ==
    /\ has_attestation(id)
    /\ attestations[id].subject = subject
    /\ AuditHasRoom(1)
    /\ set_attestation(id, [attestations[id] EXCEPT !.deleted = TRUE])
    /\ remove_subject_attestation({id})
    /\ remove_valid_attestation({id})
    /\ ChunkedIndex_remove_subject({id})
    /\ append_audit_entry({id}, Entry("Deleted", subject, now, None))
    /\ UNCHANGED <<now, issuerIndex, issuerChunks, statVars, registryVars,
                   policyVars, endorsements>>

get_endorsements(id) == IF id \in DOMAIN endorsements THEN endorsements[id] ELSE {}

endorse_attestation(endorser, id) ==
    /\ require_issuer(endorser)
    /\ require_not_paused
    /\ has_attestation(id)
    /\ attestations[id].issuer # endorser
    /\ ~attestations[id].revoked
    /\ endorser \notin get_endorsements(id)
    /\ endorsements' = [x \in DOMAIN endorsements \cup {id} |->
          IF x = id THEN get_endorsements(id) \cup {endorser} ELSE endorsements[x]]
    /\ UNCHANGED <<ledgerVars, registryVars, policyVars>>

-----------------------------------------------------------------------------
(* Specification *)

\* Ledgers close in order; the contract only reads the clock.
CloseLedger ==
    /\ now < MaxTime
    /\ now' = now + 1
    /\ UNCHANGED <<attestations, indexVars, statVars, auditLog, registryVars,
                   policyVars, endorsements>>

Init ==
    /\ LedgerInit
    /\ RegistryInit
    /\ PolicyInit
    /\ endorsements = [id \in {} |-> {}]

Issue ==
    \E s \in Subjects, c \in ClaimTypes :
       \/ \E i \in Issuers, e \in Expirations, v \in ValidFroms :
             create_attestation_internal(i, s, c, e, v)
       \/ \E i \in Issuers, d \in Delegates, e \in Expirations :
             create_attestation_as_delegate(d, i, s, c, e)
       \/ \E b \in Bridges, src \in Sources : bridge_attestation(b, s, c, src)

Import ==
    \E a \in Admins, i \in Issuers, s \in Subjects, c \in ClaimTypes,
       t \in 0..MaxTime, e \in Expirations :
       import_attestation(a, i, s, c, t, e)

IssueBatch ==
    \E i \in Issuers, S \in SUBSET Subjects, c \in ClaimTypes, e \in Expirations :
       create_attestations_batch(i, S, c, e)

Manage ==
    \E i \in Issuers :
       \/ \E id \in DOMAIN attestations :
             \/ revoke_attestation(i, id)
             \/ i \in Endorsers /\ endorse_attestation(i, id)
             \/ \E e \in Expirations : renew_attestation(i, id, e)
             \/ \E e \in Expirations : update_expiration(i, id, e)
             \/ \E a \in Admins : transfer_attestation(a, id, i)
       \/ \E ids \in SUBSET DOMAIN attestations : revoke_attestations_batch(i, ids)

Delete ==
    \E s \in Subjects, id \in DOMAIN attestations : request_deletion(s, id)

Next ==
    \/ Issue \/ Import \/ IssueBatch \/ Manage \/ Delete
    \/ RegistryNext /\ UNCHANGED <<ledgerVars, policyVars, endorsements>>
    \/ PolicyNext /\ UNCHANGED <<ledgerVars, registryVars, endorsements>>
    \/ CloseLedger

Spec == Init /\ [][Next]_vars

-----------------------------------------------------------------------------
(* Claim queries *)

IsValid(id) == get_status(attestations[id], now) = "Valid"

\* Scans the valid index and does not look at the deleted flag.
has_valid_claim(subject, claimType) ==
    \E id \in DOMAIN validIndex[subject] :
       /\ has_attestation(id)
       /\ attestations[id].claimType = claimType
       /\ IsValid(id)

\* The entries of the flat subject index the other claim queries look at.
VisibleValid(subject) ==
    {id \in DOMAIN subjectIndex[subject] :
        has_attestation(id) /\ ~attestations[id].deleted /\ IsValid(id)}

has_valid_claim_from_issuer(subject, claimType, issuer) ==
    \E id \in VisibleValid(subject) :
       attestations[id].claimType = claimType /\ attestations[id].issuer = issuer

has_any_claim(subject, claimTypes) ==
    \E c \in claimTypes, id \in VisibleValid(subject) : attestations[id].claimType = c

has_all_claims(subject, claimTypes) ==
    \A c \in claimTypes :
       \E id \in VisibleValid(subject) : attestations[id].claimType = c

get_valid_claims(subject) == {attestations[id].claimType : id \in VisibleValid(subject)}

get_valid_claim_count(subject) ==
    Len32([id \in VisibleValid(subject) |-> subjectIndex[subject][id]])

\* The complete listing, page after page, of the chunked subject index.
get_subject_attestations(subject) ==
    {id \in DOMAIN subjectChunks[subject] :
        has_attestation(id) /\ ~attestations[id].deleted}

-----------------------------------------------------------------------------
(* Properties *)

\* Every variable holds a value of its type.
TypeOK ==
    /\ LedgerTypeOK
    /\ RegistryTypeOK
    /\ PolicyTypeOK
    /\ DOMAIN endorsements \subseteq DOMAIN attestations
    /\ \A id \in DOMAIN endorsements : endorsements[id] \subseteq Issuers

\* The record of an id is about the subject and claim type the id was hashed
\* from: add_subject_attestation and remove_subject_attestation always meet
\* in the same list.
IdsDescribeRecords ==
    \A id \in DOMAIN attestations :
       /\ attestations[id].subject = id.subject
       /\ attestations[id].claimType = id.claimType
       /\ attestations[id].timestamp = id.timestamp

\* The flat index of a subject lists each attestation about it that is
\* neither revoked nor deleted, once, and nothing else, whichever of the
\* creation, revocation and deletion paths wrote it.
SubjectIndexExact ==
    \A s \in Subjects :
       /\ DOMAIN subjectIndex[s] =
             {id \in DOMAIN attestations : /\ attestations[id].subject = s
                                           /\ ~attestations[id].revoked
                                           /\ ~attestations[id].deleted}
       /\ \A id \in DOMAIN subjectIndex[s] : subjectIndex[s][id] = 1

\* The valid index never misses an attestation that has_valid_claim should
\* find and never lists a deleted one (which that query would not filter);
\* revoke_attestations_batch leaves revoked ones in it.
ValidIndexCovers ==
    \A s \in Subjects :
       /\ DOMAIN validIndex[s] \subseteq
             {id \in DOMAIN attestations : /\ attestations[id].subject = s
                                           /\ ~attestations[id].deleted}
       /\ DOMAIN subjectIndex[s] \subseteq DOMAIN validIndex[s]

\* The attestations that back a claim, read off the records.
Backing(subject, claimType) ==
    {id \in DOMAIN attestations : /\ attestations[id].subject = subject
                                  /\ attestations[id].claimType = claimType
                                  /\ ~attestations[id].deleted
                                  /\ IsValid(id)}

\* The queries over the two indexes agree with each other and with the
\* records: a claim is reported exactly when an undeleted attestation with
\* status Valid backs it.
ClaimQueriesAgree ==
    \A s \in Subjects :
       /\ \A c \in ClaimTypes :
             /\ has_valid_claim(s, c) <=> Backing(s, c) # {}
             /\ c \in get_valid_claims(s) <=> Backing(s, c) # {}
             /\ \A o \in Owners :
                   has_valid_claim_from_issuer(s, c, o) <=>
                      \E id \in Backing(s, c) : attestations[id].issuer = o
       /\ \A C \in SUBSET ClaimTypes :
             /\ has_any_claim(s, C) <=> \E c \in C : Backing(s, c) # {}
             /\ has_all_claims(s, C) <=> \A c \in C : Backing(s, c) # {}

\* The listing of a subject, which is read from the chunked index, misses
\* nothing that backs a claim and has every entry once; it may list revoked
\* attestations (revoke_attestations_batch leaves them), never deleted ones.
SubjectListingComplete ==
    \A s \in Subjects :
       /\ \A c \in ClaimTypes : Backing(s, c) \subseteq get_subject_attestations(s)
       /\ \A id \in DOMAIN subjectChunks[s] :
             subjectChunks[s][id] = 1 /\ attestations[id].subject = s /\ ~attestations[id].deleted

\* get_valid_claim_count counts every attestation that backs a claim once.
ClaimCountExact ==
    \A s \in Subjects :
       get_valid_claim_count(s) =
          Cardinality(UNION {Backing(s, c) : c \in ClaimTypes})

\* The flat index of an issuer lists only attestations it owns, each once,
\* and every one of them that is not revoked (transfer_attestation also
\* lists a revoked one it moves): the count the issuer limit is checked
\* against never misses a live attestation.
IssuerIndexSound ==
    \A o \in Owners :
       /\ \A id \in DOMAIN issuerIndex[o] :
             /\ issuerIndex[o][id] = 1
             /\ has_attestation(id)
             /\ attestations[id].issuer = o
       /\ \A id \in DOMAIN attestations :
             attestations[id].issuer = o /\ ~attestations[id].revoked
                => id \in DOMAIN issuerIndex[o]

\* What the flat indexes and the records have to do with each other: each
\* step that keeps one of these parts relies on the others.
IndexInv ==
    /\ IdsDescribeRecords
    /\ SubjectIndexExact
    /\ ValidIndexCovers
    /\ IssuerIndexSound

\* The counters that are kept incrementally equal what a recount of the
\* records would give, through transfers and batches.
StatsMatchRecords ==
    /\ globalStats.total_attestations = Cardinality(DOMAIN attestations)
    /\ globalStats.total_revocations =
          Cardinality({id \in DOMAIN attestations : attestations[id].revoked})
    /\ \A o \in Owners :
          issuerStats[o] =
             Cardinality({id \in DOMAIN attestations : attestations[id].issuer = o})

\* The audit log of an attestation is in the order of its timestamps and
\* never ahead of the clock, backdated imports included.
AuditChronological ==
    \A id \in DOMAIN auditLog :
       \A k \in 1..Len(auditLog[id]) :
          /\ auditLog[id][k].timestamp <= now
          /\ k > 1 => auditLog[id][k - 1].timestamp <= auditLog[id][k].timestamp

\* Replaying the audit log of an attestation gives the state of its record:
\* it starts with the creation, has a Revoked entry exactly if it is revoked
\* and at most one, a Deleted entry exactly if it is deleted, its last
\* Transferred entry names the owner, and the entries are in order of time.
AuditExplainsRecord ==
    /\ AuditChronological
    /\ DOMAIN auditLog = DOMAIN attestations
    /\ \A id \in DOMAIN attestations :
          LET log == auditLog[id]
              at(action) == {k \in 1..Len(log) : log[k].action = action}
          IN  /\ at("Created") = {1}
              /\ attestations[id].revoked <=> at("Revoked") # {}
              /\ \A j, k \in at("Revoked") : j = k
              /\ attestations[id].deleted <=> at("Deleted") # {}
              /\ \/ at("Transferred") = {} /\ attestations[id].issuer = id.issuer
                 \/ \E k \in at("Transferred") :
                       /\ \A j \in at("Transferred") : j <= k
                       /\ log[k].details = attestations[id].issuer

\* An address is never an issuer and a bridge at the same time, in whatever
\* order register_issuer, remove_issuer and register_bridge are called.
RolesDisjoint == issuers \cap bridges = {}

\* A delegator's listing shows exactly the delegations that
\* create_attestation_as_delegate would accept.
DelegationListingExact ==
    \A i \in Issuers :
       list_delegations_by_delegator(i) =
          {key \in DOMAIN delegations : key[1] = i /\ DelegationActive(key)}

\* What a step leaves alone of the attestations that were there.
KeepsHistory ==
    \A id \in DOMAIN attestations :
       /\ id \in DOMAIN attestations'
       /\ LET old == attestations[id]
              new == attestations'[id]
          IN  /\ \A f \in {"subject", "claimType", "timestamp", "validFrom", "origin"} :
                    new[f] = old[f]
              /\ old.revoked => new.revoked /\ new.expiration = old.expiration
              /\ old.deleted => new.deleted
       /\ SubSeq(auditLog'[id], 1, Len(auditLog[id])) = auditLog[id]

\* A stored attestation never disappears; what it attests, its subject, its
\* claim type and its timestamp, never changes; a revocation or a deletion is
\* never undone, and the audit log only grows.
HistoryImmutable == [][KeepsHistory]_vars

\* What a step may not touch while the contract is paused.
RespectsPause ==
    paused =>
       /\ DOMAIN attestations' = DOMAIN attestations
       /\ endorsements' = endorsements
       /\ \A id \in DOMAIN attestations :
             /\ attestations'[id].revoked = attestations[id].revoked
             /\ attestations'[id].expiration = attestations[id].expiration

\* While the contract is paused no attestation is created, revoked, renewed
\* or endorsed (transfers and deletions go on).
PausedFreezesIssuance == [][RespectsPause]_vars

\* Who is behind what a step creates and what it revokes or renews.
ByRegisteredOwner ==
    /\ \A id \in DOMAIN attestations' \ DOMAIN attestations :
          attestations'[id].issuer \in issuers \cup bridges
    /\ \A id \in DOMAIN attestations :
          \/ /\ attestations'[id].revoked = attestations[id].revoked
             /\ attestations'[id].expiration = attestations[id].expiration
          \/ /\ attestations[id].issuer \in issuers \ bridges
             /\ auditLog'[id] # auditLog[id]
             /\ auditLog'[id][Len(auditLog'[id])].actor = attestations[id].issuer

\* An issuer removed from the registry loses all control over attestations:
\* nothing is issued in its name, even by its delegates, and whoever owns an
\* attestation whose revocation or expiration changes is a registered issuer
\* at that moment and the actor on record.
OnlyRegisteredOwnersChange == [][ByRegisteredOwner]_vars

\* The attestations create_attestation and create_attestations_batch made,
\* by the issuer's own hand.
SelfIssued(id) ==
    /\ attestations[id].origin = "Native"
    /\ auditLog[id][1].actor = id.issuer

\* How far a new issuance is from the earlier ones of its issuer.
SpacesIssuance ==
    \A new \in DOMAIN attestations' \ DOMAIN attestations :
       SelfIssued(new)' =>
          \A old \in DOMAIN attestations :
             SelfIssued(old) /\ old.issuer = new.issuer =>
                new.timestamp - old.timestamp >= RateInterval(new.claimType)

\* A rate-limited issuer's own issuances are spaced: a new one keeps the
\* interval in force for its claim type to every earlier one of the issuer,
\* of whatever claim type, revoked, transferred and deleted ones included.
RateLimitSpaced == [][SpacesIssuance]_vars

\* How many live attestations there are after a step that creates one.
KeepsLimits ==
    \A id \in DOMAIN attestations' \ DOMAIN attestations :
       attestations'[id].origin = "Native" =>
          LET live == {x \in DOMAIN attestations' :
                          ~attestations'[x].revoked /\ ~attestations'[x].deleted}
          IN  /\ Cardinality({x \in live : attestations'[x].issuer = id.issuer})
                    <= limits.max_attestations_per_issuer
              /\ Cardinality({x \in live : attestations'[x].subject = id.subject})
                    <= limits.max_attestations_per_subject

\* Right after an issuer or its delegate created an attestation, the live
\* attestations of the issuer and of the subject, counted on the records, are
\* within the limits in force.
IssuanceWithinLimits == [][KeepsLimits]_vars

\* What an attestation is to the contracts that rely on it.
ClaimOf(a) ==
    [owner |-> a.issuer, subject |-> a.subject, claimType |-> a.claimType,
     validFrom |-> a.validFrom, expiration |-> a.expiration]

Ended == {id \in DOMAIN attestations : attestations[id].revoked \/ attestations[id].deleted}

LiveClaims == [id \in DOMAIN attestations \ Ended |-> ClaimOf(attestations[id])]

AbstractClaims ==
    INSTANCE ClaimRegistry WITH
       Claims <- [owner : Owners, subject : Subjects, claimType : ClaimTypes,
                  validFrom : OptionTime, expiration : OptionTime],
       live <- LiveClaims,
       ended <- Ended

\* The contract implements the registry of claims the relying contracts see:
\* no path brings an ended claim back, uses its id again, or changes what a
\* live one says other than its owner and expiration, and has_valid_claim
\* answers as that registry would although it reads an index.
ImplementsClaimRegistry ==
    /\ AbstractClaims!Spec
    /\ [](\A s \in Subjects, c \in ClaimTypes :
             has_valid_claim(s, c) <=> AbstractClaims!Holds(s, c))
=============================================================================
