------------------------- MODULE AttestationsProofs -------------------------
(***************************************************************************)
(* Theorems about Attestations, for every value of its constants: the      *)
(* variables keep their types, and the indexes tell the truth about the    *)
(* records (IndexInv is inductive, and the claim queries follow from it).  *)
(***************************************************************************)
EXTENDS Attestations, FiniteSetTheorems, TLAPS

-----------------------------------------------------------------------------
(* Indexes: what appending to a list and removing from it do.              *)

\* Push lists the old ids and the new ones.
LEMMA PushDomain ==
    ASSUME NEW b, NEW ids
    PROVE  DOMAIN Push(b, ids) = DOMAIN b \cup ids
BY DEF Push, SetToBag, (+)

\* Ids that were not listed are listed once, the others as often as before.
LEMMA PushCount ==
    ASSUME NEW b, NEW ids, ids \cap DOMAIN b = {},
           \A x \in DOMAIN b : b[x] \in Nat,
           NEW id \in DOMAIN b \cup ids
    PROVE  Push(b, ids)[id] = IF id \in ids THEN 1 ELSE b[id]
BY DEF Push, SetToBag, (+)

\* Push keeps a list of ids one.
LEMMA PushType ==
    ASSUME NEW b, NEW ids \in SUBSET Ids, DOMAIN b \subseteq Ids,
           \A x \in DOMAIN b : b[x] \in Nat \ {0}
    PROVE  /\ DOMAIN Push(b, ids) \subseteq Ids
           /\ \A x \in DOMAIN Push(b, ids) : Push(b, ids)[x] \in Nat \ {0}
BY DEF Push, SetToBag, (+)

LEMMA DropDomain ==
    ASSUME NEW b, NEW ids
    PROVE  /\ DOMAIN Drop(b, ids) = DOMAIN b \ ids
           /\ \A x \in DOMAIN b \ ids : Drop(b, ids)[x] = b[x]
BY DEF Drop

\* Drop keeps a list of ids one.
LEMMA DropType ==
    ASSUME NEW b, NEW ids, DOMAIN b \subseteq Ids,
           \A x \in DOMAIN b : b[x] \in Nat \ {0}
    PROVE  /\ DOMAIN Drop(b, ids) \subseteq Ids
           /\ \A x \in DOMAIN Drop(b, ids) : Drop(b, ids)[x] \in Nat \ {0}
BY DEF Drop

-----------------------------------------------------------------------------
(* What the five ways to create attestations have in common.               *)

\* An issuance by the issuer itself keeps its rate limit.  (A delegate is
\* exempt; that nobody is its own delegate is for a later invariant to say.)
RateChecked(issuer, claimType) ==
    \/ check_rate_limit(issuer, claimType) /\ set_last_issuance_time(issuer)
    \/ DelegationKey(issuer, issuer, claimType) \in DOMAIN delegations

\* What was checked before native attestations are stored.
NativeChecked(owner, new, actor) ==
    \A id \in DOMAIN new : new[id].origin = "Native" =>
       /\ owner \in Issuers
       /\ id.timestamp = now
       /\ IssuerHasRoom(owner, Cardinality(DOMAIN new))
       /\ SubjectHasRoom(id.subject)
       /\ \A other \in DOMAIN new : other.subject = id.subject => other = id
       /\ actor = owner => RateChecked(owner, id.claimType)

Stored(owner, new, actor, timestamp) ==
    /\ ~paused
    /\ owner \in Owners
    /\ owner \in issuers \cup bridges
    /\ NativeChecked(owner, new, actor)
    /\ actor \in Actors
    /\ timestamp \in Nat
    /\ timestamp <= now
    /\ DOMAIN new \subseteq Ids
    /\ IsFiniteSet(DOMAIN new)
    /\ DOMAIN new \cap DOMAIN attestations = {}
    /\ \A id \in DOMAIN new :
          /\ new[id] \in Attestation
          /\ new[id].issuer = owner
          /\ id.issuer = owner
          /\ new[id].subject = id.subject
          /\ new[id].claimType = id.claimType
          /\ new[id].timestamp = id.timestamp
          /\ id.timestamp <= now
          /\ ~new[id].revoked
          /\ ~new[id].deleted
    /\ store_attestations(owner, new)
    /\ append_audit_entry(DOMAIN new, Entry("Created", actor, timestamp, None))
    /\ UNCHANGED <<now, registryVars, endorsements, limits, rateLimit,
                   claimRateLimit, whitelistVars, claimVars, delegationVars>>
    /\ \/ UNCHANGED lastIssuance
       \/ \E i \in Issuers : set_last_issuance_time(i)

\* A single record stored under a fresh id that describes it.
LEMMA CreateStores ==
    ASSUME NEW id \in Ids, NEW a \in Attestation, NEW actor \in Actors,
           Create(id, a, actor), a.timestamp <= now,
           a.issuer = id.issuer, a.subject = id.subject,
           a.claimType = id.claimType, a.timestamp = id.timestamp,
           ~a.revoked, ~a.deleted,
           ~paused, a.issuer \in issuers \cup bridges,
           a.origin = "Native" =>
              /\ a.issuer \in Issuers
              /\ a.timestamp = now
              /\ IssuerHasRoom(a.issuer, 1)
              /\ SubjectHasRoom(a.subject)
              /\ actor = a.issuer => RateChecked(a.issuer, a.claimType),
           UNCHANGED <<limits, rateLimit, claimRateLimit, whitelistVars, claimVars,
                       delegationVars>>,
           \/ UNCHANGED lastIssuance
           \/ \E i \in Issuers : set_last_issuance_time(i)
    PROVE  Stored(a.issuer, [x \in {id} |-> a], actor, a.timestamp)
<1> DEFINE new == [x \in {id} |-> a]
<1>1. a.issuer \in Owners /\ a.timestamp \in Nat
  BY DEF Attestation
<1>2. IsFiniteSet(DOMAIN new)
  BY FS_Singleton
<1>3. DOMAIN new \cap DOMAIN attestations = {}
  BY DEF Create, has_attestation
<1>4. store_attestations(a.issuer, new)
  BY DEF Create, store_attestation
<1>5. append_audit_entry(DOMAIN new, Entry("Created", actor, a.timestamp, None))
  BY DEF Create
<1>6. NativeChecked(a.issuer, new, actor)
  <2>1. DOMAIN new = {id} /\ new[id] = a /\ Cardinality(DOMAIN new) = 1
    BY FS_Singleton
  <2> HIDE DEF new
  <2> QED
    BY <2>1 DEF NativeChecked
<1> QED
  BY <1>1, <1>2, <1>3, <1>4, <1>5, <1>6 DEF Stored, Create

\* Every issuance is a Stored step.
LEMMA IssuanceStores ==
    ASSUME TypeOK, Issue \/ Import \/ IssueBatch
    PROVE  \E owner, new, actor, timestamp : Stored(owner, new, actor, timestamp)
<1> USE DEF Actors, Owners
<1>now. now \in Nat
  BY DEF TypeOK, LedgerTypeOK
<1>1. ASSUME NEW s \in Subjects, NEW c \in ClaimTypes, NEW i \in Issuers,
             NEW e \in Expirations, NEW v \in ValidFroms,
             create_attestation_internal(i, s, c, e, v)
      PROVE  \E owner, new, actor, timestamp : Stored(owner, new, actor, timestamp)
  <2> DEFINE id == generate_id(i, s, c, now)
             a == NewAttestation(i, s, c, now, e, v, "Native")
  <2>1. id \in Ids /\ a \in Attestation
    BY <1>now, PolicyAssumption DEF Ids, Attestation, generate_id, NewAttestation, OptionTime
  <2>2. Create(id, a, i) /\ set_last_issuance_time(i)
    BY <1>1 DEF create_attestation_internal
  <2>3. /\ a.issuer = id.issuer /\ a.subject = id.subject
        /\ a.claimType = id.claimType /\ a.timestamp = id.timestamp
        /\ ~a.revoked /\ ~a.deleted /\ a.timestamp <= now
    BY <1>now, <2>2 DEF generate_id, NewAttestation
  <2>4. /\ UNCHANGED <<limits, rateLimit, claimRateLimit, whitelistVars, claimVars,
                       delegationVars>>
        /\ \/ UNCHANGED lastIssuance
           \/ \E j \in Issuers : set_last_issuance_time(j)
    BY <1>1, <2>2 DEF create_attestation_internal
  <2>c. /\ ~paused /\ a.issuer \in issuers \cup bridges
        /\ a.origin = "Native" =>
              /\ a.issuer \in Issuers
              /\ a.timestamp = now
              /\ IssuerHasRoom(a.issuer, 1)
              /\ SubjectHasRoom(a.subject)
              /\ i = a.issuer => RateChecked(a.issuer, a.claimType)
    BY <1>1, <2>2 DEF create_attestation_internal, NewAttestation, require_not_paused, require_issuer,
                     RateChecked
  <2> HIDE DEF id, a
  <2>5. Stored(a.issuer, [x \in {id} |-> a], i, a.timestamp)
    BY <2>1, <2>2, <2>3, <2>4, <2>c, CreateStores
  <2> QED
    BY <2>5
<1>2. ASSUME NEW s \in Subjects, NEW c \in ClaimTypes, NEW i \in Issuers,
             NEW d \in Delegates, NEW e \in Expirations,
             create_attestation_as_delegate(d, i, s, c, e)
      PROVE  \E owner, new, actor, timestamp : Stored(owner, new, actor, timestamp)
  <2> DEFINE id == generate_id(i, s, c, now)
             a == NewAttestation(i, s, c, now, e, None, "Native")
  <2>1. id \in Ids /\ a \in Attestation
    BY <1>now, PolicyAssumption DEF Ids, Attestation, generate_id, NewAttestation, OptionTime
  <2>2. Create(id, a, d)
    BY <1>2 DEF create_attestation_as_delegate
  <2>3. /\ a.issuer = id.issuer /\ a.subject = id.subject
        /\ a.claimType = id.claimType /\ a.timestamp = id.timestamp
        /\ ~a.revoked /\ ~a.deleted /\ a.timestamp <= now
    BY <1>now, <2>2 DEF generate_id, NewAttestation
  <2>4. /\ UNCHANGED <<limits, rateLimit, claimRateLimit, whitelistVars, claimVars,
                       delegationVars>>
        /\ \/ UNCHANGED lastIssuance
           \/ \E j \in Issuers : set_last_issuance_time(j)
    BY <1>2 DEF create_attestation_as_delegate, policyVars, rateVars
  <2>c. /\ ~paused /\ a.issuer \in issuers \cup bridges
        /\ a.origin = "Native" =>
              /\ a.issuer \in Issuers
              /\ a.timestamp = now
              /\ IssuerHasRoom(a.issuer, 1)
              /\ SubjectHasRoom(a.subject)
              /\ d = a.issuer => RateChecked(a.issuer, a.claimType)
    BY <1>2, <2>2 DEF create_attestation_as_delegate, NewAttestation, require_not_paused,
                     require_issuer, RateChecked, DelegationActive
  <2> HIDE DEF id, a
  <2>5. Stored(a.issuer, [x \in {id} |-> a], d, a.timestamp)
    BY <2>1, <2>2, <2>3, <2>4, <2>c, CreateStores
  <2> QED
    BY <2>5
<1>3. ASSUME NEW s \in Subjects, NEW c \in ClaimTypes, NEW b \in Bridges,
             NEW src \in Sources, bridge_attestation(b, s, c, src)
      PROVE  \E owner, new, actor, timestamp : Stored(owner, new, actor, timestamp)
  <2> DEFINE id == generate_bridge_id(b, s, c, src, now)
             a == NewAttestation(b, s, c, now, None, None, "Bridged")
  <2>1. id \in Ids /\ a \in Attestation
    BY <1>now DEF Ids, Attestation, generate_bridge_id, NewAttestation, OptionTime
  <2>2. Create(id, a, b)
    BY <1>3 DEF bridge_attestation
  <2>3. /\ a.issuer = id.issuer /\ a.subject = id.subject
        /\ a.claimType = id.claimType /\ a.timestamp = id.timestamp
        /\ ~a.revoked /\ ~a.deleted /\ a.timestamp <= now
    BY <1>now, <2>2 DEF generate_bridge_id, NewAttestation
  <2>4. /\ UNCHANGED <<limits, rateLimit, claimRateLimit, whitelistVars, claimVars,
                       delegationVars>>
        /\ \/ UNCHANGED lastIssuance
           \/ \E j \in Issuers : set_last_issuance_time(j)
    BY <1>3 DEF bridge_attestation, policyVars, rateVars
  <2>c. /\ ~paused /\ a.issuer \in issuers \cup bridges
        /\ a.origin = "Native" =>
              /\ a.issuer \in Issuers
              /\ a.timestamp = now
              /\ IssuerHasRoom(a.issuer, 1)
              /\ SubjectHasRoom(a.subject)
              /\ b = a.issuer => RateChecked(a.issuer, a.claimType)
    BY <1>3, <2>2 DEF bridge_attestation, NewAttestation, require_not_paused, require_bridge
  <2> HIDE DEF id, a
  <2>5. Stored(a.issuer, [x \in {id} |-> a], b, a.timestamp)
    BY <2>1, <2>2, <2>3, <2>4, <2>c, CreateStores
  <2> QED
    BY <2>5
<1>4. ASSUME NEW ad \in Admins, NEW i \in Issuers, NEW s \in Subjects,
             NEW c \in ClaimTypes, NEW t \in 0..MaxTime, NEW e \in Expirations,
             import_attestation(ad, i, s, c, t, e)
      PROVE  \E owner, new, actor, timestamp : Stored(owner, new, actor, timestamp)
  <2> DEFINE id == generate_id(i, s, c, t)
             a == NewAttestation(i, s, c, t, e, None, "Imported")
  <2>1. id \in Ids /\ a \in Attestation
    BY BoundAssumption, PolicyAssumption
    DEF Ids, Attestation, generate_id, NewAttestation, OptionTime
  <2>2. Create(id, a, ad) /\ t <= now
    BY <1>4 DEF import_attestation, validate_import_timestamps
  <2>3. /\ a.issuer = id.issuer /\ a.subject = id.subject
        /\ a.claimType = id.claimType /\ a.timestamp = id.timestamp
        /\ ~a.revoked /\ ~a.deleted /\ a.timestamp <= now
    BY <1>now, <2>2 DEF generate_id, NewAttestation
  <2>4. /\ UNCHANGED <<limits, rateLimit, claimRateLimit, whitelistVars, claimVars,
                       delegationVars>>
        /\ \/ UNCHANGED lastIssuance
           \/ \E j \in Issuers : set_last_issuance_time(j)
    BY <1>4 DEF import_attestation, policyVars, rateVars
  <2>c. /\ ~paused /\ a.issuer \in issuers \cup bridges
        /\ a.origin = "Native" =>
              /\ a.issuer \in Issuers
              /\ a.timestamp = now
              /\ IssuerHasRoom(a.issuer, 1)
              /\ SubjectHasRoom(a.subject)
              /\ ad = a.issuer => RateChecked(a.issuer, a.claimType)
    BY <1>4, <2>2 DEF import_attestation, NewAttestation, require_not_paused, require_issuer
  <2> HIDE DEF id, a
  <2>5. Stored(a.issuer, [x \in {id} |-> a], ad, a.timestamp)
    BY <2>1, <2>2, <2>3, <2>4, <2>c, CreateStores
  <2> QED
    BY <2>5
<1>5. ASSUME NEW i \in Issuers, NEW S \in SUBSET Subjects, NEW c \in ClaimTypes,
             NEW e \in Expirations, create_attestations_batch(i, S, c, e)
      PROVE  \E owner, new, actor, timestamp : Stored(owner, new, actor, timestamp)
  <2> DEFINE ids == {generate_id(i, s, c, now) : s \in S}
             new == [id \in ids |->
                       NewAttestation(i, id.subject, c, now, e, None, "Native")]
  <2>1. \A id \in ids : /\ id \in Ids
                        /\ id.issuer = i /\ id.claimType = c /\ id.timestamp = now
                        /\ id.subject \in Subjects
    BY <1>now DEF Ids, generate_id
  <2>2b. IsFiniteSet(ids) /\ Cardinality(ids) = Cardinality(S)
    <3>1. IsFiniteSet(S)
      BY FiniteAssumption, FS_Subset
    <3> DEFINE F == [s \in S |-> generate_id(i, s, c, now)]
    <3>2. F \in Surjection(S, ids)
      BY DEF Surjection
    <3>3. F \in Injection(S, ids)
      BY DEF Injection, IsInjective, generate_id
    <3> QED
      BY <3>1, <3>2, <3>3, FS_Surjection
  <2>2. IsFiniteSet(ids)
    BY <2>2b
  <2>3. \A id \in ids :
           /\ new[id] \in Attestation
           /\ new[id].issuer = i /\ new[id].subject = id.subject
           /\ new[id].claimType = c /\ new[id].timestamp = now
           /\ ~new[id].revoked /\ ~new[id].deleted
    BY <1>now, <2>1, PolicyAssumption DEF Attestation, NewAttestation, OptionTime
  <2>4. ids \cap DOMAIN attestations = {}
    BY <1>5 DEF create_attestations_batch, has_attestation
  <2>5. /\ store_attestations(i, new)
        /\ append_audit_entry(DOMAIN new, Entry("Created", i, now, None))
        /\ set_last_issuance_time(i)
    BY <1>5 DEF create_attestations_batch
  <2>6. NativeChecked(i, new, i)
    <3>1. \A x, y \in ids : x.subject = y.subject => x = y
      BY DEF generate_id
    <3>2. Cardinality(ids) = Cardinality(S)
      BY <2>2b
    <3>3. \A id \in ids : SubjectHasRoom(id.subject)
      BY <1>5 DEF create_attestations_batch, generate_id
    <3>4. IssuerHasRoom(i, Cardinality(ids)) /\ RateChecked(i, c)
      BY <1>5, <3>2 DEF create_attestations_batch, RateChecked
    <3> DEFINE nw == new
    <3>5. DOMAIN nw = ids
      OBVIOUS
    <3> HIDE DEF nw, ids
    <3>6. NativeChecked(i, nw, i)
      BY <2>1, <3>1, <3>3, <3>4, <3>5 DEF NativeChecked
    <3> QED
      BY <3>6 DEF nw
  <2>7. ~paused /\ i \in issuers \cup bridges
    BY <1>5 DEF create_attestations_batch, require_not_paused, require_issuer
  <2>8. Stored(i, new, i, now)
    BY <1>5, <1>now, <2>1, <2>2, <2>3, <2>4, <2>5, <2>6, <2>7, SMTT(30)
    DEF Stored, create_attestations_batch
  <2> QED
    BY <2>8
<1> QED
  BY <1>1, <1>2, <1>3, <1>4, <1>5 DEF Issue, Import, IssueBatch

-----------------------------------------------------------------------------
(* What writing records and audit entries does.                            *)

LEMMA SetRecords ==
    ASSUME NEW new, set_attestations(new)
    PROVE  /\ DOMAIN attestations' = DOMAIN attestations \cup DOMAIN new
           /\ \A id \in DOMAIN new : attestations'[id] = new[id]
           /\ \A id \in DOMAIN attestations \ DOMAIN new :
                 attestations'[id] = attestations[id]
BY DEF set_attestations

\* Writing one record changes that record only.
LEMMA SetRecord ==
    ASSUME NEW id \in DOMAIN attestations, NEW a, set_attestation(id, a)
    PROVE  /\ DOMAIN attestations' = DOMAIN attestations
           /\ attestations'[id] = a
           /\ \A x \in DOMAIN attestations \ {id} : attestations'[x] = attestations[x]
BY DEF set_attestations, set_attestation

\* An entry appended to the logs of some ids keeps the logs typed.
LEMMA AuditType ==
    ASSUME NEW ids \in SUBSET Ids, NEW entry \in AuditEntry,
           append_audit_entry(ids, entry),
           DOMAIN auditLog \subseteq Ids,
           \A id \in DOMAIN auditLog : auditLog[id] \in Seq(AuditEntry)
    PROVE  /\ DOMAIN auditLog' \subseteq Ids
           /\ \A id \in DOMAIN auditLog' : auditLog'[id] \in Seq(AuditEntry)
<1>1. \A id \in ids : get_audit_log(id) \in Seq(AuditEntry)
  BY DEF get_audit_log
<1> QED
  BY <1>1 DEF append_audit_entry

LEMMA EntryType ==
    ASSUME NEW action \in AuditAction, NEW actor \in Actors, NEW timestamp \in Nat,
           NEW details \in Owners \cup OptionTime
    PROVE  Entry(action, actor, timestamp, details) \in AuditEntry
BY DEF Entry, AuditEntry

-----------------------------------------------------------------------------
(* Type correctness                                                        *)

LEMMA InitTypeOK == Init => TypeOK
<1> SUFFICES ASSUME Init PROVE TypeOK
  OBVIOUS
<1> USE DEF Init
<1>1. LedgerTypeOK
  <2> USE DEF LedgerInit
  <2>1. /\ IsIndex(subjectIndex, Subjects) /\ IsIndex(validIndex, Subjects)
        /\ IsIndex(subjectChunks, Subjects)
        /\ IsIndex(issuerIndex, Owners) /\ IsIndex(issuerChunks, Owners)
    BY DEF IsIndex, EmptyIndex, EmptyBag, SetToBag
  <2>2. IsFiniteSet(DOMAIN attestations)
    BY FS_EmptySet
  <2> QED
    BY <2>1, <2>2 DEF LedgerTypeOK
<1>2. RegistryTypeOK
  BY DEF RegistryInit, RegistryTypeOK
<1>3. PolicyTypeOK
  BY PolicyAssumption DEF PolicyInit, PolicyTypeOK, OptionTime
<1> QED
  BY <1>1, <1>2, <1>3 DEF TypeOK

\* Dropping ids from some of the lists of an index keeps its type.
LEMMA DropIndexType ==
    ASSUME NEW index, NEW owners, NEW index2, IsIndex(index, owners),
           DOMAIN index2 = owners,
           \A o \in owners : index2[o] = index[o] \/ \E ids : index2[o] = Drop(index[o], ids)
    PROVE  IsIndex(index2, owners)
BY DropType DEF IsIndex

\* So does appending ids to some of them.
LEMMA PushIndexType ==
    ASSUME NEW index, NEW owners, NEW index2, IsIndex(index, owners),
           DOMAIN index2 = owners,
           \A o \in owners : \/ index2[o] = index[o]
                            \/ \E ids \in SUBSET Ids : index2[o] = Push(index[o], ids)
    PROVE  IsIndex(index2, owners)
BY PushType DEF IsIndex

\* Storing new records keeps the types.
LEMMA StoredTypeOK ==
    ASSUME TypeOK, NEW owner, NEW new, NEW actor, NEW timestamp,
           Stored(owner, new, actor, timestamp)
    PROVE  TypeOK'
<1> USE DEF Stored
<1>1. /\ DOMAIN attestations' = DOMAIN attestations \cup DOMAIN new
      /\ \A id \in DOMAIN new : attestations'[id] = new[id]
      /\ \A id \in DOMAIN attestations \ DOMAIN new : attestations'[id] = attestations[id]
  BY SetRecords DEF store_attestations
<1>2. /\ DOMAIN attestations' \subseteq Ids
      /\ \A id \in DOMAIN attestations' : attestations'[id] \in Attestation
  BY <1>1 DEF TypeOK, LedgerTypeOK
<1>3. IsFiniteSet(DOMAIN attestations')
  <2>1. IsFiniteSet(DOMAIN attestations) /\ IsFiniteSet(DOMAIN new)
    BY DEF TypeOK, LedgerTypeOK
  <2> HIDE DEF Stored
  <2> QED
    BY <1>1, <2>1, FS_Union
<1>4. /\ IsIndex(subjectIndex', Subjects)
      /\ IsIndex(validIndex', Subjects)
      /\ IsIndex(subjectChunks', Subjects)
  <2> DEFINE about(s) == {id \in DOMAIN new : new[id].subject = s}
  <2>1. \A s \in Subjects : about(s) \in SUBSET Ids
    OBVIOUS
  <2>2. /\ subjectIndex' = [s \in Subjects |-> Push(subjectIndex[s], about(s))]
        /\ validIndex' = [s \in Subjects |-> Push(validIndex[s], about(s))]
        /\ subjectChunks' = [s \in Subjects |-> Push(subjectChunks[s], about(s))]
    BY DEF store_attestations
  <2>3. /\ IsIndex(subjectIndex, Subjects) /\ IsIndex(validIndex, Subjects)
        /\ IsIndex(subjectChunks, Subjects)
    BY DEF TypeOK, LedgerTypeOK
  <2> HIDE DEF about, Stored
  <2> QED
    BY <2>1, <2>2, <2>3, PushIndexType
<1>5. /\ IsIndex(issuerIndex', Owners)
      /\ IsIndex(issuerChunks', Owners)
  <2>1. /\ issuerIndex' = [issuerIndex EXCEPT ![owner] = Push(@, DOMAIN new)]
        /\ issuerChunks' = [issuerChunks EXCEPT ![owner] = Push(@, DOMAIN new)]
    BY DEF store_attestations
  <2>2. /\ IsIndex(issuerIndex, Owners) /\ DOMAIN issuerIndex = Owners
        /\ IsIndex(issuerChunks, Owners) /\ DOMAIN issuerChunks = Owners
    BY DEF TypeOK, LedgerTypeOK, IsIndex
  <2> QED
    BY <2>1, <2>2, PushIndexType
<1>6. /\ DOMAIN auditLog' \subseteq Ids
      /\ \A id \in DOMAIN auditLog' : auditLog'[id] \in Seq(AuditEntry)
  <2>1. Entry("Created", actor, timestamp, None) \in AuditEntry
    BY EntryType DEF AuditAction, OptionTime
  <2> QED
    BY <2>1, AuditType DEF TypeOK, LedgerTypeOK
<1>7. /\ issuerStats' \in [Owners -> Nat]
      /\ globalStats' \in [total_attestations : Nat, total_revocations : Nat]
  <2> DEFINE added == Cardinality(DOMAIN new)
  <2>1. added \in Nat
    BY FS_CardinalityType
  <2>2. /\ issuerStats' = [issuerStats EXCEPT ![owner] = @ + added]
        /\ globalStats' = [globalStats EXCEPT !.total_attestations = @ + added]
    BY DEF store_attestations
  <2> HIDE DEF added
  <2> QED
    BY <2>1, <2>2, SMTT(20) DEF TypeOK, LedgerTypeOK
<1>8. LedgerTypeOK'
  BY <1>2, <1>3, <1>4, <1>5, <1>6, <1>7 DEF TypeOK, LedgerTypeOK
<1>9. RegistryTypeOK'
  BY DEF TypeOK, RegistryTypeOK, registryVars
<1>10. PolicyTypeOK'
  <2>1. lastIssuance' \in [Issuers -> OptionTime]
    BY DEF TypeOK, LedgerTypeOK, PolicyTypeOK, OptionTime, set_last_issuance_time
  <2> QED
    BY <2>1 DEF TypeOK, PolicyTypeOK, whitelistVars, claimVars, delegationVars
<1> QED
  BY <1>1, <1>8, <1>9, <1>10 DEF TypeOK

\* What an operation on stored attestations must establish: it writes the
\* records, the indexes, the counters and the audit log, nothing else.
LEMMA EditTypeOK ==
    ASSUME TypeOK,
           DOMAIN attestations' = DOMAIN attestations,
           \A id \in DOMAIN attestations : attestations'[id] \in Attestation,
           IsIndex(subjectIndex', Subjects), IsIndex(validIndex', Subjects),
           IsIndex(subjectChunks', Subjects),
           IsIndex(issuerIndex', Owners), IsIndex(issuerChunks', Owners),
           issuerStats' \in [Owners -> Nat],
           globalStats' \in [total_attestations : Nat, total_revocations : Nat],
           NEW ids \in SUBSET DOMAIN attestations, NEW entry \in AuditEntry,
           append_audit_entry(ids, entry),
           UNCHANGED <<now, registryVars, policyVars, endorsements>>
    PROVE  TypeOK'
<1>1. /\ DOMAIN auditLog' \subseteq Ids
      /\ \A id \in DOMAIN auditLog' : auditLog'[id] \in Seq(AuditEntry)
  BY AuditType DEF TypeOK, LedgerTypeOK
<1>2. LedgerTypeOK'
  BY <1>1 DEF TypeOK, LedgerTypeOK
<1>3. RegistryTypeOK' /\ PolicyTypeOK'
  BY DEF TypeOK, RegistryTypeOK, registryVars, PolicyTypeOK, policyVars, rateVars,
         whitelistVars, claimVars, delegationVars
<1> QED
  BY <1>2, <1>3 DEF TypeOK

\* A record marked as revoked or deleted is a record.
LEMMA MarkType ==
    ASSUME NEW a \in Attestation
    PROVE  /\ [a EXCEPT !.revoked = TRUE] \in Attestation
           /\ [a EXCEPT !.deleted = TRUE] \in Attestation
BY DEF Attestation

\* The removals from the indexes keep their types.
LEMMA RemoveType ==
    ASSUME TypeOK, NEW ids
    PROVE  /\ remove_subject_attestation(ids) => IsIndex(subjectIndex', Subjects)
           /\ remove_valid_attestation(ids) => IsIndex(validIndex', Subjects)
           /\ ChunkedIndex_remove_subject(ids) => IsIndex(subjectChunks', Subjects)
           /\ \A o \in Owners :
                 /\ remove_issuer_attestation(o, ids) => IsIndex(issuerIndex', Owners)
                 /\ ChunkedIndex_remove_issuer(o, ids) => IsIndex(issuerChunks', Owners)
<1>1. /\ IsIndex(subjectIndex, Subjects) /\ IsIndex(validIndex, Subjects)
      /\ IsIndex(subjectChunks, Subjects)
      /\ IsIndex(issuerIndex, Owners) /\ IsIndex(issuerChunks, Owners)
  BY DEF TypeOK, LedgerTypeOK
<1>2. DOMAIN issuerIndex = Owners /\ DOMAIN issuerChunks = Owners
  BY <1>1 DEF IsIndex
<1>3. remove_subject_attestation(ids) => IsIndex(subjectIndex', Subjects)
  BY <1>1, DropIndexType DEF remove_subject_attestation
<1>4. remove_valid_attestation(ids) => IsIndex(validIndex', Subjects)
  BY <1>1, DropIndexType DEF remove_valid_attestation
<1>5. ChunkedIndex_remove_subject(ids) => IsIndex(subjectChunks', Subjects)
  BY <1>1, DropIndexType DEF ChunkedIndex_remove_subject
<1>6. ASSUME NEW o \in Owners
      PROVE  /\ remove_issuer_attestation(o, ids) => IsIndex(issuerIndex', Owners)
             /\ ChunkedIndex_remove_issuer(o, ids) => IsIndex(issuerChunks', Owners)
  BY <1>1, <1>2, DropIndexType DEF remove_issuer_attestation, ChunkedIndex_remove_issuer
<1> QED
  BY <1>3, <1>4, <1>5, <1>6

\* So does every entry point that changes records.
LEMMA ManageTypeOK ==
    ASSUME TypeOK, Manage \/ Delete
    PROVE  TypeOK'
<1> USE DEF Owners, Actors
<1>0. /\ now \in Nat
      /\ \A id \in DOMAIN attestations : attestations[id] \in Attestation
      /\ \A i \in Issuers : require_issuer(i) => i \in Owners
      /\ IsIndex(subjectIndex, Subjects) /\ IsIndex(validIndex, Subjects)
      /\ IsIndex(subjectChunks, Subjects)
      /\ IsIndex(issuerIndex, Owners) /\ IsIndex(issuerChunks, Owners)
      /\ issuerStats \in [Owners -> Nat]
      /\ globalStats \in [total_attestations : Nat, total_revocations : Nat]
  BY DEF TypeOK, LedgerTypeOK
<1>1. ASSUME NEW i \in Issuers, NEW id \in DOMAIN attestations, revoke_attestation(i, id)
      PROVE  TypeOK'
  <2>1. /\ DOMAIN attestations' = DOMAIN attestations
        /\ \A x \in DOMAIN attestations : attestations'[x] \in Attestation
    BY <1>0, <1>1, SetRecord, MarkType, ZenonT(30) DEF revoke_attestation
  <2>2. /\ IsIndex(subjectIndex', Subjects) /\ IsIndex(validIndex', Subjects)
        /\ IsIndex(subjectChunks', Subjects)
        /\ IsIndex(issuerIndex', Owners) /\ IsIndex(issuerChunks', Owners)
    BY <1>1, RemoveType DEF revoke_attestation
  <2>3. Entry("Revoked", i, now, None) \in AuditEntry
    BY <1>0, EntryType DEF AuditAction, OptionTime
  <2>4. globalStats' \in [total_attestations : Nat, total_revocations : Nat]
    BY <1>0, <1>1 DEF revoke_attestation
  <2> QED
    BY <1>0, <1>1, <2>1, <2>2, <2>3, <2>4, EditTypeOK DEF revoke_attestation
<1>2. ASSUME NEW i \in Issuers, NEW ids \in SUBSET DOMAIN attestations,
             revoke_attestations_batch(i, ids)
      PROVE  TypeOK'
  <2>1. /\ DOMAIN attestations' = DOMAIN attestations
        /\ \A x \in DOMAIN attestations : attestations'[x] \in Attestation
    <3> DEFINE new == [id \in ids |-> [attestations[id] EXCEPT !.revoked = TRUE]]
    <3>1. set_attestations(new) /\ DOMAIN new = ids
      BY <1>2 DEF revoke_attestations_batch
    <3>2. \A id \in ids : new[id] \in Attestation
      BY <1>0, MarkType
    <3> HIDE DEF new
    <3> QED
      BY <1>0, <3>1, <3>2, SetRecords
  <2>2. IsIndex(subjectIndex', Subjects) /\ IsIndex(issuerIndex', Owners)
    BY <1>2, RemoveType DEF revoke_attestations_batch
  <2>3. /\ IsIndex(validIndex', Subjects) /\ IsIndex(subjectChunks', Subjects)
        /\ IsIndex(issuerChunks', Owners) /\ issuerStats' \in [Owners -> Nat]
    BY <1>0, <1>2 DEF revoke_attestations_batch
  <2>4. Entry("Revoked", i, now, None) \in AuditEntry
    BY <1>0, EntryType DEF AuditAction, OptionTime
  <2>5. globalStats' \in [total_attestations : Nat, total_revocations : Nat]
    <3> DEFINE n == Cardinality(ids)
    <3>1. n \in Nat
      BY FS_Subset, FS_CardinalityType DEF TypeOK, LedgerTypeOK
    <3>2. globalStats' = [globalStats EXCEPT !.total_revocations = @ + n]
      BY <1>2 DEF revoke_attestations_batch
    <3> HIDE DEF n
    <3> QED
      BY <1>0, <3>1, <3>2
  <2> QED
    BY <1>2, <2>1, <2>2, <2>3, <2>4, <2>5, EditTypeOK DEF revoke_attestations_batch
<1>3. ASSUME NEW i \in Issuers, NEW id \in DOMAIN attestations, NEW e \in Expirations,
             NEW entry \in AuditEntry, SetExpiration(i, id, e, entry)
      PROVE  TypeOK'
  <2>1. /\ DOMAIN attestations' = DOMAIN attestations
        /\ \A x \in DOMAIN attestations : attestations'[x] \in Attestation
    BY <1>0, <1>3, SetRecord, PolicyAssumption DEF SetExpiration, Attestation
  <2>2. UNCHANGED <<subjectIndex, validIndex, subjectChunks, issuerIndex, issuerChunks,
                    issuerStats, globalStats>>
    BY <1>3 DEF SetExpiration, indexVars, statVars
  <2> QED
    BY <1>0, <1>3, <2>1, <2>2, EditTypeOK DEF SetExpiration
<1>4. ASSUME NEW i \in Issuers, NEW id \in DOMAIN attestations, NEW e \in Expirations,
             renew_attestation(i, id, e) \/ update_expiration(i, id, e)
      PROVE  TypeOK'
  <2>1. /\ Entry("Renewed", i, now, e) \in AuditEntry
        /\ Entry("Updated", i, now, None) \in AuditEntry
    BY <1>0, EntryType, PolicyAssumption DEF AuditAction, OptionTime
  <2> QED
    BY <1>3, <1>4, <2>1 DEF renew_attestation, update_expiration
<1>5. ASSUME NEW a \in Admins, NEW id \in DOMAIN attestations, NEW i \in Issuers,
             transfer_attestation(a, id, i)
      PROVE  TypeOK'
  <2> DEFINE old == attestations[id].issuer
  <2>1. old \in Owners /\ old # i
    BY <1>0, <1>5 DEF Attestation, transfer_attestation
  <2>2. /\ DOMAIN attestations' = DOMAIN attestations
        /\ \A x \in DOMAIN attestations : attestations'[x] \in Attestation
    BY <1>0, <1>5, SetRecord DEF transfer_attestation, Attestation
  <2>3. IsIndex(issuerIndex', Owners)
    <3> DEFINE mid == [issuerIndex EXCEPT ![old] = Drop(@, {id})]
    <3>1. DOMAIN issuerIndex = Owners
      BY <1>0 DEF IsIndex
    <3>2. IsIndex(mid, Owners) /\ DOMAIN mid = Owners
      BY <1>0, <2>1, <3>1, DropIndexType
    <3>3. issuerIndex' = [mid EXCEPT ![i] = Push(@, {id})]
      BY <1>5 DEF transfer_attestation, MoveIndexEntry
    <3>4. {id} \in SUBSET Ids
      BY DEF TypeOK, LedgerTypeOK
    <3> HIDE DEF mid
    <3> QED
      BY <3>2, <3>3, <3>4, PushIndexType
  <2>4. issuerStats' \in [Owners -> Nat]
    BY <1>0, <1>5, <2>1 DEF transfer_attestation, MoveStats
  <2>5. Entry("Transferred", a, now, i) \in AuditEntry
    BY <1>0, EntryType DEF AuditAction
  <2> QED
    BY <1>0, <1>5, <2>2, <2>3, <2>4, <2>5, EditTypeOK DEF transfer_attestation
<1>6. ASSUME NEW s \in Subjects, NEW id \in DOMAIN attestations, request_deletion(s, id)
      PROVE  TypeOK'
  <2>1. /\ DOMAIN attestations' = DOMAIN attestations
        /\ \A x \in DOMAIN attestations : attestations'[x] \in Attestation
    <3>1. set_attestation(id, [attestations[id] EXCEPT !.deleted = TRUE])
      BY <1>6 DEF request_deletion
    <3>2. [attestations[id] EXCEPT !.deleted = TRUE] \in Attestation
      BY <1>0, MarkType
    <3> QED
      BY <1>0, <3>1, <3>2, SetRecord
  <2>2. /\ IsIndex(subjectIndex', Subjects) /\ IsIndex(validIndex', Subjects)
        /\ IsIndex(subjectChunks', Subjects)
    BY <1>6, RemoveType DEF request_deletion
  <2>3. Entry("Deleted", s, now, None) \in AuditEntry
    BY <1>0, EntryType DEF AuditAction, OptionTime
  <2> QED
    BY <1>0, <1>6, <2>1, <2>2, <2>3, EditTypeOK DEF request_deletion, statVars
<1>7. ASSUME NEW i \in Issuers, NEW id \in DOMAIN attestations, endorse_attestation(i, id)
      PROVE  TypeOK'
  <2>1. LedgerTypeOK' /\ RegistryTypeOK' /\ PolicyTypeOK'
    BY <1>7 DEF endorse_attestation, TypeOK, LedgerTypeOK, ledgerVars, indexVars, statVars,
                RegistryTypeOK, registryVars, PolicyTypeOK, policyVars, rateVars,
                whitelistVars, claimVars, delegationVars
  <2>2. /\ DOMAIN endorsements' \subseteq DOMAIN attestations'
        /\ \A x \in DOMAIN endorsements' : endorsements'[x] \subseteq Issuers
    BY <1>7 DEF endorse_attestation, get_endorsements, TypeOK, ledgerVars
  <2> QED
    BY <2>1, <2>2 DEF TypeOK
<1> QED
  BY <1>1, <1>2, <1>4, <1>5, <1>6, <1>7 DEF Manage, Delete

\* The settings of the admins and the issuers keep the types of the policy.
LEMMA PolicyTypeOKStep ==
    ASSUME TypeOK, PolicyNext, UNCHANGED <<ledgerVars, registryVars, endorsements>>
    PROVE  TypeOK'
<1> USE DEF PolicyTypeOK, rateVars, whitelistVars, claimVars, delegationVars
<1>0. now \in Nat /\ PolicyTypeOK
  BY DEF TypeOK, LedgerTypeOK
<1>1. CASE AdminSetting
  <2>1. ASSUME NEW l \in LimitChoices, set_limits(l) PROVE PolicyTypeOK'
    BY <1>0, <2>1, PolicyAssumption DEF set_limits
  <2>2. ASSUME NEW n \in IntervalChoices, set_rate_limit(n) PROVE PolicyTypeOK'
    BY <1>0, <2>2, PolicyAssumption DEF set_rate_limit, OptionTime
  <2>3. ASSUME NEW c \in ClaimTypes, NEW n \in IntervalChoices,
               set_rate_limit_for_claim_type(c, n)
        PROVE  PolicyTypeOK'
    BY <1>0, <2>3, PolicyAssumption DEF set_rate_limit_for_claim_type, OptionTime
  <2>4. ASSUME NEW c \in RegistrableClaims, register_claim_type(c) PROVE PolicyTypeOK'
    BY <1>0, <2>4, PolicyAssumption DEF register_claim_type, set_claim_type
  <2>5. ASSUME NEW b \in RegistryFlags, set_require_registered_claim_type(b)
        PROVE  PolicyTypeOK'
    BY <1>0, <2>5, PolicyAssumption DEF set_require_registered_claim_type
  <2>6. PolicyTypeOK'
    BY <1>1, <2>1, <2>2, <2>3, <2>4, <2>5 DEF AdminSetting
  <2> QED
    BY <2>6 DEF TypeOK, LedgerTypeOK, ledgerVars, indexVars, statVars, RegistryTypeOK,
                registryVars
<1>2. CASE WhitelistSetting
  <2>1. ASSUME NEW i \in WhitelistIssuers, NEW b \in BOOLEAN, set_whitelist_enabled(i, b)
        PROVE  PolicyTypeOK'
    BY <1>0, <2>1, PolicyAssumption DEF set_whitelist_enabled
  <2>2. ASSUME NEW i \in WhitelistIssuers, NEW S \in SUBSET Subjects,
               bulk_add_to_whitelist(i, S)
        PROVE  PolicyTypeOK'
    <3>1. {i} \X S \subseteq Issuers \X Subjects
      BY PolicyAssumption
    <3> QED
      BY <1>0, <2>2, <3>1 DEF bulk_add_to_whitelist
  <2>3. ASSUME NEW i \in WhitelistIssuers, NEW s \in Subjects, remove_from_whitelist(i, s)
        PROVE  PolicyTypeOK'
    BY <1>0, <2>3 DEF remove_from_whitelist
  <2>4. PolicyTypeOK'
    BY <1>2, <2>1, <2>2, <2>3 DEF WhitelistSetting
  <2> QED
    BY <2>4 DEF TypeOK, LedgerTypeOK, ledgerVars, indexVars, statVars, RegistryTypeOK,
                registryVars
<1>3. CASE DelegationSetting
  <2>1. ASSUME NEW i \in Issuers, NEW d \in Delegates, NEW c \in ClaimTypes,
               NEW e \in Expirations, delegate_claim_type(i, d, c, e)
        PROVE  PolicyTypeOK'
    BY <1>0, <2>1, PolicyAssumption DEF delegate_claim_type, set_delegation, DelegationKey
  <2>2. ASSUME NEW i \in Issuers, NEW d \in Delegates, NEW c \in ClaimTypes,
               revoke_delegation(i, d, c)
        PROVE  PolicyTypeOK'
    BY <1>0, <2>2 DEF revoke_delegation, remove_delegation, DelegationKey
  <2>3. PolicyTypeOK'
    BY <1>3, <2>1, <2>2 DEF DelegationSetting
  <2> QED
    BY <2>3 DEF TypeOK, LedgerTypeOK, ledgerVars, indexVars, statVars, RegistryTypeOK,
                registryVars
<1> QED
  BY <1>1, <1>2, <1>3 DEF PolicyNext

\* Every step keeps the types.
LEMMA NextTypeOK == TypeOK /\ [Next]_vars => TypeOK'
<1> SUFFICES ASSUME TypeOK, [Next]_vars PROVE TypeOK'
  OBVIOUS
<1>1. CASE Issue \/ Import \/ IssueBatch
  BY <1>1, IssuanceStores, StoredTypeOK
<1>2. CASE Manage \/ Delete
  BY <1>2, ManageTypeOK
<1>3. CASE RegistryNext /\ UNCHANGED <<ledgerVars, policyVars, endorsements>>
  <2>1. RegistryTypeOK'
    <3> USE DEF RegistryTypeOK
    <3>0. RegistryTypeOK
      BY DEF TypeOK
    <3>1. ASSUME NEW i \in Issuers, register_issuer(i) PROVE RegistryTypeOK'
      BY <3>0, <3>1 DEF register_issuer, add_issuer, increment_total_issuers
    <3>2. ASSUME NEW i \in RemovableIssuers, remove_issuer(i) PROVE RegistryTypeOK'
      BY <3>0, <3>2 DEF remove_issuer, decrement_total_issuers
    <3>3. ASSUME NEW b \in Bridges, register_bridge(b) PROVE RegistryTypeOK'
      BY <3>0, <3>3 DEF register_bridge, add_bridge
    <3>4. ASSUME NEW r \in PauseReasons, pause(r) PROVE RegistryTypeOK'
      BY <3>0, <3>4 DEF pause, set_pause_reason
    <3>5. ASSUME unpause PROVE RegistryTypeOK'
      BY <3>0, <3>5 DEF unpause, set_pause_reason
    <3> QED
      BY <1>3, <3>1, <3>2, <3>3, <3>4, <3>5 DEF RegistryNext
  <2>2. LedgerTypeOK' /\ PolicyTypeOK'
    BY <1>3 DEF TypeOK, LedgerTypeOK, ledgerVars, indexVars, statVars, PolicyTypeOK,
                policyVars, rateVars, whitelistVars, claimVars, delegationVars
  <2> QED
    BY <1>3, <2>1, <2>2 DEF TypeOK, ledgerVars
<1>4. CASE PolicyNext /\ UNCHANGED <<ledgerVars, registryVars, endorsements>>
  BY <1>4, PolicyTypeOKStep
<1>5. CASE CloseLedger
  BY <1>5 DEF CloseLedger, TypeOK, LedgerTypeOK, indexVars, statVars, RegistryTypeOK,
              registryVars, PolicyTypeOK, policyVars, rateVars, whitelistVars, claimVars,
              delegationVars
<1>6. CASE UNCHANGED vars
  BY <1>6 DEF vars, ledgerVars, TypeOK, LedgerTypeOK, indexVars, statVars, RegistryTypeOK,
              registryVars, PolicyTypeOK, policyVars, rateVars, whitelistVars, claimVars,
              delegationVars
<1> QED
  BY <1>1, <1>2, <1>3, <1>4, <1>5, <1>6 DEF Next

\* Every variable of the contract keeps its type, whatever is called in
\* whatever order: no index holds anything but ids and no counter underflows.
THEOREM TypeCorrect == Spec => []TypeOK
<1>1. Init => TypeOK
  BY InitTypeOK
<1>2. TypeOK /\ [Next]_vars => TypeOK'
  BY NextTypeOK
<1> QED
  BY <1>1, <1>2, PTL DEF Spec

-----------------------------------------------------------------------------
(* The indexes tell the truth about the records                            *)

LEMMA InitIndexInv == Init => IndexInv
<1> SUFFICES ASSUME Init PROVE IndexInv
  OBVIOUS
<1> USE DEF Init, LedgerInit, EmptyIndex, EmptyBag, SetToBag
<1>1. IdsDescribeRecords
  BY DEF IdsDescribeRecords
<1>2. SubjectIndexExact /\ ValidIndexCovers
  BY DEF SubjectIndexExact, ValidIndexCovers
<1>3. IssuerIndexSound
  BY DEF IssuerIndexSound
<1> QED
  BY <1>1, <1>2, <1>3 DEF IndexInv

-----------------------------------------------------------------------------
(* Creation                                                                *)

LEMMA StoredIndexInv ==
    ASSUME TypeOK, IndexInv, NEW owner, NEW new, NEW actor, NEW timestamp,
           Stored(owner, new, actor, timestamp)
    PROVE  IndexInv'
<1> DEFINE about(s) == {id \in DOMAIN new : new[id].subject = s}
<1>1. /\ DOMAIN attestations' = DOMAIN attestations \cup DOMAIN new
      /\ \A id \in DOMAIN new : attestations'[id] = new[id]
      /\ \A id \in DOMAIN attestations : attestations'[id] = attestations[id]
  BY SetRecords DEF Stored, store_attestations
<1>2. /\ DOMAIN new \cap DOMAIN attestations = {}
      /\ owner \in Owners
      /\ \A id \in DOMAIN new :
            /\ new[id].issuer = owner
            /\ new[id].subject = id.subject /\ new[id].claimType = id.claimType
            /\ new[id].timestamp = id.timestamp
            /\ ~new[id].revoked /\ ~new[id].deleted
  BY DEF Stored
<1>3. /\ subjectIndex' = [s \in Subjects |-> Push(subjectIndex[s], about(s))]
      /\ validIndex' = [s \in Subjects |-> Push(validIndex[s], about(s))]
      /\ issuerIndex' = [issuerIndex EXCEPT ![owner] = Push(@, DOMAIN new)]
  BY DEF Stored, store_attestations
<1>4. IdsDescribeRecords'
  BY <1>1, <1>2 DEF IndexInv, IdsDescribeRecords
<1>5. SubjectIndexExact'
  <2> SUFFICES ASSUME NEW s \in Subjects
               PROVE  /\ DOMAIN subjectIndex'[s] =
                            {id \in DOMAIN attestations' :
                                /\ attestations'[id].subject = s
                                /\ ~attestations'[id].revoked
                                /\ ~attestations'[id].deleted}
                      /\ \A id \in DOMAIN subjectIndex'[s] : subjectIndex'[s][id] = 1
    BY DEF SubjectIndexExact
  <2>1. subjectIndex'[s] = Push(subjectIndex[s], about(s))
    BY <1>3
  <2>2. /\ DOMAIN subjectIndex[s] =
              {id \in DOMAIN attestations : /\ attestations[id].subject = s
                                            /\ ~attestations[id].revoked
                                            /\ ~attestations[id].deleted}
        /\ \A id \in DOMAIN subjectIndex[s] : subjectIndex[s][id] = 1
    BY DEF IndexInv, SubjectIndexExact
  <2>3. DOMAIN subjectIndex'[s] = DOMAIN subjectIndex[s] \cup about(s)
    BY <2>1, PushDomain
  <2>4. about(s) \cap DOMAIN subjectIndex[s] = {}
    BY <1>2, <2>2
  <2>5. \A id \in DOMAIN subjectIndex'[s] : subjectIndex'[s][id] = 1
    BY <2>1, <2>2, <2>3, <2>4, PushCount
  <2> QED
    BY <1>1, <1>2, <2>2, <2>3, <2>5
<1>6. ValidIndexCovers'
  <2> SUFFICES ASSUME NEW s \in Subjects
               PROVE  /\ DOMAIN validIndex'[s] \subseteq
                            {id \in DOMAIN attestations' :
                                /\ attestations'[id].subject = s
                                /\ ~attestations'[id].deleted}
                      /\ DOMAIN subjectIndex'[s] \subseteq DOMAIN validIndex'[s]
    BY DEF ValidIndexCovers
  <2>1. /\ DOMAIN subjectIndex'[s] = DOMAIN subjectIndex[s] \cup about(s)
        /\ DOMAIN validIndex'[s] = DOMAIN validIndex[s] \cup about(s)
    BY <1>3, PushDomain
  <2> QED
    BY <1>1, <1>2, <2>1 DEF IndexInv, ValidIndexCovers
<1>7. IssuerIndexSound'
  <2> SUFFICES ASSUME NEW o \in Owners
               PROVE  /\ \A id \in DOMAIN issuerIndex'[o] :
                            /\ issuerIndex'[o][id] = 1
                            /\ id \in DOMAIN attestations'
                            /\ attestations'[id].issuer = o
                      /\ \A id \in DOMAIN attestations' :
                            attestations'[id].issuer = o /\ ~attestations'[id].revoked
                               => id \in DOMAIN issuerIndex'[o]
    BY DEF IssuerIndexSound, has_attestation
  <2>1. /\ \A id \in DOMAIN issuerIndex[o] : /\ issuerIndex[o][id] = 1
                                              /\ id \in DOMAIN attestations
                                              /\ attestations[id].issuer = o
        /\ \A id \in DOMAIN attestations :
              attestations[id].issuer = o /\ ~attestations[id].revoked
                 => id \in DOMAIN issuerIndex[o]
        /\ DOMAIN issuerIndex = Owners
    BY DEF IndexInv, IssuerIndexSound, has_attestation, TypeOK, LedgerTypeOK, IsIndex
  <2>2. CASE o # owner
    <3>1. issuerIndex'[o] = issuerIndex[o]
      BY <1>2, <1>3, <2>1, <2>2
    <3> QED
      BY <1>1, <1>2, <2>1, <2>2, <3>1
  <2>3. CASE o = owner
    <3>1. issuerIndex'[o] = Push(issuerIndex[o], DOMAIN new)
      BY <1>2, <1>3, <2>1, <2>3
    <3>2. DOMAIN issuerIndex'[o] = DOMAIN issuerIndex[o] \cup DOMAIN new
      BY <3>1, PushDomain
    <3>3. DOMAIN new \cap DOMAIN issuerIndex[o] = {}
      BY <1>2, <2>1
    <3>4. \A id \in DOMAIN issuerIndex'[o] : issuerIndex'[o][id] = 1
      BY <2>1, <3>1, <3>2, <3>3, PushCount
    <3> QED
      BY <1>1, <1>2, <2>1, <2>3, <3>2, <3>4
  <2> QED
    BY <2>2, <2>3
<1> QED
  BY <1>4, <1>5, <1>6, <1>7 DEF IndexInv

-----------------------------------------------------------------------------
(* Revocation, single or in a batch                                        *)

RevokedTogether(issuer, ids) ==
    /\ ids \subseteq DOMAIN attestations
    /\ \A id \in ids : OwnedUnrevoked(issuer, id)
    /\ DOMAIN attestations' = DOMAIN attestations
    /\ \A id \in ids : attestations'[id] = [attestations[id] EXCEPT !.revoked = TRUE]
    /\ \A id \in DOMAIN attestations \ ids : attestations'[id] = attestations[id]
    /\ remove_subject_attestation(ids)
    /\ remove_issuer_attestation(issuer, ids)
    /\ UNCHANGED validIndex \/ remove_valid_attestation(ids)

\* A single revocation is a batch of one ...
LEMMA RevokeIsTogether ==
    ASSUME NEW i, NEW id \in DOMAIN attestations, revoke_attestation(i, id)
    PROVE  RevokedTogether(i, {id})
BY SetRecord DEF revoke_attestation, RevokedTogether

\* ... as far as the records and the flat indexes go.
LEMMA RevokeBatchIsTogether ==
    ASSUME NEW i, NEW ids \in SUBSET DOMAIN attestations, revoke_attestations_batch(i, ids)
    PROVE  RevokedTogether(i, ids)
<1> DEFINE new == [id \in ids |-> [attestations[id] EXCEPT !.revoked = TRUE]]
<1>1. set_attestations(new) /\ DOMAIN new = ids
  BY DEF revoke_attestations_batch
<1>2. /\ DOMAIN attestations' = DOMAIN attestations
      /\ \A id \in ids : attestations'[id] = new[id]
      /\ \A id \in DOMAIN attestations \ ids : attestations'[id] = attestations[id]
  <2> HIDE DEF new
  <2> QED
    BY <1>1, SetRecords
<1> QED
  BY <1>2 DEF revoke_attestations_batch, RevokedTogether

\* What marking a record leaves alone.
LEMMA MarkFields ==
    ASSUME NEW a \in Attestation
    PROVE  /\ LET r == [a EXCEPT !.revoked = TRUE]
              IN  /\ r.issuer = a.issuer /\ r.subject = a.subject
                  /\ r.claimType = a.claimType /\ r.timestamp = a.timestamp
                  /\ r.expiration = a.expiration /\ r.validFrom = a.validFrom
                  /\ r.origin = a.origin /\ r.deleted = a.deleted /\ r.revoked
           /\ LET r == [a EXCEPT !.deleted = TRUE]
              IN  /\ r.issuer = a.issuer /\ r.subject = a.subject
                  /\ r.claimType = a.claimType /\ r.timestamp = a.timestamp
                  /\ r.expiration = a.expiration /\ r.validFrom = a.validFrom
                  /\ r.origin = a.origin /\ r.revoked = a.revoked /\ r.deleted
BY DEF Attestation

\* Revocation, single or in a batch, keeps the indexes right.
LEMMA RevokedIndexInv ==
    ASSUME TypeOK, IndexInv, NEW i \in Issuers, NEW ids, RevokedTogether(i, ids)
    PROVE  IndexInv'
<1>0. /\ ids \subseteq DOMAIN attestations
      /\ DOMAIN attestations' = DOMAIN attestations
      /\ i \in Owners
  BY DEF RevokedTogether, Owners
<1>1. \A id \in ids : /\ attestations[id].issuer = i
                      /\ attestations'[id].issuer = i
                      /\ attestations'[id].subject = attestations[id].subject
                      /\ attestations'[id].claimType = attestations[id].claimType
                      /\ attestations'[id].timestamp = attestations[id].timestamp
                      /\ attestations'[id].deleted = attestations[id].deleted
                      /\ attestations'[id].revoked
  <2> SUFFICES ASSUME NEW id \in ids
               PROVE  /\ attestations[id].issuer = i
                      /\ attestations'[id].issuer = i
                      /\ attestations'[id].subject = attestations[id].subject
                      /\ attestations'[id].claimType = attestations[id].claimType
                      /\ attestations'[id].timestamp = attestations[id].timestamp
                      /\ attestations'[id].deleted = attestations[id].deleted
                      /\ attestations'[id].revoked
    OBVIOUS
  <2>1. attestations[id] \in Attestation
    BY <1>0 DEF TypeOK, LedgerTypeOK
  <2>2. attestations'[id] = [attestations[id] EXCEPT !.revoked = TRUE]
    BY DEF RevokedTogether
  <2>3. attestations[id].issuer = i
    BY DEF RevokedTogether, OwnedUnrevoked
  <2> QED
    BY <2>1, <2>2, <2>3, MarkFields
<1>2. \A id \in DOMAIN attestations \ ids : attestations'[id] = attestations[id]
  BY DEF RevokedTogether
<1>3. IdsDescribeRecords'
  BY <1>0, <1>1, <1>2 DEF IndexInv, IdsDescribeRecords
<1>4. \A s \in Subjects :
         /\ DOMAIN subjectIndex'[s] =
               DOMAIN subjectIndex[s] \ {id \in ids : attestations[id].subject = s}
         /\ \A id \in DOMAIN subjectIndex'[s] : subjectIndex'[s][id] = subjectIndex[s][id]
  <2>1. \A s \in Subjects : subjectIndex'[s] = Drop(subjectIndex[s], About(s, ids))
    BY DEF RevokedTogether, remove_subject_attestation
  <2> QED
    BY <2>1 DEF Drop, About
<1>5. SubjectIndexExact'
  BY <1>0, <1>1, <1>2, <1>4 DEF IndexInv, SubjectIndexExact
<1>6. ValidIndexCovers'
  <2>1. \A s \in Subjects :
           /\ DOMAIN validIndex'[s] \subseteq DOMAIN validIndex[s]
           /\ DOMAIN validIndex[s] \ {id \in ids : attestations[id].subject = s}
                 \subseteq DOMAIN validIndex'[s]
    <3>1. CASE UNCHANGED validIndex
      BY <3>1
    <3>2. CASE remove_valid_attestation(ids)
      <4>1. \A s \in Subjects : validIndex'[s] = Drop(validIndex[s], About(s, ids))
        BY <3>2 DEF remove_valid_attestation
      <4> QED
        BY <4>1 DEF Drop, About
    <3> QED
      BY <3>1, <3>2 DEF RevokedTogether
  <2> QED
    BY <1>0, <1>1, <1>2, <1>4, <2>1 DEF IndexInv, ValidIndexCovers
<1>7. IssuerIndexSound'
  <2>1. DOMAIN issuerIndex = Owners
    BY DEF TypeOK, LedgerTypeOK, IsIndex
  <2>2. \A o \in Owners :
           /\ DOMAIN issuerIndex'[o] =
                 IF o = i THEN DOMAIN issuerIndex[o] \ ids ELSE DOMAIN issuerIndex[o]
           /\ \A id \in DOMAIN issuerIndex'[o] : issuerIndex'[o][id] = issuerIndex[o][id]
    <3>1. \A o \in Owners :
             issuerIndex'[o] = IF o = i THEN Drop(issuerIndex[o], ids) ELSE issuerIndex[o]
      BY <1>0, <2>1 DEF RevokedTogether, remove_issuer_attestation
    <3> QED
      BY <3>1 DEF Drop
  <2>3. \A id \in DOMAIN attestations :
           /\ attestations'[id].issuer = attestations[id].issuer
           /\ ~attestations'[id].revoked => ~attestations[id].revoked /\ id \notin ids
    BY <1>1, <1>2
  <2>4. ASSUME NEW o \in Owners
        PROVE  /\ \A id \in DOMAIN issuerIndex'[o] :
                     /\ issuerIndex'[o][id] = 1
                     /\ id \in DOMAIN attestations' /\ attestations'[id].issuer = o
               /\ \A id \in DOMAIN attestations' :
                     attestations'[id].issuer = o /\ ~attestations'[id].revoked
                        => id \in DOMAIN issuerIndex'[o]
    <3>1. /\ \A id \in DOMAIN issuerIndex[o] :
                /\ issuerIndex[o][id] = 1
                /\ id \in DOMAIN attestations /\ attestations[id].issuer = o
          /\ \A id \in DOMAIN attestations :
                attestations[id].issuer = o /\ ~attestations[id].revoked
                   => id \in DOMAIN issuerIndex[o]
      BY DEF IndexInv, IssuerIndexSound, has_attestation
    <3>2. /\ DOMAIN issuerIndex'[o] \subseteq DOMAIN issuerIndex[o]
          /\ DOMAIN issuerIndex[o] \ ids \subseteq DOMAIN issuerIndex'[o]
          /\ \A id \in DOMAIN issuerIndex'[o] : issuerIndex'[o][id] = issuerIndex[o][id]
      BY <2>2
    <3> QED
      BY <1>0, <2>3, <3>1, <3>2
  <2> QED
    BY <2>4 DEF IssuerIndexSound, has_attestation
<1> QED
  BY <1>3, <1>5, <1>6, <1>7 DEF IndexInv

-----------------------------------------------------------------------------
(* The other changes of a stored attestation                               *)

\* Steps that change neither a flat index nor what the indexes depend on.
LEMMA SameIndexInv ==
    ASSUME IndexInv, UNCHANGED <<subjectIndex, validIndex, issuerIndex>>,
           DOMAIN attestations' = DOMAIN attestations,
           \A id \in DOMAIN attestations :
              /\ attestations'[id].issuer = attestations[id].issuer
              /\ attestations'[id].subject = attestations[id].subject
              /\ attestations'[id].claimType = attestations[id].claimType
              /\ attestations'[id].timestamp = attestations[id].timestamp
              /\ attestations'[id].revoked = attestations[id].revoked
              /\ attestations'[id].deleted = attestations[id].deleted
    PROVE  IndexInv'
<1>1. IdsDescribeRecords'
  BY DEF IndexInv, IdsDescribeRecords
<1>2. SubjectIndexExact'
  BY DEF IndexInv, SubjectIndexExact
<1>3. ValidIndexCovers'
  BY DEF IndexInv, ValidIndexCovers
<1>4. IssuerIndexSound'
  BY DEF IndexInv, IssuerIndexSound, has_attestation
<1> QED
  BY <1>1, <1>2, <1>3, <1>4 DEF IndexInv

\* So does a new expiration, which no index knows of,
LEMMA ExpirationIndexInv ==
    ASSUME TypeOK, IndexInv, NEW i, NEW id \in DOMAIN attestations, NEW e, NEW entry,
           SetExpiration(i, id, e, entry)
    PROVE  IndexInv'
<1>1. set_attestation(id, [attestations[id] EXCEPT !.expiration = e])
  BY DEF SetExpiration
<1>2. attestations[id] \in Attestation
  BY DEF TypeOK, LedgerTypeOK
<1>3. UNCHANGED <<subjectIndex, validIndex, issuerIndex>>
  BY DEF SetExpiration, indexVars
<1> QED
  BY <1>1, <1>2, <1>3, SetRecord, SameIndexInv DEF Attestation

\* a transfer, which moves the id from one issuer's index to another's,
LEMMA TransferIndexInv ==
    ASSUME TypeOK, IndexInv, NEW a, NEW id \in DOMAIN attestations, NEW i \in Issuers,
           transfer_attestation(a, id, i)
    PROVE  IndexInv'
<1> DEFINE old == attestations[id].issuer
<1>1. attestations[id] \in Attestation /\ old \in Owners /\ i \in Owners /\ old # i
  BY DEF TypeOK, LedgerTypeOK, Attestation, Owners, transfer_attestation
<1>2. /\ DOMAIN attestations' = DOMAIN attestations
      /\ attestations'[id] = [attestations[id] EXCEPT !.issuer = i]
      /\ \A x \in DOMAIN attestations \ {id} : attestations'[x] = attestations[x]
  BY SetRecord DEF transfer_attestation
<1>3. /\ attestations'[id].issuer = i
      /\ \A x \in DOMAIN attestations :
            /\ attestations'[x].subject = attestations[x].subject
            /\ attestations'[x].claimType = attestations[x].claimType
            /\ attestations'[x].timestamp = attestations[x].timestamp
            /\ attestations'[x].revoked = attestations[x].revoked
            /\ attestations'[x].deleted = attestations[x].deleted
  BY <1>1, <1>2 DEF Attestation
<1>4. UNCHANGED <<subjectIndex, validIndex>>
  BY DEF transfer_attestation
<1>5. IdsDescribeRecords'
  BY <1>2, <1>3 DEF IndexInv, IdsDescribeRecords
<1>6. SubjectIndexExact'
  BY <1>2, <1>3, <1>4 DEF IndexInv, SubjectIndexExact
<1>7. ValidIndexCovers'
  BY <1>2, <1>3, <1>4 DEF IndexInv, ValidIndexCovers
<1>8. IssuerIndexSound'
  <2>1. DOMAIN issuerIndex = Owners
    BY DEF TypeOK, LedgerTypeOK, IsIndex
  <2>2. issuerIndex' = [issuerIndex EXCEPT ![old] = Drop(@, {id}), ![i] = Push(@, {id})]
    BY DEF transfer_attestation, MoveIndexEntry
  <2>3. /\ issuerIndex'[old] = Drop(issuerIndex[old], {id})
        /\ issuerIndex'[i] = Push(issuerIndex[i], {id})
        /\ \A o \in Owners \ {old, i} : issuerIndex'[o] = issuerIndex[o]
    BY <1>1, <2>1, <2>2
  <2>4. /\ id \notin DOMAIN issuerIndex[i]
        /\ \A o \in Owners : \A x \in DOMAIN issuerIndex[o] : issuerIndex[o][x] = 1
    BY <1>1 DEF IndexInv, IssuerIndexSound
  <2>5. /\ DOMAIN issuerIndex'[i] = DOMAIN issuerIndex[i] \cup {id}
        /\ \A x \in DOMAIN issuerIndex'[i] : issuerIndex'[i][x] = 1
    <3>1. DOMAIN issuerIndex'[i] = DOMAIN issuerIndex[i] \cup {id}
      BY <2>3, PushDomain
    <3>2. {id} \cap DOMAIN issuerIndex[i] = {}
      BY <2>4
    <3>3. \A x \in DOMAIN issuerIndex[i] : issuerIndex[i][x] = 1
      BY <1>1, <2>4
    <3>4. \A x \in DOMAIN issuerIndex[i] \cup {id} : Push(issuerIndex[i], {id})[x] = 1
      BY <3>2, <3>3, PushCount
    <3> QED
      BY <2>3, <3>1, <3>4
  <2>6. /\ DOMAIN issuerIndex'[old] = DOMAIN issuerIndex[old] \ {id}
        /\ \A x \in DOMAIN issuerIndex'[old] : issuerIndex'[old][x] = 1
    BY <1>1, <2>3, <2>4 DEF Drop
  <2>7. /\ \A o \in Owners : \A x \in DOMAIN issuerIndex[o] :
              x \in DOMAIN attestations /\ attestations[x].issuer = o
        /\ \A o \in Owners, x \in DOMAIN attestations :
              attestations[x].issuer = o /\ ~attestations[x].revoked
                 => x \in DOMAIN issuerIndex[o]
    BY DEF IndexInv, IssuerIndexSound, has_attestation
  <2>8. ASSUME NEW o \in Owners
        PROVE  /\ \A x \in DOMAIN issuerIndex'[o] :
                     /\ issuerIndex'[o][x] = 1
                     /\ x \in DOMAIN attestations' /\ attestations'[x].issuer = o
               /\ \A x \in DOMAIN attestations' :
                     attestations'[x].issuer = o /\ ~attestations'[x].revoked
                        => x \in DOMAIN issuerIndex'[o]
    <3>0. /\ \A x \in DOMAIN issuerIndex[o] :
                x \in DOMAIN attestations /\ attestations[x].issuer = o
          /\ \A x \in DOMAIN attestations :
                attestations[x].issuer = o /\ ~attestations[x].revoked
                   => x \in DOMAIN issuerIndex[o]
          /\ \A x \in DOMAIN issuerIndex[o] : issuerIndex[o][x] = 1
      BY <2>4, <2>7
    <3>00. \A x \in DOMAIN attestations : x # id => attestations'[x] = attestations[x]
      BY <1>2
    <3> HIDE DEF old
    <3>1. CASE o = i
      BY <1>1, <1>2, <1>3, <2>5, <3>0, <3>00, <3>1, ZenonT(30)
    <3>2. CASE o = old
      BY <1>1, <1>2, <1>3, <2>6, <3>0, <3>00, <3>2, ZenonT(30) DEF old
    <3>3. CASE o \notin {old, i}
      <4>1. issuerIndex'[o] = issuerIndex[o]
        BY <2>3, <3>3
      <4>2. id \notin DOMAIN issuerIndex[o]
        BY <3>0, <3>3 DEF old
      <4>3. \A x \in DOMAIN attestations :
               /\ attestations'[x].issuer = o <=> attestations[x].issuer = o
               /\ attestations'[x].revoked = attestations[x].revoked
        BY <1>3, <3>00, <3>3 DEF old
      <4> QED
        BY <1>2, <3>0, <4>1, <4>3
    <3> QED
      BY <3>1, <3>2, <3>3
  <2> QED
    BY <2>8 DEF IssuerIndexSound, has_attestation
<1> QED
  BY <1>5, <1>6, <1>7, <1>8 DEF IndexInv

\* and a deletion, which takes the id out of the indexes of its subject.
LEMMA DeletionIndexInv ==
    ASSUME TypeOK, IndexInv, NEW s \in Subjects, NEW id \in DOMAIN attestations,
           request_deletion(s, id)
    PROVE  IndexInv'
<1>1. /\ DOMAIN attestations' = DOMAIN attestations
      /\ attestations'[id] = [attestations[id] EXCEPT !.deleted = TRUE]
      /\ \A x \in DOMAIN attestations \ {id} : attestations'[x] = attestations[x]
  BY SetRecord DEF request_deletion
<1>2. /\ \A x \in DOMAIN attestations :
            /\ attestations'[x].issuer = attestations[x].issuer
            /\ attestations'[x].subject = attestations[x].subject
            /\ attestations'[x].claimType = attestations[x].claimType
            /\ attestations'[x].timestamp = attestations[x].timestamp
            /\ attestations'[x].revoked = attestations[x].revoked
      /\ attestations'[id].deleted
      /\ \A x \in DOMAIN attestations :
            x # id => attestations'[x].deleted = attestations[x].deleted
  <2>1. attestations[id] \in Attestation
    BY DEF TypeOK, LedgerTypeOK
  <2>2. LET r == attestations'[id]
            a == attestations[id]
        IN  /\ r.issuer = a.issuer /\ r.subject = a.subject
            /\ r.claimType = a.claimType /\ r.timestamp = a.timestamp
            /\ r.revoked = a.revoked /\ r.deleted
    BY <1>1, <2>1, MarkFields
  <2> QED
    BY <1>1, <2>2
<1>3. \A x \in Subjects :
         /\ DOMAIN subjectIndex'[x] = DOMAIN subjectIndex[x] \
                                        {y \in {id} : attestations[y].subject = x}
         /\ DOMAIN validIndex'[x] = DOMAIN validIndex[x] \
                                        {y \in {id} : attestations[y].subject = x}
         /\ \A y \in DOMAIN subjectIndex'[x] : subjectIndex'[x][y] = subjectIndex[x][y]
  <2>1. \A x \in Subjects : /\ subjectIndex'[x] = Drop(subjectIndex[x], About(x, {id}))
                            /\ validIndex'[x] = Drop(validIndex[x], About(x, {id}))
    BY DEF request_deletion, remove_subject_attestation, remove_valid_attestation
  <2>2. ASSUME NEW x \in Subjects
        PROVE  /\ DOMAIN subjectIndex'[x] = DOMAIN subjectIndex[x] \ About(x, {id})
               /\ DOMAIN validIndex'[x] = DOMAIN validIndex[x] \ About(x, {id})
               /\ \A y \in DOMAIN subjectIndex'[x] :
                     subjectIndex'[x][y] = subjectIndex[x][y]
    BY <2>1, ZenonT(30) DEF Drop
  <2> QED
    BY <2>2 DEF About
<1>4. UNCHANGED issuerIndex
  BY DEF request_deletion
<1>5. IdsDescribeRecords'
  BY <1>1, <1>2 DEF IndexInv, IdsDescribeRecords
<1>6. SubjectIndexExact'
  <2> SUFFICES ASSUME NEW x \in Subjects
               PROVE  /\ DOMAIN subjectIndex'[x] =
                            {y \in DOMAIN attestations' :
                                /\ attestations'[y].subject = x
                                /\ ~attestations'[y].revoked
                                /\ ~attestations'[y].deleted}
                      /\ \A y \in DOMAIN subjectIndex'[x] : subjectIndex'[x][y] = 1
    BY DEF SubjectIndexExact
  <2>1. /\ DOMAIN subjectIndex[x] =
              {y \in DOMAIN attestations : /\ attestations[y].subject = x
                                           /\ ~attestations[y].revoked
                                           /\ ~attestations[y].deleted}
        /\ \A y \in DOMAIN subjectIndex[x] : subjectIndex[x][y] = 1
    BY DEF IndexInv, SubjectIndexExact
  <2>2. \A y : y \in DOMAIN subjectIndex'[x] <=>
                 y \in DOMAIN subjectIndex[x] /\ ~(y = id /\ attestations[id].subject = x)
    BY <1>3
  <2>3. \A y \in DOMAIN subjectIndex'[x] : subjectIndex'[x][y] = 1
    BY <1>3, <2>1, <2>2
  <2>4. ASSUME NEW y \in DOMAIN attestations
        PROVE  (/\ attestations'[y].subject = x
                /\ ~attestations'[y].revoked
                /\ ~attestations'[y].deleted)
               <=>
               (/\ attestations[y].subject = x
                /\ ~attestations[y].revoked
                /\ ~attestations[y].deleted
                /\ y # id)
    <3>1. CASE y = id
      BY <1>2, <3>1
    <3>2. CASE y # id
      BY <1>2, <3>2
    <3> QED
      BY <3>1, <3>2
  <2> QED
    BY <1>1, <2>1, <2>2, <2>3, <2>4
<1>7. ValidIndexCovers'
  BY <1>1, <1>2, <1>3 DEF IndexInv, ValidIndexCovers
<1>8. IssuerIndexSound'
  BY <1>1, <1>2, <1>4 DEF IndexInv, IssuerIndexSound, has_attestation
<1> QED
  BY <1>5, <1>6, <1>7, <1>8 DEF IndexInv

-----------------------------------------------------------------------------

\* Every step keeps the indexes right.
LEMMA NextIndexInv == TypeOK /\ IndexInv /\ [Next]_vars => IndexInv'
<1> SUFFICES ASSUME TypeOK, IndexInv, [Next]_vars PROVE IndexInv'
  OBVIOUS
<1>0. ASSUME UNCHANGED <<attestations, indexVars>> PROVE IndexInv'
  BY <1>0, SameIndexInv DEF indexVars
<1>1. CASE Issue \/ Import \/ IssueBatch
  BY <1>1, IssuanceStores, StoredIndexInv
<1>2. ASSUME NEW i \in Issuers, NEW id \in DOMAIN attestations,
             \/ revoke_attestation(i, id)
             \/ endorse_attestation(i, id)
             \/ \E e \in Expirations : renew_attestation(i, id, e)
             \/ \E e \in Expirations : update_expiration(i, id, e)
             \/ \E a \in Admins : transfer_attestation(a, id, i)
      PROVE  IndexInv'
  <2>1. CASE revoke_attestation(i, id)
    BY <2>1, RevokeIsTogether, RevokedIndexInv
  <2>2. CASE endorse_attestation(i, id)
    BY <1>0, <2>2 DEF endorse_attestation, ledgerVars
  <2>3. CASE \E e \in Expirations : renew_attestation(i, id, e) \/ update_expiration(i, id, e)
    BY <2>3, ExpirationIndexInv DEF renew_attestation, update_expiration
  <2>4. CASE \E a \in Admins : transfer_attestation(a, id, i)
    BY <2>4, TransferIndexInv
  <2> QED
    BY <1>2, <2>1, <2>2, <2>3, <2>4
<1>3. ASSUME NEW i \in Issuers, NEW ids \in SUBSET DOMAIN attestations,
             revoke_attestations_batch(i, ids)
      PROVE  IndexInv'
  BY <1>3, RevokeBatchIsTogether, RevokedIndexInv
<1>4. CASE Manage
  BY <1>2, <1>3, <1>4 DEF Manage
<1>5. CASE Delete
  BY <1>5, DeletionIndexInv DEF Delete
<1>6. CASE \/ RegistryNext /\ UNCHANGED <<ledgerVars, policyVars, endorsements>>
           \/ PolicyNext /\ UNCHANGED <<ledgerVars, registryVars, endorsements>>
  BY <1>0, <1>6 DEF ledgerVars
<1>7. CASE CloseLedger \/ UNCHANGED vars
  BY <1>0, <1>7 DEF CloseLedger, vars, ledgerVars
<1> QED
  BY <1>1, <1>4, <1>5, <1>6, <1>7 DEF Next

\* The four relations between the flat indexes and the records hold together
\* in every reachable state.
THEOREM IndexesSound == Spec => []IndexInv
<1>1. Init => IndexInv
  BY InitIndexInv
<1>2. TypeOK /\ IndexInv /\ [Next]_vars => IndexInv'
  BY NextIndexInv
<1> QED
  BY <1>1, <1>2, TypeCorrect, PTL DEF Spec

\* The index of a subject lists exactly its live attestations, each once.
THEOREM SubjectIndexIsExact == Spec => []SubjectIndexExact
<1>1. IndexInv => SubjectIndexExact
  BY DEF IndexInv
<1> QED
  BY <1>1, IndexesSound, PTL

\* The index of an issuer lists only attestations it owns, each once, and
\* every unrevoked one.
THEOREM IssuerIndexIsSound == Spec => []IssuerIndexSound
<1>1. IndexInv => IssuerIndexSound
  BY DEF IndexInv
<1> QED
  BY <1>1, IndexesSound, PTL

-----------------------------------------------------------------------------
(* The claim queries                                                       *)

\* A valid attestation is not revoked: the subject index has all of them.
LEMMA ValidIsUnrevoked ==
    ASSUME NEW id, IsValid(id)
    PROVE  ~attestations[id].revoked
BY DEF IsValid, get_status

\* What the queries over the subject index see is what backs a claim.
LEMMA VisibleIsBacking ==
    ASSUME IndexInv, NEW s \in Subjects
    PROVE  VisibleValid(s) = {id \in DOMAIN attestations :
                                 /\ attestations[id].subject = s
                                 /\ ~attestations[id].deleted
                                 /\ IsValid(id)}
BY ValidIsUnrevoked DEF IndexInv, SubjectIndexExact, VisibleValid, has_attestation

\* The five queries of query.rs, which scan two different indexes, report a
\* claim exactly when an undeleted attestation with status Valid backs it.
THEOREM QueriesAgree == Spec => []ClaimQueriesAgree
<1>1. ASSUME IndexInv PROVE ClaimQueriesAgree
  <2> SUFFICES ASSUME NEW s \in Subjects
               PROVE
       /\ \A c \in ClaimTypes :
             /\ has_valid_claim(s, c) <=> Backing(s, c) # {}
             /\ c \in get_valid_claims(s) <=> Backing(s, c) # {}
             /\ \A o \in Owners :
                   has_valid_claim_from_issuer(s, c, o) <=>
                      \E id \in Backing(s, c) : attestations[id].issuer = o
       /\ \A C \in SUBSET ClaimTypes :
             /\ has_any_claim(s, C) <=> \E c \in C : Backing(s, c) # {}
             /\ has_all_claims(s, C) <=> \A c \in C : Backing(s, c) # {}
    BY DEF ClaimQueriesAgree
  <2>1. \A c : Backing(s, c) = {id \in VisibleValid(s) : attestations[id].claimType = c}
    BY <1>1, VisibleIsBacking DEF Backing
  <2>2. \A c : has_valid_claim(s, c) <=> Backing(s, c) # {}
    <3>1. \A id \in DOMAIN validIndex[s] :
             id \in DOMAIN attestations /\ attestations[id].subject = s
             /\ ~attestations[id].deleted
      BY <1>1 DEF IndexInv, ValidIndexCovers
    <3>2. VisibleValid(s) \subseteq DOMAIN validIndex[s]
      BY <1>1 DEF IndexInv, ValidIndexCovers, VisibleValid
    <3>3. ASSUME NEW c, has_valid_claim(s, c) PROVE Backing(s, c) # {}
      BY <3>1, <3>3 DEF has_valid_claim, Backing
    <3>4. ASSUME NEW c, NEW id \in Backing(s, c) PROVE has_valid_claim(s, c)
      BY <2>1, <3>2, <3>4 DEF has_valid_claim, VisibleValid
    <3> QED
      BY <3>3, <3>4
  <2>3. \A c : c \in get_valid_claims(s) <=> Backing(s, c) # {}
    BY <2>1 DEF get_valid_claims
  <2>4. \A c, o : has_valid_claim_from_issuer(s, c, o) <=>
                    \E id \in Backing(s, c) : attestations[id].issuer = o
    BY <2>1 DEF has_valid_claim_from_issuer
  <2>5. \A C : /\ has_any_claim(s, C) <=> \E c \in C : Backing(s, c) # {}
               /\ has_all_claims(s, C) <=> \A c \in C : Backing(s, c) # {}
    BY <2>1 DEF has_any_claim, has_all_claims
  <2> QED
    BY <2>2, <2>3, <2>4, <2>5
<1> QED
  BY <1>1, IndexesSound, PTL
=============================================================================
