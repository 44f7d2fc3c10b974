------------------------------- MODULE Ledger -------------------------------
(***************************************************************************)
(* The attestation storage of the TrustLink contract (storage.rs and the   *)
(* value types of types.rs): the records, the five indexes that list them, *)
(* the counters and the audit log, with the operators the entry points of  *)
(* attestation.rs use to write them.                                       *)
(*                                                                         *)
(* An index is a Vec<String> per address in the code.  It is a bag of ids  *)
(* here: the code appends and removes every occurrence of an id, and only  *)
(* pagination looks at the order.  Each of these operators constrains all  *)
(* the variables the corresponding code writes and nothing else.           *)
(***************************************************************************)
EXTENDS Integers, FiniteSets, Sequences, Bags

CONSTANTS
    Admins,       \* addresses that are in the admin council
    Issuers,      \* addresses that may be registered as issuers
    Bridges,      \* addresses that may be registered as bridge contracts
    Subjects,     \* addresses attested about (may overlap with the others)
    Delegates,    \* addresses issuers delegate claim types to
    ClaimTypes,
    Sources,      \* (source_chain, source_tx) references of bridged claims
    None          \* Rust's Option::None

\* No address, source or point in time is the absent value.
ASSUME NoneAssumption ==
    None \notin Nat \cup Sources \cup Issuers \cup Bridges

\* There are finitely many addresses, so a batch is finite.
ASSUME FiniteAssumption == IsFiniteSet(Subjects)

VARIABLES
    now,            \* env.ledger().timestamp()
    attestations,   \* StorageKey::Attestation: id -> record, for the ids stored
    subjectIndex,   \* StorageKey::SubjectAttestations
    issuerIndex,    \* StorageKey::IssuerAttestations
    validIndex,     \* StorageKey::ValidAttestations
    subjectChunks,  \* ChunkedIndex of a subject
    issuerChunks,   \* ChunkedIndex of an issuer
    issuerStats,    \* IssuerStats.total_issued
    globalStats,    \* GlobalStats.total_attestations, .total_revocations
    auditLog        \* StorageKey::AuditLog: id -> entries, oldest first

indexVars == <<subjectIndex, issuerIndex, validIndex, subjectChunks, issuerChunks>>
statVars  == <<issuerStats, globalStats>>
ledgerVars == <<now, attestations, indexVars, statVars, auditLog>>

-----------------------------------------------------------------------------
(* Values *)

Owners == Issuers \cup Bridges
Actors == Admins \cup Owners \cup Subjects \cup Delegates
OptionTime == Nat \cup {None}

Ids == [issuer : Owners, subject : Subjects, claimType : ClaimTypes,
        timestamp : Nat, source : Sources \cup {None}]

\* No attestation has the absent value for its id.
ASSUME IdAssumption == None \notin Ids

Attestation ==
    [issuer : Owners, subject : Subjects, claimType : ClaimTypes,
     timestamp : Nat, expiration : OptionTime, validFrom : OptionTime,
     revoked : BOOLEAN, deleted : BOOLEAN,
     origin : {"Native", "Imported", "Bridged"}]

AuditAction == {"Created", "Revoked", "Renewed", "Updated", "Transferred", "Deleted"}

AuditEntry == [action : AuditAction, actor : Actors, timestamp : Nat,
               details : Owners \cup OptionTime]

\* An id is a SHA-256 digest of its fields: equal only when the fields are.
generate_id(issuer, subject, claimType, timestamp) ==
    [issuer |-> issuer, subject |-> subject, claimType |-> claimType,
     timestamp |-> timestamp, source |-> None]

generate_bridge_id(bridge, subject, claimType, source, timestamp) ==
    [issuer |-> bridge, subject |-> subject, claimType |-> claimType,
     timestamp |-> timestamp, source |-> source]

NewAttestation(issuer, subject, claimType, timestamp, expiration, validFrom, origin) ==
    [issuer |-> issuer, subject |-> subject, claimType |-> claimType,
     timestamp |-> timestamp, expiration |-> expiration, validFrom |-> validFrom,
     revoked |-> FALSE, deleted |-> FALSE, origin |-> origin]

\* Pending wins over Revoked, Revoked over Expired.
get_status(a, time) ==
    LET pending == a.validFrom # None /\ time < a.validFrom
        expired == a.expiration # None /\ time >= a.expiration
    IN  CASE pending -> "Pending"
          [] ~pending /\ a.revoked -> "Revoked"
          [] ~pending /\ ~a.revoked /\ expired -> "Expired"
          [] OTHER -> "Valid"

-----------------------------------------------------------------------------
(* Records and indexes *)

has_attestation(id) == id \in DOMAIN attestations

set_attestations(new) ==
    attestations' = [id \in DOMAIN attestations \cup DOMAIN new |->
                        IF id \in DOMAIN new THEN new[id] ELSE attestations[id]]

set_attestation(id, a) == set_attestations([x \in {id} |-> a])

\* push_back of each id of a set to a list.
Push(index, ids) == index (+) SetToBag(ids)

\* Slip: a removed id stays in the list as an empty slot.
Drop_Tombstone(index, ids) ==
    [id \in DOMAIN index |-> IF id \in ids THEN 0 ELSE index[id]]

\* The list without any occurrence of the ids.
Drop(index, ids) == [id \in DOMAIN index \ ids |-> index[id]]

\* The length of a list; an entry of it is an id and the number of its occurrence.
Len32(index) == Cardinality(UNION {{id} \X (1..index[id]) : id \in DOMAIN index})

About(subject, ids) == {id \in ids : attestations[id].subject = subject}

remove_subject_attestation(ids) ==
    subjectIndex' = [s \in Subjects |-> Drop(subjectIndex[s], About(s, ids))]

\* Slip: the valid index is only ever appended to.
remove_valid_attestation_Kept(ids) == validIndex' = validIndex

remove_valid_attestation(ids) ==
    validIndex' = [s \in Subjects |-> Drop(validIndex[s], About(s, ids))]

\* Slip: the chunks that were rewritten are dropped.
ChunkedIndex_remove_subject_Dropped(ids) ==
    subjectChunks' = [s \in Subjects |->
        IF About(s, ids) = {} THEN subjectChunks[s] ELSE EmptyBag]

ChunkedIndex_remove_subject(ids) ==
    subjectChunks' = [s \in Subjects |-> Drop(subjectChunks[s], About(s, ids))]

remove_issuer_attestation(issuer, ids) ==
    issuerIndex' = [issuerIndex EXCEPT ![issuer] = Drop(@, ids)]

ChunkedIndex_remove_issuer(issuer, ids) ==
    issuerChunks' = [issuerChunks EXCEPT ![issuer] = Drop(@, ids)]

-----------------------------------------------------------------------------
(* Audit log *)

Entry(action, actor, timestamp, details) ==
    [action |-> action, actor |-> actor, timestamp |-> timestamp, details |-> details]

get_audit_log(id) == IF id \in DOMAIN auditLog THEN auditLog[id] ELSE <<>>

append_audit_entry(ids, entry) ==
    auditLog' = [id \in DOMAIN auditLog \cup ids |->
                    IF id \in ids THEN Append(get_audit_log(id), entry)
                                  ELSE auditLog[id]]

-----------------------------------------------------------------------------
(* Storing new attestations of one owner: store_attestation for a single   *)
(* one; create_attestations_batch writes the same for each of its subjects *)
(* (the issuer's index and the counters once, in bulk).                    *)

store_attestations(owner, new) ==
    LET added == Cardinality(DOMAIN new)
        about(s) == {id \in DOMAIN new : new[id].subject = s}
    IN  /\ set_attestations(new)
        /\ subjectIndex' = [s \in Subjects |-> Push(subjectIndex[s], about(s))]
        /\ validIndex' = [s \in Subjects |-> Push(validIndex[s], about(s))]
        /\ subjectChunks' = [s \in Subjects |-> Push(subjectChunks[s], about(s))]
        /\ issuerIndex' = [issuerIndex EXCEPT ![owner] = Push(@, DOMAIN new)]
        /\ issuerChunks' = [issuerChunks EXCEPT ![owner] = Push(@, DOMAIN new)]
        /\ issuerStats' = [issuerStats EXCEPT ![owner] = @ + added]
        /\ globalStats' = [globalStats EXCEPT !.total_attestations = @ + added]

store_attestation(id, a) == store_attestations(a.issuer, [x \in {id} |-> a])

-----------------------------------------------------------------------------

EmptyIndex(owners) == [o \in owners |-> EmptyBag]

LedgerInit ==
    /\ now = 0
    /\ attestations = [id \in {} |-> None]
    /\ subjectIndex = EmptyIndex(Subjects)
    /\ validIndex = EmptyIndex(Subjects)
    /\ subjectChunks = EmptyIndex(Subjects)
    /\ issuerIndex = EmptyIndex(Owners)
    /\ issuerChunks = EmptyIndex(Owners)
    /\ issuerStats = [o \in Owners |-> 0]
    /\ globalStats = [total_attestations |-> 0, total_revocations |-> 0]
    /\ auditLog = [id \in {} |-> <<>>]

\* A bag of ids for each owner.
IsIndex(index, owners) ==
    /\ DOMAIN index = owners
    /\ \A o \in owners :
          /\ DOMAIN index[o] \subseteq Ids
          /\ \A id \in DOMAIN index[o] : index[o][id] \in Nat \ {0}

LedgerTypeOK ==
    /\ now \in Nat
    /\ DOMAIN attestations \subseteq Ids
    /\ IsFiniteSet(DOMAIN attestations)
    /\ \A id \in DOMAIN attestations : attestations[id] \in Attestation
    /\ IsIndex(subjectIndex, Subjects)
    /\ IsIndex(validIndex, Subjects)
    /\ IsIndex(subjectChunks, Subjects)
    /\ IsIndex(issuerIndex, Owners)
    /\ IsIndex(issuerChunks, Owners)
    /\ DOMAIN auditLog \subseteq Ids
    /\ \A id \in DOMAIN auditLog : auditLog[id] \in Seq(AuditEntry)
    /\ issuerStats \in [Owners -> Nat]
    /\ globalStats \in [total_attestations : Nat, total_revocations : Nat]
=============================================================================
