----------------------------- MODULE Workflows -----------------------------
(***************************************************************************)
(* The two ways to an attestation that take several calls: a proposal that *)
(* other issuers co-sign (multisig.rs) and a request a subject makes and   *)
(* an issuer answers (request.rs), with the issuer tier that lets premium  *)
(* issuers skip the signatures (admin.rs).  They run beside the entry      *)
(* points of Attestations, on the same storage.                            *)
(***************************************************************************)
EXTENDS Attestations, SequencesExt

CONSTANTS
    Accredited,       \* the claim type ACCREDITED_INVESTOR
    SignerLists,      \* lists of required signers given to propose_attestation
    PremiumIssuers,   \* issuers an admin may make premium
    Requesters,       \* subjects that make requests
    Responders,       \* issuers they ask
    ProposalTTL,      \* MULTISIG_PROPOSAL_TTL_SECS
    RequestTTL,       \* ATTESTATION_REQUEST_TTL_SECS
    MaxProposals,     \* bound of the model on the proposals stored
    MaxRequests,      \* bound of the model on the requests stored
    MaxStored         \* bound of the model on total_attestations

ASSUME WorkflowAssumption ==
    /\ SignerLists \subseteq Seq(Issuers)
    /\ PremiumIssuers \subseteq Issuers /\ Requesters \subseteq Subjects
    /\ Responders \subseteq Issuers
    /\ {ProposalTTL, RequestTTL, MaxProposals, MaxRequests, MaxStored} \subseteq Nat

VARIABLES
    proposals,        \* StorageKey::MultisigProposal: id -> proposal
    requests,         \* StorageKey::Request: id -> request
    pendingRequests,  \* StorageKey::PendingRequests: issuer -> ids
    premium           \* the issuers whose StorageKey::IssuerTier is Premium

workflowVars == <<proposals, requests, pendingRequests, premium>>
allVars == <<vars, workflowVars>>

\* A map with one entry set.
With(map, key, value) == [k \in DOMAIN map \cup {key} |-> IF k = key THEN value ELSE map[k]]

\* store_attestation without a look at what the id holds, and without an
\* audit entry.
StoreUnaudited(id, a) ==
    /\ globalStats.total_attestations < MaxStored
    /\ store_attestation(id, a)
    /\ UNCHANGED <<now, auditLog, registryVars, policyVars, endorsements>>

-----------------------------------------------------------------------------
(* Multi-signature attestations *)

\* The caller must be an issuer now.  remove_issuer leaves the tier in place.
set_issuer_tier(issuer, isPremium) ==
    /\ require_issuer(issuer)
    /\ premium' = IF isPremium THEN premium \cup {issuer} ELSE premium \ {issuer}
    /\ UNCHANGED <<vars, proposals, requests, pendingRequests>>

SkipsSignatures(proposer, claimType) == claimType = Accredited /\ proposer \in premium

\* A native attestation without expiration, of the time of the proposal.
ProposedId(p) == generate_id(p.proposer, p.subject, p.claimType, p.timestamp)
Proposed(p) ==
    NewAttestation(p.proposer, p.subject, p.claimType, p.timestamp, None, None, "Native")

ProposalId(proposer, subject, claimType, timestamp) ==
    [proposer |-> proposer, subject |-> subject, claimType |-> claimType,
     timestamp |-> timestamp]

\* A proposal stored under the same id, of the same second, is replaced.
propose_attestation(proposer, subject, claimType, required, threshold) ==
    LET id == ProposalId(proposer, subject, claimType, now)
    IN  /\ require_issuer(proposer)
        /\ require_not_paused
        /\ \/ /\ SkipsSignatures(proposer, claimType)
              /\ StoreUnaudited(ProposedId(id), Proposed(id))
              /\ UNCHANGED workflowVars
           \/ /\ ~SkipsSignatures(proposer, claimType)
              /\ \A k \in 1..Len(required) : require_issuer(required[k])
              /\ threshold # 0 /\ threshold <= Len(required)
              /\ Cardinality(DOMAIN proposals \cup {id}) <= MaxProposals
              /\ proposals' = With(proposals, id,
                    [required |-> required, threshold |-> threshold,
                     signers |-> <<proposer>>, expiresAt |-> now + ProposalTTL,
                     finalized |-> FALSE])
              /\ UNCHANGED <<vars, requests, pendingRequests, premium>>

\* Slip: a signer may sign again.
MayCosign_Again(issuer, p) ==
    /\ ~p.finalized
    /\ now < p.expiresAt
    /\ Contains(p.required, issuer)

MayCosign(issuer, p) ==
    /\ ~p.finalized
    /\ now < p.expiresAt
    /\ Contains(p.required, issuer)
    /\ ~Contains(p.signers, issuer)

cosign_attestation(issuer, id) ==
    LET p == proposals[id]
        signers == Append(p.signers, issuer)
        complete == Len(signers) >= p.threshold
    IN  /\ require_issuer(issuer)
        /\ require_not_paused
        /\ MayCosign(issuer, p)
        /\ proposals' = [proposals EXCEPT ![id] =
              [p EXCEPT !.signers = signers, !.finalized = complete]]
        /\ IF complete THEN StoreUnaudited(ProposedId(id), Proposed(id))
                       ELSE UNCHANGED vars
        /\ UNCHANGED <<requests, pendingRequests, premium>>

-----------------------------------------------------------------------------
(* Attestation requests *)

RequestId(subject, issuer, claimType, timestamp) ==
    [subject |-> subject, issuer |-> issuer, claimType |-> claimType,
     timestamp |-> timestamp]

add_pending_request(issuer, id) ==
    pendingRequests' = [pendingRequests EXCEPT ![issuer] = Push(@, {id})]

\* Slip: the pending list is left as it is.
remove_pending_request_Kept(issuer, id) == pendingRequests' = pendingRequests

remove_pending_request(issuer, id) ==
    pendingRequests' = [pendingRequests EXCEPT ![issuer] = Drop(@, {id})]

request_attestation(subject, issuer, claimType) ==
    LET id == RequestId(subject, issuer, claimType, now)
    IN  /\ require_not_paused
        /\ require_issuer(issuer)
        /\ id \notin DOMAIN requests
        /\ Cardinality(DOMAIN requests) < MaxRequests
        /\ requests' = With(requests, id,
              [expiresAt |-> now + RequestTTL, status |-> "Pending"])
        /\ add_pending_request(issuer, id)
        /\ UNCHANGED <<vars, proposals, premium>>

\* Slip: requests that are closed may be answered again.
Open_Always(id) == TRUE

Open(id) == requests[id].status = "Pending"

\* The status of a request is closed and it leaves the pending list.
Close(id, status) ==
    /\ requests' = [requests EXCEPT ![id].status = status]
    /\ remove_pending_request(id.issuer, id)
    /\ UNCHANGED <<proposals, premium>>

\* The checks fulfill_request and reject_request share: the issuer of the
\* request answers it, in time.
MayAnswer(id) ==
    /\ require_not_paused
    /\ require_issuer(id.issuer)
    /\ Open(id)
    /\ now < requests[id].expiresAt

\* Slip: an id that is in use is not refused.
Unused_Unchecked(id) == TRUE

Unused(id) == ~has_attestation(id)

fulfill_request(id, expiration) ==
    LET newId == generate_id(id.issuer, id.subject, id.claimType, now)
    IN  /\ MayAnswer(id)
        /\ validate_native_expiration(expiration)
        /\ Unused(newId)
        /\ IssuerHasRoom(id.issuer, 1)
        /\ SubjectHasRoom(id.subject)
        /\ StoreUnaudited(newId,
              NewAttestation(id.issuer, id.subject, id.claimType, now, expiration,
                             None, "Native"))
        /\ Close(id, "Fulfilled")

reject_request(id) ==
    /\ MayAnswer(id)
    /\ Close(id, "Rejected")
    /\ UNCHANGED vars

\* The subject of the request may cancel it after it has expired, too.
cancel_request(id) ==
    /\ require_not_paused
    /\ Open(id)
    /\ Close(id, "Cancelled")
    /\ UNCHANGED vars

get_pending_requests(issuer) ==
    {id \in DOMAIN pendingRequests[issuer] :
        requests[id].status = "Pending" /\ now < requests[id].expiresAt}

-----------------------------------------------------------------------------

WorkflowInit ==
    /\ Init
    /\ proposals = [id \in {} |-> None]
    /\ requests = [id \in {} |-> None]
    /\ pendingRequests = EmptyIndex(Issuers)
    /\ premium = {}

MultisigStep ==
    \/ \E i \in PremiumIssuers, p \in BOOLEAN : Admins # {} /\ set_issuer_tier(i, p)
    \/ \E i \in Issuers, s \in Subjects, c \in ClaimTypes,
          r \in SignerLists : \E t \in 0..(Len(r) + 1) : propose_attestation(i, s, c, r, t)
    \/ \E i \in Issuers, id \in DOMAIN proposals : cosign_attestation(i, id)

RequestStep ==
    \/ \E s \in Requesters, i \in Responders, c \in ClaimTypes : request_attestation(s, i, c)
    \/ \E id \in DOMAIN requests :
          \/ \E e \in Expirations : fulfill_request(id, e)
          \/ reject_request(id)
          \/ cancel_request(id)

WorkflowNext ==
    \/ Next /\ UNCHANGED workflowVars
    \/ MultisigStep
    \/ RequestStep

WorkflowSpec == WorkflowInit /\ [][WorkflowNext]_allVars

-----------------------------------------------------------------------------
(* Properties *)

\* The types of the variables of the workflows.
WorkflowTypeOK ==
    /\ DOMAIN proposals \subseteq
          [proposer : Issuers, subject : Subjects, claimType : ClaimTypes, timestamp : Nat]
    /\ \A id \in DOMAIN proposals :
          proposals[id] \in [required : Seq(Issuers), threshold : Nat, signers : Seq(Issuers),
                             expiresAt : Nat, finalized : BOOLEAN]
    /\ DOMAIN requests \subseteq
          [subject : Subjects, issuer : Issuers, claimType : ClaimTypes, timestamp : Nat]
    /\ \A id \in DOMAIN requests :
          requests[id] \in [expiresAt : Nat,
                            status : {"Pending", "Fulfilled", "Rejected", "Cancelled"}]
    /\ DOMAIN pendingRequests = Issuers
    /\ \A i \in Issuers :
          /\ DOMAIN pendingRequests[i] \subseteq DOMAIN requests
          /\ \A id \in DOMAIN pendingRequests[i] : pendingRequests[i][id] \in Nat \ {0}
    /\ premium \subseteq Issuers

\* The pending list of an issuer names every open request made to it, once,
\* and no other: the subject's cancellation and the issuer's answers, in any
\* order, leave nothing behind and lose nothing, so that what
\* get_pending_requests shows is exactly what can still be answered.
PendingListExact ==
    \A i \in Issuers :
       /\ DOMAIN pendingRequests[i] =
             {id \in DOMAIN requests : id.issuer = i /\ requests[id].status = "Pending"}
       /\ \A id \in DOMAIN pendingRequests[i] : pendingRequests[i][id] = 1
       /\ get_pending_requests(i) =
             {id \in DOMAIN requests : /\ id.issuer = i
                                       /\ requests[id].status = "Pending"
                                       /\ now < requests[id].expiresAt}

AnswersInTime ==
    \A id \in DOMAIN requests :
       /\ requests[id].status # "Pending" => requests'[id] = requests[id]
       /\ requests[id].status = "Pending" /\ requests'[id].status = "Fulfilled" =>
             /\ now < requests[id].expiresAt
             /\ \E new \in DOMAIN attestations' \ DOMAIN attestations :
                   /\ attestations'[new].issuer = id.issuer
                   /\ attestations'[new].subject = id.subject
                   /\ attestations'[new].claimType = id.claimType

\* A request is answered at most once, and it is fulfilled by a step that
\* issues the attestation it asked for, in time, as a new record.
AnsweredOnce == [][AnswersInTime]_allVars

\* A proposal is finalized only with as many different signers as its
\* threshold asks for, all of them required signers but the proposer, and
\* its attestation is then in storage.
FinalizedIsSigned ==
    \A id \in DOMAIN proposals :
       LET p == proposals[id]
       IN  /\ IsInjective(p.signers)
           /\ ToSet(p.signers) \subseteq ToSet(p.required) \cup {id.proposer}
           /\ p.finalized =>
                 Len(p.signers) >= p.threshold /\ has_attestation(ProposedId(id))

\* A revoked attestation is not valid again and a deleted one not visible
\* again (compliance.md: a deleted attestation is "invisible to all public
\* query functions").
DeletionIsFinal ==
    [][\A id \in DOMAIN attestations :
          /\ attestations[id].revoked => attestations'[id].revoked
          /\ attestations[id].deleted => attestations'[id].deleted]_allVars
=============================================================================
