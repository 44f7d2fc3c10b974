---------------------------- MODULE WorkflowFeed ----------------------------
(***************************************************************************)
(* The events of the workflows (events.rs): what a reader of the events    *)
(* knows about the proposals and the requests.  Every call of Workflows is *)
(* taken together with what it publishes; the events about attestations    *)
(* are in module EventFeed.                                                *)
(***************************************************************************)
EXTENDS Workflows

VARIABLES
    knownProposals,  \* proposal id -> what ms_prop, ms_sign and ms_actv told
    knownRequests    \* request id -> what the events about requests told

knownVars == <<knownProposals, knownRequests>>
workflowFeedVars == <<allVars, knownVars>>

-----------------------------------------------------------------------------
(* The events *)

\* A proposal under a known id starts again with the proposer's signature.
multisig_proposed(id, threshold) ==
    knownProposals' = With(knownProposals, id,
        [threshold |-> threshold, signatures |-> 1, attestation |-> None])

\* Slip: the signatures are counted before the new one is added.
multisig_cosigned_Before(id, signatures) ==
    knownProposals' = [knownProposals EXCEPT ![id].signatures = signatures - 1]

multisig_cosigned(id, signatures) ==
    knownProposals' = [knownProposals EXCEPT ![id].signatures = signatures]

\* Published after multisig_cosigned in the same call.
multisig_activated(id, signatures, attestation) ==
    knownProposals' = [knownProposals EXCEPT ![id].signatures = signatures,
                                             ![id].attestation = attestation]

attestation_requested(id, expiresAt) ==
    knownRequests' = With(knownRequests, id,
        [status |-> "Pending", expiresAt |-> expiresAt, attestation |-> None])

request_fulfilled(id, attestation) ==
    knownRequests' = [knownRequests EXCEPT ![id].status = "Fulfilled",
                                           ![id].attestation = attestation]

request_rejected(id) == knownRequests' = [knownRequests EXCEPT ![id].status = "Rejected"]

request_cancelled(id) == knownRequests' = [knownRequests EXCEPT ![id].status = "Cancelled"]

-----------------------------------------------------------------------------
(* The calls with their events *)

\* A premium issuer's proposal is an attestation and publishes as one.
ProposeAndPublish ==
    \E i \in Issuers, s \in Subjects, c \in ClaimTypes, r \in SignerLists :
       \E t \in 0..(Len(r) + 1) :
          /\ propose_attestation(i, s, c, r, t)
          /\ \/ SkipsSignatures(i, c) /\ UNCHANGED knownProposals
             \/ ~SkipsSignatures(i, c) /\ multisig_proposed(ProposalId(i, s, c, now), t)

CosignAndPublish ==
    \E i \in Issuers, id \in DOMAIN proposals :
       /\ cosign_attestation(i, id)
       /\ LET n == Len(proposals[id].signers) + 1
          IN  \/ n < proposals[id].threshold /\ multisig_cosigned(id, n)
              \/ n >= proposals[id].threshold /\ multisig_activated(id, n, ProposedId(id))

RequestAndPublish ==
    \/ \E s \in Requesters, i \in Responders, c \in ClaimTypes :
          /\ request_attestation(s, i, c)
          /\ attestation_requested(RequestId(s, i, c, now), now + RequestTTL)
    \/ \E id \in DOMAIN requests :
          \/ \E e \in Expirations :
                /\ fulfill_request(id, e)
                /\ request_fulfilled(id, generate_id(id.issuer, id.subject, id.claimType, now))
          \/ reject_request(id) /\ request_rejected(id)
          \/ cancel_request(id) /\ request_cancelled(id)

WorkflowFeedNext ==
    \/ Next /\ UNCHANGED <<workflowVars, knownVars>>
    \/ /\ Admins # {}
       /\ \E i \in PremiumIssuers, p \in BOOLEAN : set_issuer_tier(i, p)
       /\ UNCHANGED knownVars
    \/ (ProposeAndPublish \/ CosignAndPublish) /\ UNCHANGED knownRequests
    \/ RequestAndPublish /\ UNCHANGED knownProposals

WorkflowFeedInit ==
    /\ WorkflowInit
    /\ knownProposals = [id \in {} |-> None]
    /\ knownRequests = [id \in {} |-> None]

WorkflowFeedSpec == WorkflowFeedInit /\ [][WorkflowFeedNext]_workflowFeedVars

-----------------------------------------------------------------------------
(* Properties *)

\* A reader of the events alone knows every proposal with its signatures,
\* also after it was proposed again in the same second, and every request
\* with its status, and the attestation an event names is in storage and is
\* the one that was proposed or asked for.
FeedDeterminesWorkflows ==
    /\ DOMAIN knownProposals = DOMAIN proposals
    /\ \A id \in DOMAIN proposals :
          LET k == knownProposals[id]
              p == proposals[id]
          IN  /\ k.threshold = p.threshold
              /\ k.signatures = Len(p.signers)
              /\ k.attestation = IF p.finalized THEN ProposedId(id) ELSE None
              /\ p.finalized =>
                    LET a == attestations[k.attestation]
                    IN  /\ has_attestation(k.attestation)
                        /\ a.subject = id.subject
                        /\ a.claimType = id.claimType
                        /\ a.timestamp = id.timestamp
    /\ DOMAIN knownRequests = DOMAIN requests
    /\ \A id \in DOMAIN requests :
          LET k == knownRequests[id]
          IN  /\ k.status = requests[id].status
              /\ k.expiresAt = requests[id].expiresAt
              /\ k.attestation # None <=> k.status = "Fulfilled"
              /\ k.attestation # None =>
                    LET a == attestations[k.attestation]
                    IN  /\ has_attestation(k.attestation)
                        /\ a.subject = id.subject
                        /\ a.claimType = id.claimType
                        /\ a.timestamp < k.expiresAt
=============================================================================
