----------------------------- MODULE EventFeed -----------------------------
(***************************************************************************)
(* What the contract publishes about attestations and about who may act    *)
(* (events.rs), and what a reader of all the events knows from them.       *)
(* Every entry point is taken together with the event it publishes at its  *)
(* end; mirror and known are the tables of a reader that applies the       *)
(* events, in order and each once, to what it knows.  (What the indexer of *)
(* this repository makes of them, with pages, crashes and topics it does   *)
(* not watch, is in module Indexer.)                                       *)
(***************************************************************************)
EXTENDS Listings

CONSTANT Unknown   \* what no event has told the reader

VARIABLES
    mirror,    \* id -> the attestation as the events describe it
    known      \* the registered issuers and the pause flag, from the events

readerVars == <<mirror, known>>
feedVars == <<vars, listVars, readerVars>>

MirrorRow ==
    [issuer : Owners, subject : Subjects, claimType : ClaimTypes,
     expiration : OptionTime \cup {Unknown}, revoked : BOOLEAN, deleted : BOOLEAN]

-----------------------------------------------------------------------------
(* The events, as they change what the reader knows *)

\* The first event about an attestation, with the expiration it carries.
NewRow(a, expiration) ==
    [issuer |-> a.issuer, subject |-> a.subject, claimType |-> a.claimType,
     expiration |-> expiration, revoked |-> FALSE, deleted |-> FALSE]

New == DOMAIN attestations' \ DOMAIN attestations

Announce(expirationOf(_)) ==
    mirror' = [id \in DOMAIN mirror \cup New |->
                 IF id \in New THEN NewRow(attestations'[id], expirationOf(attestations'[id]))
                               ELSE mirror[id]]

\* The metadata, but neither expiration nor valid_from, is published.
attestation_created == Announce(LAMBDA a : Unknown)

attestation_imported == Announce(LAMBDA a : a.expiration)

\* Says where the claim comes from; a bridged claim has no expiration.
attestation_bridged == Announce(LAMBDA a : None)

attestation_revoked(ids) ==
    mirror' = [id \in DOMAIN mirror |->
                 IF id \in ids THEN [mirror[id] EXCEPT !.revoked = TRUE] ELSE mirror[id]]

attestation_renewed(id, expiration) ==
    mirror' = [mirror EXCEPT ![id].expiration = expiration]

\* Slip: the event names the old issuer twice.
attestation_transferred_Old(id, oldIssuer, newIssuer) ==
    mirror' = [mirror EXCEPT ![id].issuer = oldIssuer]

attestation_transferred(id, oldIssuer, newIssuer) ==
    mirror' = [mirror EXCEPT ![id].issuer = newIssuer]

deletion_requested(id) == mirror' = [mirror EXCEPT ![id].deleted = TRUE]

issuer_registered(issuer) == known' = [known EXCEPT !.issuers = @ \cup {issuer}]

\* Slip: the event of another topic is published.
issuer_removed_AsRegistered(issuer) == known' = [known EXCEPT !.issuers = @ \cup {issuer}]

issuer_removed(issuer) == known' = [known EXCEPT !.issuers = @ \ {issuer}]

contract_paused == known' = [known EXCEPT !.paused = TRUE]

contract_unpaused == known' = [known EXCEPT !.paused = FALSE]

-----------------------------------------------------------------------------
(* The entry points with the events they publish *)

\* Bridging and issuing differ in what they announce.
IssueEvent ==
    \/ (\A id \in New : attestations'[id].origin = "Native") /\ attestation_created
    \/ (\A id \in New : attestations'[id].origin = "Bridged") /\ attestation_bridged

\* An endorsement is not announced: no code calls attestation_endorsed.
ManageAndPublish ==
    \E i \in Issuers :
       \/ \E id \in DOMAIN attestations :
             \/ revoke_attestation(i, id) /\ attestation_revoked({id})
             \/ i \in Endorsers /\ endorse_attestation(i, id) /\ UNCHANGED mirror
             \/ \E e \in Expirations :
                   renew_attestation(i, id, e) /\ attestation_renewed(id, e)
             \/ \E e \in Expirations :
                   update_expiration(i, id, e) /\ attestation_renewed(id, e)
             \/ \E a \in Admins :
                   /\ transfer_attestation(a, id, i)
                   /\ attestation_transferred(id, attestations[id].issuer, i)
       \/ \E ids \in SUBSET DOMAIN attestations :
             revoke_attestations_batch(i, ids) /\ attestation_revoked(ids)

DeleteAndPublish ==
    \E s \in Subjects, id \in DOMAIN attestations :
       request_deletion(s, id) /\ deletion_requested(id)

\* The registration of a bridge is not published.
RegistryAndPublish ==
    /\ Admins # {}
    /\ \/ \E i \in Issuers : register_issuer(i) /\ issuer_registered(i)
       \/ \E i \in RemovableIssuers : remove_issuer(i) /\ issuer_removed(i)
       \/ \E b \in Bridges : register_bridge(b) /\ UNCHANGED known
       \/ \E r \in PauseReasons : pause(r) /\ contract_paused
       \/ unpause /\ contract_unpaused
    /\ UNCHANGED <<ledgerVars, policyVars, endorsements, mirror>>

AttestationNext ==
    /\ \/ Issue /\ IssueEvent
       \/ Import /\ attestation_imported
       \/ IssueBatch /\ attestation_created
       \/ ManageAndPublish
       \/ DeleteAndPublish
    /\ UNCHANGED known

\* The settings and the clock tell nothing about attestations and issuers.
SilentNext ==
    /\ \/ PolicyNext /\ UNCHANGED <<ledgerVars, registryVars, endorsements>>
       \/ CloseLedger
    /\ UNCHANGED readerVars

FeedNext ==
    /\ AttestationNext \/ RegistryAndPublish \/ SilentNext
    /\ ListsFollow

FeedInit ==
    /\ Init
    /\ ListsInit
    /\ mirror = [id \in {} |-> None]
    /\ known = [issuers |-> {}, paused |-> FALSE]

FeedSpec == FeedInit /\ [][FeedNext]_feedVars

-----------------------------------------------------------------------------
(* Properties *)

\* A reader of the events alone knows every attestation, who owns it, whether
\* it is revoked and whether it is deleted, through batches, transfers and
\* deletions of revoked attestations.  It knows the expiration unless that is
\* the one a native attestation was created with, of which no event tells.
FeedDeterminesRecords ==
    /\ DOMAIN mirror = DOMAIN attestations
    /\ \A id \in DOMAIN attestations :
          LET a == attestations[id]
              renewals == {k \in 1..Len(auditLog[id]) :
                             auditLog[id][k].action \in {"Renewed", "Updated"}}
          IN  /\ mirror[id] \in MirrorRow
              /\ \A f \in {"issuer", "subject", "claimType", "revoked", "deleted"} :
                    mirror[id][f] = a[f]
              /\ \/ mirror[id].expiration = a.expiration
                 \/ /\ mirror[id].expiration = Unknown
                    /\ a.origin = "Native"
                    /\ renewals = {}

\* A reader of the events knows whether the contract is paused and who is an
\* issuer now, through repeated registrations and removals of addresses that
\* are no issuers: so it can tell which attestations still have an owner that
\* may change them.  Bridges it knows from what they attest only.
\* (A known issuer is no bridge as well.)
FeedDeterminesAuthority ==
    /\ RolesDisjoint
    /\ known = [issuers |-> issuers, paused |-> paused]
    /\ \A id \in DOMAIN attestations :
          /\ mirror[id].issuer \in known.issuers <=> require_issuer(attestations[id].issuer)
          /\ id.source # None /\ mirror[id].issuer = id.issuer => id.issuer \in bridges
=============================================================================
