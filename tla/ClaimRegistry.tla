--------------------------- MODULE ClaimRegistry ---------------------------
(***************************************************************************)
(* What TrustLink promises the contracts that ask it about claims.  A      *)
(* claim is issued once under an id of its own, holds from its start until *)
(* it expires, may change hands and have its expiration moved while it     *)
(* lives, and ends for good when it is revoked or deleted.  How the        *)
(* contract stores and indexes attestations does not show here.            *)
(***************************************************************************)
EXTENDS Integers

CONSTANTS
    Claims,   \* [owner, subject, claimType, validFrom, expiration] records
    None

VARIABLES
    now,
    live,     \* id -> claim, for the claims that were not ended
    ended     \* the ids of the ended claims

vars == <<now, live, ended>>

InForce(c) ==
    /\ c.validFrom = None \/ c.validFrom <= now
    /\ c.expiration = None \/ now < c.expiration

\* The question the relying contracts ask.
Holds(subject, claimType) ==
    \E id \in DOMAIN live : /\ live[id].subject = subject
                            /\ live[id].claimType = claimType
                            /\ InForce(live[id])

Init ==
    /\ now = 0
    /\ live = [id \in {} |-> None]
    /\ ended = {}

\* One claim, or a batch of them; no id is ever used again.
Issue ==
    /\ DOMAIN live \subseteq DOMAIN live'
    /\ DOMAIN live' \cap ended = {}
    /\ \A id \in DOMAIN live : live'[id] = live[id]
    /\ \A id \in DOMAIN live' : live'[id] \in Claims
    /\ UNCHANGED <<now, ended>>

End ==
    \E ids \in SUBSET DOMAIN live :
       /\ live' = [id \in DOMAIN live \ ids |-> live[id]]
       /\ ended' = ended \cup ids
       /\ UNCHANGED now

\* A new owner or a new expiration, of one claim at a time.
Change ==
    /\ \E id \in DOMAIN live :
          /\ DOMAIN live' = DOMAIN live
          /\ live'[id] \in Claims
          /\ \A f \in {"subject", "claimType", "validFrom"} : live'[id][f] = live[id][f]
          /\ \A other \in DOMAIN live \ {id} : live'[other] = live[other]
    /\ UNCHANGED <<now, ended>>

Tick ==
    /\ now' > now
    /\ UNCHANGED <<live, ended>>

Spec == Init /\ [][Issue \/ End \/ Change \/ Tick]_vars
=============================================================================
