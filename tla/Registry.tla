------------------------------ MODULE Registry ------------------------------
(***************************************************************************)
(* Who may issue and whether the contract is running: the issuer and       *)
(* bridge registries, the cached issuer count and the pause flag           *)
(* (admin.rs, validation.rs, pause and unpause of lib.rs).                 *)
(*                                                                         *)
(* The admin council is the constant Admins: require_admin is only ever a  *)
(* guard, so letting every address that is ever an admin be one all the    *)
(* time allows every behaviour of a council that changes.                  *)
(***************************************************************************)
EXTENDS Ledger

CONSTANTS
    PauseReasons,      \* reasons given to pause, None for no reason
    RemovableIssuers,  \* issuers an admin may remove
    MaxTotalIssuers    \* bound of the model on total_issuers

ASSUME RegistryAssumption ==
    /\ RemovableIssuers \subseteq Issuers
    /\ MaxTotalIssuers \in Nat

VARIABLES
    issuers,        \* StorageKey::Issuer: the addresses with an entry
    issuerList,     \* StorageKey::IssuerList, without its order
    bridges,        \* StorageKey::Bridge; BridgeList has the same members
    totalIssuers,   \* GlobalStats.total_issuers
    paused,         \* StorageKey::Paused
    pauseReason     \* StorageKey::PauseReason

registryVars == <<issuers, issuerList, bridges, totalIssuers, paused, pauseReason>>

require_issuer(a) == a \in issuers
require_bridge(a) == a \in bridges

\* Slip: the reason is taken for the flag.
require_not_paused_NoReason == pauseReason = None

require_not_paused == ~paused

-----------------------------------------------------------------------------
(* Storage *)

\* The list keeps an address once, and keeps it when its entry is removed.
add_issuer(issuer) ==
    /\ issuers' = issuers \cup {issuer}
    /\ issuerList' = issuerList \cup {issuer}

add_bridge(bridge) == bridges' = bridges \cup {bridge}

increment_total_issuers == totalIssuers' = totalIssuers + 1

\* A saturating subtraction.
decrement_total_issuers ==
    totalIssuers' = IF totalIssuers = 0 THEN 0 ELSE totalIssuers - 1

\* set_pause_reason, and clear_pause_reason for None.
set_pause_reason(reason) == pauseReason' = reason

-----------------------------------------------------------------------------
(* Entry points *)

\* No check that the issuer is new: the count goes up on every call.
register_issuer(issuer) ==
    /\ require_not_paused
    /\ issuer \notin bridges
    /\ totalIssuers < MaxTotalIssuers
    /\ add_issuer(issuer)
    /\ increment_total_issuers
    /\ UNCHANGED <<bridges, paused, pauseReason>>

\* Neither a pause check nor a check that the address is an issuer; the
\* address stays in IssuerList.
remove_issuer(issuer) ==
    /\ issuers' = issuers \ {issuer}
    /\ decrement_total_issuers
    /\ UNCHANGED <<issuerList, bridges, paused, pauseReason>>

register_bridge(bridge) ==
    /\ bridge \notin issuers
    /\ add_bridge(bridge)
    /\ UNCHANGED <<issuers, issuerList, totalIssuers, paused, pauseReason>>

pause(reason) ==
    /\ paused' = TRUE
    /\ set_pause_reason(reason)
    /\ UNCHANGED <<issuers, issuerList, bridges, totalIssuers>>

unpause ==
    /\ paused' = FALSE
    /\ set_pause_reason(None)
    /\ UNCHANGED <<issuers, issuerList, bridges, totalIssuers>>

-----------------------------------------------------------------------------

RegistryInit ==
    /\ issuers = {}
    /\ issuerList = {}
    /\ bridges = {}
    /\ totalIssuers = 0
    /\ paused = FALSE
    /\ pauseReason = None

\* The calls of an admin; Admins is not empty once initialize has run.
RegistryNext ==
    /\ Admins # {}
    /\ \/ \E i \in Issuers : register_issuer(i)
       \/ \E i \in RemovableIssuers : remove_issuer(i)
       \/ \E b \in Bridges : register_bridge(b)
       \/ \E r \in PauseReasons : pause(r)
       \/ unpause

RegistryTypeOK ==
    /\ issuers \subseteq Issuers
    /\ issuerList \subseteq Issuers
    /\ bridges \subseteq Bridges
    /\ totalIssuers \in Nat
    /\ paused \in BOOLEAN
    /\ pauseReason \in PauseReasons \cup {None}
=============================================================================
