----------------------------- MODULE Governance -----------------------------
(***************************************************************************)
(* Who governs the contract: the admin council with its one-step and       *)
(* two-step transfers (admin.rs) and the council proposals (lib.rs) that   *)
(* remove an issuer or pause the contract.  get_council and set_council    *)
(* use the key of the admin council (storage.rs), so the members given to  *)
(* init_council are the admins.                                            *)
(***************************************************************************)
EXTENDS Naturals, Sequences, FiniteSets, SequencesExt

CONSTANTS
    Addresses,
    Issuers,         \* addresses that may be registered as issuers
    None,
    MaxMembers,      \* bound of the model on the members given to init_council
    MaxProposals     \* bound of the model on council proposals

ASSUME GovernanceAssumption ==
    /\ MaxMembers \in Nat \ {0}
    /\ MaxProposals \in Nat
    /\ None \notin Addresses

VARIABLES
    council,         \* StorageKey::AdminCouncil, <<>> before initialize
    pendingTransfer, \* StorageKey::PendingAdminTransfer, or None
    proposals,       \* StorageKey::CouncilProposal, by id
    issuers,         \* StorageKey::Issuer
    paused,          \* StorageKey::Paused
    knownAdmins      \* the admins as the events tell, None when they do not

councilVars == <<council, pendingTransfer, knownAdmins>>
proposalVars == <<proposals, issuers, paused>>

vars == <<councilVars, proposalVars>>

\* get_admin_council fails before initialize, and so does require_admin.
is_admin(a) == Contains(council, a)
require_admin(a) == is_admin(a)
has_admin == council # <<>>

Added(members, a) == IF Contains(members, a) THEN members ELSE Append(members, a)

\* The members but a, in their order.
Removed(members, a) ==
    LET kept == {k \in 1..Len(members) : members[k] # a}
        position(k) == Cardinality({j \in kept : j <= k})
    IN  [n \in 1..Cardinality(kept) |-> members[CHOOSE k \in kept : position(k) = n]]

-----------------------------------------------------------------------------
(* The events about admins, as they change what a reader knows *)

admin_initialized(a) == knownAdmins' = {a}

\* Slip: the addresses are swapped.
admin_transferred_Swapped(old, new) ==
    knownAdmins' = IF knownAdmins = None THEN None ELSE (knownAdmins \cup {old}) \ {new}

admin_transferred(old, new) ==
    knownAdmins' = IF knownAdmins = None THEN None ELSE (knownAdmins \cup {new}) \ {old}

admin_added(b) == knownAdmins' = IF knownAdmins = None THEN None ELSE knownAdmins \cup {b}

admin_removed(b) == knownAdmins' = IF knownAdmins = None THEN None ELSE knownAdmins \ {b}

\* The quorum and the number of members are published, but not who they are.
council_initialized == knownAdmins' = None

-----------------------------------------------------------------------------
(* The admins *)

initialize(a) ==
    /\ ~has_admin
    /\ council' = <<a>>
    /\ admin_initialized(a)
    /\ UNCHANGED <<pendingTransfer, proposalVars>>

transfer_admin(a, b) ==
    /\ require_admin(a)
    /\ council' = Removed(Added(council, b), a)
    /\ admin_transferred(a, b)
    /\ UNCHANGED <<pendingTransfer, proposalVars>>

propose_admin_transfer(a, b) ==
    /\ require_admin(a)
    /\ pendingTransfer' = [proposed_by |-> a, new_admin |-> b]
    /\ UNCHANGED <<council, knownAdmins, proposalVars>>

cancel_admin_transfer(a) ==
    /\ require_admin(a)
    /\ pendingTransfer # None
    /\ pendingTransfer.proposed_by = a
    /\ pendingTransfer' = None
    /\ UNCHANGED <<council, knownAdmins, proposalVars>>

\* The new admin only has to be the one of the pending transfer; whether its
\* proposer is still an admin is not looked at.
accept_admin_transfer(b) ==
    /\ pendingTransfer # None
    /\ pendingTransfer.new_admin = b
    /\ council' = Removed(Added(council, b), pendingTransfer.proposed_by)
    /\ admin_transferred(pendingTransfer.proposed_by, b)
    /\ pendingTransfer' = None
    /\ UNCHANGED <<proposalVars>>

\* An address that is an admin already is passed over without an event.
add_admin(a, b) ==
    /\ require_admin(a)
    /\ ~is_admin(b)
    /\ council' = Added(council, b)
    /\ admin_added(b)
    /\ UNCHANGED <<pendingTransfer, proposalVars>>

LastAdmin == Len(council) <= 1

remove_admin(a, b) ==
    /\ require_admin(a)
    /\ ~LastAdmin
    /\ is_admin(b)
    /\ council' = Removed(council, b)
    /\ admin_removed(b)
    /\ UNCHANGED <<pendingTransfer, proposalVars>>

-----------------------------------------------------------------------------
(* Council proposals *)

Operations == [op : {"RemoveIssuer"}, issuer : Issuers] \cup {[op |-> "PauseContract"]}

\* Slip: a quorum of zero, and with it an empty council, is let through.
ValidQuorum_Zero(members, q) == q <= Len(members)

ValidQuorum(members, q) == q # 0 /\ q <= Len(members)

\* The members replace the admins.  The quorum is checked and published, but
\* not stored.
init_council(a, members, q) ==
    /\ require_admin(a)
    /\ ValidQuorum(members, q)
    /\ council' = members
    /\ council_initialized
    /\ UNCHANGED <<pendingTransfer, proposalVars>>

propose_council_action(a, operation) ==
    /\ is_admin(a)
    /\ Len(proposals) < MaxProposals
    /\ proposals' = Append(proposals,
          [operation |-> operation, approvals |-> <<a>>, executed |-> FALSE])
    /\ UNCHANGED <<councilVars, issuers, paused>>

\* Slip: a second approval by the same member counts.
MayApprove_Twice(a, id) == is_admin(a) /\ ~proposals[id].executed

\* Slip: an executed proposal may still be approved.
MayApprove_Executed(a, id) == is_admin(a) /\ ~Contains(proposals[id].approvals, a)

MayApprove(a, id) ==
    /\ is_admin(a)
    /\ ~proposals[id].executed
    /\ ~Contains(proposals[id].approvals, a)

approve_council_action(a, id) ==
    /\ id \in 1..Len(proposals)
    /\ MayApprove(a, id)
    /\ proposals' = [proposals EXCEPT ![id].approvals = Append(@, a)]
    /\ UNCHANGED <<councilVars, issuers, paused>>

execute_council_action(a, id) ==
    /\ id \in 1..Len(proposals)
    /\ is_admin(a)
    /\ ~proposals[id].executed
    /\ Len(proposals[id].approvals) >= 1
    /\ LET operation == proposals[id].operation
       IN  IF operation.op = "RemoveIssuer"
           THEN issuers' = issuers \ {operation.issuer} /\ UNCHANGED paused
           ELSE paused' = TRUE /\ UNCHANGED issuers
    /\ proposals' = [proposals EXCEPT ![id].executed = TRUE]
    /\ UNCHANGED <<councilVars>>

\* The direct calls of an admin on the same state.
register_issuer(a, i) ==
    /\ require_admin(a)
    /\ ~paused
    /\ issuers' = issuers \cup {i}
    /\ UNCHANGED <<councilVars, proposals, paused>>

remove_issuer(a, i) ==
    /\ require_admin(a)
    /\ issuers' = issuers \ {i}
    /\ UNCHANGED <<councilVars, proposals, paused>>

SetPaused(a, p) ==
    /\ require_admin(a)
    /\ paused' = p
    /\ UNCHANGED <<councilVars, proposals, issuers>>

-----------------------------------------------------------------------------

Init ==
    /\ council = <<>>
    /\ pendingTransfer = None
    /\ proposals = <<>>
    /\ issuers = {}
    /\ paused = FALSE
    /\ knownAdmins = {}

AdminStep(a) ==
    \/ initialize(a)
    \/ \E b \in Addresses :
          \/ transfer_admin(a, b)
          \/ propose_admin_transfer(a, b)
          \/ add_admin(a, b)
          \/ remove_admin(a, b)
    \/ cancel_admin_transfer(a)
    \/ accept_admin_transfer(a)
    \/ \E i \in Issuers : register_issuer(a, i) \/ remove_issuer(a, i)
    \/ \E p \in BOOLEAN : SetPaused(a, p)

CouncilStep(a) ==
    \/ \E members \in SeqOf(Addresses, MaxMembers), q \in 0..MaxMembers :
          init_council(a, members, q)
    \/ \E o \in Operations : propose_council_action(a, o)
    \/ \E id \in 1..MaxProposals :
          approve_council_action(a, id) \/ execute_council_action(a, id)

Next == \E a \in Addresses : AdminStep(a) \/ CouncilStep(a)

Spec == Init /\ [][Next]_vars

-----------------------------------------------------------------------------
(* Properties *)

\* The types of the variables.
TypeOK ==
    /\ council \in Seq(Addresses)
    /\ pendingTransfer \in [proposed_by : Addresses, new_admin : Addresses] \cup {None}
    /\ proposals \in Seq([operation : Operations, approvals : Seq(Addresses),
                          executed : BOOLEAN])
    /\ issuers \subseteq Issuers
    /\ paused \in BOOLEAN
    /\ knownAdmins \in (SUBSET Addresses) \cup {None}

\* Nobody counts twice among the approvals of a proposal, whatever happened
\* to the council between the approvals.
ApprovalsDistinct ==
    \A id \in 1..Len(proposals) : IsInjective(proposals[id].approvals)

KeepsExecuted ==
    \A id \in 1..Len(proposals) : proposals[id].executed => proposals'[id] = proposals[id]

\* A proposal takes effect once and is then closed: it is never executed
\* again, and neither its approvals nor its operation change any more.
ExecutedIsFinal == [][KeepsExecuted]_vars

KeepsAnAdmin == Cardinality(ToSet(council)) > 1 => council' # <<>>

\* While the council has two different members no single call empties it,
\* not even a new council or the acceptance of a transfer proposed by an
\* address that has left it.  (An empty council lets anybody initialize the
\* contract again.)
NeverEmptiedAtOnce == [][KeepsAnAdmin]_vars

\* Until a council is set as a whole, which publishes its size only, a reader of
\* the events knows the admins: through transfers in one and in two steps, the
\* acceptance of one whose proposer has left, a transfer to oneself and the
\* initialization after it.
AdminsFollowFromEvents == knownAdmins # None => knownAdmins = ToSet(council)
=============================================================================
