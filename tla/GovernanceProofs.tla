-------------------------- MODULE GovernanceProofs --------------------------
(***************************************************************************)
(* Theorems about Governance, for any set of addresses, councils of any    *)
(* size and any number of proposals.                                       *)
(***************************************************************************)
EXTENDS Governance, FiniteSetTheorems, TLAPS

-----------------------------------------------------------------------------
(* What the operations on the council do to the set of its members *)

LEMMA EmptySequence == ASSUME NEW S PROVE <<>> \in Seq(S)
OBVIOUS

\* Replacing one entry of a sequence.
LEMMA OneReplaced ==
    ASSUME NEW S, NEW s \in Seq(S), NEW n \in 1..Len(s), NEW e \in S
    PROVE  /\ [s EXCEPT ![n] = e] \in Seq(S)
           /\ Len([s EXCEPT ![n] = e]) = Len(s)
           /\ [s EXCEPT ![n] = e][n] = e
           /\ \A k \in 1..Len(s) : k # n => [s EXCEPT ![n] = e][k] = s[k]
OBVIOUS

\* A council is empty exactly when it has no members.
LEMMA Members ==
    ASSUME NEW S, NEW s \in Seq(S)
    PROVE  /\ ToSet(s) \subseteq S
           /\ \A a : Contains(s, a) <=> a \in ToSet(s)
           /\ s = <<>> <=> ToSet(s) = {}
<1>1. /\ ToSet(s) \subseteq S
      /\ \A a : Contains(s, a) <=> a \in ToSet(s)
  BY DEF ToSet, Contains
<1>2. CASE s = <<>>
  BY <1>1, <1>2 DEF ToSet
<1>3. CASE s # <<>>
  <2>1. s[1] \in ToSet(s)
    BY <1>3 DEF ToSet
  <2> QED
    BY <1>1, <1>3, <2>1
<1> QED
  BY <1>1, <1>2, <1>3

\* push_back of an admin that is not a member yet adds one member.
LEMMA AddedMembers ==
    ASSUME NEW S, NEW s \in Seq(S), NEW a \in S
    PROVE  /\ Added(s, a) \in Seq(S)
           /\ ToSet(Added(s, a)) = ToSet(s) \cup {a}
<1>1. CASE Contains(s, a)
  BY <1>1, Members DEF Added
<1>2. CASE ~Contains(s, a)
  <2>1. PICK t : t = Append(s, a)
    OBVIOUS
  <2>2. /\ t \in Seq(S) /\ Len(t) = Len(s) + 1 /\ t[Len(s) + 1] = a
        /\ \A k \in 1..Len(s) : t[k] = s[k]
    BY <2>1
  <2>3. ToSet(t) = ToSet(s) \cup {a}
    BY <2>2 DEF ToSet
  <2> QED
    BY <1>2, <2>1, <2>2, <2>3 DEF Added
<1> QED
  BY <1>1, <1>2

\* The positions that stay are numbered without gaps, in their order.
LEMMA Numbering ==
    ASSUME NEW m \in Nat, NEW kept \in SUBSET (1..m)
    PROVE  /\ Cardinality(kept) \in Nat
           /\ \A k \in kept :
                 Cardinality({j \in kept : j <= k}) \in 1..Cardinality(kept)
           /\ \A i, k \in kept :
                 Cardinality({j \in kept : j <= i}) = Cardinality({j \in kept : j <= k})
                 => i = k
           /\ \A n \in 1..Cardinality(kept) :
                 \E k \in kept : Cardinality({j \in kept : j <= k}) = n
<1> DEFINE upto(k) == {j \in kept : j <= k}
           total == Cardinality(kept)
           number == [k \in kept |-> Cardinality(upto(k))]
<1>1. IsFiniteSet(kept) /\ total \in Nat
  BY FS_Interval, FS_Subset, FS_CardinalityType, 1 \in Int, m \in Int
<1>2. ASSUME NEW k \in kept
      PROVE  /\ IsFiniteSet(upto(k)) /\ Cardinality(upto(k)) \in Nat
             /\ Cardinality(upto(k)) \in 1..total
  <2>1. upto(k) \in SUBSET kept /\ k \in upto(k)
    OBVIOUS
  <2>2. IsFiniteSet(upto(k)) /\ Cardinality(upto(k)) <= total
    BY <1>1, <2>1, FS_Subset
  <2>3. Cardinality(upto(k)) \in Nat /\ Cardinality(upto(k)) # 0
    BY <2>1, <2>2, FS_CardinalityType, FS_EmptySet
  <2> HIDE DEF upto, total
  <2> QED
    BY <1>1, <2>2, <2>3
<1>3. ASSUME NEW i \in kept, NEW k \in kept, i < k
      PROVE  Cardinality(upto(i)) # Cardinality(upto(k))
  <2>1. i \in Int /\ k \in Int /\ kept \subseteq Int
    OBVIOUS
  <2>2. upto(i) \in SUBSET upto(k) /\ k \in upto(k) /\ k \notin upto(i)
    <3>1. \A j \in kept : j <= i => j <= k
      BY <1>3, <2>1
    <3>2. k <= k /\ ~(k <= i)
      BY <1>3, <2>1
    <3> QED
      BY <3>1, <3>2
  <2> QED
    BY <1>2, <2>2, FS_Subset
<1>4. ASSUME NEW i \in kept, NEW k \in kept, Cardinality(upto(i)) = Cardinality(upto(k))
      PROVE  i = k
  <2>1. ~(i < k) /\ ~(k < i)
    BY <1>3, <1>4
  <2> QED
    BY <2>1
<1>5. IsFiniteSet(1..total) /\ Cardinality(1..total) = total
  <2> HIDE DEF total
  <2>1. /\ IsFiniteSet(1..total)
        /\ Cardinality(1..total) = IF 1 > total THEN 0 ELSE total - 1 + 1
    BY <1>1, FS_Interval
  <2> QED
    BY <1>1, <2>1
<1>6. number \in Injection(kept, 1..total)
  <2>1. number \in [kept -> 1..total]
    BY <1>2
  <2> QED
    BY <1>4, <2>1 DEF Injection, IsInjective
<1>7. number \in Surjection(kept, 1..total)
  BY <1>5, <1>6, FS_Injection
<1>8. \A n \in 1..total : \E k \in kept : number[k] = n
  BY <1>7 DEF Surjection
<1> QED
  BY <1>1, <1>2, <1>4, <1>8

\* Filtering an address out of the council removes it, wherever it is listed.
LEMMA RemovedMembers ==
    ASSUME NEW S, NEW s \in Seq(S), NEW a
    PROVE  /\ Removed(s, a) \in Seq(S)
           /\ ToSet(Removed(s, a)) = ToSet(s) \ {a}
<1> DEFINE kept == {k \in 1..Len(s) : s[k] # a}
           position(k) == Cardinality({j \in kept : j <= k})
           chosen(n) == CHOOSE k \in kept : position(k) = n
           total == Cardinality(kept)
           r == [n \in 1..total |-> s[chosen(n)]]
<1>1. Removed(s, a) = r
  BY DEF Removed
<1>2. kept \in SUBSET (1..Len(s)) /\ Len(s) \in Nat
  OBVIOUS
<1>3. /\ total \in Nat
      /\ \A k \in kept : position(k) \in 1..total
      /\ \A i, k \in kept : position(i) = position(k) => i = k
      /\ \A n \in 1..total : \E k \in kept : position(k) = n
  <2> HIDE DEF kept
  <2> QED
    BY <1>2, Numbering
<1>4. \A n \in 1..total : chosen(n) \in kept /\ position(chosen(n)) = n
  <2> HIDE DEF position, kept, total
  <2> QED
    BY <1>3
<1>5. \A k \in kept : chosen(position(k)) = k
  <2> HIDE DEF position, kept, total, chosen
  <2> QED
    BY <1>3, <1>4
<1>6. r \in Seq(S) /\ Len(r) = total /\ \A n \in 1..total : r[n] = s[chosen(n)]
  <2> HIDE DEF chosen, total
  <2>1. \A n \in 1..total : s[chosen(n)] \in S
    <3>1. \A k \in kept : s[k] \in S
      OBVIOUS
    <3> HIDE DEF kept
    <3> QED
      BY <1>4, <3>1
  <2> QED
    BY <1>3, <2>1
<1>7. ToSet(r) = ToSet(s) \ {a}
  <2> HIDE DEF chosen, total, r, position
  <2>1. ASSUME NEW n \in 1..total
        PROVE  r[n] \in ToSet(s) \ {a}
    BY <1>4, <1>6 DEF ToSet
  <2>2. ASSUME NEW k \in 1..Len(s), s[k] # a
        PROVE  s[k] \in ToSet(r)
    <3>1. position(k) \in 1..total /\ r[position(k)] = s[k]
      BY <1>3, <1>5, <1>6, <2>2
    <3> QED
      BY <1>6, <3>1 DEF ToSet
  <2> QED
    BY <1>6, <2>1, <2>2 DEF ToSet
<1> QED
  BY <1>1, <1>6, <1>7

-----------------------------------------------------------------------------
(* The invariant: types, distinct approvals, and what the events tell *)

Proposal == [operation : Operations, approvals : Seq(Addresses), executed : BOOLEAN]

\* The invariants hold before initialize is called.
LEMMA Initially == Init => TypeOK /\ ApprovalsDistinct /\ AdminsFollowFromEvents
<1> SUFFICES ASSUME Init PROVE TypeOK /\ ApprovalsDistinct /\ AdminsFollowFromEvents
  OBVIOUS
<1>1. TypeOK
  BY EmptySequence DEF Init, TypeOK
<1>2. ApprovalsDistinct
  BY DEF Init, ApprovalsDistinct
<1>3. AdminsFollowFromEvents
  BY <1>1, Members DEF Init, TypeOK, AdminsFollowFromEvents
<1> QED
  BY <1>1, <1>2, <1>3

\* What every step does to the council: it keeps its type, the events follow
\* it, and two different members leave one.
CouncilKept ==
    /\ council' \in Seq(Addresses)
    /\ pendingTransfer' \in [proposed_by : Addresses, new_admin : Addresses] \cup {None}
    /\ knownAdmins' \in (SUBSET Addresses) \cup {None}
    /\ AdminsFollowFromEvents'
    /\ KeepsAnAdmin

\* What every step does to the proposals.
ProposalsKept ==
    /\ proposals' \in Seq(Proposal)
    /\ issuers' \subseteq Issuers
    /\ paused' \in BOOLEAN
    /\ ApprovalsDistinct'
    /\ KeepsExecuted

\* A council of more than one has two different members.
LEMMA TwoMembers ==
    ASSUME NEW T, Cardinality(T) > 1
    PROVE  \E x, y \in T : x # y
<1> SUFFICES ASSUME \A x, y \in T : x = y PROVE FALSE
  OBVIOUS
<1>1. CASE T = {}
  BY <1>1, FS_EmptySet
<1>2. CASE T # {}
  <2>1. PICK x : T = {x}
    BY <1>2
  <2> QED
    BY <2>1, FS_Singleton
<1> QED
  BY <1>1, <1>2

\* A call that leaves the council alone keeps what is said of it.
LEMMA CouncilStays ==
    ASSUME TypeOK, AdminsFollowFromEvents, UNCHANGED <<council, knownAdmins>>,
           pendingTransfer' \in [proposed_by : Addresses, new_admin : Addresses] \cup {None}
    PROVE  CouncilKept
<1>1. AdminsFollowFromEvents'
  BY DEF AdminsFollowFromEvents
<1>2. KeepsAnAdmin
  <2>1. council = <<>> => Cardinality(ToSet(council)) = 0
    BY FS_EmptySet, Members DEF TypeOK
  <2> QED
    BY <2>1 DEF KeepsAnAdmin
<1> QED
  BY <1>1, <1>2 DEF CouncilKept, TypeOK

\* The same for the proposals.
LEMMA ProposalsStay ==
    ASSUME TypeOK, ApprovalsDistinct, UNCHANGED proposals,
           issuers' \subseteq Issuers, paused' \in BOOLEAN
    PROVE  ProposalsKept
BY DEF ProposalsKept, TypeOK, Proposal, ApprovalsDistinct, KeepsExecuted

\* Both ways to hand the council over replace members by one set operation.
LEMMA HandOver ==
    ASSUME TypeOK, AdminsFollowFromEvents, NEW old \in Addresses, NEW new \in Addresses,
           council' = Removed(Added(council, new), old),
           admin_transferred(old, new),
           pendingTransfer' \in [proposed_by : Addresses, new_admin : Addresses] \cup {None}
    PROVE  CouncilKept
<1>1. /\ council' \in Seq(Addresses)
      /\ ToSet(council') = (ToSet(council) \cup {new}) \ {old}
  <2>1. PICK added : added = Added(council, new)
    OBVIOUS
  <2>2. added \in Seq(Addresses) /\ ToSet(added) = ToSet(council) \cup {new}
    BY <2>1, AddedMembers, ZenonT(60) DEF TypeOK
  <2> QED
    BY <2>1, <2>2, RemovedMembers
<1>2. knownAdmins' \in (SUBSET Addresses) \cup {None} /\ AdminsFollowFromEvents'
  BY <1>1 DEF admin_transferred, TypeOK, AdminsFollowFromEvents
<1>3. KeepsAnAdmin
  <2> SUFFICES ASSUME Cardinality(ToSet(council)) > 1 PROVE council' # <<>>
    BY DEF KeepsAnAdmin
  <2>1. PICK x, y \in ToSet(council) : x # y
    BY TwoMembers
  <2>2. ToSet(council') # {}
    BY <1>1, <2>1
  <2> QED
    BY <1>1, <2>2, Members
<1> QED
  BY <1>1, <1>2, <1>3 DEF CouncilKept

\* The calls of an admin.
LEMMA AdminStepKeeps ==
    ASSUME TypeOK, ApprovalsDistinct, AdminsFollowFromEvents,
           NEW a \in Addresses, AdminStep(a)
    PROVE  CouncilKept /\ ProposalsKept
<1> USE DEF proposalVars, councilVars
<1>0. council \in Seq(Addresses) /\ issuers \subseteq Issuers /\ paused \in BOOLEAN
      /\ pendingTransfer \in [proposed_by : Addresses, new_admin : Addresses] \cup {None}
  BY DEF TypeOK
<1>1. CASE initialize(a)
  <2>1. council' = <<a>> /\ knownAdmins' = {a} /\ ToSet(<<a>>) = {a}
    BY <1>1 DEF initialize, admin_initialized, ToSet
  <2>2. CouncilKept
    BY <1>0, <1>1, <2>1 DEF initialize, CouncilKept, AdminsFollowFromEvents, KeepsAnAdmin
  <2> QED
    BY <1>0, <1>1, <2>2, ProposalsStay DEF initialize
<1>2. ASSUME NEW b \in Addresses, transfer_admin(a, b) PROVE CouncilKept /\ ProposalsKept
  BY <1>0, <1>2, HandOver, ProposalsStay DEF transfer_admin
<1>3. ASSUME NEW b \in Addresses, propose_admin_transfer(a, b)
      PROVE  CouncilKept /\ ProposalsKept
  BY <1>0, <1>3, CouncilStays, ProposalsStay DEF propose_admin_transfer
<1>4. ASSUME NEW b \in Addresses, add_admin(a, b) PROVE CouncilKept /\ ProposalsKept
  <2>1. council' \in Seq(Addresses) /\ ToSet(council') = ToSet(council) \cup {b}
    BY <1>0, <1>4, AddedMembers, ZenonT(60) DEF add_admin
  <2>2. council' # <<>>
    BY <2>1, Members
  <2>3. AdminsFollowFromEvents' /\ knownAdmins' \in (SUBSET Addresses) \cup {None}
    BY <1>4, <2>1 DEF add_admin, admin_added, AdminsFollowFromEvents, TypeOK
  <2>4. CouncilKept
    BY <1>0, <1>4, <2>1, <2>2, <2>3 DEF add_admin, CouncilKept, KeepsAnAdmin
  <2> QED
    BY <1>0, <1>4, <2>4, ProposalsStay DEF add_admin
<1>5. ASSUME NEW b \in Addresses, remove_admin(a, b) PROVE CouncilKept /\ ProposalsKept
  <2>1. council' \in Seq(Addresses) /\ ToSet(council') = ToSet(council) \ {b}
    BY <1>0, <1>5, RemovedMembers DEF remove_admin
  <2>2. KeepsAnAdmin
    <3> SUFFICES ASSUME Cardinality(ToSet(council)) > 1 PROVE council' # <<>>
      BY DEF KeepsAnAdmin
    <3>1. PICK x, y \in ToSet(council) : x # y
      BY TwoMembers
    <3>2. ToSet(council') # {}
      BY <2>1, <3>1
    <3> QED
      BY <2>1, <3>2, Members
  <2>3. AdminsFollowFromEvents' /\ knownAdmins' \in (SUBSET Addresses) \cup {None}
    BY <1>5, <2>1 DEF remove_admin, admin_removed, AdminsFollowFromEvents, TypeOK
  <2>4. CouncilKept
    BY <1>0, <1>5, <2>1, <2>2, <2>3 DEF remove_admin, CouncilKept
  <2> QED
    BY <1>0, <1>5, <2>4, ProposalsStay DEF remove_admin
<1>6. CASE cancel_admin_transfer(a)
  BY <1>0, <1>6, CouncilStays, ProposalsStay DEF cancel_admin_transfer
<1>7. CASE accept_admin_transfer(a)
  <2>1. pendingTransfer.proposed_by \in Addresses
    BY <1>0, <1>7 DEF accept_admin_transfer
  <2> QED
    BY <1>0, <1>7, <2>1, HandOver, ProposalsStay DEF accept_admin_transfer
<1>8. ASSUME NEW i \in Issuers, register_issuer(a, i) \/ remove_issuer(a, i)
      PROVE  CouncilKept /\ ProposalsKept
  BY <1>0, <1>8, CouncilStays, ProposalsStay DEF register_issuer, remove_issuer
<1>9. ASSUME NEW p \in BOOLEAN, SetPaused(a, p) PROVE CouncilKept /\ ProposalsKept
  BY <1>0, <1>9, CouncilStays, ProposalsStay DEF SetPaused
<1> QED
  BY <1>1, <1>2, <1>3, <1>4, <1>5, <1>6, <1>7, <1>8, <1>9 DEF AdminStep

\* The calls about councils and their proposals.
LEMMA CouncilStepKeeps ==
    ASSUME TypeOK, ApprovalsDistinct, AdminsFollowFromEvents,
           NEW a \in Addresses, CouncilStep(a)
    PROVE  CouncilKept /\ ProposalsKept
<1> USE DEF proposalVars, councilVars
<1>0. /\ council \in Seq(Addresses) /\ issuers \subseteq Issuers /\ paused \in BOOLEAN
      /\ pendingTransfer \in [proposed_by : Addresses, new_admin : Addresses] \cup {None}
      /\ proposals \in Seq(Proposal)
  BY DEF TypeOK, Proposal
<1>1. ASSUME NEW members \in SeqOf(Addresses, MaxMembers), NEW q \in 0..MaxMembers,
             init_council(a, members, q)
      PROVE  CouncilKept /\ ProposalsKept
  <2>1. members \in Seq(Addresses)
    BY DEF SeqOf
  <2>2. members # <<>>
    BY <1>1, <2>1 DEF init_council, ValidQuorum
  <2>3. CouncilKept
    BY <1>0, <1>1, <2>1, <2>2
       DEF init_council, council_initialized, CouncilKept, AdminsFollowFromEvents, KeepsAnAdmin
  <2> QED
    BY <1>0, <1>1, <2>3, ProposalsStay DEF init_council
<1>2. ASSUME NEW o \in Operations, propose_council_action(a, o)
      PROVE  CouncilKept /\ ProposalsKept
  <2>1. PICK new \in Proposal :
           new = [operation |-> o, approvals |-> <<a>>, executed |-> FALSE]
    <3>1. <<a>> \in Seq(Addresses) /\ FALSE \in BOOLEAN
      OBVIOUS
    <3>2. [operation |-> o, approvals |-> <<a>>, executed |-> FALSE] \in Proposal
      BY <3>1, Zenon DEF Proposal
    <3> QED
      BY <3>2
  <2>2. IsInjective(new.approvals)
    BY <2>1 DEF IsInjective
  <2>3. /\ proposals' \in Seq(Proposal) /\ Len(proposals') = Len(proposals) + 1
        /\ proposals'[Len(proposals) + 1] = new
        /\ \A k \in 1..Len(proposals) : proposals'[k] = proposals[k]
    BY <1>0, <1>2, <2>1 DEF propose_council_action
  <2>4. ApprovalsDistinct' /\ KeepsExecuted
    BY <1>0, <2>2, <2>3, SMTT(20) DEF ApprovalsDistinct, KeepsExecuted
  <2>5. ProposalsKept
    BY <1>0, <1>2, <2>3, <2>4 DEF propose_council_action, ProposalsKept
  <2> QED
    BY <1>0, <1>2, <2>5, CouncilStays DEF propose_council_action
<1>3. ASSUME NEW id \in 1..MaxProposals, approve_council_action(a, id)
      PROVE  CouncilKept /\ ProposalsKept
  <2>1. PICK old \in Proposal : old = proposals[id] /\ id \in 1..Len(proposals)
    BY <1>0, <1>3 DEF approve_council_action
  <2>2. PICK more : more = Append(old.approvals, a)
    OBVIOUS
  <2>3. /\ old.approvals \in Seq(Addresses) /\ IsInjective(old.approvals)
        /\ ~Contains(old.approvals, a) /\ ~old.executed
    BY <1>3, <2>1 DEF approve_council_action, MayApprove, Proposal, ApprovalsDistinct
  <2>4. more \in Seq(Addresses) /\ IsInjective(more)
    BY <2>2, <2>3 DEF IsInjective, Contains
  <2>5. /\ proposals' = [proposals EXCEPT ![id] = [old EXCEPT !.approvals = more]]
        /\ UNCHANGED <<council, pendingTransfer, knownAdmins, issuers, paused>>
    BY <1>0, <1>3, <2>1, <2>2 DEF approve_council_action
  <2>6. /\ [old EXCEPT !.approvals = more] \in Proposal
        /\ [old EXCEPT !.approvals = more].approvals = more
    BY <2>1, <2>4 DEF Proposal
  <2>7. /\ proposals' \in Seq(Proposal) /\ Len(proposals') = Len(proposals)
        /\ proposals'[id] = [old EXCEPT !.approvals = more]
        /\ \A k \in 1..Len(proposals) : k # id => proposals'[k] = proposals[k]
    BY <1>0, <2>1, <2>5, <2>6, OneReplaced, SMTT(30)
  <2>8. ApprovalsDistinct' /\ KeepsExecuted
    BY <2>1, <2>3, <2>4, <2>6, <2>7 DEF ApprovalsDistinct, KeepsExecuted
  <2>9. ProposalsKept
    BY <1>0, <2>5, <2>7, <2>8 DEF ProposalsKept
  <2> QED
    BY <1>0, <2>5, <2>9, CouncilStays
<1>4. ASSUME NEW id \in 1..MaxProposals, execute_council_action(a, id)
      PROVE  CouncilKept /\ ProposalsKept
  <2>1. PICK old \in Proposal : old = proposals[id] /\ id \in 1..Len(proposals)
    BY <1>0, <1>4 DEF execute_council_action
  <2>2. PICK new : new = [old EXCEPT !.executed = TRUE]
    OBVIOUS
  <2>3. new \in Proposal /\ new.approvals = old.approvals
    BY <2>1, <2>2 DEF Proposal
  <2>4. /\ ~old.executed
        /\ proposals' = [proposals EXCEPT ![id] = new]
        /\ UNCHANGED <<council, pendingTransfer, knownAdmins>>
    BY <1>0, <1>4, <2>1, <2>2 DEF execute_council_action
  <2>5. /\ proposals' \in Seq(Proposal) /\ Len(proposals') = Len(proposals)
        /\ proposals'[id] = new
        /\ \A k \in 1..Len(proposals) : k # id => proposals'[k] = proposals[k]
    BY <1>0, <2>1, <2>3, <2>4, OneReplaced
  <2>6. ApprovalsDistinct' /\ KeepsExecuted
    BY <2>1, <2>3, <2>5, <2>4 DEF ApprovalsDistinct, KeepsExecuted
  <2>7. issuers' \subseteq Issuers /\ paused' \in BOOLEAN
    BY <1>0, <1>4 DEF execute_council_action
  <2>8. ProposalsKept
    BY <2>5, <2>6, <2>7 DEF ProposalsKept
  <2> QED
    BY <1>0, <2>8, <2>4, CouncilStays
<1> QED
  BY <1>1, <1>2, <1>3, <1>4 DEF CouncilStep

Inv == TypeOK /\ ApprovalsDistinct /\ AdminsFollowFromEvents

\* Every call keeps the invariants and the action properties.
LEMMA NextKeeps ==
    ASSUME Inv, [Next]_vars
    PROVE  Inv' /\ [KeepsExecuted /\ KeepsAnAdmin]_vars
<1>1. CASE Next
  <2>1. CouncilKept /\ ProposalsKept
    BY <1>1, AdminStepKeeps, CouncilStepKeeps DEF Next, Inv
  <2> QED
    BY <2>1 DEF CouncilKept, ProposalsKept, Inv, TypeOK, Proposal
<1>2. CASE UNCHANGED vars
  BY <1>2 DEF Inv, TypeOK, ApprovalsDistinct, AdminsFollowFromEvents, vars, councilVars,
              proposalVars
<1> QED
  BY <1>1, <1>2

\* The variables keep their types.
THEOREM GovernanceTypeCorrect == Spec => []TypeOK
<1>1. Init => Inv
  BY Initially DEF Inv
<1>2. Inv /\ [Next]_vars => Inv'
  BY NextKeeps
<1>3. Inv => TypeOK
  BY DEF Inv
<1> QED
  BY <1>1, <1>2, <1>3, PTL DEF Spec

\* approve_council_action never lets a member count twice, for councils of
\* any size that are replaced at any time.
THEOREM ApprovalsAreDistinct == Spec => []ApprovalsDistinct
<1>1. Init => Inv
  BY Initially DEF Inv
<1>2. Inv /\ [Next]_vars => Inv'
  BY NextKeeps
<1>3. Inv => ApprovalsDistinct
  BY DEF Inv
<1> QED
  BY <1>1, <1>2, <1>3, PTL DEF Spec

\* The events admin_initialized, admin_added, admin_removed and
\* admin_transferred tell who the admins are, up to an init_council.
THEOREM EventsTellTheAdmins == Spec => []AdminsFollowFromEvents
<1>1. Init => Inv
  BY Initially DEF Inv
<1>2. Inv /\ [Next]_vars => Inv'
  BY NextKeeps
<1>3. Inv => AdminsFollowFromEvents
  BY DEF Inv
<1> QED
  BY <1>1, <1>2, <1>3, PTL DEF Spec

\* A proposal that execute_council_action has closed does not change again.
THEOREM ExecutionIsFinal == Spec => ExecutedIsFinal
<1>1. Init => Inv
  BY Initially DEF Inv
<1>2. Inv /\ [Next]_vars => Inv'
  BY NextKeeps
<1>3. Inv /\ [Next]_vars => [KeepsExecuted]_vars
  BY NextKeeps
<1> QED
  BY <1>1, <1>2, <1>3, PTL DEF Spec, ExecutedIsFinal

\* No call takes the last two different admins away at once.
THEOREM CouncilNeverEmptiedAtOnce == Spec => NeverEmptiedAtOnce
<1>1. Init => Inv
  BY Initially DEF Inv
<1>2. Inv /\ [Next]_vars => Inv'
  BY NextKeeps
<1>3. Inv /\ [Next]_vars => [KeepsAnAdmin]_vars
  BY NextKeeps
<1> QED
  BY <1>1, <1>2, <1>3, PTL DEF Spec, NeverEmptiedAtOnce
=============================================================================
