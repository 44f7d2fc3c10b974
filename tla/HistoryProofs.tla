---------------------------- MODULE HistoryProofs ----------------------------
(***************************************************************************)
(* What the contract does to an attestation over time: its counters, its   *)
(* audit log, who may change it and when, and the abstract registry of     *)
(* claims it implements.  Everything rests on StepShape, which says what a *)
(* step can do to the records, whichever entry point takes it.             *)
(***************************************************************************)
EXTENDS AttestationsProofs

-----------------------------------------------------------------------------
(* The shapes of a step                                                    *)

\* The records of ids are written, with one audit entry each.
Edit(ids, entry) ==
    /\ ids \subseteq DOMAIN attestations
    /\ DOMAIN attestations' = DOMAIN attestations
    /\ \A id \in DOMAIN attestations \ ids : attestations'[id] = attestations[id]
    /\ append_audit_entry(ids, entry)
    /\ UNCHANGED <<now, registryVars, policyVars, endorsements>>

RevokeStep(issuer, ids) ==
    /\ Edit(ids, Entry("Revoked", issuer, now, None))
    /\ ~paused
    /\ issuer \in issuers
    /\ \A id \in ids : /\ OwnedUnrevoked(issuer, id)
                       /\ attestations'[id] = [attestations[id] EXCEPT !.revoked = TRUE]
    /\ globalStats' = [globalStats EXCEPT !.total_revocations = @ + Cardinality(ids)]
    /\ UNCHANGED issuerStats

RenewStep(issuer, id, expiration, action, details) ==
    /\ Edit({id}, Entry(action, issuer, now, details))
    /\ action \in {"Renewed", "Updated"}
    /\ expiration \in OptionTime
    /\ details \in OptionTime
    /\ ~paused
    /\ issuer \in issuers
    /\ OwnedUnrevoked(issuer, id)
    /\ attestations'[id] = [attestations[id] EXCEPT !.expiration = expiration]
    /\ UNCHANGED statVars

TransferStep(admin, id, newIssuer) ==
    /\ Edit({id}, Entry("Transferred", admin, now, newIssuer))
    /\ attestations[id].issuer # newIssuer
    /\ attestations'[id] = [attestations[id] EXCEPT !.issuer = newIssuer]
    /\ MoveStats(attestations[id].issuer, newIssuer)
    /\ UNCHANGED globalStats

DeleteStep(subject, id) ==
    /\ Edit({id}, Entry("Deleted", subject, now, None))
    /\ attestations'[id] = [attestations[id] EXCEPT !.deleted = TRUE]
    /\ UNCHANGED statVars

\* The other steps leave the records alone.
QuietStep ==
    /\ UNCHANGED <<attestations, statVars, auditLog, lastIssuance>>
    /\ now' \in Nat /\ now' >= now
    /\ paused => UNCHANGED endorsements
    /\ RegistryNext \/ UNCHANGED registryVars
    /\ DelegationSetting \/ UNCHANGED delegationVars

Shape ==
    \/ \E owner, new, actor, timestamp : Stored(owner, new, actor, timestamp)
    \/ \E i \in Issuers : \E ids : RevokeStep(i, ids)
    \/ \E i \in Issuers : \E id, e, action, details : RenewStep(i, id, e, action, details)
    \/ \E a \in Admins, i \in Issuers : \E id : TransferStep(a, id, i)
    \/ \E s \in Subjects : \E id : DeleteStep(s, id)
    \/ QuietStep

\* Each entry point that changes records has one of the shapes.
LEMMA RevokeShape ==
    ASSUME NEW i \in Issuers, NEW id \in DOMAIN attestations, revoke_attestation(i, id)
    PROVE  RevokeStep(i, {id})
<1>1. Edit({id}, Entry("Revoked", i, now, None))
  BY SetRecord DEF revoke_attestation, Edit
<1>2. attestations'[id] = [attestations[id] EXCEPT !.revoked = TRUE]
  BY SetRecord DEF revoke_attestation
<1>3. globalStats' = [globalStats EXCEPT !.total_revocations = @ + Cardinality({id})]
  <2>1. Cardinality({id}) = 1
    BY FS_Singleton
  <2> QED
    BY <2>1 DEF revoke_attestation
<1> QED
  BY <1>1, <1>2, <1>3 DEF revoke_attestation, RevokeStep, require_not_paused, require_issuer

LEMMA RevokeBatchShape ==
    ASSUME NEW i \in Issuers, NEW ids \in SUBSET DOMAIN attestations,
           revoke_attestations_batch(i, ids)
    PROVE  RevokeStep(i, ids)
<1>1. RevokedTogether(i, ids)
  BY RevokeBatchIsTogether
<1> QED
  BY <1>1 DEF RevokedTogether, revoke_attestations_batch, RevokeStep, Edit,
              require_not_paused, require_issuer

LEMMA RenewShape ==
    ASSUME NEW i \in Issuers, NEW id \in DOMAIN attestations, NEW e \in Expirations
    PROVE  /\ renew_attestation(i, id, e) => RenewStep(i, id, e, "Renewed", e)
           /\ update_expiration(i, id, e) => RenewStep(i, id, e, "Updated", None)
<1>1. ASSUME NEW action \in {"Renewed", "Updated"}, NEW details \in OptionTime,
             SetExpiration(i, id, e, Entry(action, i, now, details))
      PROVE  RenewStep(i, id, e, action, details)
  <2>1. Edit({id}, Entry(action, i, now, details))
    BY <1>1, SetRecord DEF SetExpiration, Edit
  <2>2. attestations'[id] = [attestations[id] EXCEPT !.expiration = e]
    BY <1>1, SetRecord DEF SetExpiration
  <2> QED
    BY <1>1, <2>1, <2>2, PolicyAssumption
    DEF SetExpiration, RenewStep, require_not_paused, require_issuer
<1>2. e \in OptionTime /\ None \in OptionTime
  BY PolicyAssumption DEF OptionTime
<1> QED
  BY <1>1, <1>2 DEF renew_attestation, update_expiration

LEMMA TransferShape ==
    ASSUME NEW a \in Admins, NEW id \in DOMAIN attestations, NEW i \in Issuers,
           transfer_attestation(a, id, i)
    PROVE  TransferStep(a, id, i)
<1>1. Edit({id}, Entry("Transferred", a, now, i))
  BY SetRecord DEF transfer_attestation, Edit
<1>2. attestations'[id] = [attestations[id] EXCEPT !.issuer = i]
  BY SetRecord DEF transfer_attestation
<1> QED
  BY <1>1, <1>2 DEF transfer_attestation, TransferStep

LEMMA DeleteShape ==
    ASSUME NEW s \in Subjects, NEW id \in DOMAIN attestations, request_deletion(s, id)
    PROVE  DeleteStep(s, id)
<1>1. Edit({id}, Entry("Deleted", s, now, None))
  BY SetRecord DEF request_deletion, Edit
<1>2. attestations'[id] = [attestations[id] EXCEPT !.deleted = TRUE]
  BY SetRecord DEF request_deletion
<1> QED
  BY <1>1, <1>2 DEF request_deletion, DeleteStep

\* Every step of the contract has one of the shapes.
LEMMA StepShape == TypeOK /\ [Next]_vars => Shape
<1> SUFFICES ASSUME TypeOK, [Next]_vars PROVE Shape
  OBVIOUS
<1>0. now \in Nat
  BY DEF TypeOK, LedgerTypeOK
<1>1. CASE Issue \/ Import \/ IssueBatch
  BY <1>1, IssuanceStores DEF Shape
<1>2. ASSUME NEW i \in Issuers, NEW id \in DOMAIN attestations, revoke_attestation(i, id)
      PROVE  Shape
  BY <1>2, RevokeShape DEF Shape
<1>3. ASSUME NEW i \in Issuers, NEW ids \in SUBSET DOMAIN attestations,
             revoke_attestations_batch(i, ids)
      PROVE  Shape
  BY <1>3, RevokeBatchShape DEF Shape
<1>4. ASSUME NEW i \in Issuers, NEW id \in DOMAIN attestations, NEW e \in Expirations,
             renew_attestation(i, id, e) \/ update_expiration(i, id, e)
      PROVE  Shape
  BY <1>4, RenewShape DEF Shape
<1>5. ASSUME NEW a \in Admins, NEW id \in DOMAIN attestations, NEW i \in Issuers,
             transfer_attestation(a, id, i)
      PROVE  Shape
  BY <1>5, TransferShape DEF Shape
<1>6. ASSUME NEW s \in Subjects, NEW id \in DOMAIN attestations, request_deletion(s, id)
      PROVE  Shape
  BY <1>6, DeleteShape DEF Shape
<1>7. ASSUME NEW i \in Issuers, NEW id \in DOMAIN attestations, endorse_attestation(i, id)
      PROVE  Shape
  <2>1. QuietStep
    BY <1>0, <1>7 DEF endorse_attestation, QuietStep, ledgerVars, policyVars, rateVars,
                      require_not_paused
  <2> QED
    BY <2>1 DEF Shape
<1>8. CASE Manage \/ Delete
  BY <1>2, <1>3, <1>4, <1>5, <1>6, <1>7, <1>8 DEF Manage, Delete
<1>9. CASE PolicyNext /\ UNCHANGED <<ledgerVars, registryVars, endorsements>>
  <2>1. UNCHANGED lastIssuance
    BY <1>9 DEF PolicyNext, AdminSetting, set_limits, set_rate_limit,
                set_rate_limit_for_claim_type, register_claim_type,
                set_require_registered_claim_type, WhitelistSetting,
                set_whitelist_enabled, bulk_add_to_whitelist, remove_from_whitelist,
                DelegationSetting, delegate_claim_type, revoke_delegation, rateVars
  <2>2. DelegationSetting \/ UNCHANGED delegationVars
    BY <1>9 DEF PolicyNext, AdminSetting, set_limits, set_rate_limit,
                set_rate_limit_for_claim_type, register_claim_type,
                set_require_registered_claim_type, WhitelistSetting,
                set_whitelist_enabled, bulk_add_to_whitelist, remove_from_whitelist
  <2>3. QuietStep
    BY <1>0, <1>9, <2>1, <2>2 DEF QuietStep, ledgerVars
  <2> QED
    BY <2>3 DEF Shape
<1>10. CASE \/ RegistryNext /\ UNCHANGED <<ledgerVars, policyVars, endorsements>>
            \/ CloseLedger
            \/ UNCHANGED vars
  <2>1. QuietStep
    BY <1>0, <1>10 DEF QuietStep, ledgerVars, policyVars, rateVars, CloseLedger, vars
  <2> QED
    BY <2>1 DEF Shape
<1> QED
  BY <1>1, <1>8, <1>9, <1>10 DEF Next

\* What surrounds the records: a step turns one knob of the registry or of the
\* delegations, or none, and time does not run backwards.
LEMMA StepSurroundings ==
    ASSUME TypeOK, [Next]_vars
    PROVE  /\ RegistryNext \/ UNCHANGED registryVars
           /\ DelegationSetting \/ UNCHANGED delegationVars
           /\ now' \in Nat /\ now' >= now
<1> DEFINE Goal == /\ RegistryNext \/ UNCHANGED registryVars
                   /\ DelegationSetting \/ UNCHANGED delegationVars
                   /\ now' \in Nat /\ now' >= now
<1>1. ASSUME UNCHANGED <<now, registryVars, delegationVars>> PROVE Goal
  BY <1>1 DEF TypeOK, LedgerTypeOK
<1>2. ASSUME NEW ids, NEW entry, Edit(ids, entry) PROVE Goal
  BY <1>1, <1>2 DEF Edit, policyVars
<1>3. ASSUME NEW owner, NEW new, NEW actor, NEW timestamp,
             Stored(owner, new, actor, timestamp)
      PROVE  Goal
  BY <1>1, <1>3 DEF Stored
<1>4. ASSUME QuietStep PROVE Goal
  BY <1>4 DEF QuietStep
<1> HIDE DEF Goal
<1>5. ASSUME NEW i \in Issuers, NEW ids, RevokeStep(i, ids) PROVE Goal
  BY <1>2, <1>5 DEF RevokeStep
<1>6. ASSUME NEW i \in Issuers, NEW id, NEW e, NEW action, NEW details,
             RenewStep(i, id, e, action, details)
      PROVE  Goal
  BY <1>2, <1>6 DEF RenewStep
<1>7. ASSUME NEW a \in Admins, NEW i \in Issuers, NEW id, TransferStep(a, id, i)
      PROVE  Goal
  BY <1>2, <1>7 DEF TransferStep
<1>8. ASSUME NEW s \in Subjects, NEW id, DeleteStep(s, id) PROVE Goal
  BY <1>2, <1>8 DEF DeleteStep
<1>9. Goal
  BY <1>3, <1>4, <1>5, <1>6, <1>7, <1>8, StepShape DEF Shape
<1> QED
  BY <1>9 DEF Goal

\* What a new expiration, or a new owner, leaves alone.
LEMMA ChangeFields ==
    ASSUME NEW a \in Attestation, NEW v
    PROVE  /\ LET r == [a EXCEPT !.expiration = v]
              IN  /\ r.issuer = a.issuer /\ r.subject = a.subject
                  /\ r.claimType = a.claimType /\ r.timestamp = a.timestamp
                  /\ r.expiration = v /\ r.validFrom = a.validFrom
                  /\ r.origin = a.origin /\ r.revoked = a.revoked /\ r.deleted = a.deleted
           /\ LET r == [a EXCEPT !.issuer = v]
              IN  /\ r.issuer = v /\ r.subject = a.subject
                  /\ r.claimType = a.claimType /\ r.timestamp = a.timestamp
                  /\ r.expiration = a.expiration /\ r.validFrom = a.validFrom
                  /\ r.origin = a.origin /\ r.revoked = a.revoked /\ r.deleted = a.deleted
BY DEF Attestation

\* What no edit of a record changes.
Kept(id) ==
    /\ attestations'[id].subject = attestations[id].subject
    /\ attestations'[id].claimType = attestations[id].claimType
    /\ attestations'[id].timestamp = attestations[id].timestamp
    /\ attestations'[id].validFrom = attestations[id].validFrom
    /\ attestations'[id].origin = attestations[id].origin

\* What each edit does to the records it writes.
LEMMA RevokeFields ==
    ASSUME TypeOK, NEW i, NEW ids, RevokeStep(i, ids), NEW id \in ids
    PROVE  /\ id \in DOMAIN attestations /\ Kept(id)
           /\ ~attestations[id].revoked /\ attestations'[id].revoked
           /\ attestations'[id].deleted = attestations[id].deleted
           /\ attestations[id].issuer = i /\ attestations'[id].issuer = i
           /\ attestations'[id].expiration = attestations[id].expiration
<1>1. id \in DOMAIN attestations
  BY DEF RevokeStep, Edit
<1>2. attestations[id] \in Attestation
  BY <1>1 DEF TypeOK, LedgerTypeOK
<1>3. attestations'[id] = [attestations[id] EXCEPT !.revoked = TRUE]
  BY DEF RevokeStep
<1>4. ~attestations[id].revoked /\ attestations[id].issuer = i
  BY DEF RevokeStep, OwnedUnrevoked
<1> QED
  BY <1>1, <1>2, <1>3, <1>4, MarkFields DEF Kept

LEMMA RenewFields ==
    ASSUME TypeOK, NEW i, NEW id, NEW e, NEW action, NEW details,
           RenewStep(i, id, e, action, details)
    PROVE  /\ id \in DOMAIN attestations /\ Kept(id)
           /\ ~attestations[id].revoked /\ ~attestations'[id].revoked
           /\ attestations'[id].deleted = attestations[id].deleted
           /\ attestations[id].issuer = i /\ attestations'[id].issuer = i
           /\ attestations'[id].expiration = e
<1>1. id \in DOMAIN attestations
  BY DEF RenewStep, Edit
<1>2. attestations[id] \in Attestation
  BY <1>1 DEF TypeOK, LedgerTypeOK
<1>3. attestations'[id] = [attestations[id] EXCEPT !.expiration = e]
  BY DEF RenewStep
<1>4. ~attestations[id].revoked /\ attestations[id].issuer = i
  BY DEF RenewStep, OwnedUnrevoked
<1> QED
  BY <1>1, <1>2, <1>3, <1>4, ChangeFields DEF Kept

LEMMA TransferFields ==
    ASSUME TypeOK, NEW a, NEW id, NEW i, TransferStep(a, id, i)
    PROVE  /\ id \in DOMAIN attestations /\ Kept(id)
           /\ attestations'[id].revoked = attestations[id].revoked
           /\ attestations'[id].deleted = attestations[id].deleted
           /\ attestations'[id].issuer = i
           /\ attestations'[id].expiration = attestations[id].expiration
<1>1. id \in DOMAIN attestations
  BY DEF TransferStep, Edit
<1>2. attestations[id] \in Attestation
  BY <1>1 DEF TypeOK, LedgerTypeOK
<1>3. attestations'[id] = [attestations[id] EXCEPT !.issuer = i]
  BY DEF TransferStep
<1> QED
  BY <1>1, <1>2, <1>3, ChangeFields DEF Kept

LEMMA DeleteFields ==
    ASSUME TypeOK, NEW s, NEW id, DeleteStep(s, id)
    PROVE  /\ id \in DOMAIN attestations /\ Kept(id)
           /\ attestations'[id].revoked = attestations[id].revoked
           /\ attestations'[id].deleted
           /\ attestations'[id].issuer = attestations[id].issuer
           /\ attestations'[id].expiration = attestations[id].expiration
<1>1. id \in DOMAIN attestations
  BY DEF DeleteStep, Edit
<1>2. attestations[id] \in Attestation
  BY <1>1 DEF TypeOK, LedgerTypeOK
<1>3. attestations'[id] = [attestations[id] EXCEPT !.deleted = TRUE]
  BY DEF DeleteStep
<1> QED
  BY <1>1, <1>2, <1>3, MarkFields DEF Kept

\* The records and their owners after an issuance.
Added(owner, new) ==
    /\ DOMAIN attestations' = DOMAIN attestations \cup DOMAIN new
    /\ DOMAIN new \cap DOMAIN attestations = {}
    /\ \A id \in DOMAIN new : /\ attestations'[id] = new[id]
                              /\ attestations'[id].issuer = owner
                              /\ id.issuer = owner
                              /\ ~attestations'[id].revoked
                              /\ ~attestations'[id].deleted
    /\ \A id \in DOMAIN attestations : attestations'[id] = attestations[id]

\* Issuing adds records and leaves the others alone.
LEMMA StoredRecords ==
    ASSUME NEW owner, NEW new, NEW actor, NEW timestamp,
           Stored(owner, new, actor, timestamp)
    PROVE  Added(owner, new)
BY SetRecords DEF Stored, store_attestations, Added

-----------------------------------------------------------------------------
(* The audit log                                                           *)

At(log, action) == {k \in 1..Len(log) : log[k].action = action}

\* Appending an entry adds its place to those of its action.
LEMMA AppendAt ==
    ASSUME NEW log \in Seq(AuditEntry), NEW e \in AuditEntry, NEW action
    PROVE  At(Append(log, e), action) =
              IF e.action = action THEN At(log, action) \cup {Len(log) + 1}
                                   ELSE At(log, action)
<1>1. /\ Len(Append(log, e)) = Len(log) + 1 /\ Len(log) \in Nat
      /\ \A k \in 1..Len(log) : Append(log, e)[k] = log[k]
      /\ Append(log, e)[Len(log) + 1] = e
  OBVIOUS
<1>2. 1..(Len(log) + 1) = (1..Len(log)) \cup {Len(log) + 1}
  BY <1>1
<1> QED
  BY <1>1, <1>2 DEF At

\* The last transfer of the log names the owner.
LastTransfer(log, owner) ==
    \E k \in At(log, "Transferred") : /\ \A j \in At(log, "Transferred") : j <= k
                                      /\ log[k].details = owner

\* What AuditExplainsRecord says of one attestation.
Explains(id, a, log) ==
    /\ At(log, "Created") = {1}
    /\ a.revoked <=> At(log, "Revoked") # {}
    /\ \A j, k \in At(log, "Revoked") : j = k
    /\ a.deleted <=> At(log, "Deleted") # {}
    /\ (At(log, "Transferred") = {} /\ a.issuer = id.issuer) \/ LastTransfer(log, a.issuer)

Chronological(log, time) ==
    \A k \in 1..Len(log) : /\ log[k].timestamp <= time
                           /\ k > 1 => log[k - 1].timestamp <= log[k].timestamp

\* AuditExplainsRecord, attestation by attestation.
LEMMA AuditByRecord ==
    AuditExplainsRecord <=>
       /\ DOMAIN auditLog = DOMAIN attestations
       /\ \A id \in DOMAIN attestations : /\ Explains(id, attestations[id], auditLog[id])
                                          /\ Chronological(auditLog[id], now)
BY DEF AuditExplainsRecord, AuditChronological, Explains, LastTransfer, At, Chronological

\* A log with one more entry, of now, is in order.
LEMMA AppendChronological ==
    ASSUME NEW log \in Seq(AuditEntry), NEW e \in AuditEntry, NEW time \in Nat,
           Chronological(log, time), e.timestamp = time
    PROVE  Chronological(Append(log, e), time)
<1>1. /\ Len(Append(log, e)) = Len(log) + 1 /\ Len(log) \in Nat
      /\ \A k \in 1..Len(log) : Append(log, e)[k] = log[k]
      /\ Append(log, e)[Len(log) + 1] = e
  OBVIOUS
<1>2. \A k \in 1..Len(log) : log[k].timestamp \in Nat
  <2>1. \A k \in 1..Len(log) : log[k] \in AuditEntry
    OBVIOUS
  <2> QED
    BY <2>1 DEF AuditEntry
<1> SUFFICES ASSUME NEW k \in 1..(Len(log) + 1)
             PROVE  LET l == Append(log, e)
                    IN  /\ l[k].timestamp <= time
                        /\ k > 1 => l[k - 1].timestamp <= l[k].timestamp
  BY <1>1 DEF Chronological
<1>3. CASE k \in 1..Len(log)
  BY <1>1, <1>3 DEF Chronological
<1>4. CASE k = Len(log) + 1
  BY <1>1, <1>2, <1>4 DEF Chronological
<1> QED
  BY <1>1, <1>3, <1>4

\* An entry of an edit leaves a log that explains the edited record.
LEMMA AppendExplains ==
    ASSUME NEW log \in Seq(AuditEntry), NEW e \in AuditEntry, NEW id, NEW a, NEW b,
           Explains(id, a, log), e.action # "Created",
           b.revoked <=> a.revoked \/ e.action = "Revoked",
           e.action = "Revoked" => ~a.revoked,
           b.deleted <=> a.deleted \/ e.action = "Deleted",
           b.issuer = IF e.action = "Transferred" THEN e.details ELSE a.issuer
    PROVE  Explains(id, b, Append(log, e))
<1> DEFINE new == Append(log, e)
<1>0. /\ Len(log) \in Nat
      /\ \A k \in 1..Len(log) : new[k] = log[k]
      /\ new[Len(log) + 1] = e
  OBVIOUS
<1>1. \A action : At(new, action) = IF e.action = action THEN At(log, action) \cup {Len(log) + 1}
                                                        ELSE At(log, action)
  BY AppendAt
<1>2. \A action : At(log, action) \subseteq 1..Len(log)
  BY DEF At
<1> HIDE DEF new
<1>3. At(new, "Created") = {1}
  BY <1>1 DEF Explains
<1>4. /\ b.revoked <=> At(new, "Revoked") # {}
      /\ \A j, k \in At(new, "Revoked") : j = k
  BY <1>1 DEF Explains
<1>5. b.deleted <=> At(new, "Deleted") # {}
  BY <1>1 DEF Explains
<1>6. (At(new, "Transferred") = {} /\ b.issuer = id.issuer) \/ LastTransfer(new, b.issuer)
  <2>1. CASE e.action = "Transferred"
    <3>1. At(new, "Transferred") = At(log, "Transferred") \cup {Len(log) + 1}
      BY <1>1, <2>1
    <3>2. LastTransfer(new, b.issuer)
      BY <1>0, <1>2, <2>1, <3>1 DEF LastTransfer
    <3> QED
      BY <3>2
  <2>2. CASE e.action # "Transferred"
    <3>1. At(new, "Transferred") = At(log, "Transferred") /\ b.issuer = a.issuer
      BY <1>1, <2>2
    <3>2. LastTransfer(log, a.issuer) => LastTransfer(new, b.issuer)
      BY <1>0, <1>2, <3>1 DEF LastTransfer
    <3> QED
      BY <3>1, <3>2 DEF Explains
  <2> QED
    BY <2>1, <2>2
<1> QED
  BY <1>3, <1>4, <1>5, <1>6 DEF Explains, new

\* What an edit does to the logs when every record has one.
LEMMA EditLogs ==
    ASSUME TypeOK, DOMAIN auditLog = DOMAIN attestations, NEW ids, NEW entry,
           Edit(ids, entry)
    PROVE  /\ DOMAIN auditLog' = DOMAIN attestations'
           /\ \A id \in ids : /\ auditLog[id] \in Seq(AuditEntry)
                              /\ auditLog'[id] = Append(auditLog[id], entry)
           /\ \A id \in DOMAIN attestations \ ids : auditLog'[id] = auditLog[id]
<1>1. ids \subseteq DOMAIN auditLog
  BY DEF Edit
<1>2. \A id \in ids : get_audit_log(id) = auditLog[id]
  BY <1>1 DEF get_audit_log
<1> QED
  BY <1>1, <1>2 DEF Edit, append_audit_entry, TypeOK, LedgerTypeOK

\* An edit whose entry tells what it does to the records it writes.
LEMMA EditExplains ==
    ASSUME TypeOK, AuditExplainsRecord, NEW ids, NEW entry \in AuditEntry,
           Edit(ids, entry), entry.timestamp = now, entry.action # "Created",
           \A id \in ids :
              /\ attestations'[id].revoked <=>
                    attestations[id].revoked \/ entry.action = "Revoked"
              /\ entry.action = "Revoked" => ~attestations[id].revoked
              /\ attestations'[id].deleted <=>
                    attestations[id].deleted \/ entry.action = "Deleted"
              /\ attestations'[id].issuer = IF entry.action = "Transferred"
                                            THEN entry.details ELSE attestations[id].issuer
    PROVE  AuditExplainsRecord'
<1>0. /\ DOMAIN auditLog = DOMAIN attestations
      /\ \A id \in DOMAIN attestations : /\ Explains(id, attestations[id], auditLog[id])
                                         /\ Chronological(auditLog[id], now)
  BY AuditByRecord
<1>1. /\ DOMAIN auditLog' = DOMAIN attestations'
      /\ \A id \in ids : /\ auditLog[id] \in Seq(AuditEntry)
                         /\ auditLog'[id] = Append(auditLog[id], entry)
      /\ \A id \in DOMAIN attestations \ ids : auditLog'[id] = auditLog[id]
  BY <1>0, EditLogs
<1>2. /\ ids \subseteq DOMAIN attestations
      /\ DOMAIN attestations' = DOMAIN attestations
      /\ \A id \in DOMAIN attestations \ ids : attestations'[id] = attestations[id]
      /\ now' = now /\ now \in Nat
  BY DEF Edit, TypeOK, LedgerTypeOK
<1>3. ASSUME NEW id \in ids
      PROVE  /\ Explains(id, attestations'[id], auditLog'[id])
             /\ Chronological(auditLog'[id], now')
  <2>1. Explains(id, attestations'[id], Append(auditLog[id], entry))
    BY <1>0, <1>1, <1>2, AppendExplains
  <2>2. Chronological(Append(auditLog[id], entry), now)
    BY <1>0, <1>1, <1>2, AppendChronological
  <2> QED
    BY <1>1, <1>2, <2>1, <2>2
<1>4. ASSUME NEW id \in DOMAIN attestations \ ids
      PROVE  /\ Explains(id, attestations'[id], auditLog'[id])
             /\ Chronological(auditLog'[id], now')
  BY <1>0, <1>1, <1>2
<1>5. \A id \in DOMAIN attestations' : /\ Explains(id, attestations'[id], auditLog'[id])
                                       /\ Chronological(auditLog'[id], now')
  BY <1>2, <1>3, <1>4
<1> QED
  BY <1>1, <1>5 DEF AuditExplainsRecord, AuditChronological, Explains, LastTransfer, At,
                    Chronological

\* Every step leaves audit logs that explain the records.
LEMMA NextAudit == TypeOK /\ AuditExplainsRecord /\ [Next]_vars => AuditExplainsRecord'
<1> SUFFICES ASSUME TypeOK, AuditExplainsRecord, [Next]_vars PROVE AuditExplainsRecord'
  OBVIOUS
<1>0. /\ now \in Nat
      /\ \A id \in DOMAIN attestations : attestations[id] \in Attestation
      /\ \A i \in Issuers : i \in Actors /\ i \in Owners
      /\ Admins \cup Subjects \subseteq Actors
      /\ None \in OptionTime
  BY DEF TypeOK, LedgerTypeOK, Actors, Owners, OptionTime
<1>1. ASSUME NEW owner, NEW new, NEW actor, NEW timestamp,
             Stored(owner, new, actor, timestamp)
      PROVE  AuditExplainsRecord'
  <2> DEFINE e == Entry("Created", actor, timestamp, None)
  <2>0. Added(owner, new)
    BY <1>1, StoredRecords
  <2>1. /\ DOMAIN attestations' = DOMAIN attestations \cup DOMAIN new
        /\ \A id \in DOMAIN new : attestations'[id] = new[id]
        /\ \A id \in DOMAIN attestations : attestations'[id] = attestations[id]
        /\ DOMAIN new \cap DOMAIN attestations = {}
    BY <2>0 DEF Added
  <2>2. /\ DOMAIN auditLog = DOMAIN attestations
        /\ \A id \in DOMAIN attestations : /\ Explains(id, attestations[id], auditLog[id])
                                           /\ Chronological(auditLog[id], now)
    BY AuditByRecord
  <2>3. append_audit_entry(DOMAIN new, e) /\ now' = now /\ timestamp <= now
    BY <1>1 DEF Stored
  <2>4. /\ DOMAIN auditLog' = DOMAIN attestations'
        /\ \A id \in DOMAIN new : auditLog'[id] = <<e>>
        /\ \A id \in DOMAIN attestations : auditLog'[id] = auditLog[id]
    <3>1. Append(<<>>, e) = <<e>>
      OBVIOUS
    <3>2. \A id \in DOMAIN new : get_audit_log(id) = <<>>
      BY <2>1, <2>2 DEF get_audit_log
    <3> HIDE DEF e
    <3> QED
      BY <2>1, <2>2, <2>3, <3>1, <3>2 DEF append_audit_entry
  <2>5. ASSUME NEW id \in DOMAIN new
        PROVE  /\ Explains(id, attestations'[id], auditLog'[id])
               /\ Chronological(auditLog'[id], now')
    <3>1. ~new[id].revoked /\ ~new[id].deleted /\ new[id].issuer = id.issuer
      BY <1>1 DEF Stored
    <3>2. Len(<<e>>) = 1 /\ <<e>>[1] = e /\ e.action = "Created" /\ e.timestamp = timestamp
      BY DEF Entry
    <3>3. auditLog'[id] = <<e>> /\ attestations'[id] = new[id]
      BY <2>1, <2>4
    <3> HIDE DEF e
    <3>4. /\ At(<<e>>, "Created") = {1}
          /\ \A action : action # "Created" => At(<<e>>, action) = {}
      BY <3>2 DEF At
    <3>5. Explains(id, new[id], <<e>>)
      BY <3>1, <3>4 DEF Explains
    <3>6. Chronological(<<e>>, now)
      BY <2>3, <3>2 DEF Chronological
    <3> QED
      BY <2>3, <3>3, <3>5, <3>6
  <2>6. \A id \in DOMAIN attestations' : /\ Explains(id, attestations'[id], auditLog'[id])
                                         /\ Chronological(auditLog'[id], now')
    BY <2>1, <2>2, <2>3, <2>4, <2>5
  <2> QED
    BY <2>4, <2>6 DEF AuditExplainsRecord, AuditChronological, Explains, LastTransfer, At,
                      Chronological
<1>2. ASSUME NEW i \in Issuers, NEW ids, RevokeStep(i, ids) PROVE AuditExplainsRecord'
  <2> DEFINE e == Entry("Revoked", i, now, None)
  <2>1. e \in AuditEntry
    BY <1>0, EntryType DEF AuditAction
  <2>2. e.action = "Revoked" /\ e.timestamp = now /\ Edit(ids, e)
    BY <1>2 DEF Entry, RevokeStep
  <2>3. \A id \in ids : /\ attestations'[id].revoked
                        /\ ~attestations[id].revoked
                        /\ attestations'[id].deleted = attestations[id].deleted
                        /\ attestations'[id].issuer = attestations[id].issuer
    BY <1>2, RevokeFields
  <2> HIDE DEF e
  <2> QED
    BY <2>1, <2>2, <2>3, EditExplains
<1>3. ASSUME NEW i \in Issuers, NEW id, NEW x, NEW action, NEW details,
             RenewStep(i, id, x, action, details)
      PROVE  AuditExplainsRecord'
  <2> DEFINE e == Entry(action, i, now, details)
  <2>1. e \in AuditEntry
    BY <1>0, <1>3, EntryType DEF AuditAction, RenewStep
  <2>2. e.action \in {"Renewed", "Updated"} /\ e.timestamp = now /\ Edit({id}, e)
    BY <1>3 DEF Entry, RenewStep
  <2>3. /\ ~attestations[id].revoked /\ ~attestations'[id].revoked
        /\ attestations'[id].deleted = attestations[id].deleted
        /\ attestations'[id].issuer = attestations[id].issuer
    BY <1>3, RenewFields
  <2> HIDE DEF e
  <2> QED
    BY <2>1, <2>2, <2>3, EditExplains
<1>4. ASSUME NEW a \in Admins, NEW i \in Issuers, NEW id, TransferStep(a, id, i)
      PROVE  AuditExplainsRecord'
  <2> DEFINE e == Entry("Transferred", a, now, i)
  <2>1. e \in AuditEntry
    BY <1>0, EntryType DEF AuditAction
  <2>2. e.action = "Transferred" /\ e.details = i /\ e.timestamp = now /\ Edit({id}, e)
    BY <1>4 DEF Entry, TransferStep
  <2>3. /\ attestations'[id].revoked = attestations[id].revoked
        /\ attestations'[id].deleted = attestations[id].deleted
        /\ attestations'[id].issuer = i
    BY <1>4, TransferFields
  <2> HIDE DEF e
  <2> QED
    BY <2>1, <2>2, <2>3, EditExplains
<1>5. ASSUME NEW s \in Subjects, NEW id, DeleteStep(s, id) PROVE AuditExplainsRecord'
  <2> DEFINE e == Entry("Deleted", s, now, None)
  <2>1. e \in AuditEntry
    BY <1>0, EntryType DEF AuditAction
  <2>2. e.action = "Deleted" /\ e.timestamp = now /\ Edit({id}, e)
    BY <1>5 DEF Entry, DeleteStep
  <2>3. /\ attestations'[id].revoked = attestations[id].revoked
        /\ attestations'[id].deleted
        /\ attestations'[id].issuer = attestations[id].issuer
    BY <1>5, DeleteFields
  <2> HIDE DEF e
  <2> QED
    BY <2>1, <2>2, <2>3, EditExplains
<1>6. CASE QuietStep
  <2>1. AuditChronological'
    <3>1. \A id \in DOMAIN auditLog : \A k \in 1..Len(auditLog[id]) :
             auditLog[id][k].timestamp \in Nat
      <4>1. \A id \in DOMAIN auditLog : \A k \in 1..Len(auditLog[id]) :
               auditLog[id][k] \in AuditEntry
        BY DEF TypeOK, LedgerTypeOK
      <4> QED
        BY <4>1 DEF AuditEntry
    <3> QED
      BY <1>0, <1>6, <3>1 DEF QuietStep, AuditExplainsRecord, AuditChronological
  <2> QED
    BY <1>6, <2>1 DEF QuietStep, AuditExplainsRecord
<1> QED
  BY <1>1, <1>2, <1>3, <1>4, <1>5, <1>6, StepShape DEF Shape

\* The audit log of every attestation replays to its record, whatever the
\* interleaving of creations, batches, transfers, revocations and deletions.
THEOREM AuditLogExplains == Spec => []AuditExplainsRecord
<1>1. Init => AuditExplainsRecord
  BY DEF Init, LedgerInit, AuditExplainsRecord, AuditChronological
<1>2. TypeOK /\ AuditExplainsRecord /\ [Next]_vars => AuditExplainsRecord'
  BY NextAudit
<1> QED
  BY <1>1, <1>2, TypeCorrect, PTL DEF Spec
-----------------------------------------------------------------------------
(* What a step may do to the past, and who may take it                     *)

LEMMA EntriesTyped ==
    ASSUME TypeOK
    PROVE  /\ \A i \in Issuers : Entry("Revoked", i, now, None) \in AuditEntry
           /\ \A i \in Issuers, action \in {"Renewed", "Updated"}, d \in OptionTime :
                 Entry(action, i, now, d) \in AuditEntry
           /\ \A a \in Admins, i \in Issuers :
                 Entry("Transferred", a, now, i) \in AuditEntry
           /\ \A s \in Subjects : Entry("Deleted", s, now, None) \in AuditEntry
BY DEF TypeOK, LedgerTypeOK, Entry, AuditEntry, AuditAction, Actors, Owners, OptionTime

LEMMA PrefixKept ==
    ASSUME NEW log \in Seq(AuditEntry), NEW e \in AuditEntry
    PROVE  /\ SubSeq(log, 1, Len(log)) = log
           /\ SubSeq(Append(log, e), 1, Len(log)) = log
OBVIOUS

\* An edit appends to the logs of the records it writes and to no other.
LEMMA EditKeepsLogs ==
    ASSUME TypeOK, DOMAIN auditLog = DOMAIN attestations, NEW ids,
           NEW entry \in AuditEntry, Edit(ids, entry), NEW id \in DOMAIN attestations
    PROVE  /\ SubSeq(auditLog'[id], 1, Len(auditLog[id])) = auditLog[id]
           /\ Len(auditLog[id]) >= 1 => auditLog'[id][1] = auditLog[id][1]
           /\ id \in ids => /\ auditLog'[id] # auditLog[id]
                            /\ auditLog'[id][Len(auditLog'[id])] = entry
<1>1. auditLog[id] \in Seq(AuditEntry)
  BY DEF TypeOK, LedgerTypeOK
<1>2. CASE id \in ids
  <2>1. auditLog'[id] = Append(auditLog[id], entry)
    BY <1>2, EditLogs
  <2>2. /\ Len(Append(auditLog[id], entry)) = Len(auditLog[id]) + 1
        /\ Len(auditLog[id]) \in Nat
        /\ Append(auditLog[id], entry)[Len(auditLog[id]) + 1] = entry
        /\ Len(auditLog[id]) >= 1 => Append(auditLog[id], entry)[1] = auditLog[id][1]
    BY <1>1
  <2>3. auditLog'[id] # auditLog[id]
    BY <2>1, <2>2
  <2> QED
    BY <1>1, <2>1, <2>2, <2>3, PrefixKept
<1>3. CASE id \notin ids
  <2>1. auditLog'[id] = auditLog[id]
    BY <1>3, EditLogs
  <2> QED
    BY <1>1, <1>3, <2>1, PrefixKept
<1> QED
  BY <1>2, <1>3

\* What a step does to one attestation that was there.
LEMMA RecordStep ==
    ASSUME TypeOK, DOMAIN auditLog = DOMAIN attestations, [Next]_vars,
           NEW id \in DOMAIN attestations
    PROVE  /\ id \in DOMAIN attestations' /\ Kept(id)
           /\ SubSeq(auditLog'[id], 1, Len(auditLog[id])) = auditLog[id]
           /\ Len(auditLog[id]) >= 1 => auditLog'[id][1] = auditLog[id][1]
           /\ attestations[id].deleted => attestations'[id].deleted
           /\ \/ /\ attestations'[id].revoked = attestations[id].revoked
                 /\ attestations'[id].expiration = attestations[id].expiration
              \/ /\ ~attestations[id].revoked
                 /\ ~paused
                 /\ attestations[id].issuer \in issuers
                 /\ auditLog'[id] # auditLog[id]
                 /\ auditLog'[id][Len(auditLog'[id])].actor = attestations[id].issuer
<1> DEFINE Goal ==
           /\ id \in DOMAIN attestations' /\ Kept(id)
           /\ SubSeq(auditLog'[id], 1, Len(auditLog[id])) = auditLog[id]
           /\ Len(auditLog[id]) >= 1 => auditLog'[id][1] = auditLog[id][1]
           /\ attestations[id].deleted => attestations'[id].deleted
           /\ \/ /\ attestations'[id].revoked = attestations[id].revoked
                 /\ attestations'[id].expiration = attestations[id].expiration
              \/ /\ ~attestations[id].revoked
                 /\ ~paused
                 /\ attestations[id].issuer \in issuers
                 /\ auditLog'[id] # auditLog[id]
                 /\ auditLog'[id][Len(auditLog'[id])].actor = attestations[id].issuer
<1>0. ASSUME attestations'[id] = attestations[id], id \in DOMAIN attestations',
             auditLog'[id] = auditLog[id]
      PROVE  Goal
  BY <1>0, PrefixKept DEF Kept, TypeOK, LedgerTypeOK
<1>1. ASSUME NEW ids, NEW entry \in AuditEntry, Edit(ids, entry)
      PROVE  /\ id \in DOMAIN attestations'
             /\ SubSeq(auditLog'[id], 1, Len(auditLog[id])) = auditLog[id]
             /\ Len(auditLog[id]) >= 1 => auditLog'[id][1] = auditLog[id][1]
             /\ id \notin ids => attestations'[id] = attestations[id] /\ Kept(id)
             /\ id \in ids => /\ auditLog'[id] # auditLog[id]
                              /\ auditLog'[id][Len(auditLog'[id])] = entry
  BY <1>1, EditKeepsLogs DEF Edit, Kept
<1>2. ASSUME NEW owner, NEW new, NEW actor, NEW timestamp,
             Stored(owner, new, actor, timestamp)
      PROVE  Goal
  <2>1. /\ attestations'[id] = attestations[id] /\ id \notin DOMAIN new
        /\ id \in DOMAIN attestations'
    BY <1>2, StoredRecords DEF Added
  <2>2. auditLog'[id] = auditLog[id]
    BY <1>2, <2>1 DEF Stored, append_audit_entry
  <2> QED
    BY <1>0, <2>1, <2>2
<1>3. ASSUME NEW i \in Issuers, NEW ids, RevokeStep(i, ids) PROVE Goal
  <2> DEFINE e == Entry("Revoked", i, now, None)
  <2>1. e \in AuditEntry /\ Edit(ids, e) /\ e.actor = i /\ ~paused /\ i \in issuers
    BY <1>3, EntriesTyped DEF RevokeStep, Entry
  <2> HIDE DEF e
  <2>2. CASE id \in ids
    BY <1>1, <1>3, <2>1, <2>2, RevokeFields
  <2>3. CASE id \notin ids
    BY <1>1, <2>1, <2>3
  <2> QED
    BY <2>2, <2>3
<1>4. ASSUME NEW i \in Issuers, NEW x, NEW e, NEW action, NEW details,
             RenewStep(i, x, e, action, details)
      PROVE  Goal
  <2> DEFINE entry == Entry(action, i, now, details)
  <2>1. entry \in AuditEntry /\ Edit({x}, entry) /\ entry.actor = i /\ ~paused /\ i \in issuers
    BY <1>4, EntriesTyped DEF RenewStep, Entry
  <2> HIDE DEF entry
  <2>2. CASE id = x
    BY <1>1, <1>4, <2>1, <2>2, RenewFields
  <2>3. CASE id # x
    BY <1>1, <2>1, <2>3
  <2> QED
    BY <2>2, <2>3
<1>5. ASSUME NEW a \in Admins, NEW i \in Issuers, NEW x, TransferStep(a, x, i)
      PROVE  Goal
  <2> DEFINE entry == Entry("Transferred", a, now, i)
  <2>1. entry \in AuditEntry /\ Edit({x}, entry)
    BY <1>5, EntriesTyped DEF TransferStep
  <2> HIDE DEF entry
  <2>2. CASE id = x
    BY <1>1, <1>5, <2>1, <2>2, TransferFields
  <2>3. CASE id # x
    BY <1>1, <2>1, <2>3
  <2> QED
    BY <2>2, <2>3
<1>6. ASSUME NEW s \in Subjects, NEW x, DeleteStep(s, x) PROVE Goal
  <2> DEFINE entry == Entry("Deleted", s, now, None)
  <2>1. entry \in AuditEntry /\ Edit({x}, entry)
    BY <1>6, EntriesTyped DEF DeleteStep
  <2> HIDE DEF entry
  <2>2. CASE id = x
    BY <1>1, <1>6, <2>1, <2>2, DeleteFields
  <2>3. CASE id # x
    BY <1>1, <2>1, <2>3
  <2> QED
    BY <2>2, <2>3
<1>7. CASE QuietStep
  BY <1>0, <1>7 DEF QuietStep
<1>8. Goal
  BY <1>2, <1>3, <1>4, <1>5, <1>6, <1>7, StepShape DEF Shape
<1> QED
  BY <1>8

\* No path removes an attestation, changes what it attests, undoes a
\* revocation or a deletion, or rewrites an audit log.
THEOREM HistoryIsImmutable == Spec => HistoryImmutable
<1>1. TypeOK /\ AuditExplainsRecord /\ [Next]_vars => [KeepsHistory]_vars
  BY RecordStep DEF KeepsHistory, Kept, AuditExplainsRecord
<1> QED
  BY <1>1, TypeCorrect, AuditLogExplains, PTL DEF Spec, HistoryImmutable

\* Nothing is issued, revoked, renewed or endorsed while the contract is
\* paused, through any entry point.
THEOREM PauseFreezes == Spec => PausedFreezesIssuance
<1>1. ASSUME TypeOK, AuditExplainsRecord, [Next]_vars PROVE RespectsPause
  <2> SUFFICES ASSUME paused
               PROVE  /\ DOMAIN attestations' = DOMAIN attestations
                      /\ endorsements' = endorsements
                      /\ \A id \in DOMAIN attestations :
                            /\ attestations'[id].revoked = attestations[id].revoked
                            /\ attestations'[id].expiration = attestations[id].expiration
    BY DEF RespectsPause
  <2>1. DOMAIN attestations' = DOMAIN attestations /\ endorsements' = endorsements
    <3>1. ASSUME NEW ids, NEW entry, Edit(ids, entry)
          PROVE  DOMAIN attestations' = DOMAIN attestations /\ endorsements' = endorsements
      BY <3>1 DEF Edit
    <3>2. \A owner, new, actor, timestamp : ~Stored(owner, new, actor, timestamp)
      BY DEF Stored
    <3>3. CASE QuietStep
      BY <3>3 DEF QuietStep
    <3> QED
      BY <1>1, <3>1, <3>2, <3>3, StepShape
      DEF Shape, RevokeStep, RenewStep, TransferStep, DeleteStep
  <2>2. \A id \in DOMAIN attestations :
           /\ attestations'[id].revoked = attestations[id].revoked
           /\ attestations'[id].expiration = attestations[id].expiration
    BY <1>1, RecordStep DEF AuditExplainsRecord
  <2> QED
    BY <2>1, <2>2
<1>2. TypeOK /\ AuditExplainsRecord /\ [Next]_vars => [RespectsPause]_vars
  BY <1>1
<1> QED
  BY <1>2, TypeCorrect, AuditLogExplains, PTL DEF Spec, PausedFreezesIssuance

-----------------------------------------------------------------------------
(* Roles                                                                   *)

LEMMA NextRoles == TypeOK /\ RolesDisjoint /\ [Next]_vars => RolesDisjoint'
<1> SUFFICES ASSUME TypeOK, RolesDisjoint, [Next]_vars PROVE RolesDisjoint'
  OBVIOUS
<1>1. ASSUME UNCHANGED registryVars PROVE RolesDisjoint'
  BY <1>1 DEF RolesDisjoint, registryVars
<1>2. CASE RegistryNext
  BY <1>2 DEF RegistryNext, RolesDisjoint, register_issuer, remove_issuer, register_bridge,
              add_issuer, add_bridge, pause, unpause
<1> QED
  BY <1>1, <1>2, StepSurroundings

\* The two registries never share an address.
THEOREM RolesAreDisjoint == Spec => []RolesDisjoint
<1>1. Init => RolesDisjoint
  BY DEF Init, RegistryInit, RolesDisjoint
<1> QED
  BY <1>1, NextRoles, TypeCorrect, PTL DEF Spec

\* Attestations are issued only in the name of a registered issuer or bridge,
\* and revoked or renewed only by a registered issuer that owns them, which
\* the audit log names.
THEOREM OwnersAreRegistered == Spec => OnlyRegisteredOwnersChange
<1>1. ASSUME TypeOK, AuditExplainsRecord, RolesDisjoint, [Next]_vars
      PROVE  ByRegisteredOwner
  <2>1. \A id \in DOMAIN attestations' \ DOMAIN attestations :
           attestations'[id].issuer \in issuers \cup bridges
    <3>1. ASSUME NEW owner, NEW new, NEW actor, NEW timestamp,
                 Stored(owner, new, actor, timestamp)
          PROVE  \A id \in DOMAIN attestations' \ DOMAIN attestations :
                    attestations'[id].issuer \in issuers \cup bridges
      <4>1. owner \in issuers \cup bridges
        BY <3>1 DEF Stored
      <4>2. /\ DOMAIN attestations' = DOMAIN attestations \cup DOMAIN new
            /\ \A id \in DOMAIN new : attestations'[id].issuer = owner
        BY <3>1, StoredRecords DEF Added
      <4> QED
        BY <4>1, <4>2
    <3>2. CASE DOMAIN attestations' = DOMAIN attestations
      BY <3>2
    <3> QED
      BY <1>1, <3>1, <3>2, StepShape
      DEF Shape, RevokeStep, RenewStep, TransferStep, DeleteStep, QuietStep, Edit
  <2>2. \A id \in DOMAIN attestations :
           \/ /\ attestations'[id].revoked = attestations[id].revoked
              /\ attestations'[id].expiration = attestations[id].expiration
           \/ /\ attestations[id].issuer \in issuers \ bridges
              /\ auditLog'[id] # auditLog[id]
              /\ auditLog'[id][Len(auditLog'[id])].actor = attestations[id].issuer
    BY <1>1, RecordStep DEF AuditExplainsRecord, RolesDisjoint
  <2> QED
    BY <2>1, <2>2 DEF ByRegisteredOwner
<1>2. TypeOK /\ AuditExplainsRecord /\ RolesDisjoint /\ [Next]_vars
         => [ByRegisteredOwner]_vars
  BY <1>1
<1> QED
  BY <1>2, TypeCorrect, AuditLogExplains, RolesAreDisjoint, PTL
  DEF Spec, OnlyRegisteredOwnersChange

-----------------------------------------------------------------------------
(* Delegations and the rate limit                                          *)

\* The delegations and the list of a delegator are written together, and
\* nobody is its own delegate.
DelegationsListed ==
    /\ \A key \in DOMAIN delegations : key[1] # key[2]
    /\ \A i \in Issuers, d \in Delegates, c \in ClaimTypes :
          <<i, d, c>> \in DOMAIN delegations <=> <<d, c>> \in delegatorIndex[i]

\* Table and list of the delegations stay in step.
LEMMA NextDelegations == TypeOK /\ DelegationsListed /\ [Next]_vars => DelegationsListed'
<1> SUFFICES ASSUME TypeOK, DelegationsListed, [Next]_vars PROVE DelegationsListed'
  OBVIOUS
<1>0. DOMAIN delegatorIndex = Issuers
  BY DEF TypeOK, PolicyTypeOK
<1>1. CASE UNCHANGED delegationVars
  BY <1>1 DEF DelegationsListed, delegationVars
<1>2. ASSUME NEW i \in Issuers, NEW d \in Delegates, NEW c \in ClaimTypes,
             NEW e, delegate_claim_type(i, d, c, e)
      PROVE  DelegationsListed'
  <2>1. /\ DOMAIN delegations' = DOMAIN delegations \cup {<<i, d, c>>}
        /\ delegatorIndex' = [delegatorIndex EXCEPT ![i] = @ \cup {<<d, c>>}]
        /\ i # d
    BY <1>2 DEF delegate_claim_type, set_delegation, DelegationKey
  <2>2. \A key \in DOMAIN delegations' : key[1] # key[2]
    BY <2>1 DEF DelegationsListed
  <2>3. ASSUME NEW j \in Issuers, NEW f \in Delegates, NEW g \in ClaimTypes
        PROVE  <<j, f, g>> \in DOMAIN delegations' <=> <<f, g>> \in delegatorIndex'[j]
    BY <1>0, <2>1 DEF DelegationsListed
  <2> QED
    BY <2>2, <2>3 DEF DelegationsListed
<1>3. ASSUME NEW i \in Issuers, NEW d \in Delegates, NEW c \in ClaimTypes,
             revoke_delegation(i, d, c)
      PROVE  DelegationsListed'
  <2>1. /\ DOMAIN delegations' = DOMAIN delegations \ {<<i, d, c>>}
        /\ delegatorIndex' = [delegatorIndex EXCEPT ![i] = @ \ {<<d, c>>}]
    BY <1>3 DEF revoke_delegation, remove_delegation, DelegationKey
  <2>2. \A key \in DOMAIN delegations' : key[1] # key[2]
    BY <2>1 DEF DelegationsListed
  <2>3. ASSUME NEW j \in Issuers, NEW f \in Delegates, NEW g \in ClaimTypes
        PROVE  <<j, f, g>> \in DOMAIN delegations' <=> <<f, g>> \in delegatorIndex'[j]
    BY <1>0, <2>1 DEF DelegationsListed
  <2> QED
    BY <2>2, <2>3 DEF DelegationsListed
<1>4. CASE DelegationSetting
  BY <1>2, <1>3, <1>4 DEF DelegationSetting
<1>5. DelegationSetting \/ UNCHANGED delegationVars
  BY StepSurroundings
<1> QED
  BY <1>1, <1>4, <1>5

LEMMA DelegationsAreListed == Spec => []DelegationsListed
<1>1. Init => DelegationsListed
  BY DEF Init, PolicyInit, DelegationsListed
<1> QED
  BY <1>1, NextDelegations, TypeCorrect, PTL DEF Spec

\* The listing of a delegator shows exactly the delegations a delegate can use.
THEOREM DelegationListingIsExact == Spec => []DelegationListingExact
<1>1. ASSUME TypeOK, DelegationsListed PROVE DelegationListingExact
  <2> SUFFICES ASSUME NEW i \in Issuers
               PROVE  list_delegations_by_delegator(i) =
                         {key \in DOMAIN delegations : key[1] = i /\ DelegationActive(key)}
    BY DEF DelegationListingExact
  <2>1. /\ delegatorIndex[i] \subseteq Delegates \X ClaimTypes
        /\ DOMAIN delegations \subseteq Issuers \X Delegates \X ClaimTypes
    BY <1>1 DEF TypeOK, PolicyTypeOK
  <2>2. ASSUME NEW key \in list_delegations_by_delegator(i)
        PROVE  key \in DOMAIN delegations /\ key[1] = i /\ DelegationActive(key)
    BY <2>1 DEF list_delegations_by_delegator, DelegationKey, DelegationActive
  <2>3. ASSUME NEW key \in DOMAIN delegations, key[1] = i, DelegationActive(key)
        PROVE  key \in list_delegations_by_delegator(i)
    <3>1. PICK d \in Delegates, c \in ClaimTypes : key = <<i, d, c>>
      BY <2>1, <2>3
    <3>2. <<d, c>> \in delegatorIndex[i]
      BY <1>1, <2>3, <3>1 DEF DelegationsListed
    <3>3. DelegationKey(i, <<d, c>>[1], <<d, c>>[2]) = key
      BY <3>1 DEF DelegationKey
    <3> QED
      BY <2>3, <3>2, <3>3 DEF list_delegations_by_delegator
  <2> QED
    BY <2>2, <2>3
<1> QED
  BY <1>1, TypeCorrect, DelegationsAreListed, PTL

\* What LastIssuance knows: an issuer's own issuances are not after it, and
\* it is not ahead of the clock.
LastIssuanceCovers ==
    /\ \A id \in DOMAIN attestations :
          SelfIssued(id) =>
             /\ id.issuer \in Issuers
             /\ lastIssuance[id.issuer] # None
             /\ id.timestamp <= lastIssuance[id.issuer]
    /\ \A i \in Issuers : lastIssuance[i] # None => lastIssuance[i] <= now

\* Every attestation has a first audit entry.
LEMMA LogsNotEmpty ==
    ASSUME AuditExplainsRecord, NEW id \in DOMAIN attestations
    PROVE  Len(auditLog[id]) >= 1
<1>1. {k \in 1..Len(auditLog[id]) : auditLog[id][k].action = "Created"} = {1}
  BY DEF AuditExplainsRecord
<1> QED
  BY <1>1

\* How a self-issued attestation comes about.
LEMMA SelfIssuedStored ==
    ASSUME TypeOK, AuditExplainsRecord, DelegationsListed,
           NEW owner, NEW new, NEW actor, NEW timestamp,
           Stored(owner, new, actor, timestamp), NEW id \in DOMAIN new, SelfIssued(id)'
    PROVE  /\ owner \in Issuers /\ id.timestamp = now /\ id.issuer = owner
           /\ check_rate_limit(owner, id.claimType)
           /\ set_last_issuance_time(owner)
<1>1. DOMAIN auditLog = DOMAIN attestations /\ id \notin DOMAIN attestations
  BY DEF AuditExplainsRecord, Stored
<1>2. auditLog'[id] = Append(<<>>, Entry("Created", actor, timestamp, None))
  BY <1>1 DEF Stored, append_audit_entry, get_audit_log
<1>3. auditLog'[id][1].actor = actor
  BY <1>2 DEF Entry
<1>4. attestations'[id] = new[id] /\ id.issuer = owner
  <2>1. Added(owner, new)
    BY StoredRecords
  <2> QED
    BY <2>1 DEF Added
<1>5. actor = owner /\ new[id].origin = "Native"
  BY <1>3, <1>4 DEF SelfIssued
<1>6. owner \in Issuers /\ id.timestamp = now /\ RateChecked(owner, id.claimType)
  BY <1>5 DEF Stored, NativeChecked
<1>7. <<owner, owner, id.claimType>> \notin DOMAIN delegations
  BY DEF DelegationsListed
<1> QED
  BY <1>4, <1>6, <1>7 DEF RateChecked, DelegationKey

\* Every step leaves the last issuance times covering.
LEMMA NextLastIssuance ==
    TypeOK /\ AuditExplainsRecord /\ DelegationsListed /\ LastIssuanceCovers /\ [Next]_vars
       => LastIssuanceCovers'
<1> SUFFICES ASSUME TypeOK, AuditExplainsRecord, DelegationsListed, LastIssuanceCovers,
                    [Next]_vars
             PROVE  LastIssuanceCovers'
  OBVIOUS
<1>0. /\ now \in Nat /\ now' \in Nat /\ now' >= now
      /\ lastIssuance \in [Issuers -> Nat \cup {None}]
      /\ \A id \in DOMAIN attestations : id.timestamp \in Nat
  <2>1. now' \in Nat /\ now' >= now
    BY StepSurroundings
  <2>2. \A id \in DOMAIN attestations : id \in Ids
    BY DEF TypeOK, LedgerTypeOK
  <2> QED
    BY <2>1, <2>2 DEF TypeOK, LedgerTypeOK, PolicyTypeOK, OptionTime, Ids
<1>1. \A id \in DOMAIN attestations : SelfIssued(id)' => SelfIssued(id)
  BY RecordStep, LogsNotEmpty DEF SelfIssued, Kept, AuditExplainsRecord
<1>2. ASSUME NEW owner, NEW new, NEW actor, NEW timestamp,
             Stored(owner, new, actor, timestamp)
      PROVE  LastIssuanceCovers'
  <2>1. \/ lastIssuance' = lastIssuance
        \/ \E i \in Issuers : lastIssuance' = [lastIssuance EXCEPT ![i] = now]
    BY <1>2 DEF Stored, set_last_issuance_time
  <2>2. now' = now /\ None \notin Nat
    BY <1>2, NoneAssumption DEF Stored
  <2>3. \A i \in Issuers : lastIssuance'[i] # None => lastIssuance'[i] <= now'
    BY <1>0, <2>1, <2>2 DEF LastIssuanceCovers
  <2>4. ASSUME NEW id \in DOMAIN attestations, SelfIssued(id)'
        PROVE  /\ id.issuer \in Issuers
               /\ lastIssuance'[id.issuer] # None
               /\ id.timestamp <= lastIssuance'[id.issuer]
    <3>1. /\ id.issuer \in Issuers
          /\ lastIssuance[id.issuer] # None
          /\ id.timestamp <= lastIssuance[id.issuer]
          /\ lastIssuance[id.issuer] <= now
      BY <1>1, <2>4 DEF LastIssuanceCovers
    <3>2. lastIssuance'[id.issuer] \in {lastIssuance[id.issuer], now}
      BY <1>0, <2>1, <3>1
    <3> QED
      BY <1>0, <2>2, <3>1, <3>2
  <2>5. ASSUME NEW id \in DOMAIN new, SelfIssued(id)'
        PROVE  /\ id.issuer \in Issuers
               /\ lastIssuance'[id.issuer] # None
               /\ id.timestamp <= lastIssuance'[id.issuer]
    <3>1. owner \in Issuers /\ id.timestamp = now /\ id.issuer = owner
          /\ set_last_issuance_time(owner)
      BY <1>2, <2>5, SelfIssuedStored
    <3> QED
      BY <1>0, <2>2, <3>1 DEF set_last_issuance_time
  <2>6. DOMAIN attestations' = DOMAIN attestations \cup DOMAIN new
    BY <1>2, StoredRecords DEF Added
  <2> QED
    BY <2>3, <2>4, <2>5, <2>6 DEF LastIssuanceCovers
<1>3. ASSUME DOMAIN attestations' = DOMAIN attestations, UNCHANGED lastIssuance
      PROVE  LastIssuanceCovers'
  <2>1. \A i \in Issuers : lastIssuance'[i] # None => lastIssuance'[i] <= now'
    BY <1>0, <1>3 DEF LastIssuanceCovers
  <2> QED
    BY <1>1, <1>3, <2>1 DEF LastIssuanceCovers
<1> QED
  BY <1>2, <1>3, StepShape
  DEF Shape, RevokeStep, RenewStep, TransferStep, DeleteStep, QuietStep, Edit, policyVars,
      rateVars

LEMMA LastIssuanceIsCovering == Spec => []LastIssuanceCovers
<1>1. Init => LastIssuanceCovers
  BY DEF Init, LedgerInit, PolicyInit, LastIssuanceCovers
<1> QED
  BY <1>1, NextLastIssuance, TypeCorrect, AuditLogExplains, DelegationsAreListed, PTL
  DEF Spec

\* A rate-limited issuer cannot get around the interval with another claim
\* type, a batch, a transfer, a revocation or a delegation to itself.
THEOREM RateLimitSpaces == Spec => RateLimitSpaced
<1>1. ASSUME TypeOK, AuditExplainsRecord, DelegationsListed, LastIssuanceCovers,
             [Next]_vars,
             NEW x \in DOMAIN attestations' \ DOMAIN attestations, SelfIssued(x)',
             NEW old \in DOMAIN attestations, SelfIssued(old), old.issuer = x.issuer
      PROVE  x.timestamp - old.timestamp >= RateInterval(x.claimType)
  <2>1. ASSUME NEW owner, NEW new, NEW actor, NEW timestamp,
               Stored(owner, new, actor, timestamp)
        PROVE  x.timestamp - old.timestamp >= RateInterval(x.claimType)
    <3>1. x \in DOMAIN new /\ DOMAIN new \subseteq Ids
      <4>1. DOMAIN attestations' = DOMAIN attestations \cup DOMAIN new
        BY <2>1, StoredRecords DEF Added
      <4> QED
        BY <1>1, <2>1, <4>1 DEF Stored
    <3>2. /\ x.issuer \in Issuers /\ x.timestamp = now
          /\ check_rate_limit(x.issuer, x.claimType)
      BY <1>1, <2>1, <3>1, SelfIssuedStored
    <3>3. /\ lastIssuance[x.issuer] # None
          /\ old.timestamp <= lastIssuance[x.issuer]
          /\ lastIssuance[x.issuer] <= now
      BY <1>1, <3>2 DEF LastIssuanceCovers
    <3>4. /\ now \in Nat /\ lastIssuance[x.issuer] \in Nat /\ old.timestamp \in Nat
          /\ x.claimType \in ClaimTypes
      <4>1. lastIssuance[x.issuer] \in Nat \cup {None}
        BY <1>1, <3>2 DEF TypeOK, PolicyTypeOK, OptionTime
      <4>2. old \in Ids /\ x \in Ids /\ now \in Nat
        BY <1>1, <3>1 DEF TypeOK, LedgerTypeOK
      <4> QED
        BY <3>3, <4>1, <4>2 DEF Ids
    <3>5. RateInterval(x.claimType) \in Nat
      <4>1. claimRateLimit[x.claimType] \in Nat \cup {None} /\ rateLimit \in Nat \cup {None}
        BY <1>1, <3>4 DEF TypeOK, PolicyTypeOK, OptionTime
      <4> QED
        BY <4>1 DEF RateInterval
    <3> QED
      BY <3>2, <3>3, <3>4, <3>5 DEF check_rate_limit
  <2>2. DOMAIN attestations' # DOMAIN attestations
    BY <1>1
  <2> QED
    BY <1>1, <2>1, <2>2, StepShape
    DEF Shape, RevokeStep, RenewStep, TransferStep, DeleteStep, QuietStep, Edit
<1>2. TypeOK /\ AuditExplainsRecord /\ DelegationsListed /\ LastIssuanceCovers /\ [Next]_vars
         => [SpacesIssuance]_vars
  BY <1>1 DEF SpacesIssuance
<1> QED
  BY <1>2, TypeCorrect, AuditLogExplains, DelegationsAreListed, LastIssuanceIsCovering, PTL
  DEF Spec, RateLimitSpaced

-----------------------------------------------------------------------------
(* Counters                                                                *)

LEMMA DisjointUnion ==
    ASSUME NEW S, NEW T, IsFiniteSet(S), IsFiniteSet(T), S \cap T = {}
    PROVE  /\ IsFiniteSet(S \cup T)
           /\ Cardinality(S \cup T) = Cardinality(S) + Cardinality(T)
<1>1. Cardinality(S) \in Nat /\ Cardinality(T) \in Nat
  BY FS_CardinalityType
<1>2. Cardinality(S \cap T) = 0
  BY FS_EmptySet
<1>3. /\ IsFiniteSet(S \cup T)
      /\ Cardinality(S \cup T) = Cardinality(S) + Cardinality(T) - Cardinality(S \cap T)
  BY FS_Union
<1> QED
  BY <1>1, <1>2, <1>3

RevokedIds == {id \in DOMAIN attestations : attestations[id].revoked}

OwnedIds(o) == {id \in DOMAIN attestations : attestations[id].issuer = o}

\* The sets that the counters count are finite.
LEMMA RecordSetsFinite ==
    ASSUME TypeOK
    PROVE  /\ IsFiniteSet(DOMAIN attestations) /\ IsFiniteSet(RevokedIds)
           /\ \A o : IsFiniteSet(OwnedIds(o))
<1>1. IsFiniteSet(DOMAIN attestations)
  BY DEF TypeOK, LedgerTypeOK
<1>2. RevokedIds \in SUBSET DOMAIN attestations
  BY DEF RevokedIds
<1>3. \A o : OwnedIds(o) \in SUBSET DOMAIN attestations
  BY DEF OwnedIds
<1> QED
  BY <1>1, <1>2, <1>3, FS_Subset

\* Every step counts what it does.
LEMMA NextStats == TypeOK /\ StatsMatchRecords /\ [Next]_vars => StatsMatchRecords'
<1> SUFFICES ASSUME TypeOK, StatsMatchRecords, [Next]_vars PROVE StatsMatchRecords'
  OBVIOUS
<1>0. /\ globalStats \in [total_attestations : Nat, total_revocations : Nat]
      /\ issuerStats \in [Owners -> Nat]
      /\ globalStats.total_attestations = Cardinality(DOMAIN attestations)
      /\ globalStats.total_revocations = Cardinality(RevokedIds)
      /\ \A o \in Owners : issuerStats[o] = Cardinality(OwnedIds(o))
  BY DEF TypeOK, LedgerTypeOK, StatsMatchRecords, RevokedIds, OwnedIds
<1>1. ASSUME globalStats'.total_attestations = Cardinality(DOMAIN attestations'),
             globalStats'.total_revocations = Cardinality(RevokedIds'),
             \A o \in Owners : issuerStats'[o] = Cardinality(OwnedIds(o)')
      PROVE  StatsMatchRecords'
  BY <1>1 DEF StatsMatchRecords, RevokedIds, OwnedIds
<1>2. ASSUME NEW owner, NEW new, NEW actor, NEW timestamp,
             Stored(owner, new, actor, timestamp)
      PROVE  StatsMatchRecords'
  <2> DEFINE added == Cardinality(DOMAIN new)
  <2>1. /\ DOMAIN attestations' = DOMAIN attestations \cup DOMAIN new
        /\ DOMAIN attestations \cap DOMAIN new = {}
        /\ \A id \in DOMAIN new : attestations'[id].issuer = owner /\ ~attestations'[id].revoked
        /\ \A id \in DOMAIN attestations : attestations'[id] = attestations[id]
    BY <1>2, StoredRecords DEF Added
  <2>2. IsFiniteSet(DOMAIN new) /\ added \in Nat /\ owner \in Owners
    BY <1>2, FS_CardinalityType DEF Stored
  <2>3. /\ issuerStats' = [issuerStats EXCEPT ![owner] = @ + added]
        /\ globalStats' = [globalStats EXCEPT !.total_attestations = @ + added]
    BY <1>2 DEF Stored, store_attestations
  <2>4. Cardinality(DOMAIN attestations') = Cardinality(DOMAIN attestations) + added
    BY <2>1, <2>2, DisjointUnion, RecordSetsFinite
  <2>5. RevokedIds' = RevokedIds
    BY <2>1 DEF RevokedIds
  <2>6. /\ OwnedIds(owner)' = OwnedIds(owner) \cup DOMAIN new
        /\ OwnedIds(owner) \cap DOMAIN new = {}
        /\ \A o \in Owners \ {owner} : OwnedIds(o)' = OwnedIds(o)
    BY <2>1 DEF OwnedIds
  <2>7. Cardinality(OwnedIds(owner)') = Cardinality(OwnedIds(owner)) + added
    BY <2>2, <2>6, DisjointUnion, RecordSetsFinite
  <2> HIDE DEF added
  <2>8. /\ globalStats'.total_attestations = globalStats.total_attestations + added
        /\ globalStats'.total_revocations = globalStats.total_revocations
        /\ \A o \in Owners : issuerStats'[o] = IF o = owner THEN issuerStats[o] + added
                                                            ELSE issuerStats[o]
    BY <1>0, <2>2, <2>3
  <2>9. \A o \in Owners : issuerStats'[o] = Cardinality(OwnedIds(o)')
    BY <1>0, <2>6, <2>7, <2>8
  <2> QED
    BY <1>0, <1>1, <2>4, <2>5, <2>8, <2>9
<1>3. ASSUME NEW i \in Issuers, NEW ids, RevokeStep(i, ids) PROVE StatsMatchRecords'
  <2>1. /\ ids \subseteq DOMAIN attestations
        /\ DOMAIN attestations' = DOMAIN attestations
        /\ \A id \in DOMAIN attestations \ ids : attestations'[id] = attestations[id]
    BY <1>3 DEF RevokeStep, Edit
  <2>2. \A id \in ids : /\ ~attestations[id].revoked /\ attestations'[id].revoked
                        /\ attestations'[id].issuer = attestations[id].issuer
    BY <1>3, RevokeFields
  <2>3. IsFiniteSet(ids) /\ Cardinality(ids) \in Nat
    BY <2>1, RecordSetsFinite, FS_Subset, FS_CardinalityType
  <2>4. RevokedIds' = RevokedIds \cup ids /\ RevokedIds \cap ids = {}
    BY <2>1, <2>2 DEF RevokedIds
  <2>5. Cardinality(RevokedIds') = Cardinality(RevokedIds) + Cardinality(ids)
    BY <2>3, <2>4, DisjointUnion, RecordSetsFinite
  <2>6. \A o \in Owners : OwnedIds(o)' = OwnedIds(o)
    BY <2>1, <2>2 DEF OwnedIds
  <2>7. /\ globalStats' = [globalStats EXCEPT !.total_revocations = @ + Cardinality(ids)]
        /\ issuerStats' = issuerStats
    BY <1>3 DEF RevokeStep
  <2>8. /\ globalStats'.total_attestations = globalStats.total_attestations
        /\ globalStats'.total_revocations = globalStats.total_revocations + Cardinality(ids)
    BY <1>0, <2>3, <2>7
  <2> QED
    BY <1>0, <1>1, <2>1, <2>5, <2>6, <2>7, <2>8
<1>4. ASSUME UNCHANGED statVars, DOMAIN attestations' = DOMAIN attestations,
             \A id \in DOMAIN attestations :
                /\ attestations'[id].revoked <=> attestations[id].revoked
                /\ attestations'[id].issuer = attestations[id].issuer
      PROVE  StatsMatchRecords'
  <2>1. RevokedIds' = RevokedIds /\ \A o \in Owners : OwnedIds(o)' = OwnedIds(o)
    BY <1>4 DEF RevokedIds, OwnedIds
  <2> QED
    BY <1>0, <1>1, <1>4, <2>1 DEF statVars
<1>5. ASSUME NEW i \in Issuers, NEW id, NEW e, NEW action, NEW details,
             RenewStep(i, id, e, action, details)
      PROVE  StatsMatchRecords'
  <2>1. /\ UNCHANGED statVars /\ DOMAIN attestations' = DOMAIN attestations
        /\ \A x \in DOMAIN attestations \ {id} : attestations'[x] = attestations[x]
    BY <1>5 DEF RenewStep, Edit
  <2> QED
    BY <1>4, <1>5, <2>1, RenewFields
<1>6. ASSUME NEW s \in Subjects, NEW id, DeleteStep(s, id) PROVE StatsMatchRecords'
  <2>1. /\ UNCHANGED statVars /\ DOMAIN attestations' = DOMAIN attestations
        /\ \A x \in DOMAIN attestations \ {id} : attestations'[x] = attestations[x]
    BY <1>6 DEF DeleteStep, Edit
  <2> QED
    BY <1>4, <1>6, <2>1, DeleteFields
<1>7. ASSUME NEW a \in Admins, NEW i \in Issuers, NEW id, TransferStep(a, id, i)
      PROVE  StatsMatchRecords'
  <2>0. PICK old : old = attestations[id].issuer
    OBVIOUS
  <2>1. /\ DOMAIN attestations' = DOMAIN attestations
        /\ \A x \in DOMAIN attestations \ {id} : attestations'[x] = attestations[x]
        /\ old # i /\ MoveStats(old, i) /\ globalStats' = globalStats
    BY <1>7, <2>0 DEF TransferStep, Edit
  <2>2. /\ id \in DOMAIN attestations
        /\ attestations'[id].revoked = attestations[id].revoked
        /\ attestations'[id].issuer = i
    BY <1>7, TransferFields
  <2>3. old \in Owners /\ i \in Owners
    BY <2>0, <2>2 DEF TypeOK, LedgerTypeOK, Attestation, Owners
  <2>4. RevokedIds' = RevokedIds
    BY <2>1, <2>2 DEF RevokedIds
  <2>5. /\ OwnedIds(old)' = OwnedIds(old) \ {id} /\ id \in OwnedIds(old)
        /\ OwnedIds(i)' = OwnedIds(i) \cup {id} /\ id \notin OwnedIds(i)
        /\ \A o \in Owners \ {old, i} : OwnedIds(o)' = OwnedIds(o)
    BY <2>0, <2>1, <2>2 DEF OwnedIds
  <2>6. /\ Cardinality(OwnedIds(old) \ {id}) = Cardinality(OwnedIds(old)) - 1
        /\ Cardinality(OwnedIds(old) \ {id}) \in Nat
        /\ Cardinality(OwnedIds(i) \cup {id}) = Cardinality(OwnedIds(i)) + 1
    <3>1. IsFiniteSet(OwnedIds(old)) /\ IsFiniteSet(OwnedIds(i))
      BY RecordSetsFinite
    <3>2. IsFiniteSet(OwnedIds(old) \ {id})
      BY <3>1, FS_RemoveElement
    <3> QED
      BY <2>5, <3>1, <3>2, FS_RemoveElement, FS_AddElement, FS_CardinalityType
  <2>7. /\ issuerStats[old] = Cardinality(OwnedIds(old)) /\ issuerStats[old] \in Nat
        /\ issuerStats[i] = Cardinality(OwnedIds(i)) /\ issuerStats[i] \in Nat
    BY <1>0, <2>3
  <2>8. issuerStats[old] # 0
    BY <2>6, <2>7
  <2>9. \A o \in Owners : issuerStats'[o] = IF o = old THEN issuerStats[o] - 1
                                            ELSE IF o = i THEN issuerStats[o] + 1
                                            ELSE issuerStats[o]
    BY <1>0, <2>1, <2>3, <2>8 DEF MoveStats
  <2>10. \A o \in Owners : issuerStats'[o] = Cardinality(OwnedIds(o)')
    <3> SUFFICES ASSUME NEW o \in Owners PROVE issuerStats'[o] = Cardinality(OwnedIds(o)')
      OBVIOUS
    <3>1. CASE o = old
      BY <2>5, <2>6, <2>7, <2>9, <3>1
    <3>2. CASE o = i /\ o # old
      BY <2>5, <2>6, <2>7, <2>9, <3>2
    <3>3. CASE o \notin {old, i}
      BY <1>0, <2>5, <2>9, <3>3
    <3> QED
      BY <3>1, <3>2, <3>3
  <2> QED
    BY <1>0, <1>1, <2>1, <2>4, <2>10
<1>8. CASE QuietStep
  BY <1>4, <1>8 DEF QuietStep
<1> QED
  BY <1>2, <1>3, <1>5, <1>6, <1>7, <1>8, StepShape DEF Shape

\* The counters that every issuance, batch, transfer and revocation updates
\* are what counting the records would give; total_issued never underflows.
THEOREM StatsAreExact == Spec => []StatsMatchRecords
<1>1. Init => StatsMatchRecords
  <2> SUFFICES ASSUME Init PROVE StatsMatchRecords
    OBVIOUS
  <2>1. /\ DOMAIN attestations = {}
        /\ globalStats.total_attestations = 0 /\ globalStats.total_revocations = 0
        /\ \A o \in Owners : issuerStats[o] = 0
    BY DEF Init, LedgerInit
  <2>2. /\ {id \in DOMAIN attestations : attestations[id].revoked} = {}
        /\ \A o : {id \in DOMAIN attestations : attestations[id].issuer = o} = {}
    BY <2>1
  <2> QED
    BY <2>1, <2>2, FS_EmptySet DEF StatsMatchRecords
<1> QED
  BY <1>1, NextStats, TypeCorrect, PTL DEF Spec

-----------------------------------------------------------------------------
(* Limits                                                                  *)

\* The length of a list that has every id once.
LEMMA ListLength ==
    ASSUME NEW index, IsFiniteSet(DOMAIN index), \A id \in DOMAIN index : index[id] = 1
    PROVE  Len32(index) = Cardinality(DOMAIN index) /\ Len32(index) \in Nat
<1> DEFINE D == DOMAIN index
           pairs == {<<id, 1>> : id \in D}
           F == [id \in D |-> <<id, 1>>]
<1>1. UNION {{id} \X (1..index[id]) : id \in D} = pairs
  <2>1. \A id \in D : {id} \X (1..index[id]) = {<<id, 1>>}
    <3>1. 1..1 = {1}
      OBVIOUS
    <3> QED
      BY <3>1
  <2>2. \A S : S \in {{id} \X (1..index[id]) : id \in D} <=> S \in {{<<id, 1>>} : id \in D}
    BY <2>1
  <2> QED
    BY <2>2
<1>2. F \in Surjection(D, pairs)
  BY DEF Surjection
<1>3. F \in Injection(D, pairs)
  BY DEF Injection, IsInjective
<1>4. Cardinality(pairs) = Cardinality(D)
  BY <1>2, <1>3, FS_Surjection
<1>5. Cardinality(D) \in Nat
  BY FS_CardinalityType
<1> QED
  BY <1>1, <1>4, <1>5 DEF Len32

\* The live attestations of an issuer or of a subject are within the limits in
\* force after every native issuance: the lengths the code compares are those
\* of indexes that hold every live attestation, once.
THEOREM LimitsAreKept == Spec => IssuanceWithinLimits
<1>1. ASSUME TypeOK, IndexInv, [Next]_vars,
             NEW id \in DOMAIN attestations' \ DOMAIN attestations,
             attestations'[id].origin = "Native"
      PROVE  LET live == {x \in DOMAIN attestations' :
                             ~attestations'[x].revoked /\ ~attestations'[x].deleted}
             IN  /\ Cardinality({x \in live : attestations'[x].issuer = id.issuer})
                       <= limits.max_attestations_per_issuer
                 /\ Cardinality({x \in live : attestations'[x].subject = id.subject})
                       <= limits.max_attestations_per_subject
  <2> DEFINE live == {x \in DOMAIN attestations' :
                         ~attestations'[x].revoked /\ ~attestations'[x].deleted}
             ofIssuer == {x \in live : attestations'[x].issuer = id.issuer}
             ofSubject == {x \in live : attestations'[x].subject = id.subject}
  <2>1. PICK owner, new, actor, timestamp : Stored(owner, new, actor, timestamp)
    <3>1. DOMAIN attestations' # DOMAIN attestations
      BY <1>1
    <3> QED
      BY <1>1, <3>1, StepShape
      DEF Shape, RevokeStep, RenewStep, TransferStep, DeleteStep, QuietStep, Edit
  <2>2. /\ DOMAIN attestations' = DOMAIN attestations \cup DOMAIN new
        /\ id \in DOMAIN new /\ new[id].origin = "Native" /\ id.issuer = owner
        /\ \A x \in DOMAIN attestations : attestations'[x] = attestations[x]
        /\ \A x \in DOMAIN new : attestations'[x] = new[x]
    <3>0. Added(owner, new)
      BY <2>1, StoredRecords
    <3>1. /\ DOMAIN attestations' = DOMAIN attestations \cup DOMAIN new
          /\ \A x \in DOMAIN attestations : attestations'[x] = attestations[x]
      BY <3>0 DEF Added
    <3>2. \A x \in DOMAIN new : attestations'[x] = new[x] /\ x.issuer = owner
      BY <3>0 DEF Added
    <3> QED
      BY <1>1, <3>1, <3>2
  <2>3. /\ owner \in Issuers /\ owner \in Owners
        /\ IssuerHasRoom(owner, Cardinality(DOMAIN new))
        /\ SubjectHasRoom(id.subject)
        /\ \A x \in DOMAIN new : x.subject = id.subject => x = id
        /\ \A x \in DOMAIN new : new[x].subject = x.subject
        /\ IsFiniteSet(DOMAIN new)
        /\ id.subject \in Subjects
    BY <2>1, <2>2 DEF Stored, NativeChecked, Ids
  <2>4. /\ limits.max_attestations_per_issuer \in Nat
        /\ limits.max_attestations_per_subject \in Nat
        /\ IsFiniteSet(DOMAIN attestations)
    BY <1>1 DEF TypeOK, LedgerTypeOK, PolicyTypeOK, StorageLimits
  <2>5. Cardinality(ofIssuer) <= limits.max_attestations_per_issuer
    <3> DEFINE I == DOMAIN issuerIndex[owner]
    <3>1. /\ \A x \in I : issuerIndex[owner][x] = 1 /\ x \in DOMAIN attestations
          /\ \A x \in DOMAIN attestations :
                attestations[x].issuer = owner /\ ~attestations[x].revoked => x \in I
      BY <1>1, <2>3 DEF IndexInv, IssuerIndexSound, has_attestation
    <3>2. IsFiniteSet(I) /\ I \in SUBSET DOMAIN attestations
      BY <2>4, <3>1, FS_Subset
    <3>3. Cardinality(I) + Cardinality(DOMAIN new) <= limits.max_attestations_per_issuer
      BY <2>3, <3>1, <3>2, ListLength DEF IssuerHasRoom
    <3>4. ofIssuer \in SUBSET (I \cup DOMAIN new)
      BY <2>2, <3>1
    <3> HIDE DEF I, ofIssuer
    <3>5. /\ IsFiniteSet(I \cup DOMAIN new)
          /\ Cardinality(I \cup DOMAIN new) <= Cardinality(I) + Cardinality(DOMAIN new)
      <4>1. IsFiniteSet(I \cap DOMAIN new)
        BY <3>2, FS_Intersection
      <4>2. Cardinality(I \cap DOMAIN new) \in Nat /\ Cardinality(I) \in Nat
            /\ Cardinality(DOMAIN new) \in Nat
        BY <2>3, <3>2, <4>1, FS_CardinalityType
      <4>3. /\ IsFiniteSet(I \cup DOMAIN new)
            /\ Cardinality(I \cup DOMAIN new) =
                  Cardinality(I) + Cardinality(DOMAIN new) - Cardinality(I \cap DOMAIN new)
        BY <2>3, <3>2, FS_Union
      <4> QED
        BY <4>2, <4>3
    <3>6. Cardinality(ofIssuer) <= Cardinality(I \cup DOMAIN new)
      BY <3>4, <3>5, FS_Subset
    <3>7. /\ Cardinality(ofIssuer) \in Nat /\ Cardinality(I \cup DOMAIN new) \in Nat
          /\ Cardinality(I) \in Nat /\ Cardinality(DOMAIN new) \in Nat
      <4>1. IsFiniteSet(ofIssuer)
        BY <3>4, <3>5, FS_Subset
      <4> QED
        BY <2>3, <3>2, <3>5, <4>1, FS_CardinalityType
    <3> QED
      BY <2>4, <3>3, <3>5, <3>6, <3>7
  <2>6. Cardinality(ofSubject) <= limits.max_attestations_per_subject
    <3> DEFINE S == DOMAIN subjectIndex[id.subject]
    <3>1. /\ S = {x \in DOMAIN attestations : /\ attestations[x].subject = id.subject
                                              /\ ~attestations[x].revoked
                                              /\ ~attestations[x].deleted}
          /\ \A x \in S : subjectIndex[id.subject][x] = 1
      BY <1>1, <2>3 DEF IndexInv, SubjectIndexExact
    <3>2. IsFiniteSet(S) /\ S \in SUBSET DOMAIN attestations
      BY <2>4, <3>1, FS_Subset
    <3>3. Cardinality(S) < limits.max_attestations_per_subject
      BY <2>3, <3>1, <3>2, ListLength DEF SubjectHasRoom
    <3>4. ofSubject \in SUBSET (S \cup {id})
      BY <2>2, <2>3, <3>1
    <3> HIDE DEF S, ofSubject
    <3>5. /\ IsFiniteSet(S \cup {id}) /\ Cardinality(S) \in Nat
          /\ Cardinality(S \cup {id}) <= Cardinality(S) + 1
      <4>1. Cardinality(S) \in Nat
        BY <3>2, FS_CardinalityType
      <4>2. /\ IsFiniteSet(S \cup {id})
            /\ Cardinality(S \cup {id}) = IF id \in S THEN Cardinality(S)
                                                     ELSE Cardinality(S) + 1
        BY <3>2, FS_AddElement
      <4> QED
        BY <4>1, <4>2
    <3>6. Cardinality(ofSubject) <= Cardinality(S \cup {id}) /\ IsFiniteSet(ofSubject)
      BY <3>4, <3>5, FS_Subset
    <3>7. Cardinality(ofSubject) \in Nat /\ Cardinality(S \cup {id}) \in Nat
      BY <3>5, <3>6, FS_CardinalityType
    <3> QED
      BY <2>4, <3>3, <3>5, <3>6, <3>7
  <2> QED
    BY <2>5, <2>6
<1>2. TypeOK /\ IndexInv /\ [Next]_vars => [KeepsLimits]_vars
  BY <1>1 DEF KeepsLimits
<1> QED
  BY <1>2, TypeCorrect, IndexesSound, PTL DEF Spec, IssuanceWithinLimits

-----------------------------------------------------------------------------
(* The abstract registry of claims                                         *)

ClaimSet == [owner : Owners, subject : Subjects, claimType : ClaimTypes,
             validFrom : OptionTime, expiration : OptionTime]

AbstractNext ==
    AbstractClaims!Issue \/ AbstractClaims!End \/ AbstractClaims!Change \/ AbstractClaims!Tick

LEMMA ClaimOfType ==
    ASSUME NEW a \in Attestation
    PROVE  /\ ClaimOf(a) \in ClaimSet
           /\ ClaimOf(a).owner = a.issuer /\ ClaimOf(a).subject = a.subject
           /\ ClaimOf(a).claimType = a.claimType /\ ClaimOf(a).validFrom = a.validFrom
           /\ ClaimOf(a).expiration = a.expiration
BY DEF Attestation, ClaimOf, ClaimSet

LEMMA LiveType ==
    ASSUME TypeOK
    PROVE  /\ DOMAIN LiveClaims = DOMAIN attestations \ Ended
           /\ \A id \in DOMAIN LiveClaims : /\ LiveClaims[id] = ClaimOf(attestations[id])
                                            /\ LiveClaims[id] \in ClaimSet
BY ClaimOfType DEF LiveClaims, TypeOK, LedgerTypeOK

\* Ending some of the records ends their claims.
LEMMA EndingEnds ==
    ASSUME NEW ids, ids \subseteq DOMAIN attestations,
           DOMAIN attestations' = DOMAIN attestations, UNCHANGED now,
           \A id \in ids : attestations'[id].revoked \/ attestations'[id].deleted,
           \A id \in DOMAIN attestations \ ids : attestations'[id] = attestations[id]
    PROVE  AbstractClaims!End
<1>1. Ended' = Ended \cup ids
  <2>1. \A id \in Ended : id \notin ids => id \in Ended'
    BY DEF Ended
  <2> QED
    BY DEF Ended
<1>2. LiveClaims' = [id \in DOMAIN LiveClaims \ ids |-> LiveClaims[id]]
  <2>1. DOMAIN attestations' \ Ended' = DOMAIN LiveClaims \ ids
    BY <1>1 DEF LiveClaims
  <2>2. \A id \in DOMAIN LiveClaims \ ids : /\ attestations'[id] = attestations[id]
                                            /\ LiveClaims[id] = ClaimOf(attestations[id])
    BY DEF LiveClaims
  <2>3. LiveClaims' = [id \in DOMAIN attestations' \ Ended' |-> ClaimOf(attestations'[id])]
    BY DEF LiveClaims, ClaimOf
  <2> QED
    BY <2>1, <2>2, <2>3
<1>3. PICK gone \in SUBSET DOMAIN LiveClaims : gone = ids \cap DOMAIN LiveClaims
  OBVIOUS
<1>4. /\ DOMAIN LiveClaims \ ids = DOMAIN LiveClaims \ gone
      /\ Ended \cup ids = Ended \cup gone
  BY <1>3 DEF LiveClaims
<1> QED
  BY <1>1, <1>2, <1>3, <1>4 DEF AbstractClaims!End

\* Writing the owner or the expiration of one record changes its claim, or
\* nothing if it has ended.
LEMMA WritingChanges ==
    ASSUME TypeOK, TypeOK', NEW id \in DOMAIN attestations,
           DOMAIN attestations' = DOMAIN attestations, UNCHANGED now, Kept(id),
           attestations'[id].revoked <=> attestations[id].revoked,
           attestations'[id].deleted <=> attestations[id].deleted,
           \A x \in DOMAIN attestations \ {id} : attestations'[x] = attestations[x]
    PROVE  AbstractClaims!Change \/ UNCHANGED AbstractClaims!vars
<1>1. Ended' = Ended
  BY DEF Ended
<1>2. /\ DOMAIN LiveClaims' = DOMAIN LiveClaims
      /\ \A x \in DOMAIN LiveClaims \ {id} : LiveClaims'[x] = LiveClaims[x]
  BY <1>1 DEF LiveClaims, ClaimOf
<1>3. CASE id \in Ended
  <2>1. id \notin DOMAIN LiveClaims
    BY <1>3 DEF LiveClaims
  <2>2. LiveClaims' = LiveClaims
    BY <1>2, <2>1 DEF LiveClaims
  <2> QED
    BY <1>1, <2>2 DEF AbstractClaims!vars
<1>4. CASE id \notin Ended
  <2>1. id \in DOMAIN LiveClaims
    BY <1>4 DEF LiveClaims
  <2>2. /\ LiveClaims[id] = ClaimOf(attestations[id])
        /\ LiveClaims'[id] = ClaimOf(attestations'[id])
    BY <1>2, <2>1 DEF LiveClaims, ClaimOf
  <2>3. attestations[id] \in Attestation /\ attestations'[id] \in Attestation
    BY DEF TypeOK, LedgerTypeOK
  <2>4. /\ LiveClaims'[id] \in ClaimSet
        /\ LiveClaims'[id].subject = LiveClaims[id].subject
        /\ LiveClaims'[id].claimType = LiveClaims[id].claimType
        /\ LiveClaims'[id].validFrom = LiveClaims[id].validFrom
    BY <2>2, <2>3, ClaimOfType DEF Kept
  <2>5. \A f \in {"subject", "claimType", "validFrom"} :
           LiveClaims'[id][f] = LiveClaims[id][f]
    BY <2>4
  <2> QED
    BY <1>1, <1>2, <2>1, <2>4, <2>5 DEF AbstractClaims!Change, ClaimSet
<1> QED
  BY <1>3, <1>4

\* Every step of the contract is a step of the registry of claims, or none.
LEMMA StepRefines ==
    TypeOK /\ TypeOK' /\ [Next]_vars => [AbstractNext]_(AbstractClaims!vars)
<1> SUFFICES ASSUME TypeOK, TypeOK', [Next]_vars
             PROVE  AbstractNext \/ UNCHANGED AbstractClaims!vars
  OBVIOUS
<1>1. ASSUME NEW owner, NEW new, NEW actor, NEW timestamp,
             Stored(owner, new, actor, timestamp)
      PROVE  AbstractClaims!Issue
  <2>1. /\ DOMAIN attestations' = DOMAIN attestations \cup DOMAIN new
        /\ DOMAIN new \cap DOMAIN attestations = {}
        /\ \A id \in DOMAIN attestations : attestations'[id] = attestations[id]
    BY <1>1, StoredRecords DEF Added
  <2>2. \A id \in DOMAIN new : ~attestations'[id].revoked /\ ~attestations'[id].deleted
    BY <1>1, StoredRecords DEF Added
  <2>3. Ended' = Ended /\ now' = now
    BY <1>1, <2>1, <2>2 DEF Ended, Stored
  <2>4. /\ DOMAIN LiveClaims \subseteq DOMAIN LiveClaims'
        /\ DOMAIN LiveClaims' \cap Ended = {}
        /\ \A id \in DOMAIN LiveClaims : LiveClaims'[id] = LiveClaims[id]
    BY <2>1, <2>3 DEF LiveClaims, ClaimOf
  <2>5. \A id \in DOMAIN LiveClaims' : LiveClaims'[id] \in ClaimSet
    <3>1. \A id \in DOMAIN attestations' : attestations'[id] \in Attestation
      BY DEF TypeOK, LedgerTypeOK
    <3>2. \A id \in DOMAIN LiveClaims' :
             id \in DOMAIN attestations' /\ LiveClaims'[id] = ClaimOf(attestations'[id])
      BY DEF LiveClaims, ClaimOf
    <3> QED
      BY <3>1, <3>2, ClaimOfType
  <2> QED
    BY <2>3, <2>4, <2>5 DEF AbstractClaims!Issue, ClaimSet
<1>2. ASSUME NEW i \in Issuers, NEW ids, RevokeStep(i, ids) PROVE AbstractClaims!End
  <2>1. /\ ids \subseteq DOMAIN attestations
        /\ DOMAIN attestations' = DOMAIN attestations /\ now' = now
        /\ \A id \in DOMAIN attestations \ ids : attestations'[id] = attestations[id]
    BY <1>2 DEF RevokeStep, Edit
  <2>2. \A id \in ids : attestations'[id].revoked
    BY <1>2, RevokeFields
  <2> QED
    BY <2>1, <2>2, EndingEnds
<1>3. ASSUME NEW s \in Subjects, NEW id, DeleteStep(s, id) PROVE AbstractClaims!End
  <2>0. PICK ids : ids = {id}
    OBVIOUS
  <2>1. /\ ids \subseteq DOMAIN attestations
        /\ DOMAIN attestations' = DOMAIN attestations /\ now' = now
        /\ \A x \in DOMAIN attestations \ ids : attestations'[x] = attestations[x]
    BY <1>3, <2>0 DEF DeleteStep, Edit
  <2>2. \A x \in ids : attestations'[x].deleted
    BY <1>3, <2>0, DeleteFields
  <2> QED
    BY <2>1, <2>2, EndingEnds
<1>4. ASSUME NEW i \in Issuers, NEW id, NEW e, NEW action, NEW details,
             RenewStep(i, id, e, action, details)
      PROVE  AbstractClaims!Change \/ UNCHANGED AbstractClaims!vars
  <2>1. /\ DOMAIN attestations' = DOMAIN attestations /\ now' = now
        /\ \A x \in DOMAIN attestations \ {id} : attestations'[x] = attestations[x]
    BY <1>4 DEF RenewStep, Edit
  <2>2. /\ id \in DOMAIN attestations /\ Kept(id)
        /\ attestations'[id].revoked <=> attestations[id].revoked
        /\ attestations'[id].deleted <=> attestations[id].deleted
    BY <1>4, RenewFields
  <2> QED
    BY <2>1, <2>2, WritingChanges
<1>5. ASSUME NEW a \in Admins, NEW i \in Issuers, NEW id, TransferStep(a, id, i)
      PROVE  AbstractClaims!Change \/ UNCHANGED AbstractClaims!vars
  <2>1. /\ DOMAIN attestations' = DOMAIN attestations /\ now' = now
        /\ \A x \in DOMAIN attestations \ {id} : attestations'[x] = attestations[x]
    BY <1>5 DEF TransferStep, Edit
  <2>2. /\ id \in DOMAIN attestations /\ Kept(id)
        /\ attestations'[id].revoked <=> attestations[id].revoked
        /\ attestations'[id].deleted <=> attestations[id].deleted
    BY <1>5, TransferFields
  <2> QED
    BY <2>1, <2>2, WritingChanges
<1>6. CASE QuietStep
  <2>1. LiveClaims' = LiveClaims /\ Ended' = Ended
    BY <1>6 DEF QuietStep, LiveClaims, Ended, ClaimOf
  <2>2. now' > now \/ now' = now
    BY <1>6 DEF QuietStep, TypeOK, LedgerTypeOK
  <2> QED
    BY <2>1, <2>2 DEF AbstractNext, AbstractClaims!Tick, AbstractClaims!vars
<1> QED
  BY <1>1, <1>2, <1>3, <1>4, <1>5, <1>6, StepShape DEF Shape, AbstractNext

\* The index scan of has_valid_claim answers as the registry of claims does.
LEMMA ScanAnswers ==
    ASSUME TypeOK, ClaimQueriesAgree, NEW s \in Subjects, NEW c \in ClaimTypes
    PROVE  has_valid_claim(s, c) <=> AbstractClaims!Holds(s, c)
<1>1. has_valid_claim(s, c) <=> Backing(s, c) # {}
  BY DEF ClaimQueriesAgree
<1>2. now \in Nat /\ None \notin Nat
  BY NoneAssumption DEF TypeOK, LedgerTypeOK
<1>3. ASSUME NEW id \in DOMAIN attestations
      PROVE  id \in Backing(s, c) <=>
                /\ id \in DOMAIN LiveClaims
                /\ LiveClaims[id].subject = s
                /\ LiveClaims[id].claimType = c
                /\ AbstractClaims!InForce(LiveClaims[id])
  <2> DEFINE a == attestations[id]
  <2>1. a \in Attestation
    BY DEF TypeOK, LedgerTypeOK
  <2>2. a.validFrom \in Nat \cup {None} /\ a.expiration \in Nat \cup {None}
    BY <2>1 DEF Attestation, OptionTime
  <2>3. IsValid(id) <=> /\ a.validFrom = None \/ a.validFrom <= now
                        /\ a.expiration = None \/ now < a.expiration
                        /\ ~a.revoked
    BY <1>2, <2>2 DEF IsValid, get_status
  <2>4. id \in DOMAIN LiveClaims <=> ~a.revoked /\ ~a.deleted
    BY DEF LiveClaims, Ended
  <2>5. id \in DOMAIN LiveClaims => LiveClaims[id] = ClaimOf(a)
    BY DEF LiveClaims
  <2>6. AbstractClaims!InForce(ClaimOf(a)) <=>
           /\ a.validFrom = None \/ a.validFrom <= now
           /\ a.expiration = None \/ now < a.expiration
    BY DEF AbstractClaims!InForce, ClaimOf
  <2>7. ClaimOf(a).subject = a.subject /\ ClaimOf(a).claimType = a.claimType
    BY DEF ClaimOf
  <2> QED
    BY <2>3, <2>4, <2>5, <2>6, <2>7 DEF Backing
<1>4. Backing(s, c) \subseteq DOMAIN attestations /\ DOMAIN LiveClaims \subseteq DOMAIN attestations
  BY DEF Backing, LiveClaims
<1> QED
  BY <1>1, <1>3, <1>4 DEF AbstractClaims!Holds

\* The contract implements the registry of claims: every step of it issues,
\* changes or ends claims as the registry allows, or does not show there, and
\* has_valid_claim gives the registry's answer.
THEOREM ClaimRegistryImplemented == Spec => ImplementsClaimRegistry
<1>1. Init => AbstractClaims!Init
  <2> SUFFICES ASSUME Init PROVE AbstractClaims!Init
    OBVIOUS
  <2>1. DOMAIN attestations = {} /\ now = 0
    BY DEF Init, LedgerInit
  <2>2. Ended = {} /\ LiveClaims = [id \in {} |-> None]
    BY <2>1 DEF Ended, LiveClaims
  <2> QED
    BY <2>1, <2>2 DEF AbstractClaims!Init
<1>2. TypeOK /\ TypeOK' /\ [Next]_vars
         => [AbstractClaims!Issue \/ AbstractClaims!End \/ AbstractClaims!Change
               \/ AbstractClaims!Tick]_(AbstractClaims!vars)
  BY StepRefines DEF AbstractNext
<1>3. TypeOK /\ ClaimQueriesAgree
         => \A s \in Subjects, c \in ClaimTypes :
               has_valid_claim(s, c) <=> AbstractClaims!Holds(s, c)
  BY ScanAnswers
<1> QED
  BY <1>1, <1>2, <1>3, TypeCorrect, QueriesAgree, PTL
  DEF Spec, ImplementsClaimRegistry, AbstractClaims!Spec
=============================================================================
