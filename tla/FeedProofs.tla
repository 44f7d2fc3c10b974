----------------------------- MODULE FeedProofs -----------------------------
(***************************************************************************)
(* What a reader of all the contract's events knows: about the records,    *)
(* the registered issuers and the pause flag (module EventFeed), and about *)
(* the proposals and the requests, whose own properties are proved here    *)
(* too (modules Workflows and WorkflowFeed).  A feed step is a step of the *)
(* contract, so what is proved of the contract holds of it.                *)
(***************************************************************************)
EXTENDS EventFeed, WorkflowFeed, HistoryProofs

-----------------------------------------------------------------------------
(* The contract below the feed                                             *)

LEMMA FeedStepsAreSteps == [FeedNext]_feedVars => [Next]_vars
<1> SUFFICES ASSUME [FeedNext]_feedVars PROVE [Next]_vars
  OBVIOUS
<1>1. CASE UNCHANGED feedVars
  BY <1>1 DEF feedVars
<1>2. ASSUME ManageAndPublish PROVE Manage
  BY <1>2 DEF ManageAndPublish, Manage
<1>3. ASSUME DeleteAndPublish PROVE Delete
  BY <1>3 DEF DeleteAndPublish, Delete
<1>4. CASE AttestationNext
  BY <1>2, <1>3, <1>4 DEF AttestationNext, Next
<1>5. CASE RegistryAndPublish
  BY <1>5 DEF RegistryAndPublish, RegistryNext, Next
<1>6. CASE SilentNext
  BY <1>6 DEF SilentNext, Next
<1> QED
  BY <1>1, <1>4, <1>5, <1>6 DEF FeedNext

\* The feed is a view of the contract: it takes the contract's steps and no
\* others, so whatever is proved of Spec holds of the contract with its feed.
THEOREM FeedFollowsContract == FeedSpec => Spec
<1>1. FeedInit => Init
  BY DEF FeedInit
<1> QED
  BY <1>1, FeedStepsAreSteps, PTL DEF FeedSpec, Spec

-----------------------------------------------------------------------------
(* What is issued                                                          *)

\* Where a new record comes from shows in its id and in its expiration.
Sourced(id, a) ==
    /\ a.origin = "Bridged" => a.expiration = None
    /\ id.source # None => id.issuer \in bridges

\* Creating one attestation adds its id and no other.
LEMMA CreatedIsNew ==
    ASSUME NEW id, NEW a, NEW actor, Create(id, a, actor)
    PROVE  New = {id} /\ attestations'[id] = a
<1>1. set_attestations([x \in {id} |-> a])
  BY DEF Create, store_attestation, store_attestations
<1>2. id \notin DOMAIN attestations
  BY DEF Create, has_attestation
<1> QED
  BY <1>1, <1>2 DEF set_attestations, New

\* Whatever issues leaves records that show where they come from.
LEMMA NewIsSourced ==
    ASSUME Issue \/ Import \/ IssueBatch
    PROVE  \A id \in New : Sourced(id, attestations'[id])
<1>1. ASSUME NEW s \in Subjects, NEW c \in ClaimTypes, NEW b \in Bridges,
             NEW src \in Sources, bridge_attestation(b, s, c, src)
      PROVE  \A id \in New : Sourced(id, attestations'[id])
  <2> DEFINE nid == generate_bridge_id(b, s, c, src, now)
             a == NewAttestation(b, s, c, now, None, None, "Bridged")
  <2>1. Create(nid, a, b) /\ b \in bridges
    BY <1>1 DEF bridge_attestation, require_bridge
  <2>2. a.expiration = None /\ nid.issuer = b
    BY DEF NewAttestation, generate_bridge_id
  <2> HIDE DEF nid, a
  <2> QED
    BY <2>1, <2>2, CreatedIsNew DEF Sourced
<1>2. ASSUME NEW i, NEW s, NEW c, NEW t, NEW e, NEW v, NEW origin, NEW actor,
             origin # "Bridged",
             Create(generate_id(i, s, c, t), NewAttestation(i, s, c, t, e, v, origin), actor)
      PROVE  \A id \in New : Sourced(id, attestations'[id])
  <2> DEFINE nid == generate_id(i, s, c, t)
             a == NewAttestation(i, s, c, t, e, v, origin)
  <2>1. a.origin # "Bridged" /\ nid.source = None
    BY <1>2 DEF NewAttestation, generate_id
  <2>2. Create(nid, a, actor)
    BY <1>2
  <2> HIDE DEF nid, a
  <2> QED
    BY <2>1, <2>2, CreatedIsNew DEF Sourced
<1>3. CASE Issue
  BY <1>1, <1>2, <1>3 DEF Issue, create_attestation_internal, create_attestation_as_delegate
<1>4. CASE Import
  BY <1>2, <1>4 DEF Import, import_attestation
<1>5. CASE IssueBatch
  <2>1. PICK i \in Issuers, S \in SUBSET Subjects, c \in ClaimTypes, e \in Expirations :
           create_attestations_batch(i, S, c, e)
    BY <1>5 DEF IssueBatch
  <2> DEFINE ids == {generate_id(i, s, c, now) : s \in S}
             new == [id \in ids |-> NewAttestation(i, id.subject, c, now, e, None, "Native")]
  <2>2. set_attestations(new)
    BY <2>1 DEF create_attestations_batch, store_attestations
  <2>3. \A id \in ids : id.source = None /\ new[id].origin = "Native"
    BY DEF generate_id, NewAttestation
  <2>4. DOMAIN new = ids
    OBVIOUS
  <2> HIDE DEF ids, new
  <2>5. \A id \in New : id \in ids /\ attestations'[id] = new[id]
    BY <2>2, <2>4 DEF set_attestations, New
  <2> QED
    BY <2>3, <2>5 DEF Sourced
<1> QED
  BY <1>3, <1>4, <1>5

\* A batch is native.
LEMMA BatchIsNative ==
    ASSUME IssueBatch
    PROVE  \A id \in New : attestations'[id].origin = "Native"
<1>1. PICK i \in Issuers, S \in SUBSET Subjects, c \in ClaimTypes, e \in Expirations :
         create_attestations_batch(i, S, c, e)
  BY DEF IssueBatch
<1> DEFINE ids == {generate_id(i, s, c, now) : s \in S}
           new == [id \in ids |-> NewAttestation(i, id.subject, c, now, e, None, "Native")]
<1>2. set_attestations(new)
  BY <1>1 DEF create_attestations_batch, store_attestations
<1>3. DOMAIN new = ids /\ \A id \in ids : new[id].origin = "Native"
  BY DEF NewAttestation
<1> HIDE DEF ids, new
<1> QED
  BY <1>2, <1>3 DEF set_attestations, New

-----------------------------------------------------------------------------
(* The records                                                             *)

\* What FeedDeterminesRecords says of one row.
Mirrors(row, a, log) ==
    /\ row \in MirrorRow
    /\ row.issuer = a.issuer /\ row.subject = a.subject /\ row.claimType = a.claimType
    /\ row.revoked = a.revoked /\ row.deleted = a.deleted
    /\ \/ row.expiration = a.expiration
       \/ /\ row.expiration = Unknown
          /\ a.origin = "Native"
          /\ At(log, "Renewed") = {} /\ At(log, "Updated") = {}

\* FeedDeterminesRecords, row by row.
LEMMA RecordsByRow ==
    FeedDeterminesRecords <=>
       /\ DOMAIN mirror = DOMAIN attestations
       /\ \A id \in DOMAIN attestations :
             Mirrors(mirror[id], attestations[id], auditLog[id])
<1>1. ASSUME NEW log
      PROVE  {k \in 1..Len(log) : log[k].action \in {"Renewed", "Updated"}} = {}
                <=> At(log, "Renewed") = {} /\ At(log, "Updated") = {}
  BY DEF At
<1>2. ASSUME NEW row, NEW a
      PROVE  (\A f \in {"issuer", "subject", "claimType", "revoked", "deleted"} :
                 row[f] = a[f])
                <=> /\ row.issuer = a.issuer /\ row.subject = a.subject
                    /\ row.claimType = a.claimType
                    /\ row.revoked = a.revoked /\ row.deleted = a.deleted
  OBVIOUS
<1> QED
  BY <1>1, <1>2, ZenonT(30) DEF FeedDeterminesRecords, Mirrors

LEMMA RecordsByRowPrimed ==
    ASSUME DOMAIN mirror' = DOMAIN attestations',
           \A id \in DOMAIN attestations' :
              Mirrors(mirror'[id], attestations'[id], auditLog'[id])
    PROVE  FeedDeterminesRecords'
<1>1. ASSUME NEW log, At(log, "Renewed") = {}, At(log, "Updated") = {}
      PROVE  {k \in 1..Len(log) : log[k].action \in {"Renewed", "Updated"}} = {}
  BY <1>1 DEF At
<1> QED
  BY <1>1, ZenonT(30) DEF FeedDeterminesRecords, Mirrors, MirrorRow

\* What an issuing step does to the records.
LEMMA IssuedRecords ==
    ASSUME TypeOK, Issue \/ Import \/ IssueBatch
    PROVE  \E owner, new, actor, timestamp :
              /\ Stored(owner, new, actor, timestamp)
              /\ DOMAIN attestations' = DOMAIN attestations \cup DOMAIN new
              /\ DOMAIN new \cap DOMAIN attestations = {}
              /\ \A id \in DOMAIN new : attestations'[id] = new[id]
              /\ \A id \in DOMAIN attestations : attestations'[id] = attestations[id]
<1>1. PICK owner, new, actor, timestamp : Stored(owner, new, actor, timestamp)
  BY IssuanceStores
<1>2. /\ DOMAIN attestations' = DOMAIN attestations \cup DOMAIN new
      /\ DOMAIN new \cap DOMAIN attestations = {}
      /\ \A id \in DOMAIN new : attestations'[id] = new[id]
      /\ \A id \in DOMAIN attestations : attestations'[id] = attestations[id]
  <2>1. Added(owner, new)
    BY <1>1, StoredRecords
  <2> QED
    BY <2>1 DEF Added
<1> QED
  BY <1>1, <1>2

\* The new records are announced with the expirations ex; one that is kept
\* back belongs to a native attestation.
LEMMA AnnounceRecords ==
    ASSUME TypeOK, AuditExplainsRecord, FeedDeterminesRecords,
           Issue \/ Import \/ IssueBatch, NEW ex,
           mirror' = [id \in DOMAIN mirror \cup New |->
                        IF id \in New THEN NewRow(attestations'[id], ex[id]) ELSE mirror[id]],
           \A id \in New : \/ ex[id] = attestations'[id].expiration
                           \/ ex[id] = Unknown /\ attestations'[id].origin = "Native"
    PROVE  FeedDeterminesRecords'
<1>1. PICK owner, new, actor, timestamp :
         /\ Stored(owner, new, actor, timestamp)
         /\ DOMAIN attestations' = DOMAIN attestations \cup DOMAIN new
         /\ DOMAIN new \cap DOMAIN attestations = {}
         /\ \A id \in DOMAIN new : attestations'[id] = new[id]
         /\ \A id \in DOMAIN attestations : attestations'[id] = attestations[id]
  BY IssuedRecords
<1>2. /\ DOMAIN attestations' = DOMAIN attestations \cup DOMAIN new
      /\ DOMAIN new \cap DOMAIN attestations = {}
      /\ \A id \in DOMAIN new : attestations'[id] = new[id]
      /\ \A id \in DOMAIN attestations : attestations'[id] = attestations[id]
  BY <1>1
<1>3. New = DOMAIN new
  BY <1>2 DEF New
<1>4. /\ DOMAIN mirror = DOMAIN attestations
      /\ \A id \in DOMAIN attestations :
            Mirrors(mirror[id], attestations[id], auditLog[id])
  BY RecordsByRow
<1>5. /\ \A id \in DOMAIN attestations : auditLog'[id] = auditLog[id]
      /\ \A id \in DOMAIN new : auditLog'[id] = <<Entry("Created", actor, timestamp, None)>>
  <2> DEFINE e == Entry("Created", actor, timestamp, None)
  <2>1. DOMAIN auditLog = DOMAIN attestations
    BY DEF AuditExplainsRecord
  <2>2. append_audit_entry(DOMAIN new, e)
    BY <1>1 DEF Stored
  <2>3. \A id \in DOMAIN new : get_audit_log(id) = <<>>
    BY <1>2, <2>1 DEF get_audit_log
  <2>4. Append(<<>>, e) = <<e>>
    OBVIOUS
  <2> HIDE DEF e
  <2>5. /\ \A id \in DOMAIN attestations : auditLog'[id] = auditLog[id]
        /\ \A id \in DOMAIN new : auditLog'[id] = <<e>>
    BY <1>2, <2>1, <2>2, <2>3, <2>4 DEF append_audit_entry
  <2> QED
    BY <2>5 DEF e
<1>6. ASSUME NEW id \in DOMAIN new
      PROVE  Mirrors(mirror'[id], attestations'[id], auditLog'[id])
  <2>1. new[id] \in Attestation /\ ~new[id].revoked /\ ~new[id].deleted
    BY <1>1 DEF Stored
  <2>2. PICK a : a = new[id]
    OBVIOUS
  <2>3. PICK x : x = ex[id]
    OBVIOUS
  <2>4. a \in Attestation /\ ~a.revoked /\ ~a.deleted
    BY <2>1, <2>2
  <2>5. mirror'[id] = NewRow(a, x) /\ attestations'[id] = a
    BY <1>2, <1>3, <2>2, <2>3
  <2>6. x = a.expiration \/ (x = Unknown /\ a.origin = "Native")
    BY <1>3, <2>3, <2>5
  <2>7. /\ a.issuer \in Owners /\ a.subject \in Subjects /\ a.claimType \in ClaimTypes
        /\ a.expiration \in OptionTime /\ a.revoked = FALSE /\ a.deleted = FALSE
    BY <2>4 DEF Attestation
  <2>8. NewRow(a, x) \in MirrorRow
    BY <2>6, <2>7 DEF NewRow, MirrorRow
  <2>9. PICK log : log = auditLog'[id]
    OBVIOUS
  <2>10. At(log, "Renewed") = {} /\ At(log, "Updated") = {}
    <3>1. log = <<Entry("Created", actor, timestamp, None)>>
      BY <1>5, <2>9
    <3>2. Len(log) = 1 /\ log[1].action = "Created"
      BY <3>1 DEF Entry
    <3> QED
      BY <3>2 DEF At
  <2>11. Mirrors(NewRow(a, x), a, log)
    BY <2>6, <2>7, <2>8, <2>10 DEF Mirrors, NewRow
  <2> QED
    BY <2>5, <2>9, <2>11
<1>7. ASSUME NEW id \in DOMAIN attestations
      PROVE  Mirrors(mirror'[id], attestations'[id], auditLog'[id])
  BY <1>2, <1>3, <1>4, <1>5
<1>8. DOMAIN mirror' = DOMAIN attestations'
  BY <1>2, <1>3, <1>4
<1> QED
  BY <1>2, <1>6, <1>7, <1>8, RecordsByRowPrimed

\* The rows of ids change with their records.
LEMMA EditRecords ==
    ASSUME TypeOK, AuditExplainsRecord, FeedDeterminesRecords,
           NEW ids, NEW entry, Edit(ids, entry),
           DOMAIN mirror' = DOMAIN mirror,
           \A id \in DOMAIN mirror \ ids : mirror'[id] = mirror[id],
           \A id \in ids :
              Mirrors(mirror'[id], attestations'[id], Append(auditLog[id], entry))
    PROVE  FeedDeterminesRecords'
<1>1. /\ DOMAIN mirror = DOMAIN attestations
      /\ \A id \in DOMAIN attestations :
            Mirrors(mirror[id], attestations[id], auditLog[id])
  BY RecordsByRow
<1>2. DOMAIN auditLog = DOMAIN attestations
  BY DEF AuditExplainsRecord
<1>3. /\ \A id \in ids : auditLog'[id] = Append(auditLog[id], entry)
      /\ \A id \in DOMAIN attestations \ ids : auditLog'[id] = auditLog[id]
  BY <1>2, EditLogs
<1>4. /\ DOMAIN attestations' = DOMAIN attestations
      /\ \A id \in DOMAIN attestations \ ids : attestations'[id] = attestations[id]
  BY DEF Edit
<1>5. ASSUME NEW id \in DOMAIN attestations
      PROVE  Mirrors(mirror'[id], attestations'[id], auditLog'[id])
  BY <1>1, <1>3, <1>4
<1> QED
  BY <1>1, <1>4, <1>5, RecordsByRowPrimed

\* An entry that is no renewal leaves what is known of the expiration alone;
\* after one the expiration is known.
LEMMA RowAfter ==
    ASSUME NEW row, NEW a, NEW log \in Seq(AuditEntry), Mirrors(row, a, log),
           NEW e \in AuditEntry, NEW r \in MirrorRow, NEW b,
           r.issuer = b.issuer, r.subject = b.subject, r.claimType = b.claimType,
           r.revoked = b.revoked, r.deleted = b.deleted,
           \/ r.expiration = b.expiration
           \/ /\ e.action \notin {"Renewed", "Updated"}
              /\ r.expiration = row.expiration
              /\ b.expiration = a.expiration
              /\ b.origin = a.origin
    PROVE  Mirrors(r, b, Append(log, e))
<1>1. CASE r.expiration = b.expiration
  BY <1>1 DEF Mirrors
<1>2. CASE /\ e.action \notin {"Renewed", "Updated"}
           /\ r.expiration = row.expiration
           /\ b.expiration = a.expiration
           /\ b.origin = a.origin
  <2>1. \A action \in {"Renewed", "Updated"} : At(Append(log, e), action) = At(log, action)
    BY <1>2, AppendAt
  <2> QED
    BY <1>2, <2>1 DEF Mirrors
<1> QED
  BY <1>1, <1>2

\* What an event changes of a row.
LEMMA RowFields ==
    ASSUME NEW row \in MirrorRow
    PROVE  /\ LET r == [row EXCEPT !.revoked = TRUE]
              IN  /\ r \in MirrorRow /\ r.issuer = row.issuer /\ r.subject = row.subject
                  /\ r.claimType = row.claimType /\ r.expiration = row.expiration
                  /\ r.revoked = TRUE /\ r.deleted = row.deleted
           /\ LET r == [row EXCEPT !.deleted = TRUE]
              IN  /\ r \in MirrorRow /\ r.issuer = row.issuer /\ r.subject = row.subject
                  /\ r.claimType = row.claimType /\ r.expiration = row.expiration
                  /\ r.revoked = row.revoked /\ r.deleted = TRUE
           /\ \A v \in OptionTime :
                 LET r == [row EXCEPT !.expiration = v]
                 IN  /\ r \in MirrorRow /\ r.issuer = row.issuer /\ r.subject = row.subject
                     /\ r.claimType = row.claimType /\ r.expiration = v
                     /\ r.revoked = row.revoked /\ r.deleted = row.deleted
           /\ \A v \in Owners :
                 LET r == [row EXCEPT !.issuer = v]
                 IN  /\ r \in MirrorRow /\ r.issuer = v /\ r.subject = row.subject
                     /\ r.claimType = row.claimType /\ r.expiration = row.expiration
                     /\ r.revoked = row.revoked /\ r.deleted = row.deleted
BY DEF MirrorRow

\* What is known of a record before its step.
LEMMA RowBefore ==
    ASSUME TypeOK, AuditExplainsRecord, FeedDeterminesRecords, NEW id \in DOMAIN attestations
    PROVE  /\ id \in DOMAIN mirror
           /\ attestations[id] \in Attestation
           /\ auditLog[id] \in Seq(AuditEntry)
           /\ Mirrors(mirror[id], attestations[id], auditLog[id])
           /\ mirror[id] \in MirrorRow
BY RecordsByRow DEF Mirrors, TypeOK, LedgerTypeOK, AuditExplainsRecord

\* The mirror is right after each kind of change and its event.
LEMMA RevokeRecords ==
    ASSUME TypeOK, AuditExplainsRecord, FeedDeterminesRecords,
           NEW i \in Issuers, NEW ids, RevokeStep(i, ids), attestation_revoked(ids)
    PROVE  FeedDeterminesRecords'
<1>1. PICK e : e = Entry("Revoked", i, now, None)
  OBVIOUS
<1>2. e \in AuditEntry /\ e.action = "Revoked" /\ Edit(ids, e)
  <2>1. e \in AuditEntry
    BY <1>1, EntryType DEF AuditAction, TypeOK, LedgerTypeOK, Actors, Owners, OptionTime
  <2> QED
    BY <1>1, <2>1 DEF Entry, RevokeStep
<1>3. ids \subseteq DOMAIN attestations /\ DOMAIN mirror = DOMAIN attestations
  BY <1>2 DEF Edit, FeedDeterminesRecords
<1>4. ASSUME NEW id \in ids
      PROVE  Mirrors(mirror'[id], attestations'[id], Append(auditLog[id], e))
  <2>1. /\ id \in DOMAIN mirror /\ auditLog[id] \in Seq(AuditEntry)
        /\ Mirrors(mirror[id], attestations[id], auditLog[id])
        /\ mirror[id] \in MirrorRow
    BY <1>3, RowBefore
  <2>2. /\ Kept(id) /\ attestations'[id].revoked
        /\ attestations'[id].deleted = attestations[id].deleted
        /\ attestations'[id].issuer = attestations[id].issuer
        /\ attestations'[id].expiration = attestations[id].expiration
    BY RevokeFields
  <2>3. attestations'[id].revoked = TRUE
    BY <2>2, <1>3, MarkFields DEF RevokeStep, TypeOK, LedgerTypeOK
  <2>4. mirror'[id] = [mirror[id] EXCEPT !.revoked = TRUE]
    BY <2>1 DEF attestation_revoked
  <2>5. PICK r : r = [mirror[id] EXCEPT !.revoked = TRUE]
    OBVIOUS
  <2>6. /\ r \in MirrorRow /\ r.issuer = mirror[id].issuer /\ r.subject = mirror[id].subject
        /\ r.claimType = mirror[id].claimType /\ r.expiration = mirror[id].expiration
        /\ r.revoked = TRUE /\ r.deleted = mirror[id].deleted
    BY <2>1, <2>5, RowFields
  <2>7. Mirrors(r, attestations'[id], Append(auditLog[id], e))
    <3>1. /\ r.issuer = attestations'[id].issuer /\ r.subject = attestations'[id].subject
          /\ r.claimType = attestations'[id].claimType
          /\ r.revoked = attestations'[id].revoked /\ r.deleted = attestations'[id].deleted
      BY <2>1, <2>2, <2>3, <2>6 DEF Mirrors, Kept
    <3>2. attestations'[id].origin = attestations[id].origin
      BY <2>2 DEF Kept
    <3> QED
      BY <1>2, <2>1, <2>2, <2>6, <3>1, <3>2, RowAfter
  <2> QED
    BY <2>4, <2>5, <2>7
<1>5. /\ DOMAIN mirror' = DOMAIN mirror
      /\ \A id \in DOMAIN mirror \ ids : mirror'[id] = mirror[id]
  BY DEF attestation_revoked
<1> QED
  BY <1>2, <1>4, <1>5, EditRecords

LEMMA RenewRecords ==
    ASSUME TypeOK, AuditExplainsRecord, FeedDeterminesRecords,
           NEW i \in Issuers, NEW id, NEW x, NEW action, NEW details,
           RenewStep(i, id, x, action, details), attestation_renewed(id, x)
    PROVE  FeedDeterminesRecords'
<1>1. PICK e : e = Entry(action, i, now, details)
  OBVIOUS
<1>2. e \in AuditEntry /\ Edit({id}, e) /\ x \in OptionTime
  <2>1. e \in AuditEntry
    BY <1>1, EntryType DEF AuditAction, TypeOK, LedgerTypeOK, Actors, Owners, RenewStep
  <2> QED
    BY <1>1, <2>1 DEF RenewStep
<1>3. /\ id \in DOMAIN attestations /\ Kept(id)
      /\ ~attestations[id].revoked /\ ~attestations'[id].revoked
      /\ attestations'[id].deleted = attestations[id].deleted
      /\ attestations'[id].issuer = attestations[id].issuer
      /\ attestations'[id].expiration = x
  BY RenewFields
<1>4. /\ id \in DOMAIN mirror /\ auditLog[id] \in Seq(AuditEntry)
      /\ Mirrors(mirror[id], attestations[id], auditLog[id])
      /\ mirror[id] \in MirrorRow /\ attestations[id] \in Attestation
  BY <1>3, RowBefore
<1>5. attestations'[id].revoked = attestations[id].revoked
  <2>1. attestations'[id] = [attestations[id] EXCEPT !.expiration = x]
    BY DEF RenewStep
  <2> QED
    BY <1>4, <2>1, ChangeFields
<1>6. PICK r : r = [mirror[id] EXCEPT !.expiration = x]
  OBVIOUS
<1>7. /\ r \in MirrorRow /\ r.issuer = mirror[id].issuer /\ r.subject = mirror[id].subject
      /\ r.claimType = mirror[id].claimType /\ r.expiration = x
      /\ r.revoked = mirror[id].revoked /\ r.deleted = mirror[id].deleted
  BY <1>2, <1>4, <1>6, RowFields, ZenonT(30)
<1>8. Mirrors(r, attestations'[id], Append(auditLog[id], e))
  <2>1. /\ r.issuer = attestations'[id].issuer /\ r.subject = attestations'[id].subject
        /\ r.claimType = attestations'[id].claimType
        /\ r.revoked = attestations'[id].revoked /\ r.deleted = attestations'[id].deleted
        /\ r.expiration = attestations'[id].expiration
    BY <1>3, <1>4, <1>5, <1>7 DEF Mirrors, Kept
  <2> QED
    BY <1>2, <1>4, <1>7, <2>1, RowAfter
<1>9. /\ DOMAIN mirror' = DOMAIN mirror
      /\ \A other \in DOMAIN mirror \ {id} : mirror'[other] = mirror[other]
      /\ mirror'[id] = r
  BY <1>4, <1>6 DEF attestation_renewed
<1> QED
  BY <1>2, <1>8, <1>9, EditRecords

LEMMA TransferRecords ==
    ASSUME TypeOK, AuditExplainsRecord, FeedDeterminesRecords,
           NEW a \in Admins, NEW i \in Issuers, NEW id, NEW old,
           TransferStep(a, id, i), attestation_transferred(id, old, i)
    PROVE  FeedDeterminesRecords'
<1>1. PICK e : e = Entry("Transferred", a, now, i)
  OBVIOUS
<1>2. e \in AuditEntry /\ e.action = "Transferred" /\ Edit({id}, e)
  <2>1. e \in AuditEntry
    BY <1>1, EntryType DEF AuditAction, TypeOK, LedgerTypeOK, Actors, Owners
  <2> QED
    BY <1>1, <2>1 DEF Entry, TransferStep
<1>3. /\ id \in DOMAIN attestations /\ Kept(id)
      /\ attestations'[id].revoked = attestations[id].revoked
      /\ attestations'[id].deleted = attestations[id].deleted
      /\ attestations'[id].issuer = i
      /\ attestations'[id].expiration = attestations[id].expiration
  BY TransferFields
<1>4. /\ id \in DOMAIN mirror /\ auditLog[id] \in Seq(AuditEntry)
      /\ Mirrors(mirror[id], attestations[id], auditLog[id])
      /\ mirror[id] \in MirrorRow
  BY <1>3, RowBefore
<1>5. PICK r : r = [mirror[id] EXCEPT !.issuer = i]
  OBVIOUS
<1>6. /\ r \in MirrorRow /\ r.issuer = i /\ r.subject = mirror[id].subject
      /\ r.claimType = mirror[id].claimType /\ r.expiration = mirror[id].expiration
      /\ r.revoked = mirror[id].revoked /\ r.deleted = mirror[id].deleted
  <2>1. i \in Owners
    BY DEF Owners
  <2> QED
    BY <1>4, <1>5, <2>1, RowFields, ZenonT(30)
<1>7. Mirrors(r, attestations'[id], Append(auditLog[id], e))
  <2>1. /\ r.issuer = attestations'[id].issuer /\ r.subject = attestations'[id].subject
        /\ r.claimType = attestations'[id].claimType
        /\ r.revoked = attestations'[id].revoked /\ r.deleted = attestations'[id].deleted
    BY <1>3, <1>4, <1>6 DEF Mirrors, Kept
  <2>2. attestations'[id].origin = attestations[id].origin
    BY <1>3 DEF Kept
  <2> QED
    BY <1>2, <1>3, <1>4, <1>6, <2>1, <2>2, RowAfter
<1>8. /\ DOMAIN mirror' = DOMAIN mirror
      /\ \A other \in DOMAIN mirror \ {id} : mirror'[other] = mirror[other]
      /\ mirror'[id] = r
  BY <1>4, <1>5 DEF attestation_transferred
<1> QED
  BY <1>2, <1>7, <1>8, EditRecords

LEMMA DeleteRecords ==
    ASSUME TypeOK, AuditExplainsRecord, FeedDeterminesRecords,
           NEW s \in Subjects, NEW id, DeleteStep(s, id), deletion_requested(id)
    PROVE  FeedDeterminesRecords'
<1>1. PICK e : e = Entry("Deleted", s, now, None)
  OBVIOUS
<1>2. e \in AuditEntry /\ e.action = "Deleted" /\ Edit({id}, e)
  <2>1. e \in AuditEntry
    BY <1>1, EntryType DEF AuditAction, TypeOK, LedgerTypeOK, Actors, OptionTime
  <2> QED
    BY <1>1, <2>1 DEF Entry, DeleteStep
<1>3. /\ id \in DOMAIN attestations /\ Kept(id)
      /\ attestations'[id].revoked = attestations[id].revoked
      /\ attestations'[id].issuer = attestations[id].issuer
      /\ attestations'[id].expiration = attestations[id].expiration
  BY DeleteFields
<1>4. /\ id \in DOMAIN mirror /\ auditLog[id] \in Seq(AuditEntry)
      /\ Mirrors(mirror[id], attestations[id], auditLog[id])
      /\ mirror[id] \in MirrorRow /\ attestations[id] \in Attestation
  BY <1>3, RowBefore
<1>5. attestations'[id].deleted = TRUE
  <2>1. attestations'[id] = [attestations[id] EXCEPT !.deleted = TRUE]
    BY DEF DeleteStep
  <2> QED
    BY <1>4, <2>1, MarkFields
<1>6. PICK r : r = [mirror[id] EXCEPT !.deleted = TRUE]
  OBVIOUS
<1>7. /\ r \in MirrorRow /\ r.issuer = mirror[id].issuer /\ r.subject = mirror[id].subject
      /\ r.claimType = mirror[id].claimType /\ r.expiration = mirror[id].expiration
      /\ r.revoked = mirror[id].revoked /\ r.deleted = TRUE
  BY <1>4, <1>6, RowFields
<1>8. Mirrors(r, attestations'[id], Append(auditLog[id], e))
  <2>1. /\ r.issuer = attestations'[id].issuer /\ r.subject = attestations'[id].subject
        /\ r.claimType = attestations'[id].claimType
        /\ r.revoked = attestations'[id].revoked /\ r.deleted = attestations'[id].deleted
    BY <1>3, <1>4, <1>5, <1>7 DEF Mirrors, Kept
  <2>2. attestations'[id].origin = attestations[id].origin
    BY <1>3 DEF Kept
  <2> QED
    BY <1>2, <1>3, <1>4, <1>7, <2>1, <2>2, RowAfter
<1>9. /\ DOMAIN mirror' = DOMAIN mirror
      /\ \A other \in DOMAIN mirror \ {id} : mirror'[other] = mirror[other]
      /\ mirror'[id] = r
  BY <1>4, <1>6 DEF deletion_requested
<1> QED
  BY <1>2, <1>8, <1>9, EditRecords

\* Every step with its event leaves the mirror right.
LEMMA NextRecords ==
    ASSUME TypeOK, AuditExplainsRecord, FeedDeterminesRecords, [FeedNext]_feedVars
    PROVE  FeedDeterminesRecords'
<1>1. ASSUME UNCHANGED <<attestations, auditLog, mirror>> PROVE FeedDeterminesRecords'
  <2>1. /\ DOMAIN mirror = DOMAIN attestations
        /\ \A id \in DOMAIN attestations :
              Mirrors(mirror[id], attestations[id], auditLog[id])
    BY RecordsByRow
  <2> QED
    BY <1>1, <2>1, RecordsByRowPrimed
<1>2. ASSUME Issue, IssueEvent PROVE FeedDeterminesRecords'
  <2>1. CASE (\A id \in New : attestations'[id].origin = "Native") /\ attestation_created
    <3> DEFINE ex == [id \in New |-> Unknown]
    <3>1. mirror' = [id \in DOMAIN mirror \cup New |->
             IF id \in New THEN NewRow(attestations'[id], ex[id]) ELSE mirror[id]]
      BY <2>1 DEF attestation_created, Announce
    <3>2. \A id \in New : ex[id] = Unknown
      OBVIOUS
    <3> HIDE DEF ex
    <3> QED
      BY <1>2, <2>1, <3>1, <3>2, AnnounceRecords
  <2>2. CASE (\A id \in New : attestations'[id].origin = "Bridged") /\ attestation_bridged
    <3> DEFINE ex == [id \in New |-> None]
    <3>1. mirror' = [id \in DOMAIN mirror \cup New |->
             IF id \in New THEN NewRow(attestations'[id], ex[id]) ELSE mirror[id]]
      BY <2>2 DEF attestation_bridged, Announce
    <3>2. \A id \in New : ex[id] = attestations'[id].expiration
      BY <1>2, <2>2, NewIsSourced DEF Sourced
    <3> HIDE DEF ex
    <3> QED
      BY <1>2, <3>1, <3>2, AnnounceRecords
  <2> QED
    BY <1>2, <2>1, <2>2 DEF IssueEvent
<1>3. ASSUME Import, attestation_imported PROVE FeedDeterminesRecords'
  <2> DEFINE ex == [id \in New |-> attestations'[id].expiration]
  <2>1. mirror' = [id \in DOMAIN mirror \cup New |->
           IF id \in New THEN NewRow(attestations'[id], ex[id]) ELSE mirror[id]]
    BY <1>3 DEF attestation_imported, Announce
  <2>2. \A id \in New : ex[id] = attestations'[id].expiration
    OBVIOUS
  <2> HIDE DEF ex
  <2> QED
    BY <1>3, <2>1, <2>2, AnnounceRecords
<1>4. ASSUME IssueBatch, attestation_created PROVE FeedDeterminesRecords'
  <2> DEFINE ex == [id \in New |-> Unknown]
  <2>1. mirror' = [id \in DOMAIN mirror \cup New |->
           IF id \in New THEN NewRow(attestations'[id], ex[id]) ELSE mirror[id]]
    BY <1>4 DEF attestation_created, Announce
  <2>2. \A id \in New : ex[id] = Unknown /\ attestations'[id].origin = "Native"
    BY <1>4, BatchIsNative
  <2> HIDE DEF ex
  <2> QED
    BY <1>4, <2>1, <2>2, AnnounceRecords
<1>5. ASSUME NEW i \in Issuers, NEW id \in DOMAIN attestations,
             revoke_attestation(i, id), attestation_revoked({id})
      PROVE  FeedDeterminesRecords'
  BY <1>5, RevokeShape, RevokeRecords
<1>6. ASSUME NEW i \in Issuers, NEW id \in DOMAIN attestations,
             endorse_attestation(i, id), UNCHANGED mirror
      PROVE  FeedDeterminesRecords'
  BY <1>1, <1>6 DEF endorse_attestation, ledgerVars
<1>7. ASSUME NEW i \in Issuers, NEW id \in DOMAIN attestations, NEW e \in Expirations,
             renew_attestation(i, id, e) \/ update_expiration(i, id, e),
             attestation_renewed(id, e)
      PROVE  FeedDeterminesRecords'
  BY <1>7, RenewShape, RenewRecords
<1>8. ASSUME NEW a \in Admins, NEW i \in Issuers, NEW id \in DOMAIN attestations,
             transfer_attestation(a, id, i),
             attestation_transferred(id, attestations[id].issuer, i)
      PROVE  FeedDeterminesRecords'
  BY <1>8, TransferShape, TransferRecords
<1>9. ASSUME NEW i \in Issuers, NEW ids \in SUBSET DOMAIN attestations,
             revoke_attestations_batch(i, ids), attestation_revoked(ids)
      PROVE  FeedDeterminesRecords'
  BY <1>9, RevokeBatchShape, RevokeRecords
<1>10. ASSUME NEW s \in Subjects, NEW id \in DOMAIN attestations,
              request_deletion(s, id), deletion_requested(id)
       PROVE  FeedDeterminesRecords'
  BY <1>10, DeleteShape, DeleteRecords
<1>11. CASE AttestationNext
  <2>1. CASE ManageAndPublish
    BY <1>5, <1>6, <1>7, <1>8, <1>9, <2>1 DEF ManageAndPublish
  <2>2. CASE DeleteAndPublish
    BY <1>10, <2>2 DEF DeleteAndPublish
  <2> QED
    BY <1>2, <1>3, <1>4, <1>11, <2>1, <2>2 DEF AttestationNext
<1>12. CASE RegistryAndPublish
  BY <1>1, <1>12 DEF RegistryAndPublish, ledgerVars
<1>13. CASE SilentNext
  BY <1>1, <1>13 DEF SilentNext, CloseLedger, ledgerVars, readerVars
<1>14. CASE UNCHANGED feedVars
  BY <1>1, <1>14 DEF feedVars, vars, ledgerVars, readerVars
<1> QED
  BY <1>11, <1>12, <1>13, <1>14 DEF FeedNext

\* A reader of the events knows every attestation, its owner, its revocation
\* and its deletion, and its expiration unless that is the one a native
\* attestation was created with.
THEOREM EventsTellTheRecords == FeedSpec => []FeedDeterminesRecords
<1>1. FeedInit => FeedDeterminesRecords
  BY DEF FeedInit, Init, LedgerInit, FeedDeterminesRecords
<1>2. TypeOK /\ AuditExplainsRecord /\ FeedDeterminesRecords /\ [FeedNext]_feedVars
         => FeedDeterminesRecords'
  BY NextRecords
<1> QED
  BY <1>1, <1>2, FeedFollowsContract, TypeCorrect, AuditLogExplains, PTL DEF FeedSpec

-----------------------------------------------------------------------------
(* Who may act                                                             *)

\* A claim with a source was attested by a bridge; bridges are never removed.
BridgedIds == \A id \in DOMAIN attestations : id.source # None => id.issuer \in bridges

\* Every step keeps it so.
LEMMA NextBridged == TypeOK /\ BridgedIds /\ [Next]_vars => BridgedIds'
<1> SUFFICES ASSUME TypeOK, BridgedIds, [Next]_vars PROVE BridgedIds'
  OBVIOUS
<1>1. bridges \subseteq bridges'
  <2>1. CASE RegistryNext
    BY <2>1 DEF RegistryNext, register_issuer, remove_issuer, register_bridge, add_bridge,
                pause, unpause
  <2>2. CASE UNCHANGED registryVars
    BY <2>2 DEF registryVars
  <2>3. RegistryNext \/ UNCHANGED registryVars
    BY StepSurroundings
  <2> QED
    BY <2>1, <2>2, <2>3
<1>2. CASE Issue \/ Import \/ IssueBatch
  <2>1. \A id \in New : Sourced(id, attestations'[id])
    BY <1>2, NewIsSourced
  <2> QED
    BY <1>1, <2>1 DEF BridgedIds, Sourced, New
<1>3. ASSUME DOMAIN attestations' = DOMAIN attestations PROVE BridgedIds'
  BY <1>1, <1>3 DEF BridgedIds
<1>4. CASE Manage \/ Delete
  <2>1. PICK ids, entry : Edit(ids, entry) \/ UNCHANGED attestations
    BY <1>4, RevokeShape, RevokeBatchShape, RenewShape, TransferShape, DeleteShape, ZenonT(30)
    DEF Manage, Delete, RevokeStep, RenewStep, TransferStep, DeleteStep,
        endorse_attestation, ledgerVars
  <2> QED
    BY <1>3, <2>1 DEF Edit
<1>5. CASE \/ RegistryNext /\ UNCHANGED <<ledgerVars, policyVars, endorsements>>
           \/ PolicyNext /\ UNCHANGED <<ledgerVars, registryVars, endorsements>>
           \/ CloseLedger \/ UNCHANGED vars
  BY <1>3, <1>5 DEF CloseLedger, vars, ledgerVars
<1> QED
  BY <1>2, <1>4, <1>5 DEF Next

LEMMA BridgedIdsHold == Spec => []BridgedIds
<1>1. Init => BridgedIds
  BY DEF Init, LedgerInit, BridgedIds
<1> QED
  BY <1>1, NextBridged, TypeCorrect, PTL DEF Spec

\* What the reader knows of the issuers and the pause flag.
KnownExact == known = [issuers |-> issuers, paused |-> paused]

\* Every registration, removal and pause is told.
LEMMA NextKnown == TypeOK /\ KnownExact /\ [FeedNext]_feedVars => KnownExact'
<1> SUFFICES ASSUME TypeOK, KnownExact, [FeedNext]_feedVars PROVE KnownExact'
  OBVIOUS
<1>1. ASSUME UNCHANGED <<issuers, paused, known>> PROVE KnownExact'
  BY <1>1 DEF KnownExact
<1>2. CASE RegistryAndPublish
  <2>1. ASSUME NEW i \in Issuers, register_issuer(i), issuer_registered(i) PROVE KnownExact'
    BY <2>1 DEF register_issuer, issuer_registered, add_issuer, KnownExact
  <2>2. ASSUME NEW i \in RemovableIssuers, remove_issuer(i), issuer_removed(i)
        PROVE  KnownExact'
    BY <2>2 DEF remove_issuer, issuer_removed, KnownExact
  <2>3. ASSUME NEW b \in Bridges, register_bridge(b), UNCHANGED known PROVE KnownExact'
    BY <2>3 DEF register_bridge, KnownExact
  <2>4. ASSUME NEW r, pause(r), contract_paused PROVE KnownExact'
    BY <2>4 DEF pause, contract_paused, KnownExact
  <2>5. ASSUME unpause, contract_unpaused PROVE KnownExact'
    BY <2>5 DEF unpause, contract_unpaused, KnownExact
  <2> QED
    BY <1>2, <2>1, <2>2, <2>3, <2>4, <2>5 DEF RegistryAndPublish
<1>3. ASSUME UNCHANGED registryVars, UNCHANGED known PROVE KnownExact'
  BY <1>1, <1>3 DEF registryVars
<1>4. CASE AttestationNext
  <2>1. CASE Issue \/ Import \/ IssueBatch
    <3>1. UNCHANGED registryVars
      BY <2>1, IssuanceStores DEF Stored
    <3> QED
      BY <1>3, <1>4, <3>1 DEF AttestationNext
  <2>2. CASE ManageAndPublish \/ DeleteAndPublish
    <3>1. UNCHANGED registryVars
      BY <2>2, RevokeShape, RevokeBatchShape, RenewShape, TransferShape, DeleteShape
      DEF ManageAndPublish, DeleteAndPublish, RevokeStep, RenewStep, TransferStep,
          DeleteStep, endorse_attestation, Edit
    <3> QED
      BY <1>3, <1>4, <3>1 DEF AttestationNext
  <2> QED
    BY <1>4, <2>1, <2>2 DEF AttestationNext
<1>5. CASE SilentNext
  BY <1>3, <1>5 DEF SilentNext, CloseLedger, readerVars
<1>6. CASE UNCHANGED feedVars
  BY <1>3, <1>6 DEF feedVars, vars, readerVars
<1> QED
  BY <1>2, <1>4, <1>5, <1>6 DEF FeedNext

LEMMA KnownIsExact == FeedSpec => []KnownExact
<1>1. FeedInit => KnownExact
  BY DEF FeedInit, Init, RegistryInit, KnownExact
<1> QED
  BY <1>1, NextKnown, FeedFollowsContract, TypeCorrect, PTL DEF FeedSpec

\* A reader of the events knows who is an issuer and whether the contract is
\* paused, and with the records which attestations have an owner that may
\* still change them.
THEOREM EventsTellWhoMayAct == FeedSpec => []FeedDeterminesAuthority
<1>1. ASSUME RolesDisjoint, KnownExact, FeedDeterminesRecords, BridgedIds
      PROVE  FeedDeterminesAuthority
  <2>1. \A id \in DOMAIN attestations : mirror[id].issuer = attestations[id].issuer
    BY <1>1, RecordsByRow DEF Mirrors
  <2>2. known = [issuers |-> issuers, paused |-> paused] /\ known.issuers = issuers
    BY <1>1 DEF KnownExact
  <2> QED
    BY <1>1, <2>1, <2>2 DEF FeedDeterminesAuthority, BridgedIds, require_issuer
<1> QED
  BY <1>1, FeedFollowsContract, RolesAreDisjoint, BridgedIdsHold, KnownIsExact,
     EventsTellTheRecords, PTL
-----------------------------------------------------------------------------
(* Proposals and requests, while the entry points of Attestations run      *)
(* beside them on the same storage.  store_attestation is called here      *)
(* without a look at what the id holds, so that nothing of what            *)
(* HistoryProofs shows about records is used; what is used is how a step   *)
(* of Attestations can change them (StepShape).                            *)

ProposalIds ==
    [proposer : Issuers, subject : Subjects, claimType : ClaimTypes, timestamp : Nat]
ProposalRecords ==
    [required : Seq(Issuers), threshold : Nat, signers : Seq(Issuers),
     expiresAt : Nat, finalized : BOOLEAN]
RequestIds ==
    [subject : Subjects, issuer : Issuers, claimType : ClaimTypes, timestamp : Nat]
RequestRecords ==
    [expiresAt : Nat, status : {"Pending", "Fulfilled", "Rejected", "Cancelled"}]

-----------------------------------------------------------------------------
(* What the steps do to the records *)

LEMMA WithEntry ==
    ASSUME NEW map, NEW key, NEW value
    PROVE  /\ DOMAIN With(map, key, value) = DOMAIN map \cup {key}
           /\ With(map, key, value)[key] = value
           /\ \A k \in DOMAIN map : k # key => With(map, key, value)[k] = map[k]
BY DEF With

\* Records stay, and ids go on describing them.
RecordsKept ==
    /\ TypeOK'
    /\ DOMAIN attestations \subseteq DOMAIN attestations'
    /\ IdsDescribeRecords => IdsDescribeRecords'

\* What holds of the records when the id is new or old.
LEMMA UnauditedKeeps ==
    ASSUME TypeOK, NEW id \in Ids, NEW a \in Attestation, StoreUnaudited(id, a),
           a.subject = id.subject, a.claimType = id.claimType, a.timestamp = id.timestamp
    PROVE  /\ RecordsKept
           /\ now' = now
           /\ id \in DOMAIN attestations' /\ attestations'[id] = a
<1> DEFINE new == [x \in {id} |-> a]
<1>0. a.issuer \in Owners
  BY DEF Attestation
<1>1. /\ store_attestations(a.issuer, new)
      /\ UNCHANGED <<now, auditLog, registryVars, policyVars, endorsements>>
  BY DEF StoreUnaudited, store_attestation
<1>2. DOMAIN new = {id} /\ new[id] = a
  OBVIOUS
<1> HIDE DEF new
<1>3. /\ DOMAIN attestations' = DOMAIN attestations \cup {id}
      /\ attestations'[id] = a
      /\ \A x \in DOMAIN attestations : x # id => attestations'[x] = attestations[x]
  BY <1>1, <1>2, SetRecords DEF store_attestations
<1>4. /\ DOMAIN attestations' \subseteq Ids
      /\ \A x \in DOMAIN attestations' : attestations'[x] \in Attestation
  BY <1>3 DEF TypeOK, LedgerTypeOK
<1>5. IsFiniteSet(DOMAIN attestations')
  <2>1. IsFiniteSet(DOMAIN attestations)
    BY DEF TypeOK, LedgerTypeOK
  <2> QED
    BY <1>3, <2>1, FS_AddElement
<1>6. /\ IsIndex(subjectIndex', Subjects)
      /\ IsIndex(validIndex', Subjects)
      /\ IsIndex(subjectChunks', Subjects)
  <2> DEFINE about(s) == {x \in DOMAIN new : new[x].subject = s}
  <2>1. \A s \in Subjects : about(s) \in SUBSET Ids
    BY <1>2
  <2>2. /\ subjectIndex' = [s \in Subjects |-> Push(subjectIndex[s], about(s))]
        /\ validIndex' = [s \in Subjects |-> Push(validIndex[s], about(s))]
        /\ subjectChunks' = [s \in Subjects |-> Push(subjectChunks[s], about(s))]
    BY <1>1 DEF store_attestations
  <2>3. /\ IsIndex(subjectIndex, Subjects) /\ IsIndex(validIndex, Subjects)
        /\ IsIndex(subjectChunks, Subjects)
    BY DEF TypeOK, LedgerTypeOK
  <2> HIDE DEF about
  <2> QED
    BY <2>1, <2>2, <2>3, PushIndexType
<1>7. /\ IsIndex(issuerIndex', Owners)
      /\ IsIndex(issuerChunks', Owners)
  <2>1. /\ issuerIndex' = [issuerIndex EXCEPT ![a.issuer] = Push(@, DOMAIN new)]
        /\ issuerChunks' = [issuerChunks EXCEPT ![a.issuer] = Push(@, DOMAIN new)]
    BY <1>1 DEF store_attestations
  <2>2. /\ IsIndex(issuerIndex, Owners) /\ DOMAIN issuerIndex = Owners
        /\ IsIndex(issuerChunks, Owners) /\ DOMAIN issuerChunks = Owners
        /\ DOMAIN new \in SUBSET Ids
    BY <1>2 DEF TypeOK, LedgerTypeOK, IsIndex
  <2> QED
    BY <1>0, <2>1, <2>2, PushIndexType
<1>8. /\ issuerStats' \in [Owners -> Nat]
      /\ globalStats' \in [total_attestations : Nat, total_revocations : Nat]
  <2>1. Cardinality(DOMAIN new) = 1
    BY <1>2, FS_Singleton
  <2>2. /\ issuerStats' = [issuerStats EXCEPT ![a.issuer] = @ + 1]
        /\ globalStats' = [globalStats EXCEPT !.total_attestations = @ + 1]
    BY <1>1, <2>1 DEF store_attestations
  <2> QED
    BY <1>0, <2>2 DEF TypeOK, LedgerTypeOK
<1>9. LedgerTypeOK'
  BY <1>1, <1>4, <1>5, <1>6, <1>7, <1>8 DEF TypeOK, LedgerTypeOK
<1>10. RegistryTypeOK'
  BY <1>1 DEF TypeOK, RegistryTypeOK, registryVars
<1>11. PolicyTypeOK'
  BY <1>1 DEF TypeOK, PolicyTypeOK, policyVars, rateVars, whitelistVars, claimVars,
              delegationVars
<1>12. TypeOK'
  BY <1>1, <1>3, <1>9, <1>10, <1>11 DEF TypeOK
<1>13. IdsDescribeRecords => IdsDescribeRecords'
  BY <1>3 DEF IdsDescribeRecords
<1> QED
  BY <1>1, <1>3, <1>12, <1>13 DEF RecordsKept

\* The other entry points, whichever, keep the records.
LEMMA NextKeepsRecords == ASSUME TypeOK, [Next]_vars PROVE RecordsKept
<1>1. TypeOK'
  BY NextTypeOK
<1> DEFINE Goal == /\ DOMAIN attestations \subseteq DOMAIN attestations'
                   /\ IdsDescribeRecords => IdsDescribeRecords'
<1>2. ASSUME NEW ids, NEW entry, Edit(ids, entry), \A id \in ids : Kept(id)
      PROVE  Goal
  BY <1>2 DEF Edit, Kept, IdsDescribeRecords
<1>3. ASSUME NEW owner, NEW new, NEW actor, NEW timestamp,
             Stored(owner, new, actor, timestamp)
      PROVE  Goal
  <2>1. \A id \in DOMAIN new :
           /\ new[id].subject = id.subject
           /\ new[id].claimType = id.claimType
           /\ new[id].timestamp = id.timestamp
    BY <1>3 DEF Stored
  <2>2. /\ DOMAIN attestations' = DOMAIN attestations \cup DOMAIN new
        /\ \A id \in DOMAIN new : attestations'[id] = new[id]
        /\ \A id \in DOMAIN attestations : attestations'[id] = attestations[id]
    <3>1. Added(owner, new)
      BY <1>3, StoredRecords
    <3> QED
      BY <3>1 DEF Added
  <2> QED
    BY <2>1, <2>2 DEF IdsDescribeRecords
<1>4. ASSUME NEW i \in Issuers, NEW ids, RevokeStep(i, ids) PROVE Goal
  BY <1>2, <1>4, RevokeFields DEF RevokeStep
<1>5. ASSUME NEW i \in Issuers, NEW x, NEW e, NEW action, NEW details,
             RenewStep(i, x, e, action, details)
      PROVE  Goal
  BY <1>2, <1>5, RenewFields DEF RenewStep
<1>6. ASSUME NEW a \in Admins, NEW i \in Issuers, NEW x, TransferStep(a, x, i)
      PROVE  Goal
  BY <1>2, <1>6, TransferFields DEF TransferStep
<1>7. ASSUME NEW s \in Subjects, NEW x, DeleteStep(s, x) PROVE Goal
  BY <1>2, <1>7, DeleteFields DEF DeleteStep
<1>8. ASSUME QuietStep PROVE Goal
  <2>1. attestations' = attestations
    BY <1>8 DEF QuietStep
  <2> QED
    BY <2>1 DEF IdsDescribeRecords
<1> HIDE DEF Goal
<1>9. Goal
  BY <1>3, <1>4, <1>5, <1>6, <1>7, <1>8, StepShape DEF Shape
<1> QED
  BY <1>1, <1>9 DEF RecordsKept, Goal

LEMMA UnchangedKeepsRecords == ASSUME TypeOK, UNCHANGED vars PROVE RecordsKept /\ now' = now
<1>1. now' = now
  BY DEF vars, ledgerVars
<1> QED
  BY <1>1, NextKeepsRecords

-----------------------------------------------------------------------------
(* The inductive invariant *)

\* What FinalizedIsSigned says of one proposal, over the ids stored.
Signed(id, p, stored) ==
    /\ IsInjective(p.signers)
    /\ ToSet(p.signers) \subseteq ToSet(p.required) \cup {id.proposer}
    /\ p.finalized => Len(p.signers) >= p.threshold /\ ProposedId(id) \in stored

ProposalsSound ==
    /\ DOMAIN proposals \subseteq ProposalIds
    /\ \A id \in DOMAIN proposals : proposals[id] \in ProposalRecords
    /\ \A id \in DOMAIN proposals : Signed(id, proposals[id], DOMAIN attestations)

RequestsSound ==
    /\ DOMAIN requests \subseteq RequestIds
    /\ \A id \in DOMAIN requests : requests[id] \in RequestRecords
    /\ DOMAIN pendingRequests = Issuers
    /\ \A i \in Issuers :
          /\ DOMAIN pendingRequests[i] =
                {id \in DOMAIN requests : id.issuer = i /\ requests[id].status = "Pending"}
          /\ \A id \in DOMAIN pendingRequests[i] : pendingRequests[i][id] = 1

WorkflowInv ==
    /\ TypeOK
    /\ ProposalsSound
    /\ RequestsSound
    /\ premium \subseteq Issuers

\* The invariant gives the properties.
LEMMA InvImplies ==
    WorkflowInv => WorkflowTypeOK /\ PendingListExact /\ FinalizedIsSigned
<1> SUFFICES ASSUME WorkflowInv PROVE WorkflowTypeOK /\ PendingListExact /\ FinalizedIsSigned
  OBVIOUS
<1> USE DEF WorkflowInv
<1>1. PendingListExact
  BY DEF RequestsSound, PendingListExact, get_pending_requests
<1>2. FinalizedIsSigned
  BY DEF ProposalsSound, FinalizedIsSigned, Signed, has_attestation
<1>3. WorkflowTypeOK
  BY DEF ProposalsSound, RequestsSound, WorkflowTypeOK, ProposalIds, ProposalRecords,
         RequestIds, RequestRecords
<1> QED
  BY <1>1, <1>2, <1>3

\* Proposals nobody touches stay sound while records are kept,
LEMMA ProposalsStay ==
    ASSUME WorkflowInv, RecordsKept, UNCHANGED proposals
    PROVE  ProposalsSound'
BY DEF WorkflowInv, RecordsKept, ProposalsSound, Signed

\* and so do the requests.
LEMMA RequestsStay ==
    ASSUME WorkflowInv, UNCHANGED <<requests, pendingRequests>>
    PROVE  RequestsSound' /\ AnswersInTime
<1>1. RequestsSound'
  BY DEF WorkflowInv, RequestsSound
<1>2. AnswersInTime
  BY DEF AnswersInTime
<1> QED
  BY <1>1, <1>2

LEMMA ProposedTyped ==
    ASSUME NEW id \in ProposalIds
    PROVE  /\ ProposedId(id) \in Ids /\ Proposed(id) \in Attestation
           /\ Proposed(id).subject = ProposedId(id).subject
           /\ Proposed(id).claimType = ProposedId(id).claimType
           /\ Proposed(id).timestamp = ProposedId(id).timestamp
           /\ ProposedId(id).subject = id.subject
           /\ ProposedId(id).claimType = id.claimType
           /\ ProposedId(id).timestamp = id.timestamp
<1>1. id.proposer \in Owners /\ None \in OptionTime
  BY DEF ProposalIds, Owners, OptionTime
<1> QED
  BY <1>1 DEF ProposalIds, ProposedId, Proposed, generate_id, NewAttestation, Ids, Attestation

\* propose_attestation, with the premium shortcut.
LEMMA ProposeKeeps ==
    ASSUME WorkflowInv, NEW i \in Issuers, NEW s \in Subjects, NEW c \in ClaimTypes,
           NEW r \in SignerLists, NEW t \in 0..(Len(r) + 1), propose_attestation(i, s, c, r, t)
    PROVE  WorkflowInv' /\ AnswersInTime /\ RecordsKept
<1>0. TypeOK /\ now \in Nat /\ r \in Seq(Issuers) /\ t \in Nat /\ ProposalTTL \in Nat
  BY WorkflowAssumption DEF WorkflowInv, TypeOK, LedgerTypeOK
<1>1. PICK id : id = ProposalId(i, s, c, now)
  OBVIOUS
<1>2. id \in ProposalIds /\ id.proposer = i
  BY <1>0, <1>1 DEF ProposalId, ProposalIds
<1>3. CASE SkipsSignatures(i, c)
  <2>1. StoreUnaudited(ProposedId(id), Proposed(id)) /\ UNCHANGED workflowVars
    BY <1>1, <1>3 DEF propose_attestation
  <2>2. RecordsKept
    BY <1>0, <1>2, <2>1, ProposedTyped, UnauditedKeeps
  <2> QED
    BY <2>1, <2>2, ProposalsStay, RequestsStay DEF WorkflowInv, RecordsKept, workflowVars
<1>4. CASE ~SkipsSignatures(i, c)
  <2>1. PICK p : p = [required |-> r, threshold |-> t, signers |-> <<i>>,
                      expiresAt |-> now + ProposalTTL, finalized |-> FALSE]
    OBVIOUS
  <2>2. /\ proposals' = With(proposals, id, p)
        /\ UNCHANGED <<vars, requests, pendingRequests, premium>>
    BY <1>1, <1>4, <2>1 DEF propose_attestation
  <2>3. RecordsKept
    BY <1>0, <2>2, UnchangedKeepsRecords
  <2>4. p \in ProposalRecords
    <3>1. <<i>> \in Seq(Issuers) /\ now + ProposalTTL \in Nat /\ FALSE \in BOOLEAN
      BY <1>0
    <3> QED
      BY <1>0, <2>1, <3>1, Zenon DEF ProposalRecords
  <2>5. \A stored : Signed(id, p, stored)
    BY <1>2, <2>1 DEF Signed, IsInjective, ToSet
  <2>6. /\ DOMAIN proposals' = DOMAIN proposals \cup {id} /\ proposals'[id] = p
        /\ \A k \in DOMAIN proposals : k # id => proposals'[k] = proposals[k]
    <3>1. proposals' = With(proposals, id, p)
      BY <2>2
    <3> QED
      BY <3>1 DEF With
  <2>7. ProposalsSound'
    <3>1. /\ DOMAIN proposals' \subseteq ProposalIds
          /\ \A k \in DOMAIN proposals' : proposals'[k] \in ProposalRecords
      BY <1>2, <2>4, <2>6 DEF WorkflowInv, ProposalsSound
    <3>2. \A k \in DOMAIN proposals : Signed(k, proposals[k], DOMAIN attestations')
      BY <2>3 DEF WorkflowInv, ProposalsSound, RecordsKept, Signed
    <3>3. \A k \in DOMAIN proposals' : Signed(k, proposals'[k], DOMAIN attestations')
      BY <2>5, <2>6, <3>2
    <3> QED
      BY <3>1, <3>3 DEF ProposalsSound
  <2> QED
    BY <2>2, <2>3, <2>7, RequestsStay DEF WorkflowInv, RecordsKept
<1> QED
  BY <1>3, <1>4

\* cosign_attestation, with the signature that completes a proposal.
LEMMA CosignKeeps ==
    ASSUME WorkflowInv, NEW i \in Issuers, NEW id \in DOMAIN proposals,
           cosign_attestation(i, id)
    PROVE  WorkflowInv' /\ AnswersInTime /\ RecordsKept
<1>0. /\ TypeOK /\ id \in ProposalIds
      /\ proposals[id] \in ProposalRecords
      /\ Signed(id, proposals[id], DOMAIN attestations)
  BY DEF WorkflowInv, ProposalsSound
<1>1. PICK p : p = proposals[id]
  OBVIOUS
<1>2. PICK signers : signers = Append(p.signers, i)
  OBVIOUS
<1>3. PICK complete \in BOOLEAN : complete = (Len(signers) >= p.threshold)
  <2>1. (Len(signers) >= p.threshold) \in BOOLEAN
    OBVIOUS
  <2> QED
    BY <2>1, Zenon
<1>new. PICK new : new = [p EXCEPT !.signers = signers, !.finalized = complete]
  OBVIOUS
<1>4. /\ p.required \in Seq(Issuers) /\ p.signers \in Seq(Issuers) /\ p.threshold \in Nat
      /\ IsInjective(p.signers)
      /\ ToSet(p.signers) \subseteq ToSet(p.required) \cup {id.proposer}
      /\ Contains(p.required, i) /\ ~Contains(p.signers, i)
  BY <1>0, <1>1 DEF ProposalRecords, Signed, cosign_attestation, MayCosign
<1>5. /\ signers \in Seq(Issuers) /\ Len(signers) = Len(p.signers) + 1
      /\ signers[Len(signers)] = i
      /\ \A k \in 1..Len(p.signers) : signers[k] = p.signers[k]
  BY <1>2, <1>4
<1>6. IsInjective(signers)
  BY <1>4, <1>5, SMTT(20) DEF IsInjective, Contains
<1>7. ToSet(signers) \subseteq ToSet(p.required) \cup {id.proposer}
  <2>1. i \in ToSet(p.required)
    BY <1>4 DEF ToSet, Contains
  <2>2. \A k \in 1..Len(p.signers) : p.signers[k] \in ToSet(p.signers)
    BY <1>4 DEF ToSet
  <2>3. \A k \in 1..Len(signers) : signers[k] \in ToSet(p.required) \cup {id.proposer}
    <3> HIDE DEF ToSet
    <3>1. Len(p.signers) \in Nat
      BY <1>4
    <3> QED
      BY <1>4, <1>5, <2>1, <2>2, <3>1, SMTT(30)
  <2> QED
    BY <1>5, <2>3 DEF ToSet
<1>8. /\ new \in ProposalRecords /\ new.signers = signers /\ new.required = p.required
      /\ new.threshold = p.threshold /\ new.finalized = complete
  BY <1>0, <1>1, <1>5, <1>new DEF ProposalRecords
<1>9. /\ proposals' = [proposals EXCEPT ![id] = new]
      /\ UNCHANGED <<requests, pendingRequests, premium>>
      /\ IF complete THEN StoreUnaudited(ProposedId(id), Proposed(id))
                     ELSE UNCHANGED vars
  BY <1>1, <1>2, <1>3, <1>new DEF cosign_attestation
<1>10. RecordsKept /\ (complete => ProposedId(id) \in DOMAIN attestations')
  BY <1>0, <1>9, ProposedTyped, UnauditedKeeps, UnchangedKeepsRecords
<1>11. /\ DOMAIN proposals' = DOMAIN proposals /\ proposals'[id] = new
       /\ \A k \in DOMAIN proposals : k # id => proposals'[k] = proposals[k]
  BY <1>9
<1>12. ProposalsSound'
  <2>1. Signed(id, new, DOMAIN attestations')
    BY <1>3, <1>6, <1>7, <1>8, <1>10 DEF Signed
  <2>2. \A k \in DOMAIN proposals : Signed(k, proposals[k], DOMAIN attestations')
    BY <1>10 DEF WorkflowInv, ProposalsSound, RecordsKept, Signed
  <2>3. \A k \in DOMAIN proposals' : Signed(k, proposals'[k], DOMAIN attestations')
    BY <1>11, <2>1, <2>2
  <2>4. /\ DOMAIN proposals' \subseteq ProposalIds
        /\ \A k \in DOMAIN proposals' : proposals'[k] \in ProposalRecords
    BY <1>8, <1>11 DEF WorkflowInv, ProposalsSound
  <2> QED
    BY <2>3, <2>4 DEF ProposalsSound
<1> QED
  BY <1>9, <1>10, <1>12, RequestsStay DEF WorkflowInv, RecordsKept

\* request_attestation.
LEMMA RequestKeeps ==
    ASSUME WorkflowInv, NEW s \in Requesters, NEW i \in Responders, NEW c \in ClaimTypes,
           request_attestation(s, i, c)
    PROVE  WorkflowInv' /\ AnswersInTime /\ RecordsKept
<1>0. TypeOK /\ now \in Nat /\ i \in Issuers /\ s \in Subjects /\ RequestTTL \in Nat
  BY WorkflowAssumption DEF WorkflowInv, TypeOK, LedgerTypeOK
<1>1. PICK id : id = RequestId(s, i, c, now)
  OBVIOUS
<1>2. id \in RequestIds /\ id.issuer = i
  BY <1>0, <1>1 DEF RequestId, RequestIds
<1>3. PICK r \in RequestRecords : r = [expiresAt |-> now + RequestTTL, status |-> "Pending"]
  <2>1. [expiresAt |-> now + RequestTTL, status |-> "Pending"] \in RequestRecords
    BY <1>0 DEF RequestRecords
  <2> QED
    BY <2>1
<1>4. /\ id \notin DOMAIN requests
      /\ requests' = With(requests, id, r)
      /\ pendingRequests' = [pendingRequests EXCEPT ![i] = Push(@, {id})]
      /\ UNCHANGED <<vars, proposals, premium>>
  BY <1>1, <1>3 DEF request_attestation, add_pending_request
<1>5. /\ DOMAIN requests' = DOMAIN requests \cup {id}
      /\ requests'[id] = r /\ r.status = "Pending"
      /\ \A k \in DOMAIN requests : requests'[k] = requests[k]
  <2>1. requests' = With(requests, id, r) /\ id \notin DOMAIN requests
    BY <1>4
  <2> QED
    BY <1>3, <2>1 DEF With
<1>6. RecordsKept
  BY <1>0, <1>4, UnchangedKeepsRecords
<1>7. RequestsSound'
  <2>0. /\ DOMAIN requests \subseteq RequestIds
        /\ \A k \in DOMAIN requests : requests[k] \in RequestRecords
        /\ DOMAIN pendingRequests = Issuers
        /\ \A j \in Issuers :
              /\ DOMAIN pendingRequests[j] =
                    {k \in DOMAIN requests : k.issuer = j /\ requests[k].status = "Pending"}
              /\ \A k \in DOMAIN pendingRequests[j] : pendingRequests[j][k] = 1
    BY DEF WorkflowInv, RequestsSound
  <2>1. /\ DOMAIN requests' \subseteq RequestIds
        /\ \A k \in DOMAIN requests' : requests'[k] \in RequestRecords
        /\ DOMAIN pendingRequests' = Issuers
    BY <1>2, <1>4, <1>5, <2>0
  <2>2. PICK list : list = Push(pendingRequests[i], {id})
    OBVIOUS
  <2>3. /\ DOMAIN list = DOMAIN pendingRequests[i] \cup {id}
        /\ \A k \in DOMAIN list : list[k] = 1
    <3>1. /\ {id} \cap DOMAIN pendingRequests[i] = {}
          /\ \A k \in DOMAIN pendingRequests[i] : pendingRequests[i][k] \in Nat
      BY <1>0, <1>4, <2>0
    <3>2. DOMAIN list = DOMAIN pendingRequests[i] \cup {id}
      BY <2>2, PushDomain
    <3>3. \A k \in DOMAIN pendingRequests[i] \cup {id} :
             list[k] = IF k \in {id} THEN 1 ELSE pendingRequests[i][k]
      BY <2>2, <3>1, PushCount
    <3> QED
      BY <1>0, <2>0, <3>2, <3>3
  <2>4. pendingRequests'[i] = list /\ \A j \in Issuers \ {i} : pendingRequests'[j] = pendingRequests[j]
    BY <1>0, <1>4, <2>0, <2>2
  <2>5. \A j \in Issuers :
           /\ DOMAIN pendingRequests'[j] =
                 {k \in DOMAIN requests' : k.issuer = j /\ requests'[k].status = "Pending"}
           /\ \A k \in DOMAIN pendingRequests'[j] : pendingRequests'[j][k] = 1
    <3> TAKE j \in Issuers
    <3>1. CASE j = i
      BY <1>2, <1>5, <2>0, <2>3, <2>4, <3>1
    <3>2. CASE j # i
      BY <1>2, <1>5, <2>0, <2>4, <3>2
    <3> QED
      BY <3>1, <3>2
  <2> QED
    BY <2>1, <2>5 DEF RequestsSound
<1>8. AnswersInTime
  <2>1. \A k \in DOMAIN requests : requests'[k] = requests[k]
    BY <1>5
  <2> QED
    BY <2>1 DEF AnswersInTime
<1> QED
  BY <1>4, <1>6, <1>7, <1>8, ProposalsStay DEF WorkflowInv, RecordsKept

\* Answering an open request: it leaves the pending list with its new status, whether
\* fulfill_request, reject_request or cancel_request closes it.
LEMMA CloseKeeps ==
    ASSUME WorkflowInv, NEW id \in DOMAIN requests, Open(id),
           NEW status \in {"Fulfilled", "Rejected", "Cancelled"}, Close(id, status)
    PROVE  /\ RequestsSound'
           /\ UNCHANGED <<proposals, premium>>
           /\ requests[id].status = "Pending"
           /\ DOMAIN requests' = DOMAIN requests
           /\ requests'[id] = [requests[id] EXCEPT !.status = status]
           /\ requests'[id].status = status
           /\ \A k \in DOMAIN requests : k # id => requests'[k] = requests[k]
<1>0. /\ DOMAIN requests \subseteq RequestIds
      /\ \A k \in DOMAIN requests : requests[k] \in RequestRecords
      /\ DOMAIN pendingRequests = Issuers
      /\ \A j \in Issuers :
            /\ DOMAIN pendingRequests[j] =
                  {k \in DOMAIN requests : k.issuer = j /\ requests[k].status = "Pending"}
            /\ \A k \in DOMAIN pendingRequests[j] : pendingRequests[j][k] = 1
  BY DEF WorkflowInv, RequestsSound
<1>1. requests[id] \in RequestRecords /\ id.issuer \in Issuers
  BY <1>0 DEF RequestIds
<1>2. PICK closed : closed = [requests[id] EXCEPT !.status = status]
  OBVIOUS
<1>3. closed \in RequestRecords /\ closed.status = status /\ status # "Pending"
  BY <1>1, <1>2 DEF RequestRecords
<1>4. /\ requests' = [requests EXCEPT ![id] = closed]
      /\ pendingRequests' = [pendingRequests EXCEPT ![id.issuer] = Drop(@, {id})]
      /\ UNCHANGED <<proposals, premium>>
      /\ requests[id].status = "Pending"
  BY <1>2 DEF Close, remove_pending_request, Open
<1>5. /\ DOMAIN requests' = DOMAIN requests
      /\ requests'[id] = closed
      /\ \A k \in DOMAIN requests : k # id => requests'[k] = requests[k]
  BY <1>4
<1>6. /\ DOMAIN requests' \subseteq RequestIds
      /\ \A k \in DOMAIN requests' : requests'[k] \in RequestRecords
      /\ DOMAIN pendingRequests' = Issuers
  BY <1>0, <1>3, <1>4, <1>5
<1>7. ASSUME NEW j \in Issuers
      PROVE  /\ DOMAIN pendingRequests'[j] =
                  {k \in DOMAIN requests' : k.issuer = j /\ requests'[k].status = "Pending"}
             /\ \A k \in DOMAIN pendingRequests'[j] : pendingRequests'[j][k] = 1
  <2>1. CASE j = id.issuer
    <3>1. pendingRequests'[j] = Drop(pendingRequests[j], {id})
      BY <1>0, <1>4, <2>1
    <3>2. /\ DOMAIN pendingRequests'[j] = DOMAIN pendingRequests[j] \ {id}
          /\ \A k \in DOMAIN pendingRequests[j] \ {id} :
                pendingRequests'[j][k] = pendingRequests[j][k]
      BY <3>1 DEF Drop
    <3> QED
      BY <1>0, <1>3, <1>5, <3>2
  <2>2. CASE j # id.issuer
    <3>1. pendingRequests'[j] = pendingRequests[j]
      BY <1>0, <1>4, <2>2
    <3> QED
      BY <1>0, <1>5, <2>2, <3>1
  <2> QED
    BY <2>1, <2>2
<1> QED
  BY <1>2, <1>3, <1>4, <1>5, <1>6, <1>7 DEF RequestsSound

\* An answer other than a fulfilment writes no attestation.
LEMMA AnswerKeeps ==
    ASSUME WorkflowInv, NEW id \in DOMAIN requests, reject_request(id) \/ cancel_request(id)
    PROVE  WorkflowInv' /\ AnswersInTime /\ RecordsKept
<1>1. PICK status \in {"Rejected", "Cancelled"} :
         Open(id) /\ Close(id, status) /\ UNCHANGED vars
  BY DEF reject_request, cancel_request, MayAnswer
<1>2. RecordsKept
  BY <1>1, UnchangedKeepsRecords DEF WorkflowInv
<1>3. /\ RequestsSound'
      /\ UNCHANGED <<proposals, premium>>
      /\ requests[id].status = "Pending"
      /\ requests'[id].status = status
      /\ \A k \in DOMAIN requests : k # id => requests'[k] = requests[k]
  BY <1>1, CloseKeeps
<1>4. AnswersInTime
  BY <1>1, <1>3 DEF AnswersInTime
<1> QED
  BY <1>2, <1>3, <1>4, ProposalsStay DEF WorkflowInv, RecordsKept

\* fulfill_request.
LEMMA FulfillKeeps ==
    ASSUME WorkflowInv, NEW id \in DOMAIN requests, NEW e \in Expirations,
           fulfill_request(id, e)
    PROVE  /\ WorkflowInv' /\ AnswersInTime /\ RecordsKept
           /\ generate_id(id.issuer, id.subject, id.claimType, now) \in Ids
           /\ generate_id(id.issuer, id.subject, id.claimType, now) \in DOMAIN attestations'
           /\ now < requests[id].expiresAt
<1>0. TypeOK /\ now \in Nat /\ id \in RequestIds
  BY DEF WorkflowInv, RequestsSound, TypeOK, LedgerTypeOK
<1>1. PICK new : new = generate_id(id.issuer, id.subject, id.claimType, now)
  OBVIOUS
<1>2. PICK a : a = NewAttestation(id.issuer, id.subject, id.claimType, now, e, None, "Native")
  OBVIOUS
<1>3. /\ new \in Ids /\ a \in Attestation /\ a.issuer = id.issuer
      /\ a.subject = new.subject /\ a.claimType = new.claimType /\ a.timestamp = new.timestamp
      /\ a.subject = id.subject /\ a.claimType = id.claimType
  <2>1. id.issuer \in Owners /\ None \in OptionTime /\ e \in OptionTime
    BY <1>0, PolicyAssumption DEF RequestIds, Owners, OptionTime
  <2> QED
    BY <1>0, <1>1, <1>2, <2>1 DEF RequestIds, generate_id, NewAttestation, Ids, Attestation
<1>4. /\ new \notin DOMAIN attestations
      /\ StoreUnaudited(new, a)
      /\ Open(id) /\ Close(id, "Fulfilled") /\ now < requests[id].expiresAt
  BY <1>1, <1>2 DEF fulfill_request, MayAnswer, Unused, has_attestation
<1>5. RecordsKept /\ new \in DOMAIN attestations' /\ attestations'[new] = a
  BY <1>0, <1>3, <1>4, UnauditedKeeps
<1>6. /\ RequestsSound'
      /\ UNCHANGED <<proposals, premium>>
      /\ requests[id].status = "Pending"
      /\ \A k \in DOMAIN requests : k # id => requests'[k] = requests[k]
  BY <1>4, CloseKeeps
<1>7. AnswersInTime
  <2> SUFFICES ASSUME NEW k \in DOMAIN requests
               PROVE  /\ requests[k].status # "Pending" => requests'[k] = requests[k]
                      /\ requests[k].status = "Pending" /\ requests'[k].status = "Fulfilled" =>
                            /\ now < requests[k].expiresAt
                            /\ \E x \in DOMAIN attestations' \ DOMAIN attestations :
                                  /\ attestations'[x].issuer = k.issuer
                                  /\ attestations'[x].subject = k.subject
                                  /\ attestations'[x].claimType = k.claimType
    BY DEF AnswersInTime
  <2>1. CASE k = id
    BY <1>3, <1>4, <1>5, <1>6, <2>1
  <2>2. CASE k # id
    BY <1>6, <2>2
  <2> QED
    BY <2>1, <2>2
<1> QED
  BY <1>1, <1>3, <1>4, <1>5, <1>6, <1>7, ProposalsStay DEF WorkflowInv, RecordsKept

\* A new tier of an issuer.
LEMMA TierKeeps ==
    ASSUME WorkflowInv, NEW i \in PremiumIssuers, NEW p \in BOOLEAN, set_issuer_tier(i, p)
    PROVE  WorkflowInv' /\ AnswersInTime /\ RecordsKept
<1>1. UNCHANGED <<vars, proposals, requests, pendingRequests>> /\ premium' \subseteq Issuers
  BY WorkflowAssumption DEF set_issuer_tier, WorkflowInv
<1>2. RecordsKept
  BY <1>1, UnchangedKeepsRecords DEF WorkflowInv
<1> QED
  BY <1>1, <1>2, ProposalsStay, RequestsStay DEF WorkflowInv, RecordsKept

\* The entry points of Attestations run beside the workflows.
LEMMA BesideKeeps ==
    ASSUME WorkflowInv, [Next]_vars, UNCHANGED workflowVars
    PROVE  WorkflowInv' /\ AnswersInTime /\ RecordsKept
<1>1. RecordsKept
  BY NextKeepsRecords DEF WorkflowInv
<1> QED
  BY <1>1, ProposalsStay, RequestsStay DEF WorkflowInv, RecordsKept, workflowVars

\* Every step keeps the invariant and answers requests once.
LEMMA WorkflowNextKeeps ==
    ASSUME WorkflowInv, [WorkflowNext]_allVars
    PROVE  WorkflowInv' /\ AnswersInTime
<1>1. CASE [Next]_vars /\ UNCHANGED workflowVars
  BY <1>1, BesideKeeps
<1>2. CASE MultisigStep
  BY <1>2, TierKeeps, ProposeKeeps, CosignKeeps DEF MultisigStep
<1>3. CASE RequestStep
  BY <1>3, RequestKeeps, FulfillKeeps, AnswerKeeps DEF RequestStep
<1> QED
  BY <1>1, <1>2, <1>3 DEF WorkflowNext, allVars

LEMMA WorkflowInitially == WorkflowInit => WorkflowInv
<1> SUFFICES ASSUME WorkflowInit PROVE WorkflowInv
  OBVIOUS
<1>1. TypeOK
  BY InitTypeOK DEF WorkflowInit
<1>2. DOMAIN proposals = {} /\ DOMAIN requests = {} /\ premium = {}
  BY DEF WorkflowInit
<1>3. /\ DOMAIN pendingRequests = Issuers
      /\ \A i \in Issuers : DOMAIN pendingRequests[i] = {}
  BY DEF WorkflowInit, EmptyIndex, EmptyBag, SetToBag
<1>4. ProposalsSound
  BY <1>2 DEF ProposalsSound
<1>5. RequestsSound
  BY <1>2, <1>3 DEF RequestsSound
<1> QED
  BY <1>1, <1>2, <1>4, <1>5 DEF WorkflowInv

LEMMA WorkflowInvariant == WorkflowSpec => []WorkflowInv
<1>1. WorkflowInv /\ [WorkflowNext]_allVars => WorkflowInv'
  BY WorkflowNextKeeps
<1> QED
  BY <1>1, WorkflowInitially, PTL DEF WorkflowSpec

\* The types of the contract's variables survive the workflows, and the
\* variables of the workflows have theirs.
THEOREM WorkflowsTypeCorrect == WorkflowSpec => [](TypeOK /\ WorkflowTypeOK)
<1>1. WorkflowInv => TypeOK /\ WorkflowTypeOK
  BY InvImplies DEF WorkflowInv
<1> QED
  BY <1>1, WorkflowInvariant, PTL

\* The pending list of an issuer is exact under any order of requests,
\* answers and cancellations, for any number of them.
THEOREM PendingListIsExact == WorkflowSpec => []PendingListExact
<1>1. WorkflowInv => PendingListExact
  BY InvImplies
<1> QED
  BY <1>1, WorkflowInvariant, PTL

\* cosign_attestation finalizes with enough different required signers only.
THEOREM FinalizedProposalsAreSigned == WorkflowSpec => []FinalizedIsSigned
<1>1. WorkflowInv => FinalizedIsSigned
  BY InvImplies
<1> QED
  BY <1>1, WorkflowInvariant, PTL

\* A request is answered once, and fulfilled in time by a new attestation.
THEOREM RequestsAreAnsweredOnce == WorkflowSpec => AnsweredOnce
<1>1. WorkflowInv /\ [WorkflowNext]_allVars => [AnswersInTime]_allVars
  BY WorkflowNextKeeps
<1> QED
  BY <1>1, WorkflowInvariant, PTL DEF WorkflowSpec, AnsweredOnce

-----------------------------------------------------------------------------
(* What the events of the workflows tell *)

Published(id, p) ==
    [threshold |-> p.threshold, signatures |-> Len(p.signers),
     attestation |-> IF p.finalized THEN ProposedId(id) ELSE None]

KnowsProposals ==
    /\ DOMAIN knownProposals = DOMAIN proposals
    /\ \A id \in DOMAIN proposals : knownProposals[id] = Published(id, proposals[id])

\* What k tells of the request r, over the ids stored.
Told(id, r, k, stored) ==
    /\ k = [status |-> r.status, expiresAt |-> r.expiresAt, attestation |-> k.attestation]
    /\ k.attestation # None <=> r.status = "Fulfilled"
    /\ k.attestation # None =>
          /\ k.attestation \in stored
          /\ k.attestation.subject = id.subject
          /\ k.attestation.claimType = id.claimType
          /\ k.attestation.timestamp < r.expiresAt

KnowsRequests ==
    /\ DOMAIN knownRequests = DOMAIN requests
    /\ \A id \in DOMAIN requests :
          Told(id, requests[id], knownRequests[id], DOMAIN attestations)

FeedInv == WorkflowInv /\ IdsDescribeRecords /\ KnowsProposals /\ KnowsRequests

\* What the events have told gives the property.
LEMMA FeedInvDetermines == FeedInv => FeedDeterminesWorkflows
<1> SUFFICES ASSUME FeedInv PROVE FeedDeterminesWorkflows
  OBVIOUS
<1>1. ASSUME NEW id \in DOMAIN proposals
      PROVE  /\ knownProposals[id].threshold = proposals[id].threshold
             /\ knownProposals[id].signatures = Len(proposals[id].signers)
             /\ knownProposals[id].attestation =
                   IF proposals[id].finalized THEN ProposedId(id) ELSE None
             /\ proposals[id].finalized =>
                   LET a == attestations[knownProposals[id].attestation]
                   IN  /\ has_attestation(knownProposals[id].attestation)
                       /\ a.subject = id.subject
                       /\ a.claimType = id.claimType
                       /\ a.timestamp = id.timestamp
  <2>1. knownProposals[id] = Published(id, proposals[id])
    BY DEF FeedInv, KnowsProposals
  <2>2. /\ knownProposals[id].threshold = proposals[id].threshold
        /\ knownProposals[id].signatures = Len(proposals[id].signers)
        /\ knownProposals[id].attestation =
              IF proposals[id].finalized THEN ProposedId(id) ELSE None
    BY <2>1 DEF Published
  <2>3. id \in ProposalIds /\ (proposals[id].finalized => ProposedId(id) \in DOMAIN attestations)
    BY DEF FeedInv, WorkflowInv, ProposalsSound, Signed
  <2>4. /\ ProposedId(id).subject = id.subject
        /\ ProposedId(id).claimType = id.claimType
        /\ ProposedId(id).timestamp = id.timestamp
    BY <2>3, ProposedTyped
  <2> QED
    BY <2>2, <2>3, <2>4 DEF FeedInv, IdsDescribeRecords, has_attestation
<1>2. ASSUME NEW id \in DOMAIN requests
      PROVE  LET k == knownRequests[id]
             IN  /\ k.status = requests[id].status
                 /\ k.expiresAt = requests[id].expiresAt
                 /\ k.attestation # None <=> k.status = "Fulfilled"
                 /\ k.attestation # None =>
                       LET a == attestations[k.attestation]
                       IN  /\ has_attestation(k.attestation)
                           /\ a.subject = id.subject
                           /\ a.claimType = id.claimType
                           /\ a.timestamp < k.expiresAt
  <2>1. PICK k : k = knownRequests[id]
    OBVIOUS
  <2>2. Told(id, requests[id], k, DOMAIN attestations)
    BY <2>1 DEF FeedInv, KnowsRequests
  <2>3. k.status = requests[id].status /\ k.expiresAt = requests[id].expiresAt
    BY <2>2 DEF Told
  <2> QED
    BY <2>1, <2>2, <2>3 DEF Told, FeedInv, IdsDescribeRecords, has_attestation
<1> QED
  BY <1>1, <1>2 DEF FeedDeterminesWorkflows, FeedInv, KnowsProposals, KnowsRequests

LEMMA KnownProposalsStay ==
    ASSUME FeedInv, UNCHANGED <<proposals, knownProposals>>
    PROVE  KnowsProposals'
BY DEF FeedInv, KnowsProposals

LEMMA KnownRequestsStay ==
    ASSUME FeedInv, RecordsKept, UNCHANGED <<requests, knownRequests>>
    PROVE  KnowsRequests'
BY DEF FeedInv, KnowsRequests, RecordsKept, Told

\* Told depends on the storage only through what is in it.
LEMMA StillTold ==
    ASSUME FeedInv, RecordsKept, NEW id \in DOMAIN requests
    PROVE  Told(id, requests[id], knownRequests[id], DOMAIN attestations')
BY DEF FeedInv, KnowsRequests, RecordsKept, Told

\* The events of each call tell its change.
LEMMA ProposePublishes ==
    ASSUME FeedInv, NEW i \in Issuers, NEW s \in Subjects, NEW c \in ClaimTypes,
           NEW r \in SignerLists, NEW t \in 0..(Len(r) + 1),
           propose_attestation(i, s, c, r, t), UNCHANGED knownRequests,
           \/ SkipsSignatures(i, c) /\ UNCHANGED knownProposals
           \/ ~SkipsSignatures(i, c) /\ multisig_proposed(ProposalId(i, s, c, now), t)
    PROVE  FeedInv'
<1>1. WorkflowInv' /\ RecordsKept
  BY ProposeKeeps DEF FeedInv
<1>2. KnowsProposals'
  <2>1. CASE SkipsSignatures(i, c)
    <3>1. UNCHANGED <<proposals, knownProposals>>
      BY <2>1 DEF propose_attestation, workflowVars
    <3> QED
      BY <3>1, KnownProposalsStay
  <2>2. CASE ~SkipsSignatures(i, c)
    <3>1. PICK id : id = ProposalId(i, s, c, now)
      OBVIOUS
    <3>2. PICK p : p = [required |-> r, threshold |-> t, signers |-> <<i>>,
                        expiresAt |-> now + ProposalTTL, finalized |-> FALSE]
      OBVIOUS
    <3>3. PICK k : k = [threshold |-> t, signatures |-> 1, attestation |-> None]
      OBVIOUS
    <3>4. proposals' = With(proposals, id, p) /\ knownProposals' = With(knownProposals, id, k)
      BY <2>2, <3>1, <3>2, <3>3 DEF propose_attestation, multisig_proposed
    <3>5. k = Published(id, p)
      <4>1. Len(<<i>>) = 1
        OBVIOUS
      <4> QED
        BY <3>2, <3>3, <4>1 DEF Published
    <3> QED
      BY <3>4, <3>5 DEF FeedInv, KnowsProposals, With
  <2> QED
    BY <2>1, <2>2
<1>3. UNCHANGED requests
  BY DEF propose_attestation, workflowVars
<1> QED
  BY <1>1, <1>2, <1>3, KnownRequestsStay DEF FeedInv, RecordsKept

LEMMA CosignPublishes ==
    ASSUME FeedInv, NEW i \in Issuers, NEW id \in DOMAIN proposals,
           cosign_attestation(i, id), UNCHANGED knownRequests, NEW n,
           n = Len(proposals[id].signers) + 1,
           \/ n < proposals[id].threshold /\ multisig_cosigned(id, n)
           \/ n >= proposals[id].threshold /\ multisig_activated(id, n, ProposedId(id))
    PROVE  FeedInv'
<1>1. WorkflowInv' /\ RecordsKept
  BY CosignKeeps DEF FeedInv
<1>2. PICK p \in ProposalRecords : p = proposals[id]
  BY DEF FeedInv, WorkflowInv, ProposalsSound
<1>3. PICK complete \in BOOLEAN : complete = (Len(Append(p.signers, i)) >= p.threshold)
  <2>1. (Len(Append(p.signers, i)) >= p.threshold) \in BOOLEAN
    OBVIOUS
  <2> QED
    BY <2>1, Zenon
<1>4. PICK q : q = [p EXCEPT !.signers = Append(p.signers, i), !.finalized = complete]
  OBVIOUS
<1>5. Len(Append(p.signers, i)) = n /\ n \in Nat /\ p.threshold \in Nat
  BY <1>2 DEF ProposalRecords
<1>6. q.threshold = p.threshold /\ q.signers = Append(p.signers, i) /\ q.finalized = complete
  BY <1>2, <1>4 DEF ProposalRecords
<1>7. /\ proposals' = [proposals EXCEPT ![id] = q] /\ UNCHANGED requests
      /\ ~p.finalized
  BY <1>2, <1>3, <1>4 DEF cosign_attestation, MayCosign
<1>8. knownProposals[id] =
         [threshold |-> p.threshold, signatures |-> Len(p.signers), attestation |-> None]
  BY <1>2, <1>7 DEF FeedInv, KnowsProposals, Published
<1>9. knownProposals' = [knownProposals EXCEPT ![id] = Published(id, q)]
  <2>0. Published(id, q) = [threshold |-> p.threshold, signatures |-> n,
                            attestation |-> IF complete THEN ProposedId(id) ELSE None]
    BY <1>5, <1>6 DEF Published
  <2>1. CASE n < p.threshold
    <3>1. ~complete
      <4>1. ~(n >= p.threshold)
        BY <1>5, <2>1
      <4> QED
        BY <1>3, <1>5, <4>1, Zenon
    <3>2. knownProposals' = [knownProposals EXCEPT ![id] =
             [threshold |-> p.threshold, signatures |-> n, attestation |-> None]]
      BY <1>2, <1>5, <1>8, <2>1 DEF multisig_cosigned
    <3> QED
      BY <2>0, <3>1, <3>2
  <2>2. CASE n >= p.threshold
    <3>1. complete
      BY <1>3, <1>5, <2>2
    <3>2. knownProposals' = [knownProposals EXCEPT ![id] =
             [threshold |-> p.threshold, signatures |-> n, attestation |-> ProposedId(id)]]
      BY <1>2, <1>5, <1>8, <2>2 DEF multisig_activated
    <3> QED
      BY <2>0, <3>1, <3>2
  <2> QED
    BY <1>5, <2>1, <2>2
<1>10. KnowsProposals'
  BY <1>7, <1>9 DEF FeedInv, KnowsProposals
<1> QED
  BY <1>1, <1>7, <1>10, KnownRequestsStay DEF FeedInv, RecordsKept

LEMMA RequestPublishes ==
    ASSUME FeedInv, NEW s \in Requesters, NEW i \in Responders, NEW c \in ClaimTypes,
           request_attestation(s, i, c), UNCHANGED knownProposals,
           attestation_requested(RequestId(s, i, c, now), now + RequestTTL)
    PROVE  FeedInv'
<1>1. WorkflowInv' /\ RecordsKept
  BY RequestKeeps DEF FeedInv
<1>2. PICK id : id = RequestId(s, i, c, now)
  OBVIOUS
<1>3. PICK r : r = [expiresAt |-> now + RequestTTL, status |-> "Pending"]
  OBVIOUS
<1>4. PICK k : k = [status |-> "Pending", expiresAt |-> now + RequestTTL, attestation |-> None]
  OBVIOUS
<1>5. /\ requests' = With(requests, id, r) /\ knownRequests' = With(knownRequests, id, k)
      /\ id \notin DOMAIN requests /\ UNCHANGED proposals
  BY <1>2, <1>3, <1>4 DEF request_attestation, attestation_requested
<1>6. \A stored : Told(id, r, k, stored)
  BY <1>3, <1>4 DEF Told
<1>7. /\ DOMAIN requests' = DOMAIN requests \cup {id}
      /\ DOMAIN knownRequests' = DOMAIN requests \cup {id}
      /\ requests'[id] = r /\ knownRequests'[id] = k
      /\ \A x \in DOMAIN requests : /\ requests'[x] = requests[x]
                                    /\ knownRequests'[x] = knownRequests[x]
  <2>1. DOMAIN knownRequests = DOMAIN requests
    BY DEF FeedInv, KnowsRequests
  <2> QED
    BY <1>5, <2>1 DEF With
<1>8. KnowsRequests'
  <2>1. \A x \in DOMAIN requests :
           Told(x, requests[x], knownRequests[x], DOMAIN attestations')
    BY <1>1, StillTold
  <2>2. \A x \in DOMAIN requests' :
           Told(x, requests'[x], knownRequests'[x], DOMAIN attestations')
    BY <1>6, <1>7, <2>1
  <2> QED
    BY <1>7, <2>2 DEF KnowsRequests
<1> QED
  BY <1>1, <1>5, <1>8, KnownProposalsStay DEF FeedInv, RecordsKept

LEMMA AnswerPublishes ==
    ASSUME FeedInv, NEW id \in DOMAIN requests, UNCHANGED knownProposals,
           \/ \E e \in Expirations :
                 /\ fulfill_request(id, e)
                 /\ request_fulfilled(id, generate_id(id.issuer, id.subject, id.claimType, now))
           \/ reject_request(id) /\ request_rejected(id)
           \/ cancel_request(id) /\ request_cancelled(id)
    PROVE  FeedInv'
<1>0. /\ DOMAIN knownRequests = DOMAIN requests
      /\ requests[id] \in RequestRecords
      /\ Told(id, requests[id], knownRequests[id], DOMAIN attestations)
      /\ id \in RequestIds
  BY DEF FeedInv, KnowsRequests, WorkflowInv, RequestsSound
<1>1. PICK k : k = knownRequests[id]
  OBVIOUS
<1>2. k = [status |-> requests[id].status, expiresAt |-> requests[id].expiresAt,
           attestation |-> k.attestation]
  BY <1>0, <1>1 DEF Told
\* The rest is the same for the three answers.
<1>3. ASSUME WorkflowInv', RecordsKept, Open(id),
             NEW status \in {"Fulfilled", "Rejected", "Cancelled"}, Close(id, status),
             NEW new, knownRequests' = [knownRequests EXCEPT ![id] = new],
             Told(id, [requests[id] EXCEPT !.status = status], new, DOMAIN attestations')
      PROVE  FeedInv'
  <2>1. /\ UNCHANGED proposals
        /\ DOMAIN requests' = DOMAIN requests
        /\ requests'[id] = [requests[id] EXCEPT !.status = status]
        /\ \A x \in DOMAIN requests : x # id => requests'[x] = requests[x]
    BY <1>3, CloseKeeps DEF FeedInv
  <2>2. /\ DOMAIN knownRequests' = DOMAIN requests'
        /\ knownRequests'[id] = new
        /\ \A x \in DOMAIN requests : x # id => knownRequests'[x] = knownRequests[x]
    BY <1>0, <1>3, <2>1
  <2>3. \A x \in DOMAIN requests :
           Told(x, requests[x], knownRequests[x], DOMAIN attestations')
    BY <1>3, StillTold
  <2>4. \A x \in DOMAIN requests' :
           Told(x, requests'[x], knownRequests'[x], DOMAIN attestations')
    BY <1>3, <2>1, <2>2, <2>3
  <2>5. KnowsRequests'
    BY <2>2, <2>4 DEF KnowsRequests
  <2> QED
    BY <1>3, <2>1, <2>5, KnownProposalsStay DEF FeedInv, RecordsKept
<1>4. ASSUME NEW e \in Expirations, fulfill_request(id, e),
             request_fulfilled(id, generate_id(id.issuer, id.subject, id.claimType, now))
      PROVE  FeedInv'
  <2>1. PICK a : a = generate_id(id.issuer, id.subject, id.claimType, now)
    OBVIOUS
  <2>2. /\ WorkflowInv' /\ RecordsKept
        /\ a \in Ids /\ a \in DOMAIN attestations' /\ now < requests[id].expiresAt
    BY <1>4, <2>1, FulfillKeeps DEF FeedInv
  <2>3. Open(id) /\ Close(id, "Fulfilled")
    BY <1>4 DEF fulfill_request, MayAnswer
  <2>4. PICK new : new = [status |-> "Fulfilled", expiresAt |-> requests[id].expiresAt,
                          attestation |-> a]
    OBVIOUS
  <2>5. knownRequests' = [knownRequests EXCEPT ![id] = new]
    <3>1. knownRequests' = [knownRequests EXCEPT ![id].status = "Fulfilled",
                                                 ![id].attestation = a]
      BY <1>4, <2>1 DEF request_fulfilled
    <3>2. knownRequests' =
             [knownRequests EXCEPT ![id] = [k EXCEPT !.status = "Fulfilled", !.attestation = a]]
      BY <1>0, <1>1, <3>1
    <3>3. [k EXCEPT !.status = "Fulfilled", !.attestation = a] = new
      <4>1. PICK old : k = [status |-> requests[id].status, expiresAt |-> requests[id].expiresAt,
                            attestation |-> old]
        BY <1>2
      <4>2. PICK r : r = [k EXCEPT !.status = "Fulfilled", !.attestation = a]
        OBVIOUS
      <4>3. /\ r.status = "Fulfilled" /\ r.attestation = a
            /\ r.expiresAt = requests[id].expiresAt
        BY <4>1, <4>2
      <4>4. r = [x \in {"status", "expiresAt", "attestation"} |-> r[x]]
        BY <4>1, <4>2
      <4> QED
        BY <2>4, <4>2, <4>3, <4>4
    <3> QED
      BY <3>2, <3>3
  <2>6. Told(id, [requests[id] EXCEPT !.status = "Fulfilled"], new, DOMAIN attestations')
    <3>1. PICK r : r = [requests[id] EXCEPT !.status = "Fulfilled"]
      OBVIOUS
    <3>2. r.status = "Fulfilled" /\ r.expiresAt = requests[id].expiresAt
      BY <1>0, <3>1 DEF RequestRecords
    <3>3. a # None
      BY <2>2, IdAssumption
    <3>4. a.subject = id.subject /\ a.claimType = id.claimType /\ a.timestamp = now
      BY <2>1 DEF generate_id
    <3> QED
      BY <2>2, <2>4, <3>1, <3>2, <3>3, <3>4 DEF Told
  <2> QED
    BY <1>3, <2>2, <2>3, <2>5, <2>6
<1>5. ASSUME NEW status \in {"Rejected", "Cancelled"},
             reject_request(id) \/ cancel_request(id), Open(id), Close(id, status),
             knownRequests' = [knownRequests EXCEPT ![id].status = status]
      PROVE  FeedInv'
  <2>1. WorkflowInv' /\ RecordsKept
    BY <1>5, AnswerKeeps DEF FeedInv
  <2>2. PICK new : new = [status |-> status, expiresAt |-> requests[id].expiresAt,
                          attestation |-> k.attestation]
    OBVIOUS
  <2>3. knownRequests' = [knownRequests EXCEPT ![id] = new]
    <3>1. knownRequests' = [knownRequests EXCEPT ![id] = [k EXCEPT !.status = status]]
      BY <1>0, <1>1, <1>5
    <3>2. [k EXCEPT !.status = status] = new
      BY <1>2, <2>2
    <3> QED
      BY <3>1, <3>2
  <2>4. Told(id, [requests[id] EXCEPT !.status = status], new, DOMAIN attestations')
    <3>1. PICK r : r = [requests[id] EXCEPT !.status = status]
      OBVIOUS
    <3>2. r.status = status /\ r.expiresAt = requests[id].expiresAt
      BY <1>0, <3>1 DEF RequestRecords
    <3>3. k.attestation = None
      BY <1>0, <1>1, <1>5 DEF Told, Open
    <3> QED
      BY <2>2, <3>1, <3>2, <3>3 DEF Told
  <2> QED
    BY <1>3, <1>5, <2>1, <2>3, <2>4
<1> QED
  BY <1>4, <1>5 DEF reject_request, cancel_request, request_rejected, request_cancelled, MayAnswer

\* Every step with its events keeps what was told right.
LEMMA FeedNextKeeps == FeedInv /\ [WorkflowFeedNext]_workflowFeedVars => FeedInv'
<1> SUFFICES ASSUME FeedInv, [WorkflowFeedNext]_workflowFeedVars PROVE FeedInv'
  OBVIOUS
<1>1. ASSUME WorkflowInv', RecordsKept, UNCHANGED <<proposals, requests, knownVars>> PROVE FeedInv'
  BY <1>1, KnownProposalsStay, KnownRequestsStay DEF FeedInv, RecordsKept, knownVars
<1>2. CASE [Next]_vars /\ UNCHANGED <<workflowVars, knownVars>>
  <2>1. WorkflowInv' /\ RecordsKept
    BY <1>2, BesideKeeps DEF FeedInv
  <2> QED
    BY <1>1, <1>2, <2>1 DEF workflowVars
<1>3. ASSUME NEW i \in PremiumIssuers, NEW p \in BOOLEAN, set_issuer_tier(i, p),
             UNCHANGED knownVars
      PROVE  FeedInv'
  <2>1. WorkflowInv' /\ RecordsKept
    BY <1>3, TierKeeps DEF FeedInv
  <2> QED
    BY <1>1, <1>3, <2>1 DEF set_issuer_tier
<1>4. CASE ProposeAndPublish /\ UNCHANGED knownRequests
  BY <1>4, ProposePublishes DEF ProposeAndPublish
<1>5. CASE CosignAndPublish /\ UNCHANGED knownRequests
  BY <1>5, CosignPublishes DEF CosignAndPublish
<1>6. CASE RequestAndPublish /\ UNCHANGED knownProposals
  BY <1>6, RequestPublishes, AnswerPublishes DEF RequestAndPublish
<1> QED
  BY <1>2, <1>3, <1>4, <1>5, <1>6 DEF WorkflowFeedNext, workflowFeedVars, allVars

\* The events of the workflows determine the proposals and the requests, and
\* the attestations they name are in storage, about what was asked for.
THEOREM WorkflowEventsSuffice == WorkflowFeedSpec => []FeedDeterminesWorkflows
<1>1. WorkflowFeedInit => FeedInv
  <2> SUFFICES ASSUME WorkflowFeedInit PROVE FeedInv
    OBVIOUS
  <2>1. WorkflowInv
    BY WorkflowInitially DEF WorkflowFeedInit
  <2>2. DOMAIN attestations = {} /\ DOMAIN proposals = {} /\ DOMAIN requests = {}
        /\ DOMAIN knownProposals = {} /\ DOMAIN knownRequests = {}
    BY DEF WorkflowFeedInit, WorkflowInit, Init, LedgerInit
  <2> QED
    BY <2>1, <2>2 DEF FeedInv, IdsDescribeRecords, KnowsProposals, KnowsRequests
<1> QED
  BY <1>1, FeedNextKeeps, FeedInvDetermines, PTL DEF WorkflowFeedSpec

\* Publishing does not change what the workflows do: what is proved of
\* Workflows holds of the calls with their events.
THEOREM FeedFollowsWorkflows == WorkflowFeedSpec => WorkflowSpec
<1>1. WorkflowFeedInit => WorkflowInit
  BY DEF WorkflowFeedInit
<1>2. [WorkflowFeedNext]_workflowFeedVars => [WorkflowNext]_allVars
  <2> SUFFICES ASSUME [WorkflowFeedNext]_workflowFeedVars PROVE [WorkflowNext]_allVars
    OBVIOUS
  <2>1. CASE UNCHANGED workflowFeedVars
    BY <2>1 DEF workflowFeedVars
  <2>2. CASE Next /\ UNCHANGED <<workflowVars, knownVars>>
    BY <2>2 DEF WorkflowNext
  <2>3. CASE \/ Admins # {} /\ \E i \in PremiumIssuers, p \in BOOLEAN : set_issuer_tier(i, p)
             \/ ProposeAndPublish
             \/ CosignAndPublish
    BY <2>3 DEF WorkflowNext, MultisigStep, ProposeAndPublish, CosignAndPublish
  <2>4. CASE RequestAndPublish
    BY <2>4 DEF WorkflowNext, RequestStep, RequestAndPublish
  <2> QED
    BY <2>1, <2>2, <2>3, <2>4 DEF WorkflowFeedNext
<1> QED
  BY <1>1, <1>2, PTL DEF WorkflowFeedSpec, WorkflowSpec
=============================================================================
