------------------------------ MODULE Listings ------------------------------
(***************************************************************************)
(* The lists behind the paged queries, with their order: the flat list of  *)
(* a subject (storage.rs), the chunked lists of subjects and issuers       *)
(* (ChunkedIndex, storage.rs), and the queries of query.rs that cut pages  *)
(* out of them by offset or by cursor.                                     *)
(*                                                                         *)
(* Module Ledger keeps the same lists as bags.  Every step of Attestations *)
(* is taken together with what it does to the lists: an id that enters the *)
(* bag is pushed at the end, one that leaves it is filtered out.           *)
(***************************************************************************)
EXTENDS Attestations, Lists, SequencesExt

CONSTANTS
    ChunkSize,   \* CHUNKED_INDEX_CHUNK_SIZE
    Rank(_)      \* position of an id in the order of the digests

ASSUME ChunkAssumption == ChunkSize \in Nat \ {0}

\* The digests are ordered, those of all the ids there can be.
ASSUME RankAssumption ==
    \A o \in Owners, s \in Subjects, c \in ClaimTypes, t \in 0..MaxTime,
       source \in Sources \cup {None} :
          Rank(generate_bridge_id(o, s, c, source, t)) \in Nat

VARIABLES
    subjectList,    \* SubjectAttestations, in order
    subjectStore,   \* SubjectAttestationChunk: subject -> number -> chunk
    issuerStore,    \* IssuerAttestationChunk: issuer -> number -> chunk
    inserted        \* history: all the ids a subject's list ever held, in order

listVars == <<subjectList, subjectStore, issuerStore, inserted>>

-----------------------------------------------------------------------------
(* ChunkedIndex *)

get_chunk(store, n) == IF n \in DOMAIN store THEN store[n] ELSE <<>>

\* The chunks are read until the first one that is missing or empty.
get_ids(store) ==
    LET from[n \in 0..Cardinality(DOMAIN store)] ==
          LET chunk == get_chunk(store, n)
          IN  IF chunk = <<>> THEN <<>> ELSE chunk \o from[n + 1]
    IN  from[0]

ChunkCount(ids) == (Len(ids) + ChunkSize - 1) \div ChunkSize

ChunkOf(ids, n) ==
    SubSeq(ids, n * ChunkSize + 1, Min({(n + 1) * ChunkSize, Len(ids)}))

\* Writes the list from chunk 0 on, then removes the chunks that follow the
\* last one written, up to the first key that is missing.
write_chunks(store, ids) ==
    LET n == ChunkCount(ids)
        trailing == {k \in DOMAIN store : k >= n /\ n..k \subseteq DOMAIN store}
    IN  [k \in (DOMAIN store \ trailing) \cup 0..(n - 1) |->
            IF k < n THEN ChunkOf(ids, k) ELSE store[k]]

\* Slip: the new ids are put in front.
add_bulk_Front(store, ids) == write_chunks(store, ids \o get_ids(store))

\* add_subject and add_issuer for one id, add_issuer_bulk for several.
add_bulk(store, ids) == write_chunks(store, get_ids(store) \o ids)

remove(store, gone) ==
    LET ids == get_ids(store) IN write_chunks(store, Filter(ids, ToSet(ids) \ gone))

-----------------------------------------------------------------------------
(* The lists follow the bags *)

Leaving(old, new) == DOMAIN old \ DOMAIN new

\* push_back for a new id, the filtering loop for one that leaves.
UpdateList(list, old, new, added) ==
    Filter(list, ToSet(list) \ Leaving(old, new)) \o added

\* No operation adds to and removes from the same chunked list.
UpdateStore(store, old, new, added) ==
    CASE Leaving(old, new) # {} -> remove(store, Leaving(old, new))
      [] Leaving(old, new) = {} /\ added # <<>> -> add_bulk(store, added)
      [] OTHER -> store

\* A batch stores its attestations in the order of the subjects it is given.
ListsFollow ==
    \E order \in SetToSeqs(DOMAIN attestations' \ DOMAIN attestations) :
       LET about(s)  == Filter(order, {id \in DOMAIN attestations' : attestations'[id].subject = s})
           issued(o) == Filter(order, {id \in DOMAIN attestations' : attestations'[id].issuer = o})
       IN  /\ subjectList' = [s \in Subjects |->
                 UpdateList(subjectList[s], subjectIndex[s], subjectIndex'[s], about(s))]
           /\ inserted' = [s \in Subjects |-> inserted[s] \o about(s)]
           /\ subjectStore' = [s \in Subjects |->
                 UpdateStore(subjectStore[s], subjectChunks[s], subjectChunks'[s], about(s))]
           /\ issuerStore' = [o \in Owners |->
                 UpdateStore(issuerStore[o], issuerChunks[o], issuerChunks'[o], issued(o))]

ListsInit ==
    /\ subjectList = [s \in Subjects |-> <<>>]
    /\ inserted = [s \in Subjects |-> <<>>]
    /\ subjectStore = [s \in Subjects |-> [k \in {} |-> <<>>]]
    /\ issuerStore = [o \in Owners |-> [k \in {} |-> <<>>]]

-----------------------------------------------------------------------------
(* Paged queries.  start + limit is a u32 addition that traps when it       *)
(* overflows; starts and limits are small here.                             *)

\* Slip: the page ends one entry too early.
paginate_ShortPage(list, start, limit) ==
    SubSeq(list, start + 1, Min({start + limit, Len(list)}) - 1)

\* At most limit entries from position start, counted from 0.
paginate(list, start, limit) ==
    SubSeq(list, start + 1, Min({start + limit, Len(list)}))

\* ChunkedIndex::get_subject_page and get_issuer_page, subject_count and
\* issuer_count.
get_page(store, start, limit) == paginate(get_ids(store), start, limit)

entry_count(store) == Len(get_ids(store))

Undeleted(page) == Filter(page, {id \in DOMAIN attestations : ~attestations[id].deleted})

\* query::get_subject_attestations and get_issuer_attestations: the page is
\* cut first, then the deleted attestations are left out of it.
get_subject_page(subject, start, limit) ==
    Undeleted(get_page(subjectStore[subject], start, limit))

get_issuer_page(issuer, start, limit) ==
    Undeleted(get_page(issuerStore[issuer], start, limit))

get_subject_attestation_count(subject) == entry_count(subjectStore[subject])

\* What both range queries select from the flat list of a subject.
InRange(subject, from, to) ==
    Filter(Undeleted(subjectList[subject]),
           {id \in DOMAIN attestations : attestations[id].timestamp \in from..to})

get_attestations_in_range(subject, from, to, start, limit) ==
    paginate(InRange(subject, from, to), start, limit)

\* The order in which the search for a lost cursor compares attestations.
After(id, cursor) ==
    \/ attestations[id].timestamp > attestations[cursor].timestamp
    \/ /\ attestations[id].timestamp = attestations[cursor].timestamp
       /\ Rank(id) > Rank(cursor)

\* Slip: the page resumes one entry past the first one after a lost cursor.
StartIndex_SkipsOne(list, cursor) ==
    LET found == {k \in 1..Len(list) : list[k] = cursor}
        later == {k \in 1..Len(list) : After(list[k], cursor)}
    IN  CASE found # {} -> Min(found)
          [] found = {} /\ later # {} -> Min(later)
          [] OTHER -> Len(list)

\* The number of entries to pass over: up to the cursor if it is listed, else
\* up to the first entry that comes after it, else all.
StartIndex(list, cursor) ==
    LET found == {k \in 1..Len(list) : list[k] = cursor}
        later == {k \in 1..Len(list) : After(list[k], cursor)}
    IN  CASE found # {} -> Min(found)
          [] found = {} /\ later # {} -> Min(later) - 1
          [] OTHER -> Len(list)

\* A cursor without a record yields an empty page.
get_attestations_in_range_after(subject, from, to, cursor, limit) ==
    LET list == InRange(subject, from, to)
    IN  CASE from > to \/ (cursor # None /\ ~has_attestation(cursor)) -> <<>>
          [] from <= to /\ cursor = None -> paginate(list, 0, limit)
          [] OTHER -> paginate(list, StartIndex(list, cursor), limit)

\* The positions in a subject's flat list of the attestations that back a claim.
Matches(subject, claimType) ==
    LET list == subjectList[subject]
    IN  {k \in 1..Len(list) : /\ has_attestation(list[k])
                              /\ ~attestations[list[k]].deleted
                              /\ attestations[list[k]].claimType = claimType
                              /\ IsValid(list[k])}

\* The list is searched from its end.
get_attestation_by_type(subject, claimType) ==
    IF Matches(subject, claimType) = {} THEN None
    ELSE subjectList[subject][Max(Matches(subject, claimType))]

-----------------------------------------------------------------------------
(* Properties *)

\* The chunks of a subject or of an issuer, as get_ids strings them together,
\* hold exactly the ids that were added and not removed, each once; no chunk
\* is left over from a longer list, and only the last one has room.
ChunksExact ==
    LET exact(store, bag) ==
          LET ids == get_ids(store)
              n   == Cardinality(DOMAIN store)
          IN  /\ ToSet(ids) = DOMAIN bag /\ IsInjective(ids)
              /\ DOMAIN store = 0..(n - 1)
              /\ \A k \in 0..(n - 1) : /\ Len(store[k]) \in 1..ChunkSize
                                       /\ k < n - 1 => Len(store[k]) = ChunkSize
    IN  /\ \A s \in Subjects : exact(subjectStore[s], subjectChunks[s])
        /\ \A o \in Owners : exact(issuerStore[o], issuerChunks[o])

\* All the pages of a listing, for a page size.
AllPages(Page(_), count, limit) ==
    FlattenSeq([k \in 1..(count + 1) |-> Page((k - 1) * limit)])

\* Whatever the page size, the pages of a listing follow each other without a
\* gap or an overlap: together they are the listing in its order, without the
\* deleted attestations, which make a page of an issuer shorter; of a subject
\* they are as many as get_subject_attestation_count says.  And the listing is
\* made of chunks that hold what they should.
PagesCover ==
    /\ ChunksExact
    /\ \A limit \in 1..MaxAttestations :
       /\ \A s \in Subjects :
             LET n == get_subject_attestation_count(s)
                 pages == AllPages(LAMBDA k : get_subject_page(s, k, limit), n, limit)
             IN  pages = get_ids(subjectStore[s]) /\ Len(pages) = n
       /\ \A o \in Owners :
             LET n == entry_count(issuerStore[o])
             IN  AllPages(LAMBDA k : get_issuer_page(o, k, limit), n, limit)
                    = Undeleted(get_ids(issuerStore[o]))
       /\ \A s \in Subjects, from \in 0..MaxTime :
             LET ids == InRange(s, from, MaxTime)
             IN  AllPages(LAMBDA k : get_attestations_in_range(s, from, MaxTime, k, limit),
                          Len(ids), limit) = ids

\* The attestations of a subject were stored in the order of their timestamps
\* and, within a second, of their digests.
StoredInOrder(subject) ==
    \A j, k \in 1..Len(inserted[subject]) :
       j < k => After(inserted[subject][k], inserted[subject][j])

\* A cursor page holds the next attestations of the list, in order, that were
\* stored after the cursor, even when the cursor itself was revoked or deleted
\* since ("resume from the next available attestation after the deleted
\* cursor", query.rs): provided the cursor is still listed, or the list is in
\* the order by which a lost cursor is searched.
CursorResumes ==
    \A s \in Subjects, from \in 0..MaxTime :
       \A to \in from..MaxTime, c \in 1..Len(inserted[s]), limit \in 1..MaxAttestations :
          LET cursor == inserted[s][c]
              selected == ToSet(InRange(s, from, to))
              rest == Filter(SubSeq(inserted[s], c + 1, Len(inserted[s])), selected)
          IN  /\ attestations[cursor].timestamp \in from..to
              /\ cursor \in ToSet(subjectList[s]) \/ StoredInOrder(s)
              => get_attestations_in_range_after(s, from, to, cursor, limit)
                    = paginate(rest, 0, limit)

\* get_attestation_by_type answers exactly when a claim is backed, with the
\* attestation that was stored last; that is the most recent one unless
\* attestations were imported with an earlier date.
NewestByType ==
    \A s \in Subjects, c \in ClaimTypes :
       LET newest == get_attestation_by_type(s, c)
       IN  /\ newest = None <=> Backing(s, c) = {}
           /\ newest # None =>
                 /\ newest \in Backing(s, c)
                 /\ StoredInOrder(s) => \A id \in Backing(s, c) :
                       attestations[id].timestamp <= attestations[newest].timestamp

\* The listing of an issuer goes by who issued an attestation, not by who owns
\* it: transfers leave it alone, and revocations by a later owner do too.
IssuerListingByOrigin ==
    \A o \in Owners :
       /\ \A id \in DOMAIN issuerChunks[o] : id.issuer = o
       /\ \A id \in DOMAIN attestations :
             id.issuer = o /\ ~attestations[id].revoked => id \in DOMAIN issuerChunks[o]

\* What the listings, the count and the newest attestation of a type tell a
\* caller agrees with the records, although three indexes and two orders are
\* behind them.
ListingsAgree ==
    /\ SubjectListingComplete
    /\ IssuerListingByOrigin
    /\ ClaimCountExact
    /\ NewestByType

SubjectListings ==
    INSTANCE IdList WITH Keys <- Subjects,
                         lists <- [s \in Subjects |-> get_ids(subjectStore[s])]

IssuerListings ==
    INSTANCE IdList WITH Keys <- Owners,
                         lists <- [o \in Owners |-> get_ids(issuerStore[o])]

\* The chunked lists implement the abstract lists: rewriting all the chunks on
\* every change never reorders the entries that stay, so that a reader paging
\* by offset never meets an entry twice.
ImplementsIdList == SubjectListings!Spec /\ IssuerListings!Spec
=============================================================================
