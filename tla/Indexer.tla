------------------------------ MODULE Indexer ------------------------------
(***************************************************************************)
(* The event indexer (indexer/src/indexer.ts): a loop that polls the chain *)
(* for the events of the contract, applies each of them to the tables of a *)
(* database and saves a checkpoint after every page, and the reindex job   *)
(* an operator may start beside it (POST /admin/reindex).  Both run        *)
(* processRange in one Node.js process: every await is a point where the   *)
(* other one may run, or the process may die.                              *)
(*                                                                         *)
(* The chain carries the events of one attestation, one multi-signature    *)
(* proposal, one attestation request and one issuer.                       *)
(***************************************************************************)
EXTENDS Integers, Sequences, FiniteSets, FiniteSetsExt, SequencesExt

CONSTANTS
    Topics,              \* topics of the events on the chain
    PageLimit,           \* PAGE_LIMIT
    StartLedger,         \* START_LEDGER, 0 when the variable is not set
    MaxLedger,           \* bound of the model on the length of the chain
    MaxEventsPerLedger,  \* bound of the model on the events of one ledger
    MaxCrashes,          \* bound of the model on crashes
    MaxReindexes,        \* bound of the model on reindex requests
    MaxFailures          \* bound of the model on database errors

ASSUME IndexerAssumption ==
    /\ PageLimit \in Nat \ {0}
    /\ {StartLedger, MaxLedger, MaxEventsPerLedger, MaxCrashes, MaxReindexes,
        MaxFailures} \subseteq Nat

\* Topics of events.rs that the model has an object for.
ASSUME TopicsAssumption ==
    Topics \subseteq {"created", "imported", "bridged", "revoked", "ms_prop", "ms_sign",
                      "ms_actv", "att_req", "req_ok", "req_no", "req_ful", "req_rej",
                      "iss_reg", "iss_tier"}

VARIABLES
    chain,         \* the closed ledgers, each a sequence of events
    db,            \* the rows of the tables
    attempted,     \* history: the places of the events handed to handleEvent
    skipped,       \* history: the places of the events whose handler threw
    checkpoint,    \* ledger of the Checkpoint row, 0 when there is no row
    cursor,        \* the next ledger of the polling loop
    range,         \* the activations of processRange
    crashes, reindexes, failures

vars == <<chain, db, attempted, skipped, checkpoint, cursor, range,
          crashes, reindexes, failures>>

-----------------------------------------------------------------------------
(* The chain.  An event has a topic and, for the events of the proposal,   *)
(* the number of signatures so far, which also names the signer.           *)

Tip == Len(chain)

Places == {<<l, k>> : l \in 1..Tip, k \in 1..MaxEventsPerLedger}
Published == {p \in Places : p[2] <= Len(chain[p[1]])}
EventAt(p) == chain[p[1]][p[2]]
Precedes(p, q) == p[1] < q[1] \/ (p[1] = q[1] /\ p[2] < q[2])

\* A log is the sequence of the topics published so far.
Log == FlattenSeq([l \in 1..Tip |-> [k \in 1..Len(chain[l]) |-> chain[l][k].topic]])
Seen(log, t) == \E k \in 1..Len(log) : log[k] = t
Signatures(log) == 1 + Cardinality({k \in 1..Len(log) : log[k] = "ms_sign"})

Creations == {"created", "imported", "bridged"}

\* What the contract may publish next: every operation publishes its event
\* once, in the order the life of the object it belongs to allows.
Publishable(log, t) ==
    CASE t \in Creations -> \A u \in Creations : ~Seen(log, u)
      [] t = "revoked"  -> (\E u \in Creations : Seen(log, u)) /\ ~Seen(log, "revoked")
      [] t = "ms_prop"  -> ~Seen(log, "ms_prop")
      [] t = "ms_sign"  -> Seen(log, "ms_prop") /\ ~Seen(log, "ms_actv")
      [] t = "ms_actv"  -> Seen(log, "ms_sign") /\ ~Seen(log, "ms_actv")
      [] t = "att_req"  -> ~Seen(log, "att_req")
      [] t \in {"req_ok", "req_no", "req_ful", "req_rej"} ->
            /\ Seen(log, "att_req")
            /\ \A u \in {"req_ok", "req_no", "req_ful", "req_rej"} : ~Seen(log, u)
      [] t = "iss_reg"  -> ~Seen(log, "iss_reg")
      [] t = "iss_tier" -> Seen(log, "iss_reg")

Event(log, t) ==
    [topic |-> t, n |-> Signatures(log) + (IF t = "ms_sign" THEN 1 ELSE 0)]

Ledgers ==
    LET before(ts, k) == Log \o SubSeq(ts, 1, k - 1)
    IN  {[k \in 1..Len(ts) |-> Event(before(ts, k), ts[k])] :
            ts \in {ts \in SeqOf(Topics, MaxEventsPerLedger) :
                      \A k \in 1..Len(ts) : Publishable(before(ts, k), ts[k])}}

CloseLedger ==
    /\ Tip < MaxLedger
    /\ \E evs \in Ledgers : chain' = Append(chain, evs)
    /\ UNCHANGED <<db, attempted, skipped, checkpoint, cursor, range,
                   crashes, reindexes, failures>>

-----------------------------------------------------------------------------
(* handleEvent *)

Watched == {"created", "revoked", "imported", "bridged", "ms_prop", "ms_sign",
            "ms_actv", "iss_reg", "issuer_tier_updated", "att_req", "req_ful",
            "req_rej"}

Tables == [attestation : {"none", "valid", "revoked"},
           signers     : SUBSET Nat,      \* {} when the proposal has no row
           signatureCount : Nat,
           finalized   : BOOLEAN,
           request     : {"none", "PENDING", "FULFILLED", "REJECTED"},
           issuer      : {"none", "basic"}]

NoRows == [attestation |-> "none", signers |-> {}, signatureCount |-> 0,
           finalized |-> FALSE, request |-> "none", issuer |-> "none"]

HasProposal(rows) == rows.signers # {}

\* Slip: the upsert of a created event resets isRevoked.
handleEvent_Resets(rows, e) ==
    IF e.topic = "created" THEN [rows EXCEPT !.attestation = "valid"]
    ELSE IF e.topic = "revoked" THEN [rows EXCEPT !.attestation = "revoked"] ELSE rows

\* The handlers with a single write.
handleEvent(rows, e) ==
    CASE e.topic \notin Watched -> rows
      [] e.topic \in Creations ->
            IF rows.attestation = "none" THEN [rows EXCEPT !.attestation = "valid"] ELSE rows
      [] e.topic = "revoked" ->
            IF rows.attestation = "none" THEN rows ELSE [rows EXCEPT !.attestation = "revoked"]
      [] e.topic = "ms_prop" ->
            IF HasProposal(rows) THEN rows
            ELSE [rows EXCEPT !.signers = {1}, !.signatureCount = 1]
      [] e.topic = "ms_actv" ->
            [rows EXCEPT !.finalized = rows.finalized \/ HasProposal(rows)]
      [] e.topic = "att_req" ->
            IF rows.request = "none" THEN [rows EXCEPT !.request = "PENDING"] ELSE rows
      [] e.topic = "req_ful" ->
            IF rows.request = "PENDING" THEN [rows EXCEPT !.request = "FULFILLED"] ELSE rows
      [] e.topic = "req_rej" ->
            IF rows.request = "PENDING" THEN [rows EXCEPT !.request = "REJECTED"] ELSE rows
      [] e.topic = "iss_reg" ->
            IF rows.issuer = "none" THEN [rows EXCEPT !.issuer = "basic"] ELSE rows

\* Slip: the count is incremented, not taken from the event.
SignersUpdate_Increment(rows, signers, e) ==
    [rows EXCEPT !.signers = signers \cup {e.n}, !.signatureCount = @ + 1]

\* The handler of ms_sign reads the signers, and writes them back with one
\* more after an await.
SignersUpdate(rows, signers, e) ==
    [rows EXCEPT !.signers = signers \cup {e.n}, !.signatureCount = e.n]

-----------------------------------------------------------------------------
(* processRange *)

Workers == {"main", "reindex"}

Idle == [pc |-> "idle", start |-> 0, to |-> 0, page |-> <<>>, last |-> 0, read |-> {}]

RangeOf(from, to) == [Idle EXCEPT !.pc = "fetch", !.start = from, !.to = to]

\* Slip: the events of the first ledger of the range are left out.
PlacesIn_AfterStart(start, end) == {p \in Published : start < p[1] /\ p[1] <= end}

\* The answer of getEvents: the events of ledgers start..end, at most PageLimit.
PlacesIn(start, end) == {p \in Published : start <= p[1] /\ p[1] <= end}
Position(p, places) == Cardinality({q \in places : q = p \/ Precedes(q, p)})
Page(start, end) ==
    LET all == PlacesIn(start, end)
    IN  [n \in 1..Min({PageLimit, Cardinality(all)}) |->
            CHOOSE p \in all : Position(p, all) = n]

\* An error of getEvents is retried after a pause: the step is not taken yet.
FetchPage(w) ==
    LET r   == range[w]
        end == Min({r.start + PageLimit - 1, r.to})
        pg  == Page(r.start, end)
    IN  /\ r.pc = "fetch"
        /\ range' = [range EXCEPT ![w] =
              [r EXCEPT !.pc = "handle", !.page = pg,
                        !.last = IF pg = <<>> THEN end ELSE Last(pg)[1]]]
        /\ UNCHANGED <<chain, db, attempted, skipped, checkpoint, cursor,
                       crashes, reindexes, failures>>

\* The handler of the first event of the page is done, or has thrown.
EventDone(w) ==
    /\ attempted' = attempted \cup {Head(range[w].page)}
    /\ range' = [range EXCEPT ![w].pc = "handle", ![w].page = Tail(@), ![w].read = {}]
    /\ UNCHANGED <<chain, checkpoint, cursor, crashes, reindexes>>

InHandler(w, pc) == range[w].pc = pc /\ range[w].page # <<>>

NextEvent(w) == EventAt(Head(range[w].page))

HandleEvent(w) ==
    /\ InHandler(w, "handle")
    /\ NextEvent(w).topic = "ms_sign" => ~HasProposal(db)
    /\ db' = IF NextEvent(w).topic = "ms_sign" THEN db ELSE handleEvent(db, NextEvent(w))
    /\ EventDone(w)
    /\ UNCHANGED <<skipped, failures>>

ReadSigners(w) ==
    /\ InHandler(w, "handle")
    /\ NextEvent(w).topic = "ms_sign" /\ HasProposal(db)
    /\ range' = [range EXCEPT ![w].pc = "write", ![w].read = db.signers]
    /\ UNCHANGED <<chain, db, attempted, skipped, checkpoint, cursor,
                   crashes, reindexes, failures>>

WriteSigners(w) ==
    /\ InHandler(w, "write")
    /\ db' = SignersUpdate(db, range[w].read, NextEvent(w))
    /\ EventDone(w)
    /\ UNCHANGED <<skipped, failures>>

\* A handler whose database call fails is logged and counted; processRange
\* goes on with the next event.
HandlerThrows(w) ==
    /\ InHandler(w, "handle") \/ InHandler(w, "write")
    /\ failures < MaxFailures
    /\ failures' = failures + 1
    /\ skipped' = skipped \cup {Head(range[w].page)}
    /\ EventDone(w)
    /\ UNCHANGED db

\* startLedger = lastProcessed + 1, and the return of to + 1 once the range
\* is exhausted.
Advance(w) ==
    LET r == range[w]
        done == r.last + 1 > r.to
    IN  /\ range' = [range EXCEPT ![w] =
              IF done THEN Idle ELSE RangeOf(r.last + 1, r.to)]
        /\ cursor' = IF done /\ w = "main" THEN r.to + 1 ELSE cursor
        /\ UNCHANGED <<chain, db, attempted, skipped, crashes, reindexes>>

\* Slip: the checkpoint is saved before the events are handled.
PageDone_Early(w) == range[w].pc = "handle"

PageDone(w) == range[w].pc = "handle" /\ range[w].page = <<>>

SaveCheckpoint(w) ==
    /\ PageDone(w)
    /\ checkpoint' = range[w].last
    /\ Advance(w)
    /\ UNCHANGED failures

\* startLedger has already moved when the upsert of the checkpoint fails.
SaveThrows(w) ==
    /\ PageDone(w)
    /\ failures < MaxFailures
    /\ failures' = failures + 1
    /\ Advance(w)
    /\ UNCHANGED checkpoint

-----------------------------------------------------------------------------
(* The process *)

\* Backfill and live polling: both process the range from the cursor to the
\* latest ledger.
Poll ==
    /\ range["main"].pc = "idle"
    /\ range' = IF cursor <= Tip
                THEN [range EXCEPT !["main"] = RangeOf(cursor, Tip)]
                ELSE range
    /\ UNCHANGED <<chain, db, attempted, skipped, checkpoint, cursor,
                   crashes, reindexes, failures>>

reindex ==
    /\ range["reindex"].pc = "idle"
    /\ reindexes < MaxReindexes
    /\ reindexes' = reindexes + 1
    /\ \E from \in 1..Tip :
          range' = [range EXCEPT !["reindex"] = RangeOf(from, Tip)]
    /\ UNCHANGED <<chain, db, attempted, skipped, checkpoint, cursor, crashes, failures>>

\* Slip: one ledger too far.
ResumeAt_Late == IF StartLedger # 0 THEN StartLedger ELSE checkpoint + 2

ResumeAt == IF StartLedger # 0 THEN StartLedger ELSE checkpoint + 1

\* The process dies between two awaits and startIndexer runs again.
Restart ==
    /\ crashes < MaxCrashes
    /\ crashes' = crashes + 1
    /\ range' = [w \in Workers |-> Idle]
    /\ cursor' = ResumeAt
    /\ UNCHANGED <<chain, db, attempted, skipped, checkpoint, reindexes, failures>>

Init ==
    /\ chain = <<>>
    /\ db = NoRows
    /\ attempted = {} /\ skipped = {}
    /\ checkpoint = 0
    /\ cursor = IF StartLedger # 0 THEN StartLedger ELSE 1
    /\ range = [w \in Workers |-> Idle]
    /\ crashes = 0 /\ reindexes = 0 /\ failures = 0

Step(w) ==
    \/ FetchPage(w)
    \/ HandleEvent(w)
    \/ ReadSigners(w)
    \/ WriteSigners(w)
    \/ SaveCheckpoint(w)

Next ==
    \/ CloseLedger
    \/ Poll
    \/ reindex
    \/ \E w \in Workers : Step(w) \/ HandlerThrows(w) \/ SaveThrows(w)
    \/ Restart

Spec == Init /\ [][Next]_vars

\* The event loop resumes every promise that settles, and calls that fail are
\* retried or skipped: the polling loop always takes its next step.
FairSpec == Spec /\ WF_vars(Poll \/ Step("main"))
-----------------------------------------------------------------------------
(* Properties *)

\* The types of the variables of the indexer.
TypeOK ==
    /\ \A l \in 1..Tip : \A k \in 1..Len(chain[l]) : chain[l][k].topic \in Topics
    /\ db \in Tables
    /\ attempted \subseteq Published /\ skipped \subseteq attempted
    /\ checkpoint \in 0..Tip
    /\ cursor \in Nat
    /\ \A w \in Workers :
          /\ range[w].pc \in {"idle", "fetch", "handle", "write"}
          /\ range[w].pc # "idle" => range[w].start \in 1..range[w].to
          /\ range[w].to \in 0..Tip
          /\ range[w].last \in 0..range[w].to
          /\ Range(range[w].page) \subseteq Published

\* While no ledger holds more than one event: the Checkpoint row names a
\* ledger up to which every event was handed to its handler (schema.prisma:
\* "tracking the last fully-processed ledger sequence"), so that a restart,
\* which resumes after it, misses none.
CheckpointCovers == \A p \in Published : p[1] <= checkpoint => p \in attempted

\* When ledgers hold several events, a page may end inside a ledger.  What
\* processRange then leaves behind is only ever the end of such a ledger: no
\* restart, page border or failing handler makes it pass over the first event
\* of a ledger, or over an event that precedes a handled one in its ledger.
SkipsOnlyTails ==
    \A p \in Published : p[1] <= checkpoint /\ p \notin attempted =>
        /\ p[2] > 1
        /\ <<p[1], 1>> \in attempted
        /\ \A q \in Published : q[1] = p[1] /\ Precedes(p, q) => q \notin attempted

\* What the contract's storage holds after the events of the chain.
ChainState ==
    LET seen(t) == Seen(Log, t)
    IN  [attestation |-> IF seen("revoked") THEN "revoked"
                         ELSE IF \E u \in Creations : seen(u) THEN "valid" ELSE "none",
         signers |-> IF seen("ms_prop") THEN 1..Signatures(Log) ELSE {},
         signatureCount |-> IF seen("ms_prop") THEN Signatures(Log) ELSE 0,
         finalized |-> seen("ms_actv"),
         request |-> IF seen("req_ful") \/ seen("req_ok") THEN "FULFILLED"
                     ELSE IF seen("req_rej") \/ seen("req_no") THEN "REJECTED"
                     ELSE IF seen("att_req") THEN "PENDING" ELSE "none",
         issuer |-> IF seen("iss_reg") THEN "basic" ELSE "none"]

CaughtUp == cursor > Tip /\ \A w \in Workers : range[w].pc = "idle"

\* Whenever the indexer has caught up with the tip and no handler threw, its
\* tables say what the contract says, however often it was restarted and
\* whatever it processed twice (indexer/README.md: "re-processing is
\* idempotent").
CaughtUpMirrors == CaughtUp /\ skipped = {} => db = ChainState

\* What a step may not undo in the tables.
KeepsTerminal ==
    /\ db.attestation = "revoked" => db'.attestation = "revoked"
    /\ db.finalized => db'.finalized
    /\ db.request \in {"FULFILLED", "REJECTED"} => db'.request = db.request

\* Handling an event again, in any order with other handlers, never takes a
\* row back from a final state: a revoked attestation, a finalized proposal
\* or an answered request stays so.
TerminalStatesStick == [][KeepsTerminal]_vars

\* Every event of the chain is eventually handed to its handler, whatever
\* crashes, failing handlers and failing saves happen on the way.
EveryEventAttempted ==
    \A l \in 1..MaxLedger, k \in 1..MaxEventsPerLedger :
        <<l, k>> \in Published ~> <<l, k>> \in attempted
============================================================================
