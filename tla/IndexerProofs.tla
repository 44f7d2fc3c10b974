---------------------------- MODULE IndexerProofs ----------------------------
(***************************************************************************)
(* Theorems about Indexer, for chains and pages of any length: what        *)
(* processRange leaves behind the checkpoint, and which rows no handler    *)
(* takes back.                                                             *)
(***************************************************************************)
EXTENDS Indexer, FiniteSetTheorems, WellFoundedInduction, TLAPS

-----------------------------------------------------------------------------
(* The pages                                                               *)

LEMMA PrecedesIsOrder ==
    ASSUME NEW p \in Nat \X Nat, NEW q \in Nat \X Nat, NEW r \in Nat \X Nat
    PROVE  /\ p = q \/ Precedes(p, q) \/ Precedes(q, p)
           /\ ~Precedes(p, p)
           /\ Precedes(p, q) => ~Precedes(q, p)
           /\ Precedes(p, q) /\ Precedes(q, r) => Precedes(p, r)
BY DEF Precedes

\* The places are numbered without gaps, in their order.
LEMMA Numbering ==
    ASSUME NEW all \in SUBSET (Nat \X Nat), IsFiniteSet(all)
    PROVE  /\ Cardinality(all) \in Nat
           /\ \A p \in all : Position(p, all) \in 1..Cardinality(all)
           /\ \A p, q \in all : Precedes(p, q) => Position(p, all) < Position(q, all)
           /\ \A p, q \in all : Position(p, all) = Position(q, all) => p = q
           /\ \A n \in 1..Cardinality(all) : \E p \in all : Position(p, all) = n
<1> DEFINE upto(p) == {q \in all : q = p \/ Precedes(q, p)}
           total == Cardinality(all)
           number == [p \in all |-> Cardinality(upto(p))]
<1>1. total \in Nat
  BY FS_CardinalityType
<1>2. ASSUME NEW p \in all
      PROVE  /\ IsFiniteSet(upto(p)) /\ Cardinality(upto(p)) \in Nat
             /\ Cardinality(upto(p)) \in 1..total
  <2>1. upto(p) \in SUBSET all /\ p \in upto(p)
    OBVIOUS
  <2>2. IsFiniteSet(upto(p)) /\ Cardinality(upto(p)) <= total
    BY <2>1, FS_Subset
  <2>3. Cardinality(upto(p)) \in Nat /\ Cardinality(upto(p)) # 0
    BY <2>1, <2>2, FS_CardinalityType, FS_EmptySet
  <2> HIDE DEF upto, total
  <2> QED
    BY <1>1, <2>2, <2>3
<1>3. ASSUME NEW p \in all, NEW q \in all, Precedes(p, q)
      PROVE  Cardinality(upto(p)) < Cardinality(upto(q))
  <2>1. upto(p) \in SUBSET upto(q) /\ q \in upto(q) /\ q \notin upto(p)
    <3>1. \A x \in all : Precedes(x, p) => Precedes(x, q)
      BY <1>3, PrecedesIsOrder
    <3>2. q # p /\ ~Precedes(q, p)
      BY <1>3, PrecedesIsOrder
    <3> QED
      BY <1>3, <3>1, <3>2
  <2>2. Cardinality(upto(p)) <= Cardinality(upto(q))
    BY <1>2, <2>1, FS_Subset
  <2>3. Cardinality(upto(p)) # Cardinality(upto(q))
    BY <1>2, <2>1, FS_Subset
  <2>4. Cardinality(upto(p)) \in Nat /\ Cardinality(upto(q)) \in Nat
    BY <1>2
  <2> HIDE DEF upto
  <2> QED
    BY <2>2, <2>3, <2>4
<1>4. ASSUME NEW p \in all, NEW q \in all, Cardinality(upto(p)) = Cardinality(upto(q))
      PROVE  p = q
  <2>1. Cardinality(upto(p)) \in Nat /\ Cardinality(upto(q)) \in Nat
    BY <1>2
  <2>2. ~Precedes(p, q)
    <3> SUFFICES ASSUME Precedes(p, q) PROVE FALSE
      OBVIOUS
    <3>1. Cardinality(upto(p)) < Cardinality(upto(q))
      BY <1>3
    <3> HIDE DEF upto
    <3> QED
      BY <1>4, <2>1, <3>1
  <2>3. ~Precedes(q, p)
    <3> SUFFICES ASSUME Precedes(q, p) PROVE FALSE
      OBVIOUS
    <3>1. Cardinality(upto(q)) < Cardinality(upto(p))
      BY <1>3
    <3> HIDE DEF upto
    <3> QED
      BY <1>4, <2>1, <3>1
  <2> QED
    BY <2>2, <2>3, PrecedesIsOrder
<1>5. IsFiniteSet(1..total) /\ Cardinality(1..total) = total
  <2> HIDE DEF total
  <2>1. /\ IsFiniteSet(1..total)
        /\ Cardinality(1..total) = IF 1 > total THEN 0 ELSE total - 1 + 1
    BY <1>1, FS_Interval
  <2> QED
    BY <1>1, <2>1
<1>6. number \in Injection(all, 1..total)
  <2>1. number \in [all -> 1..total]
    BY <1>2
  <2> QED
    BY <1>4, <2>1 DEF Injection, IsInjective
<1>7. number \in Surjection(all, 1..total)
  BY <1>5, <1>6, FS_Injection
<1>8. \A n \in 1..total : \E p \in all : number[p] = n
  BY <1>7 DEF Surjection
<1>9. \A p \in all : Position(p, all) = Cardinality(upto(p))
  BY DEF Position
<1> HIDE DEF upto
<1> QED
  BY <1>1, <1>2, <1>3, <1>4, <1>8, <1>9

\* The end of a page is the smaller of two numbers.
LEMMA LeastOfTwo ==
    ASSUME NEW a \in Int, NEW b \in Int
    PROVE  Min({a, b}) = IF a <= b THEN a ELSE b
<1>1. \E x \in {a, b} : \A y \in {a, b} : x <= y
  OBVIOUS
<1> QED
  BY <1>1 DEF Min

\* The places of the chain are finitely many pairs of numbers.
LEMMA PublishedFinite ==
    ASSUME NEW S, chain \in Seq(S)
    PROVE  /\ Tip \in Nat
           /\ Published \in SUBSET (Nat \X Nat)
           /\ IsFiniteSet(Published)
           /\ \A p \in Published : p[1] \in 1..Tip /\ p[2] \in 1..MaxEventsPerLedger
<1>1. Tip \in Nat /\ MaxEventsPerLedger \in Nat
  BY IndexerAssumption DEF Tip
<1>2. Published \in SUBSET ((1..Tip) \X (1..MaxEventsPerLedger))
  BY DEF Published, Places
<1>3. IsFiniteSet((1..Tip) \X (1..MaxEventsPerLedger))
  <2>1. IsFiniteSet(1..Tip)
    BY <1>1, FS_Interval, 1 \in Int, Tip \in Int
  <2>2. IsFiniteSet(1..MaxEventsPerLedger)
    BY <1>1, FS_Interval, 1 \in Int, MaxEventsPerLedger \in Int
  <2> QED
    BY <2>1, <2>2, FS_Product
<1>4. IsFiniteSet(Published)
  BY <1>2, <1>3, FS_Subset
<1>5. /\ Published \in SUBSET (Nat \X Nat)
      /\ \A p \in Published : p[1] \in 1..Tip /\ p[2] \in 1..MaxEventsPerLedger
  BY <1>1, <1>2
<1> QED
  BY <1>1, <1>4, <1>5

\* A page starts at the first event of the range and leaves none out before
\* its end, and goes through its places in their order.
LEMMA PageIsFront ==
    ASSUME NEW S, chain \in Seq(S), NEW start, NEW end
    PROVE  LET pg  == Page(start, end)
               all == PlacesIn(start, end)
           IN  /\ pg \in Seq(all)
               /\ pg = <<>> => all = {}
               /\ \A i \in 1..Len(pg), q \in all :
                     Precedes(q, pg[i]) => \E j \in 1..(i - 1) : pg[j] = q
               /\ \A i, j \in 1..Len(pg) : i < j => Precedes(pg[i], pg[j])
<1> DEFINE all == PlacesIn(start, end)
           total == Cardinality(all)
           size == Min({PageLimit, total})
           pg == Page(start, end)
<1>1. all \in SUBSET (Nat \X Nat) /\ IsFiniteSet(all)
  <2>1. all \in SUBSET Published
    BY DEF PlacesIn
  <2> QED
    BY <2>1, PublishedFinite, FS_Subset
<1>2. /\ total \in Nat
      /\ \A p \in all : Position(p, all) \in 1..total
      /\ \A p, q \in all : Precedes(p, q) => Position(p, all) < Position(q, all)
      /\ \A p, q \in all : Position(p, all) = Position(q, all) => p = q
      /\ \A n \in 1..total : \E p \in all : Position(p, all) = n
  BY <1>1, Numbering
<1>3. pg = [n \in 1..size |-> CHOOSE p \in all : Position(p, all) = n]
  BY DEF Page
<1>e. total = 0 => all = {}
  BY <1>1, FS_EmptySet
<1> HIDE DEF all, total, pg
<1>4. size \in 0..total /\ size \in Nat /\ (size = 0 => total = 0)
  BY <1>2, LeastOfTwo, IndexerAssumption
<1> HIDE DEF size
<1>5. \A n \in 1..size : pg[n] \in all /\ Position(pg[n], all) = n
  BY <1>2, <1>3, <1>4
<1>6. pg \in Seq(all) /\ Len(pg) = size
  BY <1>3, <1>4, <1>5
<1>7. pg = <<>> => all = {}
  BY <1>4, <1>6, <1>e
<1>8. ASSUME NEW i \in 1..size, NEW q \in all, Precedes(q, pg[i])
      PROVE  \E j \in 1..(i - 1) : pg[j] = q
  <2>1. Position(q, all) \in 1..total /\ Position(q, all) < i
    BY <1>2, <1>5, <1>8
  <2>2. Position(q, all) \in 1..size /\ Position(q, all) \in 1..(i - 1)
    BY <1>4, <2>1
  <2>3. pg[Position(q, all)] = q
    BY <1>2, <1>5, <2>2
  <2> QED
    BY <2>2, <2>3
<1>9. ASSUME NEW i \in 1..size, NEW j \in 1..size, i < j PROVE Precedes(pg[i], pg[j])
  <2>1. /\ pg[i] \in all /\ Position(pg[i], all) = i
        /\ pg[j] \in all /\ Position(pg[j], all) = j
    BY <1>5
  <2>2. pg[i] # pg[j]
    BY <1>9, <2>1
  <2>3. ~Precedes(pg[j], pg[i])
    <3> SUFFICES ASSUME Precedes(pg[j], pg[i]) PROVE FALSE
      OBVIOUS
    <3>1. j < i
      BY <1>2, <2>1
    <3> QED
      BY <1>4, <1>9, <3>1
  <2> QED
    BY <1>1, <2>1, <2>2, <2>3, PrecedesIsOrder
<1> QED
  BY <1>6, <1>7, <1>8, <1>9 DEF pg, all

-----------------------------------------------------------------------------
(* What is behind the checkpoint.  The job of an operator is left out: it  *)
(* moves the checkpoint wherever it likes.                                 *)

Activation(R) ==
    [pc : {"idle", "fetch", "handle", "write"}, start : Nat, to : Nat,
     page : Seq(Nat \X Nat), last : Nat, read : R]

\* The first events of the ledgers up to l were handed to their handlers.
FirstsDone(l) == \A p \in Published : p[1] <= l /\ p[2] = 1 => p \in attempted

\* No event was passed over before one that was handled, within a ledger.
PrefixesDone ==
    \A p \in attempted : \A q \in Published :
       q[1] = p[1] /\ Precedes(q, p) => q \in attempted

\* The page that is worked on: what is left of it carries on from what was
\* handled, and holds the first events that are missing.
PageCarriesOn(page, last) ==
    /\ \A i \in 1..Len(page) : page[i] \in Published
    /\ \A i \in 1..Len(page) : \A q \in Published :
          q[1] = page[i][1] /\ Precedes(q, page[i])
             => q \in attempted \/ \E j \in 1..(i - 1) : page[j] = q
    /\ \A p \in Published :
          p[1] <= last /\ p[2] = 1 => p \in attempted \/ \E j \in 1..Len(page) : page[j] = p

MainInv ==
    LET r == range["main"]
    IN  /\ r.pc # "idle" => /\ 1 <= r.start /\ r.start <= r.to /\ r.to <= Tip
                            /\ FirstsDone(r.start - 1)
        /\ r.pc \in {"handle", "write"} => /\ r.last <= r.to
                                           /\ PageCarriesOn(r.page, r.last)

IndexerTypes ==
    /\ \E S : chain \in Seq(S)
    /\ \E R : range \in [Workers -> Activation(R)]
    /\ reindexes = 0
    /\ range["reindex"].pc = "idle"
    /\ attempted \subseteq Published
    /\ checkpoint \in Nat /\ checkpoint <= Tip
    /\ cursor \in Nat /\ 1 <= cursor /\ cursor <= Tip + 1

IndexerInv ==
    /\ IndexerTypes
    /\ PrefixesDone
    /\ FirstsDone(checkpoint)
    /\ FirstsDone(cursor - 1)
    /\ MainInv

\* The loop writes its own activation only.
LEMMA MainUpdated ==
    ASSUME NEW R, range \in [Workers -> Activation(R)], range["reindex"].pc = "idle",
           NEW Q, NEW r \in Activation(Q), range' = [range EXCEPT !["main"] = r]
    PROVE  /\ \E T : range' \in [Workers -> Activation(T)]
           /\ range'["main"] = r
           /\ range'["reindex"].pc = "idle"
<1>1. "main" \in Workers /\ "reindex" \in Workers
  BY DEF Workers
<1>2. Activation(R) \subseteq Activation(R \cup Q) /\ Activation(Q) \subseteq Activation(R \cup Q)
  BY DEF Activation
<1>3. range' \in [Workers -> Activation(R \cup Q)]
  BY <1>1, <1>2
<1> QED
  BY <1>1, <1>3

\* Only the main loop is under way.
LEMMA OnlyMain ==
    ASSUME IndexerInv, NEW w \in Workers, Step(w) \/ HandlerThrows(w) \/ SaveThrows(w)
    PROVE  w = "main"
BY DEF IndexerInv, IndexerTypes, Workers, Step, FetchPage, HandleEvent, ReadSigners,
       WriteSigners, SaveCheckpoint, HandlerThrows, SaveThrows, InHandler, PageDone

\* A ledger that closes adds events behind the tip.
LEMMA LedgerCloses ==
    ASSUME IndexerInv, CloseLedger
    PROVE  /\ \E S : chain' \in Seq(S)
           /\ Tip' = Tip + 1 /\ Tip \in Nat
           /\ Published \subseteq Published'
           /\ \A p \in Published' : p[1] \in Nat /\ (p[1] <= Tip => p \in Published)
<1>1. PICK S : chain \in Seq(S)
  BY DEF IndexerInv, IndexerTypes
<1>2. PICK evs : chain' = Append(chain, evs)
  BY DEF CloseLedger
<1>3. chain \in Seq(S \cup {evs})
  BY <1>1
<1>4. chain' \in Seq(S \cup {evs})
  BY <1>2, <1>3
<1>5. /\ Tip' = Tip + 1 /\ Tip \in Nat
      /\ \A l \in 1..Tip : chain'[l] = chain[l]
  BY <1>2, <1>3 DEF Tip
<1>6. Published \subseteq Published'
  BY <1>5 DEF Published, Places
<1>7. \A p \in Published' : p[1] \in Nat /\ (p[1] <= Tip => p \in Published)
  BY <1>5 DEF Published, Places
<1> QED
  BY <1>4, <1>5, <1>6, <1>7

\* Each step of the chain and of the loop keeps the invariant.
LEMMA CloseKeeps ==
    ASSUME IndexerInv, CloseLedger PROVE IndexerInv'
<1>1. /\ \E S : chain' \in Seq(S)
      /\ Tip' = Tip + 1 /\ Tip \in Nat
      /\ Published \subseteq Published'
      /\ \A p \in Published' : p[1] \in Nat /\ (p[1] <= Tip => p \in Published)
  BY LedgerCloses
<1>2. UNCHANGED <<attempted, checkpoint, cursor, range, reindexes>>
  BY DEF CloseLedger
<1>3. IndexerTypes'
  BY <1>1, <1>2 DEF IndexerInv, IndexerTypes
<1>4. ASSUME NEW l \in Int, l <= Tip, FirstsDone(l)
      PROVE  \A p \in Published' : p[1] <= l /\ p[2] = 1 => p \in attempted
  BY <1>1, <1>4 DEF FirstsDone
<1>5. FirstsDone(checkpoint)' /\ FirstsDone(cursor - 1)'
  BY <1>1, <1>2, <1>4 DEF IndexerInv, IndexerTypes, FirstsDone
<1>6. PrefixesDone'
  <2>1. PICK S : chain \in Seq(S)
    BY DEF IndexerInv, IndexerTypes
  <2>2. \A p \in attempted : p \in Published /\ p[1] <= Tip
    BY <2>1, PublishedFinite DEF IndexerInv, IndexerTypes
  <2> QED
    BY <1>1, <1>2, <2>2 DEF IndexerInv, PrefixesDone
<1>7. MainInv'
  <2>1. PICK R : range \in [Workers -> Activation(R)]
    BY DEF IndexerInv, IndexerTypes
  <2>2. PICK r \in Activation(R) : r = range["main"]
    BY <2>1 DEF Workers
  <2>3. range'["main"] = r
    BY <1>2, <2>2
  <2>4. r.start \in Nat /\ r.to \in Nat /\ r.last \in Nat /\ r.page \in Seq(Nat \X Nat)
    BY DEF Activation
  <2>5. /\ r.pc # "idle" => /\ 1 <= r.start /\ r.start <= r.to /\ r.to <= Tip
                            /\ FirstsDone(r.start - 1)
        /\ r.pc \in {"handle", "write"} => /\ r.last <= r.to
                                           /\ PageCarriesOn(r.page, r.last)
    BY <2>2 DEF IndexerInv, MainInv
  <2>6. ASSUME r.pc # "idle"
        PROVE  /\ 1 <= r.start /\ r.start <= r.to /\ r.to <= Tip'
               /\ \A p \in Published' : p[1] <= r.start - 1 /\ p[2] = 1 => p \in attempted'
    <3>1. 1 <= r.start /\ r.start <= r.to /\ r.to <= Tip /\ FirstsDone(r.start - 1)
      BY <2>5, <2>6
    <3>2. r.start - 1 \in Int /\ r.start - 1 <= Tip /\ r.to <= Tip'
      BY <1>1, <2>4, <3>1
    <3>3. \A p \in Published' : p[1] <= r.start - 1 /\ p[2] = 1 => p \in attempted
      BY <1>4, <3>1, <3>2
    <3> QED
      BY <1>2, <3>1, <3>2, <3>3
  <2>7. ASSUME r.pc \in {"handle", "write"}
        PROVE  r.last <= r.to /\ PageCarriesOn(r.page, r.last)'
    <3>1. r.last <= r.to /\ r.to <= Tip /\ PageCarriesOn(r.page, r.last)
      BY <2>5, <2>7
    <3>2. PICK S : chain \in Seq(S)
      BY DEF IndexerInv, IndexerTypes
    <3>4. \A i \in 1..Len(r.page) : r.page[i] \in Published /\ r.page[i][1] <= Tip
      BY <3>1, <3>2, PublishedFinite DEF PageCarriesOn
    <3>5. \A i \in 1..Len(r.page) : \A q \in Published' :
             q[1] = r.page[i][1] /\ Precedes(q, r.page[i])
                => q \in attempted' \/ \E j \in 1..(i - 1) : r.page[j] = q
      BY <1>1, <1>2, <3>1, <3>4 DEF PageCarriesOn
    <3>6. \A p \in Published' : p[1] <= r.last /\ p[2] = 1
             => p \in attempted' \/ \E j \in 1..Len(r.page) : r.page[j] = p
      BY <1>1, <1>2, <2>4, <3>1 DEF PageCarriesOn
    <3> QED
      BY <1>1, <3>1, <3>4, <3>5, <3>6 DEF PageCarriesOn
  <2> QED
    BY <2>3, <2>6, <2>7 DEF MainInv, FirstsDone, PageCarriesOn
<1> QED
  BY <1>3, <1>5, <1>6, <1>7 DEF IndexerInv

\* The page without its first event.
LEMMA TailShifts ==
    ASSUME NEW X, NEW page \in Seq(X), page # <<>>
    PROVE  /\ Len(page) \in Nat /\ Len(page) >= 1
           /\ Tail(page) \in Seq(X) /\ Head(page) = page[1]
           /\ \A i \in 1..Len(Tail(page)) :
                 i + 1 \in 1..Len(page) /\ Tail(page)[i] = page[i + 1]
           /\ \A j \in 1..Len(page) :
                 j # 1 => j - 1 \in 1..Len(Tail(page)) /\ Tail(page)[j - 1] = page[j]
<1>1. PICK n \in Nat : n = Len(page) /\ n >= 1
  OBVIOUS
<1>2. PICK rest : rest = Tail(page)
  OBVIOUS
<1>3. /\ rest \in Seq(X) /\ Head(page) = page[1] /\ Len(rest) = n - 1
      /\ \A i \in 1..(n - 1) : rest[i] = page[i + 1]
  BY <1>1, <1>2
<1>4. \A i \in 1..(n - 1) : i + 1 \in 1..n
  BY <1>1
<1>5. ASSUME NEW j \in 1..n, j # 1 PROVE j - 1 \in 1..(n - 1) /\ rest[j - 1] = page[j]
  <2>1. j - 1 \in 1..(n - 1) /\ (j - 1) + 1 = j
    BY <1>1, <1>5
  <2> QED
    BY <1>3, <2>1
<1> QED
  BY <1>1, <1>2, <1>3, <1>4, <1>5

\* The handler of the first event of the page is done.
LEMMA EventDoneKeeps ==
    ASSUME IndexerInv, InHandler("main", "handle") \/ InHandler("main", "write"),
           EventDone("main")
    PROVE  IndexerInv'
<1>1. PICK R : range \in [Workers -> Activation(R)]
  BY DEF IndexerInv, IndexerTypes
<1>2. PICK S : chain \in Seq(S)
  BY DEF IndexerInv, IndexerTypes
<1>3. PICK r \in Activation(R) : r = range["main"]
  BY <1>1 DEF Workers
<1>4. /\ r.pc \in {"handle", "write"} /\ r.page # <<>>
      /\ r.start \in Nat /\ r.to \in Nat /\ r.last \in Nat /\ r.page \in Seq(Nat \X Nat)
  BY <1>3 DEF Activation, InHandler
<1>5. PICK page : page = r.page
  OBVIOUS
<1>6. PICK rest : rest = Tail(page)
  OBVIOUS
<1>7. PICK head : head = Head(page)
  OBVIOUS
<1>8. /\ page \in Seq(Nat \X Nat) /\ rest \in Seq(Nat \X Nat)
      /\ Len(page) \in Nat /\ Len(page) >= 1 /\ head = page[1]
      /\ \A i \in 1..Len(rest) : i + 1 \in 1..Len(page) /\ rest[i] = page[i + 1]
      /\ \A j \in 1..Len(page) :
            j # 1 => j - 1 \in 1..Len(rest) /\ rest[j - 1] = page[j]
  BY <1>4, <1>5, <1>6, <1>7, TailShifts, ZenonT(30)
<1>9. /\ 1 <= r.start /\ r.start <= r.to /\ r.to <= Tip /\ FirstsDone(r.start - 1)
      /\ r.last <= r.to /\ PageCarriesOn(page, r.last)
  BY <1>3, <1>4, <1>5 DEF IndexerInv, MainInv
<1>10. PICK t : t = [r EXCEPT !.pc = "handle", !.page = rest, !.read = {}]
  OBVIOUS
<1>11. /\ t \in Activation(R \cup {{}})
       /\ t.pc = "handle" /\ t.start = r.start /\ t.to = r.to /\ t.last = r.last
       /\ t.page = rest
  BY <1>8, <1>10 DEF Activation
<1>12. range' = [range EXCEPT !["main"] = t]
  BY <1>1, <1>3, <1>5, <1>6, <1>10 DEF EventDone, Workers
<1>13. /\ \E T : range' \in [Workers -> Activation(T)]
       /\ range'["main"] = t
       /\ range'["reindex"].pc = "idle"
  BY <1>1, <1>11, <1>12, MainUpdated DEF IndexerInv, IndexerTypes
<1>14. /\ attempted' = attempted \cup {head}
       /\ UNCHANGED <<chain, checkpoint, cursor, reindexes>>
       /\ Published' = Published /\ Tip' = Tip
  BY <1>3, <1>5, <1>7 DEF EventDone, Published, Places, Tip
<1>15. head \in Published
  BY <1>8, <1>9 DEF PageCarriesOn
<1>16. IndexerTypes'
  BY <1>13, <1>14, <1>15 DEF IndexerInv, IndexerTypes
<1>17. PrefixesDone'
  <2>1. \A q \in Published : q[1] = head[1] /\ Precedes(q, head) => q \in attempted
    BY <1>8, <1>9 DEF PageCarriesOn
  <2> QED
    BY <1>14, <2>1 DEF IndexerInv, PrefixesDone
<1>18. FirstsDone(checkpoint)' /\ FirstsDone(cursor - 1)'
  BY <1>14 DEF IndexerInv, FirstsDone
<1>19. \A p \in Published' : p[1] <= t.start - 1 /\ p[2] = 1 => p \in attempted'
  BY <1>9, <1>11, <1>14 DEF FirstsDone
<1>20. /\ \A i \in 1..Len(rest) : rest[i] \in Published'
       /\ \A i \in 1..Len(rest) : \A q \in Published' :
             q[1] = rest[i][1] /\ Precedes(q, rest[i])
                => q \in attempted' \/ \E j \in 1..(i - 1) : rest[j] = q
       /\ \A p \in Published' : p[1] <= t.last /\ p[2] = 1
             => p \in attempted' \/ \E j \in 1..Len(rest) : rest[j] = p
  <2>1. ASSUME NEW i \in 1..Len(rest), NEW q \in Published,
               q[1] = rest[i][1], Precedes(q, rest[i])
        PROVE  q \in attempted' \/ \E j \in 1..(i - 1) : rest[j] = q
    <3>1. i + 1 \in 1..Len(page) /\ rest[i] = page[i + 1]
      BY <1>8
    <3>2. q \in attempted \/ \E j \in 1..i : page[j] = q
      BY <1>9, <2>1, <3>1 DEF PageCarriesOn
    <3>3. ASSUME NEW j \in 1..i, page[j] = q
          PROVE  q \in attempted' \/ \E k \in 1..(i - 1) : rest[k] = q
      <4>1. CASE j = 1
        BY <1>8, <1>14, <3>3, <4>1
      <4>2. CASE j # 1
        <5>1. j \in 1..Len(page) /\ j - 1 \in 1..(i - 1)
          <6>1. i + 1 \in 1..Len(page) /\ Len(page) \in Nat
            BY <1>8, <3>1
          <6>2. i \in Nat
            BY <6>1
          <6> QED
            BY <4>2, <6>1, <6>2
        <5>2. rest[j - 1] = page[j]
          BY <1>8, <4>2, <5>1
        <5> QED
          BY <3>3, <5>1, <5>2
      <4> QED
        BY <4>1, <4>2
    <3> QED
      BY <1>14, <3>2, <3>3
  <2>2. ASSUME NEW p \in Published, p[1] <= t.last, p[2] = 1
        PROVE  p \in attempted' \/ \E j \in 1..Len(rest) : rest[j] = p
    <3>1. p \in attempted \/ \E j \in 1..Len(page) : page[j] = p
      BY <1>9, <1>11, <2>2 DEF PageCarriesOn
    <3>2. ASSUME NEW j \in 1..Len(page), page[j] = p
          PROVE  p \in attempted' \/ \E k \in 1..Len(rest) : rest[k] = p
      <4>1. CASE j = 1
        BY <1>8, <1>14, <3>2, <4>1
      <4>2. CASE j # 1
        <5>1. j - 1 \in 1..Len(rest) /\ rest[j - 1] = page[j]
          BY <1>8, <4>2
        <5> QED
          BY <3>2, <5>1
      <4> QED
        BY <4>1, <4>2
    <3> QED
      BY <1>14, <3>1, <3>2
  <2>3. \A i \in 1..Len(rest) : rest[i] \in Published
    BY <1>8, <1>9 DEF PageCarriesOn
  <2> QED
    BY <1>14, <2>1, <2>2, <2>3
<1>21. MainInv'
  BY <1>9, <1>11, <1>13, <1>14, <1>19, <1>20 DEF MainInv, FirstsDone, PageCarriesOn
<1> QED
  BY <1>16, <1>17, <1>18, <1>21 DEF IndexerInv

\* A step that changes the activation of the main loop to t, and perhaps the
\* cursor and the checkpoint, but handles no event.
LEMMA LoopKeeps ==
    ASSUME IndexerInv, NEW Q, NEW t \in Activation(Q),
           range' = [range EXCEPT !["main"] = t],
           UNCHANGED <<chain, attempted, reindexes>>,
           checkpoint' \in Nat, checkpoint' <= Tip, FirstsDone(checkpoint'),
           cursor' \in Nat, 1 <= cursor', cursor' <= Tip + 1, FirstsDone(cursor' - 1),
           t.pc # "idle" => /\ 1 <= t.start /\ t.start <= t.to /\ t.to <= Tip
                            /\ FirstsDone(t.start - 1),
           t.pc \in {"handle", "write"} => t.last <= t.to /\ PageCarriesOn(t.page, t.last)
    PROVE  IndexerInv'
<1>1. Published' = Published /\ Tip' = Tip
  BY DEF Published, Places, Tip
<1>2. /\ \E T : range' \in [Workers -> Activation(T)]
      /\ range'["main"] = t
      /\ range'["reindex"].pc = "idle"
  BY MainUpdated DEF IndexerInv, IndexerTypes
<1>3. IndexerTypes'
  BY <1>1, <1>2 DEF IndexerInv, IndexerTypes
<1>4. PrefixesDone'
  BY <1>1 DEF IndexerInv, PrefixesDone
<1>5. FirstsDone(checkpoint)' /\ FirstsDone(cursor - 1)'
  BY <1>1 DEF FirstsDone
<1>6. MainInv'
  BY <1>1, <1>2 DEF MainInv, FirstsDone, PageCarriesOn
<1> QED
  BY <1>3, <1>4, <1>5, <1>6 DEF IndexerInv

\* A fetched page carries on from what was handled.
LEMMA FetchKeeps ==
    ASSUME IndexerInv, FetchPage("main") PROVE IndexerInv'
<1>1. PICK R : range \in [Workers -> Activation(R)]
  BY DEF IndexerInv, IndexerTypes
<1>2. PICK S : chain \in Seq(S)
  BY DEF IndexerInv, IndexerTypes
<1>3. PICK r \in Activation(R) : r = range["main"]
  BY <1>1 DEF Workers
<1>4. PICK end : end = Min({r.start + PageLimit - 1, r.to})
  OBVIOUS
<1>5. PICK pg : pg = Page(r.start, end)
  OBVIOUS
<1>6. PICK all : all = PlacesIn(r.start, end)
  OBVIOUS
<1>7. PICK last : last = IF pg = <<>> THEN end ELSE Last(pg)[1]
  OBVIOUS
<1>8. PICK t : t = [r EXCEPT !.pc = "handle", !.page = pg, !.last = last]
  OBVIOUS
<1>9. /\ r.pc = "fetch"
      /\ range' = [range EXCEPT !["main"] = t]
      /\ UNCHANGED <<chain, attempted, checkpoint, cursor, reindexes>>
  BY <1>3, <1>4, <1>5, <1>7, <1>8 DEF FetchPage
<1>10. /\ r.start \in Nat /\ r.to \in Nat
       /\ 1 <= r.start /\ r.start <= r.to /\ r.to <= Tip /\ FirstsDone(r.start - 1)
  BY <1>3, <1>9 DEF IndexerInv, MainInv, Activation
<1>11. end \in Nat /\ r.start <= end /\ end <= r.to
  BY <1>4, <1>10, LeastOfTwo, IndexerAssumption
<1>12. /\ Tip \in Nat /\ Published \in SUBSET (Nat \X Nat)
       /\ \A p \in Published : p[1] \in 1..Tip /\ p[2] \in 1..MaxEventsPerLedger
  BY <1>2, PublishedFinite
<1>13. /\ pg \in Seq(all)
       /\ pg = <<>> => all = {}
       /\ \A i \in 1..Len(pg), q \in all :
             Precedes(q, pg[i]) => \E j \in 1..(i - 1) : pg[j] = q
  BY <1>2, <1>5, <1>6, PageIsFront
<1>14. /\ all \subseteq Published
       /\ \A p \in Published : p \in all <=> r.start <= p[1] /\ p[1] <= end
  BY <1>6 DEF PlacesIn
<1>15. Len(pg) \in Nat /\ \A i \in 1..Len(pg) : pg[i] \in all
  BY <1>13
<1>16. pg # <<>> => Len(pg) \in 1..Len(pg) /\ last = pg[Len(pg)][1] /\ pg[Len(pg)] \in all
  BY <1>7, <1>13, <1>15 DEF Last
<1>17. last \in Nat /\ last <= end
  BY <1>7, <1>11, <1>12, <1>14, <1>16
<1>18. /\ t \in Activation(R)
       /\ t.pc = "handle" /\ t.start = r.start /\ t.to = r.to /\ t.last = last /\ t.page = pg
  <2>1. pg \in Seq(Nat \X Nat)
    BY <1>12, <1>13, <1>14
  <2> QED
    BY <1>8, <1>17, <2>1 DEF Activation
<1>19. PageCarriesOn(pg, last)
  <2>1. \A i \in 1..Len(pg) : pg[i] \in Published
    BY <1>14, <1>15
  <2>2. ASSUME NEW i \in 1..Len(pg), NEW q \in Published,
               q[1] = pg[i][1], Precedes(q, pg[i])
        PROVE  \E j \in 1..(i - 1) : pg[j] = q
    <3>1. pg[i] \in all /\ pg[i] \in Published
      BY <1>14, <1>15
    <3>2. q \in all
      BY <1>14, <2>2, <3>1
    <3> QED
      BY <1>13, <2>2, <3>2
  <2>3. ASSUME NEW p \in Published, p[1] <= last, p[2] = 1
        PROVE  p \in attempted \/ \E j \in 1..Len(pg) : pg[j] = p
    <3>1. CASE p[1] < r.start
      <4>1. p[1] <= r.start - 1
        BY <1>10, <1>12, <3>1
      <4> QED
        BY <1>10, <2>3, <4>1 DEF FirstsDone
    <3>2. CASE ~(p[1] < r.start)
      <4>1. p \in all
        BY <1>10, <1>11, <1>12, <1>14, <1>17, <2>3, <3>2
      <4>2. pg # <<>>
        BY <1>13, <4>1
      <4>3. PICK f \in Published : f = pg[Len(pg)]
        BY <1>14, <1>16, <4>2
      <4>4. p = f \/ Precedes(p, f)
        <5>1. last = f[1] /\ f \in Nat \X Nat /\ p \in Nat \X Nat /\ f[2] >= 1
          BY <1>12, <1>16, <4>2, <4>3
        <5> QED
          BY <2>3, <5>1 DEF Precedes
      <4>5. CASE p = f
        BY <1>16, <4>2, <4>3, <4>5
      <4>6. CASE Precedes(p, f)
        <5>1. PICK j \in 1..(Len(pg) - 1) : pg[j] = p
          BY <1>13, <1>16, <4>1, <4>2, <4>3, <4>6
        <5>2. j \in 1..Len(pg)
          BY <1>15
        <5> QED
          BY <5>1, <5>2
      <4> QED
        BY <4>4, <4>5, <4>6
    <3> QED
      BY <3>1, <3>2
  <2> QED
    BY <2>1, <2>2, <2>3 DEF PageCarriesOn
<1>20. last <= r.to
  BY <1>10, <1>11, <1>17
<1>21. /\ checkpoint' \in Nat /\ checkpoint' <= Tip /\ FirstsDone(checkpoint')
       /\ cursor' \in Nat /\ 1 <= cursor' /\ cursor' <= Tip + 1 /\ FirstsDone(cursor' - 1)
  BY <1>9 DEF IndexerInv, IndexerTypes
<1> QED
  BY <1>9, <1>10, <1>18, <1>19, <1>20, <1>21, LoopKeeps

LEMMA ReadKeeps ==
    ASSUME IndexerInv, ReadSigners("main") PROVE IndexerInv'
<1>1. PICK R : range \in [Workers -> Activation(R)]
  BY DEF IndexerInv, IndexerTypes
<1>2. PICK r \in Activation(R) : r = range["main"]
  BY <1>1 DEF Workers
<1>3. PICK t : t = [r EXCEPT !.pc = "write", !.read = db.signers]
  OBVIOUS
<1>4. /\ r.pc = "handle"
      /\ UNCHANGED <<chain, attempted, checkpoint, cursor, reindexes>>
  BY <1>2 DEF ReadSigners, InHandler
<1>5. range' = [range EXCEPT !["main"] = t]
  BY <1>1, <1>2, <1>3 DEF ReadSigners, Workers
<1>6. /\ t \in Activation(R \cup {db.signers})
      /\ t.pc = "write" /\ t.start = r.start /\ t.to = r.to /\ t.last = r.last
      /\ t.page = r.page
  BY <1>3 DEF Activation
<1>7. /\ 1 <= r.start /\ r.start <= r.to /\ r.to <= Tip /\ FirstsDone(r.start - 1)
      /\ r.last <= r.to /\ PageCarriesOn(r.page, r.last)
  BY <1>2, <1>4 DEF IndexerInv, MainInv
<1>8. /\ checkpoint' \in Nat /\ checkpoint' <= Tip /\ FirstsDone(checkpoint')
      /\ cursor' \in Nat /\ 1 <= cursor' /\ cursor' <= Tip + 1 /\ FirstsDone(cursor' - 1)
  BY <1>4 DEF IndexerInv, IndexerTypes
<1> QED
  BY <1>4, <1>5, <1>6, <1>7, <1>8, LoopKeeps

LEMMA NewActivation ==
    /\ Idle \in Activation({{}}) /\ Idle.pc = "idle"
    /\ \A from, to \in Nat :
          LET r == RangeOf(from, to)
          IN  r \in Activation({{}}) /\ r.pc = "fetch" /\ r.start = from /\ r.to = to
<1>1. <<>> \in Seq(Nat \X Nat)
  OBVIOUS
<1> QED
  BY <1>1 DEF Idle, RangeOf, Activation

\* The page is done, and the checkpoint saved or not.
LEMMA AdvanceKeeps ==
    ASSUME IndexerInv, PageDone("main"), Advance("main"),
           checkpoint' \in {checkpoint, range["main"].last}
    PROVE  IndexerInv'
<1>1. PICK R : range \in [Workers -> Activation(R)]
  BY DEF IndexerInv, IndexerTypes
<1>2. PICK r \in Activation(R) : r = range["main"]
  BY <1>1 DEF Workers
<1>3. /\ r.pc = "handle" /\ r.page = <<>>
      /\ UNCHANGED <<chain, attempted, reindexes>>
  BY <1>2 DEF PageDone, Advance
<1>4. /\ r.start \in Nat /\ r.to \in Nat /\ r.last \in Nat
      /\ r.to <= Tip /\ r.last <= r.to /\ PageCarriesOn(r.page, r.last)
  BY <1>2, <1>3 DEF IndexerInv, MainInv, Activation
<1>5. FirstsDone(r.last)
  BY <1>3, <1>4 DEF PageCarriesOn, FirstsDone
<1>6. PICK S : chain \in Seq(S)
  BY DEF IndexerInv, IndexerTypes
<1>7. Tip \in Nat
  BY <1>6, PublishedFinite
<1>8. checkpoint' \in Nat /\ checkpoint' <= Tip /\ FirstsDone(checkpoint')
  BY <1>2, <1>4, <1>5, <1>7 DEF IndexerInv, IndexerTypes
<1>9. ASSUME r.last + 1 > r.to PROVE IndexerInv'
  <2>1. range' = [range EXCEPT !["main"] = Idle] /\ cursor' = r.to + 1
    BY <1>2, <1>9 DEF Advance
  <2>2. r.last = r.to /\ (r.to + 1) - 1 = r.last
    BY <1>4, <1>9
  <2>3. cursor' \in Nat /\ 1 <= cursor' /\ cursor' <= Tip + 1 /\ cursor' - 1 = r.last
    BY <1>4, <1>7, <2>1, <2>2
  <2>4. FirstsDone(cursor' - 1)
    BY <1>5, <2>3
  <2> QED
    BY <1>3, <1>8, <2>1, <2>3, <2>4, NewActivation, LoopKeeps
<1>10. ASSUME ~(r.last + 1 > r.to) PROVE IndexerInv'
  <2>1. /\ range' = [range EXCEPT !["main"] = RangeOf(r.last + 1, r.to)]
        /\ cursor' = cursor
    BY <1>2, <1>10 DEF Advance
  <2>2. PICK t : t = RangeOf(r.last + 1, r.to)
    OBVIOUS
  <2>3. r.last + 1 \in Nat /\ 1 <= r.last + 1 /\ r.last + 1 <= r.to /\ (r.last + 1) - 1 = r.last
    BY <1>4, <1>10
  <2>4. t \in Activation({{}}) /\ t.pc = "fetch" /\ t.start = r.last + 1 /\ t.to = r.to
    BY <1>4, <2>2, <2>3, NewActivation
  <2>5. 1 <= t.start /\ t.start <= t.to /\ t.to <= Tip /\ FirstsDone(t.start - 1)
    BY <1>4, <1>5, <2>3, <2>4
  <2>6. cursor' \in Nat /\ 1 <= cursor' /\ cursor' <= Tip + 1 /\ FirstsDone(cursor' - 1)
    BY <2>1 DEF IndexerInv, IndexerTypes
  <2> QED
    BY <1>3, <1>8, <2>1, <2>2, <2>4, <2>5, <2>6, LoopKeeps
<1> QED
  BY <1>9, <1>10

LEMMA PollKeeps ==
    ASSUME IndexerInv, Poll PROVE IndexerInv'
<1>1. PICK R : range \in [Workers -> Activation(R)]
  BY DEF IndexerInv, IndexerTypes
<1>2. PICK S : chain \in Seq(S)
  BY DEF IndexerInv, IndexerTypes
<1>3. Tip \in Nat
  BY <1>2, PublishedFinite
<1>4. UNCHANGED <<chain, attempted, checkpoint, cursor, reindexes>>
  BY DEF Poll
<1>5. /\ checkpoint' \in Nat /\ checkpoint' <= Tip /\ FirstsDone(checkpoint')
      /\ cursor' \in Nat /\ 1 <= cursor' /\ cursor' <= Tip + 1 /\ FirstsDone(cursor' - 1)
  BY <1>4 DEF IndexerInv, IndexerTypes
<1>6. ASSUME cursor <= Tip PROVE IndexerInv'
  <2>1. PICK t : t = RangeOf(cursor, Tip)
    OBVIOUS
  <2>2. range' = [range EXCEPT !["main"] = t]
    BY <1>6, <2>1 DEF Poll
  <2>3. t \in Activation({{}}) /\ t.pc = "fetch" /\ t.start = cursor /\ t.to = Tip
    BY <1>3, <2>1, NewActivation DEF IndexerInv, IndexerTypes
  <2>4. 1 <= t.start /\ t.start <= t.to /\ t.to <= Tip /\ FirstsDone(t.start - 1)
    BY <1>3, <1>6, <2>3 DEF IndexerInv, IndexerTypes
  <2> QED
    BY <1>4, <1>5, <2>2, <2>3, <2>4, LoopKeeps
<1>7. ASSUME ~(cursor <= Tip) PROVE IndexerInv'
  <2>1. range' = range
    BY <1>7 DEF Poll
  <2>2. PICK t \in Activation(R) : t = range["main"]
    BY <1>1 DEF Workers
  <2>3. t.pc = "idle"
    BY <2>2 DEF Poll
  <2>4. range' = [range EXCEPT !["main"] = t]
    BY <1>1, <2>1, <2>2 DEF Workers
  <2> QED
    BY <1>4, <1>5, <2>3, <2>4, LoopKeeps
<1> QED
  BY <1>6, <1>7

\* A restart resumes after the checkpoint.
LEMMA RestartKeeps ==
    ASSUME StartLedger = 0, IndexerInv, Restart PROVE IndexerInv'
<1>1. /\ UNCHANGED <<chain, attempted, checkpoint, reindexes>>
      /\ cursor' = checkpoint + 1
      /\ range' = [w \in Workers |-> Idle]
  BY DEF Restart, ResumeAt
<1>2. Published' = Published /\ Tip' = Tip
  BY <1>1 DEF Published, Places, Tip
<1>3. PICK S : chain \in Seq(S)
  BY DEF IndexerInv, IndexerTypes
<1>4. Tip \in Nat
  BY <1>3, PublishedFinite
<1>5. /\ range' \in [Workers -> Activation({{}})]
      /\ range'["main"].pc = "idle" /\ range'["reindex"].pc = "idle"
  BY <1>1, NewActivation DEF Workers
<1>6. cursor' \in Nat /\ 1 <= cursor' /\ cursor' <= Tip + 1 /\ cursor' - 1 = checkpoint
  BY <1>1, <1>4 DEF IndexerInv, IndexerTypes
<1>7. IndexerTypes'
  BY <1>1, <1>2, <1>5, <1>6 DEF IndexerInv, IndexerTypes
<1>8. PrefixesDone' /\ FirstsDone(checkpoint)' /\ FirstsDone(cursor - 1)'
  BY <1>1, <1>2, <1>6 DEF IndexerInv, PrefixesDone, FirstsDone
<1>9. MainInv'
  BY <1>5 DEF MainInv
<1> QED
  BY <1>7, <1>8, <1>9 DEF IndexerInv

\* Every step keeps the invariant.
LEMMA NextIndexer ==
    ASSUME StartLedger = 0, MaxReindexes = 0, IndexerInv, [Next]_vars PROVE IndexerInv'
<1>1. CASE CloseLedger
  BY <1>1, CloseKeeps
<1>2. CASE Poll
  BY <1>2, PollKeeps
<1>3. CASE Restart
  BY <1>3, RestartKeeps
<1>4. ~reindex
  BY DEF reindex, IndexerInv, IndexerTypes
<1>5. ASSUME NEW w \in Workers, Step(w) \/ HandlerThrows(w) \/ SaveThrows(w)
      PROVE  IndexerInv'
  <2>1. w = "main"
    BY <1>5, OnlyMain
  <2>2. CASE FetchPage("main")
    BY <2>2, FetchKeeps
  <2>3. CASE HandleEvent("main") \/ WriteSigners("main") \/ HandlerThrows("main")
    BY <2>3, EventDoneKeeps DEF HandleEvent, WriteSigners, HandlerThrows
  <2>4. CASE ReadSigners("main")
    BY <2>4, ReadKeeps
  <2>5. CASE SaveCheckpoint("main") \/ SaveThrows("main")
    BY <2>5, AdvanceKeeps DEF SaveCheckpoint, SaveThrows
  <2> QED
    BY <1>5, <2>1, <2>2, <2>3, <2>4, <2>5 DEF Step
<1>6. CASE UNCHANGED vars
  <2>1. Published' = Published /\ Tip' = Tip
    BY <1>6 DEF vars, Published, Places, Tip
  <2>2. UNCHANGED <<chain, attempted, checkpoint, cursor, range, reindexes>>
    BY <1>6 DEF vars
  <2>3. IndexerTypes'
    BY <2>1, <2>2 DEF IndexerInv, IndexerTypes
  <2>4. PrefixesDone' /\ FirstsDone(checkpoint)' /\ FirstsDone(cursor - 1)'
    BY <2>1, <2>2 DEF IndexerInv, PrefixesDone, FirstsDone
  <2>5. MainInv'
    BY <2>1, <2>2 DEF IndexerInv, MainInv, FirstsDone, PageCarriesOn
  <2> QED
    BY <2>3, <2>4, <2>5 DEF IndexerInv
<1> QED
  BY <1>1, <1>2, <1>3, <1>4, <1>5, <1>6 DEF Next

LEMMA InitIndexer ==
    ASSUME StartLedger = 0, Init PROVE IndexerInv
<1>1. chain = <<>> /\ <<>> \in Seq({}) /\ Len(<<>>) = 0
  BY DEF Init
<1>2. Tip = 0 /\ Published = {}
  BY <1>1 DEF Tip, Published, Places
<1>3. /\ range \in [Workers -> Activation({{}})]
      /\ range["main"].pc = "idle" /\ range["reindex"].pc = "idle"
  BY NewActivation DEF Init, Workers
<1>4. IndexerTypes
  <2>1. \E S : chain \in Seq(S)
    BY <1>1
  <2> QED
    BY <1>2, <1>3, <2>1 DEF Init, IndexerTypes
<1>5. PrefixesDone /\ FirstsDone(checkpoint) /\ FirstsDone(cursor - 1)
  BY <1>2 DEF PrefixesDone, FirstsDone, Init
<1>6. MainInv
  BY <1>3 DEF MainInv
<1> QED
  BY <1>4, <1>5, <1>6 DEF IndexerInv

\* The invariant says what was passed over.
LEMMA InvSkipsTails ==
    ASSUME IndexerInv PROVE SkipsOnlyTails
<1>1. PICK S : chain \in Seq(S)
  BY DEF IndexerInv, IndexerTypes
<1>2. /\ \A p \in Published : p[1] \in 1..Tip /\ p[2] \in 1..MaxEventsPerLedger
      /\ Published \in SUBSET (Nat \X Nat)
  BY <1>1, PublishedFinite
<1> SUFFICES ASSUME NEW p \in Published, p[1] <= checkpoint, p \notin attempted
             PROVE  /\ p[2] > 1
                    /\ <<p[1], 1>> \in attempted
                    /\ \A q \in Published : q[1] = p[1] /\ Precedes(p, q) => q \notin attempted
  BY DEF SkipsOnlyTails
<1>3. p[2] # 1
  BY DEF IndexerInv, FirstsDone
<1>4. p[2] > 1
  BY <1>2, <1>3
<1>5. PICK f : f = <<p[1], 1>>
  OBVIOUS
<1>6. f \in Published
  <2>1. p[1] \in 1..Tip /\ p[2] <= Len(chain[p[1]]) /\ p[2] \in 1..MaxEventsPerLedger
    BY <1>2 DEF Published
  <2>2. 1 \in 1..MaxEventsPerLedger
    BY <2>1, IndexerAssumption
  <2>3. f \in Places
    BY <1>5, <2>1, <2>2 DEF Places
  <2>4. 1 <= Len(chain[p[1]])
    BY <1>1, <1>4, <2>1
  <2> QED
    BY <1>5, <2>3, <2>4 DEF Published
<1>7. f \in attempted
  BY <1>5, <1>6 DEF IndexerInv, FirstsDone
<1>8. \A q \in Published : q[1] = p[1] /\ Precedes(p, q) => q \notin attempted
  BY DEF IndexerInv, PrefixesDone
<1> QED
  BY <1>4, <1>5, <1>7, <1>8

\* Without START_LEDGER and reindex jobs, whatever the page size, the lengths
\* of the ledgers, the crashes and the failing handlers and saves: the events
\* behind the checkpoint that were never handled are the ends of ledgers.
THEOREM SkippedAreTails ==
    ASSUME StartLedger = 0, MaxReindexes = 0
    PROVE  Spec => []SkipsOnlyTails
<1>1. Init => IndexerInv
  BY InitIndexer
<1>2. IndexerInv /\ [Next]_vars => IndexerInv'
  BY NextIndexer
<1>3. IndexerInv => SkipsOnlyTails
  BY InvSkipsTails
<1> QED
  BY <1>1, <1>2, <1>3, PTL DEF Spec

\* If moreover no ledger holds more than one event, nothing behind the
\* checkpoint was passed over.
THEOREM CheckpointIsCovered ==
    ASSUME StartLedger = 0, MaxReindexes = 0, MaxEventsPerLedger = 1
    PROVE  Spec => []CheckpointCovers
<1>1. ASSUME IndexerInv PROVE CheckpointCovers
  <2>1. PICK S : chain \in Seq(S)
    BY <1>1 DEF IndexerInv, IndexerTypes
  <2>2. \A p \in Published : p[2] = 1
    BY <2>1, PublishedFinite
  <2> QED
    BY <1>1, <2>2 DEF CheckpointCovers, IndexerInv, FirstsDone
<1>2. Init => IndexerInv
  BY InitIndexer
<1>3. IndexerInv /\ [Next]_vars => IndexerInv'
  BY NextIndexer
<1> QED
  BY <1>1, <1>2, <1>3, PTL DEF Spec

-----------------------------------------------------------------------------
(* The tables.  Here both activations of processRange may be under way.    *)

Rows(N, C) ==
    [attestation : {"none", "valid", "revoked"}, signers : N, signatureCount : C,
     finalized : BOOLEAN, request : {"none", "PENDING", "FULFILLED", "REJECTED"},
     issuer : {"none", "basic"}]

\* The pages hold events of the chain, whose topics are known.
RangesInv ==
    /\ \E S : chain \in Seq(S)
    /\ \A p \in Published : EventAt(p).topic \in Topics
    /\ \E R : range \in [Workers -> Activation(R)]
    /\ \A w \in Workers : \A i \in 1..Len(range[w].page) : range[w].page[i] \in Published

TableInv ==
    /\ RangesInv
    /\ \E N, C : db \in Rows(N, C)
    /\ cursor \in Nat /\ checkpoint \in Nat

\* What one write of handleEvent keeps of the rows it found: their types, and every
\* final state.
KeepsFinalRows(N, C, rows, new) ==
    /\ new \in Rows(N \cup {{1}}, C \cup {1})
    /\ rows.attestation = "revoked" => new.attestation = "revoked"
    /\ rows.finalized => new.finalized
    /\ rows.request \in {"FULFILLED", "REJECTED"} => new.request = rows.request

\* Each handler keeps the final states.
LEMMA EventWrites ==
    ASSUME NEW N, NEW C, NEW rows \in Rows(N, C), NEW e, e.topic \in Topics,
           e.topic # "ms_sign", NEW new, new = handleEvent(rows, e)
    PROVE  KeepsFinalRows(N, C, rows, new)
<1> DEFINE Goal == KeepsFinalRows(N, C, rows, new)
<1>0. rows \in Rows(N \cup {{1}}, C \cup {1})
  BY DEF Rows
<1>1. ASSUME new = rows PROVE Goal
  BY <1>0, <1>1 DEF KeepsFinalRows
<1>2. ASSUME NEW a \in {"valid", "revoked"}, new = [rows EXCEPT !.attestation = a],
             rows.attestation = "revoked" => a = "revoked"
      PROVE  Goal
  BY <1>2 DEF KeepsFinalRows, Rows
<1>3. ASSUME new = [rows EXCEPT !.signers = {1}, !.signatureCount = 1] PROVE Goal
  BY <1>3 DEF KeepsFinalRows, Rows
<1>4. ASSUME new = [rows EXCEPT !.finalized = rows.finalized \/ HasProposal(rows)] PROVE Goal
  <2>1. PICK f \in BOOLEAN : f = (rows.finalized \/ HasProposal(rows))
    BY Zenon
  <2>2. new = [rows EXCEPT !.finalized = f] /\ (rows.finalized => f)
    BY <1>4, <2>1
  <2> QED
    BY <2>2 DEF KeepsFinalRows, Rows
<1>5. ASSUME NEW q \in {"PENDING", "FULFILLED", "REJECTED"},
             new = [rows EXCEPT !.request = q], rows.request \in {"none", "PENDING"}
      PROVE  Goal
  BY <1>5 DEF KeepsFinalRows, Rows
<1>6. ASSUME new = [rows EXCEPT !.issuer = "basic"] PROVE Goal
  BY <1>6 DEF KeepsFinalRows, Rows
<1> SUFFICES Goal
  OBVIOUS
<1> HIDE DEF Goal
<1>7. CASE e.topic \notin Watched
  <2>1. new = rows
    BY <1>7 DEF handleEvent, Watched, Creations
  <2> QED
    BY <1>1, <2>1
<1>8. CASE e.topic \in Creations
  <2>1. new = IF rows.attestation = "none" THEN [rows EXCEPT !.attestation = "valid"] ELSE rows
    BY <1>8 DEF handleEvent, Watched, Creations
  <2> QED
    BY <1>1, <1>2, <2>1
<1>9. CASE e.topic = "revoked"
  <2>1. new = IF rows.attestation = "none" THEN rows ELSE [rows EXCEPT !.attestation = "revoked"]
    BY <1>9 DEF handleEvent, Watched, Creations
  <2> QED
    BY <1>1, <1>2, <2>1
<1>10. CASE e.topic = "ms_prop"
  <2>1. new = IF HasProposal(rows) THEN rows
              ELSE [rows EXCEPT !.signers = {1}, !.signatureCount = 1]
    BY <1>10 DEF handleEvent, Watched, Creations
  <2> QED
    BY <1>1, <1>3, <2>1
<1>11. CASE e.topic = "ms_actv"
  <2>1. new = [rows EXCEPT !.finalized = rows.finalized \/ HasProposal(rows)]
    BY <1>11 DEF handleEvent, Watched, Creations
  <2> QED
    BY <1>4, <2>1
<1>12. CASE e.topic \in {"att_req", "req_ful", "req_rej"}
  <2>1. \/ new = rows
        \/ \E q \in {"PENDING", "FULFILLED", "REJECTED"} :
              new = [rows EXCEPT !.request = q] /\ rows.request \in {"none", "PENDING"}
    BY <1>12 DEF handleEvent, Watched, Creations
  <2> QED
    BY <1>1, <1>5, <2>1
<1>13. CASE e.topic = "iss_reg"
  <2>1. new = IF rows.issuer = "none" THEN [rows EXCEPT !.issuer = "basic"] ELSE rows
    BY <1>13 DEF handleEvent, Watched, Creations
  <2> QED
    BY <1>1, <1>6, <2>1
<1> QED
  BY <1>7, <1>8, <1>9, <1>10, <1>11, <1>12, <1>13, TopicsAssumption DEF Watched, Creations

\* An activation writes its own page only.
LEMMA WorkerUpdated ==
    ASSUME RangesInv, UNCHANGED chain, NEW w \in Workers, NEW Q, NEW t \in Activation(Q),
           range' = [range EXCEPT ![w] = t],
           \A i \in 1..Len(t.page) : t.page[i] \in Published
    PROVE  RangesInv'
<1>1. PICK R : range \in [Workers -> Activation(R)]
  BY DEF RangesInv
<1>2. Activation(R) \subseteq Activation(R \cup Q) /\ Activation(Q) \subseteq Activation(R \cup Q)
  BY DEF Activation
<1>3. range' \in [Workers -> Activation(R \cup Q)]
  BY <1>1, <1>2
<1>4. \A p : EventAt(p)' = EventAt(p)
  BY DEF EventAt
<1>5. Published' = Published
  BY DEF Published, Places, Tip
<1>6. \A v \in Workers : \A i \in 1..Len(range'[v].page) : range'[v].page[i] \in Published
  <2> SUFFICES ASSUME NEW v \in Workers
               PROVE  \A i \in 1..Len(range'[v].page) : range'[v].page[i] \in Published
    OBVIOUS
  <2>1. CASE v = w
    BY <1>1, <2>1
  <2>2. CASE v # w
    <3>1. range'[v] = range[v]
      BY <1>1, <2>2
    <3> QED
      BY <3>1 DEF RangesInv
  <2> QED
    BY <2>1, <2>2
<1>7. \A p \in Published' : (EventAt(p).topic)' \in Topics
  BY <1>5 DEF RangesInv, EventAt
<1>8. \E S : chain' \in Seq(S)
  BY DEF RangesInv
<1> QED
  BY <1>3, <1>5, <1>6, <1>7, <1>8 DEF RangesInv, EventAt

LEMMA CloseRanges ==
    ASSUME RangesInv, CloseLedger PROVE RangesInv'
<1>1. PICK S : chain \in Seq(S)
  BY DEF RangesInv
<1>2. PICK evs \in Ledgers : chain' = Append(chain, evs)
  BY DEF CloseLedger
<1>3. chain \in Seq(S \cup {evs})
  BY <1>1
<1>4. chain' \in Seq(S \cup {evs})
  BY <1>2, <1>3
<1>5. /\ Tip' = Tip + 1 /\ Tip \in Nat
      /\ \A l \in 1..Tip : chain'[l] = chain[l]
      /\ chain'[Tip + 1] = evs
  BY <1>2, <1>3 DEF Tip
<1>6. \A k \in 1..Len(evs) : evs[k].topic \in Topics
  <2>1. PICK ts \in SeqOf(Topics, MaxEventsPerLedger) :
           evs = [k \in 1..Len(ts) |-> Event(Log \o SubSeq(ts, 1, k - 1), ts[k])]
    BY DEF Ledgers
  <2>2. PICK m \in 0..MaxEventsPerLedger : ts \in [1..m -> Topics]
    BY <2>1 DEF SeqOf
  <2>3. m \in Nat /\ Len(ts) = m
    BY <2>2, IndexerAssumption
  <2>4. \A log, t : Event(log, t).topic = t
    BY DEF Event
  <2>5. \A k \in 1..m : evs[k].topic = ts[k]
    BY <2>1, <2>3, <2>4
  <2>6. Len(evs) = m
    <3>1. DOMAIN evs = 1..m
      BY <2>1, <2>3
    <3>2. evs = [k \in 1..m |-> evs[k]]
      BY <2>1, <2>3
    <3> QED
      BY <2>3, <3>2
  <2> QED
    BY <2>2, <2>5, <2>6
<1>7. Published \subseteq Published'
  BY <1>5 DEF Published, Places
<1>8. ASSUME NEW p \in Published' PROVE chain'[p[1]][p[2]].topic \in Topics
  <2>1. /\ p[1] \in 1..(Tip + 1) /\ p[2] \in 1..MaxEventsPerLedger
        /\ p[2] <= Len(chain'[p[1]]) /\ p = <<p[1], p[2]>>
    BY <1>5 DEF Published, Places
  <2>2. CASE p[1] \in 1..Tip
    <3>1. p \in Published
      BY <1>5, <2>1, <2>2 DEF Published, Places
    <3> QED
      BY <1>5, <2>2, <3>1 DEF RangesInv, EventAt
  <2>3. CASE p[1] = Tip + 1
    <3>1. p[2] \in 1..Len(evs)
      BY <1>5, <2>1, <2>3, IndexerAssumption
    <3> QED
      BY <1>5, <1>6, <2>3, <3>1
  <2> QED
    BY <1>5, <2>1, <2>2, <2>3
<1>9. range' = range
  BY DEF CloseLedger
<1> QED
  BY <1>4, <1>7, <1>8, <1>9 DEF RangesInv, EventAt

LEMMA FetchRanges ==
    ASSUME RangesInv, NEW w \in Workers, FetchPage(w) PROVE RangesInv'
<1>1. PICK R : range \in [Workers -> Activation(R)]
  BY DEF RangesInv
<1>2. PICK S : chain \in Seq(S)
  BY DEF RangesInv
<1>3. PICK r \in Activation(R) : r = range[w]
  BY <1>1
<1>4. PICK end : end = Min({r.start + PageLimit - 1, r.to})
  OBVIOUS
<1>5. PICK pg : pg = Page(r.start, end)
  OBVIOUS
<1>6. PICK last : last = IF pg = <<>> THEN end ELSE Last(pg)[1]
  OBVIOUS
<1>7. PICK t : t = [r EXCEPT !.pc = "handle", !.page = pg, !.last = last]
  OBVIOUS
<1>8. range' = [range EXCEPT ![w] = t] /\ UNCHANGED chain
  BY <1>3, <1>4, <1>5, <1>6, <1>7 DEF FetchPage
<1>9. end \in Nat
  <2>1. r.start \in Nat /\ r.to \in Nat
    BY DEF Activation
  <2> QED
    BY <1>4, <2>1, LeastOfTwo, IndexerAssumption
<1>10. pg \in Seq(Published) /\ Published \in SUBSET (Nat \X Nat)
  <2>1. PlacesIn(r.start, end) \subseteq Published
    BY DEF PlacesIn
  <2>2. pg \in Seq(PlacesIn(r.start, end))
    BY <1>2, <1>5, PageIsFront
  <2>3. Published \in SUBSET (Nat \X Nat)
    BY <1>2, PublishedFinite
  <2> QED
    BY <2>1, <2>2, <2>3
<1>11. pg \in Seq(Nat \X Nat) /\ \A i \in 1..Len(pg) : pg[i] \in Published
  BY <1>10
<1>12. last \in Nat
  <2>1. pg # <<>> => Last(pg) \in Nat \X Nat
    BY <1>11 DEF Last
  <2> QED
    BY <1>6, <1>9, <2>1
<1>13. t \in Activation(R) /\ t.page = pg
  BY <1>7, <1>11, <1>12 DEF Activation
<1> QED
  BY <1>8, <1>11, <1>13, WorkerUpdated

LEMMA EventDoneRanges ==
    ASSUME RangesInv, NEW w \in Workers, range[w].page # <<>>, EventDone(w)
    PROVE  RangesInv'
<1>1. PICK R : range \in [Workers -> Activation(R)]
  BY DEF RangesInv
<1>2. PICK r \in Activation(R) : r = range[w]
  BY <1>1
<1>3. PICK page \in Seq(Nat \X Nat) : page = r.page /\ page # <<>>
  BY <1>2 DEF Activation
<1>4. PICK rest : rest = Tail(page)
  OBVIOUS
<1>5. /\ rest \in Seq(Nat \X Nat)
      /\ \A i \in 1..Len(rest) : i + 1 \in 1..Len(page) /\ rest[i] = page[i + 1]
  BY <1>3, <1>4, TailShifts
<1>6. PICK t : t = [r EXCEPT !.pc = "handle", !.page = rest, !.read = {}]
  OBVIOUS
<1>7. t \in Activation(R \cup {{}}) /\ t.page = rest
  BY <1>5, <1>6 DEF Activation
<1>8. range' = [range EXCEPT ![w] = t] /\ UNCHANGED chain
  BY <1>1, <1>2, <1>3, <1>4, <1>6 DEF EventDone
<1>9. \A i \in 1..Len(page) : page[i] \in Published
  BY <1>2, <1>3 DEF RangesInv
<1>10. \A i \in 1..Len(rest) : rest[i] \in Published
  BY <1>5, <1>9
<1> QED
  BY <1>7, <1>8, <1>10, WorkerUpdated

LEMMA ReadRanges ==
    ASSUME RangesInv, NEW w \in Workers, ReadSigners(w) PROVE RangesInv'
<1>1. PICK R : range \in [Workers -> Activation(R)]
  BY DEF RangesInv
<1>2. PICK r \in Activation(R) : r = range[w]
  BY <1>1
<1>3. PICK t : t = [r EXCEPT !.pc = "write", !.read = db.signers]
  OBVIOUS
<1>4. t \in Activation(R \cup {db.signers}) /\ t.page = r.page
  BY <1>3 DEF Activation
<1>5. range' = [range EXCEPT ![w] = t] /\ UNCHANGED chain
  BY <1>1, <1>2, <1>3 DEF ReadSigners
<1>6. \A i \in 1..Len(t.page) : t.page[i] \in Published
  BY <1>2, <1>4 DEF RangesInv
<1> QED
  BY <1>4, <1>5, <1>6, WorkerUpdated

\* A new activation has no page yet.
LEMMA NewPage ==
    /\ Idle \in Activation({{}}) /\ Idle.page = <<>>
    /\ \A from, to \in Nat :
          RangeOf(from, to) \in Activation({{}}) /\ RangeOf(from, to).page = <<>>
<1>1. <<>> \in Seq(Nat \X Nat)
  OBVIOUS
<1> QED
  BY <1>1 DEF Idle, RangeOf, Activation

LEMMA StartRanges ==
    ASSUME RangesInv, NEW w \in Workers, UNCHANGED chain, NEW t \in Activation({{}}),
           t.page = <<>>, range' = [range EXCEPT ![w] = t]
    PROVE  RangesInv'
<1>1. \A i \in 1..Len(t.page) : t.page[i] \in Published
  OBVIOUS
<1> QED
  BY <1>1, WorkerUpdated

\* Every step keeps the types of the tables and their final states.
LEMMA NextTables ==
    ASSUME TableInv, [Next]_vars PROVE TableInv' /\ KeepsTerminal
<1> DEFINE Goal == TableInv' /\ KeepsTerminal
<1>0. /\ RangesInv /\ cursor \in Nat /\ checkpoint \in Nat
  BY DEF TableInv
<1>1. PICK N, C : db \in Rows(N, C)
  BY DEF TableInv
<1>2. PICK S : chain \in Seq(S)
  BY DEF TableInv, RangesInv
<1>3. Tip \in Nat
  BY <1>2, PublishedFinite
<1>4. ASSUME RangesInv', db' = db, cursor' \in Nat, checkpoint' \in Nat PROVE Goal
  <2>1. KeepsTerminal
    BY <1>4 DEF KeepsTerminal
  <2>2. TableInv'
    BY <1>1, <1>4 DEF TableInv
  <2> QED
    BY <2>1, <2>2
<1> SUFFICES Goal
  OBVIOUS
<1> HIDE DEF Goal
<1>5. CASE CloseLedger
  BY <1>0, <1>4, <1>5, CloseRanges DEF CloseLedger
<1>6. CASE Poll
  <2>1. ASSUME cursor <= Tip PROVE RangesInv'
    <3>1. PICK t : t = RangeOf(cursor, Tip)
      OBVIOUS
    <3>2. t \in Activation({{}}) /\ t.page = <<>>
      BY <1>0, <1>3, <3>1, NewPage
    <3>3. range' = [range EXCEPT !["main"] = t] /\ UNCHANGED chain /\ "main" \in Workers
      BY <1>6, <2>1, <3>1 DEF Poll, Workers
    <3> QED
      BY <1>0, <3>2, <3>3, StartRanges
  <2>2. ASSUME ~(cursor <= Tip) PROVE RangesInv'
    <3>1. range' = range /\ chain' = chain
      BY <1>6, <2>2 DEF Poll
    <3> QED
      BY <1>0, <3>1 DEF RangesInv, Published, Places, Tip, EventAt
  <2> QED
    BY <1>0, <1>4, <1>6, <2>1, <2>2 DEF Poll
<1>7. CASE reindex
  <2>1. PICK from \in 1..Tip : range' = [range EXCEPT !["reindex"] = RangeOf(from, Tip)]
    BY <1>7 DEF reindex
  <2>2. PICK t : t = RangeOf(from, Tip)
    OBVIOUS
  <2>3. t \in Activation({{}}) /\ t.page = <<>>
    BY <1>3, <2>2, NewPage
  <2>4. "reindex" \in Workers /\ UNCHANGED <<chain, db, cursor, checkpoint>>
    BY <1>7 DEF reindex, Workers
  <2>5. RangesInv'
    BY <1>0, <2>1, <2>2, <2>3, <2>4, StartRanges
  <2> QED
    BY <1>0, <1>4, <2>4, <2>5
<1>8. CASE Restart
  <2>1. /\ range' = [w \in Workers |-> Idle]
        /\ UNCHANGED <<chain, db, checkpoint>>
        /\ cursor' \in Nat
    BY <1>0, <1>8, IndexerAssumption DEF Restart, ResumeAt
  <2>2. range' \in [Workers -> Activation({{}})] /\ \A w \in Workers : range'[w].page = <<>>
    BY <2>1, NewPage
  <2>3. RangesInv'
    BY <1>0, <2>1, <2>2, SMTT(20) DEF RangesInv, Published, Places, Tip, EventAt
  <2> QED
    BY <1>0, <1>4, <2>1, <2>3
<1>9. ASSUME NEW w \in Workers, FetchPage(w) \/ ReadSigners(w) PROVE Goal
  BY <1>0, <1>4, <1>9, FetchRanges, ReadRanges DEF FetchPage, ReadSigners
<1>10. ASSUME NEW w \in Workers, HandlerThrows(w) PROVE Goal
  BY <1>0, <1>4, <1>10, EventDoneRanges DEF HandlerThrows, InHandler, EventDone
<1>11. ASSUME NEW w \in Workers, PageDone(w), Advance(w),
              checkpoint' \in {checkpoint, range[w].last}
       PROVE  Goal
  <2>1. PICK R : range \in [Workers -> Activation(R)]
    BY <1>0 DEF RangesInv
  <2>2. PICK r \in Activation(R) : r = range[w]
    BY <2>1
  <2>3. r.last \in Nat /\ r.to \in Nat /\ r.last + 1 \in Nat /\ r.to + 1 \in Nat
    BY DEF Activation
  <2>4. PICK t : t = IF r.last + 1 > r.to THEN Idle ELSE RangeOf(r.last + 1, r.to)
    OBVIOUS
  <2>5. t \in Activation({{}}) /\ t.page = <<>>
    BY <2>3, <2>4, NewPage
  <2>6. /\ range' = [range EXCEPT ![w] = t] /\ UNCHANGED <<chain, db>>
        /\ cursor' \in {cursor, r.to + 1}
    BY <1>11, <2>2, <2>4 DEF Advance
  <2>7. RangesInv'
    BY <1>0, <2>5, <2>6, StartRanges
  <2> QED
    BY <1>0, <1>4, <1>11, <2>2, <2>3, <2>6, <2>7
<1>12. ASSUME NEW w \in Workers, HandleEvent(w) PROVE Goal
  <2>1. range[w].page # <<>> /\ EventDone(w)
    BY <1>12 DEF HandleEvent, InHandler
  <2>2. RangesInv'
    BY <1>0, <2>1, EventDoneRanges
  <2>3. cursor' \in Nat /\ checkpoint' \in Nat
    BY <1>0, <2>1 DEF EventDone
  <2>4. PICK e : e = NextEvent(w)
    OBVIOUS
  <2>5. e.topic \in Topics
    <3>1. PICK R : range \in [Workers -> Activation(R)]
      BY <1>0 DEF RangesInv
    <3>2. range[w].page \in Seq(Nat \X Nat)
      BY <3>1 DEF Activation
    <3>3. Head(range[w].page) = range[w].page[1] /\ 1 \in 1..Len(range[w].page)
      BY <2>1, <3>2
    <3> QED
      BY <1>0, <2>4, <3>3 DEF RangesInv, NextEvent
  <2>6. CASE e.topic = "ms_sign"
    BY <1>4, <1>12, <2>2, <2>3, <2>4, <2>6 DEF HandleEvent
  <2>7. ASSUME e.topic # "ms_sign" PROVE Goal
    <3>0. PICK rows \in Rows(N, C) : rows = db
      BY <1>1
    <3>1. PICK new : new = handleEvent(rows, e)
      OBVIOUS
    <3>2. db' = new
      BY <1>12, <2>4, <2>7, <3>0, <3>1 DEF HandleEvent
    <3>3. KeepsFinalRows(N, C, rows, new)
      BY <2>5, <2>7, <3>1, EventWrites
    <3>4. /\ db' \in Rows(N \cup {{1}}, C \cup {1})
          /\ db.attestation = "revoked" => db'.attestation = "revoked"
          /\ db.finalized => db'.finalized
          /\ db.request \in {"FULFILLED", "REJECTED"} => db'.request = db.request
      BY <3>0, <3>2, <3>3 DEF KeepsFinalRows
    <3> QED
      BY <2>2, <2>3, <3>4 DEF Goal, TableInv, KeepsTerminal
  <2> QED
    BY <2>6, <2>7
<1>13. ASSUME NEW w \in Workers, WriteSigners(w) PROVE Goal
  <2>1. range[w].page # <<>> /\ EventDone(w)
    BY <1>13 DEF WriteSigners, InHandler
  <2>2. RangesInv'
    BY <1>0, <2>1, EventDoneRanges
  <2>3. cursor' \in Nat /\ checkpoint' \in Nat
    BY <1>0, <2>1 DEF EventDone
  <2>4. PICK n : n = NextEvent(w).n
    OBVIOUS
  <2>5. PICK signers : signers = range[w].read \cup {n}
    OBVIOUS
  <2>6. db' = [db EXCEPT !.signers = signers, !.signatureCount = n]
    BY <1>13, <2>4, <2>5 DEF WriteSigners, SignersUpdate
  <2>7. /\ db' \in Rows(N \cup {signers}, C \cup {n})
        /\ db'.attestation = db.attestation /\ db'.finalized = db.finalized
        /\ db'.request = db.request
    BY <1>1, <2>6 DEF Rows
  <2> QED
    BY <2>2, <2>3, <2>7 DEF Goal, TableInv, KeepsTerminal
<1>14. CASE UNCHANGED vars
  <2>1. RangesInv'
    BY <1>0, <1>14 DEF vars, RangesInv, Published, Places, Tip, EventAt
  <2> QED
    BY <1>0, <1>4, <1>14, <2>1 DEF vars
<1>15. ASSUME NEW w \in Workers, SaveCheckpoint(w) \/ SaveThrows(w) PROVE Goal
  BY <1>11, <1>15 DEF SaveCheckpoint, SaveThrows
<1> QED
  BY <1>5, <1>6, <1>7, <1>8, <1>9, <1>10, <1>12, <1>13, <1>14, <1>15 DEF Next, Step

LEMMA InitTables == Init => TableInv
<1> SUFFICES ASSUME Init PROVE TableInv
  OBVIOUS
<1>1. chain = <<>> /\ <<>> \in Seq({}) /\ Len(<<>>) = 0
  BY DEF Init
<1>2. Published = {}
  BY <1>1 DEF Tip, Published, Places
<1>3. range \in [Workers -> Activation({{}})] /\ \A w \in Workers : range[w].page = <<>>
  BY NewPage DEF Init
<1>4. \E S : chain \in Seq(S)
  BY <1>1
<1>5. RangesInv
  BY <1>2, <1>3, <1>4 DEF RangesInv
<1>6. db \in Rows({{}}, {0})
  BY DEF Init, NoRows, Rows
<1> QED
  BY <1>5, <1>6, IndexerAssumption DEF Init, TableInv

\* However the main loop, a reindex job, crashes and failures interleave, no
\* handler takes a row back from a final state.
THEOREM FinalRowsStay == Spec => TerminalStatesStick
<1>1. TableInv /\ [Next]_vars => TableInv'
  BY NextTables
<1>2. TableInv /\ [Next]_vars => [KeepsTerminal]_vars
  BY NextTables
<1> QED
  BY <1>1, <1>2, InitTables, PTL DEF Spec, TerminalStatesStick

-----------------------------------------------------------------------------
(* What the tables mirror, while no ledger holds more than one event and   *)
(* no reindex job runs.                                                    *)

Has(ps, t) == \E p \in ps : EventAt(p).topic = t
Signed(ps) == {p \in ps : EventAt(p).topic = "ms_sign"}

\* FlattenSeq, by the sequence of its partial results: f[l] is the log of the
\* first l ledgers.
TopicsOf(l) == [k \in 1..Len(chain[l]) |-> chain[l][k].topic]
Joins(f) == f = [l \in 1..Tip |-> IF l = 1 THEN TopicsOf(l) ELSE f[l - 1] \o TopicsOf(l)]

\* The log of the chain has its events in an order that the life of the
\* objects allows, and the events of the proposal are numbered.
LogInv ==
    /\ Log \in Seq(Topics)
    /\ \E f : Joins(f)
    /\ \A p \in Published : EventAt(p).topic \in Topics /\ EventAt(p).n \in Nat
    /\ \A t : Seen(Log, t) <=> Has(Published, t)

OrderInv ==
    /\ \A p \in Published :
          LET before == {q \in Published : q[1] < p[1]}
              t == EventAt(p).topic
          IN  /\ t = "revoked" => \E u \in Creations : Has(before, u)
              /\ t \in {"ms_sign", "ms_actv"} => Has(before, "ms_prop")
              /\ t \in {"req_ful", "req_rej"} => Has(before, "att_req")
    /\ ~(Has(Published, "req_ful") /\ Has(Published, "req_rej"))

SignInv ==
    /\ Signatures(Log) \in Nat /\ Signatures(Log) >= 1
    /\ \A p \in Signed(Published) : EventAt(p).n \in 2..Signatures(Log)
    /\ \A k \in 2..Signatures(Log) : \E p \in Signed(Published) : EventAt(p).n = k
    /\ \A p, q \in Signed(Published) : p[1] < q[1] => EventAt(p).n < EventAt(q).n

\* The next ledger of the pass that the polling loop makes over the chain.
NextOf(r, from) ==
    CASE r.pc = "idle" -> from
      [] r.pc = "fetch" -> r.start
      [] r.pc \in {"handle", "write"} /\ r.page # <<>> -> r.page[1][1]
      [] OTHER -> r.last + 1

NextLedger == NextOf(range["main"], cursor)

\* A page goes through its ledgers in their order and leaves out no event up
\* to the last of them.
PageInOrder(page, last) ==
    /\ \A i \in 1..Len(page) : page[i][1] <= last
    /\ \A i, j \in 1..Len(page) : i < j => page[i][1] < page[j][1]
    /\ \A i \in 1..Len(page) : \A p \in Published :
          page[i][1] <= p[1] /\ p[1] <= last => \E j \in 1..Len(page) : page[j] = p

PassInv ==
    LET r == range["main"]
    IN  /\ r.pc \in {"handle", "write"} => PageInOrder(r.page, r.last)
        /\ r.pc = "write" => r.page # <<>> /\ EventAt(r.page[1]).topic = "ms_sign"
        /\ NextLedger \in Nat /\ checkpoint < NextLedger /\ NextLedger <= Tip + 1

\* The events that were handled are the first of the chain.
DoneInv == \A p \in attempted : \A q \in Published : q[1] < p[1] => q \in attempted

\* What the events at a set of places say of each object.
AttestationOf(ps) == IF Has(ps, "revoked") THEN "revoked"
                     ELSE IF \E u \in Creations : Has(ps, u) THEN "valid" ELSE "none"
SignersOf(ps) == IF Has(ps, "ms_prop") THEN {1} \cup {EventAt(p).n : p \in Signed(ps)} ELSE {}
RequestOf(ps) == IF Has(ps, "req_ful") THEN "FULFILLED"
                 ELSE IF Has(ps, "req_rej") THEN "REJECTED"
                 ELSE IF Has(ps, "att_req") THEN "PENDING" ELSE "none"
IssuerOf(ps) == IF Has(ps, "iss_reg") THEN "basic" ELSE "none"

\* Rows that say so too.  The number of signatures is apart: see CountInv.
Mirrors(rows, ps) ==
    /\ rows \in Rows(SUBSET Nat, Nat)
    /\ rows.attestation = AttestationOf(ps)
    /\ rows.signers = SignersOf(ps)
    /\ rows.finalized <=> Has(ps, "ms_actv")
    /\ rows.request = RequestOf(ps)
    /\ rows.issuer = IssuerOf(ps)

\* The number of signatures before ledger l.
CountBefore(l, n) ==
    \/ n = 1 /\ \A p \in Signed(Published) : l <= p[1]
    \/ \E p \in Signed(Published) :
          /\ p[1] < l /\ EventAt(p).n = n
          /\ \A q \in Signed(Published) : q[1] < l => q[1] <= p[1]

\* The count is that of some ledger that the pass has not passed yet: a pass
\* that repeats an earlier one takes it back for a while.
CountInv(rows, done, next) ==
    IF Has(done, "ms_prop")
    THEN \E l \in Nat : next <= l /\ l <= Tip + 1 /\ CountBefore(l, rows.signatureCount)
    ELSE rows.signatureCount = 0

MirrorInv ==
    skipped = {} =>
        /\ Mirrors(db, attempted)
        /\ CountInv(db, attempted, NextLedger)
        /\ range["main"].pc = "write" => range["main"].read = db.signers

-----------------------------------------------------------------------------
(* The log of the chain                                                    *)

\* A set of numbers has a least one.
LEMMA Least ==
    ASSUME NEW T \in SUBSET Nat, T # {}
    PROVE  \E m \in T : \A k \in T : m <= k
<1>1. PICK m \in T : \A k \in T : ~(<<k, m>> \in OpToRel(<, Nat))
  BY NatLessThanWellFounded, WFMin, Zenon
<1>2. \A k \in T : ~(k < m)
  BY <1>1 DEF OpToRel
<1> QED
  BY <1>2

\* Two functions that start alike and go on alike are alike.
LEMMA SameOnwards ==
    ASSUME NEW m \in Nat, NEW f, NEW g,
           m # 0 => f[1] = g[1],
           \A l \in 2..m : f[l - 1] = g[l - 1] => f[l] = g[l]
    PROVE  \A l \in 1..m : f[l] = g[l]
<1> DEFINE wrong == {l \in 1..m : f[l] # g[l]}
<1> SUFFICES ASSUME wrong # {} PROVE FALSE
  OBVIOUS
<1>1. wrong \in SUBSET Nat
  OBVIOUS
<1>2. PICK k \in wrong : \A i \in wrong : k <= i
  BY <1>1, Least
<1>3. k \in 2..m /\ f[k] # g[k]
  BY <1>2
<1>4. k - 1 \in 1..m /\ ~(k <= k - 1)
  BY <1>3
<1>5. k - 1 \notin wrong
  BY <1>2, <1>4, Zenon
<1>6. f[k - 1] = g[k - 1]
  BY <1>4, <1>5
<1> QED
  BY <1>3, <1>6

\* The partial results of putting m sequences together.
JoinUp(f, logs, m) == f = [l \in 1..m |-> IF l = 1 THEN logs[l] ELSE f[l - 1] \o logs[l]]

\* There is one way to do so.
LEMMA JoinUpUnique ==
    ASSUME NEW m \in Nat, NEW logs, NEW f, NEW g, JoinUp(f, logs, m), JoinUp(g, logs, m)
    PROVE  \A l \in 1..m : f[l] = g[l]
<1>1. \A h : JoinUp(h, logs, m) =>
         \A l \in 1..m : h[l] = IF l = 1 THEN logs[l] ELSE h[l - 1] \o logs[l]
  BY ZenonT(60) DEF JoinUp
<1>2. ASSUME m # 0 PROVE f[1] = g[1]
  <2>1. 1 \in 1..m
    BY <1>2
  <2> QED
    BY <1>1, <2>1
<1>3. ASSUME NEW l \in 2..m, f[l - 1] = g[l - 1] PROVE f[l] = g[l]
  <2>1. l \in 1..m
    OBVIOUS
  <2>2. l # 1
    OBVIOUS
  <2>3. \A h : JoinUp(h, logs, m) => h[l] = h[l - 1] \o logs[l]
    BY <1>1, <2>1, <2>2, Zenon
  <2>4. f[l] = f[l - 1] \o logs[l] /\ g[l] = g[l - 1] \o logs[l]
    BY <2>3, Zenon
  <2> QED
    BY <1>3, <2>4, Zenon
<1> QED
  BY <1>2, <1>3, SameOnwards

\* What FlattenSeq puts together is the last of the partial results, whichever
\* way they are given.
LEMMA FlattenIs ==
    ASSUME NEW m \in Nat, NEW logs, logs = [l \in 1..m |-> logs[l]], NEW f,
           JoinUp(f, logs, m)
    PROVE  FlattenSeq(logs) = IF m = 0 THEN <<>> ELSE f[m]
<1> DEFINE g == CHOOSE h : JoinUp(h, logs, m)
<1>1. Len(logs) = m
  OBVIOUS
<1>2. JoinUp(g, logs, m)
  BY Zenon
<1>3. CASE m = 0
  <2>1. FlattenSeq(logs) = logs
    BY <1>1, <1>3, Zenon DEF FlattenSeq
  <2>2. logs = <<>>
    BY <1>3
  <2> QED
    BY <1>3, <2>1, <2>2
<1>4. CASE m # 0
  <2>1. FlattenSeq(logs) = g[m]
    BY <1>1, <1>4, Zenon DEF FlattenSeq, JoinUp
  <2> HIDE DEF g
  <2>2. m \in 1..m
    BY <1>4
  <2>3. g[m] = f[m]
    BY <1>2, <2>2, JoinUpUnique
  <2> QED
    BY <1>4, <2>1, <2>3
<1> QED
  BY <1>3, <1>4

\* The events of a ledger follow those of the ledgers before it.
LEMMA LogGrows ==
    ASSUME NEW S, chain \in Seq(S), NEW f, Joins(f), Log \in Seq(Topics),
           NEW evs, chain' = Append(chain, evs),
           NEW ts \in Seq(Topics), ts = [k \in 1..Len(evs) |-> evs[k].topic]
    PROVE  /\ Log' = Log \o ts
           /\ Log' \in Seq(Topics)
           /\ \E h : Joins(h)'
<1>1. PICK n \in Nat : n = Tip
  BY DEF Tip
<1>2. chain \in Seq(S \cup {evs})
  OBVIOUS
<1>3. /\ Tip' = n + 1
      /\ \A l \in 1..n : chain'[l] = chain[l]
      /\ chain'[n + 1] = evs
      /\ chain' \in Seq(S \cup {evs})
  BY <1>1, <1>2 DEF Tip
<1>4. \A l \in 1..n : TopicsOf(l)' = TopicsOf(l)
  BY <1>1, <1>3 DEF TopicsOf
<1>5. TopicsOf(n + 1)' = ts
  BY <1>1, <1>3 DEF TopicsOf
<1>h. PICK h : h = [l \in 1..(n + 1) |->
                   IF l = n + 1 THEN (IF n = 0 THEN ts ELSE f[n] \o ts) ELSE f[l]]
  OBVIOUS
<1>6. \A l \in 1..(n + 1) :
         h[l] = IF l = 1 THEN TopicsOf(l)' ELSE h[l - 1] \o TopicsOf(l)'
  <2> SUFFICES ASSUME NEW l \in 1..(n + 1)
               PROVE  h[l] = IF l = 1 THEN TopicsOf(l)' ELSE h[l - 1] \o TopicsOf(l)'
    OBVIOUS
  <2>1. l - 1 \in 1..n \/ l = 1
    BY <1>1
  <2>2. CASE l = n + 1
    <3>1. l # 1 => h[l - 1] = f[n] /\ n # 0
      BY <1>1, <1>h, <2>1, <2>2
    <3>2. l = 1 => n = 0
      BY <1>1, <2>2
    <3>3. h[l] = IF n = 0 THEN ts ELSE f[n] \o ts
      BY <1>h, <2>2
    <3> QED
      BY <1>5, <2>2, <3>1, <3>2, <3>3
  <2>3. CASE l # n + 1
    <3>1. l \in 1..n
      BY <1>1, <2>3
    <3>2. h[l] = f[l] /\ (l # 1 => h[l - 1] = f[l - 1])
      BY <1>1, <1>h, <2>1, <2>3
    <3>3. f[l] = IF l = 1 THEN TopicsOf(l) ELSE f[l - 1] \o TopicsOf(l)
      BY <1>1, <3>1 DEF Joins
    <3> QED
      BY <1>4, <3>1, <3>2, <3>3
  <2> QED
    BY <2>2, <2>3
<1>7. h[n + 1] = IF n = 0 THEN ts ELSE f[n] \o ts
  BY <1>1, <1>h
<1>8. h = [l \in 1..(n + 1) |-> h[l]]
  BY <1>h
<1>9. h = [l \in 1..(n + 1) |-> IF l = 1 THEN TopicsOf(l)' ELSE h[l - 1] \o TopicsOf(l)']
  BY <1>6, <1>8
<1>10. Joins(h)'
  BY <1>3, <1>9 DEF Joins
<1>11. Log' = h[n + 1]
  <2>1. Log' = FlattenSeq([l \in 1..(n + 1) |-> TopicsOf(l)'])
    BY <1>3 DEF Log, TopicsOf
  <2>3. PICK logs : logs = [l \in 1..(n + 1) |-> TopicsOf(l)']
    OBVIOUS
  <2>4. logs = [l \in 1..(n + 1) |-> logs[l]] /\ \A l \in 1..(n + 1) : logs[l] = TopicsOf(l)'
    BY <2>3
  <2>5. h = [l \in 1..(n + 1) |-> IF l = 1 THEN logs[l] ELSE h[l - 1] \o logs[l]]
    BY <1>9, <2>4
  <2>2. n + 1 \in Nat /\ n + 1 # 0
    BY <1>1
  <2>6. FlattenSeq(logs) = IF n + 1 = 0 THEN <<>> ELSE h[n + 1]
    BY <2>2, <2>4, <2>5, FlattenIs DEF JoinUp
  <2> QED
    BY <2>1, <2>2, <2>3, <2>6
<1>12. Log = IF n = 0 THEN <<>> ELSE f[n]
  <2>1. Log = FlattenSeq([l \in 1..n |-> TopicsOf(l)])
    BY <1>1 DEF Log, TopicsOf
  <2>2. f = [l \in 1..n |-> IF l = 1 THEN TopicsOf(l) ELSE f[l - 1] \o TopicsOf(l)]
    BY <1>1 DEF Joins
  <2>3. PICK logs : logs = [l \in 1..n |-> TopicsOf(l)]
    OBVIOUS
  <2>4. logs = [l \in 1..n |-> logs[l]] /\ \A l \in 1..n : logs[l] = TopicsOf(l)
    BY <2>3
  <2>5. f = [l \in 1..n |-> IF l = 1 THEN logs[l] ELSE f[l - 1] \o logs[l]]
    BY <2>2, <2>4
  <2>6. FlattenSeq(logs) = IF n = 0 THEN <<>> ELSE f[n]
    BY <2>4, <2>5, FlattenIs DEF JoinUp
  <2> QED
    BY <2>1, <2>3, <2>6
<1>13. Log' = Log \o ts
  <2>1. CASE n = 0
    <3>1. Log = <<>> /\ Log' = ts
      BY <1>7, <1>11, <1>12, <2>1
    <3> QED
      BY <3>1
  <2>2. CASE n # 0
    BY <1>7, <1>11, <1>12, <2>2
  <2> QED
    BY <2>1, <2>2
<1>14. Log \o ts \in Seq(Topics)
  OBVIOUS
<1> QED
  BY <1>10, <1>13, <1>14

\* No ledger holds a second event.
OneEach == \A p \in Published : p[2] = 1

\* A log with one more event.
LEMMA SeenMore ==
    ASSUME NEW log \in Seq(Topics), NEW t \in Topics
    PROVE  \A u : Seen(log \o <<t>>, u) <=> Seen(log, u) \/ u = t
<1>1. PICK n \in Nat : n = Len(log)
  OBVIOUS
<1>2. PICK more : more = log \o <<t>>
  OBVIOUS
<1>3. Len(more) = n + 1 /\ more[n + 1] = t /\ \A k \in 1..n : more[k] = log[k]
  BY <1>1, <1>2
<1>4. \A u : Seen(more, u) <=> Seen(log, u) \/ u = t
  <2> SUFFICES ASSUME NEW u PROVE Seen(more, u) <=> Seen(log, u) \/ u = t
    OBVIOUS
  <2>1. ASSUME Seen(more, u) PROVE Seen(log, u) \/ u = t
    <3>1. PICK k \in 1..(n + 1) : more[k] = u
      BY <1>3, <2>1 DEF Seen
    <3>2. CASE k = n + 1
      BY <1>3, <3>1, <3>2
    <3>3. CASE k \in 1..n
      BY <1>1, <1>3, <3>1, <3>3 DEF Seen
    <3> QED
      BY <1>1, <3>2, <3>3
  <2>2. ASSUME Seen(log, u) PROVE Seen(more, u)
    <3>1. PICK k \in 1..n : log[k] = u
      BY <1>1, <2>2 DEF Seen
    <3>2. k \in 1..(n + 1) /\ more[k] = u
      BY <1>1, <1>3, <3>1
    <3> QED
      BY <1>3, <3>2 DEF Seen
  <2>3. ASSUME u = t PROVE Seen(more, u)
    <3>1. n + 1 \in 1..(n + 1)
      BY <1>1
    <3> QED
      BY <1>3, <2>3, <3>1 DEF Seen
  <2> QED
    BY <2>1, <2>2, <2>3
<1> QED
  BY <1>2, <1>4

\* It has one more signature if the event is one.
LEMMA SignaturesMore ==
    ASSUME NEW log \in Seq(Topics), NEW t \in Topics
    PROVE  /\ Signatures(log) \in Nat /\ Signatures(log) >= 1
           /\ Signatures(log \o <<t>>) = Signatures(log) + (IF t = "ms_sign" THEN 1 ELSE 0)
<1>1. PICK n \in Nat : n = Len(log)
  OBVIOUS
<1>2. PICK more : more = log \o <<t>>
  OBVIOUS
<1>3. Len(more) = n + 1 /\ more[n + 1] = t /\ \A k \in 1..n : more[k] = log[k]
  BY <1>1, <1>2
<1>4. PICK signed : signed = {k \in 1..n : log[k] = "ms_sign"}
  OBVIOUS
<1>5. IsFiniteSet(signed) /\ Cardinality(signed) \in Nat
  <2>1. IsFiniteSet(1..n)
    BY FS_Interval, 1 \in Int, n \in Int
  <2>2. signed \in SUBSET (1..n)
    BY <1>4
  <2> QED
    BY <2>1, <2>2, FS_Subset, FS_CardinalityType
<1>6. {k \in 1..(n + 1) : more[k] = "ms_sign"}
         = IF t = "ms_sign" THEN signed \cup {n + 1} ELSE signed
  BY <1>1, <1>3, <1>4
<1>7. n + 1 \notin signed
  BY <1>1, <1>4
<1>8. Cardinality(signed \cup {n + 1}) = Cardinality(signed) + 1
  BY <1>5, <1>7, FS_AddElement
<1>9. Signatures(log) = 1 + Cardinality(signed)
  BY <1>1, <1>4 DEF Signatures
<1>10. Signatures(more) = 1 + Cardinality(IF t = "ms_sign" THEN signed \cup {n + 1} ELSE signed)
  BY <1>3, <1>6 DEF Signatures
<1>11. Signatures(more) = Signatures(log) + (IF t = "ms_sign" THEN 1 ELSE 0)
  BY <1>5, <1>8, <1>9, <1>10
<1> QED
  BY <1>2, <1>5, <1>9, <1>11

\* The ledgers that may close: an empty one, or one with an event.
LEMMA OneEventLedgers ==
    ASSUME MaxEventsPerLedger = 1, Log \in Seq(Topics), NEW evs \in Ledgers
    PROVE  evs = <<>> \/ \E t \in Topics : Publishable(Log, t) /\ evs = <<Event(Log, t)>>
<1>1. PICK ts \in SeqOf(Topics, MaxEventsPerLedger) :
         /\ \A k \in 1..Len(ts) : Publishable(Log \o SubSeq(ts, 1, k - 1), ts[k])
         /\ evs = [k \in 1..Len(ts) |-> Event(Log \o SubSeq(ts, 1, k - 1), ts[k])]
  BY DEF Ledgers
<1>2. PICK m \in 0..1 : ts \in [1..m -> Topics]
  BY <1>1 DEF SeqOf
<1>3. Len(ts) = m /\ ts \in Seq(Topics)
  BY <1>2
<1>4. CASE m = 0
  <2>1. 1..Len(ts) = {}
    BY <1>3, <1>4
  <2> QED
    BY <1>1, <2>1
<1>5. CASE m = 1
  <2>1. PICK t \in Topics : t = ts[1]
    BY <1>2, <1>5
  <2>2. SubSeq(ts, 1, 1 - 1) = <<>>
    BY <1>3
  <2>3. Log \o <<>> = Log
    OBVIOUS
  <2>4. 1..Len(ts) = {1}
    BY <1>3, <1>5
  <2>5. Publishable(Log, t)
    BY <1>1, <2>1, <2>2, <2>3, <2>4
  <2>6. evs = [k \in {1} |-> Event(Log, t)]
    <3>1. \A k \in {1} : Event(Log \o SubSeq(ts, 1, k - 1), ts[k]) = Event(Log, t)
      BY <2>1, <2>2, <2>3
    <3> QED
      BY <1>1, <2>4, <3>1
  <2>7. evs = <<Event(Log, t)>>
    <3>1. PICK e : e = Event(Log, t)
      OBVIOUS
    <3>2. [k \in {1} |-> e] = <<e>>
      OBVIOUS
    <3> QED
      BY <2>6, <3>1, <3>2
  <2> QED
    BY <2>5, <2>7
<1> QED
  BY <1>2, <1>4, <1>5

\* What a ledger that closes adds to the chain, if anything.
Adds(new, t) ==
    /\ t \in Topics /\ Publishable(Log, t)
    /\ Published' = Published \cup {new}
    /\ \A p \in Published : p[1] < new[1]
    /\ chain'[new[1]][new[2]] = Event(Log, t)
    /\ Log' = Log \o <<t>>

\* A ledger that closes adds at most one event, and changes no earlier one.
LEMMA ChainGrows ==
    ASSUME MaxEventsPerLedger = 1, NEW S, chain \in Seq(S), LogInv, CloseLedger
    PROVE  /\ Log' \in Seq(Topics) /\ \E f : Joins(f)'
           /\ Tip' = Tip + 1 /\ Tip \in Nat
           /\ \A p \in Published : p \in Nat \X Nat /\ p[1] \in 1..Tip /\ EventAt(p)' = EventAt(p)
           /\ \/ Published' = Published /\ Log' = Log
              \/ \E t : Adds(<<Tip + 1, 1>>, t)
<1>1. PICK evs \in Ledgers : chain' = Append(chain, evs)
  BY DEF CloseLedger
<1>2. PICK f : Joins(f)
  BY DEF LogInv
<1>3. Log \in Seq(Topics)
  BY DEF LogInv
<1>4. chain \in Seq(S \cup {evs})
  OBVIOUS
<1>5. PICK n \in Nat : n = Tip
  BY DEF Tip
<1>6. /\ Tip' = n + 1
      /\ \A l \in 1..n : chain'[l] = chain[l]
      /\ chain'[n + 1] = evs
  BY <1>1, <1>4, <1>5 DEF Tip
<1>7. /\ \A p \in Published : p \in Nat \X Nat /\ p[1] \in 1..n
  BY <1>5, PublishedFinite
<1>8. \A p \in Published : EventAt(p)' = EventAt(p)
  BY <1>6, <1>7 DEF EventAt
<1>9. \A p : p \in Published' <=>
         \/ p \in Published
         \/ \E k \in 1..1 : p = <<n + 1, k>> /\ k <= Len(evs)
  <2>1. \A l \in 1..(n + 1) : l \in 1..n \/ l = n + 1
    BY <1>5
  <2>2. 1..n \subseteq 1..(n + 1) /\ n + 1 \in 1..(n + 1)
    BY <1>5
  <2>3. \A p : p \in Published <=>
          \E l \in 1..n, k \in 1..1 : p = <<l, k>> /\ k <= Len(chain[l])
    BY <1>5 DEF Published, Places
  <2>4. \A p : p \in Published' <=>
          \E l \in 1..(n + 1), k \in 1..1 : p = <<l, k>> /\ k <= Len(chain'[l])
    BY <1>6 DEF Published, Places
  <2> QED
    BY <1>6, <2>1, <2>2, <2>3, <2>4
<1>10. CASE evs = <<>>
  <2>1. <<>> \in Seq(Topics) /\ <<>> = [k \in 1..Len(evs) |-> evs[k].topic] /\ Len(evs) = 0
    BY <1>10
  <2>2. /\ Log' = Log \o <<>> /\ Log' \in Seq(Topics) /\ \E h : Joins(h)'
    BY <1>1, <1>2, <1>3, <2>1, LogGrows
  <2>3. Published' = Published
    <3>1. \A k \in 1..1 : ~(k <= Len(evs))
      BY <2>1
    <3>2. \A p : p \in Published' <=> p \in Published
      BY <1>9, <3>1
    <3> QED
      BY <3>2
  <2>4. Log \o <<>> = Log
    BY <1>3
  <2> QED
    BY <1>5, <1>6, <1>7, <1>8, <2>2, <2>3, <2>4
<1>11. ASSUME NEW t \in Topics, Publishable(Log, t), evs = <<Event(Log, t)>>
       PROVE  /\ Log' \in Seq(Topics) /\ \E h : Joins(h)'
              /\ Adds(<<n + 1, 1>>, t)
  <2>1. Len(evs) = 1 /\ evs[1] = Event(Log, t)
    BY <1>11
  <2>2. <<t>> \in Seq(Topics) /\ <<t>> = [k \in 1..Len(evs) |-> evs[k].topic]
    <3>1. Event(Log, t).topic = t
      BY DEF Event
    <3>2. 1..1 = {1}
      OBVIOUS
    <3>3. \A k \in 1..Len(evs) : evs[k].topic = t
      BY <2>1, <3>1, <3>2
    <3>4. <<t>> = [k \in {1} |-> t]
      OBVIOUS
    <3> QED
      BY <2>1, <3>2, <3>3, <3>4
  <2>3. /\ Log' = Log \o <<t>> /\ Log' \in Seq(Topics) /\ \E h : Joins(h)'
    BY <1>1, <1>2, <1>3, <2>2, LogGrows
  <2>4. Published' = Published \cup {<<n + 1, 1>>}
    BY <1>9, <2>1
  <2>5. chain'[n + 1][1] = Event(Log, t)
    BY <1>6, <2>1
  <2>6. \A p \in Published : p[1] < n + 1
    BY <1>5, <1>7
  <2> QED
    BY <1>11, <2>3, <2>4, <2>5, <2>6 DEF Adds
<1>12. evs = <<>> \/ \E t \in Topics : Publishable(Log, t) /\ evs = <<Event(Log, t)>>
  BY <1>3, OneEventLedgers
<1> QED
  BY <1>5, <1>6, <1>7, <1>8, <1>10, <1>11, <1>12

\* What may be published, by topic.
LEMMA Allowed ==
    ASSUME NEW log, NEW t \in Topics, Publishable(log, t)
    PROVE  /\ t = "revoked" => \E u \in Creations : Seen(log, u)
           /\ t \in {"ms_sign", "ms_actv"} => Seen(log, "ms_prop") \/ Seen(log, "ms_sign")
           /\ t \in {"req_ful", "req_rej"} =>
                 Seen(log, "att_req") /\ ~Seen(log, "req_ful") /\ ~Seen(log, "req_rej")
<1>1. ASSUME t = "revoked" PROVE \E u \in Creations : Seen(log, u)
  BY <1>1 DEF Publishable, Creations
<1>2. ASSUME t = "ms_sign" PROVE Seen(log, "ms_prop")
  BY <1>2 DEF Publishable, Creations
<1>3. ASSUME t = "ms_actv" PROVE Seen(log, "ms_sign")
  BY <1>3 DEF Publishable, Creations
<1>4. ASSUME t \in {"req_ful", "req_rej"}
      PROVE  Seen(log, "att_req") /\ ~Seen(log, "req_ful") /\ ~Seen(log, "req_rej")
  <2>1. t \notin Creations /\ t \notin {"revoked", "ms_prop", "ms_sign", "ms_actv", "att_req"}
    BY <1>4 DEF Creations
  <2>2. t \in {"req_ok", "req_no", "req_ful", "req_rej"}
    BY <1>4
  <2>3. /\ Seen(log, "att_req")
        /\ \A u \in {"req_ok", "req_no", "req_ful", "req_rej"} : ~Seen(log, u)
    BY <2>1, <2>2 DEF Publishable
  <2> QED
    BY <2>3
<1> QED
  BY <1>1, <1>2, <1>3, <1>4

\* The log goes on being that of the places: it is built ledger by ledger.
LEMMA LogKept ==
    ASSUME MaxEventsPerLedger = 1, NEW S, chain \in Seq(S), LogInv, SignInv, CloseLedger
    PROVE  LogInv'
<1>1. /\ Log' \in Seq(Topics) /\ \E f : Joins(f)'
      /\ Tip' = Tip + 1 /\ Tip \in Nat
      /\ \A p \in Published : p \in Nat \X Nat /\ p[1] \in 1..Tip /\ EventAt(p)' = EventAt(p)
      /\ \/ Published' = Published /\ Log' = Log
         \/ \E t : Adds(<<Tip + 1, 1>>, t)
  BY ChainGrows
<1>2. CASE Published' = Published /\ Log' = Log
  <2>1. \A p \in Published' : EventAt(p)'.topic \in Topics /\ EventAt(p)'.n \in Nat
    BY <1>1, <1>2 DEF LogInv
  <2>2. \A t : Has(Published, t)' <=> Has(Published, t)
    BY <1>1, <1>2 DEF Has
  <2>3. \A t : Seen(Log, t)' <=> Seen(Log, t)
    BY <1>2 DEF Seen
  <2> QED
    BY <1>1, <2>1, <2>2, <2>3 DEF LogInv
<1>3. ASSUME NEW t, Adds(<<Tip + 1, 1>>, t) PROVE LogInv'
  <2>1. PICK new : new = <<Tip + 1, 1>>
    OBVIOUS
  <2>2. /\ t \in Topics
        /\ Published' = Published \cup {new}
        /\ EventAt(new)' = Event(Log, t)
        /\ Log' = Log \o <<t>>
    BY <1>3, <2>1 DEF Adds, EventAt
  <2>3. Event(Log, t).topic = t /\ Event(Log, t).n \in Nat
    BY DEF Event, SignInv
  <2>4. \A p \in Published' : EventAt(p)'.topic \in Topics /\ EventAt(p)'.n \in Nat
    BY <1>1, <2>2, <2>3 DEF LogInv
  <2>5. \A u : Has(Published, u)' <=> Has(Published, u) \/ u = t
    BY <1>1, <2>2, <2>3 DEF Has
  <2>6. \A u : Seen(Log, u)' <=> Seen(Log, u) \/ u = t
    <3>1. Log \in Seq(Topics)
      BY DEF LogInv
    <3>2. \A u : Seen(Log \o <<t>>, u) <=> Seen(Log, u) \/ u = t
      BY <2>2, <3>1, SeenMore
    <3>3. \A u : Seen(Log, u)' <=> Seen(Log \o <<t>>, u)
      BY <2>2 DEF Seen
    <3> QED
      BY <3>2, <3>3
  <2>7. \A u : Seen(Log, u)' <=> Has(Published, u)'
    BY <2>5, <2>6 DEF LogInv
  <2> QED
    BY <1>1, <2>4, <2>7 DEF LogInv
<1> QED
  BY <1>1, <1>2, <1>3

\* A new event finds those it depends on before it.
LEMMA OrderKept ==
    ASSUME MaxEventsPerLedger = 1, NEW S, chain \in Seq(S), LogInv, OrderInv, CloseLedger
    PROVE  OrderInv'
<1>1. /\ Tip \in Nat
      /\ \A p \in Published : p \in Nat \X Nat /\ p[1] \in 1..Tip /\ EventAt(p)' = EventAt(p)
      /\ \/ Published' = Published /\ Log' = Log
         \/ \E t : Adds(<<Tip + 1, 1>>, t)
  BY ChainGrows
<1> DEFINE before(p) == {q \in Published : q[1] < p[1]}
           ok(p, t) == /\ t = "revoked" => \E u \in Creations : Has(before(p), u)
                       /\ t \in {"ms_sign", "ms_actv"} => Has(before(p), "ms_prop")
                       /\ t \in {"req_ful", "req_rej"} => Has(before(p), "att_req")
           okAfter(p, t) == /\ t = "revoked" => \E u \in Creations : Has(before(p), u)'
                            /\ t \in {"ms_sign", "ms_actv"} => Has(before(p), "ms_prop")'
                            /\ t \in {"req_ful", "req_rej"} => Has(before(p), "att_req")'
<1>2. \A p \in Published : ok(p, EventAt(p).topic)
  BY DEF OrderInv
<1>3. ASSUME NEW p \in Published', NEW u, Published \subseteq Published', Has(before(p), u)
      PROVE  Has(before(p), u)'
  BY <1>1, <1>3 DEF Has
<1>4. ASSUME NEW p \in Published', NEW t, Published \subseteq Published', ok(p, t)
      PROVE  okAfter(p, t)
  BY <1>3, <1>4
<1> HIDE DEF ok, okAfter
<1>5. ASSUME \A p \in Published' : \A u : u = EventAt(p)'.topic => okAfter(p, u),
             ~(Has(Published, "req_ful")' /\ Has(Published, "req_rej")')
      PROVE  OrderInv'
  BY <1>5 DEF OrderInv, okAfter
<1>6. CASE Published' = Published /\ Log' = Log
  <2>1. \A p \in Published' : \A u : u = EventAt(p)'.topic => okAfter(p, u)
    BY <1>1, <1>2, <1>4, <1>6
  <2>2. \A t : Has(Published, t)' <=> Has(Published, t)
    BY <1>1, <1>6 DEF Has
  <2> QED
    BY <1>5, <2>1, <2>2 DEF OrderInv
<1>7. ASSUME NEW t, Adds(<<Tip + 1, 1>>, t) PROVE OrderInv'
  <2>1. PICK new : new = <<Tip + 1, 1>>
    OBVIOUS
  <2>2. /\ t \in Topics /\ Publishable(Log, t)
        /\ Published' = Published \cup {new}
        /\ \A p \in Published : p[1] < new[1]
        /\ EventAt(new)' = Event(Log, t)
    BY <1>7, <2>1 DEF Adds, EventAt
  <2>3. Event(Log, t).topic = t
    BY DEF Event
  <2>4. before(new) = Published
    BY <2>2
  <2>5. \A u : Has(Published, u)' <=> Has(Published, u) \/ u = t
    BY <1>1, <2>2, <2>3 DEF Has
  <2>6. \A u : Seen(Log, u) <=> Has(Published, u)
    BY DEF LogInv
  <2>7. Has(Published, "ms_sign") => Has(Published, "ms_prop")
    <3> SUFFICES ASSUME NEW p \in Published, EventAt(p).topic = "ms_sign"
                 PROVE  Has(Published, "ms_prop")
      BY DEF Has
    <3>1. Has(before(p), "ms_prop")
      BY <1>2 DEF ok
    <3> QED
      BY <3>1 DEF Has
  <2>8. /\ t = "revoked" => \E u \in Creations : Has(Published, u)
        /\ t \in {"ms_sign", "ms_actv"} => Has(Published, "ms_prop")
        /\ t \in {"req_ful", "req_rej"} =>
              Has(Published, "att_req") /\ ~Has(Published, "req_ful") /\ ~Has(Published, "req_rej")
    BY <2>2, <2>6, <2>7, Allowed
  <2>9. ok(new, t)
    BY <2>4, <2>8 DEF ok
  <2>10. \A p \in Published' : \A u : u = EventAt(p)'.topic => okAfter(p, u)
    <3> SUFFICES ASSUME NEW p \in Published' PROVE \A u : u = EventAt(p)'.topic => okAfter(p, u)
      OBVIOUS
    <3>1. CASE p = new
      BY <1>4, <2>2, <2>3, <2>9, <3>1
    <3>2. CASE p \in Published
      BY <1>1, <1>2, <1>4, <2>2, <3>2
    <3> QED
      BY <2>2, <3>1, <3>2
  <2>11. ~(Has(Published, "req_ful")' /\ Has(Published, "req_rej")')
    <3>1. ~(Has(Published, "req_ful") /\ Has(Published, "req_rej"))
      BY DEF OrderInv
    <3> QED
      BY <2>5, <2>8, <3>1
  <2> QED
    BY <1>5, <2>10, <2>11
<1> QED
  BY <1>1, <1>6, <1>7

\* A new signature has the next number.
LEMMA SignKept ==
    ASSUME MaxEventsPerLedger = 1, NEW S, chain \in Seq(S), LogInv, SignInv, CloseLedger
    PROVE  SignInv'
<1>1. /\ Tip \in Nat
      /\ \A p \in Published : p \in Nat \X Nat /\ p[1] \in 1..Tip /\ EventAt(p)' = EventAt(p)
      /\ \/ Published' = Published /\ Log' = Log
         \/ \E t : Adds(<<Tip + 1, 1>>, t)
  BY ChainGrows
<1>2. PICK N \in Nat : N = Signatures(Log) /\ N >= 1
  BY DEF SignInv
<1>3. /\ \A p \in Signed(Published) : EventAt(p).n \in 2..N
      /\ \A k \in 2..N : \E p \in Signed(Published) : EventAt(p).n = k
      /\ \A p, q \in Signed(Published) : p[1] < q[1] => EventAt(p).n < EventAt(q).n
  BY <1>2 DEF SignInv
<1>4. CASE Published' = Published /\ Log' = Log
  <2>1. Signed(Published)' = Signed(Published) /\ \A p \in Signed(Published) : EventAt(p)' = EventAt(p)
    BY <1>1, <1>4 DEF Signed
  <2>2. Signatures(Log)' = N
    BY <1>2, <1>4 DEF Signatures
  <2> QED
    BY <1>2, <1>3, <2>1, <2>2 DEF SignInv
<1>5. ASSUME NEW t, Adds(<<Tip + 1, 1>>, t) PROVE SignInv'
  <2>1. PICK new : new = <<Tip + 1, 1>>
    OBVIOUS
  <2>2. /\ t \in Topics
        /\ Published' = Published \cup {new}
        /\ \A p \in Published : p[1] < new[1]
        /\ EventAt(new)' = Event(Log, t)
        /\ Log' = Log \o <<t>>
    BY <1>5, <2>1 DEF Adds, EventAt
  <2>3. Event(Log, t).topic = t /\ Event(Log, t).n = N + (IF t = "ms_sign" THEN 1 ELSE 0)
    BY <1>2 DEF Event
  <2>4. Signatures(Log)' = N + (IF t = "ms_sign" THEN 1 ELSE 0)
    <3>1. Log \in Seq(Topics)
      BY DEF LogInv
    <3>2. Signatures(Log \o <<t>>) = N + (IF t = "ms_sign" THEN 1 ELSE 0)
      BY <1>2, <2>2, <3>1, SignaturesMore
    <3>3. Signatures(Log)' = Signatures(Log \o <<t>>)
      BY <2>2 DEF Signatures
    <3> QED
      BY <3>2, <3>3
  <2>5. CASE t # "ms_sign"
    <3>1. Signed(Published)' = Signed(Published) /\ \A p \in Signed(Published) : EventAt(p)' = EventAt(p)
      BY <1>1, <2>2, <2>3, <2>5 DEF Signed
    <3>2. Signatures(Log)' = N
      BY <1>2, <2>4, <2>5
    <3> QED
      BY <1>2, <1>3, <3>1, <3>2 DEF SignInv
  <2>6. CASE t = "ms_sign"
    <3>1. /\ Signed(Published)' = Signed(Published) \cup {new}
          /\ \A p \in Signed(Published) : EventAt(p)' = EventAt(p)
          /\ EventAt(new)'.n = N + 1
      BY <1>1, <2>2, <2>3, <2>6 DEF Signed
    <3>2. Signatures(Log)' = N + 1
      BY <1>2, <2>4, <2>6
    <3>3. /\ new[1] \in Nat
          /\ \A p \in Signed(Published) : p[1] \in Nat /\ p[1] < new[1]
      BY <1>1, <2>1, <2>2 DEF Signed
    <3>4. \A p \in Signed(Published)' : EventAt(p)'.n \in 2..(N + 1)
      BY <1>2, <1>3, <3>1
    <3>5. \A k \in 2..(N + 1) : \E p \in Signed(Published)' : EventAt(p)'.n = k
      <4> SUFFICES ASSUME NEW k \in 2..(N + 1)
                   PROVE  \E p \in Signed(Published)' : EventAt(p)'.n = k
        OBVIOUS
      <4>1. CASE k = N + 1
        BY <3>1, <4>1
      <4>2. CASE k \in 2..N
        BY <1>3, <3>1, <4>2
      <4> QED
        BY <1>2, <4>1, <4>2
    <3>6. \A p, q \in Signed(Published)' : p[1] < q[1] => EventAt(p)'.n < EventAt(q)'.n
      <4> SUFFICES ASSUME NEW p \in Signed(Published)', NEW q \in Signed(Published)', p[1] < q[1]
                   PROVE  EventAt(p)'.n < EventAt(q)'.n
        OBVIOUS
      <4>0. p[1] < q[1]
        OBVIOUS
      <4>1. p # new
        <5>1. q[1] \in Nat /\ q[1] <= new[1]
          BY <3>1, <3>3
        <5> QED
          BY <3>3, <4>0, <5>1
      <4>2. p \in Signed(Published) /\ EventAt(p).n \in 2..N /\ EventAt(p)' = EventAt(p)
        BY <1>3, <3>1, <4>1
      <4>3. CASE q = new
        BY <1>2, <3>1, <4>2, <4>3
      <4>4. CASE q \in Signed(Published)
        BY <1>3, <3>1, <4>2, <4>4
      <4> QED
        BY <3>1, <4>3, <4>4
    <3> QED
      BY <1>2, <3>2, <3>4, <3>5, <3>6 DEF SignInv
  <2> QED
    BY <2>5, <2>6
<1> QED
  BY <1>1, <1>4, <1>5

-----------------------------------------------------------------------------
(* The pass over the chain                                                 *)

\* Every event before the next ledger was handed to its handler.
LEMMA FrontDone ==
    ASSUME IndexerInv, PassInv, OneEach
    PROVE  \A p \in Published : p[1] < NextLedger => p \in attempted
<1>1. PICK R : range \in [Workers -> Activation(R)]
  BY DEF IndexerInv, IndexerTypes
<1>2. PICK S : chain \in Seq(S)
  BY DEF IndexerInv, IndexerTypes
<1>3. PICK r \in Activation(R) : r = range["main"]
  BY <1>1 DEF Workers
<1>4. /\ r.pc \in {"idle", "fetch", "handle", "write"}
      /\ r.start \in Nat /\ r.last \in Nat /\ r.page \in Seq(Nat \X Nat)
  BY DEF Activation
<1>5. cursor \in Nat /\ \A p \in Published : p[1] \in Nat /\ p[2] = 1
  BY <1>2, PublishedFinite DEF OneEach, IndexerInv, IndexerTypes
<1> SUFFICES ASSUME NEW p \in Published, p[1] < NextLedger PROVE p \in attempted
  OBVIOUS
<1>6. CASE r.pc = "idle"
  <2>1. FirstsDone(cursor - 1) /\ NextLedger = cursor
    BY <1>3, <1>6 DEF IndexerInv, NextLedger, NextOf
  <2>2. p[1] <= cursor - 1
    BY <1>5, <2>1
  <2> QED
    BY <1>5, <2>1, <2>2 DEF FirstsDone
<1>7. CASE r.pc = "fetch"
  <2>1. FirstsDone(r.start - 1) /\ NextLedger = r.start
    BY <1>3, <1>7 DEF IndexerInv, MainInv, NextLedger, NextOf
  <2>2. p[1] <= r.start - 1
    BY <1>4, <1>5, <2>1
  <2> QED
    BY <1>5, <2>1, <2>2 DEF FirstsDone
<1>8. CASE r.pc \in {"handle", "write"}
  <2>1. PageCarriesOn(r.page, r.last) /\ PageInOrder(r.page, r.last)
    BY <1>3, <1>8 DEF IndexerInv, MainInv, PassInv
  <2>2. PICK page \in Seq(Nat \X Nat) : page = r.page
    BY <1>4
  <2>3. CASE page = <<>>
    <3>1. NextLedger = r.last + 1
      BY <1>3, <1>8, <2>2, <2>3 DEF NextLedger, NextOf
    <3>2. p[1] <= r.last
      BY <1>4, <1>5, <3>1
    <3>3. p \in attempted \/ \E j \in 1..Len(page) : page[j] = p
      BY <1>5, <2>1, <2>2, <3>2 DEF PageCarriesOn
    <3> QED
      BY <2>3, <3>3
  <2>4. CASE page # <<>>
    <3>1. NextLedger = page[1][1] /\ 1 \in 1..Len(page) /\ page[1][1] \in Nat
      BY <1>3, <1>8, <2>2, <2>4, SMTT(30) DEF NextLedger, NextOf
    <3>2. page[1][1] <= r.last
      BY <2>1, <2>2, <3>1 DEF PageInOrder
    <3>3. p[1] <= r.last
      BY <1>4, <1>5, <3>1, <3>2
    <3>4. p \in attempted \/ \E j \in 1..Len(page) : page[j] = p
      BY <1>5, <2>1, <2>2, <3>3 DEF PageCarriesOn
    <3>5. ASSUME NEW j \in 1..Len(page), page[j] = p PROVE FALSE
      <4>1. CASE j = 1
        BY <1>5, <3>1, <3>5, <4>1
      <4>2. CASE j # 1
        <5>1. 1 < j
          BY <4>2
        <5>2. page[1][1] < page[j][1]
          BY <2>1, <2>2, <3>1, <5>1 DEF PageInOrder
        <5> QED
          BY <1>5, <3>1, <3>5, <5>2
      <4> QED
        BY <4>1, <4>2
    <3> QED
      BY <3>4, <3>5
  <2> QED
    BY <2>3, <2>4
<1> QED
  BY <1>4, <1>6, <1>7, <1>8

\* A step that changes the activation of the polling loop to t.
LEMMA PassMoved ==
    ASSUME UNCHANGED chain, NEW t, range'["main"] = t,
           NEW next \in Nat, next = NextOf(t, cursor'),
           t.pc \in {"handle", "write"} => PageInOrder(t.page, t.last),
           t.pc = "write" => t.page # <<>> /\ EventAt(t.page[1]).topic = "ms_sign",
           checkpoint' < next, next <= Tip + 1
    PROVE  PassInv' /\ NextLedger' = next
<1>1. Published' = Published /\ Tip' = Tip
  BY DEF Published, Places, Tip
<1>2. NextLedger' = next
  BY DEF NextLedger
<1>3. PICK page, last : page = t.page /\ last = t.last
  OBVIOUS
<1>4. PageInOrder(page, last)' <=> PageInOrder(page, last)
  BY <1>1 DEF PageInOrder
<1>5. \A p : EventAt(p)' = EventAt(p)
  BY DEF EventAt
<1>6. t.pc \in {"handle", "write"} => PageInOrder(range["main"].page, range["main"].last)'
  BY <1>3, <1>4 DEF PageInOrder
<1>7. t.pc = "write" => t.page # <<>> /\ EventAt(range["main"].page[1])'.topic = "ms_sign"
  BY DEF EventAt
<1> QED
  BY <1>1, <1>2, <1>6, <1>7 DEF PassInv

\* The pass moves on over ledgers without events only.
MovesOn ==
    /\ PassInv'
    /\ NextLedger \in Nat /\ NextLedger' \in Nat /\ NextLedger <= NextLedger'
    /\ \A p \in Published : ~(NextLedger <= p[1] /\ p[1] < NextLedger')

\* A fetched page goes on from the start of its range.
LEMMA FetchPass ==
    ASSUME IndexerInv, PassInv, OneEach, FetchPage("main") PROVE MovesOn
<1>1. PICK R : range \in [Workers -> Activation(R)]
  BY DEF IndexerInv, IndexerTypes
<1>2. PICK S : chain \in Seq(S)
  BY DEF IndexerInv, IndexerTypes
<1>3. PICK r \in Activation(R) : r = range["main"]
  BY <1>1 DEF Workers
<1>4. PICK end : end = Min({r.start + PageLimit - 1, r.to})
  OBVIOUS
<1>5. PICK pg : pg = Page(r.start, end)
  OBVIOUS
<1>6. PICK all : all = PlacesIn(r.start, end)
  OBVIOUS
<1>7. PICK last : last = IF pg = <<>> THEN end ELSE Last(pg)[1]
  OBVIOUS
<1>8. PICK t : t = [r EXCEPT !.pc = "handle", !.page = pg, !.last = last]
  OBVIOUS
<1>9. /\ r.pc = "fetch"
      /\ range' = [range EXCEPT !["main"] = t]
      /\ UNCHANGED <<chain, checkpoint>>
  BY <1>3, <1>4, <1>5, <1>7, <1>8 DEF FetchPage
<1>10. /\ r.start \in Nat /\ r.to \in Nat
       /\ 1 <= r.start /\ r.start <= r.to /\ r.to <= Tip
  BY <1>3, <1>9 DEF IndexerInv, MainInv, Activation
<1>11. end \in Nat /\ r.start <= end /\ end <= r.to
  BY <1>4, <1>10, LeastOfTwo, IndexerAssumption
<1>12. /\ Tip \in Nat
       /\ \A p \in Published : p \in Nat \X Nat /\ p[1] \in 1..Tip /\ p[2] = 1
  BY <1>2, PublishedFinite DEF OneEach
<1>13. /\ pg \in Seq(all)
       /\ pg = <<>> => all = {}
       /\ \A i \in 1..Len(pg), q \in all :
             Precedes(q, pg[i]) => \E j \in 1..(i - 1) : pg[j] = q
       /\ \A i, j \in 1..Len(pg) : i < j => Precedes(pg[i], pg[j])
  BY <1>2, <1>5, <1>6, PageIsFront
<1>14. /\ all \subseteq Published
       /\ \A p \in Published : p \in all <=> r.start <= p[1] /\ p[1] <= end
  BY <1>6 DEF PlacesIn
<1>15. /\ Len(pg) \in Nat /\ \A i \in 1..Len(pg) : pg[i] \in all /\ pg[i] \in Published
       /\ pg # <<>> => 1 \in 1..Len(pg) /\ Len(pg) \in 1..Len(pg)
  BY <1>13, <1>14
<1>16. pg # <<>> => last = pg[Len(pg)][1]
  BY <1>7, <1>13 DEF Last
<1>17. \A p, q \in Published : Precedes(p, q) <=> p[1] < q[1]
  BY <1>12 DEF Precedes
<1>18. last \in Nat /\ last <= end
  BY <1>7, <1>11, <1>12, <1>14, <1>15, <1>16
<1>19. PageInOrder(pg, last)
  <2>1. ASSUME NEW i \in 1..Len(pg), NEW j \in 1..Len(pg), i < j PROVE pg[i][1] < pg[j][1]
    BY <1>13, <1>15, <1>17, <2>1
  <2>2. ASSUME NEW i \in 1..Len(pg) PROVE pg[i][1] <= last
    <3>1. pg # <<>>
      OBVIOUS
    <3>2. CASE i = Len(pg)
      BY <1>12, <1>15, <1>16, <3>1, <3>2
    <3>3. CASE i # Len(pg)
      <4>1. i < Len(pg)
        BY <1>15, <3>3
      <4>2. pg[i][1] < pg[Len(pg)][1]
        BY <1>15, <2>1, <3>1, <4>1
      <4> QED
        BY <1>12, <1>15, <1>16, <1>18, <3>1, <4>2
    <3> QED
      BY <3>2, <3>3
  <2>3. ASSUME NEW i \in 1..Len(pg), NEW p \in Published, pg[i][1] <= p[1], p[1] <= last
        PROVE  \E j \in 1..Len(pg) : pg[j] = p
    <3>1. pg # <<>>
      OBVIOUS
    <3>2. p \in all
      <4>1. r.start <= pg[i][1] /\ pg[i][1] \in Nat /\ p[1] \in Nat
        BY <1>12, <1>14, <1>15
      <4> QED
        BY <1>10, <1>11, <1>14, <1>18, <2>3, <4>1
    <3>3. PICK f \in Published : f = pg[Len(pg)] /\ f[1] = last
      BY <1>15, <1>16, <3>1
    <3>4. CASE p[1] = last
      <4>1. p = f
        BY <1>12, <3>3, <3>4
      <4> QED
        BY <1>15, <3>1, <3>3, <4>1
    <3>5. CASE p[1] # last
      <4>1. Precedes(p, f)
        <5>1. p[1] < f[1]
          BY <1>12, <1>18, <2>3, <3>3, <3>5
        <5> QED
          BY <1>17, <5>1
      <4>2. PICK j \in 1..(Len(pg) - 1) : pg[j] = p
        BY <1>13, <1>15, <3>1, <3>2, <3>3, <4>1
      <4>3. j \in 1..Len(pg)
        BY <1>15
      <4> QED
        BY <4>2, <4>3
    <3> QED
      BY <3>4, <3>5
  <2> QED
    BY <2>1, <2>2, <2>3 DEF PageInOrder
<1>20. PICK next : next = IF pg = <<>> THEN end + 1 ELSE pg[1][1]
  OBVIOUS
<1>21. t.pc = "handle" /\ t.page = pg /\ t.last = last /\ next = NextOf(t, cursor')
  <2>1. t.pc = "handle" /\ t.page = pg /\ t.last = last
    BY <1>8 DEF Activation
  <2> QED
    BY <1>7, <1>20, <2>1 DEF NextOf
<1>22. /\ next \in Nat /\ r.start <= next /\ next <= Tip + 1 /\ next <= end + 1
  <2>1. CASE pg = <<>>
    BY <1>10, <1>11, <1>12, <1>20, <2>1
  <2>2. CASE pg # <<>>
    <3>1. next = pg[1][1] /\ pg[1] \in Published /\ pg[1] \in all
      BY <1>15, <1>20, <2>2
    <3>2. next \in Nat /\ next <= Tip /\ r.start <= next /\ next <= end
      BY <1>12, <1>14, <3>1
    <3> QED
      BY <1>11, <1>12, <3>2
  <2> QED
    BY <2>1, <2>2
<1>23. NextLedger = r.start /\ checkpoint < r.start /\ checkpoint \in Nat
  BY <1>3, <1>9 DEF NextLedger, NextOf, PassInv, IndexerInv, IndexerTypes
<1>24. checkpoint' < next
  BY <1>9, <1>10, <1>22, <1>23
<1>25. range'["main"] = t
  BY <1>1, <1>9 DEF Workers
<1>26. PassInv' /\ NextLedger' = next
  BY <1>9, <1>19, <1>21, <1>22, <1>24, <1>25, PassMoved
<1>27. ASSUME NEW p \in Published, r.start <= p[1], p[1] < next PROVE FALSE
  <2>1. p[1] \in Nat /\ p[1] <= end
    BY <1>11, <1>12, <1>22, <1>27
  <2>2. p \in all
    BY <1>14, <1>27, <2>1
  <2>3. pg # <<>> /\ next = pg[1][1]
    BY <1>13, <1>20, <2>2
  <2>4. Precedes(p, pg[1])
    BY <1>15, <1>17, <1>27, <2>3
  <2>5. \E j \in 1..(1 - 1) : pg[j] = p
    BY <1>13, <1>15, <2>2, <2>3, <2>4
  <2> QED
    BY <2>5
<1> QED
  BY <1>10, <1>22, <1>23, <1>26, <1>27 DEF MovesOn

\* The event at the head of the page is the one of the next ledger, and the
\* pass goes on to the ledger of the event after it.
Handles(e) ==
    /\ PassInv'
    /\ e \in Published /\ e[1] = NextLedger
    /\ attempted' = attempted \cup {e}
    /\ NextLedger \in Nat /\ NextLedger' \in Nat /\ NextLedger < NextLedger'
    /\ \A p \in Published : ~(NextLedger < p[1] /\ p[1] < NextLedger')

\* The head of the page is handled, or its handler throws.
LEMMA EventPass ==
    ASSUME IndexerInv, PassInv, OneEach,
           InHandler("main", "handle") \/ InHandler("main", "write"), EventDone("main")
    PROVE  /\ Handles(Head(range["main"].page))
           /\ Head(range["main"].page) = range["main"].page[1]
           /\ range'["main"].pc = "handle"
<1>1. PICK R : range \in [Workers -> Activation(R)]
  BY DEF IndexerInv, IndexerTypes
<1>2. PICK S : chain \in Seq(S)
  BY DEF IndexerInv, IndexerTypes
<1>3. PICK r \in Activation(R) : r = range["main"]
  BY <1>1 DEF Workers
<1>4. /\ r.pc \in {"handle", "write"} /\ r.page # <<>>
      /\ r.to \in Nat /\ r.last \in Nat /\ r.page \in Seq(Nat \X Nat)
  BY <1>3 DEF Activation, InHandler
<1>5. PICK page \in Seq(Nat \X Nat) : page = r.page
  BY <1>4
<1>6. PICK rest : rest = Tail(page)
  OBVIOUS
<1>7. PICK head : head = Head(page)
  OBVIOUS
<1>8. /\ rest \in Seq(Nat \X Nat)
      /\ Len(page) \in Nat /\ Len(page) >= 1 /\ head = page[1]
      /\ \A i \in 1..Len(rest) : i + 1 \in 1..Len(page) /\ rest[i] = page[i + 1]
      /\ \A j \in 1..Len(page) :
            j # 1 => j - 1 \in 1..Len(rest) /\ rest[j - 1] = page[j]
  BY <1>4, <1>5, <1>6, <1>7, TailShifts, ZenonT(30)
<1>9. /\ PageCarriesOn(page, r.last) /\ PageInOrder(page, r.last)
      /\ r.to <= Tip /\ r.last <= r.to
  BY <1>3, <1>4, <1>5 DEF IndexerInv, MainInv, PassInv
<1>10. PICK t : t = [r EXCEPT !.pc = "handle", !.page = rest, !.read = {}]
  OBVIOUS
<1>11. t.pc = "handle" /\ t.last = r.last /\ t.page = rest
  BY <1>10 DEF Activation
<1>12. range' = [range EXCEPT !["main"] = t]
  BY <1>1, <1>3, <1>5, <1>6, <1>10 DEF EventDone, Workers
<1>13. range'["main"] = t
  BY <1>1, <1>12 DEF Workers
<1>14. /\ attempted' = attempted \cup {head}
       /\ UNCHANGED <<chain, checkpoint>>
  BY <1>3, <1>5, <1>7 DEF EventDone
<1>15. /\ Tip \in Nat
       /\ \A p \in Published : p \in Nat \X Nat /\ p[1] \in 1..Tip
  BY <1>2, PublishedFinite
<1>16. /\ \A i \in 1..Len(page) : page[i] \in Published /\ page[i][1] <= r.last
       /\ \A i, j \in 1..Len(page) : i < j => page[i][1] < page[j][1]
       /\ \A i \in 1..Len(page) : \A p \in Published :
             page[i][1] <= p[1] /\ p[1] <= r.last => \E j \in 1..Len(page) : page[j] = p
  BY <1>9 DEF PageCarriesOn, PageInOrder
<1>17. 1 \in 1..Len(page) /\ head \in Published /\ head[1] \in Nat /\ head[1] <= r.last
  <2>1. 1 \in 1..Len(page)
    BY <1>8
  <2> QED
    BY <1>8, <1>15, <1>16, <2>1
<1>18. PICK next : next = IF rest = <<>> THEN r.last + 1 ELSE rest[1][1]
  OBVIOUS
<1>19. next = NextOf(t, cursor') /\ NextLedger = head[1]
  <2>1. next = NextOf(t, cursor')
    BY <1>11, <1>18 DEF NextOf
  <2>2. NextLedger = head[1]
    BY <1>3, <1>4, <1>5, <1>8 DEF NextOf, NextLedger
  <2> QED
    BY <2>1, <2>2
<1>20. next \in Nat /\ head[1] < next /\ next <= Tip + 1
  <2>1. CASE rest = <<>>
    <3>1. next = r.last + 1 /\ r.last <= Tip
      BY <1>4, <1>9, <1>15, <1>18, <2>1
    <3>2. head[1] \in Nat /\ head[1] <= r.last /\ Tip \in Nat /\ r.last \in Nat
      BY <1>4, <1>15, <1>17
    <3> QED
      BY <3>1, <3>2
  <2>2. CASE rest # <<>>
    <3>1. 1 \in 1..Len(rest)
      BY <1>8, <2>2
    <3>2. 2 \in 1..Len(page) /\ rest[1] = page[2]
      BY <1>8, <3>1
    <3>3. page[2] \in Published /\ head[1] < page[2][1] /\ next = page[2][1]
      BY <1>8, <1>16, <1>17, <1>18, <2>2, <3>2
    <3> QED
      BY <1>15, <3>3
  <2> QED
    BY <2>1, <2>2
<1>21. PageInOrder(rest, r.last)
  <2>1. ASSUME NEW i \in 1..Len(rest) PROVE rest[i][1] <= r.last
    BY <1>8, <1>16
  <2>2. ASSUME NEW i \in 1..Len(rest), NEW j \in 1..Len(rest), i < j
        PROVE  rest[i][1] < rest[j][1]
    <3>1. i + 1 \in 1..Len(page) /\ j + 1 \in 1..Len(page) /\ i + 1 < j + 1
      BY <1>8, <2>2
    <3>2. page[i + 1][1] < page[j + 1][1]
      BY <1>16, <3>1
    <3> QED
      BY <1>8, <3>2
  <2>3. ASSUME NEW i \in 1..Len(rest), NEW p \in Published, rest[i][1] <= p[1], p[1] <= r.last
        PROVE  \E j \in 1..Len(rest) : rest[j] = p
    <3>1. i + 1 \in 1..Len(page) /\ rest[i] = page[i + 1]
      BY <1>8
    <3>2. PICK j \in 1..Len(page) : page[j] = p
      BY <1>16, <2>3, <3>1
    <3>3. j # 1
      <4>1. 1 < i + 1
        OBVIOUS
      <4>2. head[1] < page[i + 1][1] /\ page[i + 1] \in Published
        BY <1>8, <1>16, <1>17, <3>1, <4>1
      <4>3. page[i + 1][1] \in Nat /\ p[1] \in Nat
        BY <1>15, <4>2
      <4>4. page[i + 1][1] <= p[1]
        BY <2>3, <3>1
      <4>5. head[1] < p[1]
        <5>1. PICK a \in Nat, b \in Nat, c \in Nat :
                 a = head[1] /\ b = page[i + 1][1] /\ c = p[1]
          BY <1>17, <4>3
        <5>2. a < b /\ b <= c
          BY <4>2, <4>4, <5>1
        <5>3. a < c
          BY <5>2
        <5> QED
          BY <5>1, <5>3
      <4>6. p # head
        BY <1>17, <4>5, SMTT(30)
      <4> QED
        BY <1>8, <3>2, <4>6
    <3>4. j - 1 \in 1..Len(rest) /\ rest[j - 1] = p
      BY <1>8, <3>2, <3>3
    <3> QED
      BY <3>4
  <2> QED
    BY <2>1, <2>2, <2>3 DEF PageInOrder
<1>22. checkpoint' < next
  <2>1. checkpoint \in Nat /\ checkpoint < head[1]
    BY <1>19 DEF PassInv, IndexerInv, IndexerTypes
  <2> QED
    BY <1>14, <1>17, <1>20, <2>1
<1>23. PassInv' /\ NextLedger' = next
  BY <1>11, <1>13, <1>14, <1>19, <1>20, <1>21, <1>22, PassMoved
<1>24. ASSUME NEW p \in Published, head[1] < p[1], p[1] < next PROVE FALSE
  <2>1. p[1] \in Nat
    BY <1>15
  <2>2. p[1] <= r.last
    <3>1. CASE rest = <<>>
      BY <1>4, <1>18, <1>24, <2>1, <3>1
    <3>2. CASE rest # <<>>
      <4>1. 1 \in 1..Len(rest)
        BY <1>8, <3>2
      <4>2. next <= r.last
        BY <1>18, <1>21, <3>2, <4>1 DEF PageInOrder
      <4> QED
        BY <1>4, <1>20, <1>24, <2>1, <4>2
    <3> QED
      BY <3>1, <3>2
  <2>3. head[1] <= p[1]
    BY <1>17, <1>24, <2>1
  <2>4. PICK j \in 1..Len(page) : page[j] = p
    BY <1>8, <1>16, <1>17, <2>2, <2>3
  <2>5. j # 1
    BY <1>8, <1>17, <1>24, <2>4
  <2>6. j - 1 \in 1..Len(rest) /\ rest[j - 1] = p
    BY <1>8, <2>4, <2>5
  <2>7. rest # <<>> /\ next = rest[1][1] /\ 1 \in 1..Len(rest)
    BY <1>8, <1>18, <2>6
  <2>8. next <= p[1]
    <3>1. CASE j - 1 = 1
      BY <1>20, <2>6, <2>7, <3>1, SMTT(30)
    <3>2. CASE j - 1 # 1
      <4>1. 1 < j - 1
        BY <2>6, <3>2
      <4>2. rest[1][1] < rest[j - 1][1]
        BY <1>21, <2>6, <2>7, <4>1 DEF PageInOrder
      <4>3. rest[1][1] < p[1] /\ next = rest[1][1]
        BY <2>6, <2>7, <4>2
      <4> QED
        BY <1>20, <2>1, <4>3, SMTT(30)
    <3> QED
      BY <3>1, <3>2
  <2> QED
    BY <1>20, <1>24, <2>1, <2>8
<1>25. Head(range["main"].page) = head /\ range["main"].page[1] = head
  BY <1>3, <1>5, <1>7, <1>8
<1>26. Handles(head)
  BY <1>14, <1>17, <1>19, <1>20, <1>23, <1>24 DEF Handles
<1> QED
  BY <1>11, <1>13, <1>25, <1>26

\* The next range, or the end of the pass.
LEMMA AdvancePass ==
    ASSUME IndexerInv, PassInv, PageDone("main"), Advance("main"),
           checkpoint' \in {checkpoint, range["main"].last}
    PROVE  MovesOn /\ range'["main"].pc # "write"
<1>1. PICK R : range \in [Workers -> Activation(R)]
  BY DEF IndexerInv, IndexerTypes
<1>2. PICK r \in Activation(R) : r = range["main"]
  BY <1>1 DEF Workers
<1>3. /\ r.pc = "handle" /\ r.page = <<>>
      /\ UNCHANGED chain
  BY <1>2 DEF PageDone, Advance
<1>4. r.to \in Nat /\ r.last \in Nat /\ r.to <= Tip /\ r.last <= r.to
  BY <1>2, <1>3 DEF IndexerInv, MainInv, Activation
<1>5. PICK next \in Nat : next = r.last + 1
  BY <1>4
<1>6. NextLedger = next
  BY <1>2, <1>3, <1>5 DEF NextLedger, NextOf
<1>7. checkpoint' < next /\ next <= Tip + 1
  <2>1. checkpoint \in Nat /\ checkpoint < next /\ next <= Tip + 1
    BY <1>6 DEF PassInv, IndexerInv, IndexerTypes
  <2> QED
    BY <1>2, <1>4, <1>5, <2>1
<1>8. PICK t : t = IF r.last + 1 > r.to THEN Idle ELSE RangeOf(r.last + 1, r.to)
  OBVIOUS
<1>9. range'["main"] = t /\ t.pc \in {"idle", "fetch"} /\ next = NextOf(t, cursor')
  <2>1. range'["main"] = t
    BY <1>1, <1>2, <1>8 DEF Advance, Workers
  <2>2. CASE r.last + 1 > r.to
    <3>1. t.pc = "idle" /\ cursor' = r.to + 1 /\ r.to + 1 = next
      BY <1>2, <1>4, <1>5, <1>8, <2>2 DEF Advance, Idle
    <3> QED
      BY <2>1, <3>1 DEF NextOf
  <2>3. CASE ~(r.last + 1 > r.to)
    <3>1. t.pc = "fetch" /\ t.start = next
      BY <1>5, <1>8, <2>3 DEF RangeOf, Idle
    <3> QED
      BY <2>1, <3>1 DEF NextOf
  <2> QED
    BY <2>2, <2>3
<1>10. PassInv' /\ NextLedger' = next
  BY <1>3, <1>7, <1>9, PassMoved
<1>11. \A p \in Published : ~(next <= p[1] /\ p[1] < next)
  <2>1. PICK S : chain \in Seq(S)
    BY DEF IndexerInv, IndexerTypes
  <2>2. \A p \in Published : p[1] \in Nat
    BY <2>1, PublishedFinite
  <2> QED
    BY <2>2
<1> QED
  BY <1>6, <1>9, <1>10, <1>11 DEF MovesOn

\* The pass over the next range starts where the last one ended.
LEMMA PollPass ==
    ASSUME IndexerInv, PassInv, Poll PROVE MovesOn /\ range'["main"].pc # "write"
<1>1. PICK R : range \in [Workers -> Activation(R)]
  BY DEF IndexerInv, IndexerTypes
<1>2. PICK S : chain \in Seq(S)
  BY DEF IndexerInv, IndexerTypes
<1>3. PICK r \in Activation(R) : r = range["main"]
  BY <1>1 DEF Workers
<1>4. r.pc = "idle" /\ UNCHANGED <<chain, checkpoint, cursor>>
  BY <1>3 DEF Poll
<1>5. PICK next \in Nat : next = cursor
  BY DEF IndexerInv, IndexerTypes
<1>6. NextLedger = next
  BY <1>3, <1>4, <1>5 DEF NextLedger, NextOf
<1>7. checkpoint' < next /\ next <= Tip + 1
  BY <1>4, <1>6 DEF PassInv
<1>8. PICK t : t = IF cursor <= Tip THEN RangeOf(cursor, Tip) ELSE r
  OBVIOUS
<1>9. range'["main"] = t
  BY <1>1, <1>3, <1>8 DEF Poll, Workers
<1>10. t.pc \in {"idle", "fetch"} /\ next = NextOf(t, cursor')
  <2>1. CASE cursor <= Tip
    <3>1. t.pc = "fetch" /\ t.start = next
      BY <1>5, <1>8, <2>1 DEF RangeOf, Idle
    <3> QED
      BY <3>1 DEF NextOf
  <2>2. CASE ~(cursor <= Tip)
    BY <1>4, <1>5, <1>8, <2>2 DEF NextOf
  <2> QED
    BY <2>1, <2>2
<1>11. PassInv' /\ NextLedger' = next
  BY <1>4, <1>7, <1>9, <1>10, PassMoved
<1>12. \A p \in Published : ~(next <= p[1] /\ p[1] < next)
  <2>1. \A p \in Published : p[1] \in Nat
    BY <1>2, PublishedFinite
  <2> QED
    BY <2>1
<1> QED
  BY <1>6, <1>9, <1>10, <1>11, <1>12 DEF MovesOn

\* The signers are read for the event at the head of the page.
LEMMA ReadPass ==
    ASSUME IndexerInv, PassInv, ReadSigners("main")
    PROVE  MovesOn /\ range'["main"].read = db.signers
<1>1. PICK R : range \in [Workers -> Activation(R)]
  BY DEF IndexerInv, IndexerTypes
<1>2. PICK S : chain \in Seq(S)
  BY DEF IndexerInv, IndexerTypes
<1>3. PICK r \in Activation(R) : r = range["main"]
  BY <1>1 DEF Workers
<1>4. PICK t : t = [r EXCEPT !.pc = "write", !.read = db.signers]
  OBVIOUS
<1>5. /\ r.pc = "handle" /\ r.page # <<>>
      /\ UNCHANGED <<chain, checkpoint, cursor>>
  BY <1>3 DEF ReadSigners, InHandler
<1>6. range'["main"] = t
  BY <1>1, <1>3, <1>4 DEF ReadSigners, Workers
<1>7. /\ t.pc = "write" /\ t.page = r.page /\ t.last = r.last
      /\ t.read = db.signers
  BY <1>4 DEF Activation
<1>8. r.page \in Seq(Nat \X Nat) /\ Head(r.page) = r.page[1]
  BY <1>5, TailShifts DEF Activation
<1>9. EventAt(r.page[1]).topic = "ms_sign"
  BY <1>3, <1>8 DEF ReadSigners, NextEvent
<1>10. /\ PageInOrder(r.page, r.last)
       /\ NextLedger \in Nat /\ checkpoint < NextLedger /\ NextLedger <= Tip + 1
  BY <1>3, <1>5 DEF PassInv
<1>11. PICK next \in Nat : next = NextLedger
  BY <1>10
<1>12. next = NextOf(t, cursor')
  BY <1>3, <1>5, <1>7, <1>11 DEF NextLedger, NextOf
<1>13. checkpoint' < next /\ next <= Tip + 1
  BY <1>5, <1>10, <1>11
<1>14. /\ t.pc \in {"handle", "write"} => PageInOrder(t.page, t.last)
       /\ t.pc = "write" => t.page # <<>> /\ EventAt(t.page[1]).topic = "ms_sign"
  BY <1>5, <1>7, <1>9, <1>10
<1>15. PassInv' /\ NextLedger' = next
  BY <1>5, <1>6, <1>12, <1>13, <1>14, PassMoved
<1>16. \A p \in Published : ~(next <= p[1] /\ p[1] < next)
  <2>1. \A p \in Published : p[1] \in Nat
    BY <1>2, PublishedFinite
  <2> QED
    BY <2>1
<1> QED
  BY <1>6, <1>7, <1>11, <1>15, <1>16 DEF MovesOn

\* A restart takes the pass back to the checkpoint.
LEMMA RestartPass ==
    ASSUME StartLedger = 0, IndexerInv, PassInv, Restart
    PROVE  /\ PassInv' /\ range'["main"].pc # "write"
           /\ NextLedger \in Nat /\ NextLedger' \in Nat /\ NextLedger' <= NextLedger
<1>1. /\ UNCHANGED <<chain, checkpoint>>
      /\ cursor' = checkpoint + 1
      /\ range' = [w \in Workers |-> Idle]
  BY DEF Restart, ResumeAt
<1>2. checkpoint \in Nat /\ NextLedger \in Nat /\ checkpoint < NextLedger /\ NextLedger <= Tip + 1
  BY DEF PassInv, IndexerInv, IndexerTypes
<1>3. PICK next \in Nat : next = checkpoint + 1
  BY <1>2
<1>4. Tip \in Nat
  <2>1. PICK S : chain \in Seq(S)
    BY DEF IndexerInv, IndexerTypes
  <2> QED
    BY <2>1, PublishedFinite
<1>5. next <= NextLedger /\ next <= Tip + 1 /\ checkpoint' < next
  BY <1>1, <1>2, <1>3, <1>4
<1>6. range'["main"] = Idle /\ Idle.pc = "idle"
  BY <1>1 DEF Workers, Idle
<1>7. next = NextOf(Idle, cursor')
  BY <1>1, <1>3, <1>6 DEF NextOf
<1>8. PassInv' /\ NextLedger' = next
  BY <1>1, <1>5, <1>6, <1>7, PassMoved
<1> QED
  BY <1>2, <1>5, <1>6, <1>8

\* A ledger that closes is behind every pass.
LEMMA ClosePass ==
    ASSUME IndexerInv, PassInv, CloseLedger
    PROVE  PassInv' /\ NextLedger' = NextLedger
<1>1. PICK S : chain \in Seq(S)
  BY DEF IndexerInv, IndexerTypes
<1>2. PICK evs : chain' = Append(chain, evs)
  BY DEF CloseLedger
<1>3. PICK n \in Nat : n = Tip
  BY <1>1, PublishedFinite
<1>4. chain \in Seq(S \cup {evs})
  BY <1>1
<1>5. Tip' = n + 1 /\ \A l \in 1..n : chain'[l] = chain[l]
  BY <1>2, <1>3, <1>4 DEF Tip
<1>6. \A p \in Published' : p[1] \in Nat /\ (p[1] <= n => p \in Published)
  BY <1>3, LedgerCloses
<1>7. UNCHANGED <<range, cursor, checkpoint>>
  BY DEF CloseLedger
<1>8. NextLedger' = NextLedger
  BY <1>7 DEF NextLedger
<1>9. PICK R : range \in [Workers -> Activation(R)]
  BY DEF IndexerInv, IndexerTypes
<1>10. PICK r \in Activation(R) : r = range["main"]
  BY <1>9 DEF Workers
<1>11. range'["main"] = r
  BY <1>7, <1>10
<1>12. /\ NextLedger \in Nat /\ checkpoint < NextLedger /\ NextLedger <= n + 1
       /\ r.pc \in {"handle", "write"} => PageInOrder(r.page, r.last)
       /\ r.pc = "write" => r.page # <<>> /\ EventAt(r.page[1]).topic = "ms_sign"
  BY <1>3, <1>10 DEF PassInv
<1>13. ASSUME r.pc \in {"handle", "write"}
       PROVE  /\ r.last \in Nat /\ r.last <= n
              /\ \A i \in 1..Len(r.page) : r.page[i] \in Published
              /\ PageInOrder(r.page, r.last)
              /\ r.page \in Seq(Nat \X Nat)
  <2>1. r.last <= r.to /\ r.to <= n /\ r.last \in Nat /\ r.to \in Nat
    BY <1>3, <1>10, <1>13 DEF IndexerInv, MainInv, Activation
  <2>2. PageCarriesOn(r.page, r.last) /\ r.page \in Seq(Nat \X Nat)
    BY <1>10, <1>13 DEF IndexerInv, MainInv, Activation
  <2> QED
    BY <1>3, <1>12, <1>13, <2>1, <2>2 DEF PageCarriesOn
<1>14. ASSUME r.pc \in {"handle", "write"}
       PROVE  PageInOrder(range["main"].page, range["main"].last)'
  <2>0. PICK page : page = r.page
    OBVIOUS
  <2>1. PICK last \in Nat : last = r.last
    BY <1>13, <1>14
  <2>2. /\ last <= n
        /\ \A i \in 1..Len(page) : page[i][1] <= last
        /\ \A i, j \in 1..Len(page) : i < j => page[i][1] < page[j][1]
        /\ \A i \in 1..Len(page) : \A p \in Published :
              page[i][1] <= p[1] /\ p[1] <= last => \E j \in 1..Len(page) : page[j] = p
    BY <1>13, <1>14, <2>0, <2>1 DEF PageInOrder
  <2>3. \A i \in 1..Len(page) : \A p \in Published' :
              page[i][1] <= p[1] /\ p[1] <= last => \E j \in 1..Len(page) : page[j] = p
    BY <1>6, <2>2
  <2> QED
    BY <1>11, <2>0, <2>1, <2>2, <2>3 DEF PageInOrder
<1>15. ASSUME r.pc = "write"
       PROVE  r.page # <<>> /\ EventAt(range["main"].page[1])'.topic = "ms_sign"
  <2>1. r.page # <<>> /\ 1 \in 1..Len(r.page) /\ EventAt(r.page[1]).topic = "ms_sign"
    BY <1>12, <1>13, <1>15
  <2>2. PICK p \in Published : p = r.page[1]
    BY <1>13, <1>15, <2>1
  <2>3. p[1] \in 1..n
    BY <1>1, <1>3, PublishedFinite
  <2>4. chain'[p[1]][p[2]].topic = "ms_sign"
    BY <1>5, <2>1, <2>2, <2>3 DEF EventAt
  <2> QED
    BY <1>11, <2>1, <2>2, <2>4 DEF EventAt
<1>16. checkpoint' < NextLedger' /\ NextLedger' <= (Tip + 1)' /\ NextLedger' \in Nat
  BY <1>3, <1>5, <1>7, <1>8, <1>12
<1> QED
  BY <1>8, <1>11, <1>14, <1>15, <1>16 DEF PassInv

-----------------------------------------------------------------------------
(* The rows                                                                *)

\* The handler of an event at e brings the rows of the events at done up to
\* date, when the events before e are among those.
LEMMA EventMirrored ==
    ASSUME LogInv, OrderInv, NEW done \in SUBSET Published, NEW e \in Published,
           \A q \in Published : q[1] < e[1] => q \in done,
           \A p \in done : \A q \in Published : q[1] < p[1] => q \in done,
           NEW rows, Mirrors(rows, done), NEW new,
           new = IF EventAt(e).topic = "ms_sign"
                 THEN SignersUpdate(rows, rows.signers, EventAt(e))
                 ELSE handleEvent(rows, EventAt(e))
    PROVE  Mirrors(new, done \cup {e})
<1>1. PICK ev : ev = EventAt(e)
  OBVIOUS
<1>2. PICK t \in Topics : t = ev.topic
  BY <1>1 DEF LogInv
<1>3. PICK more : more = done \cup {e}
  OBVIOUS
<1>4. \A u : Has(more, u) <=> Has(done, u) \/ u = t
  BY <1>1, <1>2, <1>3 DEF Has
<1>5. ev.n \in Nat
  BY <1>1 DEF LogInv
\* What cannot have happened before, and what must have.
<1>6. /\ t = "revoked" => \E u \in Creations : Has(done, u)
      /\ t \in {"ms_sign", "ms_actv"} => Has(done, "ms_prop")
      /\ t \in {"req_ful", "req_rej"} => Has(done, "att_req")
  <2>1. \A u : Has({q \in Published : q[1] < e[1]}, u) => Has(done, u)
    BY DEF Has
  <2> QED
    BY <1>1, <1>2, <2>1 DEF OrderInv
<1>7. ~(Has(more, "req_ful") /\ Has(more, "req_rej"))
  <2>1. \A u : Has(more, u) => Has(Published, u)
    BY <1>3 DEF Has
  <2> QED
    BY <2>1 DEF OrderInv
<1>8. ~Has(done, "ms_prop") => Signed(done) = {}
  <2> SUFFICES ASSUME NEW p \in done, EventAt(p).topic = "ms_sign"
               PROVE  Has(done, "ms_prop")
    BY DEF Signed
  <2>1. Has({q \in Published : q[1] < p[1]}, "ms_prop")
    BY DEF OrderInv
  <2> QED
    BY <2>1 DEF Has
<1>9. Signed(more) = IF t = "ms_sign" THEN Signed(done) \cup {e} ELSE Signed(done)
  BY <1>1, <1>2, <1>3 DEF Signed
\* The rows before, and the objects the event does not belong to.
<1>10. /\ rows \in Rows(SUBSET Nat, Nat)
       /\ rows.attestation = AttestationOf(done)
       /\ rows.signers = SignersOf(done)
       /\ rows.request = RequestOf(done)
       /\ rows.issuer = IssuerOf(done)
  BY DEF Mirrors
<1>11. rows.finalized <=> Has(done, "ms_actv")
  BY DEF Mirrors
<1>12. t \notin Creations /\ t # "revoked" => AttestationOf(more) = AttestationOf(done)
  BY <1>4 DEF AttestationOf
<1>13. t \notin {"ms_prop", "ms_sign"} => SignersOf(more) = SignersOf(done)
  BY <1>4, <1>9 DEF SignersOf
<1>14. t # "ms_actv" => (Has(more, "ms_actv") <=> Has(done, "ms_actv"))
  BY <1>4
<1>15. t \notin {"att_req", "req_ful", "req_rej"} => RequestOf(more) = RequestOf(done)
  BY <1>4 DEF RequestOf
<1>16. t # "iss_reg" => IssuerOf(more) = IssuerOf(done)
  BY <1>4 DEF IssuerOf
<1>17. HasProposal(rows) <=> Has(done, "ms_prop")
  BY <1>10 DEF HasProposal, SignersOf
<1>18. new = IF t = "ms_sign" THEN SignersUpdate(rows, rows.signers, ev) ELSE handleEvent(rows, ev)
  BY <1>1, <1>2
<1> DEFINE Goal == Mirrors(new, more)
<1> SUFFICES Goal
  BY <1>3
<1> HIDE DEF Goal
<1>19. CASE t = "ms_sign"
  <2>1. new = [rows EXCEPT !.signers = rows.signers \cup {ev.n}, !.signatureCount = ev.n]
    BY <1>18, <1>19 DEF SignersUpdate
  <2>2. Has(done, "ms_prop") /\ Has(more, "ms_prop") /\ Signed(more) = Signed(done) \cup {e}
    BY <1>4, <1>6, <1>9, <1>19
  <2>3. rows.signers \cup {ev.n} = SignersOf(more)
    <3>1. SignersOf(more) = {1} \cup {EventAt(p).n : p \in Signed(done) \cup {e}}
      BY <2>2 DEF SignersOf
    <3>2. rows.signers = {1} \cup {EventAt(p).n : p \in Signed(done)}
      BY <1>10, <2>2 DEF SignersOf
    <3> QED
      BY <1>1, <3>1, <3>2
  <2>4. rows.signers \cup {ev.n} \in SUBSET Nat
    BY <1>5, <1>10 DEF Rows
  <2>5. /\ new \in Rows(SUBSET Nat, Nat)
        /\ new.attestation = rows.attestation /\ new.signers = SignersOf(more)
        /\ new.request = rows.request /\ new.issuer = rows.issuer
    BY <1>5, <1>10, <2>1, <2>3, <2>4 DEF Rows
  <2>6. new.finalized = rows.finalized
    BY <1>10, <2>1 DEF Rows
  <2>7. new.finalized <=> Has(more, "ms_actv")
    BY <1>11, <1>14, <1>19, <2>6
  <2>8. t \notin Creations /\ t # "revoked" /\ t \notin {"att_req", "req_ful", "req_rej"} /\ t # "iss_reg"
    BY <1>19 DEF Creations
  <2> QED
    BY <1>10, <1>12, <1>15, <1>16, <2>5, <2>7, <2>8 DEF Goal, Mirrors
<1>20. CASE t \notin Watched
  <2>1. new = rows
    BY <1>2, <1>18, <1>20 DEF handleEvent, Watched, Creations
  <2>2. /\ t \notin Creations /\ t # "revoked" /\ t \notin {"ms_prop", "ms_sign"}
        /\ t # "ms_actv" /\ t \notin {"att_req", "req_ful", "req_rej"} /\ t # "iss_reg"
    BY <1>20 DEF Watched, Creations
  <2> QED
    BY <1>10, <1>11, <1>12, <1>13, <1>14, <1>15, <1>16, <2>1, <2>2 DEF Goal, Mirrors
<1>21. CASE t \in Creations \/ t = "revoked"
  <2>1. /\ t \notin {"ms_prop", "ms_sign"} /\ t # "ms_actv"
        /\ t \notin {"att_req", "req_ful", "req_rej"} /\ t # "iss_reg"
    BY <1>21 DEF Creations
  <2>2. ASSUME NEW a \in {"none", "valid", "revoked"}, a = AttestationOf(more),
               new = [rows EXCEPT !.attestation = a]
        PROVE  Goal
    <3>1. /\ new \in Rows(SUBSET Nat, Nat)
          /\ new.attestation = a /\ new.signers = rows.signers
          /\ new.request = rows.request /\ new.issuer = rows.issuer
      BY <1>10, <2>2 DEF Rows
    <3>2. new.finalized = rows.finalized
      BY <1>10, <2>2 DEF Rows
    <3>3. new.finalized <=> Has(more, "ms_actv")
      BY <1>11, <1>14, <2>1, <3>2
    <3> QED
      BY <1>10, <1>13, <1>15, <1>16, <2>1, <2>2, <3>1, <3>3 DEF Goal, Mirrors
  <2>3. rows = [rows EXCEPT !.attestation = rows.attestation]
        /\ rows.attestation \in {"none", "valid", "revoked"}
    BY <1>10 DEF Rows
  <2>4. CASE t \in Creations
    <3>1. new = IF rows.attestation = "none" THEN [rows EXCEPT !.attestation = "valid"] ELSE rows
      BY <1>2, <1>18, <2>1, <2>4 DEF handleEvent, Watched, Creations
    <3>2. AttestationOf(more) = IF rows.attestation = "none" THEN "valid" ELSE rows.attestation
      <4>1. "revoked" \notin Creations
        BY DEF Creations
      <4>2. Has(more, "revoked") <=> Has(done, "revoked")
        BY <1>4, <2>4, <4>1
      <4>3. \E u \in Creations : Has(more, u)
        BY <1>4, <2>4
      <4> QED
        BY <1>10, <4>2, <4>3 DEF AttestationOf
    <3>3. CASE rows.attestation = "none"
      BY <2>2, <3>1, <3>2, <3>3
    <3>4. CASE rows.attestation # "none"
      BY <2>2, <2>3, <3>1, <3>2, <3>4
    <3> QED
      BY <3>3, <3>4
  <2>5. CASE t = "revoked"
    <3>1. new = IF rows.attestation = "none" THEN rows ELSE [rows EXCEPT !.attestation = "revoked"]
      BY <1>2, <1>18, <2>1, <2>5 DEF handleEvent, Watched, Creations
    <3>2. rows.attestation # "none"
      BY <1>6, <1>10, <2>5 DEF AttestationOf
    <3>3. AttestationOf(more) = "revoked"
      BY <1>4, <2>5 DEF AttestationOf
    <3> QED
      BY <2>2, <3>1, <3>2, <3>3
  <2> QED
    BY <1>21, <2>4, <2>5
<1>22. CASE t = "ms_prop"
  <2>1. new = IF HasProposal(rows) THEN rows
              ELSE [rows EXCEPT !.signers = {1}, !.signatureCount = 1]
    BY <1>2, <1>18, <1>22 DEF handleEvent, Watched, Creations
  <2>2. /\ t \notin Creations /\ t # "revoked" /\ t # "ms_actv"
        /\ t \notin {"att_req", "req_ful", "req_rej"} /\ t # "iss_reg" /\ t # "ms_sign"
    BY <1>22 DEF Creations
  <2>3. Has(more, "ms_prop") /\ Signed(more) = Signed(done)
    BY <1>4, <1>9, <1>22, <2>2
  <2>4. CASE HasProposal(rows)
    <3>1. new = rows /\ SignersOf(more) = SignersOf(done)
      BY <1>17, <2>1, <2>3, <2>4 DEF SignersOf
    <3> QED
      BY <1>10, <1>11, <1>12, <1>14, <1>15, <1>16, <2>2, <3>1 DEF Goal, Mirrors
  <2>5. CASE ~HasProposal(rows)
    <3>1. new = [rows EXCEPT !.signers = {1}, !.signatureCount = 1]
      BY <2>1, <2>5
    <3>2. SignersOf(more) = {1}
      BY <1>8, <1>17, <2>3, <2>5 DEF SignersOf
    <3>0. PICK one \in SUBSET Nat : one = {1}
      <4>1. {1} \in SUBSET Nat
        OBVIOUS
      <4> QED
        BY <4>1
    <3>3. /\ new \in Rows(SUBSET Nat, Nat)
          /\ new.attestation = rows.attestation /\ new.signers = SignersOf(more)
          /\ new.request = rows.request /\ new.issuer = rows.issuer
      <4>1. new = [rows EXCEPT !.signers = one, !.signatureCount = 1]
        BY <3>0, <3>1
      <4> QED
        BY <1>10, <3>0, <3>2, <4>1 DEF Rows
    <3>4. new.finalized = rows.finalized
      BY <1>10, <3>1 DEF Rows
    <3>5. new.finalized <=> Has(more, "ms_actv")
      BY <1>11, <1>14, <2>2, <3>4
    <3> QED
      BY <1>10, <1>12, <1>15, <1>16, <2>2, <3>3, <3>5 DEF Goal, Mirrors
  <2> QED
    BY <2>4, <2>5
<1>23. CASE t = "ms_actv"
  <2>1. new = [rows EXCEPT !.finalized = rows.finalized \/ HasProposal(rows)]
    BY <1>2, <1>18, <1>23 DEF handleEvent, Watched, Creations
  <2>2. /\ t \notin Creations /\ t # "revoked" /\ t \notin {"ms_prop", "ms_sign"}
        /\ t \notin {"att_req", "req_ful", "req_rej"} /\ t # "iss_reg"
    BY <1>23 DEF Creations
  <2>3. PICK f \in BOOLEAN : f = (rows.finalized \/ HasProposal(rows))
    BY Zenon
  <2>4. f
    BY <1>6, <1>17, <1>23, <2>3
  <2>5. new = [rows EXCEPT !.finalized = f]
    BY <2>1, <2>3
  <2>6. /\ new \in Rows(SUBSET Nat, Nat)
        /\ new.attestation = rows.attestation /\ new.signers = rows.signers
        /\ new.request = rows.request /\ new.issuer = rows.issuer
        /\ new.finalized = f
    BY <1>10, <2>5 DEF Rows
  <2>7. Has(more, "ms_actv")
    BY <1>4, <1>23
  <2> QED
    BY <1>10, <1>12, <1>13, <1>15, <1>16, <2>2, <2>4, <2>6, <2>7 DEF Goal, Mirrors
<1>24. CASE t \in {"att_req", "req_ful", "req_rej"}
  <2>1. new = CASE t = "att_req" ->
                     IF rows.request = "none" THEN [rows EXCEPT !.request = "PENDING"] ELSE rows
                [] t = "req_ful" ->
                     IF rows.request = "PENDING" THEN [rows EXCEPT !.request = "FULFILLED"] ELSE rows
                [] t = "req_rej" ->
                     IF rows.request = "PENDING" THEN [rows EXCEPT !.request = "REJECTED"] ELSE rows
    BY <1>2, <1>18, <1>24 DEF handleEvent, Watched, Creations
  <2>2. /\ t \notin Creations /\ t # "revoked" /\ t \notin {"ms_prop", "ms_sign"}
        /\ t # "ms_actv" /\ t # "iss_reg"
    BY <1>24 DEF Creations
  <2>3. ASSUME NEW q \in {"none", "PENDING", "FULFILLED", "REJECTED"}, q = RequestOf(more),
               new = [rows EXCEPT !.request = q]
        PROVE  Goal
    <3>1. /\ new \in Rows(SUBSET Nat, Nat)
          /\ new.attestation = rows.attestation /\ new.signers = rows.signers
          /\ new.request = q /\ new.issuer = rows.issuer
      BY <1>10, <2>3 DEF Rows
    <3>2. new.finalized = rows.finalized
      BY <1>10, <2>3 DEF Rows
    <3>3. new.finalized <=> Has(more, "ms_actv")
      BY <1>11, <1>14, <2>2, <3>2
    <3> QED
      BY <1>10, <1>12, <1>13, <1>16, <2>2, <2>3, <3>1, <3>3 DEF Goal, Mirrors
  <2>4. rows = [rows EXCEPT !.request = rows.request]
        /\ rows.request \in {"none", "PENDING", "FULFILLED", "REJECTED"}
    BY <1>10 DEF Rows
  <2>5. CASE t = "att_req"
    <3>1. RequestOf(more) = IF rows.request = "none" THEN "PENDING" ELSE rows.request
      BY <1>4, <1>10, <2>5 DEF RequestOf
    <3> QED
      BY <2>1, <2>3, <2>4, <2>5, <3>1
  <2>6. CASE t = "req_ful"
    <3>1. RequestOf(more) = "FULFILLED" /\ rows.request \in {"PENDING", "FULFILLED"}
      BY <1>4, <1>6, <1>7, <1>10, <2>6 DEF RequestOf
    <3> QED
      BY <2>1, <2>3, <2>4, <2>6, <3>1
  <2>7. CASE t = "req_rej"
    <3>1. RequestOf(more) = "REJECTED" /\ rows.request \in {"PENDING", "REJECTED"}
      BY <1>4, <1>6, <1>7, <1>10, <2>7 DEF RequestOf
    <3> QED
      BY <2>1, <2>3, <2>4, <2>7, <3>1
  <2> QED
    BY <1>24, <2>5, <2>6, <2>7
<1>25. CASE t = "iss_reg"
  <2>1. new = IF rows.issuer = "none" THEN [rows EXCEPT !.issuer = "basic"] ELSE rows
    BY <1>2, <1>18, <1>25 DEF handleEvent, Watched, Creations
  <2>2. /\ t \notin Creations /\ t # "revoked" /\ t \notin {"ms_prop", "ms_sign"}
        /\ t # "ms_actv" /\ t \notin {"att_req", "req_ful", "req_rej"}
    BY <1>25 DEF Creations
  <2>3. IssuerOf(more) = "basic" /\ new.issuer = "basic"
    BY <1>4, <1>10, <1>25, <2>1 DEF IssuerOf, Rows
  <2>4. /\ new \in Rows(SUBSET Nat, Nat)
        /\ new.attestation = rows.attestation /\ new.signers = rows.signers
        /\ new.request = rows.request
    BY <1>10, <2>1 DEF Rows
  <2>5. new.finalized = rows.finalized
    BY <1>10, <2>1 DEF Rows
  <2>6. new.finalized <=> Has(more, "ms_actv")
    BY <1>11, <1>14, <2>2, <2>5
  <2> QED
    BY <1>10, <1>12, <1>13, <1>15, <2>2, <2>3, <2>4, <2>6 DEF Goal, Mirrors
<1> QED
  BY <1>19, <1>20, <1>21, <1>22, <1>23, <1>24, <1>25, TopicsAssumption DEF Watched, Creations

\* A count stands for all the ledgers up to the next signature.
LEMMA CountShift ==
    ASSUME NEW l \in Nat, NEW m \in Nat, l <= m, NEW n, CountBefore(l, n),
           \A p \in Signed(Published) : p[1] \in Nat /\ ~(l <= p[1] /\ p[1] < m)
    PROVE  CountBefore(m, n)
<1>1. \A p \in Signed(Published) : (p[1] < m <=> p[1] < l) /\ (l <= p[1] <=> m <= p[1])
  OBVIOUS
<1>2. ASSUME n = 1, \A p \in Signed(Published) : l <= p[1] PROVE CountBefore(m, n)
  BY <1>1, <1>2 DEF CountBefore
<1>3. ASSUME NEW p \in Signed(Published), p[1] < l, EventAt(p).n = n,
             \A q \in Signed(Published) : q[1] < l => q[1] <= p[1]
      PROVE  CountBefore(m, n)
  <2>1. p[1] < m /\ \A q \in Signed(Published) : q[1] < m => q[1] <= p[1]
    BY <1>1, <1>3
  <2> QED
    BY <1>3, <2>1 DEF CountBefore
<1> QED
  BY <1>2, <1>3 DEF CountBefore

\* A pass that goes on to ledger m, over ledgers without signatures.
LEMMA CountMoves ==
    ASSUME Tip \in Nat, NEW from \in Nat, NEW m \in Nat, from <= m, m <= Tip + 1,
           \A p \in Signed(Published) : p[1] \in Nat /\ ~(from <= p[1] /\ p[1] < m),
           NEW rows, NEW done, CountInv(rows, done, from)
    PROVE  CountInv(rows, done, m)
<1>1. CASE ~Has(done, "ms_prop")
  BY <1>1 DEF CountInv
<1>2. CASE Has(done, "ms_prop")
  <2>1. PICK n : n = rows.signatureCount
    OBVIOUS
  <2>2. PICK l \in Nat : from <= l /\ l <= Tip + 1 /\ CountBefore(l, n)
    BY <1>2, <2>1 DEF CountInv
  <2>3. CASE m <= l
    BY <1>2, <2>1, <2>2, <2>3 DEF CountInv
  <2>4. CASE ~(m <= l)
    <3>1. l <= m /\ \A p \in Signed(Published) : p[1] \in Nat /\ ~(l <= p[1] /\ p[1] < m)
      BY <2>2, <2>4
    <3>2. CountBefore(m, n)
      BY <2>2, <3>1, CountShift
    <3> QED
      BY <1>2, <2>1, <3>2 DEF CountInv
  <2> QED
    BY <2>3, <2>4
<1> QED
  BY <1>1, <1>2

\* The event of the next ledger, and the pass goes on to ledger m.
LEMMA EventCounted ==
    ASSUME LogInv, OrderInv, Tip \in Nat, NEW done \in SUBSET Published, NEW e \in Published,
           \A p \in Published : p[1] \in Nat /\ (p[1] = e[1] => p = e),
           \A q \in Published : q[1] < e[1] => q \in done,
           \A p \in done : \A q \in Published : q[1] < p[1] => q \in done,
           NEW m \in Nat, e[1] < m, m <= Tip + 1,
           \A p \in Published : ~(e[1] < p[1] /\ p[1] < m),
           NEW rows, Mirrors(rows, done), CountInv(rows, done, e[1]), NEW new,
           new = IF EventAt(e).topic = "ms_sign"
                 THEN SignersUpdate(rows, rows.signers, EventAt(e))
                 ELSE handleEvent(rows, EventAt(e))
    PROVE  CountInv(new, done \cup {e}, m)
<1>1. PICK ev : ev = EventAt(e)
  OBVIOUS
<1>2. PICK t \in Topics : t = ev.topic
  BY <1>1 DEF LogInv
<1>3. PICK more : more = done \cup {e}
  OBVIOUS
<1>4. \A u : Has(more, u) <=> Has(done, u) \/ u = t
  BY <1>1, <1>2, <1>3 DEF Has
<1>5. \A p \in Signed(Published) : p \in Published /\ p[1] \in Nat /\ EventAt(p).topic = "ms_sign"
  BY DEF Signed
<1>6. PICK from \in Nat : from = e[1]
  OBVIOUS
<1>7. rows \in Rows(SUBSET Nat, Nat) /\ (HasProposal(rows) <=> Has(done, "ms_prop"))
  BY DEF Mirrors, HasProposal, SignersOf
<1>8. new = IF t = "ms_sign" THEN SignersUpdate(rows, rows.signers, ev) ELSE handleEvent(rows, ev)
  BY <1>1, <1>2
<1>9. CASE t = "ms_sign"
  <2>1. new.signatureCount = ev.n
    BY <1>7, <1>8, <1>9 DEF SignersUpdate, Rows
  <2>2. Has(done, "ms_prop")
    <3>1. Has({q \in Published : q[1] < e[1]}, "ms_prop")
      BY <1>1, <1>2, <1>9 DEF OrderInv
    <3> QED
      BY <3>1 DEF Has
  <2>3. e \in Signed(Published) /\ e[1] < m /\ EventAt(e).n = ev.n
    BY <1>1, <1>2, <1>9 DEF Signed
  <2>4. \A q \in Signed(Published) : q[1] < m => q[1] <= e[1]
    BY <1>5, <1>6
  <2>5. CountBefore(m, new.signatureCount)
    BY <2>1, <2>3, <2>4 DEF CountBefore
  <2> QED
    <3>1. Has(more, "ms_prop")
      BY <1>4, <2>2
    <3> QED
      BY <1>3, <2>5, <3>1 DEF CountInv
<1>10. CASE t = "ms_prop" /\ ~Has(done, "ms_prop")
  <2>1. new = [rows EXCEPT !.signers = {1}, !.signatureCount = 1]
    BY <1>2, <1>7, <1>8, <1>10 DEF handleEvent, Watched, Creations
  <2>2. new.signatureCount = 1
    BY <1>7, <2>1 DEF Rows
  <2>3. ASSUME NEW p \in Signed(Published), p[1] < m PROVE FALSE
    <3>1. p \in Published /\ p[1] \in Nat /\ EventAt(p).topic = "ms_sign"
      BY <1>5
    <3>2. p # e
      BY <1>1, <1>2, <1>10, <3>1
    <3>3. p[1] < e[1]
      BY <1>6, <2>3, <3>1, <3>2
    <3>4. \A q \in Published : q[1] < p[1] => q \in done
      BY <3>1, <3>3
    <3>5. Has({q \in Published : q[1] < p[1]}, "ms_prop")
      BY <3>1 DEF OrderInv
    <3> QED
      BY <1>10, <3>4, <3>5 DEF Has
  <2>4. CountBefore(m, 1)
    BY <1>5, <2>3 DEF CountBefore
  <2>5. Has(more, "ms_prop")
    BY <1>4, <1>10
  <2> QED
    BY <1>3, <2>2, <2>4, <2>5 DEF CountInv
<1>11. CASE t # "ms_sign" /\ ~(t = "ms_prop" /\ ~Has(done, "ms_prop"))
  <2>1. new.signatureCount = rows.signatureCount
    <3>1. new = handleEvent(rows, ev)
      BY <1>8, <1>11
    <3>2. CASE t \in Creations \/ t = "revoked"
      <4>1. \/ new = rows
            \/ \E a \in {"valid", "revoked"} : new = [rows EXCEPT !.attestation = a]
        BY <1>2, <3>1, <3>2 DEF handleEvent, Watched, Creations
      <4> QED
        BY <1>7, <4>1 DEF Rows
    <3>3. CASE t = "ms_prop"
      <4>1. new = rows
        BY <1>2, <1>7, <1>11, <3>1, <3>3 DEF handleEvent, Watched, Creations
      <4> QED
        BY <4>1
    <3>4. CASE t = "ms_actv"
      <4>1. new = [rows EXCEPT !.finalized = rows.finalized \/ HasProposal(rows)]
        BY <1>2, <3>1, <3>4 DEF handleEvent, Watched, Creations
      <4> QED
        BY <1>7, <4>1 DEF Rows
    <3>5. CASE t \in {"att_req", "req_ful", "req_rej"}
      <4>1. \/ new = rows
            \/ \E q \in {"PENDING", "FULFILLED", "REJECTED"} : new = [rows EXCEPT !.request = q]
        BY <1>2, <3>1, <3>5 DEF handleEvent, Watched, Creations
      <4> QED
        BY <1>7, <4>1 DEF Rows
    <3>6. CASE t = "iss_reg"
      <4>1. new = rows \/ new = [rows EXCEPT !.issuer = "basic"]
        BY <1>2, <3>1, <3>6 DEF handleEvent, Watched, Creations
      <4> QED
        BY <1>7, <4>1 DEF Rows
    <3>7. CASE t \notin Watched
      <4>1. new = rows
        BY <1>2, <3>1, <3>7 DEF handleEvent, Watched, Creations
      <4> QED
        BY <4>1
    <3> QED
      BY <1>11, <3>2, <3>3, <3>4, <3>5, <3>6, <3>7, TopicsAssumption DEF Watched, Creations
  <2>2. Has(more, "ms_prop") <=> Has(done, "ms_prop")
    BY <1>4, <1>11
  <2>3. \A p \in Signed(Published) : p[1] \in Nat /\ ~(from <= p[1] /\ p[1] < m)
    <3>1. ASSUME NEW p \in Signed(Published), from <= p[1], p[1] < m PROVE FALSE
      <4>1. p \in Published /\ p[1] \in Nat /\ EventAt(p).topic = "ms_sign"
        BY <1>5
      <4>2. p # e
        BY <1>1, <1>2, <1>11, <4>1
      <4> QED
        BY <1>6, <3>1, <4>1, <4>2
    <3> QED
      BY <1>5, <3>1
  <2>4. CountInv(rows, done, m)
    <3>1. CountInv(rows, done, from)
      BY <1>6
    <3>2. from <= m
      BY <1>6
    <3> QED
      BY <2>3, <3>1, <3>2, CountMoves
  <2>5. CountInv(new, more, m)
    BY <2>1, <2>2, <2>4 DEF CountInv
  <2> QED
    BY <1>3, <2>5
<1> QED
  BY <1>9, <1>10, <1>11

\* What is said of the rows, the handled events and the pass after a step that
\* leaves the chain alone.
LEMMA RowsStay ==
    ASSUME UNCHANGED chain, NEW rows, rows = db', NEW ps, ps = attempted',
           NEW m, m = NextLedger', Mirrors(rows, ps), CountInv(rows, ps, m)
    PROVE  Mirrors(db, attempted)' /\ CountInv(db, attempted, NextLedger)'
<1>1. /\ Published' = Published /\ Tip' = Tip
      /\ \A p : EventAt(p)' = EventAt(p)
  BY DEF Published, Places, Tip, EventAt
<1>2. \A t : Has(attempted, t)' <=> Has(ps, t)
  BY <1>1 DEF Has
<1>3. Signed(attempted)' = Signed(ps) /\ Signed(Published)' = Signed(Published)
  BY <1>1 DEF Signed
<1>4. AttestationOf(attempted)' = AttestationOf(ps)
  BY <1>2 DEF AttestationOf
<1>5. SignersOf(attempted)' = SignersOf(ps)
  BY <1>1, <1>2, <1>3 DEF SignersOf
<1>6. RequestOf(attempted)' = RequestOf(ps)
  BY <1>2 DEF RequestOf
<1>7. IssuerOf(attempted)' = IssuerOf(ps)
  BY <1>2 DEF IssuerOf
<1>8. Mirrors(db, attempted)'
  BY <1>2, <1>4, <1>5, <1>6, <1>7 DEF Mirrors
<1>9. CountInv(db, attempted, NextLedger)'
  <2>1. CASE Has(ps, "ms_prop")
    <3>1. PICK n : n = rows.signatureCount
      OBVIOUS
    <3>2. PICK l \in Nat : m <= l /\ l <= Tip + 1 /\ CountBefore(l, n)
      BY <2>1, <3>1 DEF CountInv
    <3>3. CountBefore(l, n)'
      BY <1>1, <1>3, <3>2 DEF CountBefore
    <3>4. CountBefore(l, db.signatureCount)'
      BY <3>1, <3>3 DEF CountBefore
    <3>5. Has(attempted, "ms_prop")' /\ NextLedger' <= l /\ l <= (Tip + 1)'
      BY <1>1, <1>2, <2>1, <3>2
    <3> QED
      BY <3>4, <3>5 DEF CountInv
  <2>2. CASE ~Has(ps, "ms_prop")
    <3>1. ~Has(attempted, "ms_prop")' /\ db'.signatureCount = 0
      BY <1>2, <2>2 DEF CountInv
    <3> QED
      BY <3>1 DEF CountInv
  <2> QED
    BY <2>1, <2>2
<1> QED
  BY <1>8, <1>9

\* All that the proof keeps of the chain, the pass and the tables.
TablesInv == IndexerInv /\ LogInv /\ OrderInv /\ SignInv /\ PassInv /\ DoneInv /\ MirrorInv

\* Facts about the chain with at most one event in a ledger.
LEMMA Chain ==
    ASSUME MaxEventsPerLedger = 1, IndexerInv
    PROVE  /\ OneEach /\ Tip \in Nat /\ attempted \in SUBSET Published
           /\ \A p \in Published : p[1] \in 1..Tip
           /\ \A p, q \in Published : p[1] = q[1] => p = q
<1>1. PICK S : chain \in Seq(S)
  BY DEF IndexerInv, IndexerTypes
<1>2. /\ Tip \in Nat
      /\ \A p \in Published : p \in Nat \X Nat /\ p[1] \in 1..Tip /\ p[2] \in 1..1
  BY <1>1, PublishedFinite
<1>3. \A p \in Published : p[2] = 1
  BY <1>2
<1>4. \A p, q \in Published : p[1] = q[1] => p = q
  BY <1>2, <1>3
<1> QED
  BY <1>2, <1>3, <1>4 DEF OneEach, IndexerInv, IndexerTypes

\* A step of the pass that handles no event.
LEMMA QuietKeeps ==
    ASSUME MaxEventsPerLedger = 1, IndexerInv, MirrorInv, MovesOn,
           UNCHANGED <<chain, db, attempted, skipped>>,
           range'["main"].pc = "write" => range'["main"].read = db.signers
    PROVE  MirrorInv'
<1> SUFFICES ASSUME skipped' = {}
             PROVE  /\ Mirrors(db, attempted)' /\ CountInv(db, attempted, NextLedger)'
                    /\ range'["main"].pc = "write" => range'["main"].read = db'.signers
  BY DEF MirrorInv
<1>1. PICK rows, ps : rows = db' /\ ps = attempted'
  OBVIOUS
<1>2. PICK from, m \in Nat : from = NextLedger /\ m = NextLedger'
  BY DEF MovesOn
<1>3. from \in Nat /\ from <= m
  BY <1>2 DEF MovesOn
<1>4. Mirrors(rows, ps) /\ CountInv(rows, ps, from)
  BY <1>1, <1>2 DEF MirrorInv
<1>5. Tip \in Nat /\ \A p \in Published : p[1] \in 1..Tip
  BY Chain
<1>6. m <= Tip + 1
  <2>1. PassInv' /\ Tip' = Tip
    BY DEF MovesOn, Tip
  <2> QED
    BY <1>2, <2>1 DEF PassInv
<1>7. \A p \in Signed(Published) : p[1] \in Nat /\ ~(from <= p[1] /\ p[1] < m)
  BY <1>2, <1>5 DEF MovesOn, Signed
<1>8. CountInv(rows, ps, m)
  BY <1>3, <1>4, <1>5, <1>6, <1>7, CountMoves
<1>9. Mirrors(db, attempted)' /\ CountInv(db, attempted, NextLedger)'
  BY <1>1, <1>2, <1>4, <1>8, RowsStay
<1> QED
  BY <1>9

\* A handler that ran to its end.
LEMMA HandlerKeeps ==
    ASSUME MaxEventsPerLedger = 1, TablesInv, HandleEvent("main") \/ WriteSigners("main")
    PROVE  PassInv' /\ DoneInv' /\ MirrorInv'
<1>1. PICK e : e = Head(range["main"].page)
  OBVIOUS
<1>2. /\ OneEach /\ Tip \in Nat /\ attempted \in SUBSET Published
      /\ \A p \in Published : p[1] \in 1..Tip
      /\ \A p, q \in Published : p[1] = q[1] => p = q
  BY Chain DEF TablesInv
<1>3. /\ InHandler("main", "handle") \/ InHandler("main", "write")
      /\ EventDone("main") /\ UNCHANGED skipped
  BY DEF HandleEvent, WriteSigners
<1>4. Handles(e) /\ e = range["main"].page[1] /\ range'["main"].pc = "handle"
  BY <1>1, <1>2, <1>3, EventPass DEF TablesInv
<1>5. PICK from \in Nat : from = NextLedger
  BY <1>4 DEF Handles
<1>6. PICK m \in Nat : m = NextLedger'
  BY <1>4 DEF Handles
<1>7. /\ e \in Published /\ e[1] = from /\ from < m
      /\ attempted' = attempted \cup {e}
      /\ \A p \in Published : ~(from < p[1] /\ p[1] < m)
  BY <1>4, <1>5, <1>6 DEF Handles
<1>8. \A q \in Published : q[1] < e[1] => q \in attempted
  BY <1>2, <1>5, <1>7, FrontDone DEF TablesInv
<1>9. \A p \in attempted : \A q \in Published : q[1] < p[1] => q \in attempted
  BY DEF TablesInv, DoneInv
<1>10. UNCHANGED chain
  BY <1>3 DEF EventDone
<1>11. Published' = Published /\ Tip' = Tip
  BY <1>10 DEF Published, Places, Tip
<1>12. DoneInv'
  BY <1>7, <1>8, <1>9, <1>11 DEF DoneInv
<1>13. PassInv'
  BY <1>4 DEF Handles
<1>14. ASSUME skipped' = {}
       PROVE  /\ Mirrors(db, attempted)' /\ CountInv(db, attempted, NextLedger)'
              /\ range'["main"].pc # "write"
  <2>1. skipped = {}
    BY <1>3, <1>14
  <2>2. PICK rows : rows = db
    OBVIOUS
  <2>3. PICK done \in SUBSET Published : done = attempted
    BY <1>2
  <2>4. PICK new : new = db'
    OBVIOUS
  <2>5. Mirrors(rows, done) /\ CountInv(rows, done, from)
    BY <1>5, <2>1, <2>2, <2>3 DEF TablesInv, MirrorInv
  <2>6. LogInv /\ OrderInv
    BY DEF TablesInv
  <2>7. new = IF EventAt(e).topic = "ms_sign"
              THEN SignersUpdate(rows, rows.signers, EventAt(e))
              ELSE handleEvent(rows, EventAt(e))
    <3>1. CASE HandleEvent("main")
      <4>1. EventAt(e).topic # "ms_sign"
        <5> SUFFICES ASSUME EventAt(e).topic = "ms_sign" PROVE FALSE
          OBVIOUS
        <5>1. Has({q \in Published : q[1] < e[1]}, "ms_prop")
          BY <1>7, <2>6 DEF OrderInv
        <5>2. Has(done, "ms_prop")
          BY <1>8, <2>3, <5>1 DEF Has
        <5>3. HasProposal(rows)
          BY <2>5, <5>2 DEF HasProposal, Mirrors, SignersOf
        <5>4. ~HasProposal(rows)
          BY <1>1, <2>2, <3>1 DEF HandleEvent, NextEvent
        <5> QED
          BY <5>3, <5>4
      <4> QED
        BY <1>1, <2>2, <2>4, <3>1, <4>1 DEF HandleEvent, NextEvent
    <3>2. CASE WriteSigners("main")
      <4>1. range["main"].pc = "write"
        BY <3>2 DEF WriteSigners, InHandler
      <4>2. EventAt(e).topic = "ms_sign"
        BY <1>4, <4>1 DEF TablesInv, PassInv
      <4>3. range["main"].read = rows.signers
        BY <2>1, <2>2, <4>1 DEF TablesInv, MirrorInv
      <4> QED
        BY <1>1, <2>2, <2>4, <3>2, <4>2, <4>3 DEF WriteSigners, NextEvent
    <3> QED
      BY <3>1, <3>2
  <2>8. m <= Tip + 1
    BY <1>6, <1>11, <1>13 DEF PassInv
  <2>9. PICK ps : ps = attempted'
    OBVIOUS
  <2>10. ps = done \cup {e}
    BY <1>7, <2>3, <2>9
  <2>11. /\ \A q \in Published : q[1] < e[1] => q \in done
         /\ \A p \in done : \A q \in Published : q[1] < p[1] => q \in done
    BY <1>8, <1>9, <2>3
  <2>12. Mirrors(new, ps)
    <3>1. Mirrors(new, done \cup {e})
      BY <1>7, <2>5, <2>6, <2>7, <2>11, EventMirrored
    <3> QED
      BY <2>10, <3>1
  <2>13. CountInv(new, ps, m)
    <3>1. \A p \in Published : p[1] \in Nat /\ (p[1] = e[1] => p = e)
      BY <1>2, <1>7
    <3>2. /\ e[1] < m /\ CountInv(rows, done, e[1])
          /\ \A p \in Published : ~(e[1] < p[1] /\ p[1] < m)
      BY <1>7, <2>5
    <3>3. CountInv(new, done \cup {e}, m)
      BY <1>2, <1>7, <2>5, <2>6, <2>7, <2>8, <2>11, <3>1, <3>2, EventCounted
    <3> QED
      BY <2>10, <3>3
  <2>14. Mirrors(db, attempted)' /\ CountInv(db, attempted, NextLedger)'
    BY <1>6, <1>10, <2>4, <2>9, <2>12, <2>13, RowsStay
  <2> QED
    BY <1>4, <2>14
<1>15. MirrorInv'
  BY <1>14 DEF MirrorInv
<1> QED
  BY <1>12, <1>13, <1>15

\* A handler that threw: from then on nothing is said of the rows.
LEMMA ThrowKeeps ==
    ASSUME MaxEventsPerLedger = 1, TablesInv, HandlerThrows("main")
    PROVE  PassInv' /\ DoneInv' /\ MirrorInv'
<1>1. PICK e : e = Head(range["main"].page)
  OBVIOUS
<1>2. OneEach
  BY Chain DEF TablesInv
<1>3. /\ InHandler("main", "handle") \/ InHandler("main", "write")
      /\ EventDone("main") /\ skipped' = skipped \cup {e}
  BY <1>1 DEF HandlerThrows
<1>4. Handles(e)
  BY <1>1, <1>2, <1>3, EventPass DEF TablesInv
<1>5. attempted' = attempted \cup {e} /\ e[1] = NextLedger /\ PassInv'
  BY <1>4 DEF Handles
<1>6. \A q \in Published : q[1] < e[1] => q \in attempted
  BY <1>2, <1>5, FrontDone DEF TablesInv
<1>7. Published' = Published
  BY <1>3 DEF EventDone, Published, Places, Tip
<1>8. DoneInv'
  BY <1>5, <1>6, <1>7 DEF DoneInv, TablesInv
<1>9. skipped' # {}
  BY <1>3
<1> QED
  BY <1>5, <1>8, <1>9 DEF MirrorInv

\* A restart repeats part of the pass: the rows stay as they are.
LEMMA RestartMirrors ==
    ASSUME StartLedger = 0, MaxEventsPerLedger = 1, TablesInv, Restart
    PROVE  PassInv' /\ DoneInv' /\ MirrorInv'
<1>1. UNCHANGED <<chain, db, attempted, skipped>>
  BY DEF Restart
<1>2. /\ PassInv' /\ range'["main"].pc # "write"
      /\ NextLedger \in Nat /\ NextLedger' \in Nat /\ NextLedger' <= NextLedger
  BY RestartPass DEF TablesInv
<1>3. Published' = Published
  BY <1>1 DEF Published, Places, Tip
<1>4. DoneInv'
  BY <1>1, <1>3 DEF TablesInv, DoneInv
<1>5. ASSUME skipped' = {}
      PROVE  Mirrors(db, attempted)' /\ CountInv(db, attempted, NextLedger)'
  <2>1. PICK rows : rows = db'
    OBVIOUS
  <2>2. PICK ps : ps = attempted'
    OBVIOUS
  <2>3. PICK from \in Nat : from = NextLedger
    BY <1>2
  <2>4. PICK m \in Nat : m = NextLedger'
    BY <1>2
  <2>5. Mirrors(rows, ps) /\ CountInv(rows, ps, from) /\ m <= from
    BY <1>1, <1>2, <1>5, <2>1, <2>2, <2>3, <2>4 DEF TablesInv, MirrorInv
  <2>6. CountInv(rows, ps, m)
    <3>1. CASE Has(ps, "ms_prop")
      <4>1. PICK l \in Nat : from <= l /\ l <= Tip + 1 /\ CountBefore(l, rows.signatureCount)
        BY <2>5, <3>1 DEF CountInv
      <4>2. m <= l
        BY <2>5, <4>1
      <4> QED
        BY <3>1, <4>1, <4>2 DEF CountInv
    <3>2. CASE ~Has(ps, "ms_prop")
      BY <2>5, <3>2 DEF CountInv
    <3> QED
      BY <3>1, <3>2
  <2> QED
    BY <1>1, <2>1, <2>2, <2>4, <2>5, <2>6, RowsStay
<1> QED
  BY <1>2, <1>4, <1>5 DEF MirrorInv

\* An event that is published is not handled yet, and comes after the
\* signatures that were counted.
LEMMA CloseMirrors ==
    ASSUME MaxEventsPerLedger = 1, TablesInv, CloseLedger
    PROVE  PassInv' /\ LogInv' /\ OrderInv' /\ SignInv' /\ DoneInv' /\ MirrorInv'
<1>1. PICK S : chain \in Seq(S)
  BY DEF TablesInv, IndexerInv, IndexerTypes
<1>2. LogInv' /\ OrderInv' /\ SignInv'
  BY <1>1, LogKept, OrderKept, SignKept DEF TablesInv
<1>3. PassInv' /\ NextLedger' = NextLedger
  BY ClosePass DEF TablesInv
<1>4. UNCHANGED <<db, attempted, skipped, range>>
  BY DEF CloseLedger
<1>5. PICK n \in Nat : n = Tip
  BY <1>1, PublishedFinite
<1>6. /\ Tip' = n + 1
      /\ \A p \in Published : p \in Nat \X Nat /\ p[1] \in 1..n /\ EventAt(p)' = EventAt(p)
      /\ \/ Published' = Published /\ Log' = Log
         \/ \E t : Adds(<<n + 1, 1>>, t)
  BY <1>1, <1>5, ChainGrows DEF TablesInv
<1>7. \A p \in Published' : p \in Published \/ p = <<n + 1, 1>>
  BY <1>6 DEF Adds
<1>8. Published \subseteq Published'
  BY <1>6 DEF Adds
<1>9. attempted \in SUBSET Published
  BY DEF TablesInv, IndexerInv, IndexerTypes
<1>10. DoneInv'
  <2> SUFFICES ASSUME NEW p \in attempted, NEW q \in Published', q[1] < p[1]
               PROVE  q \in attempted
    BY <1>4 DEF DoneInv
  <2>1. p \in Published /\ p[1] \in 1..n
    BY <1>6, <1>9
  <2>2. q # <<n + 1, 1>>
    BY <1>5, <2>1
  <2> QED
    BY <1>7, <2>1, <2>2 DEF TablesInv, DoneInv
<1>11. ASSUME skipped' = {}
       PROVE  Mirrors(db, attempted)' /\ CountInv(db, attempted, NextLedger)'
  <2>1. Mirrors(db, attempted) /\ CountInv(db, attempted, NextLedger)
    BY <1>4, <1>11 DEF TablesInv, MirrorInv
  <2>2. \A t : Has(attempted, t)' <=> Has(attempted, t)
    BY <1>4, <1>6, <1>9 DEF Has
  <2>3. /\ Signed(attempted)' = Signed(attempted)
        /\ \A p \in Signed(attempted) : EventAt(p)' = EventAt(p)
    BY <1>4, <1>6, <1>9 DEF Signed
  <2>4. AttestationOf(attempted)' = AttestationOf(attempted)
    BY <2>2 DEF AttestationOf
  <2>5. SignersOf(attempted)' = SignersOf(attempted)
    BY <2>2, <2>3 DEF SignersOf
  <2>6. RequestOf(attempted)' = RequestOf(attempted)
    BY <2>2 DEF RequestOf
  <2>7. IssuerOf(attempted)' = IssuerOf(attempted)
    BY <2>2 DEF IssuerOf
  <2>8. Mirrors(db, attempted)'
    BY <1>4, <2>1, <2>2, <2>4, <2>5, <2>6, <2>7 DEF Mirrors
  <2>9. CASE Has(attempted, "ms_prop")
    <3>1. PICK c : c = db.signatureCount
      OBVIOUS
    <3>2. PICK l \in Nat : NextLedger <= l /\ l <= n + 1 /\ CountBefore(l, c)
      BY <1>5, <2>1, <2>9, <3>1 DEF CountInv
    <3>3. \A p \in Signed(Published) : p \in Published /\ p \in Signed(Published)' /\ EventAt(p)' = EventAt(p)
      BY <1>6, <1>8 DEF Signed
    <3>4. \A p \in Signed(Published)' : p \in Signed(Published) \/ p[1] = n + 1
      <4> SUFFICES ASSUME NEW p \in Published', EventAt(p)'.topic = "ms_sign"
                   PROVE  p \in Signed(Published) \/ p[1] = n + 1
        BY DEF Signed
      <4>1. CASE p \in Published
        BY <1>6, <4>1 DEF Signed
      <4>2. CASE p = <<n + 1, 1>>
        BY <4>2
      <4> QED
        BY <1>7, <4>1, <4>2
    <3>5. \A p \in Signed(Published)' : p[1] < l => p \in Signed(Published)
      <4> SUFFICES ASSUME NEW p \in Signed(Published)', p[1] < l PROVE p \in Signed(Published)
        OBVIOUS
      <4>1. p[1] # n + 1
        BY <1>5, <3>2
      <4> QED
        BY <3>4, <4>1
    <3>6. ASSUME c = 1, \A p \in Signed(Published) : l <= p[1]
          PROVE  CountBefore(l, c)'
      <4>1. \A p \in Signed(Published)' : l <= p[1]
        <5> SUFFICES ASSUME NEW p \in Signed(Published)' PROVE l <= p[1]
          OBVIOUS
        <5>1. CASE p \in Signed(Published)
          BY <3>6, <5>1
        <5>2. CASE p[1] = n + 1
          BY <3>2, <5>2
        <5> QED
          BY <3>4, <5>1, <5>2
      <4> QED
        BY <3>6, <4>1 DEF CountBefore
    <3>7. ASSUME NEW p \in Signed(Published), p[1] < l, EventAt(p).n = c,
                 \A q \in Signed(Published) : q[1] < l => q[1] <= p[1]
          PROVE  CountBefore(l, c)'
      <4>1. p \in Signed(Published)' /\ EventAt(p)'.n = c
        BY <3>3, <3>7
      <4>2. \A q \in Signed(Published)' : q[1] < l => q[1] <= p[1]
        BY <3>5, <3>7
      <4> QED
        BY <3>7, <4>1, <4>2 DEF CountBefore
    <3>8. CountBefore(l, c)'
      BY <3>2, <3>6, <3>7 DEF CountBefore
    <3>9. CountBefore(l, db.signatureCount)'
      BY <1>4, <3>1, <3>8 DEF CountBefore
    <3>10. NextLedger' <= l /\ l <= (Tip + 1)'
      BY <1>3, <1>5, <1>6, <3>2
    <3>11. Has(attempted, "ms_prop")'
      BY <2>2, <2>9
    <3> QED
      BY <2>8, <3>9, <3>10, <3>11 DEF CountInv
  <2>10. CASE ~Has(attempted, "ms_prop")
    <3>1. ~Has(attempted, "ms_prop")' /\ db'.signatureCount = 0
      BY <1>4, <2>1, <2>2, <2>10 DEF CountInv
    <3> QED
      BY <2>8, <3>1 DEF CountInv
  <2> QED
    BY <2>9, <2>10
<1>12. MirrorInv'
  BY <1>4, <1>11 DEF MirrorInv, TablesInv
<1> QED
  BY <1>2, <1>3, <1>10, <1>12

\* What is said of the chain after a step that leaves it alone.
LEMMA ChainStays ==
    ASSUME UNCHANGED chain
    PROVE  /\ LogInv => LogInv'
           /\ OrderInv => OrderInv'
           /\ SignInv => SignInv'
           /\ DoneInv /\ attempted' = attempted => DoneInv'
<1>1. Published' = Published /\ Tip' = Tip
  BY DEF Published, Places, Tip
<1>2. \A p : EventAt(p)' = EventAt(p)
  BY DEF EventAt
<1>3. Log' = Log
  BY DEF Log, Tip
<1>4. \A t : Has(Published, t)' <=> Has(Published, t)
  BY <1>1, <1>2 DEF Has
<1>5. Signed(Published)' = Signed(Published)
  BY <1>1, <1>2 DEF Signed
<1>6. ASSUME LogInv PROVE LogInv'
  <2>1. PICK f : Joins(f)
    BY <1>6 DEF LogInv
  <2>2. Joins(f)'
    BY <2>1 DEF Joins, TopicsOf, Tip
  <2>3. \A t : Seen(Log, t)' <=> Seen(Log, t)
    BY <1>3 DEF Seen
  <2> QED
    BY <1>1, <1>2, <1>3, <1>4, <1>6, <2>2, <2>3 DEF LogInv
<1>7. ASSUME OrderInv PROVE OrderInv'
  <2>1. \A p \in Published : \A u :
           Has({q \in Published : q[1] < p[1]}, u)' <=> Has({q \in Published : q[1] < p[1]}, u)
    BY <1>1, <1>2 DEF Has
  <2>2. /\ \A p \in Published' :
           LET t == EventAt(p)'.topic
           IN  /\ t = "revoked" => \E u \in Creations : Has({q \in Published : q[1] < p[1]}, u)'
               /\ t \in {"ms_sign", "ms_actv"} => Has({q \in Published : q[1] < p[1]}, "ms_prop")'
               /\ t \in {"req_ful", "req_rej"} => Has({q \in Published : q[1] < p[1]}, "att_req")'
    BY <1>1, <1>2, <1>7, <2>1 DEF OrderInv
  <2> QED
    BY <1>4, <1>7, <2>2 DEF OrderInv
<1>8. ASSUME SignInv PROVE SignInv'
  <2>1. Signatures(Log)' = Signatures(Log)
    BY <1>3 DEF Signatures
  <2> QED
    BY <1>2, <1>5, <1>8, <2>1 DEF SignInv
<1>9. ASSUME DoneInv, attempted' = attempted PROVE DoneInv'
  BY <1>1, <1>9 DEF DoneInv
<1> QED
  BY <1>6, <1>7, <1>8, <1>9

\* Every step keeps the invariant.
LEMMA NextTablesMirror ==
    ASSUME StartLedger = 0, MaxReindexes = 0, MaxEventsPerLedger = 1, TablesInv, [Next]_vars
    PROVE  TablesInv'
<1>1. IndexerInv'
  BY NextIndexer DEF TablesInv
<1>2. IndexerInv /\ LogInv /\ OrderInv /\ SignInv /\ PassInv /\ DoneInv /\ MirrorInv
  BY DEF TablesInv
<1>3. ASSUME UNCHANGED chain, PassInv', DoneInv', MirrorInv' PROVE TablesInv'
  BY <1>1, <1>2, <1>3, ChainStays DEF TablesInv
<1>4. ASSUME MovesOn, UNCHANGED <<chain, db, attempted, skipped>>,
             range'["main"].pc = "write" => range'["main"].read = db.signers
      PROVE  TablesInv'
  <2>1. LogInv' /\ OrderInv' /\ SignInv' /\ DoneInv'
    BY <1>2, <1>4, ChainStays
  <2>2. MirrorInv'
    BY <1>2, <1>4, QuietKeeps
  <2>3. PassInv'
    BY <1>4 DEF MovesOn
  <2> QED
    BY <1>1, <2>1, <2>2, <2>3 DEF TablesInv
<1>5. CASE CloseLedger
  BY <1>1, <1>5, CloseMirrors DEF TablesInv
<1>6. CASE Poll
  <2>1. MovesOn /\ range'["main"].pc # "write"
    BY <1>2, <1>6, PollPass
  <2>2. UNCHANGED <<chain, db, attempted, skipped>>
    BY <1>6 DEF Poll
  <2> QED
    BY <1>4, <2>1, <2>2
<1>7. CASE Restart
  <2>1. PassInv' /\ DoneInv' /\ MirrorInv'
    BY <1>7, RestartMirrors
  <2>2. UNCHANGED chain
    BY <1>7 DEF Restart
  <2> QED
    BY <1>3, <2>1, <2>2
<1>8. ~reindex
  BY <1>2 DEF reindex, IndexerInv, IndexerTypes
<1>9. ASSUME NEW w \in Workers, Step(w) \/ HandlerThrows(w) \/ SaveThrows(w)
      PROVE  TablesInv'
  <2>1. w = "main"
    BY <1>2, <1>9, OnlyMain
  <2>2. CASE FetchPage("main")
    <3>1. MovesOn
      BY <1>2, <2>2, Chain, FetchPass
    <3>2. UNCHANGED <<chain, db, attempted, skipped>>
      BY <2>2 DEF FetchPage
    <3>3. range'["main"].pc # "write"
      <4>1. PICK R : range \in [Workers -> Activation(R)]
        BY <1>2 DEF IndexerInv, IndexerTypes
      <4>2. PICK r \in Activation(R) : r = range["main"]
        BY <4>1 DEF Workers
      <4>3. PICK pg : pg = Page(r.start, Min({r.start + PageLimit - 1, r.to}))
        OBVIOUS
      <4>4. PICK last : last = IF pg = <<>> THEN Min({r.start + PageLimit - 1, r.to}) ELSE Last(pg)[1]
        OBVIOUS
      <4>5. range'["main"] = [r EXCEPT !.pc = "handle", !.page = pg, !.last = last]
        BY <2>2, <4>1, <4>2, <4>3, <4>4 DEF FetchPage, Workers
      <4> QED
        BY <4>2, <4>5 DEF Activation
    <3> QED
      BY <1>4, <3>1, <3>2, <3>3
  <2>3. CASE HandleEvent("main") \/ WriteSigners("main")
    <3>1. PassInv' /\ DoneInv' /\ MirrorInv'
      BY <2>3, HandlerKeeps
    <3>2. UNCHANGED chain
      BY <2>3 DEF HandleEvent, WriteSigners, EventDone
    <3> QED
      BY <1>3, <3>1, <3>2
  <2>4. CASE HandlerThrows("main")
    <3>1. PassInv' /\ DoneInv' /\ MirrorInv'
      BY <2>4, ThrowKeeps
    <3>2. UNCHANGED chain
      BY <2>4 DEF HandlerThrows, EventDone
    <3> QED
      BY <1>3, <3>1, <3>2
  <2>5. CASE ReadSigners("main")
    <3>1. MovesOn /\ range'["main"].read = db.signers
      BY <1>2, <2>5, ReadPass
    <3>2. UNCHANGED <<chain, db, attempted, skipped>>
      BY <2>5 DEF ReadSigners
    <3> QED
      BY <1>4, <3>1, <3>2
  <2>6. CASE SaveCheckpoint("main") \/ SaveThrows("main")
    <3>1. /\ PageDone("main") /\ Advance("main")
          /\ checkpoint' \in {checkpoint, range["main"].last}
      BY <2>6 DEF SaveCheckpoint, SaveThrows
    <3>2. MovesOn /\ range'["main"].pc # "write"
      BY <1>2, <3>1, AdvancePass
    <3>3. UNCHANGED <<chain, db, attempted, skipped>>
      BY <3>1 DEF Advance
    <3> QED
      BY <1>4, <3>2, <3>3
  <2> QED
    BY <1>9, <2>1, <2>2, <2>3, <2>4, <2>5, <2>6 DEF Step
<1>10. CASE UNCHANGED vars
  <2>1. UNCHANGED <<chain, db, attempted, skipped, range, cursor, checkpoint>>
    BY <1>10 DEF vars
  <2>2. MovesOn
    <3>1. Published' = Published /\ Tip' = Tip /\ \A p : EventAt(p)' = EventAt(p)
      BY <2>1 DEF Published, Places, Tip, EventAt
    <3>2. NextLedger' = NextLedger
      BY <2>1 DEF NextLedger
    <3>3. PassInv'
      BY <1>2, <2>1, <3>1, <3>2, SMTT(30) DEF PassInv, PageInOrder, EventAt
    <3>4. NextLedger \in Nat
      BY <1>2 DEF PassInv
    <3>5. \A p \in Published : p[1] \in Nat
      BY <1>2, Chain
    <3>6. PICK n \in Nat : n = NextLedger
      BY <3>4
    <3>7. \A p \in Published : ~(n <= p[1] /\ p[1] < n)
      BY <3>5
    <3> QED
      BY <3>2, <3>3, <3>6, <3>7 DEF MovesOn
  <2>3. range'["main"].pc = "write" => range'["main"].read = db.signers \/ skipped # {}
    BY <1>2, <2>1 DEF MirrorInv
  <2>4. CASE skipped = {}
    BY <1>4, <2>1, <2>2, <2>3, <2>4
  <2>5. CASE skipped # {}
    <3>1. MirrorInv' /\ PassInv' /\ DoneInv'
      BY <1>2, <2>1, <2>2, <2>5, ChainStays DEF MirrorInv, MovesOn
    <3> QED
      BY <1>3, <2>1, <3>1
  <2> QED
    BY <2>4, <2>5
<1> QED
  BY <1>5, <1>6, <1>7, <1>8, <1>9, <1>10 DEF Next

\* The empty chain and the empty tables agree.
LEMMA InitTablesMirror ==
    ASSUME StartLedger = 0, Init PROVE TablesInv
<1>1. chain = <<>> /\ <<>> \in Seq({}) /\ Len(<<>>) = 0
  BY DEF Init
<1>2. Tip = 0 /\ Published = {} /\ attempted = {}
  BY <1>1 DEF Tip, Published, Places, Init
<1>3. 1..0 = {}
  OBVIOUS
<1>4. Log = <<>>
  <2>1. PICK logs : logs = [l \in 1..Tip |-> [k \in 1..Len(chain[l]) |-> chain[l][k].topic]]
    OBVIOUS
  <2>2. logs = <<>>
    BY <1>2, <1>3, <2>1
  <2>3. Log = FlattenSeq(logs)
    BY <2>1 DEF Log
  <2> QED
    BY <2>2, <2>3, Zenon DEF FlattenSeq
<1>5. \A t : ~Has({}, t) /\ ~Seen(<<>>, t)
  BY <1>1, <1>3 DEF Has, Seen
<1>6. LogInv
  <2>1. Joins([l \in 1..Tip |-> <<>>])
    <3>1. [l \in 1..Tip |-> <<>>]
             = [l \in 1..Tip |-> IF l = 1 THEN TopicsOf(l)
                                 ELSE [i \in 1..Tip |-> <<>>][l - 1] \o TopicsOf(l)]
      BY <1>2, <1>3
    <3> QED
      BY <3>1 DEF Joins
  <2>2. <<>> \in Seq(Topics)
    OBVIOUS
  <2> QED
    BY <1>2, <1>4, <1>5, <2>1, <2>2 DEF LogInv
<1>7. OrderInv /\ DoneInv
  BY <1>2, <1>5 DEF OrderInv, DoneInv
<1>8. SignInv
  <2>1. Signatures(<<>>) = 1
    <3>1. {k \in 1..Len(<<>>) : (<<>>)[k] = "ms_sign"} = {}
      BY <1>1, <1>3
    <3> QED
      BY <3>1, FS_EmptySet DEF Signatures
  <2>2. Signed(Published) = {}
    BY <1>2 DEF Signed
  <2> QED
    BY <1>4, <2>1, <2>2 DEF SignInv
<1>9. range["main"] = Idle /\ Idle.pc = "idle" /\ cursor = 1 /\ checkpoint = 0
  BY DEF Init, Workers, Idle
<1>10. NextLedger = 1
  BY <1>9 DEF NextLedger, NextOf
<1>11. PassInv
  BY <1>2, <1>9, <1>10 DEF PassInv
<1>12. MirrorInv
  <2>1. db = NoRows
    BY DEF Init
  <2>2. {} \in SUBSET Nat
    OBVIOUS
  <2>3. NoRows \in Rows(SUBSET Nat, Nat)
    BY <2>2 DEF NoRows, Rows
  <2>4. Mirrors(NoRows, {})
    BY <1>5, <2>3 DEF Mirrors, NoRows, AttestationOf, SignersOf, RequestOf, IssuerOf
  <2>5. CountInv(NoRows, {}, NextLedger)
    BY <1>5 DEF CountInv, NoRows
  <2> QED
    BY <1>2, <1>9, <2>1, <2>4, <2>5 DEF MirrorInv
<1>13. IndexerInv
  BY InitIndexer
<1> QED
  BY <1>6, <1>7, <1>8, <1>11, <1>12, <1>13 DEF TablesInv

\* The number of the last signature is the number of signatures.
LEMMA CountAtTip ==
    ASSUME MaxEventsPerLedger = 1, TablesInv, NEW n, CountBefore(Tip + 1, n)
    PROVE  n = Signatures(Log)
<1>1. /\ Tip \in Nat /\ \A p \in Published : p[1] \in 1..Tip
      /\ \A p, q \in Published : p[1] = q[1] => p = q
  BY Chain DEF TablesInv
<1>2. PICK N \in Nat : N = Signatures(Log) /\ N >= 1
  BY DEF TablesInv, SignInv
<1>3. /\ \A p \in Signed(Published) : EventAt(p).n \in 2..N
      /\ \A k \in 2..N : \E p \in Signed(Published) : EventAt(p).n = k
      /\ \A p, q \in Signed(Published) : p[1] < q[1] => EventAt(p).n < EventAt(q).n
  BY <1>2 DEF TablesInv, SignInv
<1>4. \A p \in Signed(Published) : p \in Published /\ p[1] \in 1..Tip /\ p[1] < Tip + 1
  BY <1>1 DEF Signed
<1>5. ASSUME n = 1, \A p \in Signed(Published) : Tip + 1 <= p[1] PROVE n = N
  <2>1. Signed(Published) = {}
    BY <1>1, <1>4, <1>5
  <2>2. ~(2 <= N)
    <3> SUFFICES ASSUME 2 <= N PROVE FALSE
      OBVIOUS
    <3>1. N \in 2..N
      BY <1>2
    <3> QED
      BY <1>3, <2>1, <3>1
  <2> QED
    BY <1>2, <1>5, <2>2
<1>6. ASSUME NEW p \in Signed(Published), EventAt(p).n = n,
             \A q \in Signed(Published) : q[1] < Tip + 1 => q[1] <= p[1]
      PROVE  n = N
  <2>1. n \in 2..N /\ N \in 2..N
    BY <1>2, <1>3, <1>6
  <2>2. PICK q \in Signed(Published) : EventAt(q).n = N
    BY <1>3, <2>1
  <2>3. q[1] <= p[1] /\ q[1] \in Nat /\ p[1] \in Nat
    BY <1>4, <1>6
  <2>4. CASE q[1] < p[1]
    <3>1. N < n
      BY <1>3, <1>6, <2>2, <2>4
    <3> QED
      BY <1>2, <2>1, <3>1
  <2>5. CASE q[1] = p[1]
    BY <1>1, <1>4, <1>6, <2>2, <2>5
  <2> QED
    BY <2>3, <2>4, <2>5
<1> QED
  BY <1>2, <1>5, <1>6 DEF CountBefore

\* Caught up, the pass has handled every event.
LEMMA InvCaughtUpMirrors ==
    ASSUME MaxEventsPerLedger = 1, Topics \cap {"req_ok", "req_no"} = {}, TablesInv
    PROVE  CaughtUpMirrors
<1> SUFFICES ASSUME CaughtUp, skipped = {} PROVE db = ChainState
  BY DEF CaughtUpMirrors
<1>1. /\ OneEach /\ Tip \in Nat /\ attempted \in SUBSET Published
      /\ \A p \in Published : p[1] \in 1..Tip
  BY Chain DEF TablesInv
<1>2. NextLedger = cursor /\ cursor > Tip /\ cursor \in Nat
  BY DEF CaughtUp, NextLedger, NextOf, Workers, TablesInv, IndexerInv, IndexerTypes
<1>3. attempted = Published
  <2>1. \A p \in Published : p[1] < NextLedger
    BY <1>1, <1>2
  <2>2. \A p \in Published : p \in attempted
    BY <1>1, <2>1, FrontDone DEF TablesInv
  <2> QED
    BY <1>1, <2>2
<1>4. Mirrors(db, Published) /\ CountInv(db, Published, cursor)
  BY <1>2, <1>3 DEF TablesInv, MirrorInv
<1>5. \A t : Seen(Log, t) <=> Has(Published, t)
  BY DEF TablesInv, LogInv
<1>6. ~Seen(Log, "req_ok") /\ ~Seen(Log, "req_no")
  <2>1. \A p \in Published : EventAt(p).topic \notin {"req_ok", "req_no"}
    BY DEF TablesInv, LogInv
  <2> QED
    BY <1>5, <2>1 DEF Has
<1>7. PICK N \in Nat : N = Signatures(Log) /\ N >= 1
  BY DEF TablesInv, SignInv
<1>8. db \in Rows(SUBSET Nat, Nat)
  BY <1>4 DEF Mirrors
<1>9. db.attestation = IF Seen(Log, "revoked") THEN "revoked"
                       ELSE IF \E u \in Creations : Seen(Log, u) THEN "valid" ELSE "none"
  BY <1>4, <1>5 DEF Mirrors, AttestationOf
<1>10. db.signers = IF Seen(Log, "ms_prop") THEN 1..N ELSE {}
  <2>1. db.signers = SignersOf(Published)
    BY <1>4 DEF Mirrors
  <2>2. \A k : k \in {1} \cup {EventAt(p).n : p \in Signed(Published)} <=> k \in 1..N
    <3>1. \A p \in Signed(Published) : EventAt(p).n \in 2..N
      BY <1>7 DEF TablesInv, SignInv
    <3>2. \A k \in 2..N : \E p \in Signed(Published) : EventAt(p).n = k
      BY <1>7 DEF TablesInv, SignInv
    <3>3. \A k : k \in 1..N <=> k = 1 \/ k \in 2..N
      BY <1>7
    <3> QED
      BY <3>1, <3>2, <3>3
  <2> QED
    BY <1>5, <2>1, <2>2 DEF SignersOf
<1>11. db.signatureCount = IF Seen(Log, "ms_prop") THEN N ELSE 0
  <2>1. CASE Has(Published, "ms_prop")
    <3>1. PICK n : n = db.signatureCount
      OBVIOUS
    <3>2. PICK l \in Nat : cursor <= l /\ l <= Tip + 1 /\ CountBefore(l, n)
      BY <1>4, <2>1, <3>1 DEF CountInv
    <3>3. l = Tip + 1
      BY <1>1, <1>2, <3>2
    <3>4. n = N
      BY <1>7, <3>2, <3>3, CountAtTip
    <3> QED
      BY <1>5, <2>1, <3>1, <3>4
  <2>2. CASE ~Has(Published, "ms_prop")
    BY <1>4, <1>5, <2>2 DEF CountInv
  <2> QED
    BY <2>1, <2>2
<1>12. PICK f \in BOOLEAN : f = Seen(Log, "ms_actv")
  BY Zenon DEF Seen
<1>13. db.finalized = f
  <2>1. db.finalized <=> f
    BY <1>4, <1>5, <1>12 DEF Mirrors
  <2>2. db.finalized \in BOOLEAN
    BY <1>8 DEF Rows
  <2> QED
    BY <2>1, <2>2, <1>12
<1>14. db.request = IF Seen(Log, "req_ful") \/ Seen(Log, "req_ok") THEN "FULFILLED"
                    ELSE IF Seen(Log, "req_rej") \/ Seen(Log, "req_no") THEN "REJECTED"
                    ELSE IF Seen(Log, "att_req") THEN "PENDING" ELSE "none"
  BY <1>4, <1>5, <1>6 DEF Mirrors, RequestOf
<1>15. db.issuer = IF Seen(Log, "iss_reg") THEN "basic" ELSE "none"
  BY <1>4, <1>5 DEF Mirrors, IssuerOf
<1>16. db = [attestation |-> db.attestation, signers |-> db.signers,
             signatureCount |-> db.signatureCount, finalized |-> db.finalized,
             request |-> db.request, issuer |-> db.issuer]
  BY <1>8 DEF Rows
<1> QED
  BY <1>7, <1>9, <1>10, <1>11, <1>12, <1>13, <1>14, <1>15, <1>16 DEF ChainState

\* Without START_LEDGER and reindex jobs, with at most one event in a ledger and
\* only answers to requests that the indexer watches: whatever the page size and
\* the crashes, an indexer that has caught up, none of whose handlers threw, has
\* in its tables what the chain says, however often it handled an event.
THEOREM CaughtUpRowsMirror ==
    ASSUME StartLedger = 0, MaxReindexes = 0, MaxEventsPerLedger = 1,
           Topics \cap {"req_ok", "req_no"} = {}
    PROVE  Spec => []CaughtUpMirrors
<1>1. Init => TablesInv
  BY InitTablesMirror
<1>2. TablesInv /\ [Next]_vars => TablesInv'
  BY NextTablesMirror
<1>3. TablesInv => CaughtUpMirrors
  BY InvCaughtUpMirrors
<1> QED
  BY <1>1, <1>2, <1>3, PTL DEF Spec
=============================================================================
