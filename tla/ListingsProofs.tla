--------------------------- MODULE ListingsProofs ---------------------------
(***************************************************************************)
(* What the paged queries promise their readers (module Listings), and the *)
(* listing of the templates (module Templates): for any number of          *)
(* attestations, for any size of a chunk and of a page.                    *)
(*                                                                         *)
(* The first half is about lists: what a filter selects, how a list is cut *)
(* into chunks and into pages and put together again.  The second follows  *)
(* the lists through the steps of the contract and concludes.              *)
(***************************************************************************)
EXTENDS FeedProofs, Templates, WellFoundedInduction

-----------------------------------------------------------------------------
(* Lists                                                                   *)

\* A set of numbers has a least one.
LEMMA Least ==
    ASSUME NEW T \in SUBSET Nat, T # {}
    PROVE  \E m \in T : \A k \in T : m <= k
<1>1. PICK m \in T : \A k \in T : ~(<<k, m>> \in OpToRel(<, Nat))
  BY NatLessThanWellFounded, WFMin, Zenon
<1>2. \A k \in T : ~(k < m)
  BY <1>1 DEF OpToRel
<1> QED
  BY <1>2

\* The positions that are kept are numbered without gaps, in their order.
LEMMA Numbering ==
    ASSUME NEW m \in Nat, NEW kept \in SUBSET (1..m)
    PROVE  /\ Cardinality(kept) \in Nat
           /\ \A k \in kept : Place(k, kept) \in 1..Cardinality(kept)
           /\ \A i, k \in kept : i < k => Place(i, kept) < Place(k, kept)
           /\ \A n \in 1..Cardinality(kept) : \E k \in kept : Place(k, kept) = n
<1> DEFINE upto(k) == {j \in kept : j <= k}
           total == Cardinality(kept)
           number == [k \in kept |-> Place(k, kept)]
<1>1. IsFiniteSet(kept) /\ total \in Nat
  BY FS_Interval, FS_Subset, FS_CardinalityType, 1 \in Int, m \in Int
<1>2. ASSUME NEW k \in kept
      PROVE  /\ IsFiniteSet(upto(k)) /\ Cardinality(upto(k)) \in Nat
             /\ Cardinality(upto(k)) \in 1..total
             /\ Place(k, kept) = Cardinality(upto(k))
  <2>1. upto(k) \in SUBSET kept /\ k \in upto(k)
    OBVIOUS
  <2>2. IsFiniteSet(upto(k)) /\ Cardinality(upto(k)) <= total
    BY <1>1, <2>1, FS_Subset
  <2>3. Cardinality(upto(k)) \in Nat /\ Cardinality(upto(k)) # 0
    BY <2>1, <2>2, FS_CardinalityType, FS_EmptySet
  <2>4. Place(k, kept) = Cardinality(upto(k))
    BY DEF Place
  <2> HIDE DEF upto, total
  <2> QED
    BY <1>1, <2>2, <2>3, <2>4
<1>3. ASSUME NEW i \in kept, NEW k \in kept, i < k
      PROVE  Place(i, kept) < Place(k, kept)
  <2>1. i \in Int /\ k \in Int /\ kept \subseteq Int
    OBVIOUS
  <2>2. upto(i) \in SUBSET upto(k) /\ upto(i) # upto(k)
    <3>1. \A j \in kept : j <= i => j <= k
      BY <1>3, <2>1
    <3>2. k <= k /\ ~(k <= i)
      BY <1>3, <2>1
    <3> QED
      BY <3>1, <3>2
  <2>3. /\ Cardinality(upto(i)) <= Cardinality(upto(k))
        /\ Cardinality(upto(i)) # Cardinality(upto(k))
    BY <1>2, <2>2, FS_Subset
  <2> HIDE DEF upto
  <2> QED
    BY <1>2, <2>3
<1>4. IsFiniteSet(1..total) /\ Cardinality(1..total) = total
  <2> HIDE DEF total
  <2>1. /\ IsFiniteSet(1..total)
        /\ Cardinality(1..total) = IF 1 > total THEN 0 ELSE total - 1 + 1
    BY <1>1, FS_Interval
  <2> QED
    BY <1>1, <2>1
<1> HIDE DEF upto
<1>5. number \in Injection(kept, 1..total)
  <2>1. number \in [kept -> 1..total]
    BY <1>2
  <2>2. \A i, k \in kept : number[i] = number[k] => i = k
    <3>1. \A i, k \in kept : i \in Int /\ k \in Int /\ number[i] \in Int /\ number[k] \in Int
      BY <1>1, <2>1
    <3> QED
      BY <1>3, <3>1
  <2> QED
    BY <2>1, <2>2 DEF Injection, IsInjective
<1>6. number \in Surjection(kept, 1..total)
  BY <1>4, <1>5, FS_Injection
<1>7. \A n \in 1..total : \E k \in kept : number[k] = n
  BY <1>6 DEF Surjection
<1> QED
  BY <1>1, <1>2, <1>3, <1>7

\* The members of a set of positions one after the other.
Enumerates(e, positions) ==
    /\ e \in Seq(positions)
    /\ \A i, k \in 1..Len(e) : i < k => e[i] < e[k]
    /\ \A p \in positions : \E i \in 1..Len(e) : e[i] = p

\* What an enumeration gives.
LEMMA Enumerated ==
    ASSUME NEW positions \in SUBSET Nat, NEW e, Enumerates(e, positions)
    PROVE  /\ e \in Seq(positions) /\ Len(e) \in Nat
           /\ \A i \in 1..Len(e) : e[i] \in positions /\ e[i] \in Nat
           /\ \A i, k \in 1..Len(e) : i < k => e[i] < e[k]
           /\ \A p \in positions : \E i \in 1..Len(e) : e[i] = p
<1>1. e \in Seq(positions)
  BY DEF Enumerates
<1>2. Len(e) \in Nat /\ \A i \in 1..Len(e) : e[i] \in positions
  BY <1>1
<1> QED
  BY <1>1, <1>2 DEF Enumerates

\* There is one way to go through a set of positions.
LEMMA SameEnumeration ==
    ASSUME NEW positions \in SUBSET Nat, NEW e, NEW f,
           Enumerates(e, positions), Enumerates(f, positions)
    PROVE  e = f
<1>1. /\ e \in Seq(positions) /\ f \in Seq(positions) /\ Len(e) \in Nat /\ Len(f) \in Nat
      /\ \A i \in 1..Len(e) : e[i] \in Nat
      /\ \A i \in 1..Len(f) : f[i] \in Nat
  BY Enumerated
<1>e. ASSUME NEW x \in {e, f}
      PROVE  /\ Len(x) \in Nat
             /\ \A k \in 1..Len(x) : x[k] \in positions /\ x[k] \in Nat
             /\ \A j, k \in 1..Len(x) : j < k => x[j] < x[k]
             /\ \A p \in positions : \E k \in 1..Len(x) : x[k] = p
  <2>1. Enumerates(x, positions)
    BY Zenon
  <2>2. x \in Seq(positions)
    BY <2>1, Zenon DEF Enumerates
  <2>3. Len(x) \in Nat /\ \A k \in 1..Len(x) : x[k] \in positions
    BY <2>2
  <2>4. \A k \in 1..Len(x) : x[k] \in Nat
    BY <2>3
  <2> QED
    BY <2>1, <2>3, <2>4, Zenon DEF Enumerates
<1> DEFINE differ == {i \in 1..Len(e) : i \in 1..Len(f) /\ e[i] # f[i]}
<1>2. ASSUME NEW g \in {e, f}, NEW h \in {e, f}, NEW i \in 1..Len(g), i \in 1..Len(h),
             \A k \in 1..(i - 1) : g[k] = h[k]
      PROVE  ~(g[i] < h[i])
  <2>2. /\ Len(g) \in Nat /\ Len(h) \in Nat
        /\ \A k \in 1..Len(g) : g[k] \in Nat /\ g[k] \in positions
        /\ \A k \in 1..Len(h) : h[k] \in Nat /\ h[k] \in positions
        /\ \A j, k \in 1..Len(g) : j < k => g[j] < g[k]
        /\ \A j, k \in 1..Len(h) : j < k => h[j] < h[k]
        /\ \A p \in positions : \E k \in 1..Len(h) : h[k] = p
    BY <1>e, Zenon
  <2>3. PICK k \in 1..Len(h) : h[k] = g[i]
    BY <1>2, <2>2
  <2>4. SUFFICES ASSUME g[i] < h[i] PROVE FALSE
    OBVIOUS
  <2>5. k < i
    <3>1. h[i] \in Nat /\ h[k] \in Nat /\ h[k] < h[i]
      BY <1>2, <2>2, <2>3, <2>4
    <3>2. ASSUME i < k PROVE FALSE
      <4>1. h[i] < h[k]
        BY <1>2, <2>2, <3>2
      <4> QED
        BY <3>1, <4>1
    <3>3. i # k
      BY <3>1
    <3>4. i \in Int /\ k \in Int
      OBVIOUS
    <3> QED
      BY <3>2, <3>3, <3>4
  <2>6. k \in 1..(i - 1) /\ k \in 1..Len(g)
    BY <2>2, <2>5
  <2>7. g[k] = g[i]
    BY <1>2, <2>3, <2>6, Zenon
  <2>8. g[k] < g[i] /\ g[i] \in Nat
    BY <2>2, <2>5, <2>6
  <2> QED
    BY <2>7, <2>8
<1>3. differ = {}
  <2> SUFFICES ASSUME differ # {} PROVE FALSE
    OBVIOUS
  <2>1. differ \in SUBSET Nat
    BY <1>1
  <2>2. PICK i \in differ : \A k \in differ : i <= k
    BY <2>1, Least
  <2>3. \A k \in 1..(i - 1) : e[k] = f[k]
    BY <1>1, <2>2
  <2>4. ~(e[i] < f[i]) /\ ~(f[i] < e[i])
    BY <1>1, <1>2, <2>2, <2>3
  <2> QED
    BY <1>1, <2>2, <2>4
<1>s. \A i : i \in 1..Len(e) /\ i \in 1..Len(f) => e[i] = f[i]
  BY <1>3
<1> HIDE DEF differ
<1>4. ASSUME NEW g \in {e, f}, NEW h \in {e, f} PROVE ~(Len(g) < Len(h))
  <2>2. /\ Len(g) \in Nat /\ Len(h) \in Nat
        /\ \A k \in 1..Len(h) : h[k] \in Nat /\ h[k] \in positions
        /\ \A j, k \in 1..Len(h) : j < k => h[j] < h[k]
        /\ \A p \in positions : \E k \in 1..Len(g) : g[k] = p
    BY <1>e, Zenon
  <2>3. SUFFICES ASSUME Len(g) < Len(h) PROVE FALSE
    OBVIOUS
  <2>4. \A k \in 1..Len(g) : g[k] = h[k]
    <3>1. \A k : k \in 1..Len(g) /\ k \in 1..Len(h) => g[k] = h[k]
      BY <1>s, Zenon
    <3> QED
      BY <2>2, <2>3, <3>1
  <2>5. PICK k \in 1..Len(g) : g[k] = h[Len(g) + 1]
    <3>1. Len(g) + 1 \in 1..Len(h)
      BY <2>2, <2>3
    <3>2. h[Len(g) + 1] \in positions
      BY <2>2, <3>1
    <3> QED
      BY <2>2, <3>2
  <2>6. k \in 1..Len(h) /\ Len(g) + 1 \in 1..Len(h) /\ k < Len(g) + 1
    BY <2>2, <2>3
  <2>7. h[k] < h[Len(g) + 1] /\ h[k] \in Nat
    BY <2>2, <2>6
  <2>8. h[k] = h[Len(g) + 1]
    BY <2>4, <2>5
  <2> QED
    BY <2>7, <2>8
<1>5. Len(e) = Len(f)
  BY <1>1, <1>4
<1>6. \A i \in 1..Len(e) : e[i] = f[i]
  BY <1>1, <1>s, <1>5
<1> QED
  BY <1>1, <1>5, <1>6

\* A filter goes through the positions that are kept ...
LEMMA FilterEnumerates ==
    ASSUME NEW S, NEW list \in Seq(S), NEW ids
    PROVE  \E e : /\ Enumerates(e, Positions(list, ids))
                  /\ Filter(list, ids) = [k \in 1..Len(e) |-> list[e[k]]]
<1> DEFINE kept == Positions(list, ids)
           total == Cardinality(kept)
           e == [k \in 1..total |-> CHOOSE j \in kept : Place(j, kept) = k]
<1>1. kept \in SUBSET (1..Len(list)) /\ Len(list) \in Nat
  BY DEF Positions
<1>2. Filter(list, ids) = [k \in 1..total |-> list[CHOOSE j \in kept : Place(j, kept) = k]]
  BY DEF Filter
<1>3. /\ total \in Nat
      /\ \A k \in kept : Place(k, kept) \in 1..total
      /\ \A i, k \in kept : i < k => Place(i, kept) < Place(k, kept)
      /\ \A n \in 1..total : \E k \in kept : Place(k, kept) = n
  <2> HIDE DEF kept
  <2> QED
    BY <1>1, Numbering
<1>i. \A j \in kept : j \in Int
  BY <1>1
<1> HIDE DEF kept, total
<1>4. \A k \in 1..total : e[k] \in kept /\ Place(e[k], kept) = k
  BY <1>3
<1>5. e \in Seq(kept) /\ Len(e) = total
  BY <1>3, <1>4
<1>6. Filter(list, ids) = [k \in 1..Len(e) |-> list[e[k]]]
  BY <1>2, <1>5
<1> HIDE DEF e
<1>7. \A i, k \in 1..Len(e) : i < k => e[i] < e[k]
  <2>1. \A i \in 1..Len(e) : e[i] \in Int
    BY <1>i, <1>4, <1>5
  <2>2. \A i, k \in 1..Len(e) : e[i] = e[k] => i = k
    BY <1>4, <1>5
  <2>3. \A i, k \in 1..Len(e) : e[k] < e[i] => k < i
    BY <1>3, <1>4, <1>5
  <2> QED
    BY <1>3, <1>5, <2>1, <2>2, <2>3
<1>8. \A p \in kept : \E i \in 1..Len(e) : e[i] = p
  <2> SUFFICES ASSUME NEW p \in kept PROVE e[Place(p, kept)] = p
    BY <1>3, <1>5
  <2> DEFINE q == e[Place(p, kept)]
  <2>1. q \in kept /\ Place(q, kept) = Place(p, kept) /\ Place(p, kept) \in Int
    BY <1>3, <1>4
  <2>2. p \in Int /\ q \in Int
    BY <1>i, <2>1
  <2> HIDE DEF q
  <2>3. ~(p < q) /\ ~(q < p)
    BY <1>3, <2>1
  <2> QED
    BY <2>2, <2>3 DEF q
<1> QED
  BY <1>5, <1>6, <1>7, <1>8 DEF Enumerates, kept

\* ... and is the only list that does.
LEMMA FilterIs ==
    ASSUME NEW S, NEW list \in Seq(S), NEW ids, NEW e,
           Enumerates(e, Positions(list, ids))
    PROVE  Filter(list, ids) = [k \in 1..Len(e) |-> list[e[k]]]
<1>1. PICK f : /\ Enumerates(f, Positions(list, ids))
               /\ Filter(list, ids) = [k \in 1..Len(f) |-> list[f[k]]]
  BY FilterEnumerates
<1>2. Positions(list, ids) \in SUBSET Nat
  BY DEF Positions
<1> QED
  BY <1>1, <1>2, SameEnumeration

\* What a filter selects.
LEMMA Filtered ==
    ASSUME NEW S, NEW list \in Seq(S), NEW ids
    PROVE  /\ Filter(list, ids) \in Seq(S)
           /\ Filter(list, ids) \in Seq(S \cap ids)
           /\ Len(Filter(list, ids)) \in Nat
           /\ ToSet(Filter(list, ids)) = ToSet(list) \cap ids
           /\ IsInjective(list) => IsInjective(Filter(list, ids))
<1> DEFINE kept == Positions(list, ids)
<1>1. PICK e : /\ Enumerates(e, kept)
               /\ Filter(list, ids) = [k \in 1..Len(e) |-> list[e[k]]]
  BY FilterEnumerates
<1>2. kept \in SUBSET Nat
  BY DEF Positions
<1>3. /\ e \in Seq(kept) /\ Len(e) \in Nat
      /\ \A i \in 1..Len(e) : e[i] \in kept /\ e[i] \in Nat
      /\ \A i, k \in 1..Len(e) : i < k => e[i] < e[k]
      /\ \A p \in kept : \E i \in 1..Len(e) : e[i] = p
  <2> HIDE DEF kept
  <2> QED
    BY <1>1, <1>2, Enumerated
<1>4. \A p : p \in kept <=> p \in 1..Len(list) /\ list[p] \in ids
  BY DEF Positions
<1>5. DOMAIN list = 1..Len(list) /\ \A p \in 1..Len(list) : list[p] \in S
  OBVIOUS
<1> HIDE DEF kept
<1> DEFINE r == [k \in 1..Len(e) |-> list[e[k]]]
<1>6. \A k \in 1..Len(e) : r[k] = list[e[k]] /\ r[k] \in S \cap ids
  BY <1>3, <1>4, <1>5
<1>7. r \in Seq(S) /\ r \in Seq(S \cap ids) /\ DOMAIN r = 1..Len(e) /\ Len(r) \in Nat
  BY <1>3, <1>6, SMTT(30)
<1> HIDE DEF r
<1>8. ToSet(r) = ToSet(list) \cap ids
  <2>1. \A x \in ToSet(r) : x \in ToSet(list) /\ x \in ids
    BY <1>3, <1>4, <1>5, <1>6, <1>7 DEF ToSet
  <2>2. ASSUME NEW p \in 1..Len(list), list[p] \in ids PROVE list[p] \in ToSet(r)
    <3>1. PICK k \in 1..Len(e) : e[k] = p
      BY <1>3, <1>4, <2>2
    <3>2. r[k] = list[p]
      BY <1>6, <3>1
    <3> QED
      BY <1>7, <3>2 DEF ToSet
  <2> QED
    BY <1>5, <2>1, <2>2 DEF ToSet
<1>9. ASSUME IsInjective(list) PROVE IsInjective(r)
  <2> SUFFICES ASSUME NEW i \in 1..Len(e), NEW k \in 1..Len(e), r[i] = r[k] PROVE i = k
    BY <1>7 DEF IsInjective
  <2>1. e[i] = e[k]
    <3>1. e[i] \in kept /\ e[k] \in kept /\ r[i] = list[e[i]] /\ r[k] = list[e[k]]
      BY <1>3, <1>6, Zenon
    <3>2. e[i] \in DOMAIN list /\ e[k] \in DOMAIN list
      BY <1>4, <1>5, <3>1, Zenon
    <3>3. list[e[i]] = list[e[k]]
      BY <3>1, Zenon
    <3> QED
      BY <1>9, <3>2, <3>3, Zenon DEF IsInjective
  <2>2. e[i] \in Nat /\ e[k] \in Nat
    BY <1>3
  <2>4. i \in Int /\ k \in Int
    OBVIOUS
  <2>3. \A j, l \in 1..Len(e) : j < l => e[j] < e[l]
    BY <1>3
  <2> QED
    BY <2>1, <2>2, <2>3, <2>4
<1> QED
  BY <1>1, <1>7, <1>8, <1>9 DEF r

\* Only the entries of the list matter.
LEMMA FilterSame ==
    ASSUME NEW S, NEW list \in Seq(S), NEW ids, NEW others,
           ToSet(list) \cap ids = ToSet(list) \cap others
    PROVE  Filter(list, ids) = Filter(list, others)
<1>1. \A j \in 1..Len(list) : list[j] \in ToSet(list)
  BY DEF ToSet
<1>2. Positions(list, ids) = Positions(list, others)
  BY <1>1 DEF Positions
<1> QED
  BY <1>2 DEF Filter

\* A list of which everything is kept.
LEMMA FilterAll ==
    ASSUME NEW S, NEW list \in Seq(S), NEW ids, ToSet(list) \subseteq ids
    PROVE  Filter(list, ids) = list
<1> DEFINE e == [k \in 1..Len(list) |-> k]
<1>1. \A j \in 1..Len(list) : list[j] \in ids
  BY DEF ToSet
<1>2. Positions(list, ids) = 1..Len(list) /\ Len(list) \in Nat
  BY <1>1 DEF Positions
<1>3. e \in Seq(1..Len(list)) /\ Len(e) = Len(list) /\ \A k \in 1..Len(list) : e[k] = k
  BY <1>2
<1> HIDE DEF e
<1>4. Enumerates(e, Positions(list, ids))
  BY <1>2, <1>3 DEF Enumerates
<1>5. Filter(list, ids) = [k \in 1..Len(e) |-> list[e[k]]]
  BY <1>4, FilterIs
<1>6. [k \in 1..Len(e) |-> list[e[k]]] = [k \in 1..Len(list) |-> list[k]]
  BY <1>3
<1>7. [k \in 1..Len(list) |-> list[k]] = list
  OBVIOUS
<1> QED
  BY <1>5, <1>6, <1>7

\* A list of which nothing is kept.
LEMMA FilterNone ==
    ASSUME NEW S, NEW list \in Seq(S), NEW ids, ToSet(list) \cap ids = {}
    PROVE  Filter(list, ids) = <<>>
<1>1. Filter(list, ids) \in Seq(S) /\ ToSet(Filter(list, ids)) = {}
  BY Filtered
<1>2. ASSUME Filter(list, ids) # <<>> PROVE FALSE
  <2>1. Filter(list, ids)[1] \in ToSet(Filter(list, ids))
    BY <1>1, <1>2 DEF ToSet
  <2> QED
    BY <1>1, <2>1
<1> QED
  BY <1>2

\* Filtering one list after the other.
LEMMA FilterConcat ==
    ASSUME NEW S, NEW s \in Seq(S), NEW t \in Seq(S), NEW ids
    PROVE  Filter(s \o t, ids) = Filter(s, ids) \o Filter(t, ids)
<1> DEFINE st == s \o t
           ps == Positions(s, ids)
           pt == Positions(t, ids)
           p == Positions(st, ids)
<1>1. /\ st \in Seq(S) /\ Len(st) = Len(s) + Len(t) /\ Len(s) \in Nat /\ Len(t) \in Nat
      /\ \A i \in 1..Len(s) : st[i] = s[i]
      /\ \A i \in 1..Len(t) : st[Len(s) + i] = t[i]
  OBVIOUS
<1>2. PICK e : Enumerates(e, ps) /\ Filter(s, ids) = [k \in 1..Len(e) |-> s[e[k]]]
  BY FilterEnumerates
<1>3. PICK f : Enumerates(f, pt) /\ Filter(t, ids) = [k \in 1..Len(f) |-> t[f[k]]]
  BY FilterEnumerates
<1>4. /\ \A i : i \in ps <=> i \in 1..Len(s) /\ s[i] \in ids
      /\ \A i : i \in pt <=> i \in 1..Len(t) /\ t[i] \in ids
      /\ \A i : i \in p <=> i \in 1..Len(st) /\ st[i] \in ids
      /\ ps \in SUBSET Nat /\ pt \in SUBSET Nat /\ p \in SUBSET Nat
  BY DEF Positions
<1> HIDE DEF st, ps, pt, p
<1>5. /\ Len(e) \in Nat
      /\ \A i \in 1..Len(e) : e[i] \in ps /\ e[i] \in Nat
      /\ \A i, k \in 1..Len(e) : i < k => e[i] < e[k]
      /\ \A q \in ps : \E i \in 1..Len(e) : e[i] = q
  BY <1>2, <1>4, Enumerated
<1>6. /\ Len(f) \in Nat
      /\ \A i \in 1..Len(f) : f[i] \in pt /\ f[i] \in Nat
      /\ \A i, k \in 1..Len(f) : i < k => f[i] < f[k]
      /\ \A q \in pt : \E i \in 1..Len(f) : f[i] = q
  BY <1>3, <1>4, Enumerated
<1> DEFINE n == Len(e) + Len(f)
           g == [k \in 1..n |-> IF k <= Len(e) THEN e[k] ELSE Len(s) + f[k - Len(e)]]
<1>7. /\ \A i \in ps : i \in p /\ st[i] = s[i]
      /\ \A i \in pt : Len(s) + i \in p /\ st[Len(s) + i] = t[i]
      /\ \A i \in p : i \in ps \/ i - Len(s) \in pt
  <2>1. \A i \in pt : Len(s) + i \in 1..Len(st)
    BY <1>1, <1>4
  <2>2. \A i \in p : i \in 1..Len(s) \/ (i - Len(s) \in 1..Len(t) /\ Len(s) + (i - Len(s)) = i)
    BY <1>1, <1>4
  <2>3. \A i \in ps : i \in p /\ st[i] = s[i]
    BY <1>1, <1>4
  <2>4. \A i \in pt : Len(s) + i \in p /\ st[Len(s) + i] = t[i]
    BY <1>1, <1>4, <2>1
  <2>5. ASSUME NEW i \in p PROVE i \in ps \/ i - Len(s) \in pt
    <3>1. CASE i \in 1..Len(s)
      BY <1>1, <1>4, <3>1
    <3>2. CASE i - Len(s) \in 1..Len(t) /\ Len(s) + (i - Len(s)) = i
      <4>1. st[Len(s) + (i - Len(s))] = t[i - Len(s)]
        BY <1>1, <3>2
      <4>2. t[i - Len(s)] \in ids
        BY <1>4, <3>2, <4>1
      <4> QED
        BY <1>4, <3>2, <4>2
    <3> QED
      BY <2>2, <3>1, <3>2
  <2> QED
    BY <2>3, <2>4, <2>5
<1>8. /\ \A k \in 1..Len(e) : k \in 1..n /\ g[k] = e[k]
      /\ \A k \in 1..Len(f) : Len(e) + k \in 1..n /\ g[Len(e) + k] = Len(s) + f[k]
      /\ \A k \in 1..n : k \in 1..Len(e) \/ (k - Len(e) \in 1..Len(f) /\ Len(e) + (k - Len(e)) = k)
  BY <1>5, <1>6
<1>9. \A k \in 1..n : g[k] \in p
  BY <1>5, <1>6, <1>7, <1>8
<1>10. g \in Seq(p) /\ Len(g) = n /\ n \in Nat
  BY <1>5, <1>6, <1>9
<1> HIDE DEF g
<1>11. ASSUME NEW i \in 1..n, NEW k \in 1..n, i < k PROVE g[i] < g[k]
  <2>1. CASE k \in 1..Len(e)
    BY <1>5, <1>8, <1>11, <2>1
  <2>2. CASE i \in 1..Len(e) /\ k \notin 1..Len(e)
    <3>1. g[i] \in 1..Len(s) /\ g[i] \in Nat
      BY <1>4, <1>5, <1>8, <2>2
    <3>2. k - Len(e) \in 1..Len(f) /\ g[k] = Len(s) + f[k - Len(e)]
      BY <1>8, <2>2
    <3>3. f[k - Len(e)] \in 1..Len(t)
      BY <1>4, <1>6, <3>2
    <3> QED
      BY <1>1, <3>1, <3>2, <3>3, SMTT(30)
  <2>3. CASE i \notin 1..Len(e) /\ k \notin 1..Len(e)
    <3>1. /\ k - Len(e) \in 1..Len(f) /\ g[k] = Len(s) + f[k - Len(e)]
          /\ i - Len(e) \in 1..Len(f) /\ g[i] = Len(s) + f[i - Len(e)]
      BY <1>8, <2>3
    <3>2. i - Len(e) < k - Len(e)
      BY <1>5, <1>11
    <3>3. f[i - Len(e)] < f[k - Len(e)] /\ f[i - Len(e)] \in Nat /\ f[k - Len(e)] \in Nat
      BY <1>6, <3>1, <3>2
    <3>4. \A u, v \in Nat : u < v => Len(s) + u < Len(s) + v
      BY <1>1
    <3>5. Len(s) + f[i - Len(e)] < Len(s) + f[k - Len(e)]
      BY <3>3, <3>4, Zenon
    <3> QED
      BY <3>1, <3>5, Zenon
  <2> QED
    BY <1>5, <1>11, <2>1, <2>2, <2>3
<1>12. ASSUME NEW q \in p PROVE \E k \in 1..n : g[k] = q
  <2>1. CASE q \in ps
    BY <1>5, <1>8, <2>1
  <2>2. CASE q - Len(s) \in pt
    <3>1. PICK k \in 1..Len(f) : f[k] = q - Len(s)
      BY <1>6, <2>2
    <3>2. g[Len(e) + k] = Len(s) + (q - Len(s)) /\ q \in Int
      BY <1>4, <1>8, <3>1
    <3> QED
      BY <1>1, <1>8, <3>2
  <2> QED
    BY <1>7, <2>1, <2>2
<1>13. Enumerates(g, p)
  BY <1>10, <1>11, <1>12 DEF Enumerates
<1>14. Filter(st, ids) = [k \in 1..n |-> st[g[k]]]
  <2>1. Enumerates(g, Positions(st, ids))
    BY <1>13 DEF p
  <2>2. st \in Seq(S) /\ Len(g) = n
    BY <1>1, <1>10
  <2>3. Filter(st, ids) = [k \in 1..Len(g) |-> st[g[k]]]
    BY <2>1, <2>2, FilterIs
  <2> QED
    BY <2>2, <2>3
<1>15. /\ Filter(s, ids) \in Seq(S) /\ Len(Filter(s, ids)) = Len(e)
       /\ Filter(t, ids) \in Seq(S) /\ Len(Filter(t, ids)) = Len(f)
  <2>1. Filter(s, ids) \in Seq(S) /\ Filter(t, ids) \in Seq(S)
    BY Filtered
  <2>2. Len([k \in 1..Len(e) |-> s[e[k]]]) = Len(e)
    BY <1>5
  <2>3. Len([k \in 1..Len(f) |-> t[f[k]]]) = Len(f)
    BY <1>6
  <2> QED
    BY <1>2, <1>3, <2>1, <2>2, <2>3
<1> DEFINE a == Filter(s, ids)
           b == Filter(t, ids)
<1>16. /\ \A k \in 1..Len(e) : st[g[k]] = a[k]
       /\ \A k \in 1..Len(f) : st[g[Len(e) + k]] = b[k]
  BY <1>2, <1>3, <1>5, <1>6, <1>7, <1>8, SMTT(30)
<1>17. Filter(st, ids) \in Seq(S) /\ Len(Filter(st, ids)) = n
  <2>1. Filter(st, ids) \in Seq(S)
    BY <1>1, Filtered
  <2>2. Len([k \in 1..n |-> st[g[k]]]) = n
    BY <1>10
  <2> QED
    BY <1>14, <2>1, <2>2
<1>18. a \in Seq(S) /\ b \in Seq(S) /\ Len(a) = Len(e) /\ Len(b) = Len(f)
  BY <1>15
<1>19. \A k \in 1..n : Filter(st, ids)[k] = st[g[k]]
  BY <1>14
<1> HIDE DEF a, b
<1>20. /\ a \o b \in Seq(S) /\ Len(a \o b) = n
       /\ \A k \in 1..Len(e) : (a \o b)[k] = a[k]
       /\ \A k \in 1..Len(f) : (a \o b)[Len(e) + k] = b[k]
  <2>1. n = Len(a) + Len(b) /\ Len(a) \in Nat /\ Len(b) \in Nat
    BY <1>5, <1>6, <1>18
  <2>2. /\ a \o b \in Seq(S) /\ Len(a \o b) = Len(a) + Len(b)
        /\ \A k \in 1..Len(a) : (a \o b)[k] = a[k]
        /\ \A k \in 1..Len(b) : (a \o b)[Len(a) + k] = b[k]
    <3>1. a \in Seq(S) /\ b \in Seq(S)
      BY <1>18
    <3> QED
      BY <3>1, <2>1
  <2> HIDE DEF n
  <2> QED
    BY <1>18, <2>1, <2>2
<1>21. ASSUME NEW k \in 1..n PROVE st[g[k]] = (a \o b)[k]
  <2>1. CASE k \in 1..Len(e)
    BY <1>16, <1>20, <2>1 DEF a
  <2>2. CASE k - Len(e) \in 1..Len(f) /\ Len(e) + (k - Len(e)) = k
    <3>1. st[g[Len(e) + (k - Len(e))]] = (a \o b)[Len(e) + (k - Len(e))]
      BY <1>16, <1>20, <2>2 DEF b
    <3> QED
      BY <2>2, <3>1
  <2> QED
    BY <1>8, <2>1, <2>2
<1> DEFINE c == a \o b
           d == Filter(st, ids)
<1>22. c \in Seq(S) /\ Len(c) = n /\ d \in Seq(S) /\ Len(d) = n /\ \A k \in 1..n : d[k] = c[k]
  BY <1>17, <1>19, <1>20, <1>21
<1> HIDE DEF c, d
<1>23. c = d
  BY <1>22
<1> QED
  BY <1>23 DEF a, b, c, d, st

\* Filtering twice.
LEMMA FilterTwice ==
    ASSUME NEW S, NEW list \in Seq(S), NEW ids, NEW others
    PROVE  Filter(Filter(list, ids), others) = Filter(list, ids \cap others)
<1> DEFINE r == Filter(list, ids)
           p == Positions(list, ids)
           q == Positions(r, others)
           pq == Positions(list, ids \cap others)
<1>1. PICK e : Enumerates(e, p) /\ r = [k \in 1..Len(e) |-> list[e[k]]]
  BY FilterEnumerates
<1>2. r \in Seq(S)
  BY Filtered
<1>4. /\ \A i : i \in p <=> i \in 1..Len(list) /\ list[i] \in ids
      /\ \A i : i \in q <=> i \in 1..Len(r) /\ r[i] \in others
      /\ \A i : i \in pq <=> i \in 1..Len(list) /\ list[i] \in ids /\ list[i] \in others
      /\ p \in SUBSET Nat /\ q \in SUBSET Nat /\ pq \in SUBSET Nat
  <2>1. Len(list) \in Nat /\ Len(r) \in Nat
    BY <1>2
  <2> HIDE DEF r
  <2> QED
    BY <2>1 DEF Positions
<1>3. PICK f : Enumerates(f, q) /\ Filter(r, others) = [k \in 1..Len(f) |-> r[f[k]]]
  BY <1>2, FilterEnumerates
<1> HIDE DEF p, q, pq
<1>5. /\ Len(e) \in Nat
      /\ \A i \in 1..Len(e) : e[i] \in p /\ e[i] \in Nat
      /\ \A i, k \in 1..Len(e) : i < k => e[i] < e[k]
      /\ \A x \in p : \E i \in 1..Len(e) : e[i] = x
  BY <1>1, <1>4, Enumerated
<1>6. /\ Len(f) \in Nat
      /\ \A i \in 1..Len(f) : f[i] \in q /\ f[i] \in Nat
      /\ \A i, k \in 1..Len(f) : i < k => f[i] < f[k]
      /\ \A x \in q : \E i \in 1..Len(f) : f[i] = x
  BY <1>3, <1>4, Enumerated
<1>7. Len(r) = Len(e) /\ \A k \in 1..Len(e) : r[k] = list[e[k]]
  BY <1>1, <1>2, <1>5
<1> HIDE DEF r
<1> DEFINE g == [k \in 1..Len(f) |-> e[f[k]]]
<1>8. \A k \in 1..Len(f) : /\ f[k] \in 1..Len(e) /\ g[k] = e[f[k]]
                            /\ g[k] \in pq /\ list[g[k]] = r[f[k]]
  BY <1>4, <1>5, <1>6, <1>7
<1>9. g \in Seq(pq) /\ Len(g) = Len(f)
  BY <1>6, <1>8
<1> HIDE DEF g
<1>10. ASSUME NEW i \in 1..Len(f), NEW k \in 1..Len(f), i < k PROVE g[i] < g[k]
  <2>1. f[i] < f[k] /\ f[i] \in 1..Len(e) /\ f[k] \in 1..Len(e)
    BY <1>6, <1>8, <1>10, Zenon
  <2> QED
    BY <1>5, <1>8, <2>1, Zenon
<1>11. ASSUME NEW x \in pq PROVE \E k \in 1..Len(f) : g[k] = x
  <2>1. PICK i \in 1..Len(e) : e[i] = x
    BY <1>4, <1>5
  <2>2. i \in q
    BY <1>4, <1>7, <2>1
  <2>3. PICK k \in 1..Len(f) : f[k] = i
    BY <1>6, <2>2
  <2> QED
    BY <1>8, <2>1, <2>3
<1>12. Enumerates(g, pq)
  BY <1>9, <1>10, <1>11 DEF Enumerates
<1>13. Filter(list, ids \cap others) = [k \in 1..Len(f) |-> list[g[k]]]
  BY <1>9, <1>12, FilterIs DEF pq
<1>14. [k \in 1..Len(f) |-> list[g[k]]] = [k \in 1..Len(f) |-> r[f[k]]]
  BY <1>8
<1> QED
  BY <1>3, <1>13, <1>14 DEF r

-----------------------------------------------------------------------------
(* Chunks                                                                  *)

\* A stretch of a list.
LEMMA Stretch ==
    ASSUME NEW S, NEW s \in Seq(S), NEW a \in Nat, NEW b \in Nat, a <= b, b <= Len(s)
    PROVE  /\ SubSeq(s, a + 1, b) \in Seq(S) /\ Len(SubSeq(s, a + 1, b)) = b - a
           /\ \A i \in 1..(b - a) : SubSeq(s, a + 1, b)[i] = s[a + i]
<1>1. Len(s) \in Nat
  OBVIOUS
<1>2. CASE a = b
  <2>1. SubSeq(s, a + 1, b) = <<>>
    BY <1>2
  <2> QED
    BY <1>2, <2>1
<1>3. CASE a < b
  BY <1>1, <1>3
<1> QED
  BY <1>2, <1>3, SMTT(30)

\* An empty one.
LEMMA NoStretch ==
    ASSUME NEW S, NEW s \in Seq(S), NEW a \in Nat, NEW b \in Nat, b <= a
    PROVE  SubSeq(s, a + 1, b) = <<>>
OBVIOUS

\* Two lists with the same entries are the same.
LEMMA SameLists ==
    ASSUME NEW S, NEW s \in Seq(S), NEW t \in Seq(S), Len(s) = Len(t),
           \A i \in 1..Len(s) : s[i] = t[i]
    PROVE  s = t
OBVIOUS

\* A stretch of a single entry.
LEMMA OneStretch ==
    ASSUME NEW S, NEW s \in Seq(S), NEW a \in Nat, NEW b \in Nat, b = a + 1, b <= Len(s)
    PROVE  SubSeq(s, a + 1, b) = <<s[b]>>
<1> DEFINE one == SubSeq(s, a + 1, b)
<1>1. a <= b /\ b - a = 1
  OBVIOUS
<1>2. one \in Seq(S) /\ Len(one) = b - a /\ \A i \in 1..(b - a) : one[i] = s[a + i]
  BY <1>1, Stretch, ZenonT(60)
<1> HIDE DEF one
<1>3. one[1] = s[b] /\ s[b] \in S
  BY <1>1, <1>2
<1>4. <<s[b]>> \in Seq(S) /\ Len(<<s[b]>>) = 1 /\ <<s[b]>>[1] = s[b]
  BY <1>3
<1>5. Len(one) = Len(<<s[b]>>) /\ \A i \in 1..Len(one) : one[i] = <<s[b]>>[i]
  BY <1>1, <1>2, <1>3, <1>4
<1> QED
  BY <1>2, <1>4, <1>5, SameLists DEF one

\* The smaller of two numbers.
LEMMA MinOfTwo ==
    ASSUME NEW a \in Int, NEW b \in Int
    PROVE  Min({a, b}) = IF a <= b THEN a ELSE b
<1>1. CASE a <= b
  <2>1. \A x \in {a, b} : (\A y \in {a, b} : x <= y) => x = a
    BY <1>1
  <2>2. a \in {a, b} /\ \A y \in {a, b} : a <= y
    BY <1>1
  <2> QED
    BY <1>1, <2>1, <2>2 DEF Min
<1>2. CASE ~(a <= b)
  <2>1. \A x \in {a, b} : (\A y \in {a, b} : x <= y) => x = b
    BY <1>2
  <2>2. b \in {a, b} /\ \A y \in {a, b} : b <= y
    BY <1>2
  <2> QED
    BY <1>2, <2>1, <2>2 DEF Min
<1> QED
  BY <1>1, <1>2

\* How many chunks a list takes.
LEMMA ChunksTaken ==
    ASSUME NEW S, NEW ids \in Seq(S)
    PROVE  /\ ChunkCount(ids) \in Nat
           /\ Len(ids) <= ChunkCount(ids) * ChunkSize
           /\ \A k \in 0..(ChunkCount(ids) - 1) : k * ChunkSize < Len(ids)
<1>1. Len(ids) \in Nat /\ ChunkSize \in Nat /\ ChunkSize > 0
  BY ChunkAssumption
<1> DEFINE a == Len(ids) + ChunkSize - 1
           q == a \div ChunkSize
<1>2. a \in Nat
  BY <1>1
<1> HIDE DEF a
<1>3. /\ q \in Nat /\ q * ChunkSize <= a /\ a < q * ChunkSize + ChunkSize
  BY <1>1, <1>2
<1> HIDE DEF q
<1>4. Len(ids) <= q * ChunkSize
  BY <1>1, <1>3 DEF a
<1>5. ASSUME NEW k \in 0..(q - 1) PROVE k * ChunkSize < Len(ids)
  <2>1. k + 1 <= q
    BY <1>3
  <2>2. (k + 1) * ChunkSize <= q * ChunkSize
    BY <1>1, <1>3, <2>1
  <2>3. (k + 1) * ChunkSize = k * ChunkSize + ChunkSize
    BY <1>1, <1>3
  <2> QED
    BY <1>1, <1>3, <2>2, <2>3 DEF a
<1> QED
  BY <1>3, <1>4, <1>5 DEF ChunkCount, q, a

\* A list as it is cut into chunks.
Chunks(ids) == [k \in 0..(ChunkCount(ids) - 1) |-> ChunkOf(ids, k)]

\* Every chunk holds its part of the list, and only the last one has room.
LEMMA ChunkHolds ==
    ASSUME NEW S, NEW ids \in Seq(S), NEW k \in 0..(ChunkCount(ids) - 1)
    PROVE  LET from == k * ChunkSize
               chunk == ChunkOf(ids, k)
           IN  /\ from \in Nat /\ chunk \in Seq(S)
               /\ Len(chunk) \in 1..ChunkSize
               /\ from + Len(chunk) <= Len(ids)
               /\ \A i \in 1..Len(chunk) : chunk[i] = ids[from + i]
               /\ k < ChunkCount(ids) - 1 => Len(chunk) = ChunkSize
               /\ from + Len(chunk) = IF from + ChunkSize <= Len(ids)
                                      THEN from + ChunkSize ELSE Len(ids)
<1> DEFINE from == k * ChunkSize
           next == (k + 1) * ChunkSize
           upto == IF next <= Len(ids) THEN next ELSE Len(ids)
<1>1. /\ Len(ids) \in Nat /\ ChunkSize \in Nat /\ ChunkSize > 0
      /\ ChunkCount(ids) \in Nat /\ k \in Nat
  BY ChunkAssumption, ChunksTaken
<1>2. from \in Nat /\ next \in Nat /\ next = from + ChunkSize
  BY <1>1
<1>3. from < Len(ids)
  BY ChunksTaken
<1>4. ASSUME k < ChunkCount(ids) - 1 PROVE next < Len(ids)
  <2>1. k + 1 \in 0..(ChunkCount(ids) - 1)
    BY <1>1, <1>4
  <2> QED
    BY <2>1, ChunksTaken
<1>5. ChunkOf(ids, k) = SubSeq(ids, from + 1, upto)
  <2>1. Min({next, Len(ids)}) = upto
    BY <1>1, <1>2, MinOfTwo
  <2> QED
    BY <2>1 DEF ChunkOf
<1> HIDE DEF from, next
<1>6. upto \in Nat /\ from < upto /\ upto <= Len(ids) /\ upto - from <= ChunkSize
  BY <1>1, <1>2, <1>3
<1>7. upto = next => upto - from = ChunkSize
  BY <1>1, <1>2
<1>8. upto = IF from + ChunkSize <= Len(ids) THEN from + ChunkSize ELSE Len(ids)
  BY <1>2
<1>9. k < ChunkCount(ids) - 1 => upto = next
  BY <1>1, <1>2, <1>4
<1> HIDE DEF upto
<1> DEFINE chunk == SubSeq(ids, from + 1, upto)
<1>10. chunk \in Seq(S) /\ Len(chunk) = upto - from
  BY <1>1, <1>2, <1>6
<1>11. \A i \in 1..Len(chunk) : chunk[i] = ids[from + i]
  BY <1>1, <1>2, <1>6, <1>10
<1> HIDE DEF chunk
<1>12. Len(chunk) \in 1..ChunkSize /\ from + Len(chunk) = upto
  BY <1>1, <1>2, <1>6, <1>10
<1>13. chunk = ChunkOf(ids, k)
  BY <1>5 DEF chunk
<1> QED
  BY <1>2, <1>6, <1>7, <1>8, <1>9, <1>10, <1>11, <1>12, <1>13 DEF from

\* Reading the chunks one after the other gives the list back.
LEMMA ChunksRead ==
    ASSUME NEW S, NEW ids \in Seq(S)
    PROVE  get_ids(Chunks(ids)) = ids
<1> DEFINE store == Chunks(ids)
           m == ChunkCount(ids)
           n == Len(ids)
           rest(k) == SubSeq(ids, k * ChunkSize + 1, n)
           step(f, k) == IF get_chunk(store, k) = <<>> THEN <<>>
                         ELSE get_chunk(store, k) \o f[k + 1]
           reads(f) == f = [k \in 0..m |-> step(f, k)]
           w == [k \in 0..m |-> rest(k)]
<1>1. /\ n \in Nat /\ ChunkSize \in Nat /\ ChunkSize > 0 /\ m \in Nat
      /\ n <= m * ChunkSize
  BY ChunkAssumption, ChunksTaken
<1>2. DOMAIN store = 0..(m - 1) /\ \A k \in 0..(m - 1) : store[k] = ChunkOf(ids, k)
  BY DEF Chunks
<1>3. Cardinality(DOMAIN store) = m
  <2> HIDE DEF store, m
  <2>1. Cardinality(0..(m - 1)) = IF 0 > m - 1 THEN 0 ELSE m - 1 - 0 + 1
    BY <1>1, FS_Interval, 0 \in Int, m - 1 \in Int
  <2> QED
    BY <1>1, <1>2, <2>1
<1>4. ASSUME NEW k \in 0..(m - 1)
      PROVE  /\ get_chunk(store, k) # <<>>
             /\ get_chunk(store, k) \o rest(k + 1) = rest(k)
  <2> DEFINE from == k * ChunkSize
             chunk == ChunkOf(ids, k)
             r == rest(k + 1)
             next == (k + 1) * ChunkSize
  <2>1. get_chunk(store, k) = chunk
    BY <1>2 DEF get_chunk
  <2>2. /\ from \in Nat /\ chunk \in Seq(S) /\ Len(chunk) \in 1..ChunkSize
        /\ from + Len(chunk) <= n
        /\ \A i \in 1..Len(chunk) : chunk[i] = ids[from + i]
        /\ from + Len(chunk) = IF from + ChunkSize <= n THEN from + ChunkSize ELSE n
    BY ChunkHolds
  <2>3. k \in Nat /\ next = from + ChunkSize
    BY <1>1
  <2>4. rest(k) = SubSeq(ids, from + 1, n) /\ r = SubSeq(ids, next + 1, n)
    OBVIOUS
  <2> HIDE DEF from, next, chunk, r
  <2>5. /\ rest(k) \in Seq(S) /\ Len(rest(k)) = n - from
        /\ \A i \in 1..(n - from) : rest(k)[i] = ids[from + i]
    <3> HIDE DEF rest
    <3>1. from \in Nat /\ n \in Nat /\ from <= n /\ n <= Len(ids)
      BY <1>1, <2>2
    <3> QED
      BY <2>4, <3>1, Stretch
  <2>6. /\ r \in Seq(S) /\ Len(r) = n - from - Len(chunk)
        /\ \A i \in 1..Len(r) : r[i] = ids[from + Len(chunk) + i]
    <3>1. CASE from + ChunkSize <= n
      <4>1. next \in Nat /\ next = from + Len(chunk) /\ next <= n
        BY <1>1, <2>2, <2>3, <3>1
      <4>2. r \in Seq(S) /\ Len(r) = n - next /\ \A i \in 1..(n - next) : r[i] = ids[next + i]
        <5>1. SubSeq(ids, next + 1, n) = r
          BY <2>4
        <5>2. next \in Nat /\ n \in Nat /\ next <= n /\ n <= Len(ids)
          BY <1>1, <4>1
        <5> HIDE DEF rest, n
        <5>3. /\ SubSeq(ids, next + 1, n) \in Seq(S) /\ Len(SubSeq(ids, next + 1, n)) = n - next
              /\ \A i \in 1..(n - next) : SubSeq(ids, next + 1, n)[i] = ids[next + i]
          BY <5>2, Stretch
        <5> QED
          BY <5>1, <5>3
      <4> QED
        BY <1>1, <2>2, <4>1, <4>2
    <3>2. CASE ~(from + ChunkSize <= n)
      <4>1. r = <<>>
        <5>1. next \in Nat /\ n <= next
          BY <1>1, <2>2, <2>3, <3>2
        <5> QED
          BY <1>1, <2>4, <5>1, NoStretch
      <4> QED
        BY <1>1, <2>2, <3>2, <4>1
    <3> QED
      BY <3>1, <3>2
  <2> DEFINE both == chunk \o r
  <2>7. /\ both \in Seq(S) /\ Len(both) = n - from
        /\ \A i \in 1..Len(chunk) : both[i] = chunk[i]
        /\ \A i \in 1..Len(r) : both[Len(chunk) + i] = r[i]
    <3>1. /\ both \in Seq(S) /\ Len(both) = Len(chunk) + Len(r)
          /\ \A i \in 1..Len(chunk) : both[i] = chunk[i]
          /\ \A i \in 1..Len(r) : both[Len(chunk) + i] = r[i]
      BY <2>2, <2>6
    <3> QED
      BY <1>1, <2>2, <2>6, <3>1
  <2> HIDE DEF both, rest
  <2>8. ASSUME NEW i \in 1..(n - from) PROVE both[i] = rest(k)[i]
    <3>1. CASE i \in 1..Len(chunk)
      BY <2>2, <2>5, <2>7, <3>1
    <3>2. CASE i \notin 1..Len(chunk)
      <4>1. i - Len(chunk) \in 1..Len(r) /\ Len(chunk) + (i - Len(chunk)) = i
        BY <1>1, <2>2, <2>6, <3>2
      <4>2. both[Len(chunk) + (i - Len(chunk))] = ids[from + Len(chunk) + (i - Len(chunk))]
        BY <2>6, <2>7, <4>1
      <4>3. from + Len(chunk) + (i - Len(chunk)) = from + i
        BY <2>2
      <4> QED
        BY <2>5, <4>1, <4>2, <4>3
    <3> QED
      BY <3>1, <3>2
  <2>9. both = rest(k)
    BY <2>5, <2>7, <2>8, SameLists
  <2>10. chunk # <<>>
    BY <2>2
  <2> QED
    BY <2>1, <2>9, <2>10 DEF both, r
<1>5. get_chunk(store, m) = <<>> /\ rest(m) = <<>>
  <2>1. m \notin DOMAIN store
    BY <1>1, <1>2
  <2>2. m * ChunkSize \in Nat
    BY <1>1
  <2> QED
    BY <1>1, <2>1, <2>2 DEF get_chunk
<1> HIDE DEF store, m, rest
<1>6. reads(w)
  <2>1. \A k \in 0..m : w[k] = step(w, k)
    <3> SUFFICES ASSUME NEW k \in 0..m PROVE w[k] = step(w, k)
      OBVIOUS
    <3>1. CASE k = m
      BY <1>1, <1>5, <3>1
    <3>2. CASE k \in 0..(m - 1)
      <4>1. k + 1 \in 0..m
        BY <1>1, <3>2
      <4> QED
        BY <1>4, <3>2, <4>1
    <3>3. k = m \/ k \in 0..(m - 1)
      <4> HIDE DEF step, w, reads
      <4>1. m \in Nat
        BY <1>1, ZenonT(60)
      <4> QED
        BY <4>1, SMTT(30)
    <3> QED
      BY <3>1, <3>2, <3>3, Zenon
  <2> QED
    BY <2>1
<1> DEFINE g == CHOOSE f : reads(f)
<1>7. reads(g)
  BY <1>6
<1>8. get_ids(store) = g[0]
  BY <1>3 DEF get_ids
<1> HIDE DEF g, w, step
<1>9. \A k \in 0..m : g[k] = step(g, k)
  BY <1>7
<1>10. w = [k \in 0..m |-> rest(k)]
  BY DEF w
<1> HIDE DEF reads
<1>11. g[0] = rest(0)
  <2> DEFINE wrong == {j \in 0..m : g[m - j] # rest(m - j)}
  <2>0. m \in 0..m /\ m - m = 0
    BY <1>1
  <2> SUFFICES ASSUME wrong # {} PROVE FALSE
    <3>1. wrong = {} => g[m - m] = rest(m - m)
      BY <2>0
    <3>2. g[m - m] = g[0] /\ rest(m - m) = rest(0)
      BY <2>0
    <3> QED
      BY <3>1, <3>2
  <2>00. wrong \in SUBSET Nat
    BY <1>1
  <2>1. PICK j \in wrong : \A i \in wrong : j <= i
    BY <2>00, Least
  <2>2. m - j \in 0..m /\ g[m - j] # rest(m - j) /\ j \in 0..m
    BY <1>1
  <2>3. g[m - j] = step(g, m - j)
    BY <1>9, <2>2
  <2>4. CASE j = 0
    BY <1>1, <1>5, <2>2, <2>3, <2>4 DEF step
  <2>5. CASE j # 0
    <3>1. m - j \in 0..(m - 1) /\ m - (j - 1) = (m - j) + 1 /\ j - 1 \in 0..m
      BY <1>1, <2>2, <2>5
    <3>2. j - 1 \notin wrong
      BY <2>1, <2>2
    <3>3. g[(m - j) + 1] = rest((m - j) + 1)
      BY <3>1, <3>2
    <3> QED
      BY <1>4, <2>2, <2>3, <3>1, <3>3 DEF step
  <2> QED
    BY <2>4, <2>5
<1>12. rest(0) = ids
  <2>1. rest(0) = SubSeq(ids, 1, n)
    BY <1>1 DEF rest
  <2> QED
    BY <1>1, <2>1
<1> QED
  BY <1>8, <1>11, <1>12 DEF store

\* Writing a list replaces all the chunks of the one that was there.
LEMMA Rewritten ==
    ASSUME NEW S, NEW ids \in Seq(S), NEW store, NEW m \in Nat,
           DOMAIN store = 0..(m - 1)
    PROVE  write_chunks(store, ids) = Chunks(ids)
<1> DEFINE n == ChunkCount(ids)
           trailing == {k \in DOMAIN store : k >= n /\ n..k \subseteq DOMAIN store}
           domain == (DOMAIN store \ trailing) \cup 0..(n - 1)
<1>1. n \in Nat
  BY ChunksTaken
<1> HIDE DEF n
<1>2. trailing = {k \in 0..(m - 1) : k >= n}
  BY <1>1
<1>3. domain = 0..(n - 1)
  BY <1>1, <1>2
<1>4. write_chunks(store, ids) = [k \in domain |-> IF k < n THEN ChunkOf(ids, k) ELSE store[k]]
  BY DEF write_chunks, n
<1>5. \A k \in 0..(n - 1) : k < n
  BY <1>1
<1> HIDE DEF domain
<1> QED
  BY <1>3, <1>4, <1>5 DEF Chunks, n

\* The chunks of a list written whole.
LEMMA ChunkDomain ==
    ASSUME NEW S, NEW ids \in Seq(S)
    PROVE  /\ ChunkCount(ids) \in Nat
           /\ DOMAIN Chunks(ids) = 0..(ChunkCount(ids) - 1)
           /\ Cardinality(DOMAIN Chunks(ids)) = ChunkCount(ids)
           /\ \A k \in 0..(ChunkCount(ids) - 1) : Chunks(ids)[k] = ChunkOf(ids, k)
<1> DEFINE m == ChunkCount(ids)
<1>1. m \in Nat
  BY ChunksTaken
<1>2. DOMAIN Chunks(ids) = 0..(m - 1) /\ \A k \in 0..(m - 1) : Chunks(ids)[k] = ChunkOf(ids, k)
  BY DEF Chunks
<1> HIDE DEF m
<1>3. Cardinality(0..(m - 1)) = IF 0 > m - 1 THEN 0 ELSE m - 1 - 0 + 1
  BY <1>1, FS_Interval, 0 \in Int, m - 1 \in Int
<1> QED
  BY <1>1, <1>2, <1>3 DEF m

\* Adding to and removing from a list in chunks.
LEMMA ChunksAdd ==
    ASSUME NEW S, NEW ids \in Seq(S), NEW more \in Seq(S)
    PROVE  add_bulk(Chunks(ids), more) = Chunks(ids \o more)
<1>1. ids \o more \in Seq(S)
  OBVIOUS
<1> QED
  BY <1>1, ChunksRead, ChunkDomain, Rewritten DEF add_bulk

\* remove writes the chunks of the list without the ids that go.
LEMMA ChunksRemove ==
    ASSUME NEW S, NEW ids \in Seq(S), NEW gone
    PROVE  remove(Chunks(ids), gone) = Chunks(Filter(ids, ToSet(ids) \ gone))
<1>1. Filter(ids, ToSet(ids) \ gone) \in Seq(S)
  BY Filtered
<1> QED
  BY <1>1, ChunksRead, ChunkDomain, Rewritten DEF remove

-----------------------------------------------------------------------------
(* What a step does to the bags behind the lists                           *)

\* Ids leave a list, and the others stay as they were.
Trims(old, new, gone) ==
    /\ DOMAIN new = DOMAIN old \ gone
    /\ \A id \in DOMAIN new : new[id] = old[id]

\* A step that issues nothing: gone are the ids that leave the chunked lists of
\* their subjects, and those revoked may leave the lists of their issuers.
TrimStep(gone, revoked) ==
    /\ DOMAIN attestations' = DOMAIN attestations
    /\ \A id \in DOMAIN attestations :
          /\ attestations'[id].subject = attestations[id].subject
          /\ attestations[id].revoked => attestations'[id].revoked
          /\ attestations[id].deleted => attestations'[id].deleted
          /\ attestations'[id].deleted => attestations[id].deleted \/ id \in gone
    /\ \A id \in gone : /\ id \in DOMAIN attestations
                        /\ attestations'[id].revoked \/ attestations'[id].deleted
    /\ \A id \in revoked : id \in DOMAIN attestations /\ attestations'[id].revoked
    /\ \A s \in Subjects : Trims(subjectChunks[s], subjectChunks'[s], About(s, gone))
    /\ \A o \in Owners : \E g \in SUBSET revoked : Trims(issuerChunks[o], issuerChunks'[o], g)

\* An id that is dropped from a bag leaves it, and nothing enters.
LEMMA DropTrims ==
    ASSUME NEW b, NEW ids
    PROVE  Trims(b, Drop(b, ids), ids)
BY DEF Trims, Drop

\* Nothing leaves.
LEMMA KeepTrims ==
    ASSUME NEW b
    PROVE  /\ Trims(b, b, {})
           /\ \A s : Trims(b, b, About(s, {}))
BY DEF Trims, About

\* A step that leaves the chunked lists alone, and what takes ids out of them.
LEMMA SameChunksTrim ==
    ASSUME UNCHANGED <<subjectChunks, issuerChunks>>,
           DOMAIN attestations' = DOMAIN attestations,
           \A id \in DOMAIN attestations :
              /\ attestations'[id].subject = attestations[id].subject
              /\ attestations[id].revoked => attestations'[id].revoked
              /\ attestations'[id].deleted <=> attestations[id].deleted
    PROVE  TrimStep({}, {})
<1>1. \A s \in Subjects : Trims(subjectChunks[s], subjectChunks'[s], About(s, {}))
  BY KeepTrims
<1>2. \A o \in Owners : \E g \in SUBSET {} : Trims(issuerChunks[o], issuerChunks'[o], g)
  BY KeepTrims
<1> QED
  BY <1>1, <1>2 DEF TrimStep

\* A revocation takes the id out of the chunked lists ...
LEMMA RevokeTrims ==
    ASSUME TypeOK, NEW i \in Issuers, NEW id \in DOMAIN attestations, revoke_attestation(i, id)
    PROVE  TrimStep({id}, {id})
<1>1. /\ DOMAIN attestations' = DOMAIN attestations
      /\ attestations'[id] = [attestations[id] EXCEPT !.revoked = TRUE]
      /\ \A x \in DOMAIN attestations \ {id} : attestations'[x] = attestations[x]
  BY RevokeIsTogether DEF RevokedTogether
<1>2. attestations[id] \in Attestation
  BY DEF TypeOK, LedgerTypeOK
<1>3. /\ attestations'[id].subject = attestations[id].subject
      /\ attestations'[id].revoked
      /\ attestations'[id].deleted = attestations[id].deleted
  BY <1>1, <1>2, MarkFields
<1>4. \A s \in Subjects : Trims(subjectChunks[s], subjectChunks'[s], About(s, {id}))
  BY DropTrims DEF revoke_attestation, ChunkedIndex_remove_subject
<1>5. ASSUME NEW o \in Owners
      PROVE  \E g \in SUBSET {id} : Trims(issuerChunks[o], issuerChunks'[o], g)
  <2>1. issuerChunks' = [issuerChunks EXCEPT ![i] = Drop(@, {id})] /\ DOMAIN issuerChunks = Owners
    BY DEF revoke_attestation, ChunkedIndex_remove_issuer, TypeOK, LedgerTypeOK, IsIndex
  <2>2. CASE o = i
    <3>1. issuerChunks'[o] = Drop(issuerChunks[o], {id})
      BY <2>1, <2>2
    <3> QED
      BY <3>1, DropTrims
  <2>3. CASE o # i
    <3>1. issuerChunks'[o] = issuerChunks[o]
      BY <2>1, <2>3
    <3> QED
      BY <3>1, KeepTrims
  <2> QED
    BY <2>2, <2>3
<1> QED
  BY <1>1, <1>3, <1>4, <1>5 DEF TrimStep

\* ... that of a batch takes none out ...
LEMMA BatchTrims ==
    ASSUME TypeOK, NEW i \in Issuers, NEW ids \in SUBSET DOMAIN attestations,
           revoke_attestations_batch(i, ids)
    PROVE  TrimStep({}, {})
<1>1. RevokedTogether(i, ids)
  BY RevokeBatchIsTogether
<1>2. ASSUME NEW id \in DOMAIN attestations
      PROVE  /\ attestations'[id].subject = attestations[id].subject
             /\ attestations[id].revoked => attestations'[id].revoked
             /\ attestations'[id].deleted <=> attestations[id].deleted
  <2>1. attestations[id] \in Attestation
    BY DEF TypeOK, LedgerTypeOK
  <2>2. CASE id \in ids
    <3>1. attestations'[id] = [attestations[id] EXCEPT !.revoked = TRUE]
      BY <1>1, <2>2 DEF RevokedTogether
    <3> QED
      BY <2>1, <3>1, MarkFields
  <2>3. CASE id \notin ids
    BY <1>1, <2>3 DEF RevokedTogether
  <2> QED
    BY <2>2, <2>3
<1> QED
  BY <1>1, <1>2, SameChunksTrim DEF RevokedTogether, revoke_attestations_batch

\* ... nor does a new expiration ...
LEMMA ExpirationTrims ==
    ASSUME TypeOK, NEW i, NEW id \in DOMAIN attestations, NEW e, NEW entry,
           SetExpiration(i, id, e, entry)
    PROVE  TrimStep({}, {})
<1>1. /\ DOMAIN attestations' = DOMAIN attestations
      /\ attestations'[id] = [attestations[id] EXCEPT !.expiration = e]
      /\ \A x \in DOMAIN attestations \ {id} : attestations'[x] = attestations[x]
  BY SetRecord DEF SetExpiration
<1>2. attestations[id] \in Attestation
  BY DEF TypeOK, LedgerTypeOK
<1>3. UNCHANGED <<subjectChunks, issuerChunks>>
  BY DEF SetExpiration, indexVars
<1>4. /\ attestations'[id].subject = attestations[id].subject
      /\ attestations'[id].revoked = attestations[id].revoked
      /\ attestations'[id].deleted = attestations[id].deleted
  BY <1>1, <1>2, ChangeFields
<1> QED
  BY <1>1, <1>3, <1>4, SameChunksTrim

\* ... nor a transfer ...
LEMMA TransferTrims ==
    ASSUME TypeOK, NEW a, NEW id \in DOMAIN attestations, NEW i,
           transfer_attestation(a, id, i)
    PROVE  TrimStep({}, {})
<1>1. /\ DOMAIN attestations' = DOMAIN attestations
      /\ attestations'[id] = [attestations[id] EXCEPT !.issuer = i]
      /\ \A x \in DOMAIN attestations \ {id} : attestations'[x] = attestations[x]
  BY SetRecord DEF transfer_attestation
<1>2. attestations[id] \in Attestation
  BY DEF TypeOK, LedgerTypeOK
<1>3. UNCHANGED <<subjectChunks, issuerChunks>>
  BY DEF transfer_attestation
<1>4. /\ attestations'[id].subject = attestations[id].subject
      /\ attestations'[id].revoked = attestations[id].revoked
      /\ attestations'[id].deleted = attestations[id].deleted
  BY <1>1, <1>2, ChangeFields
<1> QED
  BY <1>1, <1>3, <1>4, SameChunksTrim

\* ... and a deletion takes out the one that is deleted.
LEMMA DeletionTrims ==
    ASSUME TypeOK, NEW s \in Subjects, NEW id \in DOMAIN attestations, request_deletion(s, id)
    PROVE  TrimStep({id}, {})
<1>1. /\ DOMAIN attestations' = DOMAIN attestations
      /\ attestations'[id] = [attestations[id] EXCEPT !.deleted = TRUE]
      /\ \A x \in DOMAIN attestations \ {id} : attestations'[x] = attestations[x]
  BY SetRecord DEF request_deletion
<1>2. attestations[id] \in Attestation
  BY DEF TypeOK, LedgerTypeOK
<1>3. /\ attestations'[id].subject = attestations[id].subject
      /\ attestations'[id].revoked = attestations[id].revoked
      /\ attestations'[id].deleted
  BY <1>1, <1>2, MarkFields
<1>4. \A x \in Subjects : Trims(subjectChunks[x], subjectChunks'[x], About(x, {id}))
  BY DropTrims DEF request_deletion, ChunkedIndex_remove_subject
<1>5. \A o \in Owners : \E g \in SUBSET {} : Trims(issuerChunks[o], issuerChunks'[o], g)
  BY KeepTrims DEF request_deletion
<1> QED
  BY <1>1, <1>3, <1>4, <1>5 DEF TrimStep

\* A step issues attestations, or it only takes ids out of the lists.
LEMMA StoreOrTrim ==
    ASSUME TypeOK, [Next]_vars
    PROVE  \/ \E owner, new, actor, timestamp : Stored(owner, new, actor, timestamp)
           \/ \E gone, revoked : TrimStep(gone, revoked)
<1> DEFINE Trim == \E gone, revoked : TrimStep(gone, revoked)
<1>0. ASSUME UNCHANGED <<attestations, indexVars>> PROVE Trim
  BY <1>0, SameChunksTrim DEF indexVars
<1> HIDE DEF Trim
<1>1. CASE Issue \/ Import \/ IssueBatch
  BY <1>1, IssuanceStores
<1>2. ASSUME NEW i \in Issuers, NEW id \in DOMAIN attestations,
             \/ revoke_attestation(i, id)
             \/ endorse_attestation(i, id)
             \/ \E e \in Expirations : renew_attestation(i, id, e)
             \/ \E e \in Expirations : update_expiration(i, id, e)
             \/ \E a \in Admins : transfer_attestation(a, id, i)
      PROVE  Trim
  <2>1. CASE revoke_attestation(i, id)
    BY <2>1, RevokeTrims DEF Trim
  <2>2. CASE endorse_attestation(i, id)
    BY <1>0, <2>2 DEF endorse_attestation, ledgerVars
  <2>3. CASE \E e \in Expirations : renew_attestation(i, id, e) \/ update_expiration(i, id, e)
    BY <2>3, ExpirationTrims DEF renew_attestation, update_expiration, Trim
  <2>4. CASE \E a \in Admins : transfer_attestation(a, id, i)
    BY <2>4, TransferTrims DEF Trim
  <2> QED
    BY <1>2, <2>1, <2>2, <2>3, <2>4
<1>3. ASSUME NEW i \in Issuers, NEW ids \in SUBSET DOMAIN attestations,
             revoke_attestations_batch(i, ids)
      PROVE  Trim
  BY <1>3, BatchTrims DEF Trim
<1>4. CASE Manage
  BY <1>2, <1>3, <1>4 DEF Manage, Trim
<1>5. CASE Delete
  BY <1>5, DeletionTrims DEF Delete, Trim
<1>6. CASE \/ RegistryNext /\ UNCHANGED <<ledgerVars, policyVars, endorsements>>
           \/ PolicyNext /\ UNCHANGED <<ledgerVars, registryVars, endorsements>>
  BY <1>0, <1>6 DEF ledgerVars, Trim
<1>7. CASE CloseLedger \/ UNCHANGED vars
  BY <1>0, <1>7 DEF CloseLedger, vars, ledgerVars, Trim
<1> QED
  BY <1>1, <1>4, <1>5, <1>6, <1>7 DEF Next, Trim

\* The chunked lists and the records: what keeps the listings complete.
SubjectChunksSound ==
    \A s \in Subjects :
       /\ \A id \in DOMAIN subjectChunks[s] :
             /\ subjectChunks[s][id] = 1
             /\ id \in DOMAIN attestations
             /\ attestations[id].subject = s
             /\ ~attestations[id].deleted
       /\ DOMAIN subjectIndex[s] \subseteq DOMAIN subjectChunks[s]

IssuerChunksSound ==
    \A o \in Owners :
       /\ \A id \in DOMAIN issuerChunks[o] : id \in DOMAIN attestations /\ id.issuer = o
       /\ \A id \in DOMAIN attestations :
             id.issuer = o /\ ~attestations[id].revoked => id \in DOMAIN issuerChunks[o]

ChunksSound == SubjectChunksSound /\ IssuerChunksSound

\* Issuing pushes the new ids to the bags.
LEMMA StoredBags ==
    ASSUME TypeOK, NEW owner, NEW new, NEW actor, NEW timestamp,
           Stored(owner, new, actor, timestamp)
    PROVE  /\ Added(owner, new) /\ owner \in Owners
           /\ \A id \in DOMAIN new : new[id].subject = id.subject
           /\ \A s \in Subjects :
                 LET about == {id \in DOMAIN new : new[id].subject = s}
                 IN  /\ subjectIndex'[s] = Push(subjectIndex[s], about)
                     /\ subjectChunks'[s] = Push(subjectChunks[s], about)
           /\ \A o \in Owners :
                 issuerChunks'[o] = IF o = owner THEN Push(issuerChunks[o], DOMAIN new)
                                                 ELSE issuerChunks[o]
<1>1. Added(owner, new)
  BY StoredRecords
<1>2. /\ owner \in Owners
      /\ \A id \in DOMAIN new : new[id].subject = id.subject
      /\ store_attestations(owner, new)
  BY DEF Stored
<1>3. DOMAIN issuerChunks = Owners
  BY DEF TypeOK, LedgerTypeOK, IsIndex
<1> QED
  BY <1>1, <1>2, <1>3 DEF store_attestations

\* Every step keeps the bags of the chunked lists sound.
LEMMA NextChunksSound ==
    ASSUME TypeOK, IndexInv, IndexInv', ChunksSound, [Next]_vars
    PROVE  ChunksSound'
<1>1. ASSUME NEW owner, NEW new, NEW actor, NEW timestamp,
             Stored(owner, new, actor, timestamp)
      PROVE  ChunksSound'
  <2>1. /\ Added(owner, new) /\ owner \in Owners
        /\ \A id \in DOMAIN new : new[id].subject = id.subject
    BY <1>1, StoredBags
  <2>2. ASSUME NEW s \in Subjects
        PROVE  /\ \A id \in DOMAIN subjectChunks'[s] :
                     /\ subjectChunks'[s][id] = 1
                     /\ id \in DOMAIN attestations'
                     /\ attestations'[id].subject = s
                     /\ ~attestations'[id].deleted
               /\ DOMAIN subjectIndex'[s] \subseteq DOMAIN subjectChunks'[s]
    <3> DEFINE about == {id \in DOMAIN new : new[id].subject = s}
    <3>1. /\ subjectIndex'[s] = Push(subjectIndex[s], about)
          /\ subjectChunks'[s] = Push(subjectChunks[s], about)
      BY <1>1, StoredBags, SMTT(30)
    <3>2. /\ \A id \in DOMAIN subjectChunks[s] :
                /\ subjectChunks[s][id] = 1
                /\ id \in DOMAIN attestations
                /\ attestations[id].subject = s
                /\ ~attestations[id].deleted
          /\ DOMAIN subjectIndex[s] \subseteq DOMAIN subjectChunks[s]
      BY DEF ChunksSound, SubjectChunksSound
    <3>3. about \cap DOMAIN subjectChunks[s] = {}
      BY <2>1, <3>2 DEF Added
    <3>4. /\ DOMAIN subjectIndex'[s] = DOMAIN subjectIndex[s] \cup about
          /\ DOMAIN subjectChunks'[s] = DOMAIN subjectChunks[s] \cup about
      BY <3>1, PushDomain
    <3>5. \A id \in DOMAIN subjectChunks'[s] : subjectChunks'[s][id] = 1
      BY <3>1, <3>2, <3>3, <3>4, PushCount
    <3>6. \A id \in about : /\ id \in DOMAIN attestations' /\ attestations'[id].subject = s
                            /\ ~attestations'[id].deleted
      BY <2>1 DEF Added
    <3>7. \A id \in DOMAIN subjectChunks[s] :
             /\ id \in DOMAIN attestations' /\ attestations'[id].subject = s
             /\ ~attestations'[id].deleted
      BY <2>1, <3>2 DEF Added
    <3> QED
      BY <3>2, <3>4, <3>5, <3>6, <3>7
  <2>3. ASSUME NEW o \in Owners
        PROVE  /\ \A id \in DOMAIN issuerChunks'[o] :
                     id \in DOMAIN attestations' /\ id.issuer = o
               /\ \A id \in DOMAIN attestations' :
                     id.issuer = o /\ ~attestations'[id].revoked
                        => id \in DOMAIN issuerChunks'[o]
    <3>1. DOMAIN issuerChunks'[o] = IF o = owner THEN DOMAIN issuerChunks[o] \cup DOMAIN new
                                                 ELSE DOMAIN issuerChunks[o]
      <4>1. issuerChunks'[o] = IF o = owner THEN Push(issuerChunks[o], DOMAIN new)
                                            ELSE issuerChunks[o]
        BY <1>1, StoredBags
      <4>2. CASE o = owner
        BY <4>1, <4>2, PushDomain
      <4>3. CASE o # owner
        BY <4>1, <4>3
      <4> QED
        BY <4>2, <4>3
    <3>2. /\ \A id \in DOMAIN issuerChunks[o] : id \in DOMAIN attestations /\ id.issuer = o
          /\ \A id \in DOMAIN attestations :
                id.issuer = o /\ ~attestations[id].revoked => id \in DOMAIN issuerChunks[o]
      BY DEF ChunksSound, IssuerChunksSound
    <3> QED
      BY <2>1, <3>1, <3>2 DEF Added
  <2> QED
    BY <2>2, <2>3 DEF ChunksSound, SubjectChunksSound, IssuerChunksSound
<1>2. ASSUME NEW gone, NEW revoked, TrimStep(gone, revoked) PROVE ChunksSound'
  <2>1. /\ DOMAIN attestations' = DOMAIN attestations
        /\ \A id \in DOMAIN attestations :
              /\ attestations'[id].subject = attestations[id].subject
              /\ attestations[id].revoked => attestations'[id].revoked
              /\ attestations[id].deleted => attestations'[id].deleted
              /\ attestations'[id].deleted => attestations[id].deleted \/ id \in gone
        /\ \A id \in gone : /\ id \in DOMAIN attestations
                            /\ attestations'[id].revoked \/ attestations'[id].deleted
        /\ \A id \in revoked : id \in DOMAIN attestations /\ attestations'[id].revoked
    BY <1>2 DEF TrimStep
  <2>2. ASSUME NEW s \in Subjects
        PROVE  /\ \A id \in DOMAIN subjectChunks'[s] :
                     /\ subjectChunks'[s][id] = 1
                     /\ id \in DOMAIN attestations'
                     /\ attestations'[id].subject = s
                     /\ ~attestations'[id].deleted
               /\ DOMAIN subjectIndex'[s] \subseteq DOMAIN subjectChunks'[s]
    <3>1. Trims(subjectChunks[s], subjectChunks'[s], About(s, gone))
      BY <1>2 DEF TrimStep
    <3>2. /\ \A id \in DOMAIN subjectChunks[s] :
                /\ subjectChunks[s][id] = 1
                /\ id \in DOMAIN attestations
                /\ attestations[id].subject = s
                /\ ~attestations[id].deleted
          /\ DOMAIN subjectIndex[s] \subseteq DOMAIN subjectChunks[s]
      BY DEF ChunksSound, SubjectChunksSound
    <3>3. \A id : id \in DOMAIN subjectIndex'[s] <=>
                     /\ id \in DOMAIN attestations' /\ attestations'[id].subject = s
                     /\ ~attestations'[id].revoked /\ ~attestations'[id].deleted
      BY DEF IndexInv, SubjectIndexExact
    <3>4. \A id : id \in DOMAIN subjectIndex[s] <=>
                     /\ id \in DOMAIN attestations /\ attestations[id].subject = s
                     /\ ~attestations[id].revoked /\ ~attestations[id].deleted
      BY DEF IndexInv, SubjectIndexExact
    <3>5. \A id \in DOMAIN subjectIndex'[s] : id \in DOMAIN subjectChunks[s] /\ id \notin gone
      BY <2>1, <3>2, <3>3, <3>4
    <3>6. DOMAIN subjectIndex'[s] \subseteq DOMAIN subjectChunks'[s]
      BY <3>1, <3>5 DEF Trims, About
    <3>7. ASSUME NEW id \in DOMAIN subjectChunks'[s]
          PROVE  /\ subjectChunks'[s][id] = 1
                 /\ id \in DOMAIN attestations'
                 /\ attestations'[id].subject = s
                 /\ ~attestations'[id].deleted
      <4>1. /\ id \in DOMAIN subjectChunks[s] /\ subjectChunks'[s][id] = subjectChunks[s][id]
            /\ id \notin About(s, gone)
        BY <3>1 DEF Trims
      <4>2. id \notin gone
        BY <3>2, <4>1 DEF About
      <4> QED
        BY <2>1, <3>2, <4>1, <4>2
    <3> QED
      BY <3>6, <3>7
  <2>3. ASSUME NEW o \in Owners
        PROVE  /\ \A id \in DOMAIN issuerChunks'[o] :
                     id \in DOMAIN attestations' /\ id.issuer = o
               /\ \A id \in DOMAIN attestations' :
                     id.issuer = o /\ ~attestations'[id].revoked
                        => id \in DOMAIN issuerChunks'[o]
    <3>1. PICK g \in SUBSET revoked : Trims(issuerChunks[o], issuerChunks'[o], g)
      BY <1>2 DEF TrimStep
    <3>2. /\ \A id \in DOMAIN issuerChunks[o] : id \in DOMAIN attestations /\ id.issuer = o
          /\ \A id \in DOMAIN attestations :
                id.issuer = o /\ ~attestations[id].revoked => id \in DOMAIN issuerChunks[o]
      BY DEF ChunksSound, IssuerChunksSound
    <3> QED
      BY <2>1, <3>1, <3>2 DEF Trims
  <2> QED
    BY <2>2, <2>3 DEF ChunksSound, SubjectChunksSound, IssuerChunksSound
<1> QED
  BY <1>1, <1>2, StoreOrTrim

\* They are sound when they are empty.
LEMMA InitChunksSound == Init => ChunksSound
<1> SUFFICES ASSUME Init PROVE ChunksSound
  OBVIOUS
<1>1. /\ attestations = [id \in {} |-> None]
      /\ \A s \in Subjects : subjectIndex[s] = EmptyBag /\ subjectChunks[s] = EmptyBag
      /\ \A o \in Owners : issuerChunks[o] = EmptyBag
  BY DEF Init, LedgerInit, EmptyIndex
<1>2. DOMAIN EmptyBag = {}
  BY DEF EmptyBag, SetToBag
<1> QED
  BY <1>1, <1>2 DEF ChunksSound, SubjectChunksSound, IssuerChunksSound

-----------------------------------------------------------------------------
(* Lists of distinct ids                                                   *)

\* A list of the members of a set, each once.
IsListOf(list, ids) == list \in Seq(ids) /\ IsInjective(list) /\ ToSet(list) = ids

\* An order of a finite set lists it.
LEMMA OrderLists ==
    ASSUME NEW T, IsFiniteSet(T), NEW order \in SetToSeqs(T)
    PROVE  IsListOf(order, T)
<1> DEFINE n == Cardinality(T)
<1>1. n \in Nat
  BY FS_CardinalityType
<1>2. order \in [1..n -> T] /\ \A i, j \in 1..n : i # j => order[i] # order[j]
  BY DEF SetToSeqs
<1>3. order \in Injection(1..n, T)
  BY <1>2 DEF Injection, IsInjective
<1>4. IsFiniteSet(1..n) /\ Cardinality(1..n) = n
  <2> HIDE DEF n
  <2>1. IsFiniteSet(1..n) /\ Cardinality(1..n) = IF 1 > n THEN 0 ELSE n - 1 + 1
    BY <1>1, FS_Interval, 1 \in Int, n \in Int
  <2> QED
    BY <1>1, <2>1
<1>5. order \in Surjection(1..n, T)
  BY <1>3, <1>4, FS_Injection
<1>6. ToSet(order) = T
  BY <1>2, <1>5 DEF ToSet, Surjection
<1> HIDE DEF n
<1>7. order \in Seq(T)
  BY <1>1, <1>2
<1> QED
  BY <1>2, <1>6, <1>7 DEF IsListOf, IsInjective

\* A list of distinct ids, entry by entry.
LEMMA ListsTyped ==
    ASSUME NEW list, NEW ids, IsListOf(list, ids)
    PROVE  /\ list \in Seq(ids) /\ Len(list) \in Nat /\ DOMAIN list = 1..Len(list)
           /\ \A S : ids \subseteq S => list \in Seq(S)
           /\ \A i \in 1..Len(list) : list[i] \in ids
           /\ \A i, k \in 1..Len(list) : list[i] = list[k] => i = k
           /\ \A x \in ids : \E i \in 1..Len(list) : list[i] = x
<1>1. list \in Seq(ids) /\ IsInjective(list) /\ ToSet(list) = ids
  BY DEF IsListOf
<1>2. Len(list) \in Nat /\ DOMAIN list = 1..Len(list) /\ \A i \in 1..Len(list) : list[i] \in ids
  BY <1>1
<1>3. \A S : ids \subseteq S => list \in Seq(S)
  BY <1>1
<1> QED
  BY <1>1, <1>2, <1>3 DEF IsInjective, ToSet

\* A part of a list, in its order.
LEMMA ListsFiltered ==
    ASSUME NEW list, NEW ids, IsListOf(list, ids), NEW others
    PROVE  IsListOf(Filter(list, others), ids \cap others)
<1>1. list \in Seq(ids) /\ IsInjective(list) /\ ToSet(list) = ids
  BY DEF IsListOf
<1> QED
  BY <1>1, Filtered DEF IsListOf

\* One list after another that has nothing in common with it.
LEMMA ListsConcat ==
    ASSUME NEW s, NEW t, NEW ids, NEW more, IsListOf(s, ids), IsListOf(t, more), ids \cap more = {}
    PROVE  IsListOf(s \o t, ids \cup more)
<1> DEFINE all == ids \cup more
           st == s \o t
<1>1. /\ Len(s) \in Nat /\ s \in Seq(all)
      /\ \A i \in 1..Len(s) : s[i] \in ids
      /\ \A i, k \in 1..Len(s) : s[i] = s[k] => i = k
      /\ \A x \in ids : \E i \in 1..Len(s) : s[i] = x
  <2>1. ids \subseteq all
    OBVIOUS
  <2> HIDE DEF all
  <2> QED
    BY <2>1, ListsTyped
<1>2. /\ Len(t) \in Nat /\ t \in Seq(all)
      /\ \A i \in 1..Len(t) : t[i] \in more
      /\ \A i, k \in 1..Len(t) : t[i] = t[k] => i = k
      /\ \A x \in more : \E i \in 1..Len(t) : t[i] = x
  <2>1. more \subseteq all
    OBVIOUS
  <2> HIDE DEF all
  <2> QED
    BY <2>1, ListsTyped
<1>3. /\ st \in Seq(all) /\ Len(st) = Len(s) + Len(t) /\ DOMAIN st = 1..Len(st)
      /\ \A i \in 1..Len(s) : st[i] = s[i]
      /\ \A i \in 1..Len(t) : st[Len(s) + i] = t[i]
  <2> HIDE DEF all
  <2> QED
    BY <1>1, <1>2
<1> HIDE DEF st
<1>4. \A i \in 1..Len(st) : \/ i \in 1..Len(s)
                            \/ i - Len(s) \in 1..Len(t) /\ Len(s) + (i - Len(s)) = i
  BY <1>1, <1>2, <1>3
<1>5. ASSUME NEW i \in 1..Len(st)
      PROVE  /\ i \in 1..Len(s) => st[i] = s[i] /\ st[i] \in ids
             /\ i \notin 1..Len(s) => /\ i - Len(s) \in 1..Len(t)
                                      /\ st[i] = t[i - Len(s)] /\ st[i] \in more
  <2>1. CASE i \in 1..Len(s)
    BY <1>1, <1>3, <2>1
  <2>2. CASE i \notin 1..Len(s)
    <3>1. i - Len(s) \in 1..Len(t) /\ Len(s) + (i - Len(s)) = i
      BY <1>4, <2>2
    <3>2. st[Len(s) + (i - Len(s))] = t[i - Len(s)]
      BY <1>3, <3>1
    <3> QED
      BY <1>2, <2>2, <3>1, <3>2
  <2> QED
    BY <2>1, <2>2
<1>6. ASSUME NEW i \in 1..Len(st), NEW k \in 1..Len(st), st[i] = st[k] PROVE i = k
  <2>1. CASE i \in 1..Len(s) /\ k \in 1..Len(s)
    BY <1>1, <1>5, <1>6, <2>1
  <2>2. CASE i \notin 1..Len(s) /\ k \notin 1..Len(s)
    <3>1. i - Len(s) = k - Len(s)
      BY <1>2, <1>5, <1>6, <2>2
    <3> QED
      BY <1>1, <3>1
  <2>3. CASE ~(i \in 1..Len(s) <=> k \in 1..Len(s))
    BY <1>5, <1>6, <2>3
  <2> QED
    BY <2>1, <2>2, <2>3
<1>7. \A x \in ToSet(st) : x \in all
  BY <1>3, <1>5 DEF ToSet
<1>8. ASSUME NEW x \in all PROVE x \in ToSet(st)
  <2>1. \A i \in 1..Len(s) : i \in 1..Len(st)
    BY <1>1, <1>2, <1>3
  <2>2. \A i \in 1..Len(t) : Len(s) + i \in 1..Len(st)
    BY <1>1, <1>2, <1>3
  <2>3. CASE x \in ids
    <3>1. PICK i \in 1..Len(s) : s[i] = x
      BY <1>1, <2>3
    <3> QED
      BY <1>3, <2>1, <3>1 DEF ToSet
  <2>4. CASE x \in more
    <3>1. PICK i \in 1..Len(t) : t[i] = x
      BY <1>2, <2>4
    <3> QED
      BY <1>3, <2>2, <3>1 DEF ToSet
  <2> QED
    BY <2>3, <2>4
<1> QED
  BY <1>3, <1>6, <1>7, <1>8 DEF IsListOf, IsInjective, st

-----------------------------------------------------------------------------
(* The lists follow the bags                                               *)

\* New ids come to a bag and none leave it, or some leave and none come.
Follows(old, new, added) ==
    /\ added \cap DOMAIN old = {}
    /\ added \subseteq DOMAIN new
    /\ DOMAIN new \subseteq DOMAIN old \cup added
    /\ added = {} \/ DOMAIN old \subseteq DOMAIN new

\* A chunked list holds the ids of its bag.
StoreHolds(store, bag) ==
    LET ids == get_ids(store) IN IsListOf(ids, DOMAIN bag) /\ store = Chunks(ids)

\* What IdList allows a listing to do.
ListMoves(old, new) ==
    \/ new = old
    \/ IsStrictPrefix(old, new) /\ IsInjective(new)
    \/ \E kept \in SUBSET ToSet(old) : new = Filter(old, kept)

\* Ids that are new may be appended.
LEMMA ListGrows ==
    ASSUME NEW ids, NEW more, NEW s, NEW t, IsListOf(s, ids), IsListOf(t, more),
           ids \cap more = {}, t # <<>>
    PROVE  ListMoves(s, s \o t)
<1> DEFINE all == ids \cup more
           st == s \o t
<1>1. /\ s \in Seq(all) /\ Len(s) \in Nat /\ t \in Seq(all) /\ Len(t) \in Nat
  <2>1. ids \subseteq all /\ more \subseteq all
    OBVIOUS
  <2> HIDE DEF all
  <2> QED
    BY <2>1, ListsTyped
<1> HIDE DEF all
<1>2. /\ st \in Seq(all) /\ Len(st) = Len(s) + Len(t) /\ Len(t) > 0
      /\ \A i \in 1..Len(s) : st[i] = s[i]
  BY <1>1
<1> HIDE DEF st
<1>3. /\ SubSeq(st, 0 + 1, Len(s)) \in Seq(all) /\ Len(SubSeq(st, 0 + 1, Len(s))) = Len(s) - 0
      /\ \A i \in 1..(Len(s) - 0) : SubSeq(st, 0 + 1, Len(s))[i] = st[0 + i]
  BY <1>1, <1>2, Stretch, 0 \in Nat
<1>4. SubSeq(st, 1, Len(s)) = s
  <2>1. \A i \in 1..Len(s) : SubSeq(st, 1, Len(s))[i] = s[i]
    BY <1>1, <1>2, <1>3
  <2> QED
    BY <1>1, <1>3, <2>1, SameLists
<1>5. SubSeq(s, 1, Len(s)) = s
  BY <1>1
<1>6. st # s /\ Len(s) <= Len(st)
  BY <1>1, <1>2
<1>7. IsInjective(st)
  BY ListsConcat DEF IsListOf, st
<1> QED
  BY <1>4, <1>5, <1>6, <1>7 DEF ListMoves, IsStrictPrefix, IsPrefix, st

\* One chunked list through one step.
LEMMA StoreFollows ==
    ASSUME NEW store, NEW old, NEW new, NEW added, NEW order,
           StoreHolds(store, old), IsListOf(order, added), Follows(old, new, added)
    PROVE  /\ StoreHolds(UpdateStore(store, old, new, order), new)
           /\ ListMoves(get_ids(store), get_ids(UpdateStore(store, old, new, order)))
<1> DEFINE ids == get_ids(store)
           left == Leaving(old, new)
           next == UpdateStore(store, old, new, order)
<1>1. /\ IsListOf(ids, DOMAIN old) /\ store = Chunks(ids)
      /\ ids \in Seq(DOMAIN old) /\ ToSet(ids) = DOMAIN old
  BY DEF StoreHolds, IsListOf
<1>2. left = DOMAIN old \ DOMAIN new
  BY DEF Leaving
<1> HIDE DEF ids, left
<1>3. CASE left # {}
  <2>1. DOMAIN new = DOMAIN old \ left
    BY <1>2, <1>3 DEF Follows
  <2>2. next = remove(store, left)
    BY <1>3 DEF UpdateStore, left
  <2> DEFINE kept == ToSet(ids) \ left
  <2>3. next = Chunks(Filter(ids, kept))
    BY <1>1, <2>2, ChunksRemove
  <2>4. Filter(ids, kept) \in Seq(DOMAIN old)
    BY <1>1, Filtered
  <2>5. get_ids(next) = Filter(ids, kept)
    BY <2>3, <2>4, ChunksRead
  <2>6. IsListOf(Filter(ids, kept), DOMAIN old \cap kept)
    BY <1>1, ListsFiltered
  <2>7. DOMAIN old \cap kept = DOMAIN new /\ kept \in SUBSET ToSet(ids)
    BY <1>1, <2>1
  <2> HIDE DEF next, kept
  <2> QED
    BY <2>3, <2>5, <2>6, <2>7 DEF StoreHolds, ListMoves, ids, next
<1>4. CASE left = {} /\ order # <<>>
  <2>1. DOMAIN new = DOMAIN old \cup added /\ DOMAIN old \cap added = {}
    BY <1>2, <1>4 DEF Follows
  <2>2. next = add_bulk(store, order)
    BY <1>4 DEF UpdateStore, left
  <2>3. ids \in Seq(DOMAIN new) /\ order \in Seq(DOMAIN new)
    BY <1>1, <2>1, ListsTyped
  <2>4. next = Chunks(ids \o order)
    BY <1>1, <2>2, <2>3, ChunksAdd
  <2>5. get_ids(next) = ids \o order
    <3>1. ids \o order \in Seq(DOMAIN new)
      BY <2>3
    <3> QED
      BY <2>4, <3>1, ChunksRead
  <2>6. IsListOf(ids \o order, DOMAIN new)
    BY <1>1, <2>1, ListsConcat
  <2>7. ListMoves(ids, ids \o order)
    BY <1>1, <1>4, <2>1, ListGrows
  <2> HIDE DEF next
  <2> QED
    BY <2>4, <2>5, <2>6, <2>7 DEF StoreHolds, ids, next
<1>5. CASE left = {} /\ order = <<>>
  <2>1. added = {}
    BY <1>5, ListsTyped
  <2>2. DOMAIN new = DOMAIN old
    BY <1>2, <1>5, <2>1 DEF Follows
  <2>3. next = store
    BY <1>5 DEF UpdateStore, left
  <2> QED
    BY <1>1, <2>2, <2>3 DEF StoreHolds, ListMoves, ids
<1> QED
  BY <1>3, <1>4, <1>5 DEF ids

\* One flat list through one step.
LEMMA ListFollows ==
    ASSUME NEW all, NEW held, NEW old, NEW new, NEW added, NEW order,
           IsListOf(all, held), DOMAIN old \subseteq held, held \cap added = {},
           IsListOf(order, added), Follows(old, new, added)
    PROVE  UpdateList(Filter(all, DOMAIN old), old, new, order)
              = Filter(all \o order, DOMAIN new)
<1> DEFINE S == held \cup added
           list == Filter(all, DOMAIN old)
           left == Leaving(old, new)
<1>1. /\ all \in Seq(held) /\ ToSet(all) = held /\ order \in Seq(added) /\ ToSet(order) = added
      /\ all \in Seq(S) /\ order \in Seq(S)
  <2>1. held \subseteq S /\ added \subseteq S
    OBVIOUS
  <2> HIDE DEF S
  <2> QED
    BY <2>1, ListsTyped DEF IsListOf
<1>2. ToSet(list) = DOMAIN old
  <2>0. all \in Seq(held)
    BY <1>1
  <2>1. ToSet(list) = ToSet(all) \cap DOMAIN old
    BY <2>0, Filtered, ZenonT(60)
  <2> HIDE DEF list
  <2> QED
    BY <1>1, <2>1
<1>3. Filter(list, ToSet(list) \ left) = Filter(all, DOMAIN old \cap (ToSet(list) \ left))
  BY <1>1, FilterTwice
<1>4. Filter(all, DOMAIN old \cap (ToSet(list) \ left)) = Filter(all, DOMAIN new)
  <2>1. ToSet(all) \cap (DOMAIN old \cap (ToSet(list) \ left)) = ToSet(all) \cap DOMAIN new
    BY <1>1, <1>2 DEF Follows, Leaving
  <2> HIDE DEF list, left
  <2> QED
    BY <1>1, <2>1, FilterSame
<1>5. Filter(order, DOMAIN new) = order
  BY <1>1, FilterAll DEF Follows
<1>6. Filter(all \o order, DOMAIN new) = Filter(all, DOMAIN new) \o Filter(order, DOMAIN new)
  BY <1>1, FilterConcat
<1> QED
  BY <1>3, <1>4, <1>5, <1>6 DEF UpdateList

-----------------------------------------------------------------------------
(* The list invariant                                                      *)

AboutIds(s) == {id \in DOMAIN attestations : attestations[id].subject = s}

NewAbout(s) == {id \in DOMAIN attestations' \ DOMAIN attestations : attestations'[id].subject = s}

NewIssued(o) == {id \in DOMAIN attestations' \ DOMAIN attestations : attestations'[id].issuer = o}

\* The bags change as the lists can follow.
LEMMA BagsFollow ==
    ASSUME TypeOK, IndexInv, IndexInv', ChunksSound, [Next]_vars
    PROVE  /\ \A s \in Subjects :
                 /\ AboutIds(s)' = AboutIds(s) \cup NewAbout(s)
                 /\ Follows(subjectIndex[s], subjectIndex'[s], NewAbout(s))
                 /\ Follows(subjectChunks[s], subjectChunks'[s], NewAbout(s))
           /\ \A o \in Owners : Follows(issuerChunks[o], issuerChunks'[o], NewIssued(o))
<1>1. ASSUME NEW owner, NEW new, NEW actor, NEW timestamp,
             Stored(owner, new, actor, timestamp)
      PROVE  /\ \A s \in Subjects :
                   /\ AboutIds(s)' = AboutIds(s) \cup NewAbout(s)
                   /\ Follows(subjectIndex[s], subjectIndex'[s], NewAbout(s))
                   /\ Follows(subjectChunks[s], subjectChunks'[s], NewAbout(s))
             /\ \A o \in Owners : Follows(issuerChunks[o], issuerChunks'[o], NewIssued(o))
  <2>1. Added(owner, new) /\ owner \in Owners
    BY <1>1, StoredBags
  <2>2. /\ DOMAIN attestations' \ DOMAIN attestations = DOMAIN new
        /\ \A id \in DOMAIN new : attestations'[id] = new[id] /\ new[id].issuer = owner
        /\ \A id \in DOMAIN attestations : attestations'[id] = attestations[id]
        /\ DOMAIN attestations' = DOMAIN attestations \cup DOMAIN new
    BY <1>1, <2>1 DEF Added, Stored
  <2>3. ASSUME NEW s \in Subjects
        PROVE  /\ AboutIds(s)' = AboutIds(s) \cup NewAbout(s)
               /\ Follows(subjectIndex[s], subjectIndex'[s], NewAbout(s))
               /\ Follows(subjectChunks[s], subjectChunks'[s], NewAbout(s))
    <3> DEFINE about == {id \in DOMAIN new : new[id].subject = s}
    <3>1. NewAbout(s) = about
      BY <2>2 DEF NewAbout
    <3>2. /\ subjectIndex'[s] = Push(subjectIndex[s], about)
          /\ subjectChunks'[s] = Push(subjectChunks[s], about)
      BY <1>1, StoredBags
    <3>3. /\ DOMAIN subjectIndex'[s] = DOMAIN subjectIndex[s] \cup about
          /\ DOMAIN subjectChunks'[s] = DOMAIN subjectChunks[s] \cup about
      BY <3>2, PushDomain
    <3>4. /\ DOMAIN subjectIndex[s] \subseteq DOMAIN attestations
          /\ DOMAIN subjectChunks[s] \subseteq DOMAIN attestations
      BY DEF ChunksSound, SubjectChunksSound, IndexInv, SubjectIndexExact
    <3>5. about \cap DOMAIN attestations = {}
      BY <2>2
    <3>6. AboutIds(s)' = AboutIds(s) \cup about
      BY <2>2 DEF AboutIds
    <3> QED
      BY <3>1, <3>3, <3>4, <3>5, <3>6 DEF Follows
  <2>4. ASSUME NEW o \in Owners
        PROVE  Follows(issuerChunks[o], issuerChunks'[o], NewIssued(o))
    <3>1. NewIssued(o) = IF o = owner THEN DOMAIN new ELSE {}
      BY <2>2 DEF NewIssued
    <3>2. DOMAIN issuerChunks[o] \subseteq DOMAIN attestations
      BY DEF ChunksSound, IssuerChunksSound
    <3>3. DOMAIN new \cap DOMAIN issuerChunks[o] = {}
      BY <2>2, <3>2
    <3>4. issuerChunks'[o] = IF o = owner THEN Push(issuerChunks[o], DOMAIN new)
                                          ELSE issuerChunks[o]
      BY <1>1, StoredBags
    <3>5. CASE o = owner
      <4>1. DOMAIN issuerChunks'[o] = DOMAIN issuerChunks[o] \cup DOMAIN new
        BY <3>4, <3>5, PushDomain
      <4>2. NewIssued(o) = DOMAIN new
        BY <3>1, <3>5
      <4> QED
        BY <3>3, <4>1, <4>2 DEF Follows
    <3>6. CASE o # owner
      BY <3>1, <3>4, <3>6 DEF Follows
    <3> QED
      BY <3>5, <3>6
  <2> QED
    BY <2>3, <2>4
<1>2. ASSUME NEW gone, NEW revoked, TrimStep(gone, revoked)
      PROVE  /\ \A s \in Subjects :
                   /\ AboutIds(s)' = AboutIds(s) \cup NewAbout(s)
                   /\ Follows(subjectIndex[s], subjectIndex'[s], NewAbout(s))
                   /\ Follows(subjectChunks[s], subjectChunks'[s], NewAbout(s))
             /\ \A o \in Owners : Follows(issuerChunks[o], issuerChunks'[o], NewIssued(o))
  <2>1. /\ DOMAIN attestations' = DOMAIN attestations
        /\ \A id \in DOMAIN attestations :
              /\ attestations'[id].subject = attestations[id].subject
              /\ attestations[id].revoked => attestations'[id].revoked
              /\ attestations[id].deleted => attestations'[id].deleted
    BY <1>2 DEF TrimStep
  <2>2. ASSUME NEW s \in Subjects
        PROVE  /\ AboutIds(s)' = AboutIds(s) \cup NewAbout(s)
               /\ Follows(subjectIndex[s], subjectIndex'[s], NewAbout(s))
               /\ Follows(subjectChunks[s], subjectChunks'[s], NewAbout(s))
    <3>1. NewAbout(s) = {} /\ AboutIds(s)' = AboutIds(s)
      BY <2>1 DEF NewAbout, AboutIds
    <3>2. Trims(subjectChunks[s], subjectChunks'[s], About(s, gone))
      BY <1>2 DEF TrimStep
    <3>3. \A id : id \in DOMAIN subjectIndex'[s] <=>
                     /\ id \in DOMAIN attestations' /\ attestations'[id].subject = s
                     /\ ~attestations'[id].revoked /\ ~attestations'[id].deleted
      BY DEF IndexInv, SubjectIndexExact
    <3>4. \A id : id \in DOMAIN subjectIndex[s] <=>
                     /\ id \in DOMAIN attestations /\ attestations[id].subject = s
                     /\ ~attestations[id].revoked /\ ~attestations[id].deleted
      BY DEF IndexInv, SubjectIndexExact
    <3>5. DOMAIN subjectIndex'[s] \subseteq DOMAIN subjectIndex[s]
      BY <2>1, <3>3, <3>4
    <3> QED
      BY <3>1, <3>2, <3>5 DEF Follows, Trims
  <2>3. ASSUME NEW o \in Owners
        PROVE  Follows(issuerChunks[o], issuerChunks'[o], NewIssued(o))
    <3>1. NewIssued(o) = {}
      BY <2>1 DEF NewIssued
    <3>2. PICK g \in SUBSET revoked : Trims(issuerChunks[o], issuerChunks'[o], g)
      BY <1>2 DEF TrimStep
    <3> QED
      BY <3>1, <3>2 DEF Follows, Trims
  <2> QED
    BY <2>2, <2>3
<1> QED
  BY <1>1, <1>2, StoreOrTrim

\* What the lists hold: the history of a subject is all the attestations about
\* it, its flat list is the part of it the flat bag holds, in the same order,
\* and the chunks are those of a list of the ids in their bag.
ListInv ==
    /\ DOMAIN subjectList = Subjects /\ DOMAIN inserted = Subjects
    /\ DOMAIN subjectStore = Subjects /\ DOMAIN issuerStore = Owners
    /\ \A s \in Subjects :
          /\ IsListOf(inserted[s], AboutIds(s))
          /\ subjectList[s] = Filter(inserted[s], DOMAIN subjectIndex[s])
          /\ StoreHolds(subjectStore[s], subjectChunks[s])
    /\ \A o \in Owners : StoreHolds(issuerStore[o], issuerChunks[o])

\* Every chunked list moves as IdList allows.
ListsMove ==
    /\ \A s \in Subjects : ListMoves(get_ids(subjectStore[s]), get_ids(subjectStore'[s]))
    /\ \A o \in Owners : ListMoves(get_ids(issuerStore[o]), get_ids(issuerStore'[o]))

\* The empty list has no chunks ...
LEMMA EmptyChunks == [k \in {} |-> <<>>] = Chunks(<<>>)
<1>1. <<>> \in Seq({}) /\ Len(<<>>) = 0
  OBVIOUS
<1>2. ChunkCount(<<>>) \in Nat /\ DOMAIN Chunks(<<>>) = 0..(ChunkCount(<<>>) - 1)
  BY <1>1, ChunkDomain
<1>3. ChunkCount(<<>>) = 0
  <2>1. \A k \in 0..(ChunkCount(<<>>) - 1) : k * ChunkSize < Len(<<>>)
    BY <1>1, ChunksTaken
  <2>2. CASE ChunkCount(<<>>) > 0
    <3>1. 0 \in 0..(ChunkCount(<<>>) - 1)
      BY <1>2, <2>2
    <3>2. 0 * ChunkSize < 0
      BY <1>1, <2>1, <3>1
    <3> QED
      BY <3>2, ChunkAssumption
  <2> QED
    BY <1>2, <2>2
<1>4. DOMAIN Chunks(<<>>) = {}
  BY <1>2, <1>3
<1>5. Chunks(<<>>) = [k \in {} |-> ChunkOf(<<>>, k)]
  BY <1>4, <1>3 DEF Chunks
<1> QED
  BY <1>4, <1>5

\* ... and a store without chunks holds the empty list ...
LEMMA EmptyReads == get_ids([k \in {} |-> <<>>]) = <<>>
<1> DEFINE store == [k \in {} |-> <<>>]
<1>1. store = Chunks(<<>>)
  BY EmptyChunks
<1>2. <<>> \in Seq({})
  OBVIOUS
<1> QED
  BY <1>1, <1>2, ChunksRead

\* ... that goes with an empty bag.
LEMMA EmptyStore ==
    ASSUME NEW bag, DOMAIN bag = {}
    PROVE  StoreHolds([k \in {} |-> <<>>], bag)
<1>1. [k \in {} |-> <<>>] = Chunks(<<>>)
  BY EmptyChunks
<1>2. <<>> \in Seq({}) /\ Len(<<>>) = 0
  OBVIOUS
<1>3. IsListOf(<<>>, {})
  BY <1>2 DEF IsListOf, IsInjective, ToSet
<1> QED
  BY <1>1, <1>3, EmptyReads DEF StoreHolds

\* At first all the lists are empty.
LEMMA InitLists == Init /\ ListsInit => ListInv
<1> SUFFICES ASSUME Init, ListsInit PROVE ListInv
  OBVIOUS
<1>1. /\ attestations = [id \in {} |-> None]
      /\ \A s \in Subjects : subjectIndex[s] = EmptyBag /\ subjectChunks[s] = EmptyBag
      /\ \A o \in Owners : issuerChunks[o] = EmptyBag
  BY DEF Init, LedgerInit, EmptyIndex
<1>2. DOMAIN EmptyBag = {}
  BY DEF EmptyBag, SetToBag
<1>3. \A s \in Subjects : StoreHolds(subjectStore[s], subjectChunks[s])
  BY <1>1, <1>2, EmptyStore DEF ListsInit
<1>4. \A o \in Owners : StoreHolds(issuerStore[o], issuerChunks[o])
  BY <1>1, <1>2, EmptyStore DEF ListsInit
<1>5. ASSUME NEW s \in Subjects
      PROVE  /\ IsListOf(inserted[s], AboutIds(s))
             /\ subjectList[s] = Filter(inserted[s], DOMAIN subjectIndex[s])
  <2>1. inserted[s] = <<>> /\ subjectList[s] = <<>> /\ AboutIds(s) = {}
    BY <1>1 DEF ListsInit, AboutIds
  <2>2. <<>> \in Seq({}) /\ ToSet(<<>>) = {}
    BY DEF ToSet
  <2>3. Filter(<<>>, DOMAIN subjectIndex[s]) = <<>>
    BY <2>2, FilterNone
  <2> QED
    BY <2>1, <2>2, <2>3 DEF IsListOf, IsInjective
<1> QED
  BY <1>3, <1>4, <1>5 DEF ListInv, ListsInit

\* Every step that the lists follow keeps them in agreement with the bags.
LEMMA NextLists ==
    ASSUME TypeOK, TypeOK', IndexInv, IndexInv', ChunksSound, ListInv, [Next]_vars, ListsFollow
    PROVE  ListInv' /\ ListsMove
<1> DEFINE T == DOMAIN attestations' \ DOMAIN attestations
<1>1. PICK order \in SetToSeqs(T) :
         LET about(s)  == Filter(order, {id \in DOMAIN attestations' : attestations'[id].subject = s})
             issued(o) == Filter(order, {id \in DOMAIN attestations' : attestations'[id].issuer = o})
         IN  /\ subjectList' = [s \in Subjects |->
                   UpdateList(subjectList[s], subjectIndex[s], subjectIndex'[s], about(s))]
             /\ inserted' = [s \in Subjects |-> inserted[s] \o about(s)]
             /\ subjectStore' = [s \in Subjects |->
                   UpdateStore(subjectStore[s], subjectChunks[s], subjectChunks'[s], about(s))]
             /\ issuerStore' = [o \in Owners |->
                   UpdateStore(issuerStore[o], issuerChunks[o], issuerChunks'[o], issued(o))]
  BY DEF ListsFollow
<1> DEFINE about(s)  == Filter(order, {id \in DOMAIN attestations' : attestations'[id].subject = s})
           issued(o) == Filter(order, {id \in DOMAIN attestations' : attestations'[id].issuer = o})
<1>2. IsListOf(order, T)
  <2>1. IsFiniteSet(T)
    BY FS_Difference, FS_Subset DEF TypeOK, LedgerTypeOK
  <2> QED
    BY <2>1, OrderLists
<1>3. \A s \in Subjects : IsListOf(about(s), NewAbout(s))
  <2> TAKE s \in Subjects
  <2>1. T \cap {id \in DOMAIN attestations' : attestations'[id].subject = s} = NewAbout(s)
    BY DEF NewAbout
  <2> QED
    BY <1>2, <2>1, ListsFiltered
<1>4. \A o \in Owners : IsListOf(issued(o), NewIssued(o))
  <2> TAKE o \in Owners
  <2>1. T \cap {id \in DOMAIN attestations' : attestations'[id].issuer = o} = NewIssued(o)
    BY DEF NewIssued
  <2> QED
    BY <1>2, <2>1, ListsFiltered
<1>5. /\ DOMAIN subjectList' = Subjects /\ DOMAIN inserted' = Subjects
      /\ DOMAIN subjectStore' = Subjects /\ DOMAIN issuerStore' = Owners
      /\ \A s \in Subjects :
            /\ subjectList'[s] = UpdateList(subjectList[s], subjectIndex[s], subjectIndex'[s], about(s))
            /\ inserted'[s] = inserted[s] \o about(s)
            /\ subjectStore'[s] = UpdateStore(subjectStore[s], subjectChunks[s], subjectChunks'[s], about(s))
      /\ \A o \in Owners :
            issuerStore'[o] = UpdateStore(issuerStore[o], issuerChunks[o], issuerChunks'[o], issued(o))
  BY <1>1
<1> HIDE DEF about, issued, T
<1>6. /\ \A s \in Subjects :
            /\ AboutIds(s)' = AboutIds(s) \cup NewAbout(s)
            /\ Follows(subjectIndex[s], subjectIndex'[s], NewAbout(s))
            /\ Follows(subjectChunks[s], subjectChunks'[s], NewAbout(s))
      /\ \A o \in Owners : Follows(issuerChunks[o], issuerChunks'[o], NewIssued(o))
  BY BagsFollow
<1>7. ASSUME NEW s \in Subjects
      PROVE  /\ IsListOf(inserted'[s], AboutIds(s)')
             /\ subjectList'[s] = Filter(inserted'[s], DOMAIN subjectIndex'[s])
             /\ StoreHolds(subjectStore'[s], subjectChunks'[s])
             /\ ListMoves(get_ids(subjectStore[s]), get_ids(subjectStore'[s]))
  <2>1. /\ IsListOf(inserted[s], AboutIds(s))
        /\ subjectList[s] = Filter(inserted[s], DOMAIN subjectIndex[s])
        /\ StoreHolds(subjectStore[s], subjectChunks[s])
    BY DEF ListInv
  <2>2. AboutIds(s) \cap NewAbout(s) = {}
    BY DEF AboutIds, NewAbout
  <2> DEFINE list == about(s)
  <2>a. /\ IsListOf(list, NewAbout(s)) /\ inserted'[s] = inserted[s] \o list
        /\ subjectList'[s] = UpdateList(subjectList[s], subjectIndex[s], subjectIndex'[s], list)
        /\ AboutIds(s)' = AboutIds(s) \cup NewAbout(s)
        /\ Follows(subjectIndex[s], subjectIndex'[s], NewAbout(s))
    BY <1>3, <1>5, <1>6
  <2> HIDE DEF list
  <2>3. IsListOf(inserted'[s], AboutIds(s)')
    <3>1. IsListOf(inserted[s] \o list, AboutIds(s) \cup NewAbout(s))
      BY <2>a, <2>1, <2>2, ListsConcat
    <3> QED
      BY <2>a, <3>1
  <2>4. DOMAIN subjectIndex[s] \subseteq AboutIds(s)
    BY DEF IndexInv, SubjectIndexExact, AboutIds
  <2>5. subjectList'[s] = Filter(inserted'[s], DOMAIN subjectIndex'[s])
    <3>1. UpdateList(Filter(inserted[s], DOMAIN subjectIndex[s]), subjectIndex[s], subjectIndex'[s], list)
             = Filter(inserted[s] \o list, DOMAIN subjectIndex'[s])
      BY <2>a, <2>1, <2>2, <2>4, ListFollows
    <3> QED
      BY <2>a, <2>1, <3>1
  <2>6. /\ StoreHolds(subjectStore'[s], subjectChunks'[s])
        /\ ListMoves(get_ids(subjectStore[s]), get_ids(subjectStore'[s]))
    BY <1>3, <1>5, <1>6, <2>1, StoreFollows
  <2> QED
    BY <2>3, <2>5, <2>6
<1>8. ASSUME NEW o \in Owners
      PROVE  /\ StoreHolds(issuerStore'[o], issuerChunks'[o])
             /\ ListMoves(get_ids(issuerStore[o]), get_ids(issuerStore'[o]))
  <2>1. StoreHolds(issuerStore[o], issuerChunks[o])
    BY DEF ListInv
  <2> QED
    BY <1>4, <1>5, <1>6, <2>1, StoreFollows
<1> QED
  BY <1>5, <1>7, <1>8 DEF ListInv, ListsMove

\* A step that writes no chunk moves no list.
LEMMA SameStoresMove == UNCHANGED <<subjectStore, issuerStore>> => ListsMove
  BY DEF ListsMove, ListMoves

\* All that holds of the lists and of the bags they follow.
ListingsInv == TypeOK /\ IndexInv /\ ChunksSound /\ ListInv

\* Each step of the contract with its lists keeps the invariant ...
LEMMA NextListings ==
    ListingsInv /\ [FeedNext]_feedVars => ListingsInv' /\ ListsMove
<1> SUFFICES ASSUME ListingsInv, [FeedNext]_feedVars PROVE ListingsInv' /\ ListsMove
  OBVIOUS
<1>1. CASE FeedNext
  <2>1. [Next]_vars
    BY <1>1, FeedStepsAreSteps DEF ListingsInv
  <2>2. TypeOK' /\ IndexInv'
    BY <2>1, NextTypeOK, NextIndexInv DEF ListingsInv
  <2>3. ChunksSound'
    BY <2>1, <2>2, NextChunksSound DEF ListingsInv
  <2>4. ListInv' /\ ListsMove
    BY <1>1, <2>1, <2>2, NextLists DEF ListingsInv, FeedNext
  <2> QED
    BY <2>2, <2>3, <2>4 DEF ListingsInv
<1>2. CASE UNCHANGED feedVars
  <2>1. [Next]_vars /\ UNCHANGED vars /\ UNCHANGED listVars
    BY <1>2 DEF feedVars
  <2>2. TypeOK' /\ IndexInv'
    BY <2>1, NextTypeOK, NextIndexInv DEF ListingsInv
  <2>3. ChunksSound'
    BY <2>1, <2>2, NextChunksSound DEF ListingsInv
  <2>4. UNCHANGED <<subjectList, inserted, subjectStore, issuerStore>>
    BY <2>1 DEF listVars
  <2>5. UNCHANGED <<attestations, subjectIndex, subjectChunks, issuerChunks>>
    BY <2>1 DEF vars, ledgerVars, indexVars
  <2>6. ListInv'
    <3>1. \A s \in Subjects : AboutIds(s)' = AboutIds(s)
      BY <2>5 DEF AboutIds
    <3> QED
      BY <2>4, <2>5, <3>1 DEF ListingsInv, ListInv
  <2> QED
    BY <2>2, <2>3, <2>4, <2>6, SameStoresMove DEF ListingsInv
<1> QED
  BY <1>1, <1>2

\* ... that holds at first ...
LEMMA InitListings == FeedInit => ListingsInv
<1> SUFFICES ASSUME FeedInit PROVE ListingsInv
  OBVIOUS
<1>1. Init /\ ListsInit
  BY DEF FeedInit
<1> QED
  BY <1>1, InitTypeOK, InitIndexInv, InitChunksSound, InitLists DEF ListingsInv

\* ... and so in every reachable state.
LEMMA ListingsInvariant == FeedSpec => []ListingsInv
<1>1. FeedInit => ListingsInv
  BY InitListings
<1>2. ListingsInv /\ [FeedNext]_feedVars => ListingsInv'
  BY NextListings
<1> QED
  BY <1>1, <1>2, PTL DEF FeedSpec

-----------------------------------------------------------------------------
(* The chunked lists implement the abstract ones                           *)

\* The abstract lists of the subjects filter as the concrete ones do.
LEMMA SubjectFilter ==
    \A list, ids : SubjectListings!Filter(list, ids) = Filter(list, ids)
BY Zenon DEF SubjectListings!Filter, SubjectListings!Positions, SubjectListings!Place,
             SubjectListings!Cardinality, Filter, Positions, Place, Cardinality

\* And so do those of the issuers.
LEMMA IssuerFilter ==
    \A list, ids : IssuerListings!Filter(list, ids) = Filter(list, ids)
BY Zenon DEF IssuerListings!Filter, IssuerListings!Positions, IssuerListings!Place,
             IssuerListings!Cardinality, Filter, Positions, Place, Cardinality

\* A move of a list is an addition or a removal of the abstract lists.
LEMMA SubjectMoves ==
    ASSUME NEW old, NEW new, ListMoves(old, new)
    PROVE  \/ new = old
           \/ SubjectListings!IsStrictPrefix(old, new) /\ SubjectListings!IsInjective(new)
           \/ \E kept \in SUBSET SubjectListings!ToSet(old) :
                 new = SubjectListings!Filter(old, kept)
BY SubjectFilter
   DEF ListMoves, IsStrictPrefix, IsPrefix, IsInjective, ToSet,
       SubjectListings!IsStrictPrefix, SubjectListings!IsPrefix,
       SubjectListings!IsInjective, SubjectListings!ToSet

\* The same for the lists of the issuers.
LEMMA IssuerMoves ==
    ASSUME NEW old, NEW new, ListMoves(old, new)
    PROVE  \/ new = old
           \/ IssuerListings!IsStrictPrefix(old, new) /\ IssuerListings!IsInjective(new)
           \/ \E kept \in SUBSET IssuerListings!ToSet(old) :
                 new = IssuerListings!Filter(old, kept)
BY IssuerFilter
   DEF ListMoves, IsStrictPrefix, IsPrefix, IsInjective, ToSet,
       IssuerListings!IsStrictPrefix, IssuerListings!IsPrefix,
       IssuerListings!IsInjective, IssuerListings!ToSet

\* write_chunks rewrites all the chunks of a subject or of an issuer on every
\* change, and yet ids are only ever added at the end and those that stay keep
\* their order: the chunked lists implement the abstract lists of IdList.
THEOREM ChunkedListsImplementIdList == FeedSpec => ImplementsIdList
<1>1. FeedInit => SubjectListings!Init /\ IssuerListings!Init
  <2> SUFFICES ASSUME FeedInit PROVE SubjectListings!Init /\ IssuerListings!Init
    OBVIOUS
  <2>1. ListsInit
    BY DEF FeedInit
  <2>2. ListingsInv
    BY InitListings
  <2>3. \A s \in Subjects : get_ids(subjectStore[s]) = <<>>
    <3> TAKE s \in Subjects
    <3>1. subjectStore[s] = [k \in {} |-> <<>>]
      BY <2>1 DEF ListsInit
    <3> QED
      BY <3>1, EmptyReads
  <2>4. \A o \in Owners : get_ids(issuerStore[o]) = <<>>
    <3> TAKE o \in Owners
    <3>1. issuerStore[o] = [k \in {} |-> <<>>]
      BY <2>1 DEF ListsInit
    <3> QED
      BY <3>1, EmptyReads
  <2> QED
    BY <2>3, <2>4 DEF SubjectListings!Init, IssuerListings!Init
<1>2. ListsMove => /\ [SubjectListings!Next]_([s \in Subjects |-> get_ids(subjectStore[s])])
                   /\ [IssuerListings!Next]_([o \in Owners |-> get_ids(issuerStore[o])])
  <2> SUFFICES ASSUME ListsMove PROVE SubjectListings!Next /\ IssuerListings!Next
    OBVIOUS
  <2>1. ASSUME NEW s \in Subjects
        PROVE  LET old == get_ids(subjectStore[s])
                   new == get_ids(subjectStore'[s])
               IN  \/ new = old
                   \/ SubjectListings!IsStrictPrefix(old, new) /\ SubjectListings!IsInjective(new)
                   \/ \E kept \in SUBSET SubjectListings!ToSet(old) :
                         new = SubjectListings!Filter(old, kept)
    BY SubjectMoves DEF ListsMove
  <2>2. ASSUME NEW o \in Owners
        PROVE  LET old == get_ids(issuerStore[o])
                   new == get_ids(issuerStore'[o])
               IN  \/ new = old
                   \/ IssuerListings!IsStrictPrefix(old, new) /\ IssuerListings!IsInjective(new)
                   \/ \E kept \in SUBSET IssuerListings!ToSet(old) :
                         new = IssuerListings!Filter(old, kept)
    BY IssuerMoves DEF ListsMove
  <2>3. SubjectListings!Next
    BY <2>1 DEF SubjectListings!Next, SubjectListings!AddIds, SubjectListings!RemoveIds
  <2>4. IssuerListings!Next
    BY <2>2 DEF IssuerListings!Next, IssuerListings!AddIds, IssuerListings!RemoveIds
  <2> QED
    BY <2>3, <2>4
<1>3. ListingsInv /\ [FeedNext]_feedVars => ListsMove
  BY NextListings
<1> QED
  BY <1>1, <1>2, <1>3, ListingsInvariant, PTL
     DEF FeedSpec, ImplementsIdList, SubjectListings!Spec, IssuerListings!Spec

-----------------------------------------------------------------------------
(* What the listings tell                                                  *)

\* The first and the last of some positions in a list.
LEMMA FirstPosition ==
    ASSUME NEW n \in Nat, NEW T \in SUBSET (1..n), T # {}
    PROVE  Min(T) \in T /\ \A k \in T : Min(T) <= k
<1>1. T \in SUBSET Nat
  OBVIOUS
<1>2. \E m \in T : \A k \in T : m <= k
  BY <1>1, Least
<1> QED
  BY <1>2 DEF Min

\* A set of positions that is not empty has a last one.
LEMMA LastPosition ==
    ASSUME NEW n \in Nat, NEW T \in SUBSET (1..n), T # {}
    PROVE  Max(T) \in T /\ \A k \in T : k <= Max(T)
<1> DEFINE D == {n - k : k \in T}
<1>1. D \in SUBSET Nat /\ D # {}
  <2>1. \A k \in T : n - k \in Nat
    OBVIOUS
  <2>2. \E k \in T : n - k \in D
    OBVIOUS
  <2> QED
    BY <2>1, <2>2
<1>2. PICK d \in D : \A k \in D : d <= k
  BY <1>1, Least
<1>3. PICK m \in T : d = n - m
  BY <1>2
<1>4. \A k \in T : n - m <= n - k
  BY <1>2, <1>3
<1>5. \A k \in T : m >= k
  BY <1>4
<1>6. \E x \in T : \A y \in T : x >= y
  BY <1>5
<1>7. Max(T) \in T /\ \A y \in T : Max(T) >= y
  BY <1>6 DEF Max
<1> QED
  BY <1>7

\* What backs a claim is in the list of its subject.
LEMMA BackingIsListed ==
    ASSUME IndexInv, NEW s \in Subjects, NEW c
    PROVE  Backing(s, c) \subseteq DOMAIN subjectIndex[s]
BY ValidIsUnrevoked DEF IndexInv, SubjectIndexExact, Backing

\* The listing of a subject has every attestation that backs a claim.
LEMMA ListingIsComplete == IndexInv /\ ChunksSound => SubjectListingComplete
<1> SUFFICES ASSUME IndexInv, ChunksSound, NEW s \in Subjects
             PROVE  /\ \A c \in ClaimTypes : Backing(s, c) \subseteq get_subject_attestations(s)
                    /\ \A id \in DOMAIN subjectChunks[s] :
                          /\ subjectChunks[s][id] = 1 /\ attestations[id].subject = s
                          /\ ~attestations[id].deleted
  BY DEF SubjectListingComplete
<1>1. /\ \A id \in DOMAIN subjectChunks[s] :
            /\ subjectChunks[s][id] = 1
            /\ id \in DOMAIN attestations
            /\ attestations[id].subject = s
            /\ ~attestations[id].deleted
      /\ DOMAIN subjectIndex[s] \subseteq DOMAIN subjectChunks[s]
  BY DEF ChunksSound, SubjectChunksSound
<1>2. \A c \in ClaimTypes : Backing(s, c) \subseteq DOMAIN subjectIndex[s]
  BY BackingIsListed
<1> QED
  BY <1>1, <1>2 DEF get_subject_attestations, has_attestation

\* The count of valid claims is the number of the unrevoked ones.
LEMMA CountIsExact == TypeOK /\ IndexInv => ClaimCountExact
<1> SUFFICES ASSUME TypeOK, IndexInv, NEW s \in Subjects
             PROVE  get_valid_claim_count(s)
                       = Cardinality(UNION {Backing(s, c) : c \in ClaimTypes})
  BY DEF ClaimCountExact
<1> DEFINE valid == VisibleValid(s)
           counted == [id \in valid |-> subjectIndex[s][id]]
<1>1. valid = {id \in DOMAIN attestations :
                 /\ attestations[id].subject = s
                 /\ ~attestations[id].deleted
                 /\ IsValid(id)}
  BY VisibleIsBacking
<1>2. valid \subseteq DOMAIN subjectIndex[s]
  BY DEF VisibleValid
<1>3. \A id \in DOMAIN counted : counted[id] = 1
  BY <1>2 DEF IndexInv, SubjectIndexExact
<1>4. IsFiniteSet(DOMAIN counted)
  <2>1. DOMAIN counted \subseteq DOMAIN attestations
    BY <1>1
  <2> QED
    BY <2>1, FS_Subset DEF TypeOK, LedgerTypeOK
<1>5. UNION {Backing(s, c) : c \in ClaimTypes} = valid
  <2>1. \A id \in DOMAIN attestations : attestations[id].claimType \in ClaimTypes
    BY DEF TypeOK, LedgerTypeOK, Attestation
  <2>2. \A id : id \in UNION {Backing(s, c) : c \in ClaimTypes}
                   <=> \E c \in ClaimTypes : id \in Backing(s, c)
    OBVIOUS
  <2>3. \A id : (\E c \in ClaimTypes : id \in Backing(s, c)) <=> id \in valid
    BY <1>1, <2>1 DEF Backing
  <2> QED
    BY <2>2, <2>3
<1>6. Len32(counted) = Cardinality(DOMAIN counted)
  BY <1>3, <1>4, ListLength
<1> QED
  BY <1>5, <1>6 DEF get_valid_claim_count

\* The flat list of a subject.
LEMMA FlatList ==
    ASSUME ListingsInv, NEW s \in Subjects
    PROVE  /\ inserted[s] \in Seq(AboutIds(s))
           /\ IsListOf(subjectList[s], DOMAIN subjectIndex[s])
           /\ \E e : /\ Enumerates(e, Positions(inserted[s], DOMAIN subjectIndex[s]))
                     /\ subjectList[s] = [k \in 1..Len(e) |-> inserted[s][e[k]]]
<1>1. /\ IsListOf(inserted[s], AboutIds(s))
      /\ subjectList[s] = Filter(inserted[s], DOMAIN subjectIndex[s])
  BY DEF ListingsInv, ListInv
<1>2. inserted[s] \in Seq(AboutIds(s))
  BY <1>1 DEF IsListOf
<1>3. AboutIds(s) \cap DOMAIN subjectIndex[s] = DOMAIN subjectIndex[s]
  BY DEF ListingsInv, IndexInv, SubjectIndexExact, AboutIds
<1>4. IsListOf(subjectList[s], DOMAIN subjectIndex[s])
  <2>1. IsListOf(Filter(inserted[s], DOMAIN subjectIndex[s]),
                 AboutIds(s) \cap DOMAIN subjectIndex[s])
    BY <1>1, ListsFiltered
  <2> QED
    BY <1>1, <1>3, <2>1
<1>5. \E e : /\ Enumerates(e, Positions(inserted[s], DOMAIN subjectIndex[s]))
             /\ subjectList[s] = [k \in 1..Len(e) |-> inserted[s][e[k]]]
  <2> DEFINE bag == DOMAIN subjectIndex[s]
             all == inserted[s]
  <2>1. all \in Seq(AboutIds(s)) /\ subjectList[s] = Filter(all, bag)
    BY <1>1, <1>2
  <2> HIDE DEF bag, all
  <2>2. \E e : /\ Enumerates(e, Positions(all, bag))
               /\ Filter(all, bag) = [k \in 1..Len(e) |-> all[e[k]]]
    BY <2>1, FilterEnumerates
  <2>3. \E e : /\ Enumerates(e, Positions(all, bag))
               /\ subjectList[s] = [k \in 1..Len(e) |-> all[e[k]]]
    BY <2>1, <2>2
  <2> QED
    BY <2>3 DEF bag, all
<1> QED
  BY <1>2, <1>4, <1>5

\* get_attestation_by_type finds the last attestation that backs the claim.
LEMMA NewestIsLast == ListingsInv => NewestByType
<1> SUFFICES ASSUME ListingsInv, NEW s \in Subjects, NEW c \in ClaimTypes
             PROVE  LET newest == get_attestation_by_type(s, c)
                    IN  /\ newest = None <=> Backing(s, c) = {}
                        /\ newest # None =>
                              /\ newest \in Backing(s, c)
                              /\ StoredInOrder(s) => \A id \in Backing(s, c) :
                                    attestations[id].timestamp <= attestations[newest].timestamp
  BY DEF NewestByType
<1> DEFINE list == subjectList[s]
           T == Matches(s, c)
<1>1. IsListOf(list, DOMAIN subjectIndex[s])
  BY FlatList
<1>2. \A id \in DOMAIN subjectIndex[s] : id \in DOMAIN attestations /\ attestations[id].subject = s
  BY DEF ListingsInv, IndexInv, SubjectIndexExact
<1>3. /\ Len(list) \in Nat
      /\ \A i \in 1..Len(list) : list[i] \in DOMAIN subjectIndex[s]
      /\ \A x \in DOMAIN subjectIndex[s] : \E i \in 1..Len(list) : list[i] = x
  <2> HIDE DEF list
  <2> QED
    BY <1>1, ListsTyped
<1>4. \A k \in T : list[k] \in Backing(s, c)
  BY <1>2, <1>3 DEF Matches, Backing, has_attestation
<1>5. \A id \in Backing(s, c) : \E k \in T : list[k] = id
  <2> TAKE id \in Backing(s, c)
  <2>1. id \in DOMAIN subjectIndex[s]
    BY BackingIsListed DEF ListingsInv
  <2>2. PICK k \in 1..Len(list) : list[k] = id
    BY <1>3, <2>1
  <2> QED
    BY <2>2 DEF Matches, Backing, has_attestation
<1>6. T \in SUBSET (1..Len(list))
  BY DEF Matches
<1>7. CASE T = {}
  BY <1>5, <1>7 DEF get_attestation_by_type
<1>8. CASE T # {}
  <2>1. Max(T) \in T /\ \A k \in T : k <= Max(T)
    <3> HIDE DEF T
    <3> QED
      BY <1>3, <1>6, <1>8, LastPosition
  <2>2. get_attestation_by_type(s, c) = list[Max(T)]
    BY <1>8 DEF get_attestation_by_type
  <2> DEFINE m == Max(T)
             newest == list[m]
  <2>3. newest \in Backing(s, c) /\ newest \in DOMAIN attestations
    BY <1>4, <2>1 DEF Backing
  <2>4. newest # None
    <3>1. DOMAIN attestations \subseteq Ids
      BY DEF ListingsInv, TypeOK, LedgerTypeOK
    <3> QED
      BY <2>3, <3>1, IdAssumption
  <2>5. ASSUME StoredInOrder(s), NEW id \in Backing(s, c)
        PROVE  attestations[id].timestamp <= attestations[newest].timestamp
    <3>1. PICK k \in T : list[k] = id
      BY <1>5
    <3>2. /\ id \in DOMAIN attestations
          /\ attestations[id].timestamp \in Nat /\ attestations[newest].timestamp \in Nat
      BY <2>3 DEF ListingsInv, TypeOK, LedgerTypeOK, Attestation, Backing
    <3>3. k \in 1..Len(list) /\ m \in 1..Len(list) /\ k <= m
      BY <1>6, <2>1
    <3>4. CASE k = m
      BY <3>1, <3>2, <3>4
    <3>5. CASE k < m
      <4>1. PICK e : /\ Enumerates(e, Positions(inserted[s], DOMAIN subjectIndex[s]))
                     /\ subjectList[s] = [i \in 1..Len(e) |-> inserted[s][e[i]]]
        BY FlatList
      <4>2. inserted[s] \in Seq(AboutIds(s))
        BY FlatList
      <4>3. Len(inserted[s]) \in Nat /\ Positions(inserted[s], DOMAIN subjectIndex[s]) \in SUBSET Nat
        BY <4>2 DEF Positions
      <4>4. /\ Len(e) \in Nat
            /\ \A i \in 1..Len(e) : e[i] \in Positions(inserted[s], DOMAIN subjectIndex[s])
            /\ \A i, j \in 1..Len(e) : i < j => e[i] < e[j]
        BY <4>1, <4>3, Enumerated
      <4>5. Len(list) = Len(e)
        BY <4>1, <4>4
      <4>6. /\ e[k] < e[m] /\ e[k] \in 1..Len(inserted[s]) /\ e[m] \in 1..Len(inserted[s])
            /\ list[k] = inserted[s][e[k]] /\ newest = inserted[s][e[m]]
        BY <3>3, <3>5, <4>1, <4>4, <4>5 DEF Positions
      <4>7. After(newest, id)
        BY <2>5, <3>1, <4>6 DEF StoredInOrder
      <4> QED
        BY <3>2, <4>7 DEF After
    <3> QED
      BY <3>3, <3>4, <3>5, <1>3
  <2> QED
    BY <2>2, <2>3, <2>4, <2>5
<1> QED
  BY <1>7, <1>8

\* The listings, the count and get_attestation_by_type agree with the records,
\* whatever was issued, imported, revoked, transferred or deleted.
THEOREM ListingsAlwaysAgree == FeedSpec => []ListingsAgree
<1>1. ListingsInv => ListingsAgree
  <2> SUFFICES ASSUME ListingsInv PROVE ListingsAgree
    OBVIOUS
  <2>1. SubjectListingComplete /\ ClaimCountExact /\ NewestByType
    BY ListingIsComplete, CountIsExact, NewestIsLast DEF ListingsInv
  <2>2. IssuerListingByOrigin
    BY DEF ListingsInv, ChunksSound, IssuerChunksSound, IssuerListingByOrigin
  <2> QED
    BY <2>1, <2>2 DEF ListingsAgree
<1> QED
  BY <1>1, ListingsInvariant, PTL

-----------------------------------------------------------------------------
(* Pages                                                                   *)

\* A stretch from the start of a list, and the one that follows it.
LEMMA StretchesJoin ==
    ASSUME NEW S, NEW list \in Seq(S), NEW a \in Nat, NEW b \in Nat, a <= b, b <= Len(list)
    PROVE  SubSeq(list, 1, a) \o SubSeq(list, a + 1, b) = SubSeq(list, 1, b)
<1> DEFINE s == SubSeq(list, 1, a)
           t == SubSeq(list, a + 1, b)
           u == SubSeq(list, 1, b)
           st == s \o t
<1>1. 0 + 1 = 1 /\ a - 0 = a /\ b - 0 = b /\ \A i \in 1..b : 0 + i = i
  OBVIOUS
<1>2. Len(list) \in Nat /\ a <= Len(list)
  OBVIOUS
<1>3. s \in Seq(S) /\ Len(s) = a /\ \A i \in 1..a : s[i] = list[i]
  <2>1. /\ SubSeq(list, 0 + 1, a) \in Seq(S) /\ Len(SubSeq(list, 0 + 1, a)) = a - 0
        /\ \A i \in 1..(a - 0) : SubSeq(list, 0 + 1, a)[i] = list[0 + i]
    BY <1>2, Stretch, 0 \in Nat
  <2> QED
    BY <1>1, <2>1
<1>4. u \in Seq(S) /\ Len(u) = b /\ \A i \in 1..b : u[i] = list[i]
  <2>1. /\ SubSeq(list, 0 + 1, b) \in Seq(S) /\ Len(SubSeq(list, 0 + 1, b)) = b - 0
        /\ \A i \in 1..(b - 0) : SubSeq(list, 0 + 1, b)[i] = list[0 + i]
    BY <1>2, Stretch, 0 \in Nat
  <2> QED
    BY <1>1, <2>1
<1>5. t \in Seq(S) /\ Len(t) = b - a /\ \A i \in 1..(b - a) : t[i] = list[a + i]
  BY <1>2, Stretch
<1> HIDE DEF s, t, u
<1>a. Len(s) \in Nat /\ Len(t) \in Nat
  BY <1>3, <1>5
<1>6. /\ st \in Seq(S) /\ Len(st) = Len(s) + Len(t)
      /\ \A i \in 1..Len(s) : st[i] = s[i]
      /\ \A i \in 1..Len(t) : st[Len(s) + i] = t[i]
  <2>1. s \in Seq(S) /\ t \in Seq(S)
    BY <1>3, <1>5
  <2> QED
    BY <1>a, <2>1
<1> HIDE DEF st
<1>7. ASSUME NEW i \in 1..b PROVE st[i] = u[i]
  <2>1. CASE i \in 1..a
    BY <1>3, <1>4, <1>6, <2>1
  <2>2. CASE i \notin 1..a
    <3>1. i - a \in 1..(b - a) /\ a + (i - a) = i
      BY <2>2
    <3>2. st[a + (i - a)] = list[a + (i - a)]
      BY <1>3, <1>5, <1>6, <3>1
    <3> QED
      BY <1>4, <3>1, <3>2
  <2> QED
    BY <2>1, <2>2
<1>8. Len(st) = b
  BY <1>3, <1>5, <1>6
<1>9. st = u
  BY <1>4, <1>6, <1>7, <1>8, SameLists
<1> QED
  BY <1>9 DEF st, s, t, u

\* How far the first pages reach.
LEMMA PageEnds ==
    ASSUME NEW n \in Nat, NEW limit \in Nat \ {0}, NEW k \in Nat \ {0}
    PROVE  /\ (k - 1) * limit \in Nat /\ k * limit \in Nat
           /\ k * limit = (k - 1) * limit + limit
           /\ k * limit >= k
           /\ (k - 1) = 0 => (k - 1) * limit = 0
<1>1. k - 1 \in Nat /\ limit \in Nat /\ limit >= 1
  OBVIOUS
<1>2. (k - 1) * limit \in Nat /\ k * limit \in Nat
  BY <1>1
<1>3. k * limit = (k - 1) * limit + limit
  BY <1>1
<1>4. k * limit >= k
  BY <1>1
<1> QED
  BY <1>2, <1>3, <1>4

\* A page continues where the ones before it end.
LEMMA PageContinues ==
    ASSUME NEW S, NEW list \in Seq(S), NEW start \in Nat, NEW limit \in Nat \ {0}
    PROVE  LET reached(i) == IF i <= Len(list) THEN i ELSE Len(list)
           IN  /\ paginate(list, start, limit) \in Seq(S)
               /\ SubSeq(list, 1, reached(start)) \in Seq(S)
               /\ SubSeq(list, 1, reached(start)) \o paginate(list, start, limit)
                     = SubSeq(list, 1, reached(start + limit))
               /\ reached(start) = 0 => paginate(list, start, limit)
                                           = SubSeq(list, 1, reached(start + limit))
<1> DEFINE n == Len(list)
           reached(i) == IF i <= n THEN i ELSE n
           page == paginate(list, start, limit)
           a == reached(start)
           b == reached(start + limit)
<1>1. n \in Nat /\ limit \in Nat /\ limit > 0 /\ start + limit \in Nat
  OBVIOUS
<1>2. a \in Nat /\ b \in Nat /\ a <= b /\ b <= n /\ a <= n
  BY <1>1
<1>3. page = SubSeq(list, start + 1, b)
  <2>1. Min({start + limit, n}) = b
    <3>1. start + limit \in Int /\ n \in Int
      BY <1>1
    <3> HIDE DEF n
    <3> QED
      BY <3>1, MinOfTwo
  <2> HIDE DEF b
  <2> QED
    BY <2>1 DEF paginate
<1>4. SubSeq(list, 1, a) \in Seq(S)
  <2>1. SubSeq(list, 0 + 1, a) \in Seq(S)
    <3> HIDE DEF a
    <3> QED
      BY <1>2, Stretch, 0 \in Nat
  <2> QED
    BY <2>1, 0 + 1 = 1
<1>5. page = SubSeq(list, a + 1, b) /\ page \in Seq(S)
  <2>1. CASE start <= n
    <3>1. a = start
      BY <2>1
    <3> HIDE DEF a, b, n, page
    <3>2. SubSeq(list, a + 1, b) \in Seq(S)
      BY <1>2, Stretch DEF n
    <3> QED
      BY <1>3, <3>1, <3>2
  <2>2. CASE ~(start <= n)
    <3>1. a = n /\ b = n
      BY <1>1, <2>2
    <3>2. b <= start /\ b <= a
      BY <1>1, <2>2
    <3> HIDE DEF a, b, n, page
    <3>3. SubSeq(list, start + 1, b) = <<>> /\ SubSeq(list, a + 1, b) = <<>>
      BY <1>2, <3>2, NoStretch
    <3>4. page = <<>>
      BY <1>3, <3>3
    <3>5. <<>> \in Seq(S)
      OBVIOUS
    <3> QED
      BY <3>3, <3>4, <3>5
  <2> QED
    BY <2>1, <2>2
<1> HIDE DEF a, b, page
<1>6. SubSeq(list, 1, a) \o page = SubSeq(list, 1, b)
  BY <1>2, <1>5, StretchesJoin
<1>7. a = 0 => page = SubSeq(list, 1, b)
  BY <1>5, 0 + 1 = 1
<1> QED
  BY <1>4, <1>5, <1>6, <1>7 DEF a, b, page, reached

\* The same when some entries are left out.
LEMMA PartContinues ==
    ASSUME NEW S, NEW list \in Seq(S), NEW start \in Nat, NEW limit \in Nat \ {0}, NEW ids
    PROVE  LET reached(i) == IF i <= Len(list) THEN i ELSE Len(list)
               part(i) == Filter(SubSeq(list, 1, reached(i)), ids)
               page == Filter(paginate(list, start, limit), ids)
           IN  /\ part(start) \o page = part(start + limit)
               /\ start = 0 => page = part(start + limit)
<1> DEFINE reached(i) == IF i <= Len(list) THEN i ELSE Len(list)
           p == SubSeq(list, 1, reached(start))
           q == SubSeq(list, 1, reached(start + limit))
           page == paginate(list, start, limit)
<1>1. page \in Seq(S) /\ p \in Seq(S) /\ p \o page = q /\ (reached(start) = 0 => page = q)
  BY PageContinues
<1>2. start = 0 => reached(start) = 0
  OBVIOUS
<1> HIDE DEF p, q, page, reached
<1>3. Filter(p \o page, ids) = Filter(p, ids) \o Filter(page, ids)
  <2>1. page \in Seq(S) /\ p \in Seq(S)
    BY <1>1
  <2>2. Filter(p \o page, ids) = Filter(p, ids) \o Filter(page, ids)
    BY <2>1, FilterConcat
  <2> QED
    BY <2>2
<1>4. /\ Filter(p, ids) \o Filter(page, ids) = Filter(q, ids)
      /\ start = 0 => Filter(page, ids) = Filter(q, ids)
  BY <1>1, <1>2, <1>3
<1> QED
  BY <1>4 DEF p, q, page, reached

\* The pages of a list, of which some entries are left out, follow each other
\* without a gap or an overlap.
LEMMA PagesJoin ==
    ASSUME NEW S, NEW list \in Seq(S), NEW limit \in Nat \ {0}, NEW count \in Nat,
           Len(list) <= count, NEW ids
    PROVE  FlattenSeq([k \in 1..(count + 1) |->
                          Filter(paginate(list, (k - 1) * limit, limit), ids)])
              = Filter(list, ids)
<1>0. ASSUME NEW x \in Nat
      PROVE  LET reached(i) == IF i <= Len(list) THEN i ELSE Len(list)
                 part(i) == Filter(SubSeq(list, 1, reached(i)), ids)
                 page == Filter(paginate(list, x, limit), ids)
             IN  /\ part(x) \o page = part(x + limit)
                 /\ x = 0 => page = part(x + limit)
  BY PartContinues
<1> DEFINE pages == [k \in 1..(count + 1) |->
                        Filter(paginate(list, (k - 1) * limit, limit), ids)]
           m == Len(pages)
           n == Len(list)
           reached(i) == IF i <= n THEN i ELSE n
           first(k) == Filter(SubSeq(list, 1, reached(k * limit)), ids)
           step(f, k) == IF k = 1 THEN pages[k] ELSE f[k - 1] \o pages[k]
           joins(f) == f = [k \in 1..m |-> step(f, k)]
           w == [k \in 1..m |-> first(k)]
<1>1. n \in Nat /\ limit \in Nat /\ limit > 0 /\ count + 1 \in Nat /\ count + 1 >= 1
  OBVIOUS
<1>2. m = count + 1 /\ m \in Nat /\ m >= 1
  <2> DEFINE c == count + 1
  <2>1. DOMAIN pages = 1..c
    OBVIOUS
  <2> HIDE DEF c
  <2>2. pages = [k \in 1..c |-> pages[k]]
    BY <2>1
  <2>3. c \in Nat /\ c >= 1
    BY DEF c
  <2>4. Len(pages) = c
    BY <2>2, <2>3
  <2> QED
    BY <2>3, <2>4 DEF c
<1> HIDE DEF m, pages
<1>3. ASSUME NEW k \in 1..m
      PROVE  /\ k = 1 => pages[k] = first(k)
             /\ k # 1 => first(k - 1) \o pages[k] = first(k)
  <2> DEFINE start == (k - 1) * limit
             page == Filter(paginate(list, start, limit), ids)
             part(i) == Filter(SubSeq(list, 1, reached(i)), ids)
  <2>1. k \in Nat \ {0} /\ limit \in Nat \ {0} /\ k \in 1..(count + 1)
    BY <1>2
  <2>2. /\ start \in Nat /\ k * limit \in Nat /\ k * limit = start + limit
        /\ (k - 1) = 0 => start = 0
    BY <1>1, <2>1, PageEnds
  <2>3. pages[k] = page
    BY <2>1 DEF pages
  <2>4. first(k) = part(start + limit) /\ first(k - 1) = part(start)
    BY <2>2
  <2>5. /\ part(start) \o page = part(start + limit)
        /\ start = 0 => page = part(start + limit)
    <3> HIDE DEF start
    <3> QED
      BY <1>0, <2>2
  <2> HIDE DEF start, page, part, first
  <2> QED
    BY <2>1, <2>2, <2>3, <2>4, <2>5
<1>4. FlattenSeq(pages) = (CHOOSE f : joins(f))[m]
  <2>1. Len(pages) # 0
    BY <1>2 DEF m
  <2> QED
    BY <2>1, Zenon DEF FlattenSeq, m
<1> HIDE DEF first
<1>5. joins(w)
  <2>1. ASSUME NEW k \in 1..m PROVE w[k] = step(w, k)
    <3>1. CASE k = 1
      BY <1>3, <3>1
    <3>2. CASE k # 1
      <4>1. k - 1 \in 1..m
        <5> HIDE DEF step, w, joins
        <5>1. m \in Nat
          BY <1>2, ZenonT(60)
        <5> QED
          BY <3>2, <5>1, SMTT(30)
      <4> QED
        BY <1>3, <3>2, <4>1
    <3> QED
      BY <3>1, <3>2
  <2> QED
    BY <2>1
<1> DEFINE g == CHOOSE f : joins(f)
<1>6. joins(g)
  BY <1>5
<1>7. FlattenSeq(pages) = g[m]
  BY <1>4
<1> HIDE DEF g, w, step
<1>8. \A k \in 1..m : g[k] = step(g, k)
  BY <1>6
<1> HIDE DEF joins
<1>9. g[m] = first(m)
  <2> DEFINE wrong == {k \in 1..m : g[k] # first(k)}
  <2> SUFFICES ASSUME wrong # {} PROVE FALSE
    BY <1>1, <1>2
  <2>1. wrong \in SUBSET Nat
    BY <1>1, <1>2
  <2>2. PICK k \in wrong : \A i \in wrong : k <= i
    BY <2>1, Least
  <2>3. k \in 1..m /\ g[k] # first(k) /\ g[k] = step(g, k)
    BY <1>8
  <2>4. CASE k = 1
    BY <1>3, <2>3, <2>4 DEF step
  <2>5. CASE k # 1
    <3>1. k - 1 \in 1..m /\ k - 1 < k
      BY <1>1, <1>2, <2>3, <2>5
    <3>2. k - 1 \notin wrong
      BY <2>2, <2>3, <3>1
    <3>3. g[k - 1] = first(k - 1)
      BY <3>1, <3>2
    <3> QED
      BY <1>3, <2>3, <2>5, <3>3 DEF step
  <2> QED
    BY <2>4, <2>5
<1>10. first(m) = Filter(list, ids)
  <2>1. m \in Nat \ {0} /\ limit \in Nat \ {0}
    BY <1>1, <1>2
  <2>2. m * limit \in Nat /\ m * limit >= m
    BY <1>1, <1>2, <2>1, PageEnds
  <2>3. m >= n
    BY <1>1, <1>2
  <2>4. reached(m * limit) = n
    <3>1. \A x \in Nat : x >= n => reached(x) = n
      BY <1>1
    <3> HIDE DEF reached
    <3> QED
      BY <1>1, <1>2, <2>2, <2>3, <3>1
  <2>5. SubSeq(list, 1, n) = list
    OBVIOUS
  <2> HIDE DEF reached, n
  <2> QED
    BY <2>4, <2>5 DEF first
<1>11. FlattenSeq(pages) = Filter(list, ids)
  BY <1>7, <1>9, <1>10
<1> QED
  BY <1>11 DEF pages

\* What a chunked list is made of.
LEMMA StoreIsExact ==
    ASSUME NEW store, NEW bag, StoreHolds(store, bag)
    PROVE  LET ids == get_ids(store)
               n   == Cardinality(DOMAIN store)
           IN  /\ ToSet(ids) = DOMAIN bag /\ IsInjective(ids)
               /\ DOMAIN store = 0..(n - 1)
               /\ \A k \in 0..(n - 1) : /\ Len(store[k]) \in 1..ChunkSize
                                        /\ k < n - 1 => Len(store[k]) = ChunkSize
<1> DEFINE ids == get_ids(store)
           n == ChunkCount(ids)
<1>1. ids \in Seq(DOMAIN bag) /\ IsInjective(ids) /\ ToSet(ids) = DOMAIN bag
      /\ store = Chunks(ids)
  BY DEF StoreHolds, IsListOf
<1> HIDE DEF ids
<1>2. /\ n \in Nat
      /\ DOMAIN store = 0..(n - 1)
      /\ Cardinality(DOMAIN store) = n
      /\ \A k \in 0..(n - 1) : store[k] = ChunkOf(ids, k)
  BY <1>1, ChunkDomain
<1>3. \A k \in 0..(n - 1) : /\ Len(ChunkOf(ids, k)) \in 1..ChunkSize
                            /\ k < n - 1 => Len(ChunkOf(ids, k)) = ChunkSize
  BY <1>1, ChunkHolds
<1> HIDE DEF n
<1> QED
  BY <1>1, <1>2, <1>3 DEF ids

\* The chunks hold what the bags hold.
LEMMA ChunksAreExact == ListingsInv => ChunksExact
BY StoreIsExact DEF ListingsInv, ListInv, ChunksExact

\* The pages of a subject are its listing.
LEMMA SubjectPages ==
    ASSUME ListingsInv, NEW s \in Subjects, NEW limit \in Nat \ {0}
    PROVE  LET n == get_subject_attestation_count(s)
               pages == AllPages(LAMBDA k : get_subject_page(s, k, limit), n, limit)
           IN  pages = get_ids(subjectStore[s]) /\ Len(pages) = n
<1> DEFINE list == get_ids(subjectStore[s])
           shown == {id \in DOMAIN attestations : ~attestations[id].deleted}
           n == Len(list)
<1>1. list \in Seq(DOMAIN subjectChunks[s]) /\ ToSet(list) = DOMAIN subjectChunks[s]
  BY DEF ListingsInv, ListInv, StoreHolds, IsListOf
<1>2. DOMAIN subjectChunks[s] \subseteq shown
  BY DEF ListingsInv, ChunksSound, SubjectChunksSound
<1>3. n \in Nat /\ n <= n
  BY <1>1
<1> HIDE DEF list, shown
<1>4. FlattenSeq([k \in 1..(n + 1) |-> Filter(paginate(list, (k - 1) * limit, limit), shown)])
         = Filter(list, shown)
  BY <1>1, <1>3, PagesJoin
<1>5. Filter(list, shown) = list
  BY <1>1, <1>2, FilterAll
<1>6. AllPages(LAMBDA k : get_subject_page(s, k, limit), n, limit) = list
  BY <1>4, <1>5 DEF AllPages, get_subject_page, get_page, Undeleted, list, shown
<1> QED
  BY <1>6 DEF get_subject_attestation_count, entry_count, list

\* The pages of an issuer are its listing without the deleted attestations.
LEMMA IssuerPages ==
    ASSUME ListingsInv, NEW o \in Owners, NEW limit \in Nat \ {0}
    PROVE  LET n == entry_count(issuerStore[o])
           IN  AllPages(LAMBDA k : get_issuer_page(o, k, limit), n, limit)
                  = Undeleted(get_ids(issuerStore[o]))
<1> DEFINE list == get_ids(issuerStore[o])
           shown == {id \in DOMAIN attestations : ~attestations[id].deleted}
           n == Len(list)
<1>1. list \in Seq(DOMAIN issuerChunks[o])
  BY DEF ListingsInv, ListInv, StoreHolds, IsListOf
<1>2. n \in Nat /\ n <= n
  BY <1>1
<1> HIDE DEF list, shown
<1>3. FlattenSeq([k \in 1..(n + 1) |-> Filter(paginate(list, (k - 1) * limit, limit), shown)])
         = Filter(list, shown)
  BY <1>1, <1>2, PagesJoin
<1> QED
  BY <1>3 DEF AllPages, get_issuer_page, get_page, Undeleted, entry_count, list, shown

\* What a range query selects is a part of the list of the subject.
LEMMA InRangeTyped ==
    ASSUME ListingsInv, NEW s \in Subjects, NEW from, NEW to
    PROVE  InRange(s, from, to) \in Seq(DOMAIN subjectIndex[s])
<1>1. subjectList[s] \in Seq(DOMAIN subjectIndex[s])
  BY FlatList DEF IsListOf
<1> DEFINE shown == Undeleted(subjectList[s])
<1>2. shown \in Seq(DOMAIN subjectIndex[s])
  BY <1>1, Filtered DEF Undeleted
<1> HIDE DEF shown
<1>3. Filter(shown, {id \in DOMAIN attestations : attestations[id].timestamp \in from..to})
         \in Seq(DOMAIN subjectIndex[s])
  BY <1>2, Filtered
<1> QED
  BY <1>3 DEF InRange, shown

\* The pages of a range query are what it selects.
LEMMA RangePages ==
    ASSUME ListingsInv, NEW s \in Subjects, NEW from, NEW limit \in Nat \ {0}
    PROVE  LET ids == InRange(s, from, MaxTime)
           IN  AllPages(LAMBDA k : get_attestations_in_range(s, from, MaxTime, k, limit),
                        Len(ids), limit) = ids
<1> DEFINE list == InRange(s, from, MaxTime)
           n == Len(list)
           S == DOMAIN subjectIndex[s]
<1>1. list \in Seq(S) /\ n \in Nat /\ n <= n
  BY InRangeTyped
<1> HIDE DEF list, S
<1>2. \A k \in Nat : paginate(list, k, limit) \in Seq(S)
  BY <1>1, PageContinues
<1>3. \A k \in Nat : Filter(paginate(list, k, limit), S) = paginate(list, k, limit)
  <2> TAKE k \in Nat
  <2> DEFINE page == paginate(list, k, limit)
  <2>1. page \in Seq(S)
    BY <1>2
  <2> HIDE DEF page
  <2>2. ToSet(page) \subseteq S
    BY <2>1 DEF ToSet
  <2>3. Filter(page, S) = page
    BY <2>1, <2>2, FilterAll
  <2> QED
    BY <2>3 DEF page
<1>4. FlattenSeq([k \in 1..(n + 1) |-> Filter(paginate(list, (k - 1) * limit, limit), S)])
         = Filter(list, S)
  BY <1>1, PagesJoin
<1>5. \A k \in 1..(n + 1) : (k - 1) * limit \in Nat
  BY <1>1
<1>6. [k \in 1..(n + 1) |-> Filter(paginate(list, (k - 1) * limit, limit), S)]
         = [k \in 1..(n + 1) |-> paginate(list, (k - 1) * limit, limit)]
  BY <1>3, <1>5
<1>7. Filter(list, S) = list
  <2>1. ToSet(list) \subseteq S
    BY <1>1 DEF ToSet
  <2> QED
    BY <1>1, <2>1, FilterAll
<1>8. FlattenSeq([k \in 1..(n + 1) |-> paginate(list, (k - 1) * limit, limit)]) = list
  BY <1>4, <1>6, <1>7
<1> QED
  BY <1>8 DEF AllPages, get_attestations_in_range, list

\* The pages that get_subject_attestations, get_issuer_attestations and
\* get_attestations_in_range cut out of a listing are the listing, for every page
\* size, and the chunks behind it are exact.
THEOREM PagesAlwaysCover == FeedSpec => []PagesCover
<1>1. ListingsInv => PagesCover
  <2> SUFFICES ASSUME ListingsInv PROVE PagesCover
    OBVIOUS
  <2>1. \A limit \in 1..MaxAttestations : limit \in Nat \ {0}
    BY BoundAssumption
  <2> QED
    BY <2>1, ChunksAreExact, SubjectPages, IssuerPages, RangePages DEF PagesCover
<1> QED
  BY <1>1, ListingsInvariant, PTL

-----------------------------------------------------------------------------
(* Cursors                                                                 *)

\* Nothing is stored under a later date than the clock shows.
Dated == now <= MaxTime /\ \A id \in DOMAIN attestations : id.timestamp <= now

\* The clock of the model stays within its bound.
LEMMA ClockBound ==
    ASSUME TypeOK, now <= MaxTime, [Next]_vars
    PROVE  now' <= MaxTime
<1>0. ASSUME now' = now PROVE now' <= MaxTime
  BY <1>0
<1>1. CASE CloseLedger
  BY <1>1, BoundAssumption DEF CloseLedger, TypeOK, LedgerTypeOK
<1>2. CASE Issue \/ Import \/ IssueBatch
  BY <1>0, <1>2, IssuanceStores DEF Stored
<1>3. ASSUME NEW gone, NEW entry, Edit(gone, entry) PROVE now' = now
  BY <1>3 DEF Edit
<1>4. CASE RegistryNext /\ UNCHANGED <<ledgerVars, policyVars, endorsements>>
  BY <1>0, <1>4 DEF ledgerVars
<1>5. CASE PolicyNext /\ UNCHANGED <<ledgerVars, registryVars, endorsements>>
  BY <1>0, <1>5 DEF ledgerVars
<1>6. CASE UNCHANGED vars
  BY <1>0, <1>6 DEF vars, ledgerVars
<1>7. ASSUME NEW i \in Issuers, NEW id \in DOMAIN attestations,
             \/ revoke_attestation(i, id)
             \/ endorse_attestation(i, id)
             \/ \E e \in Expirations : renew_attestation(i, id, e)
             \/ \E e \in Expirations : update_expiration(i, id, e)
             \/ \E a \in Admins : transfer_attestation(a, id, i)
      PROVE  now' = now
  <2>1. CASE revoke_attestation(i, id)
    BY <1>3, <2>1, RevokeShape DEF RevokeStep
  <2>2. CASE endorse_attestation(i, id)
    BY <2>2 DEF endorse_attestation, ledgerVars
  <2>3. CASE \E e \in Expirations : renew_attestation(i, id, e)
    BY <1>3, <2>3, RenewShape DEF RenewStep
  <2>4. CASE \E e \in Expirations : update_expiration(i, id, e)
    BY <1>3, <2>4, RenewShape DEF RenewStep
  <2>5. CASE \E a \in Admins : transfer_attestation(a, id, i)
    BY <1>3, <2>5, TransferShape DEF TransferStep
  <2> QED
    BY <1>7, <2>1, <2>2, <2>3, <2>4, <2>5
<1>8. ASSUME NEW i \in Issuers, NEW ids \in SUBSET DOMAIN attestations,
             revoke_attestations_batch(i, ids)
      PROVE  now' = now
  BY <1>3, <1>8, RevokeBatchShape DEF RevokeStep
<1>9. CASE Manage
  BY <1>0, <1>7, <1>8, <1>9 DEF Manage
<1>10. CASE Delete
  BY <1>0, <1>3, <1>10, DeleteShape DEF Delete, DeleteStep
<1> QED
  BY <1>1, <1>2, <1>4, <1>5, <1>6, <1>9, <1>10 DEF Next

\* Every step keeps the records dated by their ids ...
LEMMA NextDated == TypeOK /\ Dated /\ [Next]_vars => Dated'
<1> SUFFICES ASSUME TypeOK, Dated, [Next]_vars PROVE Dated'
  OBVIOUS
<1>1. now' <= MaxTime
  BY ClockBound DEF Dated
<1>2. now \in Nat /\ now' \in Nat /\ now' >= now
  BY StepSurroundings DEF TypeOK, LedgerTypeOK
<1>3. \A id \in DOMAIN attestations : id.timestamp \in Nat
  BY DEF TypeOK, LedgerTypeOK, Ids
<1>4. \A id \in DOMAIN attestations : id.timestamp <= now'
  BY <1>2, <1>3 DEF Dated
<1>5. ASSUME NEW owner, NEW new, NEW actor, NEW timestamp,
             Stored(owner, new, actor, timestamp)
      PROVE  \A id \in DOMAIN attestations' : id.timestamp <= now'
  <2>1. DOMAIN attestations' = DOMAIN attestations \cup DOMAIN new
    BY <1>5, StoredBags DEF Added
  <2>2. \A id \in DOMAIN new : id.timestamp <= now'
    BY <1>5 DEF Stored
  <2> QED
    BY <1>4, <2>1, <2>2
<1>6. ASSUME NEW gone, NEW revoked, TrimStep(gone, revoked)
      PROVE  \A id \in DOMAIN attestations' : id.timestamp <= now'
  BY <1>4, <1>6 DEF TrimStep
<1>7. \A id \in DOMAIN attestations' : id.timestamp <= now'
  BY <1>5, <1>6, StoreOrTrim
<1> QED
  BY <1>1, <1>7 DEF Dated

\* ... and so they always are.
LEMMA AlwaysDated == FeedSpec => []Dated
<1>1. FeedInit => Dated
  BY BoundAssumption DEF FeedInit, Init, LedgerInit, Dated
<1>2. ListingsInv /\ Dated /\ [FeedNext]_feedVars => Dated'
  BY FeedStepsAreSteps, NextDated DEF ListingsInv
<1> QED
  BY <1>1, <1>2, ListingsInvariant, PTL DEF FeedSpec

\* The ids of the records have a rank.
LEMMA Ranked ==
    ASSUME TypeOK, Dated, NEW id \in DOMAIN attestations
    PROVE  Rank(id) \in Nat /\ attestations[id].timestamp \in Nat /\ id # None
<1>1. id \in Ids /\ attestations[id] \in Attestation
  BY DEF TypeOK, LedgerTypeOK
<1>2. id.timestamp \in 0..MaxTime
  BY <1>1, BoundAssumption DEF Dated, Ids, TypeOK, LedgerTypeOK
<1>3. id = generate_bridge_id(id.issuer, id.subject, id.claimType, id.source, id.timestamp)
  BY <1>1 DEF Ids, generate_bridge_id
<1>4. /\ id.issuer \in Owners /\ id.subject \in Subjects /\ id.claimType \in ClaimTypes
      /\ id.source \in Sources \cup {None}
  BY <1>1 DEF Ids
<1>5. Rank(id) \in Nat
  BY <1>2, <1>3, <1>4, RankAssumption
<1> QED
  BY <1>1, <1>5, IdAssumption DEF Attestation

\* The order of the search is strict.
LEMMA AfterIsStrict ==
    ASSUME TypeOK, Dated, NEW x \in DOMAIN attestations, NEW y \in DOMAIN attestations,
           After(x, y)
    PROVE  ~After(y, x)
<1>1. /\ Rank(x) \in Nat /\ Rank(y) \in Nat
      /\ attestations[x].timestamp \in Nat /\ attestations[y].timestamp \in Nat
  BY Ranked
<1> QED
  BY <1>1 DEF After

\* What follows the first part of a list is paged like a list of its own.
LEMMA PaginateRest ==
    ASSUME NEW S, NEW s \in Seq(S), NEW t \in Seq(S), NEW limit \in Nat
    PROVE  paginate(s \o t, Len(s), limit) = paginate(t, 0, limit)
<1> DEFINE st == s \o t
           a == Len(s)
           n == Len(t)
           b == IF limit <= n THEN limit ELSE n
           left == SubSeq(st, a + 1, a + b)
           right == SubSeq(t, 1, b)
<1>1. s \in Seq(S) /\ t \in Seq(S) /\ a \in Nat /\ n \in Nat /\ b \in Nat /\ b <= n
  OBVIOUS
<1>2. /\ st \in Seq(S) /\ Len(st) = a + n
      /\ \A i \in 1..n : st[a + i] = t[i]
  OBVIOUS
<1>3. paginate(st, a, limit) = left
  <2>1. Min({a + limit, Len(st)}) = a + b
    <3>1. a + limit \in Int /\ Len(st) \in Int
      BY <1>1, <1>2
    <3>2. Min({a + limit, Len(st)}) = IF a + limit <= Len(st) THEN a + limit ELSE Len(st)
      BY <3>1, MinOfTwo
    <3> HIDE DEF st, a, n
    <3> QED
      BY <1>1, <1>2, <3>2
  <2> HIDE DEF st, a, b
  <2> QED
    BY <2>1 DEF paginate, left
<1>4. paginate(t, 0, limit) = right
  <2>1. Min({0 + limit, n}) = b
    <3>1. 0 + limit \in Int /\ n \in Int /\ 0 + limit = limit
      BY <1>1
    <3>2. Min({0 + limit, n}) = IF 0 + limit <= n THEN 0 + limit ELSE n
      BY <3>1, MinOfTwo
    <3> HIDE DEF n
    <3> QED
      BY <3>1, <3>2
  <2>2. 0 + 1 = 1
    OBVIOUS
  <2> HIDE DEF b
  <2> QED
    BY <2>1, <2>2 DEF paginate, right, n
<1> HIDE DEF st, a, n, b, left, right
<1>5. left \in Seq(S) /\ Len(left) = b /\ \A i \in 1..b : left[i] = t[i]
  <2>1. a + b \in Nat /\ a <= a + b /\ a + b <= Len(st) /\ (a + b) - a = b
    BY <1>1, <1>2
  <2>2. /\ SubSeq(st, a + 1, a + b) \in Seq(S) /\ Len(SubSeq(st, a + 1, a + b)) = (a + b) - a
        /\ \A i \in 1..((a + b) - a) : SubSeq(st, a + 1, a + b)[i] = st[a + i]
    BY <1>1, <1>2, <2>1, Stretch
  <2>3. \A i \in 1..b : st[a + i] = t[i]
    BY <1>1, <1>2
  <2> QED
    BY <2>1, <2>2, <2>3 DEF left
<1>6. right \in Seq(S) /\ Len(right) = b /\ \A i \in 1..b : right[i] = t[i]
  <2>1. b <= Len(t) /\ 0 <= b /\ b - 0 = b /\ 0 + 1 = 1 /\ \A i \in 1..b : 0 + i = i
    BY <1>1 DEF n
  <2>2. /\ SubSeq(t, 0 + 1, b) \in Seq(S) /\ Len(SubSeq(t, 0 + 1, b)) = b - 0
        /\ \A i \in 1..(b - 0) : SubSeq(t, 0 + 1, b)[i] = t[0 + i]
    BY <1>1, <2>1, Stretch, 0 \in Nat
  <2> QED
    BY <2>1, <2>2 DEF right
<1>7. left = right
  BY <1>5, <1>6, SameLists
<1> QED
  BY <1>3, <1>4, <1>7 DEF st, a

\* An entry added at the end is the last one.
LEMMA LastOf ==
    ASSUME NEW S, NEW s \in Seq(S), NEW x \in S
    PROVE  Len(s \o <<x>>) = Len(s) + 1 /\ (s \o <<x>>)[Len(s) + 1] = x
OBVIOUS

\* The entries of a list that are selected, those up to a position and those
\* behind it.
IsCut(list, c, ids, head, tail) ==
    /\ Filter(list, ids) = head \o tail
    /\ list[c] \in ids => Len(head) >= 1 /\ head[Len(head)] = list[c]
    /\ list[c] \notin ids => \A i \in 1..Len(head) : \E j \in 1..(c - 1) : head[i] = list[j]
    /\ \A i \in 1..Len(tail) : \E j \in (c + 1)..Len(list) : tail[i] = list[j]

\* Every list is cut so at every position.
LEMMA Cut ==
    ASSUME NEW S, NEW list \in Seq(S), NEW c \in 1..Len(list), NEW ids
    PROVE  /\ Filter(SubSeq(list, 1, c), ids) \in Seq(S)
           /\ Filter(SubSeq(list, c + 1, Len(list)), ids) \in Seq(S)
           /\ IsCut(list, c, ids, Filter(SubSeq(list, 1, c), ids),
                    Filter(SubSeq(list, c + 1, Len(list)), ids))
<1> DEFINE n == Len(list)
           h == SubSeq(list, 1, c)
           t == SubSeq(list, c + 1, n)
           before == SubSeq(list, 1, c - 1)
           head == Filter(h, ids)
           tail == Filter(t, ids)
<1>0. 0 \in Nat
  OBVIOUS
<1>1. n \in Nat /\ c \in Nat /\ c <= n /\ c - 1 \in Nat /\ c - 1 <= c /\ c >= 1
  OBVIOUS
<1>2. h \in Seq(S) /\ Len(h) = c /\ \A i \in 1..c : h[i] = list[i]
  <2>1. 0 + 1 = 1 /\ c - 0 = c /\ 0 <= c /\ \A i \in 1..c : 0 + i = i
    BY <1>1
  <2>2. /\ SubSeq(list, 0 + 1, c) \in Seq(S) /\ Len(SubSeq(list, 0 + 1, c)) = c - 0
        /\ \A i \in 1..(c - 0) : SubSeq(list, 0 + 1, c)[i] = list[0 + i]
    BY <1>1, <2>1, <1>0, Stretch
  <2> QED
    BY <2>1, <2>2
<1>3. t \in Seq(S) /\ Len(t) = n - c /\ \A i \in 1..(n - c) : t[i] = list[c + i]
  BY <1>1, Stretch
<1>4. before \in Seq(S)
  <2>1. 0 + 1 = 1 /\ 0 <= c - 1 /\ c - 1 <= n
    BY <1>1
  <2>2. SubSeq(list, 0 + 1, c - 1) \in Seq(S)
    BY <1>0, <1>1, <2>1, Stretch, SMTT(30)
  <2> QED
    BY <2>1, <2>2
<1>5. h \o t = list
  <2>1. h \o t = SubSeq(list, 1, n)
    BY <1>1, StretchesJoin
  <2>2. SubSeq(list, 1, n) = list
    OBVIOUS
  <2> QED
    BY <2>1, <2>2
<1>6. before \o <<list[c]>> = h
  <2>1. SubSeq(list, 1, c - 1) \o SubSeq(list, (c - 1) + 1, c) = SubSeq(list, 1, c)
    BY <1>1, StretchesJoin
  <2>2. c = (c - 1) + 1
    BY <1>1
  <2>3. SubSeq(list, (c - 1) + 1, c) = <<list[c]>>
    BY <1>1, <2>2, OneStretch
  <2> QED
    BY <2>1, <2>3
<1> HIDE DEF n, h, t, before
<1>7. head \in Seq(S) /\ tail \in Seq(S) /\ ToSet(head) = ToSet(h) \cap ids
      /\ ToSet(tail) = ToSet(t) \cap ids
  BY <1>2, <1>3, Filtered
<1>8. Filter(list, ids) = head \o tail
  <2>1. h \in Seq(S) /\ t \in Seq(S)
    BY <1>2, <1>3
  <2>2. Filter(h \o t, ids) = Filter(h, ids) \o Filter(t, ids)
    BY <2>1, FilterConcat, SMTT(30)
  <2> QED
    BY <1>5, <2>2
<1>9. ASSUME list[c] \in ids PROVE Len(head) >= 1 /\ head[Len(head)] = list[c]
  <2> DEFINE one == <<list[c]>>
             b == Filter(before, ids)
  <2>1. one \in Seq(S) /\ ToSet(one) = {list[c]} /\ Len(one) = 1 /\ one[1] = list[c]
    BY <1>1 DEF ToSet, n
  <2> HIDE DEF one
  <2>2. before \in Seq(S) /\ one \in Seq(S)
    BY <1>4, <2>1
  <2>3. Filter(before \o one, ids) = Filter(before, ids) \o Filter(one, ids)
    BY <2>2, FilterConcat
  <2>4. Filter(one, ids) = one
    <3>1. ToSet(one) \subseteq ids
      BY <1>9, <2>1
    <3> QED
      BY <2>2, <3>1, FilterAll
  <2>5. head = b \o one
    BY <1>6, <2>3, <2>4 DEF one
  <2>6. b \in Seq(S) /\ Len(b) \in Nat
    BY <1>4, Filtered
  <2> HIDE DEF b, head
  <2>7. Len(b \o one) = Len(b) + 1 /\ (b \o one)[Len(b) + 1] = list[c]
    BY <1>1, <2>6, LastOf DEF one, n
  <2> QED
    BY <2>5, <2>6, <2>7
<1>10. ASSUME list[c] \notin ids, NEW i \in 1..Len(head)
       PROVE  \E j \in 1..(c - 1) : head[i] = list[j]
  <2>1. head[i] \in ToSet(head)
    BY <1>7 DEF ToSet
  <2>2. head[i] \in ids /\ head[i] \in ToSet(h)
    BY <1>7, <2>1
  <2>3. PICK j \in 1..c : h[j] = head[i]
    <3> HIDE DEF head
    <3> QED
      BY <1>2, <2>2 DEF ToSet
  <2>4. head[i] = list[j]
    BY <1>2, <2>3
  <2>5. j # c
    BY <1>10, <2>2, <2>4
  <2>6. j \in 1..(c - 1)
    BY <1>1, <2>5
  <2> QED
    BY <2>4, <2>6
<1>11. ASSUME NEW i \in 1..Len(tail)
       PROVE  \E j \in (c + 1)..n : tail[i] = list[j]
  <2>1. tail[i] \in ToSet(tail)
    BY <1>7 DEF ToSet
  <2>2. tail[i] \in ToSet(t)
    BY <1>7, <2>1
  <2>3. PICK j \in 1..(n - c) : t[j] = tail[i]
    <3> HIDE DEF tail
    <3> QED
      BY <1>1, <1>3, <2>2 DEF ToSet
  <2>4. c + j \in (c + 1)..n /\ tail[i] = list[c + j]
    BY <1>1, <1>3, <2>3
  <2> QED
    BY <2>4
<1> HIDE DEF head, tail
<1>12. IsCut(list, c, ids, head, tail)
  BY <1>8, <1>9, <1>10, <1>11 DEF IsCut, n
<1> QED
  BY <1>7, <1>12 DEF head, tail, h, t, n

\* What a range query selects, in the order in which it was stored.
LEMMA RangeIsPart ==
    ASSUME ListingsInv, NEW s \in Subjects, NEW from, NEW to
    PROVE  LET selected == {id \in DOMAIN subjectIndex[s] : attestations[id].timestamp \in from..to}
           IN  /\ InRange(s, from, to) = Filter(inserted[s], selected)
               /\ ToSet(InRange(s, from, to)) = selected
               /\ IsInjective(InRange(s, from, to))
<1> DEFINE bag == DOMAIN subjectIndex[s]
           shown == {id \in DOMAIN attestations : ~attestations[id].deleted}
           dated == {id \in DOMAIN attestations : attestations[id].timestamp \in from..to}
           selected == {id \in bag : attestations[id].timestamp \in from..to}
           all == inserted[s]
<1>1. /\ all \in Seq(AboutIds(s)) /\ IsInjective(all) /\ ToSet(all) = AboutIds(s)
      /\ subjectList[s] = Filter(all, bag)
  BY DEF ListingsInv, ListInv, IsListOf
<1>2. (bag \cap shown) \cap dated = selected /\ selected \subseteq AboutIds(s)
  BY DEF ListingsInv, IndexInv, SubjectIndexExact, AboutIds
<1>3. InRange(s, from, to) = Filter(Filter(subjectList[s], shown), dated)
  BY DEF InRange, Undeleted
<1> HIDE DEF bag, shown, dated, selected, all
<1>4. Filter(Filter(all, bag), shown) = Filter(all, bag \cap shown)
  BY <1>1, FilterTwice
<1>5. Filter(Filter(all, bag \cap shown), dated) = Filter(all, (bag \cap shown) \cap dated)
  BY <1>1, FilterTwice
<1>6. InRange(s, from, to) = Filter(all, selected)
  BY <1>1, <1>2, <1>3, <1>4, <1>5
<1>7. ToSet(Filter(all, selected)) = ToSet(all) \cap selected /\ IsInjective(Filter(all, selected))
  BY <1>1, Filtered
<1>8. ToSet(InRange(s, from, to)) = selected /\ IsInjective(InRange(s, from, to))
  BY <1>1, <1>2, <1>6, <1>7
<1> QED
  BY <1>6, <1>8 DEF selected, all, bag

\* The search finds the place in the list that the cursor has, or had.
LEMMA StartIsRight ==
    ASSUME TypeOK, Dated, NEW list, NEW head, NEW tail,
           head \in Seq(DOMAIN attestations), tail \in Seq(DOMAIN attestations),
           list = head \o tail, IsInjective(list), NEW cursor \in DOMAIN attestations,
           \/ Len(head) >= 1 /\ head[Len(head)] = cursor
           \/ /\ \A i \in 1..Len(head) : After(cursor, head[i])
              /\ \A i \in 1..Len(tail) : After(tail[i], cursor)
    PROVE  StartIndex(list, cursor) = Len(head)
<1> DEFINE a == Len(head)
           b == Len(tail)
           found == {k \in 1..Len(list) : list[k] = cursor}
           later == {k \in 1..Len(list) : After(list[k], cursor)}
<1>1. a \in Nat /\ b \in Nat
  OBVIOUS
<1>2. /\ Len(list) = a + b /\ DOMAIN list = 1..Len(list)
      /\ \A k \in 1..a : list[k] = head[k]
      /\ \A k \in 1..b : list[a + k] = tail[k]
  <2> DEFINE ht == head \o tail
  <2>1. /\ Len(ht) = a + b /\ DOMAIN ht = 1..Len(ht)
        /\ \A k \in 1..a : ht[k] = head[k]
        /\ \A k \in 1..b : ht[a + k] = tail[k]
    OBVIOUS
  <2>2. list = ht
    OBVIOUS
  <2> HIDE DEF ht
  <2> QED
    BY <2>1, <2>2
<1>3. /\ \A k \in 1..a : head[k] \in DOMAIN attestations
      /\ \A k \in 1..b : tail[k] \in DOMAIN attestations
  OBVIOUS
<1>4. found \in SUBSET (1..Len(list)) /\ later \in SUBSET (1..Len(list)) /\ Len(list) \in Nat
  BY <1>1, <1>2
<1>5. CASE Len(head) >= 1 /\ head[Len(head)] = cursor
  <2>1. a \in found
    BY <1>1, <1>2, <1>5
  <2>2. \A k \in found : k = a
    BY <1>1, <1>2, <1>5, <2>1 DEF IsInjective
  <2> HIDE DEF found, later, a, b
  <2>3. Min(found) \in found
    BY <1>4, <2>1, FirstPosition
  <2> QED
    BY <2>1, <2>2, <2>3 DEF StartIndex, found, a
<1>6. CASE /\ \A i \in 1..Len(head) : After(cursor, head[i])
           /\ \A i \in 1..Len(tail) : After(tail[i], cursor)
  <2>0. ~After(cursor, cursor)
    <3>1. Rank(cursor) \in Nat /\ attestations[cursor].timestamp \in Nat
      BY Ranked
    <3> QED
      BY <3>1 DEF After
  <2>1. ASSUME NEW k \in 1..a PROVE list[k] # cursor /\ ~After(list[k], cursor)
    <3>1. After(cursor, head[k]) /\ list[k] = head[k] /\ head[k] \in DOMAIN attestations
      BY <1>2, <1>3, <1>6
    <3>2. ~After(head[k], cursor)
      BY <3>1, AfterIsStrict
    <3> QED
      BY <2>0, <3>1, <3>2
  <2>2. ASSUME NEW k \in 1..b PROVE list[a + k] # cursor /\ After(list[a + k], cursor)
    BY <1>2, <1>6, <2>0
  <2>3. ASSUME NEW k \in 1..Len(list)
        PROVE  list[k] # cursor /\ (After(list[k], cursor) <=> k > a)
    <3>1. CASE k \in 1..a
      BY <1>1, <2>1, <3>1
    <3>2. CASE k \notin 1..a
      <4>1. k - a \in 1..b /\ a + (k - a) = k /\ k > a
        BY <1>1, <1>2, <3>2
      <4>2. list[a + (k - a)] # cursor /\ After(list[a + (k - a)], cursor)
        BY <2>2, <4>1
      <4> QED
        BY <4>1, <4>2
    <3> QED
      BY <3>1, <3>2
  <2>4. found = {}
    BY <2>3
  <2>5. \A k \in later : k > a
    BY <2>3
  <2>6. CASE later = {}
    <3>1. b = 0
      <4>1. b > 0 => a + 1 \in 1..Len(list) /\ a + 1 > a
        BY <1>1, <1>2
      <4>2. b > 0 => a + 1 \in later
        BY <2>3, <4>1
      <4> HIDE DEF later
      <4>3. ~(b > 0)
        BY <2>6, <4>2
      <4> QED
        BY <1>1, <4>3
    <3>2. Len(list) = a
      BY <1>1, <1>2, <3>1
    <3> HIDE DEF found, later, a, b
    <3> QED
      BY <2>4, <2>6, <3>2 DEF StartIndex, found, later, a
  <2>7. CASE later # {}
    <3>1. a + 1 \in later
      <4>1. PICK k \in later : TRUE
        BY <2>7
      <4>2. k \in 1..Len(list) /\ k > a
        BY <2>5
      <4>3. a + 1 \in 1..Len(list) /\ a + 1 > a
        BY <1>1, <1>2, <4>2
      <4> QED
        BY <2>3, <4>3
    <3>2. Min(later) \in later /\ Min(later) <= a + 1
      <4> HIDE DEF later
      <4> QED
        BY <1>4, <2>7, <3>1, FirstPosition
    <3> HIDE DEF found, later, a, b
    <3>3. Min(later) > a /\ Min(later) \in 1..Len(list)
      BY <1>4, <2>5, <3>2
    <3> DEFINE m == Min(later)
    <3>5. m \in Int /\ m > a /\ m <= a + 1
      BY <1>4, <3>2, <3>3
    <3> HIDE DEF m
    <3>6. m - 1 = a
      BY <1>1, <3>5
    <3>4. Min(later) - 1 = a
      BY <3>6 DEF m
    <3> QED
      BY <2>4, <2>7, <3>4 DEF StartIndex, found, later, a
  <2> QED
    BY <2>6, <2>7
<1> QED
  BY <1>5, <1>6

\* A page after a cursor starts with the first entry stored after it.
LEMMA CursorsResume ==
    ASSUME ListingsInv, Dated, NEW s \in Subjects, NEW from \in 0..MaxTime,
           NEW to \in from..MaxTime, NEW c \in 1..Len(inserted[s]), NEW limit \in 1..MaxAttestations,
           attestations[inserted[s][c]].timestamp \in from..to,
           inserted[s][c] \in ToSet(subjectList[s]) \/ StoredInOrder(s)
    PROVE  LET cursor == inserted[s][c]
               selected == ToSet(InRange(s, from, to))
               rest == Filter(SubSeq(inserted[s], c + 1, Len(inserted[s])), selected)
           IN  get_attestations_in_range_after(s, from, to, cursor, limit)
                  = paginate(rest, 0, limit)
<1> DEFINE all == inserted[s]
           n == Len(all)
           cursor == all[c]
           list == InRange(s, from, to)
           selected == ToSet(list)
           head == Filter(SubSeq(all, 1, c), selected)
           rest == Filter(SubSeq(all, c + 1, n), selected)
           S == AboutIds(s)
<1>1. all \in Seq(S) /\ \A i \in 1..n : all[i] \in S
  BY DEF ListingsInv, ListInv, IsListOf
<1>2. n \in Nat /\ c \in 1..n
  BY <1>1
<1>3. S \subseteq DOMAIN attestations
  BY DEF AboutIds
<1>4. /\ selected = {id \in DOMAIN subjectIndex[s] : attestations[id].timestamp \in from..to}
      /\ list = Filter(all, {id \in DOMAIN subjectIndex[s] : attestations[id].timestamp \in from..to})
      /\ IsInjective(list)
  BY RangeIsPart, ZenonT(60)
<1>5. list = Filter(all, selected)
  BY <1>4
<1>6. cursor \in DOMAIN attestations
  BY <1>1, <1>2, <1>3
<1>7. cursor \in ToSet(subjectList[s]) => cursor \in selected
  <2>1. ToSet(subjectList[s]) = DOMAIN subjectIndex[s]
    BY FlatList DEF IsListOf
  <2>2. attestations[cursor].timestamp \in from..to
    OBVIOUS
  <2> HIDE DEF cursor, selected, all, list
  <2> QED
    BY <1>4, <2>1, <2>2
<1>8. cursor \in ToSet(subjectList[s]) \/ StoredInOrder(s)
  OBVIOUS
<1>9. StoredInOrder(s) => \A j, k \in 1..n : j < k => After(all[k], all[j])
  BY DEF StoredInOrder
<1> HIDE DEF all, list, S
<1>10. /\ head \in Seq(S) /\ rest \in Seq(S)
       /\ Filter(all, selected) = head \o rest
       /\ cursor \in selected => Len(head) >= 1 /\ head[Len(head)] = cursor
       /\ cursor \notin selected => \A i \in 1..Len(head) : \E j \in 1..(c - 1) : head[i] = all[j]
       /\ \A i \in 1..Len(rest) : \E j \in (c + 1)..n : rest[i] = all[j]
  <2>1. head \in Seq(S) /\ rest \in Seq(S) /\ IsCut(all, c, selected, head, rest)
    <3> HIDE DEF selected
    <3> QED
      BY <1>1, <1>2, Cut
  <2> HIDE DEF selected, head, rest
  <2> QED
    BY <2>1 DEF IsCut
<1> HIDE DEF selected, head, rest, cursor
<1>11. head \in Seq(DOMAIN attestations) /\ rest \in Seq(DOMAIN attestations)
  BY <1>3, <1>10
<1>12. \/ Len(head) >= 1 /\ head[Len(head)] = cursor
       \/ /\ \A i \in 1..Len(head) : After(cursor, head[i])
          /\ \A i \in 1..Len(rest) : After(rest[i], cursor)
  <2>1. CASE cursor \in selected
    BY <1>10, <2>1
  <2>2. CASE cursor \notin selected
    <3>1. \A j, k \in 1..n : j < k => After(all[k], all[j])
      BY <1>7, <1>8, <1>9, <2>2
    <3>2. ASSUME NEW i \in 1..Len(head) PROVE After(cursor, head[i])
      <4>1. PICK j \in 1..(c - 1) : head[i] = all[j]
        BY <1>10, <2>2
      <4>2. j \in 1..n /\ j < c
        BY <1>2, SMTT(30)
      <4>3. After(all[c], all[j])
        BY <1>2, <3>1, <4>2
      <4> QED
        BY <4>1, <4>3 DEF cursor
    <3>3. ASSUME NEW i \in 1..Len(rest) PROVE After(rest[i], cursor)
      <4>1. PICK j \in (c + 1)..n : rest[i] = all[j]
        BY <1>10
      <4>2. j \in 1..n /\ c < j
        BY <1>2
      <4>3. After(all[j], all[c])
        BY <1>2, <3>1, <4>2
      <4> QED
        BY <4>1, <4>3 DEF cursor
    <3> QED
      BY <3>2, <3>3
  <2> QED
    BY <2>1, <2>2
<1>13. list = head \o rest
  BY <1>5, <1>10
<1>14. StartIndex(list, cursor) = Len(head)
  BY <1>4, <1>6, <1>11, <1>12, <1>13, StartIsRight DEF ListingsInv
<1>15. paginate(list, Len(head), limit) = paginate(rest, 0, limit)
  <2>1. limit \in Nat
    BY BoundAssumption
  <2>2. paginate(head \o rest, Len(head), limit) = paginate(rest, 0, limit)
    BY <1>10, <2>1, PaginateRest
  <2> QED
    BY <1>13, <2>2
<1>16. from <= to /\ ~(from > to)
  BY BoundAssumption
<1>17. cursor # None /\ has_attestation(cursor)
  BY <1>6, Ranked DEF ListingsInv, has_attestation
<1>18. get_attestations_in_range_after(s, from, to, cursor, limit)
          = paginate(list, StartIndex(list, cursor), limit)
  BY <1>16, <1>17 DEF get_attestations_in_range_after, list
<1>19. get_attestations_in_range_after(s, from, to, cursor, limit) = paginate(rest, 0, limit)
  BY <1>14, <1>15, <1>18
<1> QED
  BY <1>19 DEF cursor, rest, all, selected, list

\* get_attestations_in_range_after resumes where the cursor was, whether it is
\* still listed or was revoked or deleted since.
THEOREM CursorsAlwaysResume == FeedSpec => []CursorResumes
<1>1. ListingsInv /\ Dated => CursorResumes
  BY CursorsResume DEF CursorResumes
<1> QED
  BY <1>1, ListingsInvariant, AlwaysDated, PTL

-----------------------------------------------------------------------------
(* The templates of an issuer and the list of their names                  *)

\* The table and the lists: an entry of the table is listed once under its
\* issuer, and nothing else is.
TemplatesInv ==
    /\ DOMAIN templates \subseteq Issuers \X Names
    /\ \A k \in DOMAIN templates : templates[k] \in Template
    /\ DOMAIN templateList = Issuers
    /\ \A i \in Issuers : IsListOf(templateList[i], {n \in Names : has_template(i, n)})

\* A list that gets one more name.
LEMMA NameIsPushed ==
    ASSUME NEW list, NEW ids, NEW n, IsListOf(list, ids), n \notin ids
    PROVE  IsListOf(Append(list, n), ids \cup {n}) /\ ListMoves(list, Append(list, n))
<1>1. IsListOf(<<n>>, {n}) /\ <<n>> # <<>>
  BY DEF IsListOf, IsInjective, ToSet
<1>2. list \in Seq(ids)
  BY DEF IsListOf
<1>3. Append(list, n) = list \o <<n>>
  <2>1. list \in Seq(ids \cup {n})
    BY <1>2, ListsTyped
  <2> QED
    BY <2>1
<1>4. ids \cap {n} = {}
  OBVIOUS
<1>5. IsListOf(list \o <<n>>, ids \cup {n})
  BY <1>1, <1>4, ListsConcat
<1>6. ListMoves(list, list \o <<n>>)
  BY <1>1, <1>4, ListGrows
<1> QED
  BY <1>3, <1>5, <1>6

\* Both functions that write a template push its name when it is a new one,
\* and leave the list alone when it is not, although one of them looks at the
\* table and the other at the list.
LEMMA WritesTemplate ==
    ASSUME TemplatesInv, NEW i \in Issuers, NEW n \in Names, NEW t \in Template,
           \/ set_template(i, n, t)
           \/ set_attestation_template(i, n, t)
    PROVE  /\ TemplatesInv'
           /\ \A j \in Issuers : ListMoves(templateList[j], templateList'[j])
<1> DEFINE names(j) == {m \in Names : has_template(j, m)}
<1>1. PutTemplate(i, n, t)
  BY DEF set_template, set_attestation_template
<1>2. /\ DOMAIN templates' = DOMAIN templates \cup {<<i, n>>}
      /\ \A k \in DOMAIN templates' : templates'[k] \in Template
  BY <1>1 DEF PutTemplate, TemplatesInv
<1>3. \A j \in Issuers : IsListOf(templateList[j], names(j))
  BY DEF TemplatesInv
<1>4. \A m \in Names : Listed(i, m) <=> has_template(i, m)
  <2>1. ToSet(templateList[i]) = names(i)
    BY <1>3 DEF IsListOf
  <2>2. \A m : Listed(i, m) <=> m \in ToSet(templateList[i])
    BY DEF Listed, ToSet
  <2> QED
    BY <2>1, <2>2
<1>5. IF has_template(i, n) THEN UNCHANGED templateList ELSE PushName(i, n)
  BY <1>4 DEF set_template, set_attestation_template
<1>6. \A j \in Issuers : names(j)' = names(j) \cup (IF j = i THEN {n} ELSE {})
  BY <1>2 DEF has_template
<1>7. /\ DOMAIN templateList' = Issuers
      /\ \A j \in Issuers : templateList'[j] =
            IF j = i /\ ~has_template(i, n) THEN Append(templateList[j], n)
                                            ELSE templateList[j]
  BY <1>5 DEF PushName, TemplatesInv
<1>8. ASSUME NEW j \in Issuers
      PROVE  IsListOf(templateList'[j], names(j)') /\ ListMoves(templateList[j], templateList'[j])
  <2>1. CASE j = i /\ ~has_template(i, n)
    <3>1. n \notin names(j) /\ names(j)' = names(j) \cup {n}
      BY <1>6, <2>1
    <3>2. templateList'[j] = Append(templateList[j], n)
      BY <1>7, <2>1
    <3>3. IsListOf(templateList[j], names(j))
      BY <1>3
    <3> HIDE DEF names
    <3> QED
      BY <3>1, <3>2, <3>3, NameIsPushed
  <2>2. CASE ~(j = i /\ ~has_template(i, n))
    <3>1. names(j)' = names(j) /\ templateList'[j] = templateList[j]
      BY <1>6, <1>7, <2>2
    <3> HIDE DEF names
    <3> QED
      BY <1>3, <3>1 DEF ListMoves
  <2> QED
    BY <2>1, <2>2
<1>9. DOMAIN templates' \subseteq Issuers \X Names
  BY <1>2 DEF TemplatesInv
<1> QED
  BY <1>2, <1>7, <1>8, <1>9 DEF TemplatesInv, has_template

\* delete_template takes the name out of the table and out of the list.
LEMMA RemovesTemplate ==
    ASSUME TemplatesInv, NEW i \in Issuers, NEW n \in Names, remove_template(i, n)
    PROVE  /\ TemplatesInv'
           /\ \A j \in Issuers : ListMoves(templateList[j], templateList'[j])
<1> DEFINE names(j) == {m \in Names : has_template(j, m)}
           kept == ToSet(templateList[i]) \ {n}
<1>1. /\ DOMAIN templates' = DOMAIN templates \ {<<i, n>>}
      /\ \A k \in DOMAIN templates' : templates'[k] = templates[k]
  BY DEF remove_template
<1>2. \A j \in Issuers : IsListOf(templateList[j], names(j))
  BY DEF TemplatesInv
<1>3. \A j \in Issuers : names(j)' = names(j) \ (IF j = i THEN {n} ELSE {})
  BY <1>1 DEF has_template
<1>4. /\ DOMAIN templateList' = Issuers
      /\ \A j \in Issuers : templateList'[j] =
            IF j = i THEN Filter(templateList[j], kept) ELSE templateList[j]
  BY DEF remove_template, TemplatesInv
<1>5. names(i) \cap kept = names(i) \ {n}
  <2>1. ToSet(templateList[i]) = names(i)
    BY <1>2 DEF IsListOf
  <2> QED
    BY <2>1
<1>6. kept \in SUBSET ToSet(templateList[i])
  OBVIOUS
<1> HIDE DEF kept
<1>7. ASSUME NEW j \in Issuers
      PROVE  IsListOf(templateList'[j], names(j)') /\ ListMoves(templateList[j], templateList'[j])
  <2>1. IsListOf(templateList[j], names(j))
    BY <1>2
  <2>2. CASE j = i
    <3>1. templateList'[j] = Filter(templateList[j], kept)
      BY <1>4, <2>2
    <3>2. names(j)' = names(j) \cap kept
      BY <1>3, <1>5, <2>2
    <3>3. kept \in SUBSET ToSet(templateList[j])
      BY <1>6, <2>2
    <3> HIDE DEF names
    <3>4. IsListOf(Filter(templateList[j], kept), names(j) \cap kept)
      BY <2>1, ListsFiltered
    <3> QED
      BY <3>1, <3>2, <3>3, <3>4 DEF ListMoves
  <2>3. CASE j # i
    <3>1. names(j)' = names(j) /\ templateList'[j] = templateList[j]
      BY <1>3, <1>4, <2>3
    <3> HIDE DEF names
    <3> QED
      BY <2>1, <3>1 DEF ListMoves
  <2> QED
    BY <2>2, <2>3
<1>8. /\ DOMAIN templates' \subseteq Issuers \X Names
      /\ \A k \in DOMAIN templates' : templates'[k] \in Template
  BY <1>1 DEF TemplatesInv
<1> QED
  BY <1>4, <1>7, <1>8 DEF TemplatesInv, has_template

\* What every step does to the table and the lists.
LEMMA TemplatesMove ==
    ASSUME TemplatesInv, [TemplateNext \/ SettingsNext]_allTemplateVars
    PROVE  /\ TemplatesInv'
           /\ \A j \in Issuers : ListMoves(templateList[j], templateList'[j])
<1>1. CASE UNCHANGED <<templates, templateList>>
  BY <1>1 DEF TemplatesInv, has_template, ListMoves
<1>2. CASE \E i \in Issuers, n \in Names, c \in ClaimTypes, l \in Lifetimes :
              create_template(i, n, c, l)
  <2>1. PICK i \in Issuers, n \in Names, c \in ClaimTypes, l \in Lifetimes :
           create_template(i, n, c, l)
    BY <1>2
  <2>2. [claimType |-> c, lifetime |-> l] \in Template
    BY LifetimeAssumption DEF Template
  <2> QED
    BY <2>1, <2>2, WritesTemplate DEF create_template
<1>3. CASE \E i \in Issuers, n \in Names, c \in ClaimTypes : save_template(i, n, c)
  <2>1. PICK i \in Issuers, n \in Names, c \in ClaimTypes : save_template(i, n, c)
    BY <1>3
  <2>2. [claimType |-> c, lifetime |-> None] \in Template
    BY DEF Template, OptionTime
  <2> QED
    BY <2>1, <2>2, WritesTemplate DEF save_template
<1>4. CASE \E i \in Issuers, n \in Names : delete_template(i, n)
  BY <1>4, RemovesTemplate DEF delete_template
<1>5. CASE UNCHANGED allTemplateVars
  BY <1>1, <1>5 DEF allTemplateVars, templateVars
<1>6. CASE SettingsNext
  BY <1>1, <1>6 DEF SettingsNext, templateVars
<1>7. CASE FromTemplate
  BY <1>1, <1>7 DEF FromTemplate, create_attestation_from_template, templateVars
<1>8. CASE \E b \in RegistryFlags : set_template_flag(b)
  BY <1>1, <1>8 DEF set_template_flag
<1> QED
  BY <1>2, <1>3, <1>4, <1>5, <1>6, <1>7, <1>8 DEF TemplateNext

\* At first there are no templates.
LEMMA InitTemplates == TemplatesInit => TemplatesInv
<1> SUFFICES ASSUME TemplatesInit PROVE TemplatesInv
  OBVIOUS
<1>1. DOMAIN templates = {} /\ DOMAIN templateList = Issuers
  BY DEF TemplatesInit
<1>2. ASSUME NEW i \in Issuers
      PROVE  IsListOf(templateList[i], {n \in Names : has_template(i, n)})
  <2>1. {n \in Names : has_template(i, n)} = {} /\ templateList[i] = <<>>
    BY <1>1 DEF TemplatesInit, has_template
  <2>2. IsListOf(<<>>, {})
    BY DEF IsListOf, IsInjective, ToSet
  <2> QED
    BY <2>1, <2>2
<1> QED
  BY <1>1, <1>2 DEF TemplatesInv

\* list_templates lists exactly the templates that get_template finds.
LEMMA ListIsExact == TemplatesInv => TemplateListExact
<1> SUFFICES ASSUME TemplatesInv, NEW i \in Issuers
             PROVE  /\ \A n \in Names :
                          (\E k \in DOMAIN templateList[i] : templateList[i][k] = n)
                             <=> get_template(i, n) # None
                    /\ \A j, k \in DOMAIN templateList[i] :
                          templateList[i][j] = templateList[i][k] => j = k
  BY DEF TemplateListExact, list_templates
<1>1. /\ IsInjective(templateList[i])
      /\ ToSet(templateList[i]) = {n \in Names : has_template(i, n)}
  BY DEF TemplatesInv, IsListOf
<1>2. \A n : get_template(i, n) # None <=> has_template(i, n)
  BY TemplateAssumption DEF get_template, TemplatesInv, has_template
<1>3. \A j, k \in DOMAIN templateList[i] : templateList[i][j] = templateList[i][k] => j = k
  BY <1>1 DEF IsInjective
<1>4. \A n : (\E k \in DOMAIN templateList[i] : templateList[i][k] = n)
               <=> n \in ToSet(templateList[i])
  BY DEF ToSet
<1> QED
  BY <1>1, <1>2, <1>3, <1>4

\* The abstract lists of names filter as remove_template does.
LEMMA NameFilter ==
    \A list, ids : TemplateLists!Filter(list, ids) = Filter(list, ids)
BY Zenon DEF TemplateLists!Filter, TemplateLists!Positions, TemplateLists!Place,
             TemplateLists!Cardinality, Filter, Positions, Place, Cardinality

\* A move of a list of names is a step of the abstract lists.
LEMMA NamesMove ==
    ASSUME NEW old, NEW new, ListMoves(old, new)
    PROVE  \/ new = old
           \/ TemplateLists!IsStrictPrefix(old, new) /\ TemplateLists!IsInjective(new)
           \/ \E kept \in SUBSET TemplateLists!ToSet(old) :
                 new = TemplateLists!Filter(old, kept)
BY NameFilter
   DEF ListMoves, IsStrictPrefix, IsPrefix, IsInjective, ToSet,
       TemplateLists!IsStrictPrefix, TemplateLists!IsPrefix,
       TemplateLists!IsInjective, TemplateLists!ToSet

\* The names list_templates gives stay in the order of their creation and are
\* those of the templates there are, through create_template, save_template
\* and delete_template.
THEOREM TemplateListsImplementIdList == TemplatesSpec => ImplementsTemplateLists
<1>1. TemplatesInit => TemplateLists!Init
  BY DEF TemplatesInit, TemplateLists!Init
<1>2. ASSUME TemplatesInv, [TemplateNext \/ SettingsNext]_allTemplateVars
      PROVE  TemplatesInv' /\ [TemplateLists!Next]_templateList
  <2>1. TemplatesInv' /\ \A j \in Issuers : ListMoves(templateList[j], templateList'[j])
    BY <1>2, TemplatesMove
  <2>2. ASSUME NEW j \in Issuers
        PROVE  templateList'[j] = templateList[j] \/ TemplateLists!AddIds(j)
                  \/ TemplateLists!RemoveIds(j)
    <3>1. ListMoves(templateList[j], templateList'[j])
      BY <2>1
    <3> QED
      BY <3>1, NamesMove DEF TemplateLists!AddIds, TemplateLists!RemoveIds
  <2> QED
    BY <2>1, <2>2 DEF TemplateLists!Next
<1> QED
  BY <1>1, <1>2, InitTemplates, ListIsExact, PTL
     DEF TemplatesSpec, TemplateLists!Spec, ImplementsTemplateLists

\* What create_attestation_from_template stores is named and dated by the
\* arguments that create_attestation_internal has checked.
LEMMA TemplateIssues ==
    ASSUME FromTemplate, NEW id \in DOMAIN attestations' \ DOMAIN attestations
    PROVE  /\ id.issuer \in issuers
           /\ requireRegistered => id.claimType \in claimRegistry
           /\ id.issuer \in whitelistMode => <<id.issuer, id.subject>> \in whitelist
           /\ attestations'[id].expiration # None => attestations'[id].expiration > now
<1>1. PICK i \in Issuers, n \in Names, s \in Subjects, e \in Expirations :
         create_attestation_from_template(i, n, s, e)
  BY DEF FromTemplate
<1> DEFINE template == templates[<<i, n>>]
           resolved == ResolvedExpiration(template, e)
           new == generate_id(i, s, template.claimType, now)
           a == NewAttestation(i, s, template.claimType, now, resolved, None, "Native")
<1>2. create_attestation_internal(i, s, template.claimType, resolved, None)
  BY <1>1 DEF create_attestation_from_template
<1> HIDE DEF resolved
<1>3. /\ i \in issuers
      /\ requireRegistered => template.claimType \in claimRegistry
      /\ i \in whitelistMode => <<i, s>> \in whitelist
      /\ resolved # None => resolved > now
      /\ Create(new, a, i)
  BY <1>2 DEF create_attestation_internal, require_issuer, require_registered_claim_type,
              WhitelistAllows, validate_native_expiration
<1>4. New = {new} /\ attestations'[new] = a
  BY <1>3, CreatedIsNew
<1>5. id = new
  BY <1>4 DEF New
<1>6. new.issuer = i /\ new.claimType = template.claimType /\ new.subject = s
  BY DEF generate_id
<1>7. a.expiration = resolved
  BY DEF NewAttestation
<1> HIDE DEF new, a
<1> QED
  BY <1>3, <1>4, <1>5, <1>6, <1>7

\* create_attestation_from_template issues under the rules in force when it is
\* called, not those of the time the template was written.
THEOREM TemplatesNeverExempt == TemplatesSpec => TemplatesGiveNoExemption
<1>1. FromTemplate =>
         \A id \in DOMAIN attestations' \ DOMAIN attestations :
            /\ id.issuer \in issuers
            /\ requireRegistered => id.claimType \in claimRegistry
            /\ id.issuer \in whitelistMode => <<id.issuer, id.subject>> \in whitelist
            /\ attestations'[id].expiration # None => attestations'[id].expiration > now
  BY TemplateIssues
<1> QED
  BY <1>1, PTL DEF TemplatesSpec, TemplatesGiveNoExemption
=============================================================================
