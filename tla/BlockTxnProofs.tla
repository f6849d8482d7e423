--------------------------- MODULE BlockTxnProofs ---------------------------
(***************************************************************************)
(* Lemmas about the transactions and the pages of the block store, and     *)
(* about the filter of a store whatever its hash function, for the proofs  *)
(* about the components that use them.                                     *)
(***************************************************************************)
EXTENDS BlockTxn, Bloom, FiniteSetTheorems, TLAPS
-----------------------------------------------------------------------------
(* The transactions, one lemma per fact.                                   *)

\* Put's transaction maps databases to databases.
LEMMA StoredType ==
  ASSUME NEW d \in DB, NEW r \in Ref
  PROVE  Stored(d, r) \in DB
BY DEF Stored, DB

\* What Put's transaction does to each part of the database.
LEMMA StoredParts ==
  ASSUME NEW d \in DB, NEW r \in Ref
  PROVE  /\ Stored(d, r).block = {b \in d.block : b.id # r.id} \cup {r}
         /\ Stored(d, r).trav =
              {e \in d.trav :
                 ~(/\ e.id = r.id
                   /\ \/ e.createdAt = r.createdAt
                      \/ \E b \in d.block :
                           b.id = r.id /\ b.createdAt = e.createdAt)}
              \cup {r}
         /\ Stored(d, r).tomb = d.tomb
BY DEF Stored, DB

\* What the transaction of one eviction does to each part of the database.
LEMMA EvictParts ==
  ASSUME NEW d \in DB, NEW c \in Ref, NEW n \in Nat
  PROVE  /\ EvictTxn(d, c, n) \in DB
         /\ EvictTxn(d, c, n).block = {b \in d.block : b.id # c.id}
         /\ EvictTxn(d, c, n).trav =
              {e \in d.trav : ~(e.id = c.id /\ e.createdAt = c.createdAt)}
         /\ EvictTxn(d, c, n).tomb = [d.tomb EXCEPT ![c.id] = n + 2 * TTL[c.wf]]
         /\ TTL[c.wf] \in Nat \ {0}
<1>1. TTL[c.wf] \in Nat \ {0}
  BY TTLAssumption DEF Ref, WF
<1>2. d.tomb \in [ID -> Nat] /\ c.id \in ID /\ n + 2 * TTL[c.wf] \in Nat
  BY <1>1 DEF DB, Ref
<1>3. [d.tomb EXCEPT ![c.id] = n + 2 * TTL[c.wf]] \in [ID -> Nat]
  BY <1>2
<1> QED
  BY <1>1, <1>3 DEF EvictTxn, DB

\* An eviction stores nothing, and removes its victim.
LEMMA EvictShrinks ==
  ASSUME NEW d \in DB, NEW c \in Ref, NEW n \in Nat
  PROVE  /\ EvictTxn(d, c, n) \in DB
         /\ EvictTxn(d, c, n).block \subseteq d.block
         /\ EvictTxn(d, c, n).trav \subseteq d.trav
         /\ \A b \in d.block : b.id # c.id => b \in EvictTxn(d, c, n).block
<1>1. EvictTxn(d, c, n) \in DB
  BY EvictParts
<1>2. /\ EvictTxn(d, c, n).block = {b \in d.block : b.id # c.id}
      /\ EvictTxn(d, c, n).trav =
           {e \in d.trav : ~(e.id = c.id /\ e.createdAt = c.createdAt)}
  BY DEF EvictTxn, DB
<1> QED
  BY <1>1, <1>2

\* What every transaction leaves true of the database, at time n.
Consistent(d, n) ==
  /\ \A b, c \in d.block : b.id = c.id => b = c
  /\ \A e, f \in d.trav : e.id = f.id /\ e.createdAt = f.createdAt => e = f
  /\ d.block \subseteq d.trav
  /\ \A b \in d.block : ~(d.tomb[b.id] > n)
  /\ \A e \in d.trav \ d.block : d.tomb[e.id] > e.createdAt
  /\ \A e \in d.trav : e.createdAt <= n

\* Put's transaction, whatever it stores and however old its clock reading,
\* keeps the database consistent.
LEMMA PutConsistent ==
  ASSUME NEW d \in DB, NEW r \in Ref, NEW n \in Nat,
         Consistent(d, n), r.createdAt <= n
  PROVE  Consistent(PutTxn(d, r, n), n)
<1>1. CASE Refused(d, r, n)
  BY <1>1 DEF PutTxn
<1>2. CASE ~Refused(d, r, n)
  <2> DEFINE s == Stored(d, r)
  <2>1. PutTxn(d, r, n) = s
    BY <1>2 DEF PutTxn
  <2>2. /\ s.block = {b \in d.block : b.id # r.id} \cup {r}
        /\ s.trav = {e \in d.trav :
                      ~(/\ e.id = r.id
                        /\ \/ e.createdAt = r.createdAt
                           \/ \E b \in d.block :
                                b.id = r.id /\ b.createdAt = e.createdAt)}
                   \cup {r}
        /\ s.tomb = d.tomb
    BY StoredParts
  <2> HIDE DEF s
  <2>3. \A b, c \in s.block : b.id = c.id => b = c
    BY <2>2 DEF Consistent
  <2>4. \A e, f \in s.trav : e.id = f.id /\ e.createdAt = f.createdAt => e = f
    BY <2>2 DEF Consistent
  <2>5. s.block \subseteq s.trav
    BY <2>2 DEF Consistent
  <2>6. \A b \in s.block : ~(s.tomb[b.id] > n)
    BY <1>2, <2>2 DEF Consistent, Refused, Tombstoned
  <2>7. \A e \in s.trav \ s.block : s.tomb[e.id] > e.createdAt
    <3> SUFFICES ASSUME NEW e \in s.trav \ s.block
                 PROVE  d.tomb[e.id] > e.createdAt
      BY <2>2
    <3>1. e \in d.trav /\ e # r
      BY <2>2
    <3>2. e \notin d.block
      BY <2>2, <3>1
    <3> QED
      BY <3>1, <3>2 DEF Consistent
  <2>8. \A e \in s.trav : e.createdAt <= n
    BY <2>2 DEF Consistent
  <2> QED
    BY <2>1, <2>3, <2>4, <2>5, <2>6, <2>7, <2>8 DEF Consistent
<1> QED
  BY <1>1, <1>2

\* So does the transaction of an eviction, however stale the scan its victim
\* comes from.
LEMMA EvictConsistent ==
  ASSUME NEW d \in DB, NEW c \in Ref, NEW n \in Nat, Consistent(d, n)
  PROVE  Consistent(EvictTxn(d, c, n), n)
<1> DEFINE s == EvictTxn(d, c, n)
<1>1. /\ s.block = {b \in d.block : b.id # c.id}
      /\ s.trav = {e \in d.trav : ~(e.id = c.id /\ e.createdAt = c.createdAt)}
      /\ s.tomb = [d.tomb EXCEPT ![c.id] = n + 2 * TTL[c.wf]]
      /\ TTL[c.wf] \in Nat \ {0}
  BY EvictParts
<1> HIDE DEF s
<1>2. d.tomb \in [ID -> Nat] /\ d.block \subseteq Ref /\ d.trav \subseteq Ref
  BY DEF DB
<1>3. \A i \in ID : s.tomb[i] = IF i = c.id THEN n + 2 * TTL[c.wf] ELSE d.tomb[i]
  BY <1>1, <1>2
<1>4. \A b, e \in s.block : b.id = e.id => b = e
  BY <1>1 DEF Consistent
<1>5. \A e, f \in s.trav : e.id = f.id /\ e.createdAt = f.createdAt => e = f
  BY <1>1 DEF Consistent
<1>6. s.block \subseteq s.trav
  BY <1>1 DEF Consistent
<1>7. \A b \in s.block : ~(s.tomb[b.id] > n)
  BY <1>1, <1>2, <1>3 DEF Consistent, Ref
<1>8. \A e \in s.trav \ s.block : s.tomb[e.id] > e.createdAt
  <2> SUFFICES ASSUME NEW e \in s.trav \ s.block
               PROVE  s.tomb[e.id] > e.createdAt
    OBVIOUS
  <2>1. e \in d.trav /\ e \in Ref /\ e.createdAt <= n
    BY <1>1, <1>2 DEF Consistent
  <2>2. CASE e.id = c.id
    BY <1>1, <1>3, <2>1, <2>2 DEF Ref
  <2>3. CASE e.id # c.id
    BY <1>1, <1>3, <2>1, <2>3 DEF Consistent, Ref
  <2> QED
    BY <2>2, <2>3
<1>9. \A e \in s.trav : e.createdAt <= n
  BY <1>1 DEF Consistent
<1> QED
  BY <1>4, <1>5, <1>6, <1>7, <1>8, <1>9 DEF Consistent, s
\* Time that passes keeps it consistent: tombstones expire, nothing appears.
LEMMA ConsistentLater ==
  ASSUME NEW d \in DB, NEW m \in Nat, NEW n \in Nat, m <= n, Consistent(d, m)
  PROVE  Consistent(d, n)
<1>1. /\ \A e \in d.trav : e.createdAt \in Nat /\ e.id \in ID
      /\ d.tomb \in [ID -> Nat] /\ d.block \subseteq d.trav
  BY DEF DB, Ref, Consistent
<1> QED
  BY <1>1 DEF Consistent

\* What a Put brings: at most its own reference, and no block loses work.
LEMMA PutBrings ==
  ASSUME NEW d \in DB, NEW r \in Ref, NEW n \in Nat
  PROVE  /\ PutTxn(d, r, n) \in DB
         /\ PutTxn(d, r, n).block \subseteq d.block \cup {r}
         /\ PutTxn(d, r, n).trav \subseteq d.trav \cup {r}
         /\ IsFiniteSet(d.trav) => IsFiniteSet(PutTxn(d, r, n).trav)
         /\ \A b \in d.block : \E c \in PutTxn(d, r, n).block : c.id = b.id /\ c.wf >= b.wf
<1>1. CASE Refused(d, r, n)
  <2>1. PutTxn(d, r, n) = d
    BY <1>1 DEF PutTxn
  <2>2. \A b \in d.block : b.wf \in Int
    BY DEF DB, Ref, WF
  <2> QED
    BY <2>1, <2>2
<1>2. CASE ~Refused(d, r, n)
  <2>1. PutTxn(d, r, n) = Stored(d, r)
    BY <1>2 DEF PutTxn
  <2>2. Stored(d, r) \in DB
    BY StoredType
  <2>3. Stored(d, r).block = {b \in d.block : b.id # r.id} \cup {r}
    BY StoredParts
  <2>4. Stored(d, r).trav \subseteq d.trav \cup {r}
    BY StoredParts
  <2>5. ASSUME IsFiniteSet(d.trav) PROVE IsFiniteSet(Stored(d, r).trav)
    <3>1. IsFiniteSet(d.trav \cup {r})
      BY <2>5, FS_AddElement
    <3> QED
      BY <2>4, <3>1, FS_Subset
  <2>6. \A b \in d.block : \E c \in Stored(d, r).block : c.id = b.id /\ c.wf >= b.wf
    <3> SUFFICES ASSUME NEW b \in d.block
                 PROVE  \E c \in Stored(d, r).block : c.id = b.id /\ c.wf >= b.wf
      OBVIOUS
    <3>1. b.wf \in Int /\ r.wf \in Int
      BY DEF DB, Ref, WF
    <3>2. b.id = r.id => r.wf >= b.wf
      BY <1>2, <3>1 DEF Refused
    <3> QED
      BY <2>3, <3>1, <3>2
  <2> QED
    BY <2>1, <2>2, <2>3, <2>4, <2>5, <2>6
<1> QED
  BY <1>1, <1>2

-----------------------------------------------------------------------------
(* The order of the index.                                                 *)

\* The entries of S have keys: index entries do, and so do file headers.
Keyed(S) == \A e \in S : e.createdAt \in Nat /\ e.id \in ID

\* No two entries of S have the same key.
KeysUnique(S) == \A e, f \in S : e.createdAt = f.createdAt /\ e.id = f.id => e = f

\* The entries of S before e.
Below(S, e) == {f \in S : KeyLess(f, e)}

\* The keys of an index are strictly and totally ordered.
LEMMA KeyOrder ==
  ASSUME NEW S, Keyed(S), KeysUnique(S)
  PROVE  /\ \A e \in S : ~KeyLess(e, e)
         /\ \A e, f, g \in S : KeyLess(e, f) /\ KeyLess(f, g) => KeyLess(e, g)
         /\ \A e, f \in S : e = f \/ KeyLess(e, f) \/ KeyLess(f, e)
<1>1. \A e \in S : e.createdAt \in Nat /\ e.id \in Nat
  BY IDAssumption DEF Keyed
<1> QED
  BY <1>1 DEF KeyLess, KeysUnique

\* A set of natural numbers that is not empty has a least element.
LEMMA LeastNatural ==
  ASSUME NEW T \in SUBSET Nat, T # {}
  PROVE  \E m \in T : \A n \in T : m <= n
<1>1. PICK x \in T : \A y \in T : ~(<<y, x>> \in OpToRel(<, Nat))
  BY NatLessThanWellFounded, WFMin, Zenon
<1>2. \A y \in T : ~(y < x)
  BY <1>1 DEF OpToRel
<1> QED
  BY <1>2

\* An entry before another has fewer entries before it.
LEMMA BelowGrows ==
  ASSUME NEW S, Keyed(S), KeysUnique(S), IsFiniteSet(S),
         NEW e \in S, NEW f \in S, KeyLess(e, f)
  PROVE  Cardinality(Below(S, e)) < Cardinality(Below(S, f))
<1>1. Below(S, e) \subseteq Below(S, f) /\ e \in Below(S, f) /\ e \notin Below(S, e)
  BY KeyOrder DEF Below
<1>2. IsFiniteSet(Below(S, e)) /\ IsFiniteSet(Below(S, f))
  BY FS_Subset DEF Below
<1>3. /\ Cardinality(Below(S, e)) \in Nat /\ Cardinality(Below(S, f)) \in Nat
      /\ Cardinality(Below(S, e)) <= Cardinality(Below(S, f))
      /\ Cardinality(Below(S, e)) # Cardinality(Below(S, f))
  BY <1>1, <1>2, FS_Subset, FS_CardinalityType
<1> QED
  BY <1>3
-----------------------------------------------------------------------------
(* The pages of the index.                                                 *)

\* A finite set of entries that is not empty has a last one.
LEMMA LastEntry ==
  ASSUME NEW S, Keyed(S), KeysUnique(S), IsFiniteSet(S), S # {}
  PROVE  \E e \in S : \A f \in S : ~KeyLess(e, f)
<1> DEFINE T == {Cardinality(S) - Cardinality(Below(S, e)) : e \in S}
<1>1. \A e \in S : /\ Cardinality(S) \in Nat /\ Cardinality(Below(S, e)) \in Nat
                   /\ Cardinality(Below(S, e)) <= Cardinality(S)
  BY FS_Subset, FS_CardinalityType DEF Below
<1>2. T \in SUBSET Nat /\ T # {}
  BY <1>1
<1>3. PICK m \in T : \A n \in T : m <= n
  <2> HIDE DEF T
  <2> QED BY <1>2, LeastNatural
<1>4. PICK e \in S : m = Cardinality(S) - Cardinality(Below(S, e))
  BY <1>3
<1>5. ASSUME NEW f \in S, KeyLess(e, f) PROVE FALSE
  <2>1. Cardinality(Below(S, e)) < Cardinality(Below(S, f))
    BY <1>5, BelowGrows
  <2>2. m <= Cardinality(S) - Cardinality(Below(S, f))
    BY <1>3
  <2> QED
    BY <2>1, <2>2, <1>1, <1>4
<1> QED
  BY <1>5

\* What ListBlocks promises its callers: a page holds entries that are
\* listable, and a listable entry that is not on the page is after the token
\* that is returned with it.  So a scan that goes on from the token until it
\* is empty passes no entry that stays where it is.
THEOREM PageComplete ==
  ASSUME NEW db, Keyed(db.trav), KeysUnique(db.trav), IsFiniteSet(db.trav),
         NEW cursor, NEW powFloor, NEW since, NEW limit \in Nat \ {0}
  PROVE  LET open == Listable(db, cursor, powFloor, since)
             refs == Page(db, cursor, limit, powFloor, since)
             next == NextCursor(refs, limit)
         IN  /\ refs \subseteq open /\ open \subseteq db.trav
             /\ next \in [createdAt : Nat, id : Nat]
             /\ \A e \in open \ refs : next # NoCursor /\ KeyLess(next, e)
<1> DEFINE open == Listable(db, cursor, powFloor, since)
           refs == Page(db, cursor, limit, powFloor, since)
           rank(e) == Cardinality(Below(open, e))
<1>1. Keyed(open) /\ open \subseteq db.trav
  BY DEF Listable, Keyed
<1>2. KeysUnique(open) /\ IsFiniteSet(open)
  BY <1>1, FS_Subset DEF KeysUnique
<1>3. refs = {e \in open : rank(e) < limit}
  BY DEF Page, Below
<1>4. Keyed(refs) /\ refs \subseteq open /\ KeysUnique(refs) /\ IsFiniteSet(refs)
  BY <1>1, <1>2, <1>3, FS_Subset DEF KeysUnique, Keyed
<1> HIDE DEF open, refs
<1>5. \A e \in open : rank(e) \in Nat
  BY <1>2, FS_Subset, FS_CardinalityType DEF Below
<1>6. ASSUME refs # {}
      PROVE  \E e \in refs : \A f \in refs : ~KeyLess(e, f)
  BY <1>4, <1>6, LastEntry
<1>7. ASSUME NEW last \in refs
      PROVE  /\ [createdAt |-> last.createdAt, id |-> last.id] \in [createdAt : Nat, id : Nat]
             /\ [createdAt |-> last.createdAt, id |-> last.id] # NoCursor
  <2>1. last.createdAt \in Nat /\ last.id \in Nat \ {0}
    BY <1>4, <1>7, IDAssumption DEF Keyed
  <2> QED
    BY <2>1 DEF NoCursor
<1>8. ASSUME Cardinality(refs) = limit
      PROVE  \E last \in refs : /\ \A f \in refs : ~KeyLess(last, f)
                                /\ NextCursor(refs, limit) =
                                     [createdAt |-> last.createdAt, id |-> last.id]
  <2>1. refs # {}
    BY <1>8, <1>4, FS_EmptySet
  <2> DEFINE last == CHOOSE e \in refs : \A f \in refs : ~KeyLess(e, f)
  <2>2. last \in refs /\ \A f \in refs : ~KeyLess(last, f)
    BY <2>1, <1>6
  <2>3. NextCursor(refs, limit) = [createdAt |-> last.createdAt, id |-> last.id]
    BY <1>8 DEF NextCursor
  <2> HIDE DEF last
  <2> QED BY <2>2, <2>3
<1>9. NextCursor(refs, limit) \in [createdAt : Nat, id : Nat]
  <2>1. CASE Cardinality(refs) = limit
    <3>1. PICK last \in refs :
            NextCursor(refs, limit) = [createdAt |-> last.createdAt, id |-> last.id]
      BY <1>8, <2>1
    <3> QED BY <3>1, <1>7
  <2>2. CASE Cardinality(refs) # limit
    BY <2>2 DEF NextCursor, NoCursor
  <2> QED BY <2>1, <2>2
<1>10. ASSUME NEW b \in open \ refs
       PROVE  NextCursor(refs, limit) # NoCursor /\ KeyLess(NextCursor(refs, limit), b)
  <2> DEFINE T == {rank(e) : e \in open \ refs}
  <2>1. T \in SUBSET Nat /\ T # {}
    BY <1>5, <1>10
  <2>2. PICK n \in T : \A k \in T : n <= k
    <3> HIDE DEF T
    <3> QED BY <2>1, LeastNatural
  <2>3. PICK m \in open \ refs : n = rank(m)
    BY <2>2
  <2>4. rank(m) \in Nat /\ limit <= rank(m)
    BY <2>3, <1>3, <1>5
  <2>5. Below(open, m) = refs
    <3>1. ASSUME NEW e \in refs PROVE e \in Below(open, m)
      <4>1. e \in open /\ m \in open /\ rank(e) \in Nat /\ rank(e) < rank(m)
        BY <1>3, <1>4, <1>5, <2>4, <3>1
      <4>2. e = m \/ KeyLess(e, m) \/ KeyLess(m, e)
        BY <4>1, <1>1, <1>2, KeyOrder
      <4>3. ~KeyLess(m, e)
        <5> SUFFICES ASSUME KeyLess(m, e) PROVE FALSE
          OBVIOUS
        <5>1. rank(m) < rank(e)
          BY <4>1, <1>1, <1>2, BelowGrows
        <5> QED BY <5>1, <4>1, <2>4
      <4>4. e # m
        BY <3>1, <2>3
      <4> QED BY <4>1, <4>2, <4>3, <4>4 DEF Below
    <3>2. ASSUME NEW e \in Below(open, m) PROVE e \in refs
      <4>1. e \in open /\ KeyLess(e, m)
        BY <3>2 DEF Below
      <4>2. rank(e) < rank(m) /\ rank(e) \in Nat
        BY <4>1, <1>1, <1>2, <1>5, BelowGrows
      <4>3. SUFFICES ASSUME e \notin refs PROVE FALSE
        OBVIOUS
      <4>4. rank(e) \in T
        BY <4>1, <4>3
      <4> QED BY <4>2, <4>4, <2>2, <2>3, <2>4
    <3> QED BY <3>1, <3>2
  <2>6. Cardinality(refs) \in Nat /\ limit <= Cardinality(refs)
    BY <2>4, <2>5
  <2>7. refs # {}
    BY <2>6, FS_EmptySet
  <2>8. PICK M \in refs : \A f \in refs : ~KeyLess(M, f)
    BY <1>6, <2>7
  <2>9. Below(open, M) = refs \ {M}
    <3>1. ASSUME NEW e \in refs, e # M PROVE e \in Below(open, M)
      <4>1. e = M \/ KeyLess(e, M) \/ KeyLess(M, e)
        BY <1>4, KeyOrder
      <4> QED BY <4>1, <2>8, <3>1, <1>4 DEF Below
    <3>2. ASSUME NEW e \in Below(open, M) PROVE e \in refs /\ e # M
      <4>1. e \in open /\ KeyLess(e, M) /\ M \in open
        BY <3>2, <1>4 DEF Below
      <4>2. rank(e) < rank(M) /\ rank(e) \in Nat /\ rank(M) \in Nat /\ rank(M) < limit
        BY <4>1, <1>1, <1>2, <1>3, <1>5, BelowGrows
      <4> QED BY <4>1, <4>2, <1>3
    <3> QED BY <3>1, <3>2
  <2>10. Cardinality(refs) = limit
    <3>1. Cardinality(refs \ {M}) = Cardinality(refs) - 1
      BY <1>4, FS_RemoveElement
    <3>2. rank(M) < limit /\ rank(M) = Cardinality(refs) - 1
      BY <3>1, <2>9, <1>3
    <3> QED BY <3>2, <2>6
  <2>11. PICK last \in refs :
           NextCursor(refs, limit) = [createdAt |-> last.createdAt, id |-> last.id]
    BY <2>10, <1>8
  <2>12. KeyLess(last, b)
    <3>1. last \in open /\ b \in open /\ last # b
      BY <1>4, <1>10
    <3>2. last = b \/ KeyLess(last, b) \/ KeyLess(b, last)
      BY <3>1, <1>1, <1>2, KeyOrder
    <3>3. ASSUME KeyLess(b, last) PROVE FALSE
      <4>1. rank(b) < rank(last) /\ rank(last) < limit /\ rank(b) \in Nat /\ rank(last) \in Nat
        BY <3>1, <3>3, <1>1, <1>2, <1>3, <1>5, BelowGrows
      <4> QED BY <4>1, <1>3, <1>10
    <3> QED BY <3>1, <3>2, <3>3
  <2> QED
    BY <2>11, <2>12, <1>7 DEF KeyLess
<1> QED
  BY <1>1, <1>4, <1>9, <1>10 DEF open, refs
-----------------------------------------------------------------------------
(* The filter.                                                             *)

\* Capping a work factor keeps the order of work factors.
LEMMA LevelMonotone ==
  ASSUME NEW v \in Nat, NEW w \in Nat, v <= w
  PROVE  Level(v) \in 0..Level(w)
BY BloomAssumption DEF Level

\* Add at one level of work implies the bits of every lower one.
LEMMA BitsMonotone ==
  ASSUME NEW id, NEW v \in Nat, NEW w \in Nat, v <= w
  PROVE  Bits(id, v) \subseteq Bits(id, w)
<1>1. 0..Level(v) \subseteq 0..Level(w)
  BY BloomAssumption DEF Level
<1> QED
  BY <1>1 DEF Bits

\* "Never false-negative: if Add(id, k) was called with k >= wf, Has returns
\* true": the filter of a store shows every block of the store, at its work
\* factor and at every lower one, so a delta never lists a block back to a node
\* whose index already has it with that much work.
THEOREM NeverFalseNegative ==
  ASSUME NEW refs, NEW e \in refs, e.wf \in Nat, NEW wf \in Nat, wf <= e.wf
  PROVE  BloomHas(BloomOf(refs), e.id, wf)
<1>1. Level(wf) \in 0..Level(e.wf)
  BY LevelMonotone
<1>2. Probe(e.id, wf) \subseteq Bits(e.id, e.wf)
  <2>1. Level(Level(wf)) = Level(wf)
    BY BloomAssumption DEF Level
  <2>2. Probe(e.id, wf) = Probe(e.id, Level(wf))
    BY <2>1 DEF Probe
  <2>3. Probe(e.id, Level(wf)) \subseteq Bits(e.id, e.wf)
    BY <1>1 DEF Bits
  <2> QED
    BY <2>2, <2>3
<1>3. Bits(e.id, e.wf) \subseteq BloomOf(refs)
  BY DEF BloomOf
<1> QED
  BY <1>2, <1>3 DEF BloomHas

\* A filter only ever loses sight of a block when the store does: boosting a
\* block, or adding others, keeps every bit.
THEOREM BoostKeepsBits ==
  ASSUME NEW refs, NEW more,
         \A e \in refs : e.wf \in Nat,
         \A f \in more : f.wf \in Nat,
         \A e \in refs : \E f \in more : f.id = e.id /\ e.wf <= f.wf
  PROVE  BloomOf(refs) \subseteq BloomOf(more)
<1>1. SUFFICES ASSUME NEW e \in refs
               PROVE  Bits(e.id, e.wf) \subseteq BloomOf(more)
  BY DEF BloomOf
<1>2. PICK f \in more : f.id = e.id /\ e.wf <= f.wf
  OBVIOUS
<1>3. Bits(e.id, e.wf) \subseteq Bits(f.id, f.wf)
  BY <1>2, BitsMonotone
<1> QED
  BY <1>3 DEF BloomOf
=============================================================================
