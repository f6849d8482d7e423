-------------------------- MODULE BadgerStoreProofs -------------------------
(***************************************************************************)
(* Proofs about BadgerStore for any number of goroutines, ids and tags.    *)
(***************************************************************************)
EXTENDS BadgerStore, BlockTxnProofs

\* No createdAt lies in the future: not in the index, not in a block value,
\* and not in what a goroutine carries from one transaction to the next.
FromThePast ==
  /\ \A e \in db.trav : e.createdAt <= now
  /\ \A t \in Thread : \A r \in req[t] : r.createdAt <= now

\* The inductive invariant.  OrphanOnlyByEviction needs FromThePast: the
\* tombstone of an eviction expires after the current second, so after the
\* createdAt of any entry the eviction leaves behind.
IInv ==
  /\ TypeOK
  /\ BlockIndexed
  /\ TombExcludesBlock
  /\ OrphanOnlyByEviction
  /\ FromThePast
-----------------------------------------------------------------------------
(* Type correctness.                                                       *)

\* Evict's victims are among the candidates it scanned.
LEMMA VictimsAreCandidates ==
  ASSUME NEW S, NEW c \in Victims(S)
  PROVE  c \in S
BY DEF Victims

LEMMA TypeInit == Init => TypeOK
BY TimeAssumption, TTLAssumption DEF Init, TypeOK, EmptyDB, DB, PC, WF

\* Every step of every goroutine and of the environment keeps the types.
LEMMA TypeNext == TypeOK /\ [Next]_vars => TypeOK'
<1> SUFFICES ASSUME TypeOK, [Next]_vars PROVE TypeOK'
  OBVIOUS
<1> USE DEF TypeOK
<1>1. ASSUME NEW t \in Thread, NEW id \in ID, NEW wf \in WF, NEW tag \in Tag,
             PutCall(t, id, wf, tag)
      PROVE  TypeOK'
  <2>1. [id |-> id, createdAt |-> now, wf |-> wf, tag |-> tag] \in Ref
    BY TimeAssumption DEF Ref
  <2> QED
    BY <1>1, <2>1 DEF PutCall, PC
<1>2. ASSUME NEW t \in Thread, PutCommit(t) PROVE TypeOK'
  <2>1. PICK r \in req[t] : /\ db' = PutTxn(db, r, now)
                            /\ touched' = IF Refused(db, r, now)
                                          THEN touched \ {t}
                                          ELSE (touched \cup Invalidated(t, r.id)) \ {t}
    BY <1>2 DEF PutCommit
  <2>2. r \in Ref
    BY <2>1
  <2>3. db' \in DB
    BY <2>1, <2>2, StoredType DEF PutTxn
  <2>4. touched' \subseteq Thread
    BY <2>1 DEF Invalidated
  <2> QED
    BY <1>2, <2>3, <2>4 DEF PutCommit, PC
<1>3. ASSUME NEW t \in Thread, PutConflict(t) PROVE TypeOK'
  BY <1>3 DEF PutConflict, PC
<1>4. ASSUME NEW t \in Thread, SizeCheck(t) PROVE TypeOK'
  <2>1. OverLimit => (reported - StorageLimit) \div BlockSize + EvictBatch \in Nat
    BY SizeAssumption DEF OverLimit
  <2> QED
    BY <1>4, <2>1 DEF SizeCheck, PC
<1>5. ASSUME NEW t \in Thread, EvictScan(t) PROVE TypeOK'
  BY <1>5 DEF EvictScan, PC, DB
<1>6. ASSUME NEW t \in Thread, EvictOne(t) PROVE TypeOK'
  <2>1. PICK c \in Victims(cand[t]) :
               /\ cand' = [cand EXCEPT ![t] = @ \ {c}]
               /\ db' = EvictTxn(db, c, now)
               /\ touched' = touched \cup Invalidated(t, c.id)
    BY <1>6 DEF EvictOne
  <2>2. c \in Ref
    BY <2>1, VictimsAreCandidates
  <2>3. db' \in DB
    <3>1. now \in Nat
      BY TimeAssumption
    <3> QED
      BY <2>1, <2>2, <3>1, EvictParts
  <2>4. touched' \subseteq Thread
    BY <2>1 DEF Invalidated
  <2>5. need' \in [Thread -> Nat]
    BY <1>6 DEF EvictOne
  <2> QED
    BY <1>6, <2>1, <2>3, <2>4, <2>5 DEF EvictOne
<1>7. ASSUME NEW t \in Thread, EvictDone(t) \/ EvictFail(t) PROVE TypeOK'
  BY <1>7 DEF EvictDone, EvictFail, EvictReturn, PC
<1>8. CASE RefreshMedian
  BY <1>8 DEF RefreshMedian
<1>9. CASE ReportSize
  BY <1>9, SizeAssumption DEF ReportSize
<1>10. CASE Restart
  BY <1>10, TTLAssumption DEF Restart, PC, WF
<1>11. CASE Tick
  BY <1>11, TimeAssumption DEF Tick
<1>12. CASE UNCHANGED vars
  BY <1>12 DEF vars
<1> QED
  BY <1>1, <1>2, <1>3, <1>4, <1>5, <1>6, <1>7, <1>8, <1>9, <1>10, <1>11, <1>12
  DEF Next, Step

\* Type correctness of the store: every value the goroutines and the
\* transactions of badger.go produce lies where the model says it does.
THEOREM TypeCorrect == Spec => []TypeOK
<1>1. Init => TypeOK
  BY TypeInit
<1>2. TypeOK /\ [Next]_vars => TypeOK'
  BY TypeNext
<1> QED
  BY <1>1, <1>2, PTL DEF Spec
-----------------------------------------------------------------------------
(* The database invariant.                                                 *)

\* The database part of IInv is Consistent at the current time.
LEMMA IInvConsistent ==
  IInv <=> /\ TypeOK
           /\ Consistent(db, now)
           /\ \A t \in Thread : \A r \in req[t] : r.createdAt <= now
BY DEF IInv, BlockIndexed, TombExcludesBlock, OrphanOnlyByEviction, FromThePast,
       Consistent, Tombstoned

LEMMA IInvInit == Init => IInv
<1> SUFFICES ASSUME Init PROVE IInv
  OBVIOUS
<1>1. TypeOK
  BY TypeInit
<1>2. db.block = {} /\ db.trav = {} /\ \A t \in Thread : req[t] = {}
  BY DEF Init, EmptyDB
<1> QED
  BY <1>1, <1>2 DEF IInv, BlockIndexed, TombExcludesBlock, OrphanOnlyByEviction,
                    FromThePast

\* Each action keeps IInv.  Only PutCommit and EvictOne write the database;
\* PutCall and Restart change what the goroutines carry; Tick moves the clock.
LEMMA IInvNext == IInv /\ [Next]_vars => IInv'
<1> SUFFICES ASSUME IInv, [Next]_vars PROVE IInv'
  OBVIOUS
<1>1. TypeOK /\ TypeOK'
  BY TypeNext DEF IInv
<1>2. /\ Consistent(db, now)
      /\ \A t \in Thread : \A r \in req[t] : r.createdAt <= now
  BY IInvConsistent
<1>3. now \in Nat /\ now' \in Nat /\ db \in DB
  BY <1>1, TimeAssumption DEF TypeOK
<1> SUFFICES /\ Consistent(db', now')
             /\ \A t \in Thread : \A r \in req'[t] : r.createdAt <= now'
  BY <1>1 DEF IInv, BlockIndexed, TombExcludesBlock, OrphanOnlyByEviction,
             FromThePast, Consistent, Tombstoned
<1>4. ASSUME NEW t \in Thread, NEW id \in ID, NEW wf \in WF, NEW tag \in Tag,
             PutCall(t, id, wf, tag)
      PROVE  /\ Consistent(db', now')
             /\ \A u \in Thread : \A r \in req'[u] : r.createdAt <= now'
  <2>1. db' = db /\ now' = now
    BY <1>4 DEF PutCall
  <2>2. \A u \in Thread : req'[u] = IF u = t
                                   THEN {[id |-> id, createdAt |-> now,
                                          wf |-> wf, tag |-> tag]}
                                   ELSE req[u]
    BY <1>1, <1>4 DEF PutCall, TypeOK
  <2> QED
    BY <1>2, <1>3, <2>1, <2>2
<1>5. ASSUME NEW t \in Thread, PutCommit(t)
      PROVE  /\ Consistent(db', now')
             /\ \A u \in Thread : \A r \in req'[u] : r.createdAt <= now'
  <2>1. PICK r \in req[t] : db' = PutTxn(db, r, now)
    BY <1>5 DEF PutCommit
  <2>2. r \in Ref /\ r.createdAt <= now
    BY <1>1, <1>2, <2>1 DEF TypeOK
  <2>3. now' = now /\ \A u \in Thread : req'[u] \subseteq req[u]
    BY <1>1, <1>5 DEF PutCommit, TypeOK
  <2> QED
    BY <1>2, <1>3, <2>1, <2>2, <2>3, PutConsistent
<1>6. ASSUME NEW t \in Thread, EvictOne(t)
      PROVE  /\ Consistent(db', now')
             /\ \A u \in Thread : \A r \in req'[u] : r.createdAt <= now'
  <2>1. PICK c \in Victims(cand[t]) : db' = EvictTxn(db, c, now)
    BY <1>6 DEF EvictOne
  <2>2. c \in Ref
    BY <1>1, <2>1, VictimsAreCandidates DEF TypeOK
  <2>3. now' = now /\ req' = req
    BY <1>6 DEF EvictOne
  <2> QED
    BY <1>2, <1>3, <2>1, <2>2, <2>3, EvictConsistent
<1>7. ASSUME NEW t \in Thread,
             \/ PutConflict(t) \/ SizeCheck(t) \/ EvictScan(t)
             \/ EvictDone(t) \/ EvictFail(t)
      PROVE  db' = db /\ now' = now /\ \A u \in Thread : req'[u] \subseteq req[u]
  BY <1>1, <1>7
  DEF TypeOK, PutConflict, SizeCheck, EvictScan, EvictDone, EvictFail, EvictReturn
<1>8. CASE RefreshMedian \/ ReportSize \/ Restart \/ UNCHANGED vars
  <2>1. db' = db /\ now' = now /\ \A u \in Thread : req'[u] \subseteq req[u]
    BY <1>8 DEF RefreshMedian, ReportSize, Restart, vars
  <2> QED
    BY <1>2, <2>1
<1>9. CASE Tick
  <2>1. db' = db /\ now' = now + 1 /\ req' = req
    BY <1>9 DEF Tick
  <2>2. /\ db.trav \subseteq Ref /\ db.block \subseteq Ref
        /\ db.tomb \in [ID -> Nat]
        /\ \A u \in Thread : req[u] \subseteq Ref
    BY <1>1 DEF TypeOK, DB
  <2>3. \A b \in db.block : ~(db.tomb[b.id] > now + 1)
    BY <1>2, <1>3, <2>2 DEF Consistent, Ref
  <2>4. \A e \in db.trav : e.createdAt <= now + 1
    BY <1>2, <1>3, <2>2 DEF Consistent, Ref
  <2>5. \A u \in Thread : \A r \in req[u] : r.createdAt <= now + 1
    BY <1>2, <1>3, <2>2 DEF Ref
  <2> QED
    BY <1>2, <2>1, <2>3, <2>4, <2>5 DEF Consistent
<1> QED
  BY <1>2, <1>4, <1>5, <1>6, <1>7, <1>8, <1>9 DEF Next, Step

\* IInv is an invariant of the store.
THEOREM StoreInvariant == Spec => []IInv
<1>1. Init => IInv
  BY IInvInit
<1>2. IInv /\ [Next]_vars => IInv'
  BY IInvNext
<1> QED
  BY <1>1, <1>2, PTL DEF Spec

\* However Put and Evict interleave, no stored block is missing from the
\* traversal index and none is indexed with another work factor or tag.
THEOREM AlwaysIndexed == Spec => []BlockIndexed
<1>1. IInv => BlockIndexed
  BY DEF IInv
<1> QED
  BY <1>1, StoreInvariant, PTL

\* No block with a live tombstone is stored, also when the Put that would store
\* it began before the eviction.
THEOREM EvictedStaysOut == Spec => []TombExcludesBlock
<1>1. IInv => TombExcludesBlock
  BY DEF IInv
<1> QED
  BY <1>1, StoreInvariant, PTL

\* An index entry without a block is the trace of an eviction.
THEOREM OrphansExplained == Spec => []OrphanOnlyByEviction
<1>1. IInv => OrphanOnlyByEviction
  BY DEF IInv
<1> QED
  BY <1>1, StoreInvariant, PTL
-----------------------------------------------------------------------------
(* Steps.                                                                  *)

\* What one step does to the database: nothing, one Put transaction that was
\* not refused, or the transaction of one eviction.
LEMMA DatabaseStep ==
  ASSUME TypeOK, [Next]_vars
  PROVE  \/ db' = db /\ now' >= now
         \/ \E r \in Ref : /\ ~Refused(db, r, now)
                           /\ db' = Stored(db, r)
                           /\ now' = now
         \/ \E c \in Ref : db' = EvictTxn(db, c, now) /\ now' = now
<1> USE DEF TypeOK
<1>1. now \in Nat
  BY TimeAssumption
<1>2. ASSUME NEW t \in Thread, PutCommit(t)
      PROVE  \/ db' = db /\ now' >= now
             \/ \E r \in Ref : /\ ~Refused(db, r, now)
                               /\ db' = Stored(db, r)
                               /\ now' = now
  BY <1>1, <1>2 DEF PutCommit, PutTxn
<1>3. ASSUME NEW t \in Thread, EvictOne(t)
      PROVE  \E c \in Ref : db' = EvictTxn(db, c, now) /\ now' = now
  <2>1. PICK c \in Victims(cand[t]) : db' = EvictTxn(db, c, now)
    BY <1>3 DEF EvictOne
  <2>2. c \in Ref
    BY <2>1, VictimsAreCandidates
  <2> QED
    BY <1>3, <2>1, <2>2 DEF EvictOne
<1>4. ASSUME NEW t \in Thread,
             \/ \E id \in ID, wf \in WF, tag \in Tag : PutCall(t, id, wf, tag)
             \/ PutConflict(t) \/ SizeCheck(t) \/ EvictScan(t)
             \/ EvictDone(t) \/ EvictFail(t)
      PROVE  db' = db /\ now' = now
  BY <1>4 DEF PutCall, PutConflict, SizeCheck, EvictScan, EvictDone, EvictFail,
              EvictReturn
<1>5. RefreshMedian \/ ReportSize \/ Restart \/ UNCHANGED vars
        => db' = db /\ now' = now
  BY DEF RefreshMedian, ReportSize, Restart, vars
<1>6. Tick => db' = db /\ now' = now + 1
  BY DEF Tick
<1> QED
  BY <1>1, <1>2, <1>3, <1>4, <1>5, <1>6 DEF Next, Step

\* Put never lowers the work factor of a stored block, for any interleaving.
THEOREM WorkMonotone == Spec => WorkNeverLost
<1>1. IInv /\ [Next]_vars =>
        [\A b \in db.block, c \in db'.block : b.id = c.id => b = c \/ b.wf < c.wf]_vars
  <2> SUFFICES ASSUME IInv, [Next]_vars, NEW b \in db.block, NEW c \in db'.block,
                      b.id = c.id, b # c
               PROVE  b.wf < c.wf
    OBVIOUS
  <2>1. TypeOK /\ \A d, e \in db.block : d.id = e.id => d = e
    BY DEF IInv, BlockIndexed
  <2>2. db \in DB /\ now \in Nat /\ db.block \subseteq Ref
    BY <2>1, TimeAssumption DEF TypeOK, DB
  <2>3. c \notin db.block
    BY <2>1
  <2>4. PICK r \in Ref : ~Refused(db, r, now) /\ db' = Stored(db, r)
    <3>1. ASSUME NEW k \in Ref, db' = EvictTxn(db, k, now)
          PROVE  db'.block \subseteq db.block
      <4>1. EvictTxn(db, k, now).block \subseteq db.block
        BY <2>2, EvictShrinks
      <4> QED
        BY <3>1, <4>1
    <3> QED
      BY <2>1, <2>3, <3>1, DatabaseStep
  <2>5. c = r
    BY <2>2, <2>3, <2>4, StoredParts
  <2>6. b.wf \in Nat /\ c.wf \in Nat
    BY <2>2, <2>5, TTLAssumption DEF Ref, WF
  <2> QED
    BY <2>4, <2>5, <2>6 DEF Refused
<1> QED
  BY <1>1, StoreInvariant, PTL DEF Spec, WorkNeverLost
-----------------------------------------------------------------------------
(* Refinement of the Store interface.                                      *)

\* The abstract view of a database.
HeldOf(d) == {[id |-> b.id, wf |-> b.wf] : b \in d.block}
RefusedOf(d, n) == {i \in ID : Tombstoned(d, i, n)}

\* An accepted Put is an Accept of the abstract store.
LEMMA PutIsAccept ==
  ASSUME NEW d \in DB, NEW r \in Ref, NEW n \in Nat, ~Refused(d, r, n)
  PROVE  /\ [id |-> r.id, wf |-> r.wf] \in [id : ID, wf : WF]
         /\ r.id \notin RefusedOf(d, n)
         /\ \A g \in HeldOf(d) : g.id = r.id => g.wf < r.wf
         /\ HeldOf(Stored(d, r)) = {g \in HeldOf(d) : g.id # r.id}
                                    \cup {[id |-> r.id, wf |-> r.wf]}
         /\ RefusedOf(Stored(d, r), n) = RefusedOf(d, n)
<1> DEFINE s == Stored(d, r)
<1>1. /\ s.block = {b \in d.block : b.id # r.id} \cup {r}
      /\ s.tomb = d.tomb
  BY StoredParts
<1> HIDE DEF s
<1>2. [id |-> r.id, wf |-> r.wf] \in [id : ID, wf : WF]
  BY DEF Ref
<1>3. r.id \notin RefusedOf(d, n)
  BY DEF Refused, RefusedOf
<1>4. \A b \in d.block : b.wf \in Nat /\ r.wf \in Nat
  BY TTLAssumption DEF DB, Ref, WF
<1>5. \A g \in HeldOf(d) : g.id = r.id => g.wf < r.wf
  BY <1>4 DEF Refused, HeldOf
<1>6. HeldOf(s) = {g \in HeldOf(d) : g.id # r.id} \cup {[id |-> r.id, wf |-> r.wf]}
  BY <1>1 DEF HeldOf
<1>7. RefusedOf(s, n) = RefusedOf(d, n)
  BY <1>1 DEF RefusedOf, Tombstoned
<1> QED
  BY <1>2, <1>3, <1>5, <1>6, <1>7 DEF s

\* The transaction of an eviction is a Drop of the abstract store.
LEMMA EvictIsDrop ==
  ASSUME NEW d \in DB, NEW c \in Ref, NEW n \in Nat
  PROVE  /\ c.id \in ID
         /\ HeldOf(EvictTxn(d, c, n)) = {g \in HeldOf(d) : g.id # c.id}
         /\ RefusedOf(EvictTxn(d, c, n), n) = RefusedOf(d, n) \cup {c.id}
<1> DEFINE s == EvictTxn(d, c, n)
<1>1. /\ s.block = {b \in d.block : b.id # c.id}
      /\ s.tomb = [d.tomb EXCEPT ![c.id] = n + 2 * TTL[c.wf]]
      /\ TTL[c.wf] \in Nat \ {0}
  BY EvictParts
<1> HIDE DEF s
<1>2. c.id \in ID /\ d.tomb \in [ID -> Nat]
  BY DEF DB, Ref
<1>3. HeldOf(s) = {g \in HeldOf(d) : g.id # c.id}
  BY <1>1 DEF HeldOf
<1>4. \A i \in ID : s.tomb[i] > n <=> i = c.id \/ d.tomb[i] > n
  BY <1>1, <1>2
<1>5. RefusedOf(s, n) = RefusedOf(d, n) \cup {c.id}
  BY <1>2, <1>4 DEF RefusedOf, Tombstoned
<1> QED
  BY <1>2, <1>3, <1>5 DEF s

\* The store with all its goroutines implements the Store interface: every
\* step is an abstract step or leaves the abstract store unchanged.
THEOREM Refinement == Spec => ImplementsBlockStore
<1>1. Init => Abstract!Init
  <2> SUFFICES ASSUME Init PROVE Abstract!Init
    OBVIOUS
  <2>1. db.block = {} /\ now = 0 /\ \A i \in ID : db.tomb[i] = 0
    BY DEF Init, EmptyDB
  <2> QED
    BY <2>1 DEF Abstract!Init, Tombstoned
<1>2. TypeOK /\ [Next]_vars =>
        [Abstract!Next]_<<HeldOf(db), RefusedOf(db, now)>>
  <2> SUFFICES ASSUME TypeOK, [Next]_vars
               PROVE  [Abstract!Next]_<<HeldOf(db), RefusedOf(db, now)>>
    OBVIOUS
  <2>1. db \in DB /\ now \in Nat /\ now' \in Nat
    BY TypeNext, TimeAssumption DEF TypeOK
  <2>2. CASE db' = db /\ now' >= now
    <3>1. RefusedOf(db, now)' \in SUBSET RefusedOf(db, now)
      BY <2>1, <2>2 DEF RefusedOf, Tombstoned, DB
    <3>2. HeldOf(db)' = HeldOf(db)
      BY <2>2 DEF HeldOf
    <3>3. Abstract!Forgive
      BY <3>1, <3>2 DEF Abstract!Forgive, HeldOf, RefusedOf
    <3> QED
      BY <3>3 DEF Abstract!Next
  <2>3. ASSUME NEW r \in Ref, ~Refused(db, r, now), db' = Stored(db, r), now' = now
        PROVE  Abstract!Next
    <3>1. Abstract!Accept([id |-> r.id, wf |-> r.wf])
      BY <2>1, <2>3, PutIsAccept DEF Abstract!Accept, HeldOf, RefusedOf
    <3>2. [id |-> r.id, wf |-> r.wf] \in Abstract!Held
      BY <2>1, <2>3, PutIsAccept DEF Abstract!Held, WF
    <3> QED
      BY <3>1, <3>2 DEF Abstract!Next
  <2>4. ASSUME NEW c \in Ref, db' = EvictTxn(db, c, now), now' = now
        PROVE  Abstract!Next
    <3>1. c.id \in ID /\ Abstract!Drop(c.id)
      BY <2>1, <2>4, EvictIsDrop DEF Abstract!Drop, HeldOf, RefusedOf
    <3> QED
      BY <3>1 DEF Abstract!Next
  <2> QED
    BY <2>2, <2>3, <2>4, DatabaseStep
<1> QED
  BY <1>1, <1>2, TypeCorrect, PTL
  DEF Spec, ImplementsBlockStore, Abstract!Spec, HeldOf, RefusedOf
-----------------------------------------------------------------------------
(* A single goroutine.                                                     *)

\* Every transaction adds at most one entry to the index.
LEMMA IndexFinite == Spec => []IsFiniteSet(db.trav)
<1>1. Init => IsFiniteSet(db.trav)
  BY FS_EmptySet DEF Init, EmptyDB
<1>2. TypeOK /\ IsFiniteSet(db.trav) /\ [Next]_vars => IsFiniteSet(db.trav)'
  <2> SUFFICES ASSUME TypeOK, IsFiniteSet(db.trav), [Next]_vars
               PROVE  IsFiniteSet(db'.trav)
    OBVIOUS
  <2>1. db \in DB /\ now \in Nat
    BY TimeAssumption DEF TypeOK
  <2>2. ASSUME NEW r \in Ref, db' = Stored(db, r) PROVE IsFiniteSet(db'.trav)
    <3>1. db'.trav \subseteq db.trav \cup {r}
      BY <2>1, <2>2, StoredParts
    <3> QED
      BY <3>1, FS_AddElement, FS_Subset
  <2>3. ASSUME NEW c \in Ref, db' = EvictTxn(db, c, now) PROVE IsFiniteSet(db'.trav)
    <3>1. db'.trav \subseteq db.trav
      BY <2>1, <2>3, EvictShrinks
    <3> QED
      BY <3>1, FS_Subset
  <2> QED
    BY <2>2, <2>3, DatabaseStep
<1> QED
  BY <1>1, <1>2, TypeCorrect, PTL DEF Spec

\* One goroutine uses the store.
Alone == \A t, u \in Thread : t = u

\* Nothing changes the store between the scan of an eviction and its end, and
\* the candidates that are left are what is stored.
ScanCurrent == \A t \in Thread : pc[t] = "evict" => cand[t] = db.block

SeqInv == IInv /\ NoOrphan /\ ScanCurrent

\* Put deletes the index entry of the copy that it replaces.
LEMMA PutNoOrphan ==
  ASSUME NEW d \in DB, NEW r \in Ref, d.trav \subseteq d.block
  PROVE  Stored(d, r).trav \subseteq Stored(d, r).block
<1>1. /\ Stored(d, r).block = {b \in d.block : b.id # r.id} \cup {r}
      /\ Stored(d, r).trav =
           {e \in d.trav : ~(/\ e.id = r.id
                             /\ \/ e.createdAt = r.createdAt
                                \/ \E b \in d.block :
                                     b.id = r.id /\ b.createdAt = e.createdAt)}
           \cup {r}
  BY StoredParts
<1> QED
  BY <1>1

\* Evict deletes the index entry of a victim that is still what is stored.
LEMMA EvictNoOrphan ==
  ASSUME NEW d \in DB, NEW n \in Nat, NEW c \in d.block, d.trav \subseteq d.block,
         \A b, e \in d.block : b.id = e.id => b = e
  PROVE  /\ EvictTxn(d, c, n).trav \subseteq EvictTxn(d, c, n).block
         /\ EvictTxn(d, c, n).block = d.block \ {c}
<1>1. c \in Ref
  BY DEF DB
<1>2. /\ EvictTxn(d, c, n).block = {b \in d.block : b.id # c.id}
      /\ EvictTxn(d, c, n).trav =
           {e \in d.trav : ~(e.id = c.id /\ e.createdAt = c.createdAt)}
  BY <1>1 DEF EvictTxn, DB
<1> QED
  BY <1>2

\* The victim of a single goroutine is a stored block, chosen from all of them.
LEMMA AloneVictim ==
  ASSUME Alone, SeqInv, NEW t \in Thread, EvictOne(t)
  PROVE  \E c \in Victims(db.block) :
           /\ c \in db.block /\ db' = EvictTxn(db, c, now) /\ cand'[t] = db.block \ {c}
<1>1. cand[t] = db.block /\ cand \in [Thread -> SUBSET Ref]
  BY DEF EvictOne, SeqInv, ScanCurrent, IInv, TypeOK
<1>2. PICK c \in Victims(cand[t]) : /\ cand' = [cand EXCEPT ![t] = @ \ {c}]
                                    /\ db' = EvictTxn(db, c, now)
  BY DEF EvictOne
<1>3. c \in db.block
  BY <1>1, <1>2, VictimsAreCandidates
<1> QED
  BY <1>1, <1>2, <1>3

LEMMA SeqInvNext == Alone /\ SeqInv /\ [Next]_vars => SeqInv'
<1> SUFFICES ASSUME Alone, SeqInv, [Next]_vars PROVE SeqInv'
  OBVIOUS
<1>1. IInv /\ IInv' /\ TypeOK /\ TypeOK'
  BY IInvNext DEF SeqInv, IInv
<1>2. /\ db \in DB /\ now \in Nat /\ \A b, e \in db.block : b.id = e.id => b = e
      /\ db.trav \subseteq db.block
  BY <1>1, TimeAssumption DEF SeqInv, NoOrphan, IInv, BlockIndexed, TypeOK
<1>3. ASSUME NEW t \in Thread, PutCommit(t) PROVE NoOrphan' /\ ScanCurrent'
  <2>1. PICK r \in req[t] : db' = PutTxn(db, r, now)
    BY <1>3 DEF PutCommit
  <2>2. r \in Ref
    BY <1>1, <2>1 DEF TypeOK
  <2>3. NoOrphan'
    BY <1>2, <2>1, <2>2, PutNoOrphan DEF PutTxn, NoOrphan
  <2>4. \A u \in Thread : pc'[u] = "sizecheck"
    BY <1>1, <1>3 DEF PutCommit, TypeOK, Alone
  <2> QED
    BY <2>3, <2>4 DEF ScanCurrent
<1>4. ASSUME NEW t \in Thread, EvictOne(t) PROVE NoOrphan' /\ ScanCurrent'
  <2>1. PICK c \in db.block : /\ db' = EvictTxn(db, c, now)
                              /\ cand'[t] = db.block \ {c}
    BY <1>4, AloneVictim
  <2>2. db'.trav \subseteq db'.block /\ db'.block = db.block \ {c}
    BY <1>2, <2>1, EvictNoOrphan
  <2> QED
    BY <2>1, <2>2 DEF NoOrphan, ScanCurrent, Alone
<1>5. ASSUME NEW t \in Thread, EvictScan(t) PROVE NoOrphan' /\ ScanCurrent'
  BY <1>1, <1>2, <1>5 DEF EvictScan, NoOrphan, ScanCurrent, Alone, TypeOK
<1>6. ASSUME NEW t \in Thread,
             \/ \E id \in ID, wf \in WF, tag \in Tag : PutCall(t, id, wf, tag)
             \/ PutConflict(t) \/ SizeCheck(t) \/ EvictDone(t) \/ EvictFail(t)
      PROVE  NoOrphan' /\ ScanCurrent'
  <2>1. db' = db
    BY <1>6 DEF PutCall, PutConflict, SizeCheck, EvictDone, EvictFail, EvictReturn
  <2>2. pc'[t] # "evict"
    BY <1>1, <1>6 DEF PutCall, PutConflict, SizeCheck, EvictDone, EvictFail, EvictReturn,
                      TypeOK
  <2> QED
    BY <1>2, <2>1, <2>2 DEF NoOrphan, ScanCurrent, Alone
<1>7. CASE Restart
  BY <1>1, <1>2, <1>7 DEF Restart, SeqInv, NoOrphan, ScanCurrent
<1>8. CASE RefreshMedian \/ ReportSize \/ Tick \/ UNCHANGED vars
  <2>1. db' = db /\ pc' = pc /\ cand' = cand
    BY <1>8 DEF RefreshMedian, ReportSize, Tick, vars
  <2> QED
    BY <1>1, <2>1 DEF SeqInv, NoOrphan, ScanCurrent
<1> QED
  BY <1>1, <1>3, <1>4, <1>5, <1>6, <1>7, <1>8 DEF Next, Step, SeqInv

\* The inductive invariant of a store that one goroutine uses.
THEOREM AloneInvariant == Alone => (Spec => []SeqInv)
<1> SUFFICES ASSUME Alone PROVE Spec => []SeqInv
  OBVIOUS
<1>1. Init => SeqInv
  BY IInvInit DEF Init, EmptyDB, SeqInv, NoOrphan, ScanCurrent
<1>2. SeqInv /\ [Next]_vars => SeqInv'
  BY SeqInvNext
<1> QED
  BY <1>1, <1>2, PTL DEF Spec

\* Put and Evict leave no index entry without its block while one goroutine uses
\* the store: an orphan takes a Put between the scan and the deletes of an Evict.
THEOREM OrphansNeedARace == Alone => (Spec => []NoOrphan)
<1>1. SeqInv => NoOrphan
  BY DEF SeqInv
<1> QED
  BY <1>1, AloneInvariant, PTL

\* What a step removes while one goroutine uses the store: one block, a victim
\* among all that are stored, whose tombstone it writes.
LEMMA AloneRemoval ==
  ASSUME Alone, SeqInv, [Next]_vars, NEW b \in db.block, \A c \in db'.block : c.id # b.id
  PROVE  b \in Victims(db.block) /\ db' = EvictTxn(db, b, now)
<1>1. /\ db \in DB /\ now \in Nat /\ \A d, e \in db.block : d.id = e.id => d = e
      /\ TypeOK
  BY TimeAssumption DEF SeqInv, IInv, BlockIndexed, TypeOK
<1>2. ASSUME NEW t \in Thread, PutCommit(t) PROVE FALSE
  <2>1. PICK r \in req[t] : db' = PutTxn(db, r, now)
    BY <1>2 DEF PutCommit
  <2>2. r \in Ref
    BY <1>1, <2>1 DEF TypeOK
  <2> QED
    BY <1>1, <2>1, <2>2, PutBrings
<1>3. PICK t \in Thread : EvictOne(t)
  <2>1. db' # db
    OBVIOUS
  <2>2. ASSUME NEW t \in Thread,
             \/ \E id \in ID, wf \in WF, tag \in Tag : PutCall(t, id, wf, tag)
             \/ PutConflict(t) \/ SizeCheck(t) \/ EvictScan(t)
             \/ EvictDone(t) \/ EvictFail(t)
        PROVE  db' = db
    BY <2>2 DEF PutCall, PutConflict, SizeCheck, EvictScan, EvictDone, EvictFail, EvictReturn
  <2>3. RefreshMedian \/ ReportSize \/ Restart \/ Tick \/ UNCHANGED vars => db' = db
    BY DEF RefreshMedian, ReportSize, Restart, Tick, vars
  <2> QED
    BY <1>2, <2>1, <2>2, <2>3 DEF Next, Step
<1>4. PICK c \in Victims(db.block) : c \in db.block /\ db' = EvictTxn(db, c, now)
  BY <1>3, AloneVictim
<1>5. db'.block = db.block \ {c}
  BY <1>1, <1>4, EvictNoOrphan DEF SeqInv, NoOrphan
<1> QED
  BY <1>4, <1>5

\* Evict takes the block with the soonest logical expiry of the tag that is most
\* over its reservation: space reserved for a tag is not taken while another tag
\* exceeds its own, for any reservations and any number of tags.
THEOREM ReservationsHold == Alone => (Spec => ReservationRespected)
<1> SUFFICES ASSUME Alone PROVE Spec => ReservationRespected
  OBVIOUS
<1>1. SeqInv /\ IsFiniteSet(db.trav) /\ [Next]_vars =>
        [\A b \in db.block :
           (\A c \in db'.block : c.id # b.id) =>
             /\ Over(db.block, b.tag) > 0 \/ \A c \in db.block : Over(db.block, c.tag) <= 0
             /\ \A c \in db.block : c.tag = b.tag => LogicalExpiry(b) <= LogicalExpiry(c)]_vars
  <2> SUFFICES ASSUME SeqInv, IsFiniteSet(db.trav), [Next]_vars, NEW b \in db.block,
                      \A c \in db'.block : c.id # b.id
               PROVE  /\ \/ Over(db.block, b.tag) > 0
                         \/ \A c \in db.block : Over(db.block, c.tag) <= 0
                      /\ \A c \in db.block : c.tag = b.tag =>
                                               LogicalExpiry(b) <= LogicalExpiry(c)
    OBVIOUS
  <2>1. b \in Victims(db.block)
    BY AloneRemoval
  <2>2. ASSUME NEW c \in db.block PROVE Over(db.block, c.tag) \in Int
    <3>1. c.tag \in Tag /\ db.block \subseteq db.trav
      BY DEF SeqInv, IInv, TypeOK, DB, Ref, BlockIndexed
    <3>2. IsFiniteSet({d \in db.block : d.tag = c.tag})
      BY <3>1, FS_Subset
    <3>3. Cardinality({d \in db.block : d.tag = c.tag}) \in Nat
      BY <3>2, FS_CardinalityType
    <3> QED
      BY <3>1, <3>3, SizeAssumption DEF Over
  <2>3. \A d \in db.block : Over(db.block, d.tag) <= Over(db.block, b.tag)
    BY <2>1 DEF Victims
  <2>4. \A d \in db.block : d.tag = b.tag => LogicalExpiry(b) <= LogicalExpiry(d)
    BY <2>1 DEF Victims
  <2> HIDE DEF Over
  <2> QED
    BY <2>2, <2>3, <2>4
<1> QED
  BY <1>1, AloneInvariant, IndexFinite, PTL DEF Spec, ReservationRespected

\* The tombstone of an evicted block outlives the block it shuts out.
THEOREM TombLongEnough == Alone => (Spec => TombOutlivesBlock)
<1> SUFFICES ASSUME Alone PROVE Spec => TombOutlivesBlock
  OBVIOUS
<1>1. SeqInv /\ [Next]_vars =>
        [\A b \in db.block : (\A c \in db'.block : c.id # b.id)
                               => db'.tomb[b.id] >= LogicalExpiry(b)]_vars
  <2> SUFFICES ASSUME SeqInv, [Next]_vars, NEW b \in db.block,
                      \A c \in db'.block : c.id # b.id
               PROVE  db'.tomb[b.id] >= LogicalExpiry(b)
    OBVIOUS
  <2>1. db' = EvictTxn(db, b, now)
    BY AloneRemoval
  <2>2. db \in DB /\ now \in Nat /\ b \in Ref /\ b.createdAt \in Nat /\ b.createdAt <= now
    BY TimeAssumption DEF SeqInv, IInv, TypeOK, DB, Ref, BlockIndexed, FromThePast
  <2>3. db'.tomb = [db.tomb EXCEPT ![b.id] = now + 2 * TTL[b.wf]] /\ TTL[b.wf] \in Nat \ {0}
    BY <2>1, <2>2, EvictParts
  <2>4. db'.tomb[b.id] = now + 2 * TTL[b.wf]
    BY <2>2, <2>3 DEF DB, Ref
  <2> QED
    BY <2>2, <2>3, <2>4 DEF LogicalExpiry
<1> QED
  BY <1>1, AloneInvariant, PTL DEF Spec, TombOutlivesBlock
=============================================================================
