------------------------------ MODULE BlockTxn ------------------------------
(***************************************************************************)
(* The transactions of the Badger-backed block store (blockstore/badger.go)*)
(* as functions on the database value.  A database is a record of          *)
(*                                                                         *)
(*   block  the 'b' keys: one reference per stored block, keyed by id      *)
(*   trav   the 't' keys: the traversal index, keyed by (createdAt, id)    *)
(*   tomb   the 'x' keys: per id, the second at which its tombstone        *)
(*          expires (0 when none was ever written)                         *)
(*                                                                         *)
(* A stamp and its payload only matter through the id and the work factor  *)
(* they determine, so a block value and its index entry are the same       *)
(* record.  Every transaction is atomic: Badger commits an Update          *)
(* serialisably.                                                           *)
(***************************************************************************)
EXTENDS Integers, FiniteSets

CONSTANTS ID,      \* block identifiers; only their byte order matters
          Tag,     \* how a block entered the node: physical, lan, global, ...
          MaxWF,   \* largest work factor (256 leading zero bits in the code)
          TTL      \* logical lifetime of a block by work factor

ASSUME IDAssumption == ID \subseteq Nat \ {0}
ASSUME TTLAssumption == MaxWF \in Nat /\ TTL \in [0..MaxWF -> Nat \ {0}]

WF == 0..MaxWF

\* A BlockRef: what the index stores for a block, and what the block value
\* stores besides stamp and payload.
Ref == [id : ID, createdAt : Nat, wf : WF, tag : Tag]

DB == [block : SUBSET Ref, trav : SUBSET Ref, tomb : [ID -> Nat]]

EmptyDB == [block |-> {}, trav |-> {}, tomb |-> [i \in ID |-> 0]]

\* A tombstone is found by a read until its expiry second is reached.
Tombstoned(db, id, now) == db.tomb[id] > now

\* Mutant: Put does not look for a tombstone.
RefusedNoTomb(db, r, now) == \E b \in db.block : b.id = r.id /\ b.wf >= r.wf

\* Mutant: Put overwrites a stored copy whatever its work factor.
RefusedNoCompare(db, r, now) == Tombstoned(db, r.id, now)

\* The early returns of Put's transaction: a live tombstone, or a stored
\* copy whose work factor is at least as high.
Refused(db, r, now) ==
  \/ Tombstoned(db, r.id, now)
  \/ \E b \in db.block : b.id = r.id /\ b.wf >= r.wf

\* Mutant: the old index entry is deleted after the new one is written.
StoredDeletesLast(db, r) ==
  [db EXCEPT
     !.block = {b \in @ : b.id # r.id} \cup {r},
     !.trav  = {e \in {f \in @ : ~(f.id = r.id /\ f.createdAt = r.createdAt)}
                     \cup {r} :
                  \A b \in db.block :
                    ~(b.id = r.id /\ e.id = r.id /\ b.createdAt = e.createdAt)}]

\* Mutant: the index entry of the replaced copy is left behind.
StoredKeepsOldEntry(db, r) ==
  [db EXCEPT
     !.block = {b \in @ : b.id # r.id} \cup {r},
     !.trav  = {e \in @ : ~(e.id = r.id /\ e.createdAt = r.createdAt)} \cup {r}]

\* The writes of Put's transaction.  A weaker stored copy is replaced and the
\* index entry that its createdAt names is deleted.
Stored(db, r) ==
  [db EXCEPT
     !.block = {b \in @ : b.id # r.id} \cup {r},
     !.trav  = {e \in @ : ~(/\ e.id = r.id
                            /\ \/ e.createdAt = r.createdAt
                               \/ \E b \in db.block :
                                    b.id = r.id /\ b.createdAt = e.createdAt)}
               \cup {r}]

\* Put's whole transaction.
PutTxn(db, r, now) == IF Refused(db, r, now) THEN db ELSE Stored(db, r)

\* Mutant: Evict writes no tombstone.
EvictNoTomb(db, c, now) ==
  [db EXCEPT
     !.block = {b \in @ : b.id # c.id},
     !.trav  = {e \in @ : ~(e.id = c.id /\ e.createdAt = c.createdAt)}]

\* Mutant: Evict leaves the index entry of its victim.
EvictKeepsEntry(db, c, now) ==
  [db EXCEPT
     !.block = {b \in @ : b.id # c.id},
     !.tomb  = [@ EXCEPT ![c.id] = now + 2 * TTL[c.wf]]]

\* Mutant: the tombstone has one fixed lifetime for every work factor.
EvictFixedTomb(db, c, now) ==
  [db EXCEPT
     !.block = {b \in @ : b.id # c.id},
     !.trav  = {e \in @ : ~(e.id = c.id /\ e.createdAt = c.createdAt)},
     !.tomb  = [@ EXCEPT ![c.id] = now + TTL[0]]]

\* The transaction Evict runs for one victim c.  It reads nothing: c is what
\* the earlier scan saw.
EvictTxn(db, c, now) ==
  [db EXCEPT
     !.block = {b \in @ : b.id # c.id},
     !.trav  = {e \in @ : ~(e.id = c.id /\ e.createdAt = c.createdAt)},
     !.tomb  = [@ EXCEPT ![c.id] = now + 2 * TTL[c.wf]]]

LogicalExpiry(c) == c.createdAt + TTL[c.wf]
-----------------------------------------------------------------------------
(* The traversal order of the index and one page of it.                    *)

KeyLess(e, f) ==
  \/ e.createdAt < f.createdAt
  \/ e.createdAt = f.createdAt /\ e.id < f.id

\* The empty page token, and the token returned after the last page.
NoCursor == [createdAt |-> 0, id |-> 0]

\* The index entries a page starting after the cursor may return.
Listable(db, cursor, powFloor, since) ==
  {e \in db.trav : /\ KeyLess(cursor, e)
                   /\ e.createdAt >= since
                   /\ e.wf >= powFloor}

\* ListBlocks: the first limit listable entries in key order.
Page(db, cursor, limit, powFloor, since) ==
  LET open == Listable(db, cursor, powFloor, since)
  IN  {e \in open : Cardinality({f \in open : KeyLess(f, e)}) < limit}

\* The token ListBlocks returns with that page: the key of its last entry
\* when the page is full.
NextCursor(refs, limit) ==
  IF Cardinality(refs) = limit
  THEN LET last == CHOOSE e \in refs : \A f \in refs : ~KeyLess(e, f)
       IN  [createdAt |-> last.createdAt, id |-> last.id]
  ELSE NoCursor
=============================================================================
