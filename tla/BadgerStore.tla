----------------------------- MODULE BadgerStore ----------------------------
(***************************************************************************)
(* The Badger-backed block store as its callers use it: several goroutines *)
(* (relay handlers, sync rounds, the local API, the USB loop) call Put at  *)
(* the same time, and a Put that finds the store over its limit runs Evict *)
(* before it returns.  Nothing in blockstore/badger.go locks: the only     *)
(* atomicity is that of one Badger transaction, so the model takes one     *)
(* step per transaction and everything read in an earlier step (the time   *)
(* of the call, the eviction scan, the reported size) may be stale.        *)
(***************************************************************************)
EXTENDS BlockTxn

CONSTANTS Thread,        \* goroutines calling Put
          StorageLimit,  \* bytes; 0 disables enforcement
          BlockSize,     \* bytes one stored block accounts for
          Reservation,   \* bytes reserved per tag
          EvictBatch,    \* blocks evicted beyond the immediate minimum
          DefaultLimit,  \* bytes assumed by the median when no limit is set
          SizeReports,   \* sizes the database may report
          MaxTime        \* bound on the clock

ASSUME SizeAssumption ==
  /\ BlockSize \in Nat \ {0}
  /\ StorageLimit \in Nat /\ DefaultLimit \in Nat
  /\ Reservation \in [Tag -> Nat]
  /\ EvictBatch \in Nat \ {0}
  /\ SizeReports \subseteq Nat
ASSUME TimeAssumption == MaxTime \in Nat

VARIABLES
  now,       \* wall clock, in the seconds of createdAt
  db,        \* the database
  reported,  \* what db.Size() answers: refreshed by Badger in the background
  medianWF,  \* the cached median work factor
  pc,        \* per thread: where its Put call is
  req,       \* per thread: {} or the one reference its Put wants to store
  touched,   \* threads whose transaction another commit has invalidated
  need,      \* per thread: blocks its Evict still has to remove
  cand       \* per thread: candidates its Evict has scanned and not popped

vars == <<now, db, reported, medianWF, pc, req, touched, need, cand>>

PC == {"idle", "put", "sizecheck", "scan", "evict"}

TypeOK ==
  /\ now \in 0..MaxTime
  /\ db \in DB
  /\ reported \in Nat
  /\ medianWF \in WF
  /\ pc \in [Thread -> PC]
  /\ req \in [Thread -> SUBSET Ref]
  /\ touched \subseteq Thread
  /\ need \in [Thread -> Nat]
  /\ cand \in [Thread -> SUBSET Ref]

\* OpenBadger on an empty directory.
Init ==
  /\ now = 0
  /\ db = EmptyDB
  /\ reported = 0
  /\ medianWF = 0
  /\ pc = [t \in Thread |-> "idle"]
  /\ req = [t \in Thread |-> {}]
  /\ touched = {}
  /\ need = [t \in Thread |-> 0]
  /\ cand = [t \in Thread |-> {}]
-----------------------------------------------------------------------------
(* Put.                                                                    *)

\* A commit on the keys of an id invalidates the snapshot of every other open
\* Put that has read them and decided to write (Badger's conflict detection).
Invalidated(t, id) ==
  {u \in Thread \ {t} : pc[u] = "put" /\ \E r \in req[u] :
                          r.id = id /\ ~Refused(db, r, now)}

\* Put is called: id and work factor are computed and the clock is read,
\* before the transaction starts.
PutCall(t, id, wf, tag) ==
  /\ pc[t] = "idle"
  /\ pc' = [pc EXCEPT ![t] = "put"]
  /\ req' = [req EXCEPT ![t] = {[id |-> id, createdAt |-> now,
                                 wf |-> wf, tag |-> tag]}]
  /\ UNCHANGED <<now, db, reported, medianWF, touched, need, cand>>

\* The transaction commits; a refused block is dropped without an error.
PutCommit(t) ==
  /\ pc[t] = "put"
  /\ \E r \in req[t] :
       /\ db' = PutTxn(db, r, now)
       /\ touched' = IF Refused(db, r, now)
                     THEN touched \ {t}
                     ELSE (touched \cup Invalidated(t, r.id)) \ {t}
  /\ pc' = [pc EXCEPT ![t] = "sizecheck"]
  /\ req' = [req EXCEPT ![t] = {}]
  /\ UNCHANGED <<now, reported, medianWF, need, cand>>

\* The commit is rejected and Put returns the error; it does not retry.
PutConflict(t) ==
  /\ pc[t] = "put" /\ t \in touched
  /\ pc' = [pc EXCEPT ![t] = "idle"]
  /\ req' = [req EXCEPT ![t] = {}]
  /\ touched' = touched \ {t}
  /\ UNCHANGED <<now, db, reported, medianWF, need, cand>>

OverLimit == StorageLimit > 0 /\ reported > StorageLimit

\* Mutant: Put evicts whether or not the limit is exceeded.
SizeCheckAlways(t) ==
  /\ pc[t] = "sizecheck"
  /\ need' = [need EXCEPT ![t] = (reported - StorageLimit) \div BlockSize + EvictBatch]
  /\ pc' = [pc EXCEPT ![t] = "scan"]
  /\ UNCHANGED <<now, db, reported, medianWF, req, touched, cand>>

\* After the transaction Put asks the database for its size.
SizeCheck(t) ==
  /\ pc[t] = "sizecheck"
  /\ \/ /\ OverLimit
        /\ need' = [need EXCEPT ![t] =
                     (reported - StorageLimit) \div BlockSize + EvictBatch]
        /\ pc' = [pc EXCEPT ![t] = "scan"]
     \/ /\ ~OverLimit
        /\ pc' = [pc EXCEPT ![t] = "idle"]
        /\ UNCHANGED need
  /\ UNCHANGED <<now, db, reported, medianWF, req, touched, cand>>
-----------------------------------------------------------------------------
(* Evict.                                                                  *)

\* The read-only transaction that collects every stored block.
EvictScan(t) ==
  /\ pc[t] = "scan"
  /\ cand' = [cand EXCEPT ![t] = db.block]
  /\ pc' = [pc EXCEPT ![t] = "evict"]
  /\ UNCHANGED <<now, db, reported, medianWF, req, touched, need>>

\* How far a tag's remaining blocks exceed its reservation.
Over(S, tag) ==
  BlockSize * Cardinality({c \in S : c.tag = tag}) - Reservation[tag]

\* Mutant: the tag with the most blocks is the target, reserved or not.
VictimsUnreserved(S) ==
  {c \in S : /\ \A d \in S : Cardinality({e \in S : e.tag = d.tag})
                               <= Cardinality({e \in S : e.tag = c.tag})
             /\ \A d \in S : d.tag = c.tag =>
                               LogicalExpiry(c) <= LogicalExpiry(d)}

\* The blocks Evict may pick next from S: of a tag furthest above its
\* reservation, one with the soonest logical expiry.  Ties are open: map
\* iteration order and sort.Slice leave them so.
Victims(S) ==
  {c \in S : /\ \A d \in S : Over(S, d.tag) <= Over(S, c.tag)
             /\ \A d \in S : d.tag = c.tag =>
                               LogicalExpiry(c) <= LogicalExpiry(d)}

\* One round of the eviction loop: pop a victim, delete it, write its
\* tombstone.
EvictOne(t) ==
  /\ pc[t] = "evict" /\ need[t] > 0
  /\ \E c \in Victims(cand[t]) :
       /\ cand' = [cand EXCEPT ![t] = @ \ {c}]
       /\ db' = EvictTxn(db, c, now)
       /\ touched' = touched \cup Invalidated(t, c.id)
  /\ need' = [need EXCEPT ![t] = @ - 1]
  /\ UNCHANGED <<now, reported, medianWF, pc, req>>

\* Mutant: Put checks the size again after every eviction.
EvictReturnRechecks(t) ==
  /\ pc' = [pc EXCEPT ![t] = "sizecheck"]
  /\ need' = [need EXCEPT ![t] = 0]
  /\ cand' = [cand EXCEPT ![t] = {}]
  /\ UNCHANGED <<now, db, reported, medianWF, req, touched>>

\* Evict returns and with it the Put that called it.
EvictReturn(t) ==
  /\ pc' = [pc EXCEPT ![t] = "idle"]
  /\ need' = [need EXCEPT ![t] = 0]
  /\ cand' = [cand EXCEPT ![t] = {}]
  /\ UNCHANGED <<now, db, reported, medianWF, req, touched>>

\* The loop ends: n blocks are gone, or no candidate is left.
EvictDone(t) ==
  /\ pc[t] = "evict" /\ (need[t] = 0 \/ cand[t] = {})
  /\ EvictReturn(t)

\* A transaction of Evict fails; Put ignores the error.
EvictFail(t) ==
  /\ pc[t] \in {"scan", "evict"}
  /\ EvictReturn(t)
-----------------------------------------------------------------------------
(* The background updater, the process and the environment.                *)

Capacity ==
  (IF StorageLimit = 0 THEN DefaultLimit ELSE StorageLimit) \div BlockSize

\* v is what computeMedianWorkFactor returns for the index S: 0 while S fills
\* at most half the capacity, else the element at (0-based) position
\* |S| - half of the sorted work factors.
IsMedian(v, S, capacity) ==
  LET half == capacity \div 2
      pos  == Cardinality(S) - half
  IN  IF Cardinality(S) <= half
      THEN v = 0
      ELSE /\ Cardinality({e \in S : e.wf < v}) <= pos
           /\ pos < Cardinality({e \in S : e.wf <= v})

\* RefreshMedian, and one round of runMedianUpdater.
RefreshMedian ==
  /\ \E v \in WF : IsMedian(v, db.trav, Capacity) /\ medianWF' = v
  /\ UNCHANGED <<now, db, reported, pc, req, touched, need, cand>>

\* Badger recomputes the size it reports, on its own schedule and from the
\* files on disk; deleted blocks count until they are compacted away.
ReportSize ==
  /\ \E s \in SizeReports : reported' = s
  /\ UNCHANGED <<now, db, medianWF, pc, req, touched, need, cand>>

\* The process dies and the store is opened again: committed transactions
\* survive, calls in flight and the cached median do not.
Restart ==
  /\ medianWF' = 0
  /\ pc' = [t \in Thread |-> "idle"]
  /\ req' = [t \in Thread |-> {}]
  /\ touched' = {}
  /\ need' = [t \in Thread |-> 0]
  /\ cand' = [t \in Thread |-> {}]
  /\ UNCHANGED <<now, db, reported>>

Tick ==
  /\ now < MaxTime
  /\ now' = now + 1
  /\ UNCHANGED <<db, reported, medianWF, pc, req, touched, need, cand>>

\* The steps a goroutine takes on its own once it has called Put.
Step(t) ==
  \/ PutCommit(t) \/ PutConflict(t) \/ SizeCheck(t)
  \/ EvictScan(t) \/ EvictOne(t) \/ EvictDone(t) \/ EvictFail(t)

Next ==
  \/ \E t \in Thread :
       \/ \E id \in ID, wf \in WF, tag \in Tag : PutCall(t, id, wf, tag)
       \/ Step(t)
  \/ RefreshMedian \/ ReportSize \/ Restart \/ Tick

Spec == Init /\ [][Next]_vars

\* A started goroutine keeps running; callers, clock and crashes need not.
FairSpec == Spec /\ \A t \in Thread : WF_vars(Step(t))
-----------------------------------------------------------------------------
(* What holds however the goroutines interleave.                           *)

\* Put and Evict keep the two halves of the database together: each id is
\* stored once, each (createdAt, id) indexes one entry, and every stored block
\* has exactly its own index entry, so no stored block is invisible to
\* ListBlocks, to the Bloom filter or to the median.
BlockIndexed ==
  /\ \A b, c \in db.block : b.id = c.id => b = c
  /\ \A e, f \in db.trav : e.id = f.id /\ e.createdAt = f.createdAt => e = f
  /\ db.block \subseteq db.trav

\* Evict's tombstone shuts a block out: while it lives no concurrent Put, not
\* even one that was called before the eviction, brings the block back.
TombExcludesBlock ==
  \A b \in db.block : ~Tombstoned(db, b.id, now)

\* An index entry without its block is only ever the trace of an eviction that
\* happened after the entry's block was put.
OrphanOnlyByEviction ==
  \A e \in db.trav \ db.block : db.tomb[e.id] > e.createdAt

\* Put never lowers the work factor of a block that stays stored, and rewrites
\* the block only to raise it.
WorkNeverLost ==
  [][\A b \in db.block, c \in db'.block : b.id = c.id => b = c \/ b.wf < c.wf]_vars

\* The store seen through its interface: block values reduced to id and work
\* factor, and the ids with a live tombstone.  Every transaction of every
\* goroutine is one step of the abstract store, or none.
Abstract == INSTANCE BlockStore WITH
  held <- {[id |-> b.id, wf |-> b.wf] : b \in db.block},
  refused <- {i \in ID : Tombstoned(db, i, now)}
ImplementsBlockStore == Abstract!Spec

\* Every Put call returns: Evict's loop ends although other goroutines keep
\* adding blocks to the store it drains.
PutReturns == \A t \in Thread : pc[t] = "put" ~> pc[t] = "idle"
-----------------------------------------------------------------------------
(* What holds only while a single goroutine uses the store.                *)

\* Put deletes the old index entry "so it doesn't become an orphan", and Evict
\* deletes the entry of its victim: every index entry has its block.
NoOrphan == db.trav \subseteq db.block

\* Evict picks "the tag most over its configured reservation" and there "the
\* block with the soonest logical expiry": space that is reserved for a tag is
\* not taken while another tag exceeds its own, and in the chosen tag no block
\* goes before one with less life left.
ReservationRespected ==
  [][\A b \in db.block :
       (\A c \in db'.block : c.id # b.id) =>
         /\ Over(db.block, b.tag) > 0 \/ \A c \in db.block : Over(db.block, c.tag) <= 0
         /\ \A c \in db.block : c.tag = b.tag => LogicalExpiry(b) <= LogicalExpiry(c)]_vars

\* Evict's tombstone keeps a block out at least until the block it deleted
\* "would have naturally expired", createdAt + TTL(wf).
TombOutlivesBlock ==
  [][\A b \in db.block :
       (\A c \in db'.block : c.id # b.id)
         => db'.tomb[b.id] >= LogicalExpiry(b)]_vars
=============================================================================
