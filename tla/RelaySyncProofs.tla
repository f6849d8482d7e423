-------------------------- MODULE RelaySyncProofs ---------------------------
(***************************************************************************)
(* Proofs about the relay protocol: what a node and a relay may never see  *)
(* of each other because of the watermarks is known, for any number of     *)
(* blocks, work factors, page sizes, filters, clocks and delays of a Put,  *)
(* and whatever limits the relay answers.                                  *)
(***************************************************************************)
EXTENDS RelaySync, BlockTxnProofs

\* Both databases are consistent at the time of their own clock, and finite;
\* a round began in the past.
StoresInv ==
  /\ Consistent(local, now) /\ IsFiniteSet(local.trav)
  /\ Consistent(relay, RelayNow) /\ IsFiniteSet(relay.trav)
  /\ start <= now

\* The page token is empty whenever a new listing is about to begin, a round
\* works with the watermarks it has read, and no watermark is in the future.
RoundInv ==
  /\ pc \in {"idle", "bloom", "fetch", "limit"} => cursor = NoCursor
  /\ pc \in {"bloom", "delta", "fetch"} => since.pull = pullSince
  /\ pc # "idle" => since.push = pushSince
  /\ pullSince <= now /\ pushSince <= now

\* A local block is dealt with by Push, or known to be passed.
Pushed(b) == Offered(toRelay, b) \/ b \in unpushed

\* Push has not missed b: it has dealt with b, or b is on its page or after
\* its cursor.
PushAhead(b) ==
  \/ Pushed(b)
  \/ pc = "list" /\ KeyLess(cursor, b)
  \/ pc = "page" /\ \E e \in page : e.id = b.id
  \/ pc = "page" /\ cursor # NoCursor /\ KeyLess(cursor, b)

\* What PushComplete needs: a block from before pushStart, and not before the
\* watermark, that the floor in force lets into the listing, stays ahead of
\* Push until Push has dealt with it.
PushInv ==
  pc \in {"list", "page"} =>
    \A b \in local.block :
      since.push <= b.createdAt /\ b.createdAt < start /\ b.wf >= PushFloor => PushAhead(b)

\* A relay block is dealt with by Pull, or known to be passed.
Pulled(b) == Offered(toLocal, b) \/ b \in unpulled

\* The same for Pull: a block is dealt with, is to be fetched, or is after the
\* cursor of handleDelta.
PullAhead(b) ==
  \/ Pulled(b)
  \/ b.id \in missing
  \/ pc = "delta" /\ KeyLess(cursor, b)

\* What PullComplete needs.
PullInv ==
  pc \in {"delta", "fetch"} =>
    \A b \in relay.block :
      /\ since.pull <= b.createdAt /\ b.createdAt < start
      /\ b.wf >= MaxOf(PowFloor, RelayFloor)
      => PullAhead(b)

\* The inductive invariant.
IInv ==
  /\ TypeOK /\ StoresInv /\ RoundInv
  /\ PushInv /\ PushComplete
  /\ PullInv /\ PullComplete
-----------------------------------------------------------------------------
(* The two stores.                                                         *)

LEMMA MkRefParts ==
  ASSUME NEW id \in ID, NEW wf \in WF, NEW at \in Nat
  PROVE  /\ MkRef(id, wf, at) \in Ref
         /\ MkRef(id, wf, at).id = id /\ MkRef(id, wf, at).wf = wf
         /\ MkRef(id, wf, at).createdAt = at
<1>1. (CHOOSE t \in Tag : TRUE) \in Tag
  BY SyncAssumption
<1> QED
  BY <1>1 DEF MkRef, Ref

LEMMA Clocks ==
  ASSUME TypeOK
  PROVE  /\ now \in Nat /\ RelayNow \in Nat /\ now <= MaxTime /\ MaxTime \in Nat
         /\ local \in DB /\ relay \in DB
         /\ local.block \subseteq Ref /\ relay.block \subseteq Ref
         /\ local.trav \subseteq Ref /\ relay.trav \subseteq Ref
BY SyncAssumption DEF TypeOK, RelayNow, DB

\* A step puts one block into the local store, evicts one, or leaves it alone.
LEMMA LocalStep ==
  ASSUME TypeOK, [Next]_vars
  PROVE  \/ local' = local /\ toLocal' = toLocal
         \/ /\ \E id \in ID, wf \in WF, at \in Nat : at <= now /\ PutLocal(id, wf, at)
            /\ UNCHANGED <<now, marks, pc, since, start, cursor>>
         \/ /\ \E c \in local.block : local' = EvictTxn(local, c, now)
            /\ toLocal' = toLocal /\ now' = now
<1>0. now \in Nat /\ RelayNow \in Nat
  BY Clocks
<1>1. ASSUME NEW id \in work.local, NEW wf \in WF, LocalPut(id, wf)
      PROVE  /\ id \in ID /\ \E at \in Nat : at <= now /\ PutLocal(id, wf, at)
             /\ UNCHANGED <<now, marks, pc, since, start, cursor>>
  <2>1. id \in ID
    BY SyncAssumption DEF TypeOK
  <2>2. PICK at \in Stamps(now, 1) : PutLocal(id, wf, at)
    BY <1>1 DEF LocalPut
  <2>3. at \in Nat /\ at <= now
    BY <1>0 DEF Stamps
  <2> QED
    BY <1>1, <2>1, <2>2, <2>3 DEF LocalPut, round
<1>2. ASSUME NEW id \in ID, Fetch(id)
      PROVE  /\ \E wf \in WF, at \in Nat : at <= now /\ PutLocal(id, wf, at)
             /\ UNCHANGED <<now, marks, pc, since, start, cursor>>
  <2>1. PICK b \in relay.block, at \in Stamps(now, start) : PutLocal(id, b.wf, at)
    BY <1>2 DEF Fetch
  <2>2. b.wf \in WF /\ at \in Nat /\ at <= now
    BY <1>0, Clocks DEF Ref, Stamps
  <2> QED
    BY <1>2, <2>1, <2>2 DEF Fetch
<1>3. CASE Evict
  BY <1>3 DEF Evict
<1>4. CASE (\E id \in work.relay, wf \in WF : RelayPut(id, wf)) \/ Tick \/ Abandon
           \/ \E id \in ID : FetchFails(id)
  BY <1>4 DEF RelayPut, Tick, Abandon, FetchFails
<1>5. CASE SyncOne \/ BuildBloom \/ Delta \/ PullDone \/ PowLimit \/ ListPage \/ Upload
           \/ UploadSkipped \/ NextPage \/ PushDone
  BY <1>5 DEF SyncOne, BuildBloom, Delta, PullDone, PowLimit, ListPage, Upload,
              UploadSkipped, NextPage, PushDone
<1>6. CASE UNCHANGED vars
  BY <1>6 DEF vars
<1> QED
  BY <1>1, <1>2, <1>3, <1>4, <1>5, <1>6 DEF Next, Progress

\* The same for the relay's store.
LEMMA RelayStep ==
  ASSUME TypeOK, [Next]_vars
  PROVE  \/ relay' = relay /\ toRelay' = toRelay
         \/ /\ \E id \in ID, wf \in WF, at \in Nat : at <= RelayNow /\ PutRelay(id, wf, at)
            /\ UNCHANGED <<now, marks, pc, since, start, cursor>>
         \/ /\ \E c \in relay.block : relay' = EvictTxn(relay, c, RelayNow)
            /\ toRelay' = toRelay /\ now' = now
<1>0. now \in Nat /\ RelayNow \in Nat
  BY Clocks
<1>1. ASSUME NEW id \in work.relay, NEW wf \in WF, RelayPut(id, wf)
      PROVE  /\ id \in ID /\ \E at \in Nat : at <= RelayNow /\ PutRelay(id, wf, at)
             /\ UNCHANGED <<now, marks, pc, since, start, cursor>>
  <2>1. id \in ID
    BY SyncAssumption DEF TypeOK
  <2>2. PICK at \in Stamps(RelayNow, 1) : PutRelay(id, wf, at)
    BY <1>1 DEF RelayPut
  <2>3. at \in Nat /\ at <= RelayNow
    BY <1>0 DEF Stamps
  <2> QED
    BY <1>1, <2>1, <2>2, <2>3 DEF RelayPut, round
<1>2. ASSUME Upload
      PROVE  /\ \E id \in ID, wf \in WF, at \in Nat : at <= RelayNow /\ PutRelay(id, wf, at)
             /\ UNCHANGED <<now, marks, pc, since, start, cursor>>
  <2>1. PICK b \in local.block, at \in Stamps(RelayNow, start - RelayLag) :
          PutRelay(b.id, b.wf, at)
    BY <1>2 DEF Upload
  <2>2. b.id \in ID /\ b.wf \in WF /\ at \in Nat /\ at <= RelayNow
    BY <1>0, Clocks DEF Ref, Stamps
  <2> QED
    BY <1>2, <2>1, <2>2 DEF Upload
<1>3. CASE Evict
  BY <1>3 DEF Evict
<1>4. CASE (\E id \in work.local, wf \in WF : LocalPut(id, wf)) \/ Tick \/ Abandon
           \/ \E id \in ID : Fetch(id) \/ FetchFails(id)
  BY <1>4 DEF LocalPut, Tick, Abandon, Fetch, FetchFails
<1>5. CASE SyncOne \/ BuildBloom \/ Delta \/ PullDone \/ PowLimit \/ ListPage
           \/ UploadSkipped \/ NextPage \/ PushDone
  BY <1>5 DEF SyncOne, BuildBloom, Delta, PullDone, PowLimit, ListPage,
              UploadSkipped, NextPage, PushDone
<1>6. CASE UNCHANGED vars
  BY <1>6 DEF vars
<1> QED
  BY <1>1, <1>2, <1>3, <1>4, <1>5, <1>6 DEF Next, Progress

LEMMA ClockStep ==
  ASSUME TypeOK, [Next]_vars
  PROVE  /\ now' \in RelayLag + 1 .. MaxTime /\ now' \in Nat /\ RelayNow' \in Nat
         /\ now <= now' /\ RelayNow <= RelayNow'
<1>1. now' = now \/ (now < MaxTime /\ now' = now + 1)
  BY DEF Next, Progress, vars, LocalPut, RelayPut, Evict, Tick, Abandon, Fetch, FetchFails,
         SyncOne, BuildBloom, Delta, PullDone, PowLimit, ListPage, Upload, UploadSkipped,
         NextPage, PushDone
<1> QED
  BY <1>1, SyncAssumption DEF TypeOK, RelayNow

\* What a step can do to one of the databases, with the clock of its host.
LEMMA DatabaseStep ==
  ASSUME NEW d \in DB, NEW e, NEW n \in Nat, NEW m \in Nat, n <= m,
         Consistent(d, n), IsFiniteSet(d.trav),
         \/ e = d
         \/ /\ \E id \in ID, wf \in WF, at \in Nat :
                 at <= n /\ e = PutTxn(d, MkRef(id, wf, at), n)
            /\ m = n
         \/ (\E c \in d.block : e = EvictTxn(d, c, n)) /\ m = n
  PROVE  e \in DB /\ Consistent(e, m) /\ IsFiniteSet(e.trav)
<1>1. CASE e = d
  BY <1>1, ConsistentLater
<1>2. ASSUME NEW id \in ID, NEW wf \in WF, NEW at \in Nat, at <= n,
             e = PutTxn(d, MkRef(id, wf, at), n), m = n
      PROVE  e \in DB /\ Consistent(e, m) /\ IsFiniteSet(e.trav)
  <2> DEFINE r == MkRef(id, wf, at)
  <2>1. r \in Ref /\ r.createdAt <= n
    BY <1>2, MkRefParts
  <2> HIDE DEF r
  <2>2. e = PutTxn(d, r, n)
    BY <1>2 DEF r
  <2>3. Consistent(e, n)
    BY <2>1, <2>2, PutConsistent
  <2>4. e \in DB /\ IsFiniteSet(e.trav)
    BY <2>1, <2>2, PutBrings
  <2> QED
    BY <1>2, <2>3, <2>4
<1>3. ASSUME NEW c \in d.block, e = EvictTxn(d, c, n), m = n
      PROVE  e \in DB /\ Consistent(e, m) /\ IsFiniteSet(e.trav)
  <2>1. c \in Ref
    BY DEF DB
  <2>2. e \in DB /\ e.trav \subseteq d.trav
    BY <1>3, <2>1, EvictShrinks
  <2>3. Consistent(e, n)
    BY <1>3, <2>1, EvictConsistent
  <2>4. IsFiniteSet(e.trav)
    BY <2>2, FS_Subset
  <2> QED
    BY <1>3, <2>2, <2>3, <2>4
<1> QED
  BY <1>1, <1>2, <1>3

\* Both stores stay consistent, and no offer is forgotten.
LEMMA StoresNext ==
  ASSUME TypeOK, StoresInv, [Next]_vars
  PROVE  /\ local' \in DB /\ Consistent(local', now') /\ IsFiniteSet(local'.trav)
         /\ relay' \in DB /\ Consistent(relay', RelayNow') /\ IsFiniteSet(relay'.trav)
         /\ toLocal \subseteq toLocal' /\ toLocal' \subseteq Offer
         /\ toRelay \subseteq toRelay' /\ toRelay' \subseteq Offer
<1>1. /\ local \in DB /\ now \in Nat /\ now' \in Nat /\ now <= now'
      /\ relay \in DB /\ RelayNow \in Nat /\ RelayNow' \in Nat /\ RelayNow <= RelayNow'
      /\ toLocal \subseteq Offer /\ toRelay \subseteq Offer
  BY Clocks, ClockStep DEF TypeOK
<1>2. /\ local' \in DB /\ Consistent(local', now') /\ IsFiniteSet(local'.trav)
  BY <1>1, LocalStep, DatabaseStep DEF StoresInv, PutLocal
<1>3. /\ relay' \in DB /\ Consistent(relay', RelayNow') /\ IsFiniteSet(relay'.trav)
  <2>1. now' = now => RelayNow' = RelayNow
    BY DEF RelayNow
  <2> QED
    BY <1>1, <2>1, RelayStep, DatabaseStep DEF StoresInv, PutRelay
<1>4. \A id \in ID, wf \in WF : [id |-> id, wf |-> wf] \in Offer
  BY DEF Offer
<1>5. toLocal \subseteq toLocal' /\ toLocal' \subseteq Offer
  BY <1>1, <1>4, LocalStep DEF PutLocal
<1>6. toRelay \subseteq toRelay' /\ toRelay' \subseteq Offer
  BY <1>1, <1>4, RelayStep DEF PutRelay
<1> QED
  BY <1>2, <1>3, <1>5, <1>6

\* A copy that appears in the local store is still to be listed by Push or is
\* known to be passed, and what is known to be passed stays so until a round
\* lists it again.
LEMMA LocalCopies ==
  ASSUME TypeOK, StoresInv, [Next]_vars, NEW b \in local'.block
  PROVE  /\ b \in Ref
         /\ \/ b \in local.block
            \/ /\ b \in unpushed' \/ ~PushPast(b)
               /\ UNCHANGED <<now, marks, pc, since, start, cursor>>
         /\ b \in unpushed /\ (pc # "idle" \/ b.createdAt < pushSince) => b \in unpushed'
<1>1. b \in Ref
  BY StoresNext DEF DB
<1>2. \/ b \in local.block
      \/ /\ b \in unpushed' \/ ~PushPast(b)
         /\ UNCHANGED <<now, marks, pc, since, start, cursor>>
  <2>1. ASSUME NEW id \in ID, NEW wf \in WF, NEW at \in Nat, PutLocal(id, wf, at), b \notin local.block
        PROVE  b \in unpushed' \/ ~PushPast(b)
    BY <2>1 DEF PutLocal
  <2>2. ASSUME NEW c \in local.block, local' = EvictTxn(local, c, now)
        PROVE  b \in local.block
    <3>1. c \in Ref /\ local \in DB /\ now \in Nat
      BY Clocks
    <3> QED
      BY <2>2, <3>1, EvictShrinks
  <2> QED
    BY <2>1, <2>2, LocalStep
<1>3. ASSUME b \in unpushed, pc # "idle" \/ b.createdAt < pushSince PROVE b \in unpushed'
  <2>1. ASSUME NEW id \in work.local, NEW wf \in WF, LocalPut(id, wf) PROVE b \in unpushed'
    BY <1>3, <2>1 DEF LocalPut, PutLocal
  <2>2. ASSUME NEW id \in ID, Fetch(id) \/ FetchFails(id) PROVE b \in unpushed'
    BY <1>3, <2>2 DEF Fetch, PutLocal, FetchFails
  <2>3. CASE (\E id \in work.relay, wf \in WF : RelayPut(id, wf)) \/ Tick \/ Abandon
    BY <1>3, <2>3 DEF RelayPut, Tick, Abandon
  <2>4. CASE Evict \/ SyncOne
    BY <1>3, <2>4 DEF Evict, SyncOne
  <2>5. CASE BuildBloom \/ Delta \/ PullDone \/ PowLimit \/ ListPage \/ Upload
             \/ UploadSkipped \/ NextPage \/ PushDone
    BY <1>3, <2>5 DEF BuildBloom, Delta, PullDone, PowLimit, ListPage, Upload,
                UploadSkipped, NextPage, PushDone
  <2>6. CASE UNCHANGED vars
    BY <1>3, <2>6 DEF vars
  <2> QED
    BY <2>1, <2>2, <2>3, <2>4, <2>5, <2>6 DEF Next, Progress
<1> QED
  BY <1>1, <1>2, <1>3

\* The same for a copy in the relay's store and Pull.
LEMMA RelayCopies ==
  ASSUME TypeOK, StoresInv, [Next]_vars, NEW b \in relay'.block
  PROVE  /\ b \in Ref
         /\ \/ b \in relay.block
            \/ /\ b \in unpulled' \/ ~PullPast(b)
               /\ UNCHANGED <<now, marks, pc, since, start, cursor>>
         /\ b \in unpulled /\ (pc # "idle" \/ b.createdAt < pullSince) => b \in unpulled'
<1>1. b \in Ref
  BY StoresNext DEF DB
<1>2. \/ b \in relay.block
      \/ /\ b \in unpulled' \/ ~PullPast(b)
         /\ UNCHANGED <<now, marks, pc, since, start, cursor>>
  <2>1. ASSUME NEW id \in ID, NEW wf \in WF, NEW at \in Nat, PutRelay(id, wf, at), b \notin relay.block
        PROVE  b \in unpulled' \/ ~PullPast(b)
    BY <2>1 DEF PutRelay
  <2>2. ASSUME NEW c \in relay.block, relay' = EvictTxn(relay, c, RelayNow)
        PROVE  b \in relay.block
    <3>1. c \in Ref /\ relay \in DB /\ RelayNow \in Nat
      BY Clocks
    <3> QED
      BY <2>2, <3>1, EvictShrinks
  <2> QED
    BY <2>1, <2>2, RelayStep
<1>3. ASSUME b \in unpulled, pc # "idle" \/ b.createdAt < pullSince PROVE b \in unpulled'
  <2>1. ASSUME NEW id \in work.relay, NEW wf \in WF, RelayPut(id, wf) PROVE b \in unpulled'
    BY <1>3, <2>1 DEF RelayPut, PutRelay
  <2>2. CASE Upload
    BY <1>3, <2>2 DEF Upload, PutRelay
  <2>3. CASE (\E id \in work.local, wf \in WF : LocalPut(id, wf)) \/ Tick \/ Abandon
             \/ \E id \in ID : Fetch(id) \/ FetchFails(id)
    BY <1>3, <2>3 DEF LocalPut, Tick, Abandon, Fetch, FetchFails
  <2>4. CASE Evict \/ SyncOne
    BY <1>3, <2>4 DEF Evict, SyncOne
  <2>5. CASE BuildBloom \/ Delta \/ PullDone \/ PowLimit \/ ListPage
             \/ UploadSkipped \/ NextPage \/ PushDone
    BY <1>3, <2>5 DEF BuildBloom, Delta, PullDone, PowLimit, ListPage,
                UploadSkipped, NextPage, PushDone
  <2>6. CASE UNCHANGED vars
    BY <1>3, <2>6 DEF vars
  <2> QED
    BY <2>1, <2>2, <2>3, <2>4, <2>5, <2>6 DEF Next, Progress
<1> QED
  BY <1>1, <1>2, <1>3

-----------------------------------------------------------------------------
(* The round.                                                              *)

\* The part of TypeOK about the round, RoundInv, and that the round began in
\* the past.
RoundOK ==
  /\ work \in Workloads
  /\ pullSince \in 0..MaxTime /\ pushSince \in 0..MaxTime
  /\ pc \in {"idle", "bloom", "delta", "fetch", "limit", "list", "page"}
  /\ since \in [pull : Nat, push : Nat] /\ start \in Nat
  /\ bloom \subseteq UNION {Bits(i, w) : i \in ID, w \in WF}
  /\ missing \subseteq ID /\ pulled \subseteq ID /\ limit \in Limits \cup {NoLimit}
  /\ cursor \in [createdAt : Nat, id : Nat] /\ page \subseteq Ref
  /\ start <= now
  /\ RoundInv

LEMMA Parts ==
  TypeOK /\ StoresInv /\ RoundInv <=>
    /\ now \in RelayLag + 1 .. MaxTime /\ local \in DB /\ relay \in DB
    /\ toLocal \subseteq Offer /\ toRelay \subseteq Offer
    /\ unpulled \subseteq Ref /\ unpushed \subseteq Ref
    /\ Consistent(local, now) /\ IsFiniteSet(local.trav)
    /\ Consistent(relay, RelayNow) /\ IsFiniteSet(relay.trav)
    /\ RoundOK
BY DEF TypeOK, StoresInv, RoundOK

\* What PageComplete says of a page of either store.
LEMMA PageOf ==
  ASSUME NEW d \in DB, NEW n, Consistent(d, n), IsFiniteSet(d.trav),
         NEW from, NEW floor, NEW low
  PROVE  LET refs == Page(d, from, PageSize, floor, low)
             next == NextCursor(refs, PageSize)
         IN  /\ refs \subseteq Ref
             /\ next \in [createdAt : Nat, id : Nat]
             /\ \A e \in Listable(d, from, floor, low) \ refs :
                  next # NoCursor /\ KeyLess(next, e)
<1>1. Keyed(d.trav) /\ KeysUnique(d.trav) /\ PageSize \in Nat \ {0} /\ d.trav \subseteq Ref
  BY SyncAssumption DEF Consistent, Keyed, KeysUnique, DB, Ref
<1>2. LET refs == Page(d, from, PageSize, floor, low)
          next == NextCursor(refs, PageSize)
      IN  /\ refs \subseteq d.trav
          /\ next \in [createdAt : Nat, id : Nat]
          /\ \A e \in Listable(d, from, floor, low) \ refs :
               next # NoCursor /\ KeyLess(next, e)
  BY <1>1, PageComplete
<1> QED
  BY <1>1, <1>2

\* Every step keeps the round in order.
LEMMA RoundNext ==
  ASSUME TypeOK, StoresInv, RoundInv, [Next]_vars
  PROVE  RoundOK'
<1>1. /\ RoundOK /\ now \in Nat /\ now' \in Nat /\ now <= now' /\ now <= MaxTime
      /\ MaxTime \in Nat /\ local \in DB /\ relay \in DB
  BY Parts, Clocks, ClockStep
<1> USE DEF RoundOK, RoundInv
<1>2. ASSUME UNCHANGED <<work, round, marks>>
      PROVE  RoundOK'
  BY <1>1, <1>2 DEF round, marks
<1>3. CASE SyncOne
  BY <1>1, <1>3 DEF SyncOne, marks
<1>4. CASE BuildBloom
  <2>1. BloomOf(local.trav) \subseteq UNION {Bits(i, w) : i \in ID, w \in WF}
    BY <1>1 DEF BloomOf, DB, Ref
  <2>2. UNCHANGED <<work, now, since, start, missing, pulled, limit, cursor, page, pullSince,
                    pushSince>>
        /\ pc = "bloom" /\ pc' = "delta" /\ bloom' = BloomOf(local.trav)
    BY <1>4 DEF BuildBloom, marks
  <2> QED
    BY <1>1, <2>1, <2>2
<1>5. CASE Delta
  <2> DEFINE floor == MaxOf(PowFloor, RelayFloor)
             refs  == Page(relay, cursor, PageSize, floor, since.pull)
  <2>1. refs \subseteq Ref /\ NextCursor(refs, PageSize) \in [createdAt : Nat, id : Nat]
    BY <1>1, PageOf DEF StoresInv
  <2>2. /\ missing' = missing \cup {e.id : e \in {f \in refs : ~BloomHas(bloom, f.id, f.wf)}}
        /\ cursor' = NextCursor(refs, PageSize)
        /\ pc' = IF cursor' = NoCursor THEN "fetch" ELSE "delta"
        /\ bloom' = IF cursor' = NoCursor THEN {} ELSE bloom
        /\ pc = "delta"
        /\ UNCHANGED <<work, now, since, start, pulled, limit, page, pullSince, pushSince>>
    BY <1>5 DEF Delta, marks
  <2> HIDE DEF refs
  <2>3. missing' \subseteq ID
    BY <1>1, <2>1, <2>2 DEF Ref
  <2> QED
    BY <1>1, <2>1, <2>2, <2>3
<1>6. ASSUME NEW id \in ID, Fetch(id) \/ FetchFails(id)
      PROVE  RoundOK'
  <2>1. /\ missing' = missing \ {id} /\ pulled' \subseteq pulled \cup {id}
        /\ UNCHANGED <<work, now, pc, since, start, bloom, limit, cursor, page, pullSince, pushSince>>
    BY <1>6 DEF Fetch, FetchFails, marks
  <2> QED
    BY <1>1, <2>1
<1>7. CASE PullDone
  BY <1>1, <1>7 DEF PullDone
<1>8. CASE Abandon
  <2>1. /\ pc' = "idle" /\ since' = [pull |-> 0, push |-> 0] /\ start' = 0
        /\ bloom' = {} /\ missing' = {} /\ pulled' = {} /\ limit' = NoLimit
        /\ cursor' = NoCursor /\ page' = {}
        /\ UNCHANGED <<work, now, pullSince, pushSince>>
    BY <1>8 DEF Abandon, marks
  <2>2. cursor' \in [createdAt : Nat, id : Nat]
    BY <2>1 DEF NoCursor
  <2> QED
    BY <1>1, <2>1, <2>2
<1>9. CASE PowLimit
  BY <1>1, <1>9 DEF PowLimit, marks
<1>10. CASE ListPage
  <2> DEFINE refs == Page(local, cursor, PageSize, PushFloor, since.push)
  <2>1. refs \subseteq Ref /\ NextCursor(refs, PageSize) \in [createdAt : Nat, id : Nat]
    BY <1>1, PageOf DEF StoresInv
  <2>2. /\ page' = refs /\ cursor' = NextCursor(refs, PageSize) /\ pc = "list" /\ pc' = "page"
        /\ UNCHANGED <<work, now, since, start, bloom, missing, pulled, limit, pullSince, pushSince>>
    BY <1>10 DEF ListPage, marks
  <2> HIDE DEF refs
  <2> QED
    BY <1>1, <2>1, <2>2
<1>11. CASE Upload
  BY <1>1, <1>11 DEF Upload, marks
<1>12. CASE UploadSkipped
  BY <1>1, <1>12 DEF UploadSkipped, marks
<1>13. CASE NextPage
  BY <1>1, <1>13 DEF NextPage, marks
<1>14. CASE PushDone
  BY <1>1, <1>14 DEF PushDone
<1>15. CASE (\E id \in work.local, wf \in WF : LocalPut(id, wf))
            \/ (\E id \in work.relay, wf \in WF : RelayPut(id, wf)) \/ Evict \/ Tick
  BY <1>2, <1>15 DEF LocalPut, RelayPut, Evict, Tick
<1>16. CASE UNCHANGED vars
  BY <1>2, <1>16 DEF vars
<1> QED
  BY <1>3, <1>4, <1>5, <1>6, <1>7, <1>8, <1>9, <1>10, <1>11, <1>12, <1>13, <1>14,
     <1>15, <1>16 DEF Next, Progress
\* What is known to be passed is a copy of some block.
LEMMA MarksNext ==
  ASSUME TypeOK, StoresInv, [Next]_vars
  PROVE  unpulled' \subseteq Ref /\ unpushed' \subseteq Ref
<1>1. /\ local \in DB /\ local.block \subseteq Ref /\ local'.block \subseteq Ref
      /\ relay \in DB /\ relay.block \subseteq Ref /\ relay'.block \subseteq Ref
      /\ unpulled \subseteq Ref /\ unpushed \subseteq Ref
  BY Clocks, StoresNext DEF DB, TypeOK
<1>2. CASE Delta
  <2>1. Page(relay, cursor, PageSize, MaxOf(PowFloor, RelayFloor), since.pull) \subseteq Ref
    BY <1>1, PageOf DEF StoresInv
  <2> QED
    BY <1>1, <1>2, <2>1 DEF Delta
<1>3. ASSUME NEW id \in ID, Fetch(id) \/ FetchFails(id)
      PROVE  unpulled' \subseteq Ref /\ unpushed' \subseteq Ref
  BY <1>1, <1>3 DEF Fetch, PutLocal, FetchFails
<1>4. CASE \E id \in work.local, wf \in WF : LocalPut(id, wf)
  BY <1>1, <1>4 DEF LocalPut, PutLocal
<1>5. CASE (\E id \in work.relay, wf \in WF : RelayPut(id, wf)) \/ Upload
  BY <1>1, <1>5 DEF RelayPut, Upload, PutRelay
<1>6. CASE Evict \/ SyncOne \/ UploadSkipped \/ PushDone
  BY <1>1, <1>6 DEF Evict, SyncOne, UploadSkipped, PushDone, Barred
<1>7. CASE Tick \/ BuildBloom \/ PullDone \/ Abandon \/ PowLimit \/ ListPage \/ NextPage
  BY <1>1, <1>7 DEF Tick, BuildBloom, PullDone, Abandon, PowLimit, ListPage, NextPage
<1>8. CASE UNCHANGED vars
  BY <1>1, <1>8 DEF vars
<1> QED
  BY <1>2, <1>3, <1>4, <1>5, <1>6, <1>7, <1>8 DEF Next, Progress
-----------------------------------------------------------------------------
(* Push.                                                                   *)

\* What has been dealt with stays so.
LEMMA PushedStays ==
  ASSUME TypeOK, StoresInv, [Next]_vars, NEW b \in local'.block, Pushed(b),
         pc # "idle" \/ b.createdAt < pushSince
  PROVE  Pushed(b)'
<1>1. toRelay \subseteq toRelay'
  BY StoresNext
<1>2. b \in unpushed => b \in unpushed'
  BY LocalCopies
<1> QED
  BY <1>1, <1>2 DEF Pushed, Offered

\* A page of Push leaves a block ahead of it.
LEMMA ListAhead ==
  ASSUME TypeOK, StoresInv, ListPage,
         NEW b \in local.block, since.push <= b.createdAt,
         b.wf >= PushFloor, PushAhead(b)
  PROVE  PushAhead(b)'
<1>1. /\ local \in DB /\ b \in local.trav /\ b \in Ref
  BY Clocks DEF StoresInv, Consistent
<1> DEFINE refs == Page(local, cursor, PageSize, PushFloor, since.push)
<1>2. /\ page' = refs /\ cursor' = NextCursor(refs, PageSize)
      /\ pc = "list" /\ pc' = "page" /\ UNCHANGED <<unpushed, toRelay>>
  BY DEF ListPage
<1>3. \A e \in Listable(local, cursor, PushFloor, since.push) \ refs :
        cursor' # NoCursor /\ KeyLess(cursor', e)
  BY <1>1, <1>2, PageOf DEF StoresInv
<1> HIDE DEF refs
<1>4. CASE Pushed(b)
  BY <1>2, <1>4 DEF PushAhead, Pushed, Offered
<1>5. CASE ~Pushed(b)
  <2>1. KeyLess(cursor, b)
    BY <1>2, <1>5 DEF PushAhead
  <2>2. since.push \in Nat /\ b.createdAt \in Nat
    BY <1>1 DEF TypeOK, Ref
  <2>3. b \in Listable(local, cursor, PushFloor, since.push)
    BY <1>1, <2>1, <2>2 DEF Listable
  <2>4. b \in page' \/ (cursor' # NoCursor /\ KeyLess(cursor', b))
    BY <1>2, <1>3, <2>3
  <2> QED
    BY <1>2, <2>4 DEF PushAhead, KeyLess
<1> QED
  BY <1>4, <1>5

\* An upload deals with the block behind the reference, and passing it over is
\* remembered.
LEMMA UploadAhead ==
  ASSUME TypeOK, StoresInv, Upload \/ UploadSkipped, toRelay \subseteq toRelay',
         unpushed \subseteq unpushed', NEW b \in local.block, PushAhead(b)
  PROVE  PushAhead(b)'
<1>1. b.wf \in Int /\ b.id \in ID
  BY Clocks DEF Ref, WF
<1>2. \A c \in local.block : c.id = b.id => c = b
  BY DEF StoresInv, Consistent
<1>3. pc' = pc /\ cursor' = cursor
  BY DEF Upload, UploadSkipped
<1>4. CASE Pushed(b)
  BY <1>4 DEF PushAhead, Pushed, Offered
<1>5. ASSUME NEW e \in page, page' = page \ {e}, e.id # b.id PROVE PushAhead(b)'
  BY <1>3, <1>4, <1>5 DEF PushAhead, KeyLess
<1>6. CASE Upload
  <2>1. PICK e \in page :
          /\ page' = page \ {e}
          /\ \E c \in local.block :
               c.id = e.id /\ toRelay' = toRelay \cup {[id |-> c.id, wf |-> c.wf]}
    BY <1>6 DEF Upload, PutRelay
  <2>2. CASE e.id = b.id
    <3>1. [id |-> b.id, wf |-> b.wf] \in toRelay'
      BY <1>2, <2>1, <2>2
    <3> QED
      BY <1>1, <3>1 DEF PushAhead, Pushed, Offered
  <2> QED
    BY <1>5, <2>1, <2>2
<1>7. CASE UploadSkipped
  <2>1. PICK e \in page :
          /\ page' = page \ {e}
          /\ unpushed' = unpushed \cup
               {c \in local.block : c.id = e.id /\ ~Offered(toRelay, c)}
    BY <1>7 DEF UploadSkipped
  <2>2. CASE e.id = b.id
    <3>1. Offered(toRelay, b) \/ b \in unpushed'
      BY <2>1, <2>2
    <3> QED
      BY <3>1 DEF PushAhead, Pushed, Offered
  <2> QED
    BY <1>5, <2>1, <2>2
<1> QED
  BY <1>6, <1>7

\* Push misses no block from before it began that the floor lets through.
LEMMA PushNext ==
  ASSUME TypeOK, StoresInv, RoundInv, PushInv, [Next]_vars
  PROVE  PushInv'
<1>1. /\ start \in Nat /\ since.push \in Nat /\ pushSince \in Nat
  BY SyncAssumption DEF TypeOK
<1>2. /\ toRelay \subseteq toRelay'
  BY StoresNext
<1> SUFFICES ASSUME pc' \in {"list", "page"}, NEW b \in local'.block,
                    since'.push <= b.createdAt, b.createdAt < start', b.wf >= PushFloor'
             PROVE  PushAhead(b)'
  BY DEF PushInv, PushFloor
<1>c. /\ b \in Ref
      /\ \/ b \in local.block
         \/ /\ b \in unpushed' \/ ~PushPast(b)
            /\ UNCHANGED <<now, marks, pc, since, start, cursor>>
      /\ b \in unpushed /\ (pc # "idle" \/ b.createdAt < pushSince) => b \in unpushed'
  BY LocalCopies
<1>3. ASSUME UNCHANGED round PROVE PushAhead(b)'
  <2>1. UNCHANGED <<pc, since, start, cursor, page, limit>> /\ PushFloor' = PushFloor
    BY <1>3 DEF round, PushFloor
  <2>2. CASE b \in local.block
    <3>1. PushAhead(b)
      BY <2>1, <2>2 DEF PushInv
    <3>2. CASE Pushed(b)
      BY <2>1, <3>2, PushedStays DEF PushAhead
    <3>3. CASE ~Pushed(b)
      BY <2>1, <3>1, <3>3 DEF PushAhead, KeyLess
    <3> QED
      BY <3>2, <3>3
  <2>3. CASE b \notin local.block /\ b \in unpushed'
    BY <2>3 DEF PushAhead, Pushed
  <2>4. CASE b \notin local.block /\ ~PushPast(b)
    <3>1. (pc = "list" \/ cursor # NoCursor) /\ KeyLess(cursor, b)
      BY <2>1, <2>4 DEF PushPast
    <3> QED
      BY <2>1, <3>1 DEF PushAhead, KeyLess
  <2> QED
    BY <1>c, <2>2, <2>3, <2>4
<1>4. CASE PowLimit
  <2>1. cursor' = NoCursor /\ pc' = "list"
    BY <1>4 DEF PowLimit, RoundInv
  <2>2. b.createdAt \in Nat /\ b.id \in Nat \ {0}
    BY <1>c, IDAssumption DEF Ref
  <2> QED
    BY <2>1, <2>2 DEF PushAhead, KeyLess, NoCursor
<1>5. CASE ListPage
  <2>1. local' = local /\ UNCHANGED <<since, start, limit>> /\ pc = "list"
    BY <1>5 DEF ListPage
  <2>2. PushAhead(b) /\ b.wf >= PushFloor
    BY <2>1 DEF PushInv, PushFloor
  <2> QED
    BY <1>5, <2>1, <2>2, ListAhead
<1>6. CASE Upload \/ UploadSkipped
  <2>1. /\ local' = local /\ UNCHANGED <<pc, since, start, limit>>
        /\ unpushed \subseteq unpushed'
    BY <1>6 DEF Upload, UploadSkipped
  <2>2. PushAhead(b)
    BY <2>1 DEF PushInv, PushFloor
  <2> QED
    BY <1>2, <1>6, <2>1, <2>2, UploadAhead
<1>7. CASE NextPage
  <2>1. /\ local' = local /\ UNCHANGED <<since, start, limit, cursor, page, unpushed, toRelay>>
        /\ pc = "page" /\ page = {} /\ pc' = "list"
    BY <1>7 DEF NextPage
  <2>2. PushAhead(b)
    BY <2>1 DEF PushInv, PushFloor
  <2> QED
    BY <2>1, <2>2 DEF PushAhead, Pushed, Offered, KeyLess
<1>8. ASSUME SyncOne \/ BuildBloom \/ Delta \/ PullDone \/ PushDone \/ Abandon
             \/ \E id \in ID : Fetch(id) \/ FetchFails(id)
      PROVE  FALSE
  BY <1>8 DEF SyncOne, BuildBloom, Delta, PullDone, PushDone, Abandon, Fetch, FetchFails
<1>9. CASE (\E id \in work.local, wf \in WF : LocalPut(id, wf))
           \/ (\E id \in work.relay, wf \in WF : RelayPut(id, wf)) \/ Evict \/ Tick
  BY <1>3, <1>9 DEF LocalPut, RelayPut, Evict, Tick
<1>10. CASE UNCHANGED vars
  BY <1>3, <1>10 DEF vars
<1> QED
  BY <1>4, <1>5, <1>6, <1>7, <1>8, <1>9, <1>10 DEF Next, Progress

\* Nothing below the push watermark is unseen for an unknown reason.
LEMMA PushCompleteNext ==
  ASSUME TypeOK, StoresInv, RoundInv, PushInv, PushComplete, [Next]_vars
  PROVE  PushComplete'
<1>1. /\ start \in Nat /\ since.push \in Nat /\ pushSince \in Nat
      /\ PowFloor \in Int /\ RelayFloor \in Int /\ limit \in Int
  BY SyncAssumption DEF TypeOK, NoLimit
<1> SUFFICES ASSUME NEW b \in local'.block, b.createdAt < pushSince',
                    b.wf >= MaxOf(PowFloor, RelayFloor)
             PROVE  Pushed(b)'
  BY DEF PushComplete, Pushed, Offered
<1>2. /\ b \in Ref
      /\ \/ b \in local.block
         \/ /\ b \in unpushed' \/ ~PushPast(b)
            /\ UNCHANGED <<now, marks, pc, since, start, cursor>>
  BY LocalCopies
<1>3. CASE pushSince' = pushSince
  <2>1. CASE b \in local.block
    <3>1. Pushed(b)
      BY <1>3, <2>1 DEF PushComplete, Pushed
    <3> QED
      BY <1>3, <3>1, PushedStays
  <2>2. CASE b \notin local.block
    BY <1>2, <1>3, <2>2 DEF PushPast, Pushed
  <2> QED
    BY <2>1, <2>2
<1>4. CASE PushDone
  <2>1. /\ pushSince' = start /\ pc = "page" /\ page = {} /\ cursor = NoCursor /\ local' = local
        /\ unpushed' = unpushed \cup Barred /\ toRelay' = toRelay
    BY <1>4 DEF PushDone
  <2>2. CASE b.createdAt < since.push
    <3>1. Pushed(b)
      BY <2>1, <2>2 DEF PushComplete, Pushed, RoundInv
    <3> QED
      BY <2>1, <3>1 DEF Pushed, Offered
  <2>3. CASE since.push <= b.createdAt /\ b.wf >= PushFloor
    <3>1. PushAhead(b)
      BY <2>1, <2>3 DEF PushInv
    <3>2. Pushed(b)
      BY <2>1, <3>1 DEF PushAhead
    <3> QED
      BY <2>1, <3>2 DEF Pushed, Offered
  <2>4. CASE b.wf < PushFloor
    BY <2>1, <2>4 DEF Barred, Pushed, Offered
  <2>5. b.createdAt \in Nat /\ b.wf \in Int /\ PushFloor \in Int
    BY <1>1, <1>2 DEF Ref, WF, PushFloor, MaxOf
  <2> QED
    BY <1>1, <2>2, <2>3, <2>4, <2>5
<1>5. ASSUME ~PushDone PROVE pushSince' = pushSince
  BY <1>5 DEF Next, Progress, vars, marks, LocalPut, RelayPut, Evict, Tick, Abandon, Fetch,
         FetchFails, SyncOne, BuildBloom, Delta, PullDone, PowLimit, ListPage, Upload,
         UploadSkipped, NextPage
<1> QED
  BY <1>3, <1>4, <1>5
-----------------------------------------------------------------------------
(* Pull.                                                                   *)

\* What has been dealt with stays so.
LEMMA PulledStays ==
  ASSUME TypeOK, StoresInv, [Next]_vars, NEW b \in relay'.block, Pulled(b),
         pc # "idle" \/ b.createdAt < pullSince
  PROVE  Pulled(b)'
<1>1. toLocal \subseteq toLocal'
  BY StoresNext
<1>2. b \in unpulled => b \in unpulled'
  BY RelayCopies
<1> QED
  BY <1>1, <1>2 DEF Pulled, Offered

\* A page of handleDelta leaves a block dealt with, to be fetched, ahead, or
\* hidden by the filter.
LEMMA DeltaAhead ==
  ASSUME TypeOK, StoresInv, Delta,
         NEW b \in relay.block, since.pull <= b.createdAt,
         b.wf >= MaxOf(PowFloor, RelayFloor), PullAhead(b)
  PROVE  PullAhead(b)'
<1> DEFINE floor == MaxOf(PowFloor, RelayFloor)
           refs  == Page(relay, cursor, PageSize, floor, since.pull)
<1>1. /\ relay \in DB /\ b \in relay.trav /\ b.id \in ID /\ b.wf \in WF
      /\ since.pull \in Nat /\ b.createdAt \in Nat
  BY Clocks DEF StoresInv, Consistent, Ref, TypeOK
<1>2. /\ missing' = missing \cup {e.id : e \in {f \in refs : ~BloomHas(bloom, f.id, f.wf)}}
      /\ cursor' = NextCursor(refs, PageSize)
      /\ pc' = IF cursor' = NoCursor THEN "fetch" ELSE "delta"
      /\ unpulled' = unpulled \cup
           {f \in refs : Probe(f.id, f.wf) \subseteq bloom /\ ~Offered(toLocal, f)}
      /\ pc = "delta" /\ UNCHANGED toLocal
  BY DEF Delta
<1>3. \A e \in Listable(relay, cursor, floor, since.pull) \ refs :
        cursor' # NoCursor /\ KeyLess(cursor', e)
  BY <1>1, <1>2, PageOf DEF StoresInv
<1>4. CASE Pulled(b)
  BY <1>2, <1>4 DEF PullAhead, Pulled, Offered
<1>5. CASE b.id \in missing
  BY <1>2, <1>5 DEF PullAhead
<1>6. CASE ~Pulled(b) /\ b.id \notin missing
  <2>1. KeyLess(cursor, b)
    BY <1>6 DEF PullAhead
  <2>2. b \in Listable(relay, cursor, floor, since.pull)
    BY <1>1, <2>1 DEF Listable
  <2> HIDE DEF refs, floor
  <2>3. CASE b \in refs
    <3>1. CASE BloomHas(bloom, b.id, b.wf)
      <4>1. b \in unpulled'
        BY <1>2, <1>6, <2>3, <3>1 DEF BloomHas, Pulled
      <4> QED
        BY <4>1 DEF PullAhead, Pulled
    <3>2. CASE ~BloomHas(bloom, b.id, b.wf)
      BY <1>2, <2>3, <3>2 DEF PullAhead
    <3> QED
      BY <3>1, <3>2
  <2>4. CASE b \notin refs
    <3>1. cursor' # NoCursor /\ KeyLess(cursor', b)
      BY <1>3, <2>2, <2>4
    <3> QED
      BY <1>2, <3>1 DEF PullAhead, KeyLess
  <2> QED
    BY <2>3, <2>4
<1> QED
  BY <1>4, <1>5, <1>6

\* A block that is no longer to be fetched was fetched or has failed.
LEMMA FetchAhead ==
  ASSUME TypeOK, StoresInv, NEW id \in ID, Fetch(id) \/ FetchFails(id),
         toLocal \subseteq toLocal', unpulled \subseteq unpulled',
         NEW b \in relay.block, PullAhead(b)
  PROVE  PullAhead(b)'
<1>1. \A c \in relay.block : c.id = b.id => c = b
  BY DEF StoresInv, Consistent
<1>2. missing' = missing \ {id} /\ pc = "fetch" /\ pc' = pc
  BY DEF Fetch, FetchFails
<1>3. b.wf \in Int
  BY Clocks DEF Ref, WF
<1>4. CASE Pulled(b)
  BY <1>4 DEF PullAhead, Pulled, Offered
<1>5. CASE ~Pulled(b) /\ b.id # id
  BY <1>2, <1>5 DEF PullAhead
<1>6. CASE b.id = id
  <2>1. CASE Fetch(id)
    <3>1. [id |-> b.id, wf |-> b.wf] \in toLocal'
      BY <1>1, <1>6, <2>1 DEF Fetch, PutLocal
    <3> QED
      BY <1>3, <3>1 DEF PullAhead, Pulled, Offered
  <2>2. CASE FetchFails(id)
    <3>1. Offered(toLocal, b) \/ b \in unpulled'
      BY <1>6, <2>2 DEF FetchFails
    <3> QED
      BY <3>1 DEF PullAhead, Pulled, Offered
  <2> QED
    BY <2>1, <2>2
<1> QED
  BY <1>4, <1>5, <1>6

\* Pull misses no block of the relay from before it began for another reason.
LEMMA PullNext ==
  ASSUME TypeOK, StoresInv, RoundInv, PullInv, [Next]_vars
  PROVE  PullInv'
<1>1. start \in Nat /\ since.pull \in Nat /\ pullSince \in Nat
  BY SyncAssumption DEF TypeOK
<1>2. toLocal \subseteq toLocal'
  BY StoresNext
<1> SUFFICES ASSUME pc' \in {"delta", "fetch"}, NEW b \in relay'.block,
                    since'.pull <= b.createdAt, b.createdAt < start',
                    b.wf >= MaxOf(PowFloor, RelayFloor)
             PROVE  PullAhead(b)'
  BY DEF PullInv
<1>c. /\ b \in Ref
      /\ \/ b \in relay.block
         \/ /\ b \in unpulled' \/ ~PullPast(b)
            /\ UNCHANGED <<now, marks, pc, since, start, cursor>>
      /\ b \in unpulled /\ (pc # "idle" \/ b.createdAt < pullSince) => b \in unpulled'
  BY RelayCopies
<1>3. ASSUME UNCHANGED round PROVE PullAhead(b)'
  <2>1. UNCHANGED <<pc, since, start, cursor, missing>>
    BY <1>3 DEF round
  <2>2. CASE b \in relay.block
    <3>1. PullAhead(b)
      BY <2>1, <2>2 DEF PullInv
    <3>2. CASE Pulled(b)
      BY <2>1, <3>2, PulledStays DEF PullAhead
    <3>3. CASE ~Pulled(b)
      BY <2>1, <3>1, <3>3 DEF PullAhead, KeyLess
    <3> QED
      BY <3>2, <3>3
  <2>3. CASE b \notin relay.block /\ b \in unpulled'
    BY <2>3 DEF PullAhead, Pulled
  <2>4. CASE b \notin relay.block /\ ~PullPast(b)
    <3>1. pc = "delta" /\ KeyLess(cursor, b)
      BY <2>1, <2>4 DEF PullPast
    <3> QED
      BY <2>1, <3>1 DEF PullAhead, KeyLess
  <2> QED
    BY <1>c, <2>2, <2>3, <2>4
<1>4. CASE BuildBloom
  <2>1. cursor' = NoCursor /\ pc' = "delta"
    BY <1>4 DEF BuildBloom, RoundInv
  <2>2. b.createdAt \in Nat /\ b.id \in Nat \ {0}
    BY <1>c, IDAssumption DEF Ref
  <2> QED
    BY <2>1, <2>2 DEF PullAhead, KeyLess, NoCursor
<1>5. CASE Delta
  <2>1. relay' = relay /\ UNCHANGED <<since, start>> /\ pc = "delta"
    BY <1>5 DEF Delta
  <2>2. PullAhead(b)
    BY <2>1 DEF PullInv
  <2> QED
    BY <1>5, <2>1, <2>2, DeltaAhead
<1>6. ASSUME NEW id \in ID, Fetch(id) \/ FetchFails(id) PROVE PullAhead(b)'
  <2>1. relay' = relay /\ UNCHANGED <<pc, since, start>> /\ unpulled \subseteq unpulled'
    BY <1>6 DEF Fetch, FetchFails
  <2>2. PullAhead(b)
    BY <2>1 DEF PullInv
  <2> QED
    BY <1>2, <1>6, <2>1, <2>2, FetchAhead
<1>7. ASSUME SyncOne \/ PullDone \/ PowLimit \/ ListPage \/ Upload
             \/ UploadSkipped \/ NextPage \/ PushDone \/ Abandon
      PROVE  FALSE
  BY <1>7 DEF SyncOne, PullDone, PowLimit, ListPage, Upload, Head,
              UploadSkipped, NextPage, PushDone, Abandon
<1>8. CASE (\E id \in work.local, wf \in WF : LocalPut(id, wf))
           \/ (\E id \in work.relay, wf \in WF : RelayPut(id, wf)) \/ Evict \/ Tick
  BY <1>3, <1>8 DEF LocalPut, RelayPut, Evict, Tick
<1>9. CASE UNCHANGED vars
  BY <1>3, <1>9 DEF vars
<1> QED
  BY <1>4, <1>5, <1>6, <1>7, <1>8, <1>9 DEF Next, Progress

\* Nothing below the pull watermark is unseen for an unknown reason.
LEMMA PullCompleteNext ==
  ASSUME TypeOK, StoresInv, RoundInv, PullInv, PullComplete, [Next]_vars
  PROVE  PullComplete'
<1>1. start \in Nat /\ since.pull \in Nat /\ pullSince \in Nat
  BY SyncAssumption DEF TypeOK
<1> SUFFICES ASSUME NEW b \in relay'.block, b.createdAt < pullSince',
                    b.wf >= MaxOf(PowFloor, RelayFloor)
             PROVE  Pulled(b)'
  BY DEF PullComplete, Pulled, Offered
<1>2. /\ b \in Ref
      /\ \/ b \in relay.block
         \/ /\ b \in unpulled' \/ ~PullPast(b)
            /\ UNCHANGED <<now, marks, pc, since, start, cursor>>
  BY RelayCopies
<1>3. CASE pullSince' = pullSince
  <2>1. CASE b \in relay.block
    <3>1. Pulled(b)
      BY <1>3, <2>1 DEF PullComplete, Pulled
    <3> QED
      BY <1>3, <3>1, PulledStays
  <2>2. CASE b \notin relay.block
    BY <1>2, <1>3, <2>2 DEF PullPast, Pulled
  <2> QED
    BY <2>1, <2>2
<1>4. CASE PullDone
  <2>1. /\ pullSince' = start /\ pc = "fetch" /\ missing = {} /\ relay' = relay
        /\ UNCHANGED <<unpulled, toLocal>>
    BY <1>4 DEF PullDone
  <2>2. CASE b.createdAt < since.pull
    <3>1. Pulled(b)
      BY <2>1, <2>2 DEF PullComplete, Pulled, RoundInv
    <3> QED
      BY <2>1, <3>1 DEF Pulled, Offered
  <2>3. CASE since.pull <= b.createdAt
    <3>1. PullAhead(b)
      BY <2>1, <2>3 DEF PullInv
    <3>2. Pulled(b)
      BY <2>1, <3>1 DEF PullAhead
    <3> QED
      BY <2>1, <3>2 DEF Pulled, Offered
  <2>4. b.createdAt \in Nat
    BY <1>2 DEF Ref
  <2> QED
    BY <1>1, <2>2, <2>3, <2>4
<1>5. ASSUME ~PullDone PROVE pullSince' = pullSince
  BY <1>5 DEF Next, Progress, vars, marks, LocalPut, RelayPut, Evict, Tick, Abandon, Fetch,
         FetchFails, SyncOne, BuildBloom, Delta, PushDone, PowLimit, ListPage, Upload,
         UploadSkipped, NextPage
<1> QED
  BY <1>3, <1>4, <1>5
-----------------------------------------------------------------------------
(* The invariant.                                                          *)

LEMMA IInvInit == Init => IInv
<1> SUFFICES ASSUME Init PROVE IInv
  OBVIOUS
<1>1. local = EmptyDB /\ relay = EmptyDB /\ EmptyDB \in DB
      /\ EmptyDB.block = {} /\ EmptyDB.trav = {}
  BY DEF Init, EmptyDB, DB
<1>2. now = RelayLag + 1 /\ now \in RelayLag + 1 .. MaxTime /\ MaxTime \in Nat /\ now \in Nat
  BY SyncAssumption DEF Init
<1>3. IsFiniteSet({})
  BY FS_EmptySet
<1>4. Consistent(local, now) /\ IsFiniteSet(local.trav)
      /\ Consistent(relay, RelayNow) /\ IsFiniteSet(relay.trav)
  BY <1>1, <1>3 DEF Consistent
<1>5. RoundOK
  <2>1. cursor \in [createdAt : Nat, id : Nat] /\ cursor = NoCursor
    BY DEF Init, NoRound, NoCursor
  <2> QED
    BY <1>2, <2>1 DEF Init, NoRound, RoundOK, RoundInv
<1>6. /\ toLocal \subseteq Offer /\ toRelay \subseteq Offer
      /\ unpulled \subseteq Ref /\ unpushed \subseteq Ref
  BY DEF Init
<1>7. TypeOK /\ StoresInv /\ RoundInv
  BY <1>1, <1>2, <1>4, <1>5, <1>6, Parts
<1>8. PushInv /\ PushComplete /\ PullInv /\ PullComplete
  BY <1>1 DEF Init, NoRound, PushInv, PushComplete, PullInv, PullComplete
<1> QED
  BY <1>7, <1>8 DEF IInv

LEMMA IInvNext == IInv /\ [Next]_vars => IInv'
<1> SUFFICES ASSUME IInv, [Next]_vars PROVE IInv'
  OBVIOUS
<1> USE DEF IInv
<1>1. RoundOK'
  BY RoundNext
<1>2. /\ local' \in DB /\ Consistent(local', now') /\ IsFiniteSet(local'.trav)
      /\ relay' \in DB /\ Consistent(relay', RelayNow') /\ IsFiniteSet(relay'.trav)
      /\ toLocal' \subseteq Offer /\ toRelay' \subseteq Offer
  BY StoresNext
<1>3. now' \in RelayLag + 1 .. MaxTime /\ unpulled' \subseteq Ref /\ unpushed' \subseteq Ref
  BY ClockStep, MarksNext
<1>4. TypeOK' /\ StoresInv' /\ RoundInv'
  BY <1>1, <1>2, <1>3 DEF TypeOK, StoresInv, RoundOK
<1>5. PushInv' /\ PullInv'
  BY PushNext, PullNext
<1>6. PushComplete' /\ PullComplete'
  BY PushCompleteNext, PullCompleteNext
<1> QED
  BY <1>4, <1>5, <1>6

\* The inductive invariant holds in every state that a node, a relay and the
\* other users of their stores reach together.
THEOREM SyncInvariant == Spec => []IInv
<1>1. Init => IInv
  BY IInvInit
<1>2. IInv /\ [Next]_vars => IInv'
  BY IInvNext
<1> QED
  BY <1>1, <1>2, PTL DEF Spec

\* Stores, watermarks, filter, page tokens and the state of a round have their
\* types.
THEOREM TypeCorrect == Spec => []TypeOK
<1>1. IInv => TypeOK
  BY DEF IInv
<1> QED
  BY <1>1, SyncInvariant, PTL

\* pushSince passes no block of the node unseen: it was offered to the relay,
\* or it is marked as one that a limit, a failed transfer, a copy just pulled or
\* a slow Put made Push go past, whatever is put, boosted and evicted while Push
\* pages through the index and whatever the relay answers from round to round.
THEOREM PushPassesNothing == Spec => []PushComplete
<1>1. IInv => PushComplete
  BY DEF IInv
<1> QED
  BY <1>1, SyncInvariant, PTL

\* pullSince passes no block of the relay unseen: it was offered to the node, or
\* it is marked as one that the filter showed, whose request failed, or that
\* came into the index behind the place of Pull, whatever the hash values, the
\* delays of Put and the distance between the two clocks are.
THEOREM PullPassesNothing == Spec => []PullComplete
<1>1. IInv => PullComplete
  BY DEF IInv
<1> QED
  BY <1>1, SyncInvariant, PTL
=============================================================================
