----------------------------- MODULE RelaySync ------------------------------
(***************************************************************************)
(* One node synchronising with one relay: peerTracker.syncOne              *)
(* (cmd/snk/main.go) driving relay.Client.Pull and Push                    *)
(* (transport/relay/client.go) against the handlers of relay.Server, while *)
(* other users of both stores put, boost and evict.  Two watermarks,       *)
(* pullSince and pushSince, let a round skip what earlier rounds have      *)
(* handled; the question is what the node and the relay may never see of   *)
(* each other because of them.                                             *)
(***************************************************************************)
EXTENDS BlockTxn, Bloom

CONSTANTS
  Workloads,           \* of a behaviour: the ids that other users put into
                       \* each store, and whether the stores evict
  PowFloor,            \* -pow-floor of the node
  RelayFloor,          \* static powFloor of the relay
  Limits,              \* what the relay's pow-limit may answer: the median of
                       \* all its blocks, fewer of which are modelled, minus 1
  PageSize,            \* page of Push and of handleDelta
  RelayLag,            \* seconds by which the relay's clock is behind
  MaxPutDelay,         \* seconds between Put's clock reading and its commit
  MaxTime              \* bound on the clock

ASSUME SyncAssumption ==
  /\ Workloads \subseteq [local : SUBSET ID, relay : SUBSET ID, evict : BOOLEAN]
  /\ PowFloor \in Int /\ RelayFloor \in Int /\ Limits \subseteq Int
  /\ PageSize \in Nat \ {0}
  /\ RelayLag \in Nat /\ MaxPutDelay \in Nat /\ MaxTime \in Nat /\ RelayLag < MaxTime
  /\ Tag # {}

VARIABLES
  work,                  \* the workload
  now, local, relay,
  pullSince, pushSince,  \* the watermarks of this peer
  pc,
  since,                 \* the watermark copies read when the round began
  start,                 \* pullStart, later pushStart
  bloom,                 \* the filter that Pull has sent
  missing,               \* ids that Delta returned and Pull has not fetched
  pulled,                \* ids that Pull reported as stored
  limit,                 \* the relay's answer to Push
  cursor, page,          \* the place of handleDelta, later Push, in an index
  toLocal, toRelay,      \* history: what each store was offered, with its work
  unpulled,              \* history: copies in the relay that Pull went past
  unpushed               \* history: copies in the node that Push went past

round == <<pc, since, start, bloom, missing, pulled, limit, cursor, page>>
marks == <<pullSince, pushSince>>
vars == <<work, now, local, relay, marks, round, toLocal, toRelay, unpulled, unpushed>>

Offer == [id : ID, wf : WF]
RelayNow == now - RelayLag
NoLimit == 0 - 1

TypeOK ==
  /\ work \in Workloads
  /\ now \in RelayLag + 1 .. MaxTime
  /\ local \in DB /\ relay \in DB
  /\ pullSince \in 0..MaxTime /\ pushSince \in 0..MaxTime
  /\ pc \in {"idle", "bloom", "delta", "fetch", "limit", "list", "page"}
  /\ since \in [pull : Nat, push : Nat] /\ start \in Nat
  /\ bloom \subseteq UNION {Bits(i, w) : i \in ID, w \in WF}
  /\ missing \subseteq ID /\ pulled \subseteq ID /\ limit \in Limits \cup {NoLimit}
  /\ cursor \in [createdAt : Nat, id : Nat] /\ page \subseteq Ref
  /\ toLocal \subseteq Offer /\ toRelay \subseteq Offer
  /\ unpulled \subseteq Ref /\ unpushed \subseteq Ref

NoRound ==
  /\ pc = "idle" /\ since = [pull |-> 0, push |-> 0] /\ start = 0
  /\ bloom = {} /\ missing = {} /\ pulled = {} /\ limit = NoLimit
  /\ cursor = NoCursor /\ page = {}

Init ==
  /\ work \in Workloads
  /\ now = RelayLag + 1 /\ local = EmptyDB /\ relay = EmptyDB
  /\ pullSince = 0 /\ pushSince = 0
  /\ NoRound
  /\ toLocal = {} /\ toRelay = {} /\ unpulled = {} /\ unpushed = {}

MkRef(id, wf, at) == [id |-> id, createdAt |-> at, wf |-> wf,
                      tag |-> CHOOSE t \in Tag : TRUE]

\* Offered(S, o): some offer in S has the id of o and at least its work.
Offered(S, o) == \E p \in S : p.id = o.id /\ p.wf >= o.wf
-----------------------------------------------------------------------------
(* The two stores.                                                         *)

\* Put reads the clock, at the earliest in second s, and up to MaxPutDelay
\* seconds later its transaction writes the entry with that reading.
Stamps(clock, s) == {at \in 1..clock : s <= at /\ clock - at <= MaxPutDelay}

\* No Pull will list r: it is behind the watermark, or behind the place of the
\* delta request in progress and behind the next watermark.
PullPast(r) ==
  \/ r.createdAt < pullSince
  \/ /\ r.createdAt < start
     /\ pc = "fetch" \/ (pc = "delta" /\ ~KeyLess(cursor, r))

\* The same for Push and its place in the local index.
PushPast(r) ==
  \/ r.createdAt < pushSince
  \/ /\ r.createdAt < start
     /\ pc \in {"list", "page"}
     /\ ~((pc = "list" \/ cursor # NoCursor) /\ KeyLess(cursor, r))

\* A Put into the local store commits.
PutLocal(id, wf, at) ==
  /\ local' = PutTxn(local, MkRef(id, wf, at), now)
  /\ toLocal' = toLocal \cup {[id |-> id, wf |-> wf]}
  /\ unpushed' = {b \in local'.block :
                    b \in unpushed \/ (b \notin local.block /\ PushPast(b))}

\* A Put into the relay's store commits.
PutRelay(id, wf, at) ==
  /\ relay' = PutTxn(relay, MkRef(id, wf, at), RelayNow)
  /\ toRelay' = toRelay \cup {[id |-> id, wf |-> wf]}
  /\ unpulled' = {b \in relay'.block :
                    b \in unpulled \/ (b \notin relay.block /\ PullPast(b))}

\* Another user of the node stores a block.
LocalPut(id, wf) ==
  /\ \E at \in Stamps(now, 1) : PutLocal(id, wf, at)
  /\ UNCHANGED <<work, now, relay, marks, round, toRelay, unpulled>>

\* Another peer uploads a block: handlePut checks the static floor.
RelayPut(id, wf) ==
  /\ wf >= RelayFloor
  /\ \E at \in Stamps(RelayNow, 1) : PutRelay(id, wf, at)
  /\ UNCHANGED <<work, now, local, marks, round, toLocal, unpushed>>

Evict ==
  /\ work.evict
  /\ \/ /\ \E c \in local.block : local' = EvictTxn(local, c, now)
        /\ unpushed' = unpushed \cap local'.block
        /\ UNCHANGED <<relay, unpulled>>
     \/ /\ \E c \in relay.block : relay' = EvictTxn(relay, c, RelayNow)
        /\ unpulled' = unpulled \cap relay'.block
        /\ UNCHANGED <<local, unpushed>>
  /\ UNCHANGED <<work, now, marks, round, toLocal, toRelay>>

Tick ==
  /\ now < MaxTime
  /\ now' = now + 1
  /\ UNCHANGED <<work, local, relay, marks, round, toLocal, toRelay, unpulled, unpushed>>
-----------------------------------------------------------------------------
(* syncOne: Pull.                                                          *)

\* A round reads both watermarks and the clock.  What it is going to list has
\* not been gone past.
SyncOne ==
  /\ pc = "idle"
  /\ since' = [pull |-> pullSince, push |-> pushSince]
  /\ start' = now
  /\ pc' = "bloom"
  /\ unpulled' = {b \in unpulled : b.createdAt < pullSince}
  /\ unpushed' = {b \in unpushed : b.createdAt < pushSince}
  /\ UNCHANGED <<bloom, missing, pulled, limit, cursor, page>>
  /\ UNCHANGED <<work, now, local, relay, marks, toLocal, toRelay>>

MaxOf(a, b) == IF a > b THEN a ELSE b

\* Pull builds the filter of the whole local index.
BuildBloom ==
  /\ pc = "bloom"
  /\ bloom' = BloomOf(local.trav)
  /\ pc' = "delta"
  /\ UNCHANGED <<since, start, missing, pulled, limit, cursor, page>>
  /\ UNCHANGED <<work, now, local, relay, marks, toLocal, toRelay, unpulled, unpushed>>

\* handleDelta lists the next page of what the relay holds since the watermark
\* and collects what the filter does not show.  The filter may show a block
\* that the node was never offered: other blocks have set its three bits, or
\* its work is beyond the last level.
Delta ==
  /\ pc = "delta"
  /\ LET refs == Page(relay, cursor, PageSize, MaxOf(PowFloor, RelayFloor), since.pull)
         last == NextCursor(refs, PageSize) = NoCursor
     IN  /\ missing' = missing
              \cup {e.id : e \in {f \in refs : ~BloomHas(bloom, f.id, f.wf)}}
         /\ cursor' = NextCursor(refs, PageSize)
         /\ pc' = IF last THEN "fetch" ELSE "delta"
         /\ bloom' = IF last THEN {} ELSE bloom
         /\ unpulled' = unpulled \cup
              {f \in refs : Probe(f.id, f.wf) \subseteq bloom /\ ~Offered(toLocal, f)}
  /\ UNCHANGED <<since, start, pulled, limit, page>>
  /\ UNCHANGED <<work, now, local, relay, marks, toLocal, toRelay, unpushed>>

\* One missing block is fetched and put into the local store.  Pull reports it
\* as stored also when Put refuses it without an error.
Fetch(id) ==
  /\ pc = "fetch" /\ id \in missing
  /\ \E b \in relay.block, at \in Stamps(now, start) :
       b.id = id /\ PutLocal(id, b.wf, at)
  /\ missing' = missing \ {id}
  /\ pulled' = pulled \cup {id}
  /\ UNCHANGED <<pc, since, start, bloom, limit, cursor, page>>
  /\ UNCHANGED <<work, now, relay, marks, toRelay, unpulled>>

\* The relay no longer has the block, or the request for it fails: Pull goes
\* on without it.
FetchFails(id) ==
  /\ pc = "fetch" /\ id \in missing
  /\ unpulled' = unpulled \cup
       {b \in relay.block : b.id = id /\ ~Offered(toLocal, b)}
  /\ missing' = missing \ {id}
  /\ UNCHANGED <<pc, since, start, bloom, pulled, limit, cursor, page>>
  /\ UNCHANGED <<work, now, local, relay, marks, toLocal, toRelay, unpushed>>

\* Mutant: the watermark is the end of the pull.
PullDoneAtEnd ==
  /\ pc = "fetch" /\ missing = {}
  /\ pullSince' = now
  /\ start' = now
  /\ pc' = "limit"
  /\ UNCHANGED <<since, bloom, missing, pulled, limit, cursor, page>>
  /\ UNCHANGED <<work, now, local, relay, pushSince, toLocal, toRelay, unpulled, unpushed>>

\* Mutant: the watermark is the second after the start of the pull.
PullDonePastStart ==
  /\ pc = "fetch" /\ missing = {}
  /\ pullSince' = start + 1
  /\ start' = now
  /\ pc' = "limit"
  /\ UNCHANGED <<since, bloom, missing, pulled, limit, cursor, page>>
  /\ UNCHANGED <<work, now, local, relay, pushSince, toLocal, toRelay, unpulled, unpushed>>

\* Pull returns without an error: pullSince becomes pullStart.  After the
\* gossip exchange pushStart is read.
PullDone ==
  /\ pc = "fetch" /\ missing = {}
  /\ pullSince' = start
  /\ start' = now
  /\ pc' = "limit"
  /\ UNCHANGED <<since, bloom, missing, pulled, limit, cursor, page>>
  /\ UNCHANGED <<work, now, local, relay, pushSince, toLocal, toRelay, unpulled, unpushed>>

\* A request of the round fails as a whole, a Put of Pull fails, or the context
\* ends: syncOne returns, and the watermark of the interrupted half stays.
Abandon ==
  /\ pc # "idle"
  /\ pc' = "idle" /\ since' = [pull |-> 0, push |-> 0] /\ start' = 0
  /\ bloom' = {} /\ missing' = {} /\ pulled' = {} /\ limit' = NoLimit
  /\ cursor' = NoCursor /\ page' = {}
  /\ UNCHANGED <<work, now, local, relay, marks, toLocal, toRelay, unpulled, unpushed>>
-----------------------------------------------------------------------------
(* syncOne: Push.                                                          *)

PushFloor == MaxOf(PowFloor, limit)

\* GetPowLimit: handlePowLimit computes its answer from the store as it is now.
PowLimit ==
  /\ pc = "limit"
  /\ limit' \in Limits
  /\ pc' = "list"
  /\ UNCHANGED <<since, start, bloom, missing, pulled, cursor, page>>
  /\ UNCHANGED <<work, now, local, relay, marks, toLocal, toRelay, unpulled, unpushed>>

\* The next page of the local index.
ListPage ==
  /\ pc = "list"
  /\ LET refs == Page(local, cursor, PageSize, PushFloor, since.push)
     IN  page' = refs /\ cursor' = NextCursor(refs, PageSize)
  /\ pc' = "page"
  /\ UNCHANGED <<since, start, bloom, missing, pulled, limit>>
  /\ UNCHANGED <<work, now, local, relay, marks, toLocal, toRelay, unpulled, unpushed>>

\* The reference of the page that Push looks at next.
Head(e) == pc = "page" /\ e \in page /\ \A f \in page : ~KeyLess(f, e)

\* The stored block behind the reference is uploaded and handlePut takes it.
Upload ==
  /\ \E e \in page :
       /\ Head(e) /\ e.id \notin pulled
       /\ page' = page \ {e}
       /\ \E b \in local.block, at \in Stamps(RelayNow, start - RelayLag) :
            b.id = e.id /\ b.wf >= RelayFloor /\ PutRelay(b.id, b.wf, at)
  /\ UNCHANGED <<pc, since, start, bloom, missing, pulled, limit, cursor>>
  /\ UNCHANGED <<work, now, local, marks, toLocal, unpushed>>

\* The reference was just pulled, its block is gone, the relay rejects it, or
\* reading or sending it fails: Push goes on without it.
UploadSkipped ==
  /\ \E e \in page :
       /\ Head(e)
       /\ page' = page \ {e}
       /\ unpushed' = unpushed \cup
            {b \in local.block : b.id = e.id /\ ~Offered(toRelay, b)}
  /\ UNCHANGED <<pc, since, start, bloom, missing, pulled, limit, cursor>>
  /\ UNCHANGED <<work, now, local, relay, marks, toLocal, toRelay, unpulled>>

NextPage ==
  /\ pc = "page" /\ page = {} /\ cursor # NoCursor
  /\ pc' = "list"
  /\ UNCHANGED <<since, start, bloom, missing, pulled, limit, cursor, page>>
  /\ UNCHANGED <<work, now, local, relay, marks, toLocal, toRelay, unpulled, unpushed>>

\* What the floor in force has kept out of the listing of Push that ends.
Barred == {b \in local.block : b.wf < PushFloor /\ ~Offered(toRelay, b)}

\* Mutant: the watermark is the end of the push.
PushDoneAtEnd ==
  /\ pc = "page" /\ page = {} /\ cursor = NoCursor
  /\ pushSince' = now
  /\ pc' = "idle" /\ since' = [pull |-> 0, push |-> 0] /\ start' = 0
  /\ pulled' = {} /\ limit' = NoLimit
  /\ unpushed' = unpushed \cup Barred
  /\ UNCHANGED <<bloom, missing, cursor, page>>
  /\ UNCHANGED <<work, now, local, relay, pullSince, toLocal, toRelay, unpulled>>

\* Push returns without an error: pushSince becomes pushStart.
PushDone ==
  /\ pc = "page" /\ page = {} /\ cursor = NoCursor
  /\ pushSince' = start
  /\ pc' = "idle" /\ since' = [pull |-> 0, push |-> 0] /\ start' = 0
  /\ pulled' = {} /\ limit' = NoLimit
  /\ unpushed' = unpushed \cup Barred
  /\ UNCHANGED <<bloom, missing, cursor, page>>
  /\ UNCHANGED <<work, now, local, relay, pullSince, toLocal, toRelay, unpulled>>

\* The steps of the round that make progress.
Progress ==
  \/ SyncOne \/ BuildBloom \/ Delta \/ PullDone
  \/ \E id \in ID : Fetch(id) \/ FetchFails(id)
  \/ PowLimit \/ ListPage \/ Upload \/ UploadSkipped \/ NextPage \/ PushDone

Next ==
  \/ \E id \in work.local, wf \in WF : LocalPut(id, wf)
  \/ \E id \in work.relay, wf \in WF : RelayPut(id, wf)
  \/ Evict \/ Tick \/ Progress \/ Abandon

Spec == Init /\ [][Next]_vars

\* The sync loop keeps starting rounds and a started round runs on; the
\* environment only promises that the relay is reachable in the end: no round is
\* abandoned before it is done.
FairSpec == Spec /\ WF_vars(Progress) /\ <>[][Abandon => PushDone]_vars
-----------------------------------------------------------------------------
\* "Pull fetches all blocks from the relay that are not in localStore": what
\* the relay holds from before pullSince, with enough work, has been offered to
\* the local store with at least that work.  Every exception is known: the
\* filter showed that copy, its own request failed, or it entered the relay's
\* index, slowly or by a clock that is behind, where no Pull looks any more.
PullComplete ==
  \A b \in relay.block :
    b.createdAt < pullSince /\ b.wf >= MaxOf(PowFloor, RelayFloor)
      => Offered(toLocal, b) \/ b \in unpulled

\* "Push uploads all local blocks meeting powFloor to the relay": what the node
\* holds from before pushSince, with the work both sides ask for, has been
\* offered to the relay with at least that work.  The exceptions: the limit the
\* relay answered to the Push that went past that copy was higher, its own
\* transfer failed, Push took it for the copy it had just pulled although the
\* node held more, or a slow Put brought it in where no Push looks any more.
PushComplete ==
  \A b \in local.block :
    b.createdAt < pushSince /\ b.wf >= MaxOf(PowFloor, RelayFloor)
      => Offered(toRelay, b) \/ b \in unpushed

\* Some copy with id i and work w is in S.
Copy(S, i, w) == \E b \in S : b.id = i /\ b.wf = w

\* Work travels: once rounds stop failing as a whole, a block that one store
\* keeps with some work, and that the static floors admit, is in the end held
\* by the other side with at least that work, although each round only looks
\* behind its watermark; or rounds go past it again and again for one of the
\* reasons above.  A store that evicts may refuse the block for good.
Delivered ==
  ~work.evict =>
    \A i \in ID, w \in WF : w >= MaxOf(PowFloor, RelayFloor) =>
      /\ <>[]Copy(local.block, i, w) =>
           []<>(Offered(relay.block, [id |-> i, wf |-> w]) \/ Copy(unpushed, i, w))
      /\ <>[]Copy(relay.block, i, w) =>
           []<>(Offered(local.block, [id |-> i, wf |-> w]) \/ Copy(unpulled, i, w))
=============================================================================
