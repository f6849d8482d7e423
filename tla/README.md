# Sneakernet: a TLA+ model of the block store, its synchronisation and the local API

Sneakernet carries encrypted blocks between machines that meet only now and then: over HTTP relays,
Bluetooth, LAN and USB volumes. A block has an id (a hash of its content) and a proof of work; more work
means a longer life in a bounded store, and anyone may *boost* a block by mining it further. Every node
keeps a store, exchanges what the other side lacks, and tries its keys on what arrives.

The specifications are translated from the Go source. `PROJECT.json` has, for each definition, the lines it
stands for, and for each run its properties, with a mutation of the code that breaks each of them.

## 1. Inventory

| Component | Source | State | Operations | Talks to |
|---|---|---|---|---|
| BadgerStore | `blockstore/badger.go`, `blockstore.go` | block values, traversal index `createdAt/id`, tombstones, cached median | Put, Get, Has, ListIDs, ListBlocks, Evict, median updater | every other component calls it from goroutines of its own |
| Proof of work, TTL | `blockstore/pow.go` | none | validate, work factor, TTL | store, mining |
| FlatFile store, index | `blockstore/flatfile.go`, `index.go` | one file per block, temporary files, `index.bin` or shards | Put, Get, Has, ListBlocks, Evict, BuildIndex, index lookups | USB loop and `snk mass-storage`, which may run at once |
| USB sync, mass storage | `cmd/snk/main.go` (`usbSyncLoop`, `syncStores`, `cmdMassStorage`) | place in the source listing | a round of pull and push per tick, copy and reindex | Badger store, flat files of a volume |
| Scraper | `client/client.go`, `client/store.go`, scrape handler | checkpoint, message database | Scrape, checkpoint read and write | block store, API session |
| Relay protocol | `transport/relay/{client,server,bloom}.go` | two watermarks per peer, the filter in flight | Pull, Push, delta, get, put, pow-limit, hello | two block stores over HTTP |
| Desktop peer tracker | `cmd/snk/main.go` | known peers, penalties, failures, `peers.json` | addPeer, syncOne, doSync, SyncNow, savePeers | relay client and server, LAN scan |
| Mobile engine | `mobile/engine.go`, `mobile/peertracker.go` | tracked and blocked peers, one `LastSync` each, its JSON file | add, remove, block, pick, doSyncRound, save | relay client, Bluetooth |
| Bluetooth session | `transport/bluetooth/session.go` | link, peer filter channel, four goroutines | bloom, block, done and peers frames | two block stores |
| Message API | `client/api/handlers.go` (send, send-channel, boost) | none of its own | mine, Put, save the message, reply | block store, message database |
| Local API session | `client/api/{server,handlers}.go`, `client/keystore.go` | keystore file, unlocked keystore, scraper, tokens | create, unlock, lock, and the handlers behind auth | keystore file, scraper |
| LAN discovery, GeoIP, relay web app, cryptography, Android and browser user interfaces, simulation | rest of the tree | — | — | see section 8 |

What is hard in this code:

* **Concurrency.** Badger transactions are optimistic and short. `Put` reads the clock before its
  transaction, `Evict` scans in one and deletes in others, so what it acts on is stale. Peer lists are guarded
  by a mutex, their files are not. The API reads its keystore file without the lock, and mines for seconds
  between what it reads and what it writes. Flat files are shared by programs that know nothing of each other.
* **Order.** The checkpoint of the scraper and the watermarks of a sync round are times; they are right only
  if nothing enters an index behind them.
* **Failure.** Single transfers fail inside rounds that succeed. Rounds, scrapes and processes stop at any
  point. A Bluetooth link breaks, a save fails after the change is made in memory, a volume is
  pulled out before its cache is written back.
* **Starvation.** The peer to sync is the one synced least recently, and a dead peer always is; the desktop's backoff
  overflows.

What makes each component correct:

* store: blocks and index agree, an evicted block stays out while its tombstone lives, work is never lost,
  reservations of tags hold, every Put returns;
* flat files: a block's file is whole, its work is not lost, the index says what the files say;
* USB sync: a round copies everything, and in the end every block is on the volume and in the store;
* scraper and message API: no readable message falls behind the checkpoint unseen, what was sent stays marked
  so, and a boost reports work that is there;
* relay protocol: no block falls behind a watermark untransferred, and work reaches the other side;
* peer trackers: capped lists, usable files, every peer has its turn;
* Bluetooth: DONE means everything was sent, nothing needless is sent, and the session ends;
* API session: what was confirmed survives, tokens imply an unlocked keystore, the scraper has its keys, and
  an identity's stamp gets no worse.

## 2. Modules

    Specifications                                             Proofs
    BlockTxn  <-- BadgerStore --refines--> BlockStore          BlockTxnProofs, BadgerStoreProofs
       ^
       |----- Scraper <-- MessageApi                           MessageApiProofs
       |----- FlatFile <-- UsbSync                             UsbSyncProofs
       |----- RelaySync --\                                    RelaySyncProofs
       |----- Bluetooth ---+--> Bloom                          BluetoothProofs; the filter in BlockTxnProofs
    PeerTracker      MobileEngine                              PeerTrackerProofs has both trackers
    ApiSession                                                 ApiSessionProofs

**BlockTxn** holds the transactions on one Badger database as operators. A database is a record of the block
values, the index entries and, for each id, the end of its tombstone. `PutTxn` (refuse for a live tombstone
or for no more work, delete the old index entry, write), `EvictTxn` and `Page`/`NextCursor` (ListBlocks with
its cursor, work floor and since) are shared by all modules that use a store.

**BadgerStore** composes them per goroutine: `PutCall` reads the clock, `PutCommit` and `PutConflict` end the
transaction, `SizeCheck` compares the reported size with the limit, `EvictScan`, `EvictOne`, `EvictDone` and
`EvictFail` are Evict, `RefreshMedian` the median updater. A transaction begins somewhere between
`PutCall` and its commit: either late enough to see everything committed so far (`PutCommit`), or, once another
goroutine has written its keys (`touched`), too early, and then Badger rejects it (`PutConflict`). Badger's
`db.Size()` is refreshed in the background, so `ReportSize` may report any of `SizeReports` at any time
(Badger itself is external code). **BlockStore** is what the interface promises: a set of held (id, work)
pairs, in which a held id only gains work, and a set of refused ids, which are not accepted.

**Scraper** is POST `/api/scrape` with `Client.Scrape`: each page listed and each block read is a step, and
the store changes in between. Whether a key opens a block is membership in `Mine`. The message table is a set
of rows with unique block ids (`SaveMessage` is INSERT OR IGNORE). A `Get` may fail for any block (`ReadBlock`), and
a Put may commit up to `MaxPutDelay` seconds after it read the clock; `missed` is the history of the copies that
this lets a scrape go past. **MessageApi** composes it with the handlers
that write blocks: `Send` and `SendChannel` encrypt a new block and call Put, `SendReply` saves the
plaintext; `BoostGet`, `BoostTarget`, `BoostPut` and `BoostReply` are the reads and the write of a boost, with
mining between them. `OtherPut` and `OtherEvict` are the rest of the node.

**FlatFile** is a directory of block files under several programs. A file is its header fields and how much of
it can be read (`all`, only the `header`, `none`). `Put` is `PutCall` (the comparison with the file that is there),
`CheckUsage`, `EvictScan`, `EvictOne`, `EvictDone`, then `OpenTmp`, `Fill` and `Rename`: one step for each system
call that another program can get in front of. Counting the files, scanning them and removing one may each fail,
and Put goes on, as in the code. All writers of a block share one
temporary name, so a call remembers where the inode it opened has gone (`fd`). `Abort` is a program that
dies or cannot write. Nothing is fsynced: `Unplug` leaves, for each file not yet written back (`Flush`), the old
version, the new one, or a part. `BuildIndex` walks the ids in order (`WalkFile`), chooses one file or shards
(`WalkDone`) and writes them one by one; `Search` is its readers' binary search, a recursive function of its bounds. `risked`, `seen` and `still`
are history for the properties.

**UsbSync** puts a node beside it: `usbSyncLoop` pulls (`ListVolume`, `PullRef`, `EndPull`) and pushes (`ListStore`,
`PushRef`, `PushSkip`, `EndPush`) page by page, while other users of the node's store put, boost and evict, and
the volume is pulled out, visits another node (`Visit`) and comes back. Reading, asking or storing may fail for each
block (`RefFails`, `WriteFails`: a Badger conflict in the pull included), and so may a listing, which ends its half of
the round (`ListFails`). The other programs are `snk mass-storage` (`ToolStep`): each has a `job`, the blocks of its own
store that it still has to look at, asks the volume (`ToolRef`), puts (`ToolPut`), and builds the index when all are
done (`ToolIndex`); `-reindex` is a job without blocks. `Indexers` bounds which of them get that far.

**Bloom** is the filter of the relay and Bluetooth protocols: `Bits(id, wf)` are the bits that `Add` sets, for
every level of work up to the block's own, and `BloomHas` looks at one level. Both hold for any hash function `Slot`;
the runs use one with collisions.

**RelaySync** is one node and one relay: `syncOne` with `Pull` (`BuildBloom`, `Delta`, `Fetch`, `PullDone`) and
`Push` (`PowLimit`, `ListPage`, `Upload`, `UploadSkipped`, `PushDone`), where `Fetch` and `Upload` include
what `handleGet` and `handlePut` do, while other users change both stores. An entry carries the clock reading of its
Put, up to `MaxPutDelay` seconds before its commit (`Stamps`), by a clock that at the relay is `RelayLag` seconds behind.
`PowLimit` answers anything in `Limits`: the relay computes the median of all its blocks, of which a model has few.
`unpulled` and `unpushed` are the histories of the copies that a round has gone past, each recorded where the code does
it: in `Delta` (the filter shows it), `FetchFails`, `UploadSkipped`, `PushDone` (`Barred` by the limit of that round), or
in a Put that commits behind the watermark or behind the place of the listing in progress (`PullPast`, `PushPast`).

**PeerTracker** is the tracker of `cmd/snk`: the sync loop, `syncOne` calls as a set of tasks, the gossip
they bring, and the three steps of `savePeers` (snapshot, write, rename) over one temporary file name.
Times are ranks: after each step the times in use are renumbered in their order.

**MobileEngine** is the peer list of the mobile engine with all its edits and saves, and `doSyncRound`.
A block is reduced to the second in which its holder stored it: module RelaySync covers what Pull and Push
do with it, and may leave any block it has listed behind without an error (`Transferred`). A block's stamp may
be up to `MaxLag` seconds old when it appears.

**Bluetooth** has both ends of a session, each with sender, receiver and main goroutine. The link holds `Cap`
frames in each direction. Failures are those of the code's error paths (`Trouble`): a broken link, a store that cannot
build the filter, list a page, read a block or store one, and a closed engine. A store may have tombstones when the
session begins, and evicts (`Evict`), as Put does at its limit. `gone` and `lost` are the history of the ids that an end
has evicted, and of those that did not reach it.

**ApiSession** has one goroutine per request. A critical section of `s.mu` is a step; reading the keystore
file in create and unlock is a step of its own, as in the code. A keystore is the set of its records with its
password and the work of the identities' stamps. An identity is a key, and `NameOf` its name: mining goes by
name, and a name can get a new key while it runs. The variables `told`, `raced` and `unsaved` are history variables for the properties.

The `MC*` modules hold the constant functions (TTL, hash slots, reservations), initial holdings and symmetry
that a `.cfg` cannot express.

## 3. Runs

| Run | Checks | What it shows |
|---|---|---|
| `store` | TypeOK, BlockIndexed, TombExcludesBlock, OrphanOnlyByEviction, WorkNeverLost, ImplementsBlockStore, PutReturns | two goroutines put, boost and evict one block id with conflicts, stale sizes and crashes |
| `store_sequential` | NoOrphan, ReservationRespected, TombOutlivesBlock | three ids, two tags, one caller: what the code comments promise and only a single caller gets |
| `messages` | TypeOK, NothingBehindCheckpoint, SentKept, BoostKept | pages, boosts, evictions, failing reads, slow puts, cancelled and repeated scrapes; send and boost handlers next to them |
| `sync` | TypeOK, PullComplete, PushComplete, Delivered | watermarks pass only the copies that the properties name, with slow puts, a slow clock, a changing limit and collisions; work reaches the other store once rounds stop failing |
| `peers` | TypeOK, FileKnown, RoundRobin | cap and self-exclusion, the cache file under interleaved saves and restarts, rotation past the overflow of the backoff |
| `peers_starve` | DeadPeersYield (violated) | see section 6 |
| `bluetooth` | TypeOK, DoneMeansAll, OnlyMissingSent, SessionEnds | all interleavings of the goroutines of both ends and all failures |
| `mobile` | EngineTypeOK, OnlyLateLost | concurrent rounds, edits, saves and restarts |
| `mobile_starve` | EveryPeerServed (violated) | see section 6 |
| `volume` | TypeOK, AtomicReplace, IndexComplete, LookupsAgree, WorkKeptAlone, RoundComplete, Carried | flat files under a node with a volume, under two `snk mass-storage` that evict, and under one that builds the index beside another |
| `api` | TypeOK, ConfirmedKept, ScraperFollows, StampKept | two concurrent requests over all keystore handlers |
| `api_migrate` | ConfirmedKept (violated) | see section 6 |

## 4. Bounds

* `store`: every race of the store is between two calls on one id; blocks of different ids share only the
  size, which is reported freely. Three seconds let a tombstone (2 * TTL, TTL 1 or 2) be set, hold and expire.
  `store_sequential` has three ids of two tags, so that one tag is above its reservation while the other is not.
* `messages`: two behaviours, chosen at the start: scrapes and other users for three seconds, or handlers too for
  two, in which a block is sent, boosted, evicted and rescanned. Two ids and pages of one entry give page boundaries
  before, between and after moved entries; three seconds hold two complete scrapes with a boost between, and a Put
  that commits a second late (`MaxPutDelay = 1`) behind either.
* `sync`: three behaviours (`Workloads`): the same block on both sides, with and without eviction, or a block on each
  side; two work factors, so there is something to boost. Two seconds, a relay that is a
  second behind (`RelayLag = 1`) and puts that take up to a second (`MaxPutDelay = 1`) let an entry appear behind
  every place a round can be in. The relay answers with no limit or one that bars work 0 (`Limits`), in each round anew. In the filter the two
  blocks share their bits of level 1. `Delivered` leaves out the behaviours with eviction: a tombstone refuses for good.
* `peers`: two static or discovered and two gossiped URLs, one of them the process itself, with room for two,
  so the cap binds. `IntBits = 4` scales the shift, so a peer that keeps failing comes past the overflow; failures
  are not bounded. `peers_starve` has two static peers.
* `bluetooth`: pages of one block and a link of one frame make every write and read a point of waiting;
  two ids with two work factors give missing, weaker, equal, stronger and tombstoned copies at both ends. Failures meet
  in three combinations (`Workloads`): link and filter; listing and closing; reading, storing and evicting. In the
  filter a block hides another one.
* `mobile`: one peer, two rounds with it at once, two saves in flight in either order, one block on its way, stamps up to a
  second old (`MaxLag`). Peers share only whose turn it is and the cap: `mobile_starve` has two, and the theorems any number.
* `volume`: three behaviours, chosen at the start, since only programs that touch the same files race: a node
  with its volume; two `snk mass-storage` under a limit of two files (`FileSize` 2, limit 4), which race on block 1 and
  evict each other's; two more of which both come to the index (`Indexers`), with enough records for shards
  (`ShardThreshold` 2). An
  expired file is there from before (`OldFiles`), two work factors give boosts, pages of one entry give every
  page boundary, and two seconds let a stored record expire. `EvictSlack` is 0 in place of 10, or every
  eviction would empty the store. The limit is there for the eviction code: see section 7.
* `api`: two requests and one of three workloads, chosen at the start: records of all kinds; records and two
  passwords; two keys of one name with stamps of two levels of work and both sizes. A record is told apart
  only by its kind and presence. `MaxTokens = 1` still has two requests behind one token.

No state constraint is used: all bounds are guards. Deadlock is checked except in `bluetooth`, whose sessions
end.

## 5. Fairness

* BadgerStore: a goroutine that has called Put keeps running. Callers, clock and crashes need not act.
* RelaySync: the ticker starts rounds and a round goes on, for each request has a timeout of 30 s. *Eventually
  the relay is reachable* (no more `Abandon`): the store and forward design promises nothing otherwise.
* UsbSync: the ticker starts rounds and a round goes on (weak fairness of `LoopStep`). In the end the volume stays
  plugged in, reads, writes, listings and transactions succeed (no `Trouble`), and the daemon is not restarted: without
  that nothing is carried.
* PeerTracker: the ticker and the loop's own syncOne go on. Strong fairness of picking each peer is Go's
  randomised map order among ties. Eventually the process is no longer restarted. That peers answer is no fairness
  assumption: RoundRobin has it as its hypothesis (`AllRecover`).
* MobileEngine: the same, and eventually the list is left alone.
* Bluetooth: every goroutine that can go on does. Neither users nor failures are assumed.

## 6. Findings

Three runs show that the code does something else than it says. Each is expected to be violated.

* `mobile_starve`. `pickPeer` takes the oldest `LastSync`, which only success moves. A peer that never answers is
  picked in every round; `failures` is counted and nothing reads it. The desktop tracker backs off instead.
* `peers_starve`. That backoff ends: `1 << failures` (`main.go:627`) is negative after 63 failures and 0 from then on,
  and it is capped from above only. A peer that never answered has a zero `pullSince`, so from then on every tick picks
  it, although "Failing peers are already excluded via skipRounds" (`main.go:720`) and "each tick syncs one peer in
  round-robin order" (`main.go:686`). The model has a shift of 4 bits in place of 64. RoundRobin holds while every
  peer answers now and then. Even without the overflow more dead peers than `maxBackoffRounds` (64; the list may
  have 200) leave one of them ready in every tick.
* `api_migrate`. `LoadKeystore` saves a version 1 keystore after its identities are read and before its channels
  and contacts are. They stay in memory, and are gone after a restart unless another change was saved.

## 7. What the properties leave open

Weaknesses met while modelling, which the properties state exactly rather than hide:

* An eviction that deletes by a stale scan (`badger.go:580`) leaves the index entry of a block boosted in
  between. OrphanOnlyByEviction says that this is the only source of orphans; NoOrphan holds for one caller only.
  In the same race the tombstone is computed from the weaker copy (`badger.go:574`), so TombOutlivesBlock is
  sequential too.
* `Put` reads the clock before its transaction (`badger.go:198`). A copy that is committed behind a scrape, or behind a
  watermark, is not looked at again. NothingBehindCheckpoint, PullComplete and PushComplete except exactly these copies.
* A `Get` that fails in a scrape, for whatever reason, is skipped, and the checkpoint still advances
  (`client/client.go:56-58`, `91`): that copy is read by a full scrape only. NothingBehindCheckpoint excepts it.
* A transfer that fails inside a successful Pull or Push is not retried once the watermark has passed
  (`relay/client.go:285`, `332`). PullComplete and PushComplete except exactly these copies.
* `Pull` lists an id among the "newly stored blocks" (`relay/client.go:266`) also when the local `Put` refused it
  because the node's copy has more work by then (`relay/client.go:291`). `syncOne` has `Push` skip the id and then
  moves `pushSince` past it: that boost is not uploaded. PushComplete and Delivered except exactly these.
* The limit that a relay answers is that of its store at the moment (`server.go:229-243`). What it bars from one Push is
  behind `pushSince` when the limit falls, and is not uploaded. PushComplete and Delivered except it (`Barred`).
* `pullSince` is the node's clock, compared with the relay's stamps (`main.go:618`): with the relay's clock behind, new
  entries appear behind the watermark. PullComplete and Delivered except exactly these.
* A block that the filter shows by a collision, or with more work than its 16 levels, is not asked for
  (`bloom.go:51`). PullComplete, Delivered and DoneMeansAll except exactly these.
* Concurrent `savePeers` share a temporary file and may rename an older snapshot last (`main.go:549-556`).
  FileKnown holds all the same; that the newest list wins does not. Cached peers are loaded before the static
  ones and can fill the list.
* The mobile `LastSync` is read at the end of a round, and a round counts as a success also when its push fails. OnlyLateLost
  says which blocks this passes: those that appear behind what a round has looked at, and those left behind.
* A Bluetooth receiver drops the error of every `Put` (`session.go:188`), and a sender that of every `Get`
  (`session.go:139-141`), so a DONE does not vouch for these blocks, nor for refused or evicted ones. DoneMeansAll names them.
* A Bluetooth sender that cannot build its filter returns and tells nobody (`session.go:107`): both receivers
  wait, and `Engine.Close` does not end the session. SessionEnds excepts this case (`Starved`).
* A lock between auth and handler makes a reading handler panic with the read lock held (`handlers.go:102`);
  `net/http` recovers, the lock stays (`leaked`), and writers wait until a restart.
* Create and unlock act on a file they read before (`handlers.go:34`, `handlers.go:62`): what is confirmed in between can be
  overwritten. ConfirmedKept excepts exactly this (`raced`).
* A changed password stays in force when its save fails.
* A mined stamp is stored without comparing (`handlers.go:154`): it replaces a better one that a gift brought
  meanwhile, and it goes to whichever key has the name by then. A gift of another size than 16 bytes is
  accepted (`server.go:211`) but is no seed for mining (`idpow.go:94`), which then replaces it by a worse one.
  StampKept names these three cases and the unlock of an older keystore.
* A boost whose block is evicted while it mines replies with the mined work, although the comment says "Always
  return the live value" (`handlers.go:1101-1107`). BoostKept excepts exactly this (`lost`).
* A scrape between the Put and the SaveMessage of a send keeps its own row, so the message never shows as sent,
  and a failed SaveMessage is ignored (`handlers.go:585`). SentKept is about the rows that send did write.
* Which element the median is depends on whom one asks. `computeMedianWorkFactor` returns `wfs[len - half]`
  (`badger.go:79`), from a comment on the zero-padded array (`badger.go:76-78`) that holds for an even capacity.
  `blockstore/design.md:185` says `wfs[halfCapacity]`, and so do `badger_test.go:65` and `relay_test.go:91`, with
  8 blocks in a capacity of 10: there the code returns `wfs[3]` and the tests expect `wfs[5]`. The two agree when the
  store is full. BadgerStore models the code (`IsMedian`), no property is about its value, and RelaySync lets the
  limit be any. With a capacity below two blocks the code reads past the array.
* Two programs that put the same block share the temporary file (`flatfile.go:120`): one may rename what the
  other has only begun to write, so a short file can appear at the block's path, and the weaker copy can
  win. AtomicReplace and WorkKeptAlone say that nothing else, except a medium that loses data, does this. An
  eviction by a stale scan removes a copy boosted meanwhile.
* `blockstore/design.md:173` says of the flat-file store that "`Evict` is a no-op that returns `(0, nil)`" and that "Storage limit
  enforcement is not supported on these backends". The code has both (`flatfile.go:100-106`, `295-336`), and tests of them;
  no program sets a limit. The model follows the code. Nothing is claimed of the limit: a count, a scan or a removal
  that fails is ignored, files with unreadable headers are never evicted, and programs count at the same time.
  `Evict` writes no tombstone, although `blockstore.go:64-71` asks for one.
* `syncStores` counts a block whose `Get`, `Has` or `Put` fails and goes on (`main.go:319-348`): a conflict with a boost in the
  node's store loses that block for the round. RoundComplete leaves such blocks out; Carried says that later rounds
  make up for them.
* `syncStores` skips a block whose file has an unreadable header, because `Has` fails (`main.go:327`); `Put` would
  have replaced the file. RoundComplete and Carried leave damaged files out.
* The mobile quota file is never made: `os.Truncate` fails when there is no file, although the comment says
  "Truncate creates the file if it doesn't exist" (`engine.go:125`), and the error is dropped. Not modelled.
* After a switch from `index.bin` to shards, or back, the files of the other kind stay. In the second in which a
  record expires `Has` says yes and `Records` leaves it out (`index.go:34`, `index.go:92`). The USB loop never
  rebuilds the index.

## 8. Abstractions, and what is not modelled

* Data: ids are numbers (their order matters in the index), payloads, keys and ciphertexts are left out, time is
  whole seconds as in `createdAt`, frames and requests are records.
* Atomicity: a Badger transaction, a critical section of a mutex, and (in MobileEngine and ApiSession) writing a
  temporary file with its rename are single steps; PeerTracker has them apart. The snapshot of a mobile save is
  taken with the change it follows, and saves finish in any order. Torn files are modelled for block files only.
  In FlatFile a directory walk of Put, Evict or ListBlocks is one step, that of BuildIndex one per file; two index
  builds at once, torn index files and the narrowing of work and expiry to `uint8` and `uint32` are left out.
  What a push writes after the volume is gone lands below the mount point and is left out.
* RelaySync runs one round at a time with its peer. PeerTracker has concurrent rounds, without blocks.
* A filter is a set of bits under some hash function. NeverFalseNegative and BoostKeepsBits hold for every one, and the
  properties except what a filter shows wrongly; how likely that is, neither tool can express.
* The frames of a Bluetooth session are well formed: the parse errors of `session.go:173-192` are left out.
* ApiSession allows reads while the read lock is leaked, as Go's RWMutex does until a writer waits.
* Not modelled: Argon2, encryption and message layout (pure functions on bytes); GeoIP and LAN probing (I/O;
  their results are inputs); the relay web application (repeats ListBlocks, Get and put); Android and browser
  user interfaces; the simulation; the mobile engine's storage quota file; message listing, which only reads.

## 9. Proofs

The theorems hold for every value of the constants: any number of goroutines, programs, requests, peers, ids, tags
and work factors, any TTLs, limits, page and shard sizes. Each module EXTENDS the specification it is about
(PeerTrackerProofs those of both trackers, whose names the prefix Engine keeps apart), and uses the named
assumptions of the specifications only. They say that ids are positive numbers (`IDAssumption`), TTLs are positive (`TTLAssumption`), sizes, limits and clock bounds are naturals, page sizes are
positive, a clock has a first second, the filter has a highest level (`BloomAssumption`), sets of inputs are sets
of ids, URLs or records, and:

* `TrackerAssumption`: the URLs are finitely many (the tracker counts its peers), and an `int` has more than one bit;
* `FlatFileAssumption`, `OldFilesAssumption`: the ids are finitely many (they are 32 bytes), so are the programs that
  use a volume, and an earlier use has left at most one file per id, since a path names one file;
* `SessionAssumption`: a session has two ends, and each begins with a finite store of one block per id, none of them
  from the future or with a live tombstone;
* `SyncAssumption`: the relay's clock is less than the whole run behind; `UsbAssumption`: the loop has no limit,
  as `usbSyncLoop` opens its store without one;
* `NilAssumption`: the values that stand for no file, no keystore and no scraper are none of the real ones.

| Module | Theorem | States |
|---|---|---|
| BlockTxnProofs | NeverFalseNegative | the filter of a store shows each of its blocks at its own and every lower level of work |
| | BoostKeepsBits | adding or boosting blocks clears no bit |
| | PageComplete | an entry that ListBlocks may return is on its page or after the token returned with it, and the token is a key |
| BadgerStoreProofs | TypeCorrect, StoreInvariant | `Spec => []TypeOK`, `Spec => []IInv` |
| | AlwaysIndexed, EvictedStaysOut, OrphansExplained | `Spec => []` of BlockIndexed, TombExcludesBlock, OrphanOnlyByEviction |
| | WorkMonotone | `Spec => WorkNeverLost`, an action property |
| | Refinement | `Spec => ImplementsBlockStore`: each transaction is a step of BlockStore or a stutter |
| | AloneInvariant | if one goroutine uses the store (`Alone`), `Spec => []SeqInv` |
| | OrphansNeedARace | if `Alone`, `Spec => []NoOrphan` |
| | ReservationsHold, TombLongEnough | if `Alone`, `Spec =>` ReservationRespected and TombOutlivesBlock, action properties |
| MessageApiProofs | TypeCorrect, MessageInvariant | `Spec => []TypeOK`, `Spec => []IInv` |
| | SentStays, BoostStays | `Spec => []` of SentKept, BoostKept |
| | CheckpointSafe | `Spec => []NothingBehindCheckpoint`, for any delay of a Put |
| RelaySyncProofs | TypeCorrect, SyncInvariant | `Spec => []TypeOK`, `Spec => []IInv` |
| | PushPassesNothing | `Spec => []PushComplete`, for any delays of Puts and any limits the relay answers |
| | PullPassesNothing | `Spec => []PullComplete`, for any filter, lag of the relay's clock and delays of Puts |
| PeerTrackerProofs | TypeCorrect, TrackerInvariant | `Spec => []TypeOK` (cap, self-exclusion and bounded backoff included), `Spec => []IInv` |
| | CacheKnown | `Spec => []FileKnown` |
| | MobileTypeCorrect, EngineInvariant | `EngineSpec => []EngineTypeOK`, `EngineSpec => []MobileInv` |
| | NoSilentLoss | `EngineSpec => []OnlyLateLost` |
| BluetoothProofs | TypeCorrect, SessionInvariant | `Spec => []TypeOK`, `Spec => []SessionInv` |
| | NothingSentBack | `Spec => []OnlyMissingSent` |
| | DeliveryInvariant, DoneDelivers | `Spec => []DeliverInv`, `Spec => []DoneMeansAll`, for any filter |
| ApiSessionProofs | TypeCorrect | `Spec => []TypeOK` |
| | ScraperInStep | `Spec => []ScraperFollows` |
| | StampLoss | `Spec => StampKept`, an action property |
| | ConfirmedStays | if `OldRecords \subseteq Identity`, `Spec => []ConfirmedKept` |
| UsbSyncProofs | TypeCorrect, VolumeInvariant | `Spec => []TypeOK`, `Spec => []IInv` |
| | ReplaceIsAtomic | if the volume held whole files to begin with, `Spec => []AtomicReplace` |
| | WorkIsKept | `Spec => WorkKeptAlone`, an action property |
| | IndexIsComplete | `Spec => []IndexComplete` |
| | SearchFinds | the binary search of an index file returns the record of an id exactly if there is one |
| | LookupsConsistent | `Spec => []LookupsAgree` |
| | RoundInvariant, RoundsAreComplete | if the node has the volume to itself (`LoopAlone`), `Spec => []RoundInv`, `Spec => RoundComplete` |

Some theorems have a hypothesis, and none can be dropped; TLC finds a counterexample without it:

* ConfirmedStays with a channel or contact in a version 1 keystore (the run `api_migrate`);
* the theorems under `Alone` with two goroutines, where an eviction deletes by a scan that a boost has overtaken
  (TombLongEnough if the boost more than doubles the TTL, as three levels of work do);
* RoundsAreComplete with `snk mass-storage` at work on the same volume: over the shared temporary file its weaker copy
  can replace the one that the push has just written, and with a limit it can evict a file before the pull lists it;
* ReplaceIsAtomic with a volume that comes with a short file: the first state is a counterexample.

Sections 6 and 7 say what in the code each of them stands for.

The inductive invariants:

* **Transactions** (BlockTxnProofs). `Consistent(db, now)` is what every transaction keeps: one block per id, one
  entry per index key, blocks are indexed, no block has a live tombstone, an entry without a block is older than
  the end of its id's tombstone, and nothing comes from the future. PageComplete argues by counting: an entry
  that is not on the page has at least `limit` entries before it, so the page is full, and its last entry is before it.
* **Store.** `IInv` conjoins TypeOK, BlockIndexed, TombExcludesBlock, OrphanOnlyByEviction and `FromThePast`: no
  `createdAt` in the index, or carried by a goroutine, lies in the future. That strengthening is needed because
  OrphanOnlyByEviction compares a tombstone's end with the entries that an eviction leaves behind.
  With one caller `SeqInv` adds `ScanCurrent`: the candidates of an eviction are exactly what is stored. This is what a
  second goroutine breaks.
* **Messages.** TypeOK is not inductive alone: a page token is the key of a last entry, which exists only in a
  finite index with unique keys (`StoreInv`). BoostKept needs that a boost's block is there until it is evicted
  (`BoostInv`). For the checkpoint, `ScanInv`: a stored block from before the start of the scan is read already, known as
  missed, on the page, or after the cursor. A Put that commits during the scan gives its block a clock reading from before:
  either the scan has yet to list that key, or the copy is `missed`.
* **Relay.** `PushInv` and `PullInv` say the same of the two halves of a round, where *read* is *offered to the
  other store*, and *missed* is `unpushed` or `unpulled`. PushInv is about the blocks that the limit of the round lets into
  the listing; `PushDone` adds the others. What the filter hides is offered already or recorded, whatever the filter,
  so no property of the hash function is needed.
* **Peer tracker.** `SavesKnown`: every snapshot, and the temporary file when somebody is about to rename it, names
  known peers only. A temporary file left by an earlier process may name others; nobody renames it unwritten.
* **Mobile engine.** What LastSync has passed must hold of every snapshot on its way to the file too, for a restart
  brings it back (`SavedOnlyLateLost`), and of a round between its steps (`RoundPasses`): what such a round has listed is
  transferred or left behind.
* **API session.** What is owed to a caller is in the keystore in memory and in every file content that a request
  has read and will install (`OwedInMemory`), else a later save would drop it.
* **Volume.** `WriteInv` follows the temporary files: two programs at work on one have put its block at risk
  (`Shared`); a short one is being filled or at risk (`ShortTmp`); a program whose temporary file was renamed or
  removed by another writes a block at risk (`Robbed`); what a program is about to rename it wrote itself, or the
  block is at risk (`OwnTmp`). `JobInv`: only the programs of the behaviour have jobs.
  AtomicReplace and WorkKeptAlone follow at the rename. `BuildInv` says what an index
  build knows at each point of its walk and of its writing, one build at a time; it needs `CallsEnd`, that no call
  outlives the medium, since another node changes files without telling the build.
  SearchFinds is an induction over the distance of the two bounds, told as a least counterexample, since the
  prover cannot instantiate an induction theorem; a recursive function is a CHOOSE, so `SearchEquation` first shows
  that its equation has a solution.
* **Round.** `RoundInv`: during the pull, a block that is owed has its file on the volume, and is in the store, on the page
  or ahead of the cursor; during the push it is in the store, and on the volume, in the hands of the loop's Put, on
  the page or ahead. A transfer that fails takes its block off `owed`.
  Looking for it showed an earlier form of RoundComplete to be false: a block that the store
  refused for its tombstone was excused at the end of the pull only while the tombstone lived, and a tombstone that
  expires in between, which takes longer than the run's clock goes, took the excuse away. `PullRef` now takes it off `owed`.
* **Bluetooth.** `SessionInv` needs nothing of the hash function: every filter on its way shows all that its sender held
  when the session began and has not evicted (`Honest`), so none of that is sent back, whatever collides. `DeliverInv`
  says of each block that the sender held that it is in the other store, on the link, not yet passed by the sender
  (`StreamInv`), or among `lost` and `gone`, and that on the link it is before a DONE (`DoneInv`): frames keep their order.

Each proof has one lemma per action for what it does to the state, and one step per action and conjunct for the
invariant.

Only model-checked: liveness (PutReturns, Delivered, RoundRobin, SessionEnds, Carried), which is beyond the prover, as is
ENABLED. Every other property of a passing run is stated by a theorem.

## 10. Plan

1. An abstract specification of a sync round (the union of two stores in the end), with RelaySync, UsbSync and
   Bluetooth implementing it.
2. RoundComplete beside other programs, once the files they can take from a pull are described.
