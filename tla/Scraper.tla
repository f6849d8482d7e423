------------------------------ MODULE Scraper -------------------------------
(***************************************************************************)
(* The message scraper (client/client.go, POST /api/scrape) reading the    *)
(* block store page by page while other goroutines put, boost and evict    *)
(* blocks.  A persistent checkpoint says from which second the next scrape *)
(* starts; the question is whether a message can fall behind it unseen.    *)
(***************************************************************************)
EXTENDS BlockTxn

CONSTANTS Mine,         \* ids that a held identity or channel key decrypts
          Gift,         \* of those, the proof-of-work gifts
          PageSize,     \* scrapePageSize
          MaxPutDelay,  \* seconds between Put's clock reading and its commit
          MaxTime       \* bound on the clock

ASSUME ScraperAssumption ==
  /\ Gift \subseteq Mine /\ Mine \subseteq ID
  /\ PageSize \in Nat \ {0} /\ MaxPutDelay \in Nat /\ MaxTime \in Nat

VARIABLES
  now, db,
  puts,        \* references whose Put has read the clock and not committed
  checkpoint,  \* since_unix in the message database
  messages,    \* rows of the message table: the block, and whether this node sent it
  gifts,       \* ids of the gifts handed to OnPowGift
  window,      \* history: the caller asked not to see older blocks
  missed,      \* history: unread copies in the store whose Get failed in a
               \* scrape, or that a slow Put committed behind the scrapes
  pc, since, scanStart, cursor, page  \* the scrape in progress

store == <<now, db, puts>>
saved == <<checkpoint, messages, gifts, window, missed>>
scan == <<pc, since, scanStart, cursor, page>>
scraperVars == <<store, saved, scan>>

Message == [id : ID, sent : BOOLEAN]

ScraperTypeOK ==
  /\ now \in 1..MaxTime /\ db \in DB /\ puts \subseteq Ref
  /\ checkpoint \in 0..MaxTime /\ window \in 0..MaxTime
  /\ messages \subseteq Message /\ \A m, n \in messages : m.id = n.id => m = n
  /\ gifts \subseteq ID /\ missed \subseteq Ref
  /\ pc \in {"idle", "list", "page"}
  /\ since \in Nat /\ scanStart \in Nat
  /\ cursor \in [createdAt : Nat, id : Nat] /\ page \subseteq Ref

ScraperInit ==
  /\ now = 1 /\ db = EmptyDB /\ puts = {}
  /\ checkpoint = 0 /\ messages = {} /\ gifts = {} /\ window = 0
  /\ missed = {} /\ pc = "idle" /\ since = 0 /\ scanStart = 0
  /\ cursor = NoCursor /\ page = {}
-----------------------------------------------------------------------------
(* The store, as its other users change it (module BadgerStore).           *)

PutCall(id, wf, tag) ==
  /\ puts = {}
  /\ puts' = {[id |-> id, createdAt |-> now, wf |-> wf, tag |-> tag]}
  /\ UNCHANGED <<now, db, saved, scan>>

\* The message in block i is not for this node, or has been saved or applied.
Read(i) ==
  i \in Mine => i \in IF i \in Gift THEN gifts ELSE {m.id : m \in messages}

\* The scrape in progress has yet to list what has r's key.
Listing(r) == (pc = "list" \/ cursor # NoCursor) /\ KeyLess(cursor, r)

\* No scrape but a full one will list r: its second is behind the checkpoint,
\* or behind the start of a scrape that has gone past it.
Behind(r) ==
  /\ ~Read(r.id)
  /\ r.createdAt < checkpoint \/ (r.createdAt < scanStart /\ ~Listing(r))

\* The transaction runs up to MaxPutDelay seconds after the clock reading, and
\* the entry carries the clock reading.
PutCommit ==
  /\ \E r \in puts :
       /\ db' = PutTxn(db, r, now)
       /\ puts' = puts \ {r}
       /\ missed' = {b \in db'.block : b \in missed \/ (b \notin db.block /\ Behind(b))}
  /\ UNCHANGED <<now, checkpoint, messages, gifts, window, scan>>

Tick ==
  /\ now < MaxTime
  /\ \A r \in puts : now - r.createdAt < MaxPutDelay
  /\ now' = now + 1
  /\ UNCHANGED <<db, puts, saved, scan>>
-----------------------------------------------------------------------------
(* POST /api/scrape; scrapeMu admits one at a time.                        *)

\* Scrape starts from checkpoint c: it reads the clock before it lists.  What
\* it is going to list counts as missed no more.
Begin(c) ==
  /\ checkpoint' = c
  /\ since' = c
  /\ scanStart' = now
  /\ cursor' = NoCursor
  /\ page' = {}
  /\ pc' = "list"
  /\ missed' = {b \in missed : b.createdAt < c}
  /\ UNCHANGED <<messages, gifts, store>>

\* An ordinary request, and one with "since_unix" when a checkpoint is set.
Scrape ==
  /\ pc = "idle"
  /\ Begin(checkpoint)
  /\ UNCHANGED window

\* A first request with "since_unix": n, which limits the initial scan.
FirstScrape(n) ==
  /\ pc = "idle" /\ checkpoint = 0 /\ n > 0
  /\ Begin(n)
  /\ window' = n

\* A request with "full": true rescans from n, or from the epoch when n is 0.
FullScrape(n) ==
  /\ pc = "idle"
  /\ Begin(n)
  /\ window' = IF n > checkpoint \/ n < window THEN n ELSE window

\* The next page is listed.
ListPage ==
  /\ pc = "list"
  /\ LET refs == Page(db, cursor, PageSize, 0, since)
     IN  /\ page' = refs
         /\ cursor' = NextCursor(refs, PageSize)
  /\ pc' = "page"
  /\ UNCHANGED <<since, scanStart, saved, store>>

\* Mutant: a row that is there already is written anew.
SaveMessageAnew(i, sent) ==
  {m \in messages : m.id # i} \cup {[id |-> i, sent |-> sent]}

\* SaveMessage: INSERT OR IGNORE, and block_id is unique.
SaveMessage(i, sent) ==
  IF \E m \in messages : m.id = i THEN messages
                                  ELSE messages \cup {[id |-> i, sent |-> sent]}

\* One reference of the page: its block is read and, if a key decrypts it,
\* saved or applied.  When Get fails, because the block was evicted since the
\* page was listed or for any other reason, the scrape goes on without it.
ReadBlock ==
  /\ pc = "page"
  /\ \E e \in page, got \in BOOLEAN :
       /\ \A f \in page : ~KeyLess(f, e)
       /\ got => \E b \in db.block : b.id = e.id
       /\ page' = page \ {e}
       /\ gifts' = IF got /\ e.id \in Gift THEN gifts \cup {e.id} ELSE gifts
       /\ messages' = IF got /\ e.id \in Mine \ Gift
                      THEN SaveMessage(e.id, FALSE) ELSE messages
       /\ missed' = IF got \/ e \notin db.block \/ Read(e.id) THEN missed ELSE missed \cup {e}
  /\ UNCHANGED <<pc, since, scanStart, cursor, checkpoint, window, store>>

\* The page is done and was full: go on after its last entry.
NextPage ==
  /\ pc = "page" /\ page = {} /\ cursor # NoCursor
  /\ pc' = "list"
  /\ UNCHANGED <<since, scanStart, cursor, page, saved, store>>

\* Mutant: the checkpoint moves to the end of the scan.
FinishAtEnd ==
  /\ pc = "page" /\ page = {} /\ cursor = NoCursor
  /\ checkpoint' = now
  /\ pc' = "idle"
  /\ since' = 0 /\ scanStart' = 0
  /\ UNCHANGED <<cursor, page, messages, gifts, window, missed, store>>

\* Mutant: the checkpoint moves past the second in which the scan began.
FinishPastStart ==
  /\ pc = "page" /\ page = {} /\ cursor = NoCursor
  /\ checkpoint' = scanStart + 1
  /\ pc' = "idle"
  /\ since' = 0 /\ scanStart' = 0
  /\ UNCHANGED <<cursor, page, messages, gifts, window, missed, store>>

\* The last page is done: the checkpoint moves to the start of this scan.
Finish ==
  /\ pc = "page" /\ page = {} /\ cursor = NoCursor
  /\ checkpoint' = scanStart
  /\ pc' = "idle"
  /\ since' = 0 /\ scanStart' = 0
  /\ UNCHANGED <<cursor, page, messages, gifts, window, missed, store>>

\* The request is cancelled, a database call fails or the process stops: what
\* was saved stays, the checkpoint does not move.
Abort ==
  /\ pc # "idle"
  /\ pc' = "idle"
  /\ since' = 0 /\ scanStart' = 0 /\ cursor' = NoCursor /\ page' = {}
  /\ UNCHANGED <<saved, store>>

ScrapeStep ==
  \/ Scrape
  \/ \E n \in 0..now : FirstScrape(n) \/ FullScrape(n)
  \/ ListPage \/ ReadBlock \/ NextPage \/ Finish \/ Abort
-----------------------------------------------------------------------------
\* "Scrape pages through all blocks added since the last checkpoint": a stored
\* block that is older than the checkpoint, and not older than what the caller
\* asked to see, has been read, whatever was put, boosted or evicted while the
\* pages went by.  The two exceptions are exact: the very copy whose Get failed
\* in a scrape, and the copy that a slow Put committed behind the checkpoint or
\* behind the page that would have listed it.
NothingBehindCheckpoint ==
  \A b \in db.block :
    window <= b.createdAt /\ b.createdAt < checkpoint
      => Read(b.id) \/ b \in missed
=============================================================================
