-------------------------- MODULE MessageApiProofs --------------------------
(***************************************************************************)
(* Proofs about the scraper and the message handlers, for any number of    *)
(* blocks, work factors and page sizes.                                    *)
(***************************************************************************)
EXTENDS MessageApi, BlockTxnProofs

\* The store: what its transactions keep true, and that nothing in it or on
\* the way to it comes from the future.  The index is finite, so that it has
\* pages.
StoreInv ==
  /\ Consistent(db, now) /\ IsFiniteSet(db.trav)
  /\ \A r \in puts : r.createdAt <= now

\* A running handler works on a block that exists, and a scan began in the
\* past.
TaskInv ==
  /\ task.pc # "idle" => task.id \in ID
  /\ task.pc \in {"send", "post"} => task.id \in used
  /\ scanStart <= now

\* A boost's block is in the store until it is reported as evicted: Put only
\* replaces a copy by a stronger one.
BoostInv ==
  task.pc \in {"target", "mine", "boost"} /\ ~task.lost
    => \E b \in db.block : b.id = task.id

\* The inductive invariant.  TypeOK needs StoreInv, because the page token is
\* the key of a last entry, which exists in a finite index with unique keys.
IInv ==
  /\ TypeOK /\ StoreInv /\ TaskInv
  /\ SentKept
  /\ BoostKept /\ BoostInv

\* A scan that goes on has not gone past b in silence: it has read b, is known
\* to have missed it, or b is on its page or after its cursor.
Ahead(b) ==
  \/ Read(b.id) \/ b \in missed
  \/ Listing(b)
  \/ pc = "page" /\ b \in page

\* What NothingBehindCheckpoint needs of a scan that goes on: every stored block
\* of the time it covers is still ahead of it.
ScanInv ==
  /\ checkpoint <= now
  /\ pc # "idle" => since = checkpoint
  /\ pc # "idle" =>
       \A b \in db.block :
         since <= b.createdAt /\ b.createdAt < scanStart => Ahead(b)
-----------------------------------------------------------------------------
(* The store.                                                              *)

\* Every step is a Put's clock reading, the end of a Put, an eviction, a tick,
\* or leaves the store alone.
LEMMA StoreStep ==
  ASSUME TypeOK, TaskInv, [Next]_vars
  PROVE  \/ UNCHANGED store
         \/ /\ \E r \in Ref : r.createdAt = now /\ puts' = {r}
            /\ UNCHANGED <<now, db>>
         \/ /\ \E r \in puts : db' = PutTxn(db, r, now) /\ puts' = puts \ {r}
            /\ now' = now
         \/ puts' \subseteq puts /\ UNCHANGED <<now, db>>
         \/ /\ \E c \in db.block : db' = EvictTxn(db, c, now)
            /\ UNCHANGED <<now, puts>>
         \/ Tick
<1> USE DEF store
<1>1. ASSUME NEW id \in ID, NEW wf \in WF, NEW tag \in Tag, PutCall(id, wf, tag)
      PROVE  /\ \E r \in Ref : r.createdAt = now /\ puts' = {r}
             /\ UNCHANGED <<now, db>>
  <2> DEFINE r == [id |-> id, createdAt |-> now, wf |-> wf, tag |-> tag]
  <2>1. r \in Ref /\ r.createdAt = now
    BY ScraperAssumption DEF Ref, TypeOK, ScraperTypeOK
  <2>2. puts' = {r} /\ UNCHANGED <<now, db>>
    BY <1>1 DEF PutCall
  <2> QED
    BY <2>1, <2>2
<1>2. ASSUME NEW id \in ID, NEW wf \in WF, NEW tag \in Tag,
             OtherPut(id, wf, tag) \/ Send(id, wf, tag) \/ SendChannel(id, wf, tag)
      PROVE  PutCall(id, wf, tag)
  BY <1>2 DEF OtherPut, Send, SendChannel, Call
<1>3. ASSUME NEW wf \in WF, NEW tag \in Tag, BoostPut(wf, tag)
      PROVE  UNCHANGED <<now, db>> /\ \E r \in Ref : r.createdAt = now /\ puts' = {r}
  <2>1. PutCall(task.id, wf, tag) /\ task.id \in ID
    BY <1>3 DEF BoostPut, TaskInv
  <2> QED
    BY <2>1, <1>1
<1>4. ASSUME OtherEvict
      PROVE  (\E c \in db.block : db' = EvictTxn(db, c, now)) /\ UNCHANGED <<now, puts>>
  BY <1>4 DEF OtherEvict
<1>5. ASSUME PutCommit
      PROVE  /\ \E r \in puts : db' = PutTxn(db, r, now) /\ puts' = puts \ {r}
             /\ now' = now
  BY <1>5 DEF PutCommit
<1>6. ASSUME ScrapeStep PROVE UNCHANGED store
  BY <1>6 DEF ScrapeStep, Scrape, FirstScrape, FullScrape, Begin, ListPage, ReadBlock,
              NextPage, Finish, Abort
<1>7. ASSUME SendReply \/ SendChannelReply \/ (\E i \in ID : BoostGet(i)) \/ BoostTarget
             \/ BoostReply \/ MineFails
      PROVE  UNCHANGED store
  BY <1>7 DEF SendReply, SendChannelReply, BoostGet, BoostTarget, BoostReply, MineFails,
              scraperVars
<1>8. ASSUME PutFails PROVE puts' \subseteq puts /\ UNCHANGED <<now, db>>
  BY <1>8 DEF PutFails
<1>9. CASE UNCHANGED vars
  BY <1>9 DEF vars, scraperVars
<1> QED
  BY <1>1, <1>2, <1>3, <1>4, <1>5, <1>6, <1>7, <1>8, <1>9 DEF Next

\* The database keeps what Consistent says, and its type.
LEMMA StoreNext ==
  ASSUME TypeOK, TaskInv, StoreInv, [Next]_vars
  PROVE  /\ StoreInv'
         /\ now' \in 1..MaxTime /\ now <= now' /\ db' \in DB /\ puts' \subseteq Ref
<1>1. /\ now \in 1..MaxTime /\ now \in Nat /\ db \in DB /\ puts \subseteq Ref
      /\ MaxTime \in Nat /\ db.block \subseteq Ref
  BY ScraperAssumption DEF TypeOK, ScraperTypeOK, DB
<1>2. CASE UNCHANGED store
  BY <1>1, <1>2 DEF store, StoreInv
<1>3. ASSUME NEW r \in Ref, r.createdAt = now, puts' = {r}, UNCHANGED <<now, db>>
      PROVE  /\ StoreInv'
             /\ now' \in 1..MaxTime /\ now <= now' /\ db' \in DB /\ puts' \subseteq Ref
  BY <1>1, <1>3 DEF StoreInv
<1>4. ASSUME NEW r \in puts, db' = PutTxn(db, r, now), puts' = puts \ {r}, now' = now
      PROVE  /\ StoreInv'
             /\ now' \in 1..MaxTime /\ now <= now' /\ db' \in DB /\ puts' \subseteq Ref
  <2>1. Consistent(db', now')
    BY <1>1, <1>4, PutConsistent DEF StoreInv
  <2>2. IsFiniteSet(db'.trav) /\ db' \in DB
    BY <1>1, <1>4, PutBrings DEF StoreInv
  <2> QED
    BY <1>1, <1>4, <2>1, <2>2 DEF StoreInv
<1>5. CASE puts' \subseteq puts /\ UNCHANGED <<now, db>>
  BY <1>1, <1>5 DEF StoreInv
<1>6. ASSUME NEW c \in db.block, db' = EvictTxn(db, c, now), UNCHANGED <<now, puts>>
      PROVE  /\ StoreInv'
             /\ now' \in 1..MaxTime /\ now <= now' /\ db' \in DB /\ puts' \subseteq Ref
  <2>1. Consistent(db', now')
    BY <1>1, <1>6, EvictConsistent DEF StoreInv
  <2>2. db' \in DB /\ db'.trav \subseteq db.trav
    <3>1. c \in Ref
      BY <1>1, <1>6
    <3> QED
      BY <1>1, <1>6, <3>1, EvictShrinks
  <2>3. IsFiniteSet(db'.trav)
    BY <2>2, FS_Subset DEF StoreInv
  <2> QED
    BY <1>1, <1>6, <2>1, <2>2, <2>3 DEF StoreInv
<1>7. CASE Tick
  <2>1. now' = now + 1 /\ now < MaxTime /\ db' = db /\ puts' = puts
    BY <1>7 DEF Tick
  <2>2. Consistent(db, now + 1)
    BY <1>1, ConsistentLater DEF StoreInv
  <2>3. \A r \in puts : r.createdAt \in Nat
    BY <1>1 DEF Ref
  <2> QED
    BY <1>1, <2>1, <2>2, <2>3 DEF StoreInv
<1> QED
  BY StoreStep, <1>2, <1>3, <1>4, <1>5, <1>6, <1>7
-----------------------------------------------------------------------------
(* Types and the handlers.                                                 *)

\* A page has entries of the index, and its token is one.
LEMMA ListType ==
  ASSUME TypeOK, StoreInv, ListPage
  PROVE  cursor' \in [createdAt : Nat, id : Nat] /\ page' \subseteq Ref
<1>1. /\ db \in DB /\ Keyed(db.trav) /\ KeysUnique(db.trav) /\ IsFiniteSet(db.trav)
      /\ PageSize \in Nat \ {0} /\ db.trav \subseteq Ref
  BY ScraperAssumption
     DEF TypeOK, ScraperTypeOK, StoreInv, Consistent, Keyed, KeysUnique, DB, Ref
<1> DEFINE refs == Page(db, cursor, PageSize, 0, since)
<1>2. refs \subseteq db.trav /\ NextCursor(refs, PageSize) \in [createdAt : Nat, id : Nat]
  BY <1>1, PageComplete
<1>3. page' = refs /\ cursor' = NextCursor(refs, PageSize)
  BY DEF ListPage
<1> QED
  BY <1>1, <1>2, <1>3

\* SaveMessage adds a row for i unless there is one, and keeps every other.
LEMMA SaveAdds ==
  ASSUME TypeOK, NEW i \in ID, NEW sent \in BOOLEAN
  PROVE  LET after == SaveMessage(i, sent)
         IN  /\ after \subseteq Message /\ messages \subseteq after
             /\ \A m, n \in after : m.id = n.id => m = n
             /\ \E m \in after : m.id = i
             /\ after = messages \/ [id |-> i, sent |-> sent] \in after
<1> DEFINE m == [id |-> i, sent |-> sent]
<1>1. m \in Message /\ m.id = i
  BY DEF Message
<1>2. messages \subseteq Message /\ \A n, o \in messages : n.id = o.id => n = o
  BY DEF TypeOK, ScraperTypeOK
<1> HIDE DEF m
<1>3. CASE \E n \in messages : n.id = i
  BY <1>2, <1>3 DEF SaveMessage
<1>4. CASE ~\E n \in messages : n.id = i
  <2>1. SaveMessage(i, sent) = messages \cup {m}
    BY <1>4 DEF SaveMessage, m
  <2> QED
    BY <2>1, <1>1, <1>2, <1>4 DEF m
<1> QED
  BY <1>3, <1>4

\* A block of a page is read: a row or a gift is added, or nothing.
LEMMA ReadAdds ==
  ASSUME TypeOK, ReadBlock
  PROVE  /\ messages \subseteq messages' /\ messages' \subseteq Message
         /\ \A m, n \in messages' : m.id = n.id => m = n
         /\ gifts \subseteq gifts' /\ gifts' \subseteq ID
         /\ missed \subseteq missed' /\ missed' \subseteq Ref
         /\ page' \subseteq page
<1>1. PICK e \in page, got \in BOOLEAN :
        /\ page' = page \ {e}
        /\ gifts' = IF got /\ e.id \in Gift THEN gifts \cup {e.id} ELSE gifts
        /\ messages' = IF got /\ e.id \in Mine \ Gift
                       THEN SaveMessage(e.id, FALSE) ELSE messages
        /\ missed' = IF got \/ e \notin db.block \/ Read(e.id) THEN missed
                     ELSE missed \cup {e}
  BY DEF ReadBlock
<1>2. e.id \in ID /\ messages \subseteq Message /\ gifts \subseteq ID
      /\ e \in Ref /\ missed \subseteq Ref
      /\ \A m, n \in messages : m.id = n.id => m = n
  BY DEF TypeOK, ScraperTypeOK, Ref
<1>3. messages' = messages \/ messages' = SaveMessage(e.id, FALSE)
  BY <1>1
<1>4. /\ SaveMessage(e.id, FALSE) \subseteq Message
      /\ messages \subseteq SaveMessage(e.id, FALSE)
      /\ \A m, n \in SaveMessage(e.id, FALSE) : m.id = n.id => m = n
  BY <1>2, SaveAdds
<1>5. /\ messages \subseteq messages' /\ messages' \subseteq Message
      /\ \A m, n \in messages' : m.id = n.id => m = n
  BY <1>2, <1>3, <1>4
<1> QED
  BY <1>1, <1>2, <1>5

\* The scraper's steps keep its types; they change neither the store nor the
\* handlers, and rows and gifts only appear.
LEMMA ScrapeType ==
  ASSUME TypeOK, StoreInv, TaskInv, ScrapeStep
  PROVE  /\ checkpoint' \in 0..MaxTime /\ window' \in 0..MaxTime
         /\ messages \subseteq messages' /\ messages' \subseteq Message
         /\ \A m, n \in messages' : m.id = n.id => m = n
         /\ gifts \subseteq gifts' /\ gifts' \subseteq ID /\ missed' \subseteq Ref
         /\ pc' \in {"idle", "list", "page"}
         /\ since' \in Nat /\ scanStart' \in Nat /\ scanStart' <= now
         /\ cursor' \in [createdAt : Nat, id : Nat] /\ page' \subseteq Ref
<1> USE DEF TypeOK, ScraperTypeOK, saved, store
<1>1. /\ MaxTime \in Nat /\ now \in Nat /\ scanStart <= now /\ now <= MaxTime
      /\ checkpoint \in 0..MaxTime /\ window \in 0..MaxTime
  BY ScraperAssumption DEF TaskInv
<1>2. CASE Scrape
  BY <1>1, <1>2 DEF Scrape, Begin, NoCursor
<1>3. ASSUME NEW n \in 0..now, FirstScrape(n) \/ FullScrape(n)
      PROVE  /\ checkpoint' \in 0..MaxTime /\ window' \in 0..MaxTime
             /\ messages' = messages /\ gifts' = gifts /\ missed' \subseteq missed
             /\ pc' \in {"idle", "list", "page"}
             /\ since' \in Nat /\ scanStart' \in Nat /\ scanStart' <= now
             /\ cursor' \in [createdAt : Nat, id : Nat] /\ page' \subseteq Ref
  BY <1>1, <1>3 DEF FirstScrape, FullScrape, Begin, NoCursor
<1>4. CASE ListPage
  <2>1. cursor' \in [createdAt : Nat, id : Nat] /\ page' \subseteq Ref
    BY <1>4, ListType
  <2> QED
    BY <1>1, <1>4, <2>1 DEF ListPage
<1>5. CASE ReadBlock
  <2>1. UNCHANGED <<pc, since, scanStart, cursor, checkpoint, window>>
    BY <1>5 DEF ReadBlock
  <2>2. /\ messages \subseteq messages' /\ messages' \subseteq Message
        /\ \A m, n \in messages' : m.id = n.id => m = n
        /\ gifts \subseteq gifts' /\ gifts' \subseteq ID /\ page' \subseteq page
        /\ missed' \subseteq Ref
    BY <1>5, ReadAdds
  <2> QED
    BY <1>1, <2>1, <2>2
<1>6. CASE NextPage
  BY <1>1, <1>6 DEF NextPage
<1>7. CASE Finish
  BY <1>1, <1>7 DEF Finish
<1>8. CASE Abort
  BY <1>1, <1>8 DEF Abort, NoCursor
<1> QED
  BY <1>2, <1>3, <1>4, <1>5, <1>6, <1>7, <1>8 DEF ScrapeStep

\* The part of TypeOK about the handlers, and TaskInv without the scan.
HandlerOK ==
  /\ work \in Workloads /\ used \subseteq ID
  /\ task \in [pc : {"idle", "send", "post", "target", "mine", "boost"},
               id : ID \cup {0}, wf : WF, lost : BOOLEAN]
  /\ answered \subseteq used
  /\ given \subseteq [id : ID, wf : WF]
  /\ task.pc # "idle" => task.id \in ID
  /\ task.pc \in {"send", "post"} => task.id \in used

\* The part of TypeOK about the scraper's own state, and that a scan began in
\* the past.
ScanOK ==
  /\ checkpoint \in 0..MaxTime /\ window \in 0..MaxTime
  /\ messages \subseteq Message /\ \A m, n \in messages : m.id = n.id => m = n
  /\ gifts \subseteq ID /\ missed \subseteq Ref
  /\ pc \in {"idle", "list", "page"}
  /\ since \in Nat /\ scanStart \in Nat /\ scanStart <= now
  /\ cursor \in [createdAt : Nat, id : Nat] /\ page \subseteq Ref

LEMMA Parts ==
  TypeOK /\ TaskInv <=> /\ now \in 1..MaxTime /\ db \in DB /\ puts \subseteq Ref
                        /\ HandlerOK /\ ScanOK
BY DEF TypeOK, ScraperTypeOK, TaskInv, HandlerOK, ScanOK

LEMMA IdleTask ==
  /\ Idle \in [pc : {"idle", "send", "post", "target", "mine", "boost"},
               id : ID \cup {0}, wf : WF, lost : BOOLEAN]
  /\ Idle.pc = "idle"
BY TTLAssumption DEF Idle, WF

\* The handlers keep their own state in order.
LEMMA HandlerNext ==
  ASSUME TypeOK, TaskInv, [Next]_vars
  PROVE  HandlerOK'
<1>1. HandlerOK
  BY Parts
<1> DEFINE Task == [pc : {"idle", "send", "post", "target", "mine", "boost"},
                    id : ID \cup {0}, wf : WF, lost : BOOLEAN]
<1>2. ASSUME UNCHANGED <<work, used>>, answered' \subseteq used,
             given' \subseteq [id : ID, wf : WF], task' \in {task, Idle}
      PROVE  HandlerOK'
  BY <1>1, <1>2, IdleTask DEF HandlerOK
<1>3. ASSUME UNCHANGED apiVars PROVE HandlerOK'
  BY <1>1, <1>3 DEF apiVars, HandlerOK
<1>4. ASSUME NEW id \in ID, NEW wf \in WF, NEW tag \in Tag, NEW l \in {"send", "post"},
             Call(l, id, wf, tag)
      PROVE  HandlerOK'
  <2>1. task' = [Idle EXCEPT !.pc = l, !.id = id] /\ used' = used \cup {id}
        /\ UNCHANGED <<work, answered, given>>
    BY <1>4 DEF Call
  <2>2. task' = [pc |-> l, id |-> id, wf |-> 0, lost |-> FALSE]
    BY <2>1 DEF Idle
  <2>3. task' \in Task /\ task'.id = id
    BY <2>2, TTLAssumption DEF WF
  <2> QED
    BY <1>1, <2>1, <2>3 DEF HandlerOK
<1>5. CASE OtherEvict
  <2>1. PICK c \in db.block : /\ task' = [task EXCEPT !.lost = @ \/ task.id = c.id]
                              /\ given' = {r \in given : r.id # c.id}
    BY <1>5 DEF OtherEvict
  <2>2. task' \in Task /\ task'.pc = task.pc /\ task'.id = task.id
    BY <1>1, <2>1 DEF HandlerOK
  <2>3. UNCHANGED <<work, used, answered>>
    BY <1>5 DEF OtherEvict
  <2> QED
    BY <1>1, <2>1, <2>2, <2>3 DEF HandlerOK
<1>6. CASE SendReply
  <2>1. answered' \subseteq used
    BY <1>1, <1>6 DEF SendReply, Returned, HandlerOK
  <2>2. UNCHANGED <<work, used, given>> /\ task' = Idle
    BY <1>6 DEF SendReply
  <2> QED
    BY <1>1, <1>2, <2>1, <2>2 DEF HandlerOK
<1>7. CASE SendChannelReply \/ MineFails
  <2>1. UNCHANGED <<work, used, answered, given>> /\ task' = Idle
    BY <1>7 DEF SendChannelReply, MineFails
  <2> QED
    BY <1>1, <1>2, <2>1 DEF HandlerOK
<1>8. ASSUME NEW i \in ID, BoostGet(i) PROVE HandlerOK'
  <2>1. task' = [Idle EXCEPT !.pc = "target", !.id = i]
        /\ UNCHANGED <<work, used, answered, given>>
    BY <1>8 DEF BoostGet
  <2>2. task' = [pc |-> "target", id |-> i, wf |-> 0, lost |-> FALSE]
    BY <2>1 DEF Idle
  <2>3. task' \in Task /\ task'.id = i /\ task'.pc = "target"
    BY <2>2, TTLAssumption DEF WF
  <2> QED
    BY <1>1, <2>1, <2>3 DEF HandlerOK
<1>9. CASE BoostTarget
  <2> DEFINE there == {b \in db.block : b.id = task.id}
             most  == IF there = {} THEN 0 ELSE (CHOOSE b \in there : TRUE).wf
  <2>1. task' = [task EXCEPT !.pc = "mine", !.wf = most]
        /\ UNCHANGED <<work, used, answered, given>>
    BY <1>9 DEF BoostTarget
  <2>2. most \in WF
    <3>1. \A b \in there : b.wf \in WF
      BY DEF TypeOK, ScraperTypeOK, DB, Ref
    <3>2. there # {} => (CHOOSE b \in there : TRUE) \in there
      OBVIOUS
    <3>3. 0 \in WF
      BY TTLAssumption DEF WF
    <3> QED
      BY <3>1, <3>2, <3>3
  <2> HIDE DEF most
  <2>3. task' \in Task /\ task'.pc = "mine" /\ task'.id = task.id /\ task.pc = "target"
    BY <1>1, <1>9, <2>1, <2>2 DEF HandlerOK, BoostTarget
  <2> QED
    BY <1>1, <2>1, <2>3 DEF HandlerOK
<1>10. ASSUME NEW wf \in WF, NEW tag \in Tag, BoostPut(wf, tag) PROVE HandlerOK'
  <2>1. task' = [task EXCEPT !.pc = "boost", !.wf = wf] /\ task.pc = "mine"
        /\ UNCHANGED <<work, used, answered, given>>
    BY <1>10 DEF BoostPut
  <2>2. task' \in Task /\ task'.pc = "boost" /\ task'.id = task.id
    BY <1>1, <2>1 DEF HandlerOK
  <2> QED
    BY <1>1, <2>1, <2>2 DEF HandlerOK
<1>11. CASE BoostReply
  <2> DEFINE there == {b \in db.block : b.id = task.id}
             most  == IF there = {} THEN task.wf ELSE (CHOOSE b \in there : TRUE).wf
  <2>1. /\ given' = IF task.lost THEN given ELSE given \cup {[id |-> task.id, wf |-> most]}
        /\ task' = Idle /\ task.pc = "boost" /\ UNCHANGED <<work, used, answered>>
    BY <1>11 DEF BoostReply, Returned
  <2>2. most \in WF /\ task.id \in ID
    <3>1. \A b \in there : b.wf \in WF
      BY DEF TypeOK, ScraperTypeOK, DB, Ref
    <3>2. there # {} => (CHOOSE b \in there : TRUE) \in there
      OBVIOUS
    <3>3. task.wf \in WF /\ task.id \in ID
      BY <1>1, <2>1 DEF HandlerOK
    <3> QED
      BY <3>1, <3>2, <3>3
  <2> HIDE DEF most
  <2>3. given' \subseteq [id : ID, wf : WF]
    BY <1>1, <2>1, <2>2 DEF HandlerOK
  <2> QED
    BY <1>1, <1>2, <2>1, <2>3 DEF HandlerOK
<1>12. CASE PutFails
  <2>1. UNCHANGED <<work, used, answered, given>> /\ task' \in {task, Idle}
    BY <1>12 DEF PutFails
  <2> QED
    BY <1>1, <1>2, <2>1 DEF HandlerOK
<1>13. ASSUME NEW id \in ID, NEW wf \in WF, NEW tag \in Tag,
              OtherPut(id, wf, tag) \/ Send(id, wf, tag) \/ SendChannel(id, wf, tag)
       PROVE  HandlerOK'
  BY <1>3, <1>4, <1>13 DEF OtherPut, Send, SendChannel
<1>14. CASE UNCHANGED vars
  BY <1>3, <1>14 DEF vars
<1> QED
  BY <1>3, <1>5, <1>6, <1>7, <1>8, <1>9, <1>10, <1>11, <1>12, <1>13, <1>14 DEF Next

\* The scraper keeps its own state in order, and so does a handler that adds a
\* row.
LEMMA ScanNext ==
  ASSUME TypeOK, TaskInv, StoreInv, [Next]_vars
  PROVE  ScanOK' /\ messages \subseteq messages' /\ gifts \subseteq gifts'
<1>1. ScanOK /\ now \in Nat /\ now' \in Nat /\ now <= now'
  BY Parts, StoreNext, ScraperAssumption
<1>2. ASSUME UNCHANGED <<saved, scan>>
      PROVE  ScanOK' /\ messages \subseteq messages' /\ gifts \subseteq gifts'
  BY <1>1, <1>2 DEF ScanOK, saved, scan
<1>3. CASE ScrapeStep
  <2>1. now' = now
    BY <1>3 DEF ScrapeStep, Scrape, FirstScrape, FullScrape, Begin, ListPage, ReadBlock,
                NextPage, Finish, Abort, store
  <2> QED
    BY <1>3, <2>1, ScrapeType DEF ScanOK
<1>4. CASE SendReply
  <2>1. task.id \in ID
    BY <1>4 DEF SendReply, Returned, TaskInv
  <2>2. messages' = messages \/ messages' = SaveMessage(task.id, TRUE)
    BY <1>4 DEF SendReply
  <2>3. /\ SaveMessage(task.id, TRUE) \subseteq Message
        /\ messages \subseteq SaveMessage(task.id, TRUE)
        /\ \A m, n \in SaveMessage(task.id, TRUE) : m.id = n.id => m = n
    BY <2>1, SaveAdds
  <2>4. /\ messages' \subseteq Message /\ messages \subseteq messages'
        /\ \A m, n \in messages' : m.id = n.id => m = n
    BY <1>1, <2>2, <2>3 DEF ScanOK
  <2>5. UNCHANGED <<now, scan, checkpoint, gifts, window, missed>>
    BY <1>4 DEF SendReply, store
  <2> QED
    BY <1>1, <2>4, <2>5 DEF ScanOK, scan
<1>5. CASE PutCommit \/ OtherEvict
  <2>1. UNCHANGED <<checkpoint, messages, gifts, window, scan>>
    BY <1>5 DEF PutCommit, OtherEvict
  <2>2. missed' \subseteq Ref
    <3>1. db' \in DB
      BY StoreNext
    <3>2. missed' \subseteq missed \/ missed' \subseteq db'.block
      BY <1>5 DEF PutCommit, OtherEvict
    <3> QED
      BY <1>1, <3>1, <3>2 DEF ScanOK, DB
  <2> QED
    BY <1>1, <2>1, <2>2 DEF ScanOK, scan
<1>6. ASSUME ~ScrapeStep, ~SendReply, ~PutCommit, ~OtherEvict
      PROVE  UNCHANGED <<saved, scan>>
  <2>1. ASSUME NEW id \in ID, NEW wf \in WF, NEW tag \in Tag,
               OtherPut(id, wf, tag) \/ Send(id, wf, tag) \/ SendChannel(id, wf, tag)
        PROVE  UNCHANGED <<saved, scan>>
    BY <2>1 DEF OtherPut, Send, SendChannel, Call, PutCall
  <2>2. ASSUME NEW wf \in WF, NEW tag \in Tag, BoostPut(wf, tag)
        PROVE  UNCHANGED <<saved, scan>>
    BY <2>2 DEF BoostPut, PutCall
  <2>3. CASE Tick \/ SendChannelReply \/ (\E i \in ID : BoostGet(i))
             \/ BoostTarget \/ BoostReply \/ MineFails \/ PutFails
    BY <2>3 DEF Tick, SendChannelReply, BoostGet, BoostTarget,
                BoostReply, MineFails, PutFails, scraperVars
  <2>4. CASE UNCHANGED vars
    BY <2>4 DEF vars, scraperVars
  <2> QED
    BY <1>6, <2>1, <2>2, <2>3, <2>4 DEF Next
<1> QED
  BY <1>2, <1>3, <1>4, <1>5, <1>6
-----------------------------------------------------------------------------
(* Sent messages and boosts.                                               *)

\* An answered send has its row: SendReply answers only when it adds it, and
\* no other step removes a row.
LEMMA SentNext ==
  ASSUME TypeOK, TaskInv, StoreInv, SentKept, [Next]_vars
  PROVE  SentKept'
<1>1. messages \subseteq messages'
  BY ScanNext
<1>2. CASE SendReply
  <2>1. task.id \in ID
    BY <1>2 DEF SendReply, Returned, TaskInv
  <2>2. CASE answered' = answered
    BY <1>1, <2>2 DEF SentKept
  <2>3. CASE answered' # answered
    <3>1. messages' = SaveMessage(task.id, TRUE) /\ messages' # messages
          /\ answered' = answered \cup {task.id}
      BY <1>2, <2>3 DEF SendReply
    <3>2. [id |-> task.id, sent |-> TRUE] \in messages'
      BY <2>1, <3>1, SaveAdds
    <3> QED
      BY <1>1, <3>1, <3>2 DEF SentKept
  <2> QED
    BY <2>2, <2>3
<1>3. CASE ~SendReply
  <2>1. answered' = answered
    BY <1>3 DEF Next, vars, apiVars, OtherPut, Send, SendChannel, Call, OtherEvict,
                SendChannelReply, BoostGet, BoostTarget, BoostPut, BoostReply, MineFails, PutFails
  <2> QED
    BY <1>1, <2>1 DEF SentKept
<1> QED
  BY <1>2, <1>3

\* Unless a block is evicted, a step keeps a copy of it that is at least as
\* strong.
LEMMA WorkStays ==
  ASSUME TypeOK, TaskInv, [Next]_vars, ~OtherEvict
  PROVE  \A b \in db.block : \E c \in db'.block : c.id = b.id /\ c.wf >= b.wf
<1>1. now \in Nat /\ db \in DB /\ puts \subseteq Ref /\ \A b \in db.block : b.wf \in Int
  BY ScraperAssumption DEF TypeOK, ScraperTypeOK, DB, Ref, WF
<1>2. ASSUME NEW r \in puts, db' = PutTxn(db, r, now)
      PROVE  \A b \in db.block : \E c \in db'.block : c.id = b.id /\ c.wf >= b.wf
  BY <1>1, <1>2, PutBrings
<1>3. db' = db \/ \E r \in puts : db' = PutTxn(db, r, now)
  <2>1. ASSUME NEW id \in ID, NEW wf \in WF, NEW tag \in Tag,
               OtherPut(id, wf, tag) \/ Send(id, wf, tag) \/ SendChannel(id, wf, tag)
        PROVE  db' = db
    BY <2>1 DEF OtherPut, Send, SendChannel, Call, PutCall
  <2>2. ASSUME NEW wf \in WF, NEW tag \in Tag, BoostPut(wf, tag)
        PROVE  db' = db
    BY <2>2 DEF BoostPut, PutCall
  <2>3. CASE Tick \/ SendReply \/ SendChannelReply \/ (\E i \in ID : BoostGet(i))
             \/ BoostTarget \/ BoostReply \/ MineFails \/ PutFails
    BY <2>3 DEF Tick, SendReply, SendChannelReply, BoostGet, BoostTarget,
                BoostReply, MineFails, PutFails, scraperVars, store
  <2>4. CASE UNCHANGED vars
    BY <2>4 DEF vars, scraperVars, store
  <2>5. CASE ScrapeStep
    BY <2>5 DEF ScrapeStep, Scrape, FirstScrape, FullScrape, Begin, ListPage, ReadBlock,
                NextPage, Finish, Abort, store
  <2>6. CASE PutCommit
    BY <2>6 DEF PutCommit
  <2> QED
    BY <2>1, <2>2, <2>3, <2>4, <2>5, <2>6 DEF Next
<1> QED
  BY <1>1, <1>2, <1>3

\* What a boost has reported stays in the store, and so does the block of the
\* boost that runs.
LEMMA BoostNext ==
  ASSUME TypeOK, TaskInv, StoreInv, BoostKept, BoostInv, [Next]_vars
  PROVE  BoostKept' /\ BoostInv'
<1>1. /\ now \in Nat /\ db \in DB /\ db.block \subseteq Ref
      /\ given \subseteq [id : ID, wf : WF] /\ \A b \in db.block : b.wf \in Int
      /\ \A r \in given : r.wf \in Int /\ r.id \in ID
  BY ScraperAssumption DEF TypeOK, ScraperTypeOK, DB, Ref, WF
<1>2. HandlerOK
  BY Parts
<1>3. CASE OtherEvict
  <2>1. PICK c \in db.block : /\ db' = EvictTxn(db, c, now)
                              /\ task' = [task EXCEPT !.lost = @ \/ task.id = c.id]
                              /\ given' = {r \in given : r.id # c.id}
    BY <1>3 DEF OtherEvict
  <2>2. c \in Ref
    BY <1>1, <2>1
  <2>3. \A b \in db.block : b.id # c.id => b \in db'.block
    BY <1>1, <2>1, <2>2, EvictShrinks
  <2>4. BoostKept'
    BY <1>1, <2>1, <2>3 DEF BoostKept
  <2>5. task'.pc = task.pc /\ task'.id = task.id /\ task'.lost = (task.lost \/ task.id = c.id)
    BY <1>2, <2>1 DEF HandlerOK
  <2>6. BoostInv'
    BY <2>3, <2>5 DEF BoostInv
  <2> QED
    BY <2>4, <2>6
<1>4. CASE ~OtherEvict
  <2>1. \A b \in db.block : \E c \in db'.block : c.id = b.id /\ c.wf >= b.wf
    BY <1>4, WorkStays
  <2>2. \A c \in db'.block : c.wf \in Int
    <3>1. db' \in DB
      BY StoreNext
    <3> QED
      BY <3>1 DEF DB, Ref, WF
  <2>3. \A r \in given : \E c \in db'.block : c.id = r.id /\ c.wf >= r.wf
    <3> SUFFICES ASSUME NEW r \in given
                 PROVE  \E c \in db'.block : c.id = r.id /\ c.wf >= r.wf
      OBVIOUS
    <3>1. PICK b \in db.block : b.id = r.id /\ b.wf >= r.wf
      BY DEF BoostKept
    <3>2. PICK c \in db'.block : c.id = b.id /\ c.wf >= b.wf
      BY <2>1
    <3> QED
      BY <1>1, <2>2, <3>1, <3>2
  <2>4. BoostKept'
    <3>1. CASE BoostReply /\ ~task.lost
      <4> DEFINE there == {b \in db.block : b.id = task.id}
                 b     == CHOOSE b \in there : TRUE
      <4>1. there # {}
        BY <3>1 DEF BoostReply, Returned, BoostInv
      <4>2. b \in db.block /\ b.id = task.id
        BY <4>1
      <4>3. given' = given \cup {[id |-> task.id, wf |-> b.wf]} /\ db' = db
        BY <3>1, <4>1 DEF BoostReply, scraperVars, store
      <4> HIDE DEF b
      <4>4. b.wf >= b.wf
        BY <1>1, <4>2
      <4> QED
        BY <2>3, <4>2, <4>3, <4>4 DEF BoostKept
    <3>2. CASE ~(BoostReply /\ ~task.lost)
      <4>1. given' = given
        BY <1>4, <3>2 DEF Next, vars, apiVars, OtherPut, Send, SendChannel, Call, SendReply,
                SendChannelReply, BoostGet, BoostTarget, BoostPut, BoostReply, MineFails, PutFails
      <4> QED
        BY <2>3, <4>1 DEF BoostKept
    <3> QED
      BY <3>1, <3>2
  <2>5. BoostInv'
    <3> DEFINE Boosting == {"target", "mine", "boost"}
    <3>1. ASSUME task'.pc \notin Boosting PROVE BoostInv'
      BY <3>1 DEF BoostInv
    <3>2. ASSUME task.pc \in Boosting, task'.id = task.id, task'.lost = task.lost
          PROVE  BoostInv'
      BY <2>1, <3>2 DEF BoostInv
    <3>3. ASSUME task' = task PROVE BoostInv'
      BY <2>1, <3>3 DEF BoostInv
    <3>4. ASSUME NEW id \in ID, NEW wf \in WF, NEW tag \in Tag,
                 OtherPut(id, wf, tag) \/ Send(id, wf, tag) \/ SendChannel(id, wf, tag)
          PROVE  task' = task \/ task'.pc \notin Boosting
      <4>1. ASSUME NEW l \in {"send", "post"}, task' = [Idle EXCEPT !.pc = l, !.id = id]
            PROVE  task'.pc \notin Boosting
        BY <4>1 DEF Idle
      <4> QED
        BY <3>4, <4>1 DEF OtherPut, Send, SendChannel, Call, apiVars
    <3>5. ASSUME NEW i \in ID, BoostGet(i) PROVE BoostInv'
      <4>1. task' = [Idle EXCEPT !.pc = "target", !.id = i]
            /\ (\E b \in db.block : b.id = i)
        BY <3>5 DEF BoostGet
      <4>2. task'.id = i
        BY <4>1 DEF Idle
      <4> QED
        BY <2>1, <4>1, <4>2 DEF BoostInv
    <3>6. ASSUME BoostTarget \/ \E wf \in WF, tag \in Tag : BoostPut(wf, tag)
          PROVE  task.pc \in Boosting /\ task'.id = task.id /\ task'.lost = task.lost
      BY <1>2, <3>6 DEF BoostTarget, BoostPut, HandlerOK
    <3>7. ASSUME SendReply \/ SendChannelReply \/ BoostReply \/ MineFails \/ PutFails
          PROVE  task' = task \/ task'.pc \notin Boosting
      BY <3>7, IdleTask DEF SendReply, SendChannelReply, BoostReply, MineFails, PutFails
    <3>8. ASSUME UNCHANGED apiVars \/ UNCHANGED vars PROVE task' = task
      BY <3>8 DEF apiVars, vars
    <3> HIDE DEF Boosting
    <3> QED
      BY <1>4, <3>1, <3>2, <3>3, <3>4, <3>5, <3>6, <3>7, <3>8 DEF Next
  <2> QED
    BY <2>4, <2>5
<1> QED
  BY <1>3, <1>4
-----------------------------------------------------------------------------
(* The invariant.                                                          *)

LEMMA IInvInit == Init => IInv
<1> SUFFICES ASSUME Init PROVE IInv
  OBVIOUS
<1>1. /\ db.block = {} /\ db.trav = {} /\ puts = {} /\ db \in DB
  BY DEF Init, ScraperInit, EmptyDB, DB
<1>2. StoreInv
  BY <1>1, FS_EmptySet DEF StoreInv, Consistent
<1>3. now = 1 /\ MaxTime \in Nat /\ 1 <= MaxTime
  BY ScraperAssumption, MessageApiAssumption DEF Init, ScraperInit
<1>4. HandlerOK
  BY IdleTask, MessageApiAssumption DEF Init, HandlerOK
<1>5. ScanOK
  BY <1>3 DEF Init, ScraperInit, ScanOK, NoCursor
<1>6. TypeOK /\ TaskInv
  BY <1>1, <1>3, <1>4, <1>5, Parts
<1>7. SentKept /\ BoostKept
  BY DEF Init, SentKept, BoostKept
<1>8. BoostInv
  BY IdleTask DEF Init, BoostInv
<1> QED
  BY <1>2, <1>6, <1>7, <1>8 DEF IInv

LEMMA IInvNext == IInv /\ [Next]_vars => IInv'
<1> SUFFICES ASSUME IInv, [Next]_vars PROVE IInv'
  OBVIOUS
<1> USE DEF IInv
<1>1. HandlerOK'
  BY HandlerNext
<1>2. ScanOK'
  BY ScanNext
<1>3. StoreInv' /\ now' \in 1..MaxTime /\ db' \in DB /\ puts' \subseteq Ref
  BY StoreNext
<1>4. (TypeOK /\ TaskInv)'
  <2>1. (/\ now \in 1..MaxTime /\ db \in DB /\ puts \subseteq Ref
         /\ HandlerOK /\ ScanOK)'
    BY <1>1, <1>2, <1>3
  <2> QED
    BY <2>1 DEF TypeOK, ScraperTypeOK, TaskInv, HandlerOK, ScanOK
<1>5. SentKept'
  BY SentNext
<1>6. BoostKept' /\ BoostInv'
  BY BoostNext
<1> QED
  BY <1>3, <1>4, <1>5, <1>6

\* The inductive invariant holds in every state that the scraper, the handlers
\* and the other users of the store reach together.
THEOREM MessageInvariant == Spec => []IInv
<1>1. Init => IInv
  BY IInvInit
<1>2. IInv /\ [Next]_vars => IInv'
  BY IInvNext
<1> QED
  BY <1>1, <1>2, PTL DEF Spec

\* Store, message table, scan and handler state have their types, at most one
\* row per block in the message table included.
THEOREM TypeCorrect == Spec => []TypeOK
<1>1. IInv => TypeOK
  BY DEF IInv
<1> QED
  BY <1>1, MessageInvariant, PTL

\* A message that send has saved and answered stays in the table as a sent one,
\* for every interleaving with scrapes (SaveMessage is INSERT OR IGNORE).
THEOREM SentStays == Spec => []SentKept
<1>1. IInv => SentKept
  BY DEF IInv
<1> QED
  BY <1>1, MessageInvariant, PTL

\* The work a boost has reported stays in the store until the block is evicted,
\* whatever other puts of the block are under way.
THEOREM BoostStays == Spec => []BoostKept
<1>1. IInv => BoostKept
  BY DEF IInv
<1> QED
  BY <1>1, MessageInvariant, PTL
-----------------------------------------------------------------------------
(* The checkpoint.                                                         *)

\* What has been read stays read.
LEMMA ReadStays ==
  ASSUME messages \subseteq messages', gifts \subseteq gifts', NEW i, Read(i)
  PROVE  Read(i)'
BY DEF Read

\* A step is the scraper's, or it leaves the scan alone.
LEMMA ScanFrame ==
  ASSUME [Next]_vars, ~ScrapeStep
  PROVE  UNCHANGED <<checkpoint, gifts, window, scan>>
<1> USE DEF saved
<1>1. ASSUME NEW id \in ID, NEW wf \in WF, NEW tag \in Tag,
             OtherPut(id, wf, tag) \/ Send(id, wf, tag) \/ SendChannel(id, wf, tag)
      PROVE  UNCHANGED <<checkpoint, gifts, window, scan>>
  BY <1>1 DEF OtherPut, Send, SendChannel, Call, PutCall
<1>2. ASSUME NEW wf \in WF, NEW tag \in Tag, BoostPut(wf, tag)
      PROVE  UNCHANGED <<checkpoint, gifts, window, scan>>
  BY <1>2 DEF BoostPut, PutCall
<1>3. CASE OtherEvict \/ PutCommit \/ Tick \/ SendReply \/ SendChannelReply
           \/ (\E i \in ID : BoostGet(i)) \/ BoostTarget \/ BoostReply \/ MineFails \/ PutFails
  BY <1>3 DEF OtherEvict, PutCommit, Tick, SendReply, SendChannelReply, BoostGet,
              BoostTarget, BoostReply, MineFails, PutFails, scraperVars
<1>4. CASE UNCHANGED vars
  BY <1>4 DEF vars, scraperVars
<1> QED
  BY <1>1, <1>2, <1>3, <1>4 DEF Next

\* A step that is not the scraper's brings only blocks that no scan has passed,
\* that are read, or that it marks as missed; and what was missed and is still
\* stored stays marked.
LEMMA Arrivals ==
  ASSUME IInv, [Next]_vars, ~ScrapeStep
  PROVE  \A b \in db'.block : \/ b \in db.block /\ (b \in missed => b \in missed')
                              \/ b \notin db.block /\ (~Behind(b) \/ b \in missed')
<1>1. TypeOK /\ TaskInv
  BY DEF IInv
<1>2. now \in Nat /\ db \in DB /\ puts \subseteq Ref /\ db.block \subseteq Ref
  BY <1>1, ScraperAssumption DEF TypeOK, ScraperTypeOK, DB
<1>3. CASE PutCommit
  BY <1>3 DEF PutCommit
<1>4. CASE OtherEvict
  <2>1. PICK c \in db.block : db' = EvictTxn(db, c, now) /\ missed' = missed \ {c}
    BY <1>4 DEF OtherEvict
  <2>2. c \in Ref
    BY <1>2
  <2>3. db'.block \subseteq db.block
    BY <1>2, <2>1, <2>2, EvictShrinks
  <2>4. c \notin db'.block
    BY <1>2, <2>1 DEF EvictTxn
  <2> QED
    BY <2>1, <2>3, <2>4
<1>5. ASSUME ~PutCommit, ~OtherEvict PROVE db' = db /\ missed' = missed
  <2>1. ASSUME NEW id \in ID, NEW wf \in WF, NEW tag \in Tag,
               OtherPut(id, wf, tag) \/ Send(id, wf, tag) \/ SendChannel(id, wf, tag)
        PROVE  db' = db /\ missed' = missed
    BY <2>1 DEF OtherPut, Send, SendChannel, Call, PutCall, saved
  <2>2. ASSUME NEW wf \in WF, NEW tag \in Tag, BoostPut(wf, tag)
        PROVE  db' = db /\ missed' = missed
    BY <2>2 DEF BoostPut, PutCall, saved
  <2>3. CASE Tick \/ SendReply \/ SendChannelReply \/ (\E i \in ID : BoostGet(i))
             \/ BoostTarget \/ BoostReply \/ MineFails \/ PutFails
    BY <2>3 DEF Tick, SendReply, SendChannelReply, BoostGet, BoostTarget,
                BoostReply, MineFails, PutFails, scraperVars, store, saved
  <2>4. CASE UNCHANGED vars
    BY <2>4 DEF vars, scraperVars, store, saved
  <2> QED
    BY <1>5, <2>1, <2>2, <2>3, <2>4 DEF Next
<1> QED
  BY <1>3, <1>4, <1>5

\* A listed page leaves every block that was ahead of the scan ahead of it.
LEMMA ListAhead ==
  ASSUME IInv, ListPage, NEW b \in db.block, since <= b.createdAt, Ahead(b)
  PROVE  Ahead(b)'
<1>1. /\ db \in DB /\ Keyed(db.trav) /\ KeysUnique(db.trav) /\ IsFiniteSet(db.trav) /\ b \in db.trav
      /\ PageSize \in Nat \ {0} /\ b \in Ref
  BY ScraperAssumption
     DEF IInv, TypeOK, ScraperTypeOK, StoreInv, Consistent, Keyed, KeysUnique, DB, Ref
<1>2. /\ page' = Page(db, cursor, PageSize, 0, since)
      /\ cursor' = NextCursor(page', PageSize)
      /\ pc = "list" /\ pc' = "page"
      /\ messages' = messages /\ gifts' = gifts /\ missed' = missed
  BY DEF ListPage, saved
<1>3. CASE Read(b.id) \/ b \in missed
  BY <1>2, <1>3 DEF Ahead, Read
<1>4. CASE Listing(b)
  <2>1. KeyLess(cursor, b)
    BY <1>4 DEF Listing
  <2>2. b \in Listable(db, cursor, 0, since)
    <3>1. b.wf >= 0 /\ b.createdAt >= since
      BY <1>1, TTLAssumption DEF Ref, WF, IInv, TypeOK, ScraperTypeOK
    <3> QED
      BY <1>1, <2>1, <3>1 DEF Listable
  <2>3. \A e \in Listable(db, cursor, 0, since) \ Page(db, cursor, PageSize, 0, since) :
          LET next == NextCursor(Page(db, cursor, PageSize, 0, since), PageSize)
          IN  next # NoCursor /\ KeyLess(next, e)
    BY <1>1, PageComplete
  <2>4. b \in page' \/ (cursor' # NoCursor /\ KeyLess(cursor', b))
    BY <1>2, <2>2, <2>3
  <2> QED
    BY <1>2, <2>4 DEF Ahead, Listing, KeyLess
<1> QED
  BY <1>2, <1>3, <1>4 DEF Ahead

\* So does reading one block: a block that leaves the page is read or missed.
LEMMA ReadAhead ==
  ASSUME IInv, ReadBlock, NEW b \in db.block, Ahead(b)
  PROVE  Ahead(b)'
<1>1. PICK e \in page, got \in BOOLEAN :
        /\ page' = page \ {e}
        /\ gifts' = IF got /\ e.id \in Gift THEN gifts \cup {e.id} ELSE gifts
        /\ messages' = IF got /\ e.id \in Mine \ Gift
                       THEN SaveMessage(e.id, FALSE) ELSE messages
        /\ missed' = IF got \/ e \notin db.block \/ Read(e.id) THEN missed
                     ELSE missed \cup {e}
  BY DEF ReadBlock
<1>2. TypeOK /\ e.id \in ID
  BY DEF IInv, TypeOK, ScraperTypeOK, Ref
<1>3. messages \subseteq messages' /\ gifts \subseteq gifts' /\ missed \subseteq missed'
  BY <1>2, ReadAdds
<1>4. pc = "page" /\ pc' = pc /\ cursor' = cursor
  BY DEF ReadBlock
<1>5. CASE Read(b.id)
  BY <1>3, <1>5, ReadStays DEF Ahead, Read
<1>6. CASE e = b /\ ~Read(b.id)
  <2>1. CASE ~got
    BY <1>1, <1>6, <2>1 DEF Ahead
  <2>2. CASE got /\ b.id \in Gift
    BY <1>1, <1>6, <2>2 DEF Ahead, Read
  <2>3. CASE got /\ b.id \notin Gift
    <3>1. b.id \in Mine
      BY <1>6 DEF Read
    <3>2. messages' = SaveMessage(b.id, FALSE)
      BY <1>1, <1>6, <2>3, <3>1
    <3>3. \E m \in messages' : m.id = b.id
      BY <1>2, <1>6, <3>2, SaveAdds
    <3> QED
      BY <2>3, <3>3 DEF Ahead, Read
  <2> QED
    BY <2>1, <2>2, <2>3
<1>7. CASE ~Read(b.id) /\ e # b
  BY <1>1, <1>3, <1>4, <1>7 DEF Ahead, Listing, KeyLess
<1> QED
  BY <1>5, <1>6, <1>7

\* A scrape that begins has everything ahead of it.
LEMMA BeginAhead ==
  ASSUME IInv, NEW c, Begin(c), NEW b \in db.block
  PROVE  Ahead(b)'
<1>1. b.createdAt \in Nat /\ b.id \in Nat \ {0}
  BY IDAssumption DEF IInv, TypeOK, ScraperTypeOK, DB, Ref
<1>2. pc' = "list" /\ cursor' = NoCursor
  BY DEF Begin
<1> QED
  BY <1>1, <1>2 DEF Ahead, Listing, KeyLess, NoCursor

\* A scan goes past no block of the time it covers in silence: a block stays on
\* a page or ahead until it is read, missed or evicted, and a block that enters
\* the store meanwhile is ahead, younger than the scan, or marked.
LEMMA ScanInvNext ==
  ASSUME IInv, ScanInv, [Next]_vars
  PROVE  ScanInv'
<1>1. TypeOK /\ TaskInv /\ StoreInv
  BY DEF IInv
<1>2. /\ now \in Nat /\ now' \in Nat /\ now <= now' /\ checkpoint \in Nat
      /\ scanStart \in Nat /\ scanStart <= now /\ since \in Nat
      /\ messages \subseteq messages' /\ gifts \subseteq gifts'
      /\ db.block \subseteq Ref /\ db'.block \subseteq Ref
  BY <1>1, StoreNext, ScanNext, ScraperAssumption
     DEF TypeOK, ScraperTypeOK, TaskInv, DB
<1>3. CASE ~ScrapeStep
  <2>1. UNCHANGED <<checkpoint, gifts, window, pc, since, scanStart, cursor, page>>
    BY <1>3, ScanFrame DEF scan
  <2>2. ASSUME NEW b \in db'.block, pc' # "idle",
               since' <= b.createdAt, b.createdAt < scanStart'
        PROVE  Ahead(b)'
    <3>1. ASSUME Read(b.id) PROVE Ahead(b)'
      BY <1>2, <3>1, ReadStays DEF Ahead, Read
    <3>2. ASSUME Listing(b) PROVE Ahead(b)'
      BY <2>1, <3>2 DEF Ahead, Listing, KeyLess
    <3>3. CASE b \in db.block
      <4>1. Ahead(b)
        BY <2>1, <2>2, <3>3 DEF ScanInv
      <4>2. b \in missed => b \in missed'
        BY <1>3, <2>2, <3>3, Arrivals
      <4> QED
        BY <2>1, <3>1, <3>2, <4>1, <4>2 DEF Ahead
    <3>4. CASE b \notin db.block
      <4>1. ~Behind(b) \/ b \in missed'
        BY <1>3, <2>2, <3>4, Arrivals
      <4>2. b.createdAt < scanStart
        BY <2>1, <2>2
      <4> QED
        BY <3>1, <3>2, <4>1, <4>2 DEF Ahead, Behind
    <3> QED
      BY <3>3, <3>4
  <2> QED
    BY <1>2, <2>1, <2>2 DEF ScanInv
<1>4. CASE ScrapeStep
  <2>1. db' = db /\ now' = now
    BY <1>4 DEF ScrapeStep, Scrape, FirstScrape, FullScrape, Begin, ListPage, ReadBlock,
                NextPage, Finish, Abort, store
  <2>2. ASSUME NEW c \in 0..now, Begin(c) PROVE ScanInv'
    <3>1. checkpoint' = c /\ since' = c
      BY <2>2 DEF Begin
    <3>2. \A b \in db'.block : Ahead(b)'
      BY <2>1, <2>2, BeginAhead
    <3> QED
      BY <1>2, <2>1, <3>1, <3>2 DEF ScanInv
  <2>3. ASSUME Scrape \/ \E n \in 0..now : FirstScrape(n) \/ FullScrape(n)
        PROVE  ScanInv'
    <3>1. checkpoint \in 0..now
      BY <1>2 DEF ScanInv
    <3> QED
      BY <2>2, <2>3, <3>1 DEF Scrape, FirstScrape, FullScrape
  <2>4. ASSUME ListPage \/ ReadBlock PROVE ScanInv'
    <3>1. UNCHANGED <<checkpoint, since, scanStart>> /\ pc # "idle"
      BY <2>4 DEF ListPage, ReadBlock, saved
    <3>2. ASSUME NEW b \in db'.block,
                 since' <= b.createdAt, b.createdAt < scanStart'
          PROVE  Ahead(b)'
      <4>1. b \in db.block /\ Ahead(b) /\ since <= b.createdAt
        BY <2>1, <3>1, <3>2 DEF ScanInv
      <4> QED
        BY <2>4, <3>2, <4>1, ListAhead, ReadAhead
    <3> QED
      BY <2>1, <3>1, <3>2 DEF ScanInv
  <2>5. CASE NextPage
    <3>1. /\ UNCHANGED <<checkpoint, since, scanStart, cursor, page, messages, gifts, missed>>
          /\ pc = "page" /\ page = {} /\ pc' = "list"
      BY <2>5 DEF NextPage, saved
    <3>2. ASSUME NEW b \in db.block, Ahead(b) PROVE Ahead(b)'
      BY <3>1, <3>2 DEF Ahead, Read, Listing, KeyLess
    <3> QED
      BY <2>1, <3>1, <3>2 DEF ScanInv
  <2>6. CASE Finish
    BY <1>2, <2>1, <2>6 DEF Finish, ScanInv
  <2>7. CASE Abort
    BY <1>2, <2>1, <2>7 DEF Abort, ScanInv, saved
  <2> QED
    BY <1>4, <2>3, <2>4, <2>5, <2>6, <2>7 DEF ScrapeStep
<1> QED
  BY <1>3, <1>4

\* The checkpoint passes a block only when a scan has read it or marked it.
LEMMA BehindNext ==
  ASSUME IInv, ScanInv, NothingBehindCheckpoint, [Next]_vars
  PROVE  NothingBehindCheckpoint'
<1>1. TypeOK /\ TaskInv /\ StoreInv
  BY DEF IInv
<1>2. /\ now \in Nat /\ checkpoint \in Nat /\ checkpoint <= now /\ window \in Nat
      /\ messages \subseteq messages' /\ gifts \subseteq gifts'
      /\ \A b \in db.block : b.createdAt \in Nat
  BY <1>1, ScanNext, ScraperAssumption
     DEF TypeOK, ScraperTypeOK, ScanInv, DB, Ref
<1>3. ASSUME NEW b \in db.block, window <= b.createdAt, b.createdAt < checkpoint,
             b \in missed => b \in missed'
      PROVE  Read(b.id)' \/ b \in missed'
  <2>1. Read(b.id) \/ b \in missed
    BY <1>3 DEF NothingBehindCheckpoint
  <2> QED
    BY <1>2, <1>3, <2>1, ReadStays
<1> SUFFICES ASSUME NEW b \in db'.block, window' <= b.createdAt, b.createdAt < checkpoint'
             PROVE  Read(b.id)' \/ b \in missed'
  BY DEF NothingBehindCheckpoint, Read
<1>4. CASE ~ScrapeStep
  <2>1. checkpoint' = checkpoint /\ window' = window
    BY <1>4, ScanFrame
  <2>2. CASE b \in db.block
    <3>1. b \in missed => b \in missed'
      BY <1>4, <2>2, Arrivals
    <3> QED
      BY <1>3, <2>1, <2>2, <3>1
  <2>3. CASE b \notin db.block
    <3>1. ~Behind(b) \/ b \in missed'
      BY <1>4, <2>3, Arrivals
    <3>2. Behind(b) \/ Read(b.id)
      BY <2>1 DEF Behind
    <3> QED
      BY <1>2, <3>1, <3>2, ReadStays
  <2> QED
    BY <2>2, <2>3
<1>5. CASE ScrapeStep
  <2>1. b \in db.block
    BY <1>5 DEF ScrapeStep, Scrape, FirstScrape, FullScrape, Begin, ListPage, ReadBlock,
                NextPage, Finish, Abort, store
  <2>2. b \in missed => b \in missed'
    <3>1. ASSUME ListPage \/ NextPage \/ Finish \/ Abort PROVE missed' = missed
      BY <3>1 DEF ListPage, NextPage, Finish, Abort, saved
    <3>2. ReadBlock => missed \subseteq missed'
      BY <1>1, ReadAdds
    <3>3. ASSUME NEW c, Begin(c), b \in missed PROVE b \in missed'
      BY <3>3 DEF Begin
    <3>4. ASSUME Scrape \/ \E n \in 0..now : FirstScrape(n) \/ FullScrape(n)
          PROVE  \E c \in Nat : Begin(c)
      BY <1>2, <3>4 DEF Scrape, FirstScrape, FullScrape
    <3> QED
      BY <1>5, <3>1, <3>2, <3>3, <3>4 DEF ScrapeStep
  <2>3. CASE checkpoint' = checkpoint /\ window' = window
    BY <1>3, <2>1, <2>2, <2>3
  <2>4. ASSUME NEW n \in 0..now, FirstScrape(n) PROVE FALSE
    BY <1>2, <2>1, <2>4 DEF FirstScrape, Begin
  <2>5. ASSUME NEW n \in 0..now, FullScrape(n) PROVE Read(b.id)' \/ b \in missed'
    <3>1. checkpoint' = n /\ window' = IF n > checkpoint \/ n < window THEN n ELSE window
      BY <2>5 DEF FullScrape, Begin
    <3>2. window' = window /\ n <= checkpoint
      BY <1>2, <2>1, <3>1
    <3>3. b.createdAt < checkpoint
      BY <1>2, <2>1, <3>1, <3>2
    <3> QED
      BY <1>3, <2>1, <2>2, <3>2, <3>3
  <2>6. CASE Finish
    <3>1. /\ checkpoint' = scanStart /\ window' = window /\ pc = "page" /\ page = {}
          /\ cursor = NoCursor /\ messages' = messages /\ gifts' = gifts
      BY <2>6 DEF Finish
    <3>2. CASE b.createdAt < since
      BY <1>3, <2>1, <2>2, <3>1, <3>2 DEF ScanInv
    <3>3. CASE since <= b.createdAt
      <4>1. Ahead(b)
        BY <2>1, <3>1, <3>3 DEF ScanInv
      <4>2. Read(b.id) \/ b \in missed
        BY <3>1, <4>1 DEF Ahead, Listing
      <4> QED
        BY <1>2, <2>2, <4>2, ReadStays
    <3>4. since \in Nat
      BY <1>1 DEF TypeOK, ScraperTypeOK
    <3> QED
      BY <1>2, <2>1, <3>2, <3>3, <3>4
  <2>7. ASSUME Scrape \/ ListPage \/ ReadBlock \/ NextPage \/ Abort
        PROVE  checkpoint' = checkpoint /\ window' = window
    BY <2>7 DEF Scrape, Begin, ListPage, ReadBlock, NextPage, Abort, saved
  <2> QED
    BY <1>5, <2>3, <2>4, <2>5, <2>6, <2>7 DEF ScrapeStep
<1> QED
  BY <1>4, <1>5

\* No message falls behind the checkpoint unseen but the copies whose Get failed
\* and those that a slow Put committed behind the scrapes: for any page size,
\* any delay between a Put's clock reading and its transaction, and any mixture
\* of puts, boosts, evictions, cancelled and full scrapes.
THEOREM CheckpointSafe == Spec => []NothingBehindCheckpoint
<1> DEFINE CInv == IInv /\ ScanInv /\ NothingBehindCheckpoint
<1>1. Init => CInv
  <2> SUFFICES ASSUME Init PROVE CInv
    OBVIOUS
  <2>1. IInv
    BY IInvInit
  <2>2. ScanInv /\ NothingBehindCheckpoint
    BY DEF Init, ScraperInit, EmptyDB, ScanInv, NothingBehindCheckpoint
  <2> QED
    BY <2>1, <2>2
<1>2. CInv /\ [Next]_vars => CInv'
  <2> SUFFICES ASSUME CInv, [Next]_vars PROVE CInv'
    OBVIOUS
  <2>1. IInv'
    BY IInvNext
  <2>2. ScanInv'
    BY ScanInvNext
  <2>3. NothingBehindCheckpoint'
    BY BehindNext
  <2> QED
    BY <2>1, <2>2, <2>3
<1>3. CInv => NothingBehindCheckpoint
  OBVIOUS
<1> HIDE DEF CInv
<1> QED
  BY <1>1, <1>2, <1>3, PTL DEF Spec
=============================================================================
