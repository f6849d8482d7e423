----------------------------- MODULE Bluetooth ------------------------------
(***************************************************************************)
(* A Bluetooth block-exchange session (transport/bluetooth/session.go), as *)
(* RunBluetoothSession of the mobile engine runs it at both ends.  Each end*)
(* has a sender and a receiver goroutine: the receiver hands the peer's    *)
(* filter to the sender through a channel, the sender streams what the     *)
(* filter does not show.  The link holds a bounded number of frames and may*)
(* break; the ends may be closed, and reading, writing or listing their    *)
(* stores may fail.  Both stores have other users, tombstones and a limit  *)
(* at which Put evicts.                                                    *)
(***************************************************************************)
EXTENDS BlockTxn, Bloom, Sequences

CONSTANTS Side,      \* the two ends
          Holdings,  \* what the store of an end may be when the session begins
          Workloads, \* of a behaviour: the ids that users put while the session
                     \* runs, and what may go wrong
          PageSize,  \* page of runSend
          Cap        \* frames the link holds in one direction

\* The second in which the session takes place.
Now == 2

Trouble == {"link", "filter", "list", "get", "put", "evict", "close"}

ASSUME SessionAssumption ==
  /\ \E a, b \in Side : a # b /\ Side = {a, b}
  /\ Workloads \subseteq [puts : SUBSET ID, trouble : SUBSET Trouble] /\ Tag # {}
  /\ \A d \in Holdings :
       /\ d \in DB /\ d.trav = d.block /\ IsFiniteSet(d.block)
       /\ \A b, c \in d.block : b.id = c.id => b = c
       /\ \A b \in d.block : b.createdAt <= Now /\ ~Tombstoned(d, b.id, Now)
  /\ PageSize \in Nat \ {0} /\ Cap \in Nat \ {0}

VARIABLES
  work,       \* the workload
  db,         \* per end: its store
  open,       \* whether the link is up
  wire,       \* per end: frames it has written and the other has not read
  channel,    \* per end: peerBloomCh, {} or {the filter}
  delivered,  \* ends whose receiver has put a filter into the channel
  shut,       \* ends whose receiver has closed the channel
  filter,     \* per end: the filter its sender works with
  snd, rcv,   \* per end: where the two goroutines are
  cursor, page,
  failed,     \* ends whose runSend or runRecv has returned an error
  main,       \* per end: "run", "peers" (exchangePeers), "returned"
  told, heard,  \* ends that have written, read their peers frame
  closed,     \* ends whose engine is being closed
  cut,        \* ends whose sender goes to DONE with blocks left
  first,      \* history: what each end held when the session began
  gone,       \* history: per end, ids that it has evicted in the session
  lost        \* history: per end, ids that did not reach it: the other end
              \* could not read the block, the end's own filter showed it, or
              \* its Put failed or was refused

link == <<open, wire>>
chans == <<channel, delivered, shut>>
sender == <<filter, snd, cursor, page>>
outer == <<main, told, heard>>
hist == <<first, gone, lost>>
vars == <<work, db, link, chans, sender, rcv, failed, outer, closed, cut, hist>>

Other(s) == CHOOSE o \in Side : o # s

\* The filters there can be, and the frames.
Filter == SUBSET UNION {Bits(i, w) : i \in ID, w \in WF}

Frame == [type : {"bloom"}, bits : Filter]
           \cup [type : {"block"}, id : ID, wf : WF]
           \cup [type : {"done", "peers"}]

TypeOK ==
  /\ work \in Workloads /\ db \in [Side -> DB] /\ open \in BOOLEAN
  /\ wire \in [Side -> Seq(Frame)] /\ \A s \in Side : Len(wire[s]) <= Cap
  /\ channel \in [Side -> SUBSET Filter] /\ filter \in [Side -> Filter]
  /\ \A s \in Side : \A b, c \in channel[s] : b = c
  /\ delivered \subseteq Side /\ shut \subseteq Side /\ delivered \cap shut = {}
  /\ snd \in [Side -> {"bloom", "wait", "cancel", "list", "page", "done", "end"}]
  /\ rcv \in [Side -> {"read", "end"}]
  /\ cursor \in [Side -> [createdAt : Nat, id : Nat]]
  /\ page \in [Side -> SUBSET Ref]
  /\ failed \subseteq Side /\ told \subseteq Side /\ heard \subseteq Side
  /\ main \in [Side -> {"run", "peers", "returned"}]
  /\ closed \subseteq Side /\ cut \subseteq Side /\ first \in [Side -> SUBSET Ref]
  /\ gone \in [Side -> SUBSET ID] /\ lost \in [Side -> SUBSET ID]

Init ==
  /\ work \in Workloads /\ db \in [Side -> Holdings]
  /\ first = [s \in Side |-> db[s].block]
  /\ gone = [s \in Side |-> {}] /\ lost = [s \in Side |-> {}]
  /\ open = TRUE /\ wire = [s \in Side |-> <<>>]
  /\ channel = [s \in Side |-> {}] /\ delivered = {} /\ shut = {}
  /\ filter = [s \in Side |-> {}]
  /\ snd = [s \in Side |-> "bloom"] /\ rcv = [s \in Side |-> "read"]
  /\ cursor = [s \in Side |-> NoCursor] /\ page = [s \in Side |-> {}]
  /\ failed = {} /\ closed = {} /\ cut = {}
  /\ main = [s \in Side |-> "run"] /\ told = {} /\ heard = {}

\* A block put into the store of s while the session runs.
Put(s, id, wf) ==
  PutTxn(db[s], [id |-> id, createdAt |-> Now, wf |-> wf,
                 tag |-> CHOOSE t \in Tag : TRUE], Now)

\* The end s holds the block with at least that work.
Has(s, id, wf) == \E c \in db[s].block : c.id = id /\ c.wf >= wf
-----------------------------------------------------------------------------
(* Frames.                                                                 *)

\* writeFrame succeeds: the link takes the frame.
Write(s, f) ==
  /\ open /\ Len(wire[s]) < Cap
  /\ wire' = [wire EXCEPT ![s] = Append(@, f)]
  /\ UNCHANGED open

\* The sender of s ends, without an error or with one.
SendEnds(s) == snd' = [snd EXCEPT ![s] = "end"]
SendFails(s) == SendEnds(s) /\ failed' = failed \cup {s}

\* readFrame succeeds with frame f.
Read(s, f) ==
  /\ wire[Other(s)] # <<>> /\ f = Head(wire[Other(s)])
  /\ wire' = [wire EXCEPT ![Other(s)] = Tail(@)]
  /\ UNCHANGED open

\* readFrame fails: the link is down and nothing is left to read.
ReadFails(s) == ~open /\ wire[Other(s)] = <<>>
-----------------------------------------------------------------------------
(* runSend.                                                                *)

SendBloom(s) ==
  /\ snd[s] = "bloom"
  /\ \/ /\ Write(s, [type |-> "bloom", bits |-> BloomOf(db[s].trav)])
        /\ snd' = [snd EXCEPT ![s] = "wait"]
        /\ UNCHANGED failed
     \/ ~open /\ SendFails(s) /\ UNCHANGED link
  /\ UNCHANGED <<work, db, chans, filter, cursor, page, rcv, outer, closed, cut, hist>>

\* BloomOfStore fails: the sender returns before it has written anything.
FilterFails(s) ==
  /\ "filter" \in work.trouble /\ snd[s] = "bloom"
  /\ SendFails(s)
  /\ UNCHANGED <<work, db, link, chans, filter, cursor, page, rcv, outer, closed, cut, hist>>

\* The peer's filter arrives through the channel, or the channel was closed.
TakeBloom(s) ==
  /\ snd[s] = "wait"
  /\ \/ /\ channel[s] # {}
        /\ filter' = [filter EXCEPT ![s] = UNION channel[s]]
        /\ channel' = [channel EXCEPT ![s] = {}]
        /\ snd' = [snd EXCEPT ![s] = "list"]
     \/ channel[s] = {} /\ s \in shut /\ SendEnds(s) /\ UNCHANGED <<filter, channel>>
  /\ UNCHANGED <<work, db, link, delivered, shut, cursor, page, rcv, failed, outer,
                 closed, cut, hist>>

\* The engine is closed while the sender waits: it writes DONE and gives up.
Cancelled(s) ==
  /\ snd[s] = "wait" /\ s \in closed
  /\ snd' = [snd EXCEPT ![s] = "cancel"]
  /\ cut' = cut \cup {s}
  /\ UNCHANGED <<work, db, link, chans, filter, cursor, page, rcv, failed, outer,
                 closed, hist>>

CancelDone(s) ==
  /\ snd[s] = "cancel"
  /\ Write(s, [type |-> "done"]) \/ (~open /\ UNCHANGED link)
  /\ SendFails(s)
  /\ UNCHANGED <<work, db, chans, filter, cursor, page, rcv, outer, closed, cut, hist>>

\* The next page of the local index, unless the engine is closed.
ListPage(s) ==
  /\ snd[s] = "list"
  /\ IF s \in closed
     THEN /\ snd' = [snd EXCEPT ![s] = "done"] /\ cut' = cut \cup {s}
          /\ UNCHANGED <<page, cursor>>
     ELSE LET refs == Page(db[s], cursor[s], PageSize, 0, 0)
          IN  /\ page' = [page EXCEPT ![s] = refs]
              /\ cursor' = [cursor EXCEPT ![s] = NextCursor(refs, PageSize)]
              /\ snd' = [snd EXCEPT ![s] = "page"]
              /\ UNCHANGED cut
  /\ UNCHANGED <<work, db, link, chans, filter, rcv, failed, outer, closed, hist>>

\* ListBlocks fails: what is left is not sent, and DONE is all the same.
ListFails(s) ==
  /\ "list" \in work.trouble /\ snd[s] = "list"
  /\ snd' = [snd EXCEPT ![s] = "done"] /\ cut' = cut \cup {s}
  /\ UNCHANGED <<work, db, link, chans, filter, cursor, page, rcv, failed, outer,
                 closed, hist>>

\* One reference of the page: its block is sent unless the filter shows it.
SendBlock(s) ==
  /\ snd[s] = "page"
  /\ \E e \in page[s] :
       /\ \A f \in page[s] : ~KeyLess(f, e)
       /\ page' = [page EXCEPT ![s] = @ \ {e}]
       /\ \/ /\ BloomHas(filter[s], e.id, e.wf)
             /\ lost' = IF Has(Other(s), e.id, e.wf) THEN lost
                        ELSE [lost EXCEPT ![Other(s)] = @ \cup {e.id}]
             /\ UNCHANGED <<link, snd, failed>>
          \/ /\ ~BloomHas(filter[s], e.id, e.wf)
             /\ \A b \in db[s].block : b.id # e.id
             /\ UNCHANGED <<link, snd, failed, lost>>
          \/ /\ ~BloomHas(filter[s], e.id, e.wf)
             /\ \E b \in db[s].block :
                  b.id = e.id /\ Write(s, [type |-> "block", id |-> b.id, wf |-> b.wf])
             /\ UNCHANGED <<snd, failed, lost>>
          \/ /\ ~BloomHas(filter[s], e.id, e.wf) /\ ~open
             /\ \E b \in db[s].block : b.id = e.id
             /\ SendFails(s) /\ UNCHANGED <<link, lost>>
  /\ UNCHANGED <<work, db, chans, filter, cursor, rcv, outer, closed, cut, first, gone>>

\* Get does not give the block: it is passed over.
GetFails(s) ==
  /\ snd[s] = "page" /\ ("get" \in work.trouble \/ s \in closed)
  /\ \E e \in page[s] :
       /\ \A f \in page[s] : ~KeyLess(f, e)
       /\ ~BloomHas(filter[s], e.id, e.wf)
       /\ page' = [page EXCEPT ![s] = @ \ {e}]
       /\ lost' = [lost EXCEPT ![Other(s)] = @ \cup {e.id}]
  /\ UNCHANGED <<work, db, link, chans, filter, snd, cursor, rcv, failed, outer, closed,
                 cut, first, gone>>

\* Mutant: runSend stops after its first page.
PageDoneFirst(s) ==
  /\ snd[s] = "page" /\ page[s] = {}
  /\ snd' = [snd EXCEPT ![s] = "done"]
  /\ UNCHANGED <<work, db, link, chans, filter, cursor, page, rcv, failed, outer,
                 closed, cut, hist>>

PageDone(s) ==
  /\ snd[s] = "page" /\ page[s] = {}
  /\ snd' = [snd EXCEPT ![s] = IF cursor[s] = NoCursor THEN "done" ELSE "list"]
  /\ UNCHANGED <<work, db, link, chans, filter, cursor, page, rcv, failed, outer,
                 closed, cut, hist>>

SendDone(s) ==
  /\ snd[s] = "done"
  /\ \/ Write(s, [type |-> "done"]) /\ SendEnds(s) /\ UNCHANGED failed
     \/ ~open /\ SendFails(s) /\ UNCHANGED link
  /\ UNCHANGED <<work, db, chans, filter, cursor, page, rcv, outer, closed, cut, hist>>
-----------------------------------------------------------------------------
(* runRecv.                                                                *)

\* A frame.  The error of Put is dropped, and a Put that a tombstone refuses has
\* none.
Recv(s) ==
  /\ rcv[s] = "read"
  /\ \E f \in {wire[Other(s)][i] : i \in 1..Len(wire[Other(s)])} :
       /\ Read(s, f)
       /\ \/ /\ f.type = "bloom"
             /\ channel' = [channel EXCEPT ![s] = {f.bits}]
             /\ delivered' = delivered \cup {s}
             /\ UNCHANGED <<db, rcv, lost>>
          \/ /\ f.type = "block"
             /\ \/ db' = [db EXCEPT ![s] = Put(s, f.id, f.wf)]
                \/ ("put" \in work.trouble \/ s \in closed) /\ UNCHANGED db
             /\ lost' = IF Has(s, f.id, f.wf)' THEN lost
                        ELSE [lost EXCEPT ![s] = @ \cup {f.id}]
             /\ UNCHANGED <<channel, delivered, rcv>>
          \/ /\ f.type = "done"
             /\ rcv' = [rcv EXCEPT ![s] = "end"]
             /\ UNCHANGED <<db, channel, delivered, lost>>
  /\ UNCHANGED <<work, shut, sender, failed, outer, closed, cut, first, gone>>

\* Mutant: the channel is never closed.
RecvFailsOpen(s) ==
  /\ rcv[s] = "read" /\ ReadFails(s)
  /\ rcv' = [rcv EXCEPT ![s] = "end"]
  /\ failed' = failed \cup {s}
  /\ UNCHANGED <<work, db, link, chans, sender, outer, closed, cut, hist>>

\* Mutant: the channel is closed whatever has gone through it.
RecvFailsCloses(s) ==
  /\ rcv[s] = "read" /\ ReadFails(s)
  /\ rcv' = [rcv EXCEPT ![s] = "end"]
  /\ failed' = failed \cup {s}
  /\ shut' = shut \cup {s}
  /\ UNCHANGED <<work, db, link, channel, delivered, sender, outer, closed, cut, hist>>

\* A read error ends the receiver; it closes the channel when no filter has
\* gone through it.
RecvFails(s) ==
  /\ rcv[s] = "read" /\ ReadFails(s)
  /\ rcv' = [rcv EXCEPT ![s] = "end"]
  /\ failed' = failed \cup {s}
  /\ shut' = IF s \in delivered THEN shut ELSE shut \cup {s}
  /\ UNCHANGED <<work, db, link, channel, delivered, sender, outer, closed, cut, hist>>
-----------------------------------------------------------------------------
(* Run: both goroutines have ended.                                        *)

\* An error of either is returned, and RunBluetoothSession closes the link.
ReturnError(s) ==
  /\ main[s] = "run" /\ snd[s] = "end" /\ rcv[s] = "end" /\ s \in failed
  /\ main' = [main EXCEPT ![s] = "returned"]
  /\ open' = FALSE
  /\ UNCHANGED <<work, db, wire, chans, sender, rcv, failed, told, heard, closed, cut, hist>>

\* Otherwise exchangePeers writes and reads a peers frame, in parallel.
ExchangePeers(s) ==
  /\ main[s] = "run" /\ snd[s] = "end" /\ rcv[s] = "end" /\ s \notin failed
  /\ main' = [main EXCEPT ![s] = "peers"]
  /\ UNCHANGED <<work, db, link, chans, sender, rcv, failed, told, heard, closed, cut, hist>>

TellPeers(s) ==
  /\ main[s] = "peers" /\ s \notin told
  /\ Write(s, [type |-> "peers"]) \/ (~open /\ UNCHANGED link)
  /\ told' = told \cup {s}
  /\ UNCHANGED <<work, db, chans, sender, rcv, failed, main, heard, closed, cut, hist>>

HearPeers(s) ==
  /\ main[s] = "peers" /\ s \notin heard
  /\ Read(s, [type |-> "peers"]) \/ (ReadFails(s) /\ UNCHANGED link)
  /\ heard' = heard \cup {s}
  /\ UNCHANGED <<work, db, chans, sender, rcv, failed, main, told, closed, cut, hist>>

Return(s) ==
  /\ main[s] = "peers" /\ s \in told \cap heard
  /\ main' = [main EXCEPT ![s] = "returned"]
  /\ open' = FALSE
  /\ UNCHANGED <<work, db, wire, chans, sender, rcv, failed, told, heard, closed, cut, hist>>
-----------------------------------------------------------------------------
(* The environment.                                                        *)

UserPut(s, id, wf) ==
  /\ s \notin closed
  /\ db' = [db EXCEPT ![s] = Put(s, id, wf)]
  /\ UNCHANGED <<work, link, chans, sender, rcv, failed, outer, closed, cut, hist>>

\* A Put at the limit of the store evicts some block.
Evict(s) ==
  /\ "evict" \in work.trouble /\ s \notin closed
  /\ \E c \in db[s].block :
       /\ db' = [db EXCEPT ![s] = EvictTxn(@, c, Now)]
       /\ gone' = [gone EXCEPT ![s] = @ \cup {c.id}]
  /\ UNCHANGED <<work, link, chans, sender, rcv, failed, outer, closed, cut, first, lost>>

\* The connection is lost with everything in flight.
LinkBreaks ==
  /\ "link" \in work.trouble /\ open
  /\ open' = FALSE /\ wire' = [s \in Side |-> <<>>]
  /\ UNCHANGED <<work, db, chans, sender, rcv, failed, outer, closed, cut, hist>>

\* Engine.Close cancels the context of the session, and closes the store.
Close(s) ==
  /\ "close" \in work.trouble
  /\ closed' = closed \cup {s}
  /\ UNCHANGED <<work, db, link, chans, sender, rcv, failed, outer, cut, hist>>

Sender(s) ==
  \/ SendBloom(s) \/ FilterFails(s) \/ TakeBloom(s) \/ Cancelled(s) \/ CancelDone(s)
  \/ ListPage(s) \/ ListFails(s) \/ SendBlock(s) \/ GetFails(s)
  \/ PageDone(s) \/ SendDone(s)
Receiver(s) == Recv(s) \/ RecvFails(s)
Main(s) ==
  ReturnError(s) \/ ExchangePeers(s) \/ TellPeers(s) \/ HearPeers(s) \/ Return(s)

Returned == \A s \in Side : main[s] = "returned"

Next ==
  \/ \E s \in Side : Sender(s) \/ Receiver(s) \/ Main(s) \/ Evict(s) \/ Close(s)
  \/ \E s \in Side, id \in work.puts, wf \in WF : UserPut(s, id, wf)
  \/ LinkBreaks

Spec == Init /\ [][Next]_vars

\* Every goroutine that can go on does.
FairSpec ==
  Spec /\ \A s \in Side : WF_vars(Sender(s)) /\ WF_vars(Receiver(s)) /\ WF_vars(Main(s))
-----------------------------------------------------------------------------
\* DONE means that the "sender has no more blocks to send": an end whose receiver
\* ends without an error holds whatever the other end held when the session
\* began, with at least that work, although both stores change and blocks move
\* in the index while the pages are streamed.  The exceptions are known block by
\* block: an end has evicted it, reading it or storing it failed, a tombstone
\* refused it, or the filter showed what was not there.  Only an end whose engine
\* is closed, or that cannot list its store, writes DONE with blocks left.
DoneMeansAll ==
  \A s \in Side :
    rcv[s] = "end" /\ s \notin failed /\ Other(s) \notin cut =>
      \A b \in first[Other(s)] :
        Has(s, b.id, b.wf) \/ b.id \in lost[s] \cup gone[s] \cup gone[Other(s)]

\* An end "streams every block the peer is missing" and no other: no frame
\* carries a block that the receiving end has held since before the session
\* with as much work, even if it has just been received or boosted, unless
\* that end has evicted it.
OnlyMissingSent ==
  \A s \in Side : \A i \in 1..Len(wire[s]) :
    wire[s][i].type = "block" =>
      \/ wire[s][i].id \in gone[Other(s)]
      \/ ~ \E b \in first[Other(s)] : b.id = wire[s][i].id /\ b.wf >= wire[s][i].wf

\* Four goroutines over two bounded pipes, one waiting for the other: the
\* session ends at both ends, whenever the link breaks or an engine is closed,
\* unless the sender of an end has given up before it wrote its filter.
Starved ==
  open /\ \E s \in Side : snd[s] = "end" /\ Other(s) \notin delivered
SessionEnds == <>Returned \/ <>[]Starved
=============================================================================
