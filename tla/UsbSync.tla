------------------------------ MODULE UsbSync -------------------------------
(***************************************************************************)
(* A node carrying blocks on a removable volume: usbSyncLoop and           *)
(* syncStores (cmd/snk/main.go) between the node's Badger store and the    *)
(* flat files of the volume, with `snk mass-storage` as the other program  *)
(* that writes volumes.  A round copies everything from the volume into    *)
(* the store and then everything from the store to the volume, page by     *)
(* page, while other users change the store, single blocks and listings    *)
(* fail, and somebody pulls the volume out and takes it to another node.   *)
(***************************************************************************)
EXTENDS FlatFile

CONSTANTS Loop,         \* the program that runs usbSyncLoop
          LocalBlocks,  \* <<id, work>> that other users put into the store
          ToolBlocks,   \* per `snk mass-storage`: <<id, work>> of its source store
          Indexers,     \* bound: the programs that get as far as the index
          VisitBlocks,  \* <<id, work>> that other nodes put on the volume
          PageSize      \* page of syncStores

ASSUME UsbAssumption ==
  /\ Loop \in Proc /\ Indexers \subseteq Proc /\ LimitOf[Loop] = 0 /\ PageSize \in Nat \ {0}
  /\ LocalBlocks \cup VisitBlocks \subseteq ID \X WF
  /\ ToolBlocks \in [Proc -> SUBSET (ID \X WF)]
  /\ Tag # {}

VARIABLES
  db,            \* the store of the node
  half,          \* where the loop is: its half of a round, listing or copying
  cursor, page,  \* its place in the source store
  owed,          \* history: what this half has to copy
  job            \* per `snk mass-storage`: whether it copies, and what is left

loop == <<half, cursor, page, owed>>
vars == <<flatVars, db, loop, job>>

Owed == [id : ID, wf : WF]

\* A running `snk mass-storage`: the blocks it has still to look at, and the one
\* it is about to put on the volume.
Job == [on : BOOLEAN, refs : SUBSET (ID \X WF), next : SUBSET (ID \X WF)]
NoJob == [on |-> FALSE, refs |-> {}, next |-> {}]

TypeOK ==
  /\ FlatTypeOK
  /\ db \in DB
  /\ half \in {"idle", "pull-list", "pull", "push-list", "push"}
  /\ cursor \in [createdAt : Nat, id : Nat]
  /\ page \subseteq Ref \cup File
  /\ owed \subseteq Owed
  /\ job \in [Proc -> Job]

Init ==
  /\ FlatInit
  /\ db = EmptyDB
  /\ half = "idle" /\ cursor = NoCursor /\ page = {} /\ owed = {}
  /\ job = [p \in Proc |-> NoJob]

Works(S) == {[id |-> b.id, wf |-> b.wf] : b \in S}
-----------------------------------------------------------------------------
(* The store of the node, and the volume at other nodes.                   *)

LocalPut(id, wf) ==
  /\ Loop \in users
  /\ db' = PutTxn(db, [id |-> id, createdAt |-> now, wf |-> wf,
                       tag |-> CHOOSE t \in Tag : TRUE], now)
  /\ UNCHANGED <<flatVars, loop>>

LocalEvict ==
  /\ \E c \in db.block :
       /\ db' = EvictTxn(db, c, now)
       /\ owed' = {o \in owed : o.id # c.id}
  /\ UNCHANGED <<flatVars, half, cursor, page>>

\* Mutant: a block that is there already is not copied again.
SkippedIfThere(refWF, there) == there # {}

\* syncStores leaves a block alone that the destination holds with at least the
\* work of the listed reference.
Skipped(refWF, there) == \E d \in there : refWF <= d.wf

\* syncStores decides about a reference to id with the volume as destination:
\* it goes on when the header there cannot be read, also if Put would have
\* replaced that file.
Wanted(id, refWF) ==
  /\ At(files, id) = At(Readable(files), id)
  /\ ~Skipped(refWF, At(files, id))

\* Another node copies a block to the volume, in its own round.
Visit(id, wf) ==
  /\ ~present /\ Loop \in users /\ Wanted(id, wf)
  /\ files' = (files \ At(files, id))
                \cup {[id |-> id, createdAt |-> now, wf |-> wf, part |-> "all"]}
  /\ disk' = files'
  /\ UNCHANGED <<now, users, present, tmp, index, call, risked, db, loop>>
-----------------------------------------------------------------------------
(* usbSyncLoop.                                                            *)

\* A tick finds the marker file on the volume.
BeginRound ==
  /\ Loop \in users /\ half = "idle" /\ present
  /\ half' = "pull-list" /\ owed' = Works(Whole(files))
  /\ UNCHANGED <<flatVars, db, cursor, page>>

\* The next page of the volume; without the volume the walk fails or finds an
\* empty directory, and either ends the pull.
ListVolume ==
  /\ half = "pull-list"
  /\ page' = IF present THEN Page(Listing(files), cursor, PageSize, 0, 0) ELSE {}
  /\ cursor' = NextCursor(page', PageSize)
  /\ half' = "pull"
  /\ UNCHANGED <<flatVars, db, owed>>

\* The reference that syncStores looks at next.
Head(e) == e \in page /\ \A f \in page : ~KeyLess(f, e)

\* One file of the volume: read whole or skipped, and put into the store; what
\* the store refuses because it has evicted the block is not owed.
PullRef ==
  /\ half = "pull"
  /\ \E e \in page :
       /\ Head(e)
       /\ page' = page \ {e}
       /\ LET there == {b \in db.block : b.id = e.id}
              src   == IF present THEN At(Whole(files), e.id) ELSE {}
          IN  db' = IF src = {} \/ Skipped(e.wf, there) THEN db
                    ELSE LET f == CHOOSE g \in src : TRUE
                         IN  PutTxn(db, [id |-> e.id, createdAt |-> now, wf |-> f.wf,
                                         tag |-> CHOOSE t \in Tag : TRUE], now)
       /\ owed' = {o \in owed : o.id = e.id => ~Tombstoned(db, e.id, now)}
  /\ UNCHANGED <<flatVars, half, cursor>>

\* The next page of the store.
ListStore ==
  /\ half = "push-list"
  /\ page' = Page(db, cursor, PageSize, 0, 0)
  /\ cursor' = NextCursor(page', PageSize)
  /\ half' = "push"
  /\ UNCHANGED <<flatVars, db, owed>>

\* One block of the store is put on the volume.
PushRef ==
  /\ half = "push" /\ present /\ In(Loop, "idle")
  /\ \E e \in page, b \in db.block :
       /\ Head(e) /\ b.id = e.id
       /\ Wanted(e.id, e.wf)
       /\ PutCall(Loop, b.id, b.wf)
       /\ page' = page \ {e}
  /\ UNCHANGED <<db, half, cursor, owed>>

\* The block is gone from the store, the volume does not want it, or there is
\* no volume: then what Put writes lands below the mount point of the host.
PushSkip ==
  /\ half = "push" /\ In(Loop, "idle")
  /\ \E e \in page :
       /\ Head(e)
       /\ \/ ~present
          \/ \A b \in db.block : b.id # e.id
          \/ ~Wanted(e.id, e.wf)
          \/ \E b \in db.block : b.id = e.id /\ Kept(files, b.id, b.wf)
       /\ page' = page \ {e}
  /\ UNCHANGED <<flatVars, db, half, cursor, owed>>

\* The page is done and was full.
NextPage ==
  /\ half \in {"pull", "push"} /\ page = {} /\ cursor # NoCursor /\ In(Loop, "idle")
  /\ half' = IF half = "pull" THEN "pull-list" ELSE "push-list"
  /\ UNCHANGED <<flatVars, db, cursor, page, owed>>

EndPull ==
  /\ half = "pull" /\ page = {} /\ cursor = NoCursor
  /\ half' = "push-list" /\ owed' = IF present THEN Works(db.block) ELSE {}
  /\ UNCHANGED <<flatVars, db, cursor, page>>

\* Mutant: the push ends after its first page.
EndPushEarly ==
  /\ half = "push" /\ page = {} /\ In(Loop, "idle")
  /\ half' = "idle" /\ owed' = {} /\ cursor' = NoCursor
  /\ UNCHANGED <<flatVars, db, page>>

EndPush ==
  /\ half = "push" /\ page = {} /\ cursor = NoCursor /\ In(Loop, "idle")
  /\ half' = "idle" /\ owed' = {}
  /\ UNCHANGED <<flatVars, db, cursor, page>>

\* The daemon is stopped and started again.
Restart ==
  /\ half # "idle"
  /\ half' = "idle" /\ cursor' = NoCursor /\ page' = {} /\ owed' = {}
  /\ call' = [call EXCEPT ![Loop] = NoCall]
  /\ tmp' = LeftBy(Loop)
  /\ UNCHANGED <<now, users, present, files, disk, index, risked, db>>

\* A Get from the source, a question to the destination, or a Put that does not
\* get to writing a file, as into the node's store, fails: syncStores counts the
\* error and goes on with the next block.
RefFails ==
  /\ half \in {"pull", "push"} /\ In(Loop, "idle")
  /\ \E e \in page :
       /\ Head(e)
       /\ page' = page \ {e}
       /\ owed' = {o \in owed : o.id # e.id}
  /\ UNCHANGED <<flatVars, db, half, cursor>>

\* A write to the volume fails: the same.
WriteFails ==
  /\ call[Loop].pc \in {"open", "fill", "rename"} /\ Abort(Loop)
  /\ owed' = {o \in owed : At(call[Loop].req, o.id) = {}}
  /\ UNCHANGED <<db, half, cursor, page>>

\* A listing fails, and syncStores returns: usbSyncLoop goes on with the push, or
\* with the next tick.
ListFails ==
  /\ half \in {"pull-list", "push-list"}
  /\ half' = IF half = "pull-list" THEN "push-list" ELSE "idle"
  /\ owed' = IF half = "pull-list" /\ present THEN Works(db.block) ELSE {}
  /\ cursor' = NoCursor
  /\ UNCHANGED <<flatVars, db, page>>

Trouble == RefFails \/ WriteFails \/ ListFails

\* Pulling the volume out ends what a round owes.
VolumeOut ==
  /\ Loop \in users /\ Unplug
  /\ owed' = {} /\ UNCHANGED <<db, half, cursor, page>>

LoopStep ==
  /\ \/ BeginRound \/ ListVolume \/ PullRef \/ EndPull
     \/ ListStore \/ PushRef \/ PushSkip \/ NextPage \/ EndPush
     \/ CallStep(Loop) /\ UNCHANGED <<db, loop>>
  /\ UNCHANGED job
-----------------------------------------------------------------------------
(* cmdMassStorage: syncStores from a store that nobody else has open, Badger *)
(* locks its directory, and then BuildIndex.                               *)

\* It has opened the volume and a store of its own with some blocks; -reindex
\* copies none.
ToolStart(p) ==
  /\ p \in users \ {Loop} /\ present /\ In(p, "idle") /\ ~job[p].on
  /\ \E S \in SUBSET ToolBlocks[p] :
       /\ \A b, c \in S : b[1] = c[1] => b = c
       /\ job' = [job EXCEPT ![p] = [NoJob EXCEPT !.on = TRUE, !.refs = S]]
  /\ UNCHANGED flatVars

\* It asks for the next block, which the volume wants or not; a Get or a Has that
\* fails is counted.  The order is that in which the store got the blocks: any.
ToolRef(p) ==
  /\ job[p].on /\ In(p, "idle") /\ job[p].next = {}
  /\ \E b \in job[p].refs :
       \/ /\ Wanted(b[1], b[2])
          /\ job' = [job EXCEPT ![p].refs = @ \ {b}, ![p].next = {b}]
       \/ job' = [job EXCEPT ![p].refs = @ \ {b}]
  /\ UNCHANGED flatVars

\* Put is called, and looks again; it keeps the file that is there by now, or fails.
ToolPut(p) ==
  /\ job[p].on
  /\ \E b \in job[p].next : PutCall(p, b[1], b[2]) \/ (In(p, "idle") /\ UNCHANGED flatVars)
  /\ job' = [job EXCEPT ![p].next = {}]

\* A write fails: syncStores counts the error and goes on.
ToolWriteFails(p) ==
  /\ job[p].on /\ call[p].pc \in {"open", "fill", "rename"} /\ Abort(p)
  /\ UNCHANGED job

\* All blocks are done, and the index is built.
ToolIndex(p) ==
  /\ p \in Indexers /\ job[p].on /\ job[p].refs = {} /\ job[p].next = {}
  /\ BuildIndex(p)
  /\ job' = [job EXCEPT ![p] = NoJob]

\* The program dies, or gives up because a listing or the index build fails.
ToolStops(p) ==
  /\ \/ Abort(p)
     \/ In(p, "idle") /\ job[p].on /\ UNCHANGED flatVars
  /\ job' = [job EXCEPT ![p] = NoJob]

ToolStep(p) ==
  /\ \/ ToolStart(p) \/ ToolRef(p) \/ ToolPut(p) \/ ToolWriteFails(p)
     \/ ToolIndex(p) \/ ToolStops(p)
     \/ CallStep(p) /\ UNCHANGED job
  /\ UNCHANGED <<db, loop>>
-----------------------------------------------------------------------------
\* What happens to the node: other users of its store, its loop and what can go
\* wrong there, and the volume's journeys.
NodeStep ==
  \/ \E b \in LocalBlocks : LocalPut(b[1], b[2])
  \/ LocalEvict
  \/ \E b \in VisitBlocks : Visit(b[1], b[2])
  \/ Restart \/ Trouble \/ VolumeOut

Environment == (Loop \in users /\ Flush) \/ Tick \/ Plug

Next ==
  \/ LoopStep
  \/ NodeStep /\ UNCHANGED job
  \/ \E p \in Proc \ {Loop} : ToolStep(p)
  \/ Environment /\ UNCHANGED <<db, loop, job>>

Spec == Init /\ [][Next]_vars

\* The ticker keeps starting rounds and a started round runs on; in the end the
\* volume stays plugged in, reads, writes and transactions succeed, and the daemon
\* is not restarted before a round is over.
FairSpec ==
  /\ Spec /\ WF_vars(LoopStep)
  /\ <>[]present /\ <>[][~Trouble]_vars /\ <>[][Restart => EndPush]_vars
-----------------------------------------------------------------------------
\* A round in which the volume stays plugged in copies everything but the blocks
\* whose own transfer fails: when the pull has come to the end of the listing the
\* store holds what the volume held, at the end of the push the volume holds what
\* the store held, with at least the same work, although other users boost blocks
\* behind and ahead of the pages.  Left out are also blocks that the store has
\* evicted and files that are damaged.
RoundComplete ==
  [][/\ EndPull => \A o \in owed : \E b \in db.block : b.id = o.id /\ b.wf >= o.wf
     /\ EndPush => \A o \in owed : \E f \in At(files, o.id) :
                                     f.part # "all" \/ f.wf >= o.wf]_vars

\* Blocks are carried: a block that stays in the store with some work is in the
\* end on the volume with at least that work, and the other way round.  Left
\* out are files that are damaged, which no round repairs unless their header
\* can be read and the block gains work, and blocks the store has evicted.
Carried ==
  \A i \in ID, w \in WF :
    /\ <>[](Loop \in users /\ [id |-> i, wf |-> w] \in Works(db.block)) =>
         <>[](\E f \in At(files, i) : f.part # "all" \/ f.wf >= w)
    /\ <>[](Loop \in users /\ [id |-> i, wf |-> w] \in Works(Whole(files))) =>
         <>[](\/ Tombstoned(db, i, now)
              \/ \E b \in db.block : b.id = i /\ b.wf >= w)
=============================================================================
