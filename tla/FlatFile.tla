------------------------------ MODULE FlatFile ------------------------------
(***************************************************************************)
(* The flat-file block store (blockstore/flatfile.go) and its binary index *)
(* (blockstore/index.go): one file per block under a root that several     *)
(* programs may use at once (the USB loop of a node, `snk mass-storage`).  *)
(* Nothing locks.  Put looks at the file of the block, makes room, writes  *)
(* a temporary file whose name depends on the block alone and renames it;  *)
(* nothing is ever fsynced.  The model takes one step per system call that *)
(* another program can get in front of, and follows a temporary file's     *)
(* inode when another program renames or removes it.                       *)
(***************************************************************************)
EXTENDS BlockTxn

CONSTANTS Proc,            \* programs that may have opened the store
          Users,           \* the sets of programs that use it together
          LimitOf,         \* per program: its storage limit; 0 is none
          FileSize,        \* flatFileSize
          EvictSlack,      \* blocks evicted beyond the immediate need
          ShardThreshold,  \* records from which the index is sharded
          Shard,           \* the index shard of an id (its first byte, plus 1)
          OldFiles,        \* what an earlier use has left on the medium
          MaxTime          \* bound on the clock

ASSUME FlatFileAssumption ==
  /\ Users \subseteq SUBSET Proc
  /\ LimitOf \in [Proc -> Nat] /\ FileSize \in Nat \ {0}
  /\ EvictSlack \in Nat /\ ShardThreshold \in Nat /\ MaxTime \in Nat \ {0}
  /\ IsFiniteSet(ID) /\ IsFiniteSet(Proc) /\ Shard \in [ID -> Nat \ {0}]

VARIABLES
  now,
  users,    \* the programs that use the store
  present,  \* the medium is plugged in
  files,    \* the block files as the programs see them
  disk,     \* the block files as they have reached the medium
  tmp,      \* the temporary files that somebody is working on
  index,    \* the index files and the records in them
  call,     \* per program: the call of Put or BuildIndex that it is in
  risked    \* history: ids whose temporary file two programs wrote at once, or whose
            \* file the medium lost a part of, until one program alone writes it

flatVars == <<now, users, present, files, disk, tmp, index, call, risked>>

\* A block file: its header fields and how much of it can be read.
File == [id : ID, createdAt : Nat, wf : WF, part : {"all", "header", "none"}]

ASSUME OldFilesAssumption ==
  OldFiles \subseteq File /\ \A f, g \in OldFiles : f.id = g.id => f = g

\* The index files: index.bin is 0, the shards have the numbers of Shard.
Single == 0
IndexFile == {Single} \cup {Shard[i] : i \in ID}

Call ==
  [pc    : {"idle", "usage", "scan", "evict", "open", "fill", "rename",
            "cleanup", "walk", "write"},
   req   : SUBSET File,                       \* {} or the file Put is to write
   fd    : {"none", "tmp", "path", "gone"},   \* where the inode it opened now is
   need  : Nat,           \* files Evict has to remove; when BuildIndex began
   cand  : SUBSET File,   \* candidates of Evict; records of BuildIndex
   todo  : SUBSET Nat,    \* ids BuildIndex has to visit, then files to write
   seen  : SUBSET File,   \* history: what Put found at the path of its block
   still : SUBSET ID]     \* history: ids untouched since BuildIndex began

NoCall == [pc |-> "idle", req |-> {}, fd |-> "none", need |-> 0, cand |-> {},
           todo |-> {}, seen |-> {}, still |-> {}]

FlatTypeOK ==
  /\ now \in 1..MaxTime /\ users \in Users /\ present \in BOOLEAN
  /\ files \subseteq File /\ disk \subseteq File /\ tmp \subseteq File
  /\ \A S \in {files, disk, tmp} : \A f, g \in S : f.id = g.id => f = g
  /\ index \in [IndexFile -> SUBSET File]
  /\ call \in [Proc -> Call]
  /\ risked \subseteq ID

FlatInit ==
  /\ now = 1 /\ users \in Users /\ present = TRUE
  /\ files = OldFiles /\ disk = OldFiles /\ tmp = {}
  /\ index = [x \in IndexFile |-> {}]
  /\ call = [p \in Proc |-> NoCall]
  /\ risked = {}
-----------------------------------------------------------------------------
(* What the store's readers see.                                           *)

At(S, id) == {f \in S : f.id = id}

\* S with f as the file of its block.
Replaced(S, f) == (S \ At(S, f.id)) \cup {f}

\* readHeader succeeds on these; the others exist and yield an error.
Readable(S) == {f \in S : f.part # "none"}

\* Get needs the whole file.
Whole(S) == {f \in S : f.part = "all"}

\* ListBlocks orders the readable headers by (createdAt, id), like the
\* traversal index of the Badger store.
Listing(S) == [trav |-> Readable(S)]

\* Mutant: Put does not look at the work factor of the file it finds.
KeptNever(S, id, wf) == FALSE

\* Put's early return: a readable file with at least as much work.
Kept(S, id, wf) == \E f \in At(Readable(S), id) : f.wf >= wf

Usage == FileSize * Cardinality(files)
-----------------------------------------------------------------------------
(* Put.                                                                    *)

\* p is in a call and at label l.
In(p, l) == call[p].pc = l

\* The calls after a change of the file of id: an index build that overlaps it
\* cannot rely on it, and an inode at the path is unlinked.
Touched(c, id) ==
  [q \in Proc |-> [c[q] EXCEPT
     !.still = @ \ {id},
     !.fd = IF @ = "path" /\ At(c[q].req, id) # {} THEN "gone" ELSE @]]

\* The calls after the temporary file of id has gone to the path, or is gone.
TmpMoved(c, id, to) ==
  [q \in Proc |-> [c[q] EXCEPT
     !.fd = IF @ = "tmp" /\ At(c[q].req, id) # {} THEN to ELSE @]]

\* Put has read the clock and the header of the file that is there, if any, and
\* goes on.
PutCall(p, id, wf) ==
  /\ present /\ p \in users /\ In(p, "idle") /\ ~Kept(files, id, wf)
  /\ call' = [call EXCEPT ![p] =
       [NoCall EXCEPT !.pc = "usage", !.seen = At(files, id),
                      !.req = {[id |-> id, createdAt |-> now, wf |-> wf,
                                part |-> "all"]}]]
  /\ UNCHANGED <<now, users, present, files, disk, tmp, index, risked>>

OverLimit(p) == LimitOf[p] > 0 /\ Usage >= LimitOf[p]

\* The storage limit is compared with the number of block files.  Nothing is
\* evicted when they cannot be counted.
CheckUsage(p) ==
  /\ In(p, "usage")
  /\ \/ /\ OverLimit(p)
        /\ call' = [call EXCEPT ![p].pc = "scan",
             ![p].need = (Usage - LimitOf[p]) \div FileSize + EvictSlack + 1]
     \/ call' = [call EXCEPT ![p].pc = "open"]
  /\ UNCHANGED <<now, users, present, files, disk, tmp, index, risked>>

\* Evict collects the files whose header it can read, or fails; Put ignores that.
EvictScan(p) ==
  /\ In(p, "scan")
  /\ \/ call' = [call EXCEPT ![p].pc = "evict", ![p].cand = Readable(files)]
     \/ call' = [call EXCEPT ![p].pc = "open", ![p].need = 0]
  /\ UNCHANGED <<now, users, present, files, disk, tmp, index, risked>>

\* Mutant: the loop over the candidates does not stop when enough are gone.
EvictOneAll(p) ==
  /\ In(p, "evict")
  /\ \E c \in call[p].cand :
       /\ files' = files \ At(files, c.id)
       /\ call' = Touched([call EXCEPT ![p].cand = @ \ {c},
                             ![p].need = @ - Cardinality(At(files, c.id))], c.id)
  /\ UNCHANGED <<now, users, present, disk, tmp, index, risked>>

\* One candidate, soonest logical expiry first, is removed by its path: what is
\* there by now goes.  A file that is gone, or cannot be removed, does not count.
EvictOne(p) ==
  /\ In(p, "evict") /\ call[p].need > 0
  /\ \E c \in call[p].cand :
       /\ \A d \in call[p].cand : LogicalExpiry(c) <= LogicalExpiry(d)
       /\ \/ /\ files' = files \ At(files, c.id)
             /\ call' = Touched([call EXCEPT ![p].cand = @ \ {c},
                                   ![p].need = @ - Cardinality(At(files, c.id))], c.id)
          \/ /\ files' = files
             /\ call' = [call EXCEPT ![p].cand = @ \ {c}]
  /\ UNCHANGED <<now, users, present, disk, tmp, index, risked>>

EvictDone(p) ==
  /\ In(p, "evict") /\ (call[p].need = 0 \/ call[p].cand = {})
  /\ call' = [call EXCEPT ![p].pc = "open", ![p].need = 0, ![p].cand = {}]
  /\ UNCHANGED <<now, users, present, files, disk, tmp, index, risked>>

\* Another program is between opening and renaming the temporary file of id.
Racing(p, id) ==
  \E q \in Proc \ {p} : /\ call[q].pc \in {"fill", "rename", "cleanup"}
                        /\ At(call[q].req, id) # {}

\* Mutant: the block is written in place, without a temporary file.
OpenPath(p) ==
  /\ In(p, "open")
  /\ \E r \in call[p].req :
       /\ files' = Replaced(files, [r EXCEPT !.part = "none"])
       /\ call' = [Touched(call, r.id) EXCEPT ![p].pc = "fill", ![p].fd = "path"]
  /\ UNCHANGED <<now, users, present, disk, tmp, index, risked>>

\* WriteFile opens the temporary file and truncates it; if another program has
\* not renamed its own yet, both work on the same inode from now on.
OpenTmp(p) ==
  /\ In(p, "open")
  /\ \E r \in call[p].req :
       /\ tmp' = Replaced(tmp, [r EXCEPT !.part = "none"])
       /\ risked' = IF Racing(p, r.id) THEN risked \cup {r.id} ELSE risked
  /\ call' = [call EXCEPT ![p].pc = "fill", ![p].fd = "tmp"]
  /\ UNCHANGED <<now, users, present, files, disk, index>>

\* WriteFile writes the block to the inode, wherever it has been moved.
Fill(p) ==
  /\ In(p, "fill")
  /\ \E r \in call[p].req :
       /\ tmp' = IF call[p].fd = "tmp" THEN Replaced(tmp, r) ELSE tmp
       /\ files' = IF call[p].fd = "path" THEN Replaced(files, r) ELSE files
       /\ call' = [q \in Proc |-> [call[q] EXCEPT
            !.pc = IF q = p THEN "rename" ELSE @,
            !.still = IF call[p].fd = "path" THEN @ \ {r.id} ELSE @]]
  /\ UNCHANGED <<now, users, present, disk, index, risked>>

\* The temporary files without those that nobody but p is working on.
LeftBy(p) ==
  {t \in tmp : \E q \in Proc \ {p} : call[q].fd = "tmp" /\ At(call[q].req, t.id) # {}}

\* The write fails, or the program dies in any part of its call.  Its temporary
\* file stays behind, where no reader looks and the next Put truncates it, so
\* the model drops it unless another program is working on it.
Abort(p) ==
  /\ ~In(p, "idle")
  /\ tmp' = LeftBy(p)
  /\ call' = [call EXCEPT ![p] = NoCall]
  /\ UNCHANGED <<now, users, present, files, disk, index, risked>>

\* The temporary file, whoever wrote it last, replaces the file of the block.
Rename(p) ==
  /\ In(p, "rename")
  /\ \E r \in call[p].req, t \in tmp :
       /\ t.id = r.id
       /\ files' = Replaced(files, t)
       /\ tmp' = tmp \ {t}
       /\ call' = [TmpMoved(Touched(call, r.id), r.id, "path") EXCEPT ![p] = NoCall]
       /\ risked' = IF t.part = "all" /\ ~Racing(p, r.id)
                    THEN risked \ {r.id} ELSE risked
  /\ UNCHANGED <<now, users, present, disk, index>>

\* Another program has renamed the temporary file first.
RenameFails(p) ==
  /\ In(p, "rename") /\ \A r \in call[p].req : At(tmp, r.id) = {}
  /\ call' = [call EXCEPT ![p].pc = "cleanup"]
  /\ UNCHANGED <<now, users, present, files, disk, tmp, index, risked>>

\* Put removes the temporary file, by now perhaps another call's, and returns
\* the error.
RemoveTmp(p) ==
  /\ In(p, "cleanup")
  /\ \E r \in call[p].req :
       /\ tmp' = tmp \ At(tmp, r.id)
       /\ call' = [TmpMoved(call, r.id, "gone") EXCEPT ![p] = NoCall]
  /\ UNCHANGED <<now, users, present, files, disk, index, risked>>
-----------------------------------------------------------------------------
(* BuildIndex and the readers of an index.  Two builds at once, which would *)
(* share the temporary index file, are left out.                           *)

BuildIndex(p) ==
  /\ present /\ p \in users /\ In(p, "idle")
  /\ \A q \in Proc : ~In(q, "walk") /\ ~In(q, "write")
  /\ call' = [call EXCEPT ![p] = [NoCall EXCEPT !.pc = "walk", !.need = now,
                                                !.todo = ID, !.still = ID]]
  /\ UNCHANGED <<now, users, present, files, disk, tmp, index, risked>>

First(S) == {x \in S : \A y \in S : x <= y}

\* The records that a scan begun at second start makes of the file of id: a
\* header that cannot be read or has expired gives none.
RecordOf(id, start) == {f \in At(Readable(files), id) : start <= LogicalExpiry(f)}

\* scanRecords visits the next file of the walk.
WalkFile(p) ==
  /\ In(p, "walk")
  /\ \E id \in First(call[p].todo) :
       call' = [call EXCEPT ![p].cand = @ \cup RecordOf(id, call[p].need),
                            ![p].todo = @ \ {id}]
  /\ UNCHANGED <<now, users, present, files, disk, tmp, index, risked>>

Sharded(p) == Cardinality(call[p].cand) >= ShardThreshold

\* The walk is over: one index file, or all shards.  Index files of the other
\* kind stay as an earlier build left them.
WalkDone(p) ==
  /\ In(p, "walk") /\ call[p].todo = {}
  /\ call' = [call EXCEPT ![p].pc = "write",
       ![p].todo = IF Sharded(p) THEN IndexFile \ {Single} ELSE {Single}]
  /\ UNCHANGED <<now, users, present, files, disk, tmp, index, risked>>

\* Mutant: the last record is missing from its index file.
RecordsForShort(p, x) ==
  {r \in call[p].cand : /\ x = Single \/ Shard[r.id] = x
                        /\ \E s \in call[p].cand : r.id < s.id}

\* The records that belong into index file x.
RecordsFor(p, x) == {r \in call[p].cand : x = Single \/ Shard[r.id] = x}

\* writeSingleIndex writes the next index file.
WriteIndex(p) ==
  /\ In(p, "write")
  /\ \E x \in First(call[p].todo) :
       /\ index' = [index EXCEPT ![x] = RecordsFor(p, x)]
       /\ call' = [call EXCEPT ![p].todo = @ \ {x}]
  /\ UNCHANGED <<now, users, present, files, disk, tmp, risked>>

IndexDone(p) ==
  /\ In(p, "write") /\ call[p].todo = {}
  /\ call' = [call EXCEPT ![p] = NoCall]
  /\ UNCHANGED <<now, users, present, files, disk, tmp, index, risked>>

\* The records of an index file in the order in which they were sorted.
Sorted(recs) ==
  [k \in 1..Cardinality(recs) |->
     CHOOSE r \in recs : Cardinality({q \in recs : q.id < r.id}) = k - 1]

\* Mutant: the upper bound of the binary search moves one too far.
SearchOffByOne(recs, id) ==
  LET seq == Sorted(recs)
      go[b \in (0..Cardinality(recs)) \X (0..Cardinality(recs))] ==
        LET lo == b[1]
            hi == b[2]
            mid == (lo + hi) \div 2
        IN  IF lo >= hi THEN {}
            ELSE IF seq[mid + 1].id = id THEN {seq[mid + 1]}
            ELSE IF seq[mid + 1].id < id THEN go[<<mid + 1, hi>>]
            ELSE IF mid = 0 THEN {} ELSE go[<<lo, mid - 1>>]
  IN  go[<<0, Cardinality(recs)>>]

\* Index.search: the binary search for the record of an id, between the bounds
\* lo and hi.
Search(recs, id) ==
  LET seq == Sorted(recs)
      go[b \in (0..Cardinality(recs)) \X (0..Cardinality(recs))] ==
        LET lo == b[1]
            hi == b[2]
            mid == (lo + hi) \div 2
        IN  IF lo >= hi THEN {}
            ELSE IF seq[mid + 1].id = id THEN {seq[mid + 1]}
            ELSE IF seq[mid + 1].id < id THEN go[<<mid + 1, hi>>] ELSE go[<<lo, mid>>]
  IN  go[<<0, Cardinality(recs)>>]

\* Index.Has and Index.Records, which treat the second of expiry differently.
IndexHas(recs, id, at) == \E r \in Search(recs, id) : ~(at > LogicalExpiry(r))
Records(recs, at) == {r \in recs : LogicalExpiry(r) > at}
-----------------------------------------------------------------------------
(* Time and the medium.                                                    *)

Tick ==
  /\ now < MaxTime
  /\ now' = now + 1
  /\ UNCHANGED <<users, present, files, disk, tmp, index, call, risked>>

\* The operating system writes back what it has cached.
Flush ==
  /\ present /\ disk # files
  /\ disk' = files
  /\ UNCHANGED <<now, users, present, files, tmp, index, call, risked>>

\* What is left of the file of an id when the medium goes away: the version
\* that had been written back, the current one, or a part of it.
Left(id, how) ==
  IF how = "old" THEN At(disk, id)
  ELSE {IF how = "all" \/ f.part # "all" THEN f ELSE [f EXCEPT !.part = how]
         : f \in At(files, id)}

\* The medium is pulled out, or loses power: calls in progress fail.
Unplug ==
  /\ present
  /\ present' = FALSE
  /\ LET cached == {id \in ID : At(files, id) # At(disk, id)}
     IN  \E how \in [cached -> {"old", "all", "header", "none"}] :
           files' = {f \in files : f.id \notin cached}
                      \cup UNION {Left(id, how[id]) : id \in cached}
  /\ disk' = files'
  /\ tmp' = {}
  /\ risked' = risked \cup {f.id : f \in {g \in files' \ files : g.part # "all"}}
  /\ call' = [p \in Proc |-> NoCall]
  /\ UNCHANGED <<now, users, index>>

Plug ==
  /\ ~present
  /\ present' = TRUE
  /\ UNCHANGED <<now, users, files, disk, tmp, index, call, risked>>

\* The steps of a call that has been made.
CallStep(p) ==
  \/ CheckUsage(p) \/ EvictScan(p) \/ EvictOne(p) \/ EvictDone(p)
  \/ OpenTmp(p) \/ Fill(p) \/ Rename(p) \/ RenameFails(p) \/ RemoveTmp(p)
  \/ WalkFile(p) \/ WalkDone(p) \/ WriteIndex(p) \/ IndexDone(p)
-----------------------------------------------------------------------------
(* What holds however the programs interleave.                             *)

\* "Atomic write via a sibling temp file then rename": a program that dies in
\* the middle of a Put never leaves a short file at the path of a block.  Only
\* a second program writing the same block, or a medium that loses what was
\* not written back, does.
AtomicReplace == \A f \in files : f.part # "all" => f.id \in risked

\* "If a file already exists with equal or higher work factor, keep it": Put
\* replaces a readable file by one with less work only when that file came in
\* after Put had looked, or on a path two programs were writing.
WorkKeptAlone ==
  [][present' => \A f \in Readable(files), g \in Readable(files') :
       f.id = g.id /\ g.wf < f.wf =>
         \/ f.id \in risked
         \/ \E p \in Proc : At(call[p].req, f.id) # {} /\ f \notin call[p].seen]_flatVars

\* BuildIndex "scans a FlatFileStore root and writes a compressed binary
\* index": for every block that nobody touched meanwhile, the index file a
\* reader opens for it holds exactly its record, or none if it cannot be read
\* or had expired when the scan began.
IndexComplete ==
  \A p \in Proc :
    In(p, "write") /\ call[p].todo = {} =>
      \A id \in call[p].still :
        At(index[IF Sharded(p) THEN Shard[id] ELSE Single], id)
          = RecordOf(id, call[p].need)

\* "Has returns true if the index contains a non-expired block", "Records
\* returns all non-expired records": the binary search and the list agree on
\* every id, whenever they are asked, except in the second in which a record
\* expires, when Has still answers yes.
LookupsAgree ==
  \A x \in IndexFile, id \in ID, at \in now .. MaxTime + TTL[MaxWF] + 1 :
    IndexHas(index[x], id, at) <=>
      \E r \in At(index[x], id) :
        r \in Records(index[x], at) \/ LogicalExpiry(r) = at
=============================================================================
