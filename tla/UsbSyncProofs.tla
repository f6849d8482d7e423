--------------------------- MODULE UsbSyncProofs ----------------------------
(***************************************************************************)
(* Proofs about the flat files of a volume under any number of programs,   *)
(* the sync loop of a node among them.                                     *)
(***************************************************************************)
EXTENDS UsbSync, BlockTxnProofs

\* The calls that are between opening and renaming a temporary file.
Writing == {"fill", "rename", "cleanup"}

\* p is writing the block id.
Writes(p, id) == call[p].pc \in Writing /\ At(call[p].req, id) # {}

\* A call writes one file, whole, with more work than what it found; and has a
\* temporary file open only while it writes.
CallOK(c) ==
  /\ \A r, s \in c.req : r = s
  /\ \A r \in c.req : r.part = "all"
  /\ \A r \in c.req, f \in Readable(c.seen) : f.wf < r.wf
  /\ c.fd # "none" => c.pc \in Writing

\* Two programs at work on one temporary file have put the block at risk.
Shared ==
  \A p, q \in Proc, id \in ID : p # q /\ Writes(p, id) /\ Writes(q, id) => id \in risked

\* A short temporary file is being filled, or its block is at risk.
ShortTmp ==
  \A t \in tmp :
    \/ t.part = "all" \/ t.id \in risked
    \/ \E p \in Proc : /\ call[p].pc = "fill" /\ call[p].fd = "tmp"
                       /\ At(call[p].req, t.id) # {}

\* A program whose temporary file somebody else has renamed or removed works on
\* a block at risk.
Robbed ==
  \A p \in Proc, id \in ID : Writes(p, id) /\ call[p].fd # "tmp" => id \in risked

\* What a program is about to rename is what it wrote, or the block is at risk.
OwnTmp ==
  \A p \in Proc : \A r \in call[p].req, t \in tmp :
    call[p].pc = "rename" /\ t.id = r.id => t = r \/ r.id \in risked

\* Without the medium no call is in progress.
CallsEnd == ~present => \A p \in Proc : call[p].pc = "idle"

WriteInv ==
  /\ \A p \in Proc : CallOK(call[p])
  /\ Shared /\ ShortTmp /\ Robbed /\ OwnTmp

\* The index files that a build writes, by the records it has found, and what
\* goes into them.
Planned(recs) ==
  IF Cardinality(recs) >= ShardThreshold THEN IndexFile \ {Single} ELSE {Single}
RecordsIn(recs, x) == {r \in recs : x = Single \/ Shard[r.id] = x}

\* The records that a scan begun at second start makes of the file of id in S.
RecordIn(S, id, start) == {f \in At(Readable(S), id) : start <= LogicalExpiry(f)}

\* A build c has, for every block that was not touched since it began, the
\* record of the file as soon as it has visited it,
WalkOK(c, S) ==
  /\ \A id \in ID \cap c.todo : At(c.cand, id) = {}
  /\ \A id \in c.still \ c.todo : At(c.cand, id) = RecordIn(S, id, c.need)

\* and has written it into its index file unless that is still to be written.
WriteOK(c, S, ix) ==
  /\ \A id \in c.still : At(c.cand, id) = RecordIn(S, id, c.need)
  /\ c.todo \subseteq Planned(c.cand)
  /\ \A x \in Planned(c.cand) \ c.todo : ix[x] = RecordsIn(c.cand, x)

Building == {"walk", "write"}

BuildInv ==
  /\ \A p, q \in Proc : call[p].pc \in Building /\ call[q].pc \in Building => p = q
  /\ \A p \in Proc : call[p].pc = "walk" => WalkOK(call[p], files)
  /\ \A p \in Proc : call[p].pc = "write" => WriteOK(call[p], files, index)

\* The store of the node.
StoreInv == Consistent(db, now) /\ IsFiniteSet(db.trav)

\* Only a program that has opened the volume copies to it.
JobInv == \A p \in Proc : job[p].on => p \in users

IInv == TypeOK /\ StoreInv /\ CallsEnd /\ WriteInv /\ BuildInv /\ JobInv
-----------------------------------------------------------------------------
(* Files and calls.                                                        *)

\* At most one file per block.
Unique(S) == \A f, g \in S : f.id = g.id => f = g

\* A volume holds finitely many files, at most one per block.
LEMMA FilesFinite ==
  ASSUME NEW S \in SUBSET File, Unique(S)
  PROVE  /\ IsFiniteSet(S) /\ Cardinality(S) \in Nat
         /\ \A id : Cardinality(At(S, id)) \in {0, 1}
<1> DEFINE ids == [f \in S |-> f.id]
<1>1. ids \in Injection(S, ID)
  BY DEF Injection, IsInjective, File, Unique
<1>2. IsFiniteSet(S)
  BY <1>1, FlatFileAssumption, FS_Injection
<1>3. ASSUME NEW id PROVE Cardinality(At(S, id)) \in {0, 1}
  <2>1. CASE At(S, id) = {}
    BY <2>1, FS_EmptySet
  <2>2. CASE At(S, id) # {}
    <3>1. PICK f : At(S, id) = {f}
      BY <2>2 DEF At, Unique
    <3> QED
      BY <3>1, FS_Singleton
  <2> QED
    BY <2>1, <2>2
<1> QED
  BY <1>2, <1>3, FS_CardinalityType

\* Replacing a file leaves the others alone.
LEMMA ReplacedFiles ==
  ASSUME NEW S \in SUBSET File, Unique(S), NEW f \in File
  PROVE  /\ Replaced(S, f) \in SUBSET File
         /\ Unique(Replaced(S, f))
         /\ \A g : g \in Replaced(S, f) <=> g = f \/ (g \in S /\ g.id # f.id)
<1>1. \A g : g \in Replaced(S, f) <=> g = f \/ (g \in S /\ g.id # f.id)
  BY DEF Replaced, At
<1> QED
  BY <1>1 DEF Unique

\* The fields of a call.
LEMMA CallFields ==
  ASSUME NEW c \in Call
  PROVE  /\ c.req \subseteq File /\ c.cand \subseteq File /\ c.seen \subseteq File
         /\ c.need \in Nat /\ c.todo \subseteq Nat /\ c.still \subseteq ID
         /\ \A r \in c.req : r \in File
         /\ c.pc \in {"idle", "usage", "scan", "evict", "open", "fill", "rename",
                      "cleanup", "walk", "write"}
         /\ c.fd \in {"none", "tmp", "path", "gone"}
BY DEF Call

\* The idle call.
LEMMA NoCallType == /\ NoCall \in Call
                    /\ NoCall.pc = "idle" /\ NoCall.req = {} /\ NoCall.fd = "none"
                    /\ NoCall.seen = {} /\ NoCall.still = {} /\ NoCall.todo = {}
BY DEF NoCall, Call

\* The calls t are the calls c after a change of the file of id.
TouchedOK(c, t, id) ==
  \A q \in Proc :
    /\ t[q].pc = c[q].pc /\ t[q].req = c[q].req /\ t[q].need = c[q].need
    /\ t[q].cand = c[q].cand /\ t[q].todo = c[q].todo /\ t[q].seen = c[q].seen
    /\ t[q].still = c[q].still \ {id}
    /\ t[q].fd = IF c[q].fd = "path" /\ At(c[q].req, id) # {} THEN "gone" ELSE c[q].fd

\* A change of the file of a block shows in the calls in two fields.
LEMMA TouchedCalls ==
  ASSUME NEW c \in [Proc -> Call], NEW id
  PROVE  Touched(c, id) \in [Proc -> Call] /\ TouchedOK(c, Touched(c, id), id)
<1> DEFINE fd(q) == IF c[q].fd = "path" /\ At(c[q].req, id) # {} THEN "gone" ELSE c[q].fd
<1>1. \A q \in Proc : c[q] \in Call /\ c[q].still \ {id} \in SUBSET ID
  BY CallFields
<1>2. \A q \in Proc : fd(q) \in {"none", "tmp", "path", "gone"}
  BY <1>1, CallFields
<1>3. Touched(c, id) = [q \in Proc |-> [c[q] EXCEPT !.still = @ \ {id}, !.fd = fd(q)]]
  BY DEF Touched
<1> HIDE DEF fd
<1>4. ASSUME NEW q \in Proc
      PROVE  LET d == [c[q] EXCEPT !.still = c[q].still \ {id}, !.fd = fd(q)]
             IN  /\ d \in Call
                 /\ d.pc = c[q].pc /\ d.req = c[q].req /\ d.need = c[q].need
                 /\ d.cand = c[q].cand /\ d.todo = c[q].todo /\ d.seen = c[q].seen
                 /\ d.still = c[q].still \ {id} /\ d.fd = fd(q)
  <2> DEFINE b == c[q]
             s == c[q].still \ {id}
             f == fd(q)
  <2>1. b \in Call /\ s \in SUBSET ID /\ f \in {"none", "tmp", "path", "gone"}
    BY <1>1, <1>2
  <2> HIDE DEF b, s, f
  <2>2. LET d == [b EXCEPT !.still = s, !.fd = f]
        IN  /\ d \in Call
            /\ d.pc = b.pc /\ d.req = b.req /\ d.need = b.need /\ d.cand = b.cand
            /\ d.todo = b.todo /\ d.seen = b.seen /\ d.still = s /\ d.fd = f
    BY <2>1 DEF Call
  <2> QED
    BY <2>2 DEF b, s, f
<1>5. ASSUME NEW q \in Proc
      PROVE  Touched(c, id)[q] = [c[q] EXCEPT !.still = c[q].still \ {id}, !.fd = fd(q)]
  BY <1>3
<1>6. Touched(c, id) \in [Proc -> Call]
  BY <1>3, <1>4, Zenon
<1>7. \A q \in Proc : LET d == Touched(c, id)[q]
                      IN  /\ d.pc = c[q].pc /\ d.req = c[q].req /\ d.need = c[q].need
                          /\ d.cand = c[q].cand /\ d.todo = c[q].todo /\ d.seen = c[q].seen
                          /\ d.still = c[q].still \ {id} /\ d.fd = fd(q)
  BY <1>4, <1>5, Zenon
<1> QED
  BY <1>6, <1>7 DEF fd, TouchedOK

\* The calls t are the calls c after the temporary file of id has moved.
MovedOK(c, t, id, to) ==
  \A q \in Proc :
    /\ t[q].pc = c[q].pc /\ t[q].req = c[q].req /\ t[q].need = c[q].need
    /\ t[q].cand = c[q].cand /\ t[q].todo = c[q].todo /\ t[q].seen = c[q].seen
    /\ t[q].still = c[q].still
    /\ t[q].fd = IF c[q].fd = "tmp" /\ At(c[q].req, id) # {} THEN to ELSE c[q].fd

\* So does a move of its temporary file, in one field.
LEMMA TmpMovedCalls ==
  ASSUME NEW c \in [Proc -> Call], NEW id, NEW to \in {"path", "gone"}
  PROVE  TmpMoved(c, id, to) \in [Proc -> Call] /\ MovedOK(c, TmpMoved(c, id, to), id, to)
<1> DEFINE fd(q) == IF c[q].fd = "tmp" /\ At(c[q].req, id) # {} THEN to ELSE c[q].fd
           d(q) == [pc |-> c[q].pc, req |-> c[q].req, fd |-> fd(q), need |-> c[q].need,
                    cand |-> c[q].cand, todo |-> c[q].todo, seen |-> c[q].seen,
                    still |-> c[q].still]
<1>1. \A q \in Proc : c[q] \in Call
  OBVIOUS
<1>2. \A q \in Proc : fd(q) \in {"none", "tmp", "path", "gone"}
  BY <1>1, CallFields
<1>3. \A q \in Proc : [c[q] EXCEPT !.fd = fd(q)] = d(q)
  <2> HIDE DEF fd
  <2> QED BY <1>1 DEF Call
<1>4. TmpMoved(c, id, to) = [q \in Proc |-> [c[q] EXCEPT !.fd = fd(q)]]
  BY DEF TmpMoved
<1>5. TmpMoved(c, id, to) = [q \in Proc |-> d(q)]
  <2> HIDE DEF fd
  <2> QED BY <1>3, <1>4
<1>6. \A q \in Proc : d(q) \in Call
  <2> HIDE DEF fd
  <2> QED BY <1>1, <1>2 DEF Call
<1> QED
  <2>1. \A q \in Proc : TmpMoved(c, id, to)[q] = d(q)
    BY <1>5
  <2>2. TmpMoved(c, id, to) \in [Proc -> Call]
    BY <1>5, <1>6
  <2> QED
    BY <2>1, <2>2 DEF MovedOK
-----------------------------------------------------------------------------
(* What the steps of one program do to the calls.                          *)

\* The parts of the type invariant.
LEMMA FlatParts ==
  ASSUME FlatTypeOK
  PROVE  /\ now \in Nat /\ files \subseteq File /\ Unique(files)
         /\ disk \subseteq File /\ Unique(disk) /\ tmp \subseteq File /\ Unique(tmp)
         /\ index \in [IndexFile -> SUBSET File] /\ call \in [Proc -> Call]
         /\ risked \subseteq ID
         /\ \A p \in Proc : call[p] \in Call
BY DEF FlatTypeOK, Unique

\* A call that is given a value, and the other calls.
LEMMA SetCall ==
  ASSUME NEW c \in [Proc -> Call], NEW p \in Proc, NEW d \in Call
  PROVE  /\ [c EXCEPT ![p] = d] \in [Proc -> Call]
         /\ [c EXCEPT ![p] = d][p] = d
         /\ \A q \in Proc \ {p} : [c EXCEPT ![p] = d][q] = c[q]
OBVIOUS

\* The call of q is what it was, but for its inode and the blocks untouched.
Kin(q) ==
  /\ call'[q].pc = call[q].pc /\ call'[q].req = call[q].req /\ call'[q].seen = call[q].seen
  /\ call'[q].need = call[q].need /\ call'[q].cand = call[q].cand
  /\ call'[q].todo = call[q].todo /\ call'[q].still \subseteq call[q].still
  /\ \/ call'[q].fd = call[q].fd
     \/ call[q].fd \in {"tmp", "path"} /\ call'[q].fd \in {"path", "gone"}

\* A call that did not change.
LEMMA KinSame ==
  ASSUME NEW q, call'[q] = call[q]
  PROVE  Kin(q)
BY DEF Kin

\* Put has looked at the file of its block.
LEMMA PutCallCalls ==
  ASSUME FlatTypeOK, NEW p \in Proc, NEW id \in ID, NEW wf \in WF, PutCall(p, id, wf)
  PROVE  /\ call' \in [Proc -> Call]
         /\ \A q \in Proc \ {p} : call'[q] = call[q]
         /\ call'[p].pc = "usage" /\ call'[p].seen = At(files, id) /\ call'[p].fd = "none"
         /\ call'[p].req = {[id |-> id, createdAt |-> now, wf |-> wf, part |-> "all"]}
<1> DEFINE r == [id |-> id, createdAt |-> now, wf |-> wf, part |-> "all"]
           d == [NoCall EXCEPT !.pc = "usage", !.seen = At(files, id), !.req = {r}]
<1>1. r \in File /\ At(files, id) \subseteq File
  BY FlatParts DEF File, At
<1>2. /\ d \in Call /\ d.pc = "usage" /\ d.seen = At(files, id) /\ d.fd = "none"
      /\ d.req = {r}
  <2> HIDE DEF r
  <2> QED BY <1>1 DEF NoCall, Call
<1>3. call' = [call EXCEPT ![p] = d]
  BY DEF PutCall
<1> HIDE DEF d
<1> QED
  BY <1>2, <1>3, FlatParts, SetCall DEF r

\* Put has compared the usage with its limit; the number of files to evict is a
\* natural number, since it is computed at or above the limit only.
LEMMA CheckUsageCalls ==
  ASSUME FlatTypeOK, NEW p \in Proc, CheckUsage(p)
  PROVE  /\ call' \in [Proc -> Call]
         /\ \A q \in Proc \ {p} : call'[q] = call[q]
         /\ call[p].pc = "usage" /\ call'[p].pc \in {"scan", "open"}
         /\ call'[p].req = call[p].req /\ call'[p].seen = call[p].seen
         /\ call'[p].fd = call[p].fd
<1>1. call \in [Proc -> Call] /\ call[p] \in Call /\ call[p].pc = "usage"
  BY FlatParts DEF CheckUsage, In
<1>2. ASSUME NEW pc \in {"scan", "open"}, NEW need \in Nat,
             call' = [call EXCEPT ![p].pc = pc, ![p].need = need]
      PROVE  /\ call' \in [Proc -> Call]
             /\ \A q \in Proc \ {p} : call'[q] = call[q]
             /\ call'[p].pc = pc
             /\ call'[p].req = call[p].req /\ call'[p].seen = call[p].seen
             /\ call'[p].fd = call[p].fd
  <2> DEFINE d == [call[p] EXCEPT !.pc = pc, !.need = need]
  <2>1. /\ d \in Call /\ d.pc = pc /\ d.req = call[p].req
        /\ d.seen = call[p].seen /\ d.fd = call[p].fd
    BY <1>1, <1>2 DEF Call
  <2>2. call' = [call EXCEPT ![p] = d]
    BY <1>2
  <2> HIDE DEF d
  <2> QED
    BY <1>1, <2>1, <2>2, SetCall
<1>3. CASE OverLimit(p) /\ call' = [call EXCEPT ![p].pc = "scan",
             ![p].need = (Usage - LimitOf[p]) \div FileSize + EvictSlack + 1]
  <2> DEFINE need == (Usage - LimitOf[p]) \div FileSize + EvictSlack + 1
  <2>1. Usage \in Nat
    BY FilesFinite, FlatParts, FlatFileAssumption DEF Usage
  <2>2. Usage - LimitOf[p] \in Nat /\ FileSize \in Nat \ {0} /\ EvictSlack \in Nat
    BY <1>3, <2>1, FlatFileAssumption DEF OverLimit
  <2>3. (Usage - LimitOf[p]) \div FileSize \in Nat
    BY <2>2
  <2>4. need \in Nat
    BY <2>2, <2>3
  <2>5. call' = [call EXCEPT ![p].pc = "scan", ![p].need = need]
    BY <1>3
  <2> HIDE DEF need
  <2> QED
    BY <1>1, <1>2, <2>4, <2>5
<1>4. CASE call' = [call EXCEPT ![p].pc = "open"]
  <2>1. call[p].need \in Nat
    BY <1>1, CallFields
  <2>2. [call[p] EXCEPT !.pc = "open"] = [call[p] EXCEPT !.pc = "open", !.need = call[p].need]
    BY <1>1 DEF Call
  <2>3. call' = [call EXCEPT ![p].pc = "open", ![p].need = call[p].need]
    BY <1>1, <1>4, <2>2
  <2> QED
    BY <1>1, <1>2, <2>1, <2>3
<1> QED
  BY <1>3, <1>4 DEF CheckUsage

\* Evict makes its list and, when it is done, forgets it.
LEMMA EvictCalls ==
  ASSUME FlatTypeOK, NEW p \in Proc, EvictScan(p) \/ EvictDone(p)
  PROVE  /\ call' \in [Proc -> Call]
         /\ \A q \in Proc \ {p} : call'[q] = call[q]
         /\ call[p].pc \in {"scan", "evict"} /\ call'[p].pc \in {"evict", "open"}
         /\ call'[p].req = call[p].req /\ call'[p].seen = call[p].seen
         /\ call'[p].fd = call[p].fd
<1>1. call[p] \in Call /\ Readable(files) \subseteq File
  BY FlatParts DEF Readable
<1>2. CASE EvictScan(p)
  <2>1. ASSUME NEW d \in Call, d.pc \in {"evict", "open"}, d.req = call[p].req,
               d.seen = call[p].seen, d.fd = call[p].fd, call' = [call EXCEPT ![p] = d]
        PROVE  /\ call' \in [Proc -> Call] /\ \A q \in Proc \ {p} : call'[q] = call[q]
               /\ call'[p].pc \in {"evict", "open"}
               /\ call'[p].req = call[p].req /\ call'[p].seen = call[p].seen
               /\ call'[p].fd = call[p].fd
    BY <2>1, FlatParts, SetCall
  <2>2. call[p].pc = "scan"
    BY <1>2 DEF EvictScan, In
  <2>3. CASE call' = [call EXCEPT ![p].pc = "evict", ![p].cand = Readable(files)]
    <3> DEFINE d == [call[p] EXCEPT !.pc = "evict", !.cand = Readable(files)]
    <3>1. /\ d \in Call /\ d.pc = "evict" /\ d.req = call[p].req
          /\ d.seen = call[p].seen /\ d.fd = call[p].fd
      BY <1>1 DEF Call
    <3>2. call' = [call EXCEPT ![p] = d]
      BY <2>3
    <3> HIDE DEF d
    <3> QED
      BY <2>1, <2>2, <3>1, <3>2
  <2>4. CASE call' = [call EXCEPT ![p].pc = "open", ![p].need = 0]
    <3> DEFINE d == [call[p] EXCEPT !.pc = "open", !.need = 0]
    <3>1. /\ d \in Call /\ d.pc = "open" /\ d.req = call[p].req
          /\ d.seen = call[p].seen /\ d.fd = call[p].fd
      BY <1>1 DEF Call
    <3>2. call' = [call EXCEPT ![p] = d]
      BY <2>4
    <3> HIDE DEF d
    <3> QED
      BY <2>1, <2>2, <3>1, <3>2
  <2> QED
    BY <1>2, <2>3, <2>4 DEF EvictScan
<1>3. CASE EvictDone(p)
  <2> DEFINE d == [call[p] EXCEPT !.pc = "open", !.need = 0, !.cand = {}]
  <2>1. /\ d \in Call /\ d.pc = "open" /\ d.req = call[p].req
        /\ d.seen = call[p].seen /\ d.fd = call[p].fd
    BY <1>1 DEF Call
  <2>2. call' = [call EXCEPT ![p] = d] /\ call[p].pc = "evict"
    BY <1>3 DEF EvictDone, In
  <2> HIDE DEF d
  <2> QED
    BY <2>1, <2>2, FlatParts, SetCall
<1> QED
  BY <1>2, <1>3

\* Evict removes one file by its path, or fails to; what is still to be removed
\* stays natural.
LEMMA EvictOneCalls ==
  ASSUME FlatTypeOK, NEW p \in Proc, EvictOne(p)
  PROVE  /\ files' \subseteq files
         /\ call' \in [Proc -> Call]
         /\ \A q \in Proc \ {p} : Kin(q) /\ (call'[q].fd = "tmp" <=> call[q].fd = "tmp")
         /\ \A q \in Proc \ {p} : \A i \in call'[q].still : At(files', i) = At(files, i)
         /\ call[p].pc = "evict" /\ call'[p].pc = "evict"
         /\ call'[p].req = call[p].req /\ call'[p].seen = call[p].seen
         /\ call'[p].fd # "none" => call[p].fd # "none"
<1>1. /\ call \in [Proc -> Call] /\ call[p] \in Call /\ call[p].cand \subseteq File
      /\ call[p].need \in Nat
  BY FlatParts, CallFields
<1>2. PICK c \in call[p].cand :
        \/ /\ files' = files \ At(files, c.id)
           /\ call' = Touched([call EXCEPT ![p].cand = @ \ {c},
                                 ![p].need = @ - Cardinality(At(files, c.id))], c.id)
        \/ /\ files' = files
           /\ call' = [call EXCEPT ![p].cand = @ \ {c}]
  BY DEF EvictOne
<1>3. Cardinality(At(files, c.id)) \in {0, 1} /\ call[p].need > 0 /\ call[p].pc = "evict"
  BY FlatParts, FilesFinite DEF EvictOne, In
<1> DEFINE s == call[p].cand \ {c}
<1>4. c.id \in ID /\ s \subseteq File
  BY <1>1, <1>3 DEF File
<1>5. CASE /\ files' = files \ At(files, c.id)
           /\ call' = Touched([call EXCEPT ![p].cand = @ \ {c},
                                 ![p].need = @ - Cardinality(At(files, c.id))], c.id)
  <2> DEFINE n == call[p].need - Cardinality(At(files, c.id))
             d == [call[p] EXCEPT !.cand = s, !.need = n]
             k == [call EXCEPT ![p] = d]
  <2>1. call' = Touched(k, c.id)
    BY <1>5
  <2>2. n \in Nat
    BY <1>1, <1>3
  <2>3. /\ d \in Call /\ d.pc = call[p].pc /\ d.req = call[p].req /\ d.seen = call[p].seen
        /\ d.fd = call[p].fd
    <3> HIDE DEF n, s
    <3> QED BY <1>1, <1>4, <2>2 DEF Call
  <2> HIDE DEF d
  <2>4. k \in [Proc -> Call] /\ k[p] = d /\ \A q \in Proc \ {p} : k[q] = call[q]
    BY <1>1, <2>3, SetCall
  <2> HIDE DEF k
  <2>5. call' \in [Proc -> Call] /\ TouchedOK(k, call', c.id)
    BY <2>1, <2>4, TouchedCalls
  <2>6. \A q \in Proc \ {p} : /\ Kin(q) /\ (call'[q].fd = "tmp" <=> call[q].fd = "tmp")
                              /\ call'[q].still = call[q].still \ {c.id}
    BY <2>4, <2>5 DEF Kin, TouchedOK
  <2>7. /\ call'[p].pc = "evict" /\ call'[p].req = call[p].req
        /\ call'[p].seen = call[p].seen /\ (call'[p].fd # "none" => call[p].fd # "none")
    BY <1>3, <2>3, <2>4, <2>5 DEF TouchedOK
  <2>8. \A i : i # c.id => At(files', i) = At(files, i)
    BY <1>5 DEF At
  <2> QED
    BY <1>3, <1>5, <2>5, <2>6, <2>7, <2>8
<1>6. CASE files' = files /\ call' = [call EXCEPT ![p].cand = @ \ {c}]
  <2> DEFINE d == [call[p] EXCEPT !.cand = s]
  <2>1. call' = [call EXCEPT ![p] = d]
    BY <1>6
  <2>2. /\ d \in Call /\ d.pc = call[p].pc /\ d.req = call[p].req /\ d.seen = call[p].seen
        /\ d.fd = call[p].fd
    <3> HIDE DEF s
    <3> QED BY <1>1, <1>4 DEF Call
  <2> HIDE DEF d
  <2>3. call' \in [Proc -> Call] /\ call'[p] = d /\ \A q \in Proc \ {p} : call'[q] = call[q]
    BY <1>1, <2>1, <2>2, SetCall
  <2> QED
    BY <1>3, <1>6, <2>2, <2>3, KinSame
<1> QED
  BY <1>2, <1>5, <1>6

\* WriteFile opens the temporary file.
LEMMA OpenTmpCalls ==
  ASSUME FlatTypeOK, NEW p \in Proc, OpenTmp(p)
  PROVE  /\ call' \in [Proc -> Call]
         /\ \A q \in Proc \ {p} : call'[q] = call[q]
         /\ call[p].pc = "open" /\ call'[p].pc = "fill" /\ call'[p].fd = "tmp"
         /\ call'[p].req = call[p].req /\ call'[p].seen = call[p].seen
<1> DEFINE d == [call[p] EXCEPT !.pc = "fill", !.fd = "tmp"]
<1>1. /\ d \in Call /\ d.pc = "fill" /\ d.fd = "tmp" /\ d.req = call[p].req
      /\ d.seen = call[p].seen
  BY FlatParts DEF Call
<1>2. call' = [call EXCEPT ![p] = d] /\ call[p].pc = "open"
  BY DEF OpenTmp, In
<1> HIDE DEF d
<1> QED
  BY <1>1, <1>2, FlatParts, SetCall

\* There is nothing to rename.
LEMMA RenameFailsCalls ==
  ASSUME FlatTypeOK, NEW p \in Proc, RenameFails(p)
  PROVE  /\ call' \in [Proc -> Call]
         /\ \A q \in Proc \ {p} : call'[q] = call[q]
         /\ call[p].pc = "rename" /\ call'[p].pc = "cleanup" /\ call'[p].fd = call[p].fd
         /\ call'[p].req = call[p].req /\ call'[p].seen = call[p].seen
<1> DEFINE d == [call[p] EXCEPT !.pc = "cleanup"]
<1>1. /\ d \in Call /\ d.pc = "cleanup" /\ d.fd = call[p].fd /\ d.req = call[p].req
      /\ d.seen = call[p].seen
  BY FlatParts DEF Call
<1>2. call' = [call EXCEPT ![p] = d] /\ call[p].pc = "rename"
  BY DEF RenameFails, In
<1> HIDE DEF d
<1> QED
  BY <1>1, <1>2, FlatParts, SetCall

\* WriteFile writes to the inode, wherever it is.
LEMMA FillCalls ==
  ASSUME FlatTypeOK, NEW p \in Proc, Fill(p)
  PROVE  \E r \in call[p].req :
           /\ tmp' = IF call[p].fd = "tmp" THEN Replaced(tmp, r) ELSE tmp
           /\ files' = IF call[p].fd = "path" THEN Replaced(files, r) ELSE files
           /\ call' \in [Proc -> Call]
           /\ \A q \in Proc \ {p} : Kin(q) /\ call'[q].fd = call[q].fd
           /\ call[p].fd = "path" =>
                \A q \in Proc \ {p} : call'[q].still = call[q].still \ {r.id}
           /\ call[p].pc = "fill" /\ call'[p].pc = "rename" /\ call'[p].fd = call[p].fd
           /\ call'[p].req = call[p].req /\ call'[p].seen = call[p].seen
<1>1. PICK r \in call[p].req :
       /\ tmp' = IF call[p].fd = "tmp" THEN Replaced(tmp, r) ELSE tmp
       /\ files' = IF call[p].fd = "path" THEN Replaced(files, r) ELSE files
       /\ call' = [q \in Proc |-> [call[q] EXCEPT
            !.pc = IF q = p THEN "rename" ELSE @,
            !.still = IF call[p].fd = "path" THEN @ \ {r.id} ELSE @]]
  BY DEF Fill
<1> DEFINE pc(q) == IF q = p THEN "rename" ELSE call[q].pc
           still(q) == IF call[p].fd = "path" THEN call[q].still \ {r.id} ELSE call[q].still
           d(q) == [call[q] EXCEPT !.pc = pc(q), !.still = still(q)]
<1>2. ASSUME NEW q \in Proc
      PROVE  /\ d(q) \in Call /\ d(q).pc = pc(q) /\ d(q).still = still(q)
             /\ d(q).req = call[q].req /\ d(q).seen = call[q].seen /\ d(q).fd = call[q].fd
             /\ d(q).need = call[q].need /\ d(q).cand = call[q].cand
             /\ d(q).todo = call[q].todo
  <2> DEFINE b == call[q]
             x == pc(q)
             s == still(q)
  <2>1. b \in Call
    BY FlatParts
  <2>2. /\ x \in {"idle", "usage", "scan", "evict", "open", "fill", "rename",
                  "cleanup", "walk", "write"}
        /\ s \subseteq ID
    BY <2>1, CallFields
  <2> HIDE DEF b, x, s
  <2>3. LET e == [b EXCEPT !.pc = x, !.still = s]
        IN  /\ e \in Call /\ e.pc = x /\ e.still = s /\ e.req = b.req /\ e.seen = b.seen
            /\ e.fd = b.fd /\ e.need = b.need /\ e.cand = b.cand /\ e.todo = b.todo
    BY <2>1, <2>2 DEF Call
  <2> QED
    BY <2>3 DEF b, x, s
<1>3. call' = [q \in Proc |-> d(q)]
  BY <1>1
<1> HIDE DEF d
<1>4. call' \in [Proc -> Call] /\ \A q \in Proc : call'[q] = d(q)
  BY <1>2, <1>3
<1>5. ASSUME NEW q \in Proc \ {p}
      PROVE  /\ Kin(q) /\ call'[q].fd = call[q].fd
             /\ call[p].fd = "path" => call'[q].still = call[q].still \ {r.id}
  <2>1. /\ call'[q].pc = call[q].pc /\ call'[q].still = still(q) /\ call'[q].fd = call[q].fd
        /\ call'[q].req = call[q].req /\ call'[q].seen = call[q].seen
        /\ call'[q].need = call[q].need /\ call'[q].cand = call[q].cand
        /\ call'[q].todo = call[q].todo
    BY <1>2, <1>4
  <2> QED
    BY <2>1 DEF Kin
<1>6. /\ call[p].pc = "fill" /\ call'[p].pc = "rename" /\ call'[p].fd = call[p].fd
      /\ call'[p].req = call[p].req /\ call'[p].seen = call[p].seen
  BY <1>2, <1>4 DEF Fill, In
<1> QED
  BY <1>1, <1>4, <1>5, <1>6

\* The rename ends the call, and other programs' inode is now at the path.
LEMMA RenameCalls ==
  ASSUME FlatTypeOK, NEW p \in Proc, Rename(p)
  PROVE  \E r \in call[p].req, t \in tmp :
           /\ t.id = r.id /\ files' = Replaced(files, t) /\ tmp' = tmp \ {t}
           /\ risked' = IF t.part = "all" /\ ~Racing(p, r.id)
                        THEN risked \ {r.id} ELSE risked
           /\ call' \in [Proc -> Call] /\ call[p].pc = "rename" /\ call'[p] = NoCall
           /\ \A q \in Proc \ {p} : Kin(q) /\ call'[q].still = call[q].still \ {r.id}
           /\ \A q \in Proc \ {p} :
                call'[q].fd = "tmp" <=> call[q].fd = "tmp" /\ At(call[q].req, r.id) = {}
<1>1. PICK r \in call[p].req, t \in tmp :
        /\ t.id = r.id /\ files' = Replaced(files, t) /\ tmp' = tmp \ {t}
        /\ risked' = IF t.part = "all" /\ ~Racing(p, r.id) THEN risked \ {r.id} ELSE risked
        /\ call' = [TmpMoved(Touched(call, r.id), r.id, "path") EXCEPT ![p] = NoCall]
        /\ call[p].pc = "rename"
  BY DEF Rename, In
<1> DEFINE a == Touched(call, r.id)
           b == TmpMoved(a, r.id, "path")
<1>2. a \in [Proc -> Call] /\ TouchedOK(call, a, r.id)
  BY FlatParts, TouchedCalls
<1> HIDE DEF a
<1>3. b \in [Proc -> Call] /\ MovedOK(a, b, r.id, "path")
  BY <1>2, TmpMovedCalls
<1>4. call' = [b EXCEPT ![p] = NoCall]
  BY <1>1 DEF a
<1> HIDE DEF b
<1>5. /\ call' \in [Proc -> Call] /\ call'[p] = NoCall
      /\ \A q \in Proc \ {p} : call'[q] = b[q]
  BY <1>3, <1>4, NoCallType, SetCall
<1>6. ASSUME NEW q \in Proc \ {p}
      PROVE  Kin(q) /\ call'[q].still = call[q].still \ {r.id}
  <2>1. /\ call'[q].pc = call[q].pc /\ call'[q].req = call[q].req
        /\ call'[q].seen = call[q].seen /\ call'[q].need = call[q].need
        /\ call'[q].cand = call[q].cand /\ call'[q].todo = call[q].todo
        /\ call'[q].still = call[q].still \ {r.id}
    BY <1>2, <1>3, <1>5 DEF TouchedOK, MovedOK
  <2>2. \/ call'[q].fd = call[q].fd
        \/ call[q].fd \in {"tmp", "path"} /\ call'[q].fd \in {"path", "gone"}
    BY <1>2, <1>3, <1>5 DEF TouchedOK, MovedOK
  <2> QED
    BY <2>1, <2>2 DEF Kin
<1>7. ASSUME NEW q \in Proc \ {p}
      PROVE  call'[q].fd = "tmp" <=> call[q].fd = "tmp" /\ At(call[q].req, r.id) = {}
  <2>1. /\ a[q].req = call[q].req
        /\ a[q].fd = IF call[q].fd = "path" /\ At(call[q].req, r.id) # {}
                     THEN "gone" ELSE call[q].fd
    BY <1>2 DEF TouchedOK
  <2>2. call'[q].fd = IF a[q].fd = "tmp" /\ At(a[q].req, r.id) # {} THEN "path" ELSE a[q].fd
    BY <1>3, <1>5 DEF MovedOK
  <2> QED
    BY <2>1, <2>2
<1> QED
  BY <1>1, <1>5, <1>6, <1>7

\* The removal ends the call, and other programs' inode has no name.
LEMMA RemoveTmpCalls ==
  ASSUME FlatTypeOK, NEW p \in Proc, RemoveTmp(p)
  PROVE  \E r \in call[p].req :
           /\ tmp' = tmp \ At(tmp, r.id)
           /\ call' \in [Proc -> Call] /\ call[p].pc = "cleanup" /\ call'[p] = NoCall
           /\ \A q \in Proc \ {p} : Kin(q)
           /\ \A q \in Proc \ {p} :
                call'[q].fd = "tmp" <=> call[q].fd = "tmp" /\ At(call[q].req, r.id) = {}
           /\ \A q \in Proc \ {p} :
                call'[q].fd = IF call[q].fd = "tmp" /\ At(call[q].req, r.id) # {}
                              THEN "gone" ELSE call[q].fd
<1>1. PICK r \in call[p].req :
        /\ tmp' = tmp \ At(tmp, r.id) /\ call[p].pc = "cleanup"
        /\ call' = [TmpMoved(call, r.id, "gone") EXCEPT ![p] = NoCall]
  BY DEF RemoveTmp, In
<1> DEFINE b == TmpMoved(call, r.id, "gone")
<1>2. b \in [Proc -> Call] /\ MovedOK(call, b, r.id, "gone")
  BY FlatParts, TmpMovedCalls
<1> HIDE DEF b
<1>3. /\ call' \in [Proc -> Call] /\ call'[p] = NoCall
      /\ \A q \in Proc \ {p} : call'[q] = b[q]
  BY <1>1, <1>2, NoCallType, SetCall DEF b
<1>4. ASSUME NEW q \in Proc \ {p}
      PROVE  Kin(q)
  <2>1. /\ call'[q].pc = call[q].pc /\ call'[q].req = call[q].req
        /\ call'[q].seen = call[q].seen /\ call'[q].need = call[q].need
        /\ call'[q].cand = call[q].cand /\ call'[q].todo = call[q].todo
        /\ call'[q].still = call[q].still
    BY <1>2, <1>3 DEF MovedOK
  <2>2. \/ call'[q].fd = call[q].fd
        \/ call[q].fd \in {"tmp", "path"} /\ call'[q].fd \in {"path", "gone"}
    BY <1>2, <1>3 DEF MovedOK
  <2> QED
    BY <2>1, <2>2 DEF Kin
<1>5. ASSUME NEW q \in Proc \ {p}
      PROVE  /\ call'[q].fd = "tmp" <=> call[q].fd = "tmp" /\ At(call[q].req, r.id) = {}
             /\ call'[q].fd = IF call[q].fd = "tmp" /\ At(call[q].req, r.id) # {}
                              THEN "gone" ELSE call[q].fd
  <2>1. call'[q].fd = IF call[q].fd = "tmp" /\ At(call[q].req, r.id) # {}
                      THEN "gone" ELSE call[q].fd
    BY <1>2, <1>3 DEF MovedOK
  <2> QED
    BY <2>1
<1> QED
  BY <1>1, <1>3, <1>4, <1>5

\* A call that ends, or is cut short.
LEMMA EndCalls ==
  ASSUME FlatTypeOK, NEW p \in Proc, call' = [call EXCEPT ![p] = NoCall]
  PROVE  /\ call' \in [Proc -> Call] /\ call'[p] = NoCall
         /\ \A q \in Proc \ {p} : call'[q] = call[q]
BY FlatParts, NoCallType, SetCall

\* BuildIndex starts with everything to visit and nothing touched.
LEMMA BuildIndexCalls ==
  ASSUME FlatTypeOK, NEW p \in Proc, BuildIndex(p)
  PROVE  /\ call' \in [Proc -> Call]
         /\ \A q \in Proc \ {p} : call'[q] = call[q]
         /\ call[p].pc = "idle" /\ call'[p].pc = "walk"
         /\ call'[p].req = {} /\ call'[p].fd = "none" /\ call'[p].seen = {}
         /\ call'[p].need = now /\ call'[p].todo = ID /\ call'[p].still = ID
         /\ call'[p].cand = {}
<1> DEFINE d == [NoCall EXCEPT !.pc = "walk", !.need = now, !.todo = ID, !.still = ID]
<1>1. now \in Nat /\ ID \subseteq Nat
  BY FlatParts, IDAssumption
<1>2. /\ d \in Call /\ d.pc = "walk" /\ d.req = {} /\ d.fd = "none" /\ d.seen = {}
      /\ d.need = now /\ d.todo = ID /\ d.still = ID /\ d.cand = {}
  BY <1>1 DEF NoCall, Call
<1>3. call' = [call EXCEPT ![p] = d] /\ call[p].pc = "idle"
  BY DEF BuildIndex, In
<1> HIDE DEF d
<1> QED
  BY <1>2, <1>3, FlatParts, SetCall

\* The walk visits one file.
LEMMA WalkFileCalls ==
  ASSUME FlatTypeOK, NEW p \in Proc, WalkFile(p)
  PROVE  \E id \in call[p].todo :
           /\ call' \in [Proc -> Call]
           /\ \A q \in Proc \ {p} : call'[q] = call[q]
           /\ call[p].pc = "walk" /\ call'[p].pc = "walk"
           /\ call'[p].req = call[p].req /\ call'[p].fd = call[p].fd
           /\ call'[p].seen = call[p].seen /\ call'[p].need = call[p].need
           /\ call'[p].still = call[p].still
           /\ call'[p].cand = call[p].cand \cup RecordOf(id, call[p].need)
           /\ call'[p].todo = call[p].todo \ {id}
<1>1. PICK id \in First(call[p].todo) :
        call' = [call EXCEPT ![p].cand = @ \cup RecordOf(id, call[p].need),
                             ![p].todo = @ \ {id}]
  BY DEF WalkFile
<1> DEFINE s == call[p].cand \cup RecordOf(id, call[p].need)
           u == call[p].todo \ {id}
           d == [call[p] EXCEPT !.cand = s, !.todo = u]
<1>2. call[p] \in Call /\ s \subseteq File /\ u \subseteq Nat /\ id \in call[p].todo
  BY FlatParts, CallFields DEF RecordOf, At, Readable, First
<1>3. call' = [call EXCEPT ![p] = d] /\ call[p].pc = "walk"
  BY <1>1 DEF WalkFile, In
<1>4. /\ d \in Call /\ d.pc = call[p].pc /\ d.req = call[p].req /\ d.fd = call[p].fd
      /\ d.seen = call[p].seen /\ d.need = call[p].need /\ d.still = call[p].still
      /\ d.cand = s /\ d.todo = u
  <2> HIDE DEF s, u
  <2> QED BY <1>2 DEF Call
<1> HIDE DEF d
<1>5. /\ call' \in [Proc -> Call] /\ call'[p] = d
      /\ \A q \in Proc \ {p} : call'[q] = call[q]
  BY <1>3, <1>4, FlatParts, SetCall
<1> QED
  BY <1>2, <1>3, <1>4, <1>5

\* The walk is over and the index files are chosen.
LEMMA WalkDoneCalls ==
  ASSUME FlatTypeOK, NEW p \in Proc, WalkDone(p)
  PROVE  /\ call' \in [Proc -> Call]
         /\ \A q \in Proc \ {p} : call'[q] = call[q]
         /\ call[p].pc = "walk" /\ call[p].todo = {} /\ call'[p].pc = "write"
         /\ call'[p].req = call[p].req /\ call'[p].fd = call[p].fd
         /\ call'[p].seen = call[p].seen /\ call'[p].need = call[p].need
         /\ call'[p].still = call[p].still /\ call'[p].cand = call[p].cand
         /\ call'[p].todo = Planned(call[p].cand)
<1> DEFINE u == Planned(call[p].cand)
           d == [call[p] EXCEPT !.pc = "write", !.todo = u]
<1>1. call[p] \in Call /\ u \subseteq Nat
  BY FlatParts, FlatFileAssumption DEF Planned, IndexFile, Single
<1>2. call' = [call EXCEPT ![p] = d] /\ call[p].pc = "walk" /\ call[p].todo = {}
  BY DEF WalkDone, In, Planned, Sharded
<1>3. /\ d \in Call /\ d.pc = "write" /\ d.req = call[p].req /\ d.fd = call[p].fd
      /\ d.seen = call[p].seen /\ d.need = call[p].need /\ d.still = call[p].still
      /\ d.cand = call[p].cand /\ d.todo = u
  <2> HIDE DEF u
  <2> QED BY <1>1 DEF Call
<1> HIDE DEF d
<1> QED
  BY <1>2, <1>3, FlatParts, SetCall

\* One index file is written.
LEMMA WriteIndexCalls ==
  ASSUME FlatTypeOK, NEW p \in Proc, WriteIndex(p)
  PROVE  \E x \in call[p].todo :
           /\ index' = [index EXCEPT ![x] = RecordsFor(p, x)]
           /\ call' \in [Proc -> Call]
           /\ \A q \in Proc \ {p} : call'[q] = call[q]
           /\ call[p].pc = "write" /\ call'[p].pc = "write"
           /\ call'[p].req = call[p].req /\ call'[p].fd = call[p].fd
           /\ call'[p].seen = call[p].seen /\ call'[p].need = call[p].need
           /\ call'[p].still = call[p].still /\ call'[p].cand = call[p].cand
           /\ call'[p].todo = call[p].todo \ {x}
<1>1. PICK x \in First(call[p].todo) :
        /\ index' = [index EXCEPT ![x] = RecordsFor(p, x)]
        /\ call' = [call EXCEPT ![p].todo = @ \ {x}]
  BY DEF WriteIndex
<1> DEFINE u == call[p].todo \ {x}
           d == [call[p] EXCEPT !.todo = u]
<1>2. call[p] \in Call /\ u \subseteq Nat /\ x \in call[p].todo
  BY FlatParts, CallFields DEF First
<1>3. call' = [call EXCEPT ![p] = d] /\ call[p].pc = "write"
  BY <1>1 DEF WriteIndex, In
<1>4. /\ d \in Call /\ d.pc = call[p].pc /\ d.req = call[p].req /\ d.fd = call[p].fd
      /\ d.seen = call[p].seen /\ d.need = call[p].need /\ d.still = call[p].still
      /\ d.cand = call[p].cand /\ d.todo = u
  <2> HIDE DEF u
  <2> QED BY <1>2 DEF Call
<1> HIDE DEF d
<1>5. /\ call' \in [Proc -> Call] /\ call'[p] = d
      /\ \A q \in Proc \ {p} : call'[q] = call[q]
  BY <1>3, <1>4, FlatParts, SetCall
<1> QED
  BY <1>1, <1>2, <1>3, <1>4, <1>5
-----------------------------------------------------------------------------
(* The steps, as far as the volume is concerned.                           *)

\* The call of p is cut short: a write fails, the program dies or is restarted.
Cut(p) ==
  /\ tmp' = LeftBy(p) /\ call' = [call EXCEPT ![p] = NoCall]
  /\ UNCHANGED <<now, users, present, files, disk, index, risked>>

\* A step of program p.
Program(p) ==
  \/ \E id \in ID, wf \in WF : PutCall(p, id, wf)
  \/ CheckUsage(p) \/ EvictScan(p) \/ EvictOne(p) \/ EvictDone(p)
  \/ OpenTmp(p) \/ Fill(p) \/ Rename(p) \/ RenameFails(p) \/ RemoveTmp(p) \/ Cut(p)
  \/ BuildIndex(p) \/ WalkFile(p) \/ WalkDone(p) \/ WriteIndex(p) \/ IndexDone(p)

\* A step of the clock, the medium or the nodes it is taken to.
Medium ==
  \/ Tick \/ Flush \/ Plug
  \/ Loop \in users /\ Unplug
  \/ \E id \in ID, wf \in WF : Visit(id, wf)

\* A step of `snk mass-storage` on the volume.
LEMMA ToolProgram ==
  ASSUME TypeOK, NEW p \in Proc, ToolStep(p)
  PROVE  Program(p) \/ UNCHANGED flatVars
<1>1. ToolPut(p) => Program(p) \/ UNCHANGED flatVars
  <2> SUFFICES ASSUME ToolPut(p) PROVE Program(p) \/ UNCHANGED flatVars
    OBVIOUS
  <2>1. PICK b \in job[p].next : PutCall(p, b[1], b[2]) \/ UNCHANGED flatVars
    BY DEF ToolPut
  <2>2. b[1] \in ID /\ b[2] \in WF
    BY DEF TypeOK, Job
  <2> QED
    BY <2>1, <2>2 DEF Program
<1>2. ToolStart(p) \/ ToolRef(p) => UNCHANGED flatVars
  BY DEF ToolStart, ToolRef
<1>3. ToolWriteFails(p) \/ ToolStops(p) => Program(p) \/ UNCHANGED flatVars
  BY DEF ToolWriteFails, ToolStops, Abort, Cut, Program
<1>4. ToolIndex(p) \/ CallStep(p) => Program(p)
  BY DEF ToolIndex, CallStep, Program
<1> QED
  BY <1>1, <1>2, <1>3, <1>4 DEF ToolStep

\* There are no others.
LEMMA FlatSteps ==
  ASSUME TypeOK, [Next]_vars
  PROVE  (\E p \in Proc : Program(p)) \/ Medium \/ UNCHANGED flatVars
<1>1. Loop \in Proc
  BY UsbAssumption
<1>2. \A p \in Proc : CallStep(p) => Program(p)
  BY DEF CallStep, Program
<1>3. \A p \in Proc : Abort(p) => Program(p)
  BY DEF Abort, Cut, Program
<1>4. \A b \in LocalBlocks : LocalPut(b[1], b[2]) => UNCHANGED flatVars
  BY DEF LocalPut
<1>5. LocalEvict => UNCHANGED flatVars
  BY DEF LocalEvict
<1>6. \A b \in VisitBlocks : Visit(b[1], b[2]) => Medium
  BY UsbAssumption DEF Medium
<1>7. BeginRound \/ ListVolume \/ PullRef \/ EndPull \/ ListStore \/ PushSkip \/ NextPage \/ EndPush
      => UNCHANGED flatVars
  BY DEF BeginRound, ListVolume, PullRef, EndPull, ListStore, PushSkip, NextPage, EndPush
<1>8. PushRef => Program(Loop)
  <2> SUFFICES ASSUME PushRef PROVE Program(Loop)
    OBVIOUS
  <2>1. PICK e \in page, b \in db.block : PutCall(Loop, b.id, b.wf)
    BY DEF PushRef
  <2>2. b.id \in ID /\ b.wf \in WF
    BY DEF TypeOK, DB, Ref
  <2> QED
    BY <2>1, <2>2 DEF Program
<1>9. Restart \/ WriteFails => Program(Loop)
  BY <1>1, <1>3 DEF Restart, WriteFails, Program, Cut
<1>10. /\ VolumeOut => Medium
       /\ RefFails \/ ListFails => UNCHANGED flatVars
  BY DEF VolumeOut, Medium, RefFails, ListFails
<1>11. \A p \in Proc : ToolStep(p) => Program(p) \/ UNCHANGED flatVars
  BY ToolProgram
<1>13. Flush \/ Tick \/ Plug => Medium
  BY DEF Medium
<1>14. LoopStep => (\E p \in Proc : Program(p)) \/ UNCHANGED flatVars
  BY <1>1, <1>2, <1>7, <1>8 DEF LoopStep
<1>15. CASE Next
  BY <1>1, <1>4, <1>5, <1>6, <1>9, <1>10, <1>11, <1>13, <1>14, <1>15
     DEF Next, NodeStep, Trouble, Environment
<1> QED
  BY <1>15 DEF vars

\* What a program writes to the volume has its type.
LEMMA ProgramType ==
  ASSUME FlatTypeOK, NEW p \in Proc, Program(p)
  PROVE  /\ files' \subseteq File /\ Unique(files') /\ tmp' \subseteq File /\ Unique(tmp')
         /\ index' \in [IndexFile -> SUBSET File] /\ call' \in [Proc -> Call]
         /\ risked' \subseteq ID
         /\ UNCHANGED <<now, users, present, disk>>
<1>1. /\ files \subseteq File /\ Unique(files) /\ tmp \subseteq File /\ Unique(tmp)
      /\ index \in [IndexFile -> SUBSET File] /\ risked \subseteq ID
      /\ call[p] \in Call /\ call[p].req \subseteq File /\ call[p].cand \subseteq File
  BY FlatParts, CallFields
<1>2. ASSUME NEW id \in ID, NEW wf \in WF, PutCall(p, id, wf)
      PROVE  call' \in [Proc -> Call] /\ UNCHANGED <<files, tmp, index, risked, now, users, present, disk>>
  BY <1>2, PutCallCalls DEF PutCall
<1>3. CASE CheckUsage(p)
  BY <1>1, <1>3, CheckUsageCalls DEF CheckUsage
<1>4. CASE EvictScan(p) \/ EvictDone(p)
  BY <1>1, <1>4, EvictCalls DEF EvictScan, EvictDone
<1>5. CASE EvictOne(p)
  <2>1. /\ call' \in [Proc -> Call] /\ files' \subseteq files
        /\ UNCHANGED <<tmp, index, risked, now, users, present, disk>>
    BY <1>5, EvictOneCalls DEF EvictOne
  <2> QED
    BY <1>1, <2>1 DEF Unique
<1>6. CASE OpenTmp(p)
  <2>1. PICK r \in call[p].req :
          /\ tmp' = Replaced(tmp, [r EXCEPT !.part = "none"])
          /\ risked' = IF Racing(p, r.id) THEN risked \cup {r.id} ELSE risked
    BY <1>6 DEF OpenTmp
  <2>2. r \in File /\ r.id \in ID /\ [r EXCEPT !.part = "none"] \in File
    BY <1>1 DEF File
  <2>3. tmp' \subseteq File /\ Unique(tmp') /\ risked' \subseteq ID
    BY <1>1, <2>1, <2>2, ReplacedFiles
  <2> QED
    BY <1>1, <1>6, <2>3, OpenTmpCalls DEF OpenTmp
<1>7. CASE Fill(p)
  <2>1. PICK r \in call[p].req :
          /\ tmp' = IF call[p].fd = "tmp" THEN Replaced(tmp, r) ELSE tmp
          /\ files' = IF call[p].fd = "path" THEN Replaced(files, r) ELSE files
          /\ call' \in [Proc -> Call]
    BY <1>7, FillCalls
  <2>2. files' \subseteq File /\ Unique(files') /\ tmp' \subseteq File /\ Unique(tmp')
    BY <1>1, <2>1, ReplacedFiles
  <2> QED
    BY <1>1, <1>7, <2>1, <2>2 DEF Fill
<1>8. CASE Rename(p)
  <2>1. PICK r \in call[p].req, t \in tmp :
          /\ files' = Replaced(files, t) /\ tmp' = tmp \ {t}
          /\ risked' = IF t.part = "all" /\ ~Racing(p, r.id) THEN risked \ {r.id} ELSE risked
          /\ call' \in [Proc -> Call]
    BY <1>8, RenameCalls
  <2>2. files' \subseteq File /\ Unique(files') /\ tmp' \subseteq File /\ Unique(tmp')
    BY <1>1, <2>1, ReplacedFiles DEF Unique
  <2> QED
    BY <1>1, <1>8, <2>1, <2>2 DEF Rename
<1>9. CASE RenameFails(p)
  BY <1>1, <1>9, RenameFailsCalls DEF RenameFails
<1>10. CASE RemoveTmp(p)
  <2>1. call' \in [Proc -> Call] /\ tmp' \subseteq tmp
    BY <1>10, RemoveTmpCalls
  <2> QED
    BY <1>1, <1>10, <2>1 DEF RemoveTmp, Unique
<1>11. CASE Cut(p)
  <2>1. call' \in [Proc -> Call] /\ tmp' \subseteq tmp
    BY <1>11, EndCalls DEF Cut, LeftBy
  <2> QED
    BY <1>1, <1>11, <2>1 DEF Cut, Unique
<1>12. CASE BuildIndex(p)
  BY <1>1, <1>12, BuildIndexCalls DEF BuildIndex
<1>13. CASE WalkFile(p)
  BY <1>1, <1>13, WalkFileCalls DEF WalkFile
<1>14. CASE WalkDone(p)
  BY <1>1, <1>14, WalkDoneCalls DEF WalkDone
<1>15. CASE WriteIndex(p)
  <2>1. PICK x \in call[p].todo : index' = [index EXCEPT ![x] = RecordsFor(p, x)]
                                  /\ call' \in [Proc -> Call]
    BY <1>15, WriteIndexCalls
  <2>2. RecordsFor(p, x) \subseteq File
    BY <1>1 DEF RecordsFor
  <2>3. index' \in [IndexFile -> SUBSET File]
    BY <1>1, <2>1, <2>2
  <2> QED
    BY <1>1, <1>15, <2>1, <2>3 DEF WriteIndex
<1>16. CASE IndexDone(p)
  BY <1>1, <1>16, EndCalls DEF IndexDone
<1>17. CASE \E id \in ID, wf \in WF : PutCall(p, id, wf)
  BY <1>1, <1>2, <1>17
<1> QED
  BY <1>3, <1>4, <1>5, <1>6, <1>7, <1>8, <1>9, <1>10, <1>11, <1>12, <1>13, <1>14,
     <1>15, <1>16, <1>17 DEF Program

\* What is left of a file is at most one file of the same block.
LEMMA LeftFile ==
  ASSUME FlatTypeOK, NEW id \in ID, NEW how \in {"old", "all", "header", "none"}
  PROVE  /\ Left(id, how) \subseteq File /\ Unique(Left(id, how))
         /\ \A f \in Left(id, how) : f.id = id
<1> DEFINE cut(f) == IF how = "all" \/ f.part # "all" THEN f ELSE [f EXCEPT !.part = how]
<1>1. /\ At(files, id) \subseteq File /\ At(disk, id) \subseteq File
      /\ \A f, g \in At(files, id) : f = g
      /\ \A f, g \in At(disk, id) : f = g
      /\ \A f \in At(files, id) \cup At(disk, id) : f.id = id
  BY FlatParts DEF At, Unique
<1>2. CASE how = "old"
  BY <1>1, <1>2 DEF Left, Unique
<1>3. CASE how # "old"
  <2>1. Left(id, how) = {cut(f) : f \in At(files, id)}
    BY <1>3 DEF Left
  <2>2. ASSUME NEW f \in At(files, id) PROVE cut(f) \in File /\ cut(f).id = id
    BY <1>1, <1>3 DEF File
  <2> HIDE DEF cut
  <2> QED
    BY <1>1, <2>1, <2>2 DEF Unique
<1> QED
  BY <1>2, <1>3

\* The volume after it is pulled out.
LEMMA UnplugFiles ==
  ASSUME FlatTypeOK, Unplug
  PROVE  files' \subseteq File /\ Unique(files') /\ disk' = files' /\ risked' \subseteq ID
<1> DEFINE cached == {id \in ID : At(files, id) # At(disk, id)}
<1>1. PICK how \in [cached -> {"old", "all", "header", "none"}] :
        files' = {f \in files : f.id \notin cached} \cup UNION {Left(id, how[id]) : id \in cached}
  BY DEF Unplug
<1>2. \A id \in cached : id \in ID /\ how[id] \in {"old", "all", "header", "none"}
  BY <1>1
<1>3. \A id \in cached : /\ Left(id, how[id]) \subseteq File /\ Unique(Left(id, how[id]))
                         /\ \A f \in Left(id, how[id]) : f.id = id
  BY <1>2, LeftFile
<1> HIDE DEF cached
<1>4. ASSUME NEW f \in files'
      PROVE  /\ f \in File
             /\ \/ f \in files /\ f.id \notin cached
                \/ f.id \in cached /\ f \in Left(f.id, how[f.id])
  BY <1>1, <1>3, FlatParts
<1>5. Unique(files')
  BY <1>3, <1>4, FlatParts DEF Unique
<1>6. risked' \subseteq ID
  <2>1. risked' = risked \cup {f.id : f \in {g \in files' \ files : g.part # "all"}}
    BY DEF Unplug
  <2> QED
    BY <1>4, <2>1, FlatParts DEF File
<1> QED
  BY <1>4, <1>5, <1>6 DEF Unplug

\* The volume has its type after every step.
LEMMA FlatTypeNext ==
  ASSUME TypeOK, [Next]_vars
  PROVE  FlatTypeOK'
<1>1. FlatTypeOK
  BY DEF TypeOK
<1>2. /\ now \in 1..MaxTime /\ users \in Users /\ present \in BOOLEAN
      /\ files \subseteq File /\ Unique(files) /\ disk \subseteq File /\ Unique(disk)
      /\ tmp \subseteq File /\ Unique(tmp) /\ call \in [Proc -> Call]
      /\ index \in [IndexFile -> SUBSET File] /\ risked \subseteq ID
  BY <1>1 DEF FlatTypeOK, Unique
<1>3. ASSUME /\ now' \in 1..MaxTime /\ users' \in Users /\ present' \in BOOLEAN
             /\ files' \subseteq File /\ Unique(files') /\ disk' \subseteq File /\ Unique(disk')
             /\ tmp' \subseteq File /\ Unique(tmp') /\ call' \in [Proc -> Call]
             /\ index' \in [IndexFile -> SUBSET File] /\ risked' \subseteq ID
      PROVE  FlatTypeOK'
  BY <1>3 DEF FlatTypeOK, Unique
<1>4. ASSUME NEW p \in Proc, Program(p) PROVE FlatTypeOK'
  <2>1. /\ files' \subseteq File /\ Unique(files') /\ tmp' \subseteq File /\ Unique(tmp')
        /\ index' \in [IndexFile -> SUBSET File] /\ call' \in [Proc -> Call]
        /\ risked' \subseteq ID
    BY <1>1, <1>4, ProgramType
  <2>2. now' = now /\ users' = users /\ present' = present /\ disk' = disk
    BY <1>1, <1>4, ProgramType
  <2> QED
    BY <1>2, <1>3, <2>1, <2>2
<1>5. CASE Tick
  <2>1. now' \in 1..MaxTime
    BY <1>2, <1>5, FlatFileAssumption DEF Tick
  <2>2. /\ users' = users /\ present' = present /\ files' = files /\ disk' = disk
        /\ tmp' = tmp /\ index' = index /\ call' = call /\ risked' = risked
    BY <1>5 DEF Tick
  <2> QED
    BY <1>2, <1>3, <2>1, <2>2
<1>6. CASE Flush
  <2>1. /\ users' = users /\ present' = present /\ files' = files /\ disk' = files
        /\ tmp' = tmp /\ index' = index /\ call' = call /\ risked' = risked /\ now' = now
    BY <1>6 DEF Flush
  <2> QED
    BY <1>2, <1>3, <2>1
<1>7. CASE Plug
  <2>1. /\ users' = users /\ present' = TRUE /\ files' = files /\ disk' = disk
        /\ tmp' = tmp /\ index' = index /\ call' = call /\ risked' = risked /\ now' = now
    BY <1>7 DEF Plug
  <2> QED
    BY <1>2, <1>3, <2>1
<1>8. CASE Unplug
  <2>1. /\ users' = users /\ present' = FALSE /\ tmp' = {} /\ index' = index /\ now' = now
        /\ call' = [p \in Proc |-> NoCall]
    BY <1>8 DEF Unplug
  <2>2. call' \in [Proc -> Call] /\ Unique(tmp')
    BY <2>1, NoCallType DEF Unique
  <2>3. files' \subseteq File /\ Unique(files') /\ disk' = files' /\ risked' \subseteq ID
    BY <1>1, <1>8, UnplugFiles
  <2> QED
    BY <1>2, <1>3, <2>1, <2>2, <2>3
<1>9. ASSUME NEW id \in ID, NEW wf \in WF, Visit(id, wf) PROVE FlatTypeOK'
  <2> DEFINE f == [id |-> id, createdAt |-> now, wf |-> wf, part |-> "all"]
  <2>1. f \in File /\ f.id = id
    BY <1>2 DEF File
  <2>2. /\ users' = users /\ present' = present /\ tmp' = tmp /\ index' = index
        /\ call' = call /\ risked' = risked /\ now' = now /\ disk' = files'
        /\ files' = Replaced(files, f)
    BY <1>9 DEF Visit, Replaced
  <2> HIDE DEF f
  <2>3. files' \subseteq File /\ Unique(files')
    BY <1>2, <2>1, <2>2, ReplacedFiles
  <2> QED
    BY <1>2, <1>3, <2>2, <2>3
<1>10. CASE UNCHANGED flatVars
  <2>1. /\ users' = users /\ present' = present /\ files' = files /\ disk' = disk
        /\ tmp' = tmp /\ index' = index /\ call' = call /\ risked' = risked /\ now' = now
    BY <1>10 DEF flatVars
  <2> QED
    BY <1>2, <1>3, <2>1
<1> QED
  BY <1>4, <1>5, <1>6, <1>7, <1>8, <1>9, <1>10, FlatSteps DEF Medium
-----------------------------------------------------------------------------
(* The store of the node and the loop that syncs it.                       *)

\* The clock does not go back.
LEMMA ClockStep ==
  ASSUME TypeOK, [Next]_vars
  PROVE  now \in Nat /\ now' \in Nat /\ now <= now'
<1>1. now \in Nat /\ now' \in Nat
  BY FlatTypeNext DEF TypeOK, FlatTypeOK
<1>2. FlatTypeOK
  BY DEF TypeOK
<1>3. ASSUME NEW p \in Proc, Program(p) PROVE now' = now
  BY <1>2, <1>3, ProgramType
<1>4. Medium => now' = now \/ now' = now + 1
  BY DEF Medium, Tick, Flush, Plug, Unplug, Visit
<1> QED
  BY <1>1, <1>3, <1>4, FlatSteps DEF flatVars

\* The store after a Put of the loop or of another user of the node.
LEMMA StorePut ==
  ASSUME TypeOK, StoreInv, NEW id \in ID, NEW wf \in WF,
         db' = PutTxn(db, [id |-> id, createdAt |-> now, wf |-> wf,
                           tag |-> CHOOSE t \in Tag : TRUE], now)
  PROVE  db' \in DB /\ Consistent(db', now) /\ IsFiniteSet(db'.trav)
<1> DEFINE r == [id |-> id, createdAt |-> now, wf |-> wf, tag |-> CHOOSE t \in Tag : TRUE]
<1>1. now \in Nat /\ db \in DB /\ Consistent(db, now) /\ IsFiniteSet(db.trav)
  BY DEF TypeOK, FlatTypeOK, StoreInv
<1>2. r \in Ref /\ r.createdAt <= now
  BY <1>1, UsbAssumption DEF Ref
<1> HIDE DEF r
<1>3. PutTxn(db, r, now) \in DB /\ Consistent(PutTxn(db, r, now), now)
  BY <1>1, <1>2, PutBrings, PutConsistent
<1>4. IsFiniteSet(PutTxn(db, r, now).trav)
  BY <1>1, <1>2, PutBrings
<1> QED
  BY <1>3, <1>4 DEF r

\* One file of the volume copied into the store.
LEMMA PullPut ==
  ASSUME TypeOK, StoreInv, PullRef
  PROVE  db' \in DB /\ Consistent(db', now) /\ IsFiniteSet(db'.trav)
<1>1. PICK e \in page :
        LET there == {b \in db.block : b.id = e.id}
            src   == IF present THEN At(Whole(files), e.id) ELSE {}
        IN  db' = IF src = {} \/ Skipped(e.wf, there) THEN db
                  ELSE LET f == CHOOSE g \in src : TRUE
                       IN  PutTxn(db, [id |-> e.id, createdAt |-> now, wf |-> f.wf,
                                       tag |-> CHOOSE t \in Tag : TRUE], now)
  BY DEF PullRef
<1> DEFINE src == IF present THEN At(Whole(files), e.id) ELSE {}
           f == CHOOSE g \in src : TRUE
<1>2. CASE db' = db
  BY <1>2 DEF TypeOK, StoreInv
<1>3. CASE db' # db
  <2>1. /\ src # {}
        /\ db' = PutTxn(db, [id |-> e.id, createdAt |-> now, wf |-> f.wf,
                             tag |-> CHOOSE t \in Tag : TRUE], now)
    BY <1>1, <1>3
  <2>2. src \subseteq File
    BY DEF At, Whole, TypeOK, FlatTypeOK
  <2>3. f \in src
    <3> HIDE DEF src
    <3> QED BY <2>1
  <2>4. e.id \in ID
    BY DEF TypeOK, Ref, File
  <2>5. f.wf \in WF
    <3> HIDE DEF f
    <3> QED BY <2>2, <2>3 DEF File
  <2> HIDE DEF f
  <2> QED
    BY <2>1, <2>4, <2>5, StorePut
<1> QED
  BY <1>2, <1>3

\* The database of the node stays consistent.
LEMMA StoreNext ==
  ASSUME TypeOK, StoreInv, [Next]_vars
  PROVE  db' \in DB /\ StoreInv'
<1>1. /\ now \in Nat /\ now' \in Nat /\ now <= now' /\ db \in DB
      /\ Consistent(db, now) /\ IsFiniteSet(db.trav)
  BY ClockStep DEF TypeOK, StoreInv
<1>2. SUFFICES db' \in DB /\ Consistent(db', now) /\ IsFiniteSet(db'.trav)
  BY <1>1, ConsistentLater DEF StoreInv
<1>3. ASSUME NEW b \in LocalBlocks, LocalPut(b[1], b[2])
      PROVE  db' \in DB /\ Consistent(db', now) /\ IsFiniteSet(db'.trav)
  <2>1. b[1] \in ID /\ b[2] \in WF
    BY UsbAssumption
  <2> QED
    BY <1>3, <2>1, StorePut DEF LocalPut
<1>4. CASE LocalEvict
  <2>1. PICK c \in db.block : db' = EvictTxn(db, c, now)
    BY <1>4 DEF LocalEvict
  <2>2. c \in Ref
    BY <1>1 DEF DB
  <2>3. db' \in DB /\ Consistent(db', now) /\ db'.trav \subseteq db.trav
    BY <1>1, <2>1, <2>2, EvictConsistent, EvictShrinks
  <2> QED
    BY <1>1, <2>3, FS_Subset
<1>5. CASE PullRef
  BY <1>5, PullPut
<1>6. CASE db' = db
  BY <1>1, <1>6
<1>7. CASE Next
  <2>1. \A id, wf : Visit(id, wf) => db' = db
    BY DEF Visit
  <2>2. BeginRound \/ ListVolume \/ EndPull \/ ListStore \/ PushRef \/ PushSkip \/ NextPage
        \/ EndPush => db' = db
    BY DEF BeginRound, ListVolume, EndPull, ListStore, PushRef, PushSkip, NextPage, EndPush
  <2>3. Restart \/ Trouble \/ VolumeOut => db' = db
    BY DEF Restart, Trouble, RefFails, WriteFails, ListFails, VolumeOut
  <2>4. LoopStep => PullRef \/ db' = db
    BY <2>2 DEF LoopStep
  <2>5. \A p : ToolStep(p) => db' = db
    BY DEF ToolStep
  <2> QED
    BY <1>3, <1>4, <1>5, <1>6, <1>7, <2>1, <2>3, <2>4, <2>5 DEF Next, NodeStep
<1> QED
  BY <1>6, <1>7 DEF vars

\* A page of the volume or of the store, and the token after it.
LEMMA PageType ==
  ASSUME NEW d, Keyed(d.trav), KeysUnique(d.trav), IsFiniteSet(d.trav), NEW from
  PROVE  LET refs == Page(d, from, PageSize, 0, 0)
         IN  /\ refs \subseteq d.trav
             /\ NextCursor(refs, PageSize) \in [createdAt : Nat, id : Nat]
<1>1. PageSize \in Nat \ {0}
  BY UsbAssumption
<1>2. LET open == Listable(d, from, 0, 0)
          refs == Page(d, from, PageSize, 0, 0)
          next == NextCursor(refs, PageSize)
      IN  /\ refs \subseteq open /\ open \subseteq d.trav
          /\ next \in [createdAt : Nat, id : Nat]
  BY <1>1, PageComplete
<1> QED
  BY <1>2

\* The token after a page that could not be listed.
LEMMA EmptyPage == NextCursor({}, PageSize) = NoCursor
<1>1. Cardinality({}) = 0 /\ PageSize # 0
  BY UsbAssumption, FS_EmptySet
<1> QED
  BY <1>1 DEF NextCursor

\* The empty token is one.
LEMMA CursorType == NoCursor \in [createdAt : Nat, id : Nat]
BY DEF NoCursor

\* What a half of a round owes.
LEMMA WorksType ==
  ASSUME NEW S, \A b \in S : b.id \in ID /\ b.wf \in WF
  PROVE  Works(S) \subseteq Owed
BY DEF Works, Owed

\* The loop's own state has its type after every step.
LEMMA LoopTypeNext ==
  ASSUME TypeOK, StoreInv, [Next]_vars
  PROVE  /\ half' \in {"idle", "pull-list", "pull", "push-list", "push"}
         /\ cursor' \in [createdAt : Nat, id : Nat]
         /\ page' \subseteq Ref \cup File
         /\ owed' \subseteq Owed
<1>1. /\ half \in {"idle", "pull-list", "pull", "push-list", "push"}
      /\ cursor \in [createdAt : Nat, id : Nat]
      /\ page \subseteq Ref \cup File
      /\ owed \subseteq Owed /\ db \in DB /\ files \subseteq File /\ Unique(files)
      /\ Consistent(db, now) /\ IsFiniteSet(db.trav)
  BY DEF TypeOK, FlatTypeOK, StoreInv, Unique
<1>2. CASE half' = half /\ cursor' = cursor /\ page' \subseteq page /\ owed' \subseteq owed
  BY <1>1, <1>2
<1>3. CASE BeginRound
  <2>1. Works(Whole(files)) \subseteq Owed
    BY <1>1, WorksType DEF Whole, File
  <2> QED
    BY <1>1, <1>3, <2>1 DEF BeginRound
<1>4. CASE ListVolume
  <2> DEFINE d == Listing(files)
  <2>1. d.trav \subseteq files
    BY DEF Listing, Readable
  <2>2. Keyed(d.trav) /\ KeysUnique(d.trav) /\ IsFiniteSet(d.trav)
    BY <1>1, <2>1, FilesFinite, FS_Subset DEF Keyed, KeysUnique, Unique, File
  <2> HIDE DEF d
  <2>3. /\ Page(d, cursor, PageSize, 0, 0) \subseteq d.trav
        /\ NextCursor(Page(d, cursor, PageSize, 0, 0), PageSize) \in [createdAt : Nat, id : Nat]
    BY <2>2, PageType
  <2>4. /\ page' = IF present THEN Page(d, cursor, PageSize, 0, 0) ELSE {}
        /\ cursor' = NextCursor(page', PageSize) /\ half' = "pull" /\ owed' = owed
    BY <1>4 DEF ListVolume, d
  <2>5. cursor' \in [createdAt : Nat, id : Nat]
    BY <2>3, <2>4, EmptyPage, CursorType
  <2> QED
    BY <1>1, <2>1, <2>3, <2>4, <2>5
<1>5. CASE ListStore
  <2>1. Keyed(db.trav) /\ KeysUnique(db.trav) /\ IsFiniteSet(db.trav) /\ db.trav \subseteq Ref
    BY <1>1 DEF Keyed, KeysUnique, Consistent, DB, Ref
  <2>2. /\ Page(db, cursor, PageSize, 0, 0) \subseteq db.trav
        /\ NextCursor(Page(db, cursor, PageSize, 0, 0), PageSize) \in [createdAt : Nat, id : Nat]
    BY <2>1, PageType
  <2>3. /\ page' = Page(db, cursor, PageSize, 0, 0)
        /\ cursor' = NextCursor(page', PageSize) /\ half' = "push" /\ owed' = owed
    BY <1>5 DEF ListStore
  <2> QED
    BY <1>1, <2>1, <2>2, <2>3
<1>6. CASE NextPage
  BY <1>1, <1>6 DEF NextPage
<1>7. CASE EndPull
  <2>1. Works(db.block) \subseteq Owed
    BY <1>1, WorksType DEF DB, Ref
  <2> QED
    BY <1>1, <1>7, <2>1 DEF EndPull
<1>8. CASE EndPush
  BY <1>1, <1>8 DEF EndPush
<1>9. CASE Restart
  BY <1>9, CursorType DEF Restart
<1>10. PullRef \/ PushRef \/ PushSkip
       => half' = half /\ cursor' = cursor /\ page' \subseteq page /\ owed' \subseteq owed
  BY DEF PullRef, PushRef, PushSkip
<1>11. CASE Next
  <2>1. /\ \A id, wf : Visit(id, wf) => UNCHANGED loop
        /\ \A id, wf : LocalPut(id, wf) => UNCHANGED loop
    BY DEF Visit, LocalPut
  <2>2. LocalEvict \/ RefFails \/ WriteFails \/ VolumeOut
        => half' = half /\ cursor' = cursor /\ page' \subseteq page /\ owed' \subseteq owed
    BY DEF LocalEvict, RefFails, WriteFails, VolumeOut
  <2>3. UNCHANGED loop
        => half' = half /\ cursor' = cursor /\ page' \subseteq page /\ owed' \subseteq owed
    BY DEF loop
  <2>4. CASE LoopStep
    BY <1>2, <1>3, <1>4, <1>5, <1>6, <1>7, <1>8, <1>10, <2>3, <2>4 DEF LoopStep
  <2>5. CASE ListFails
    <3>1. Works(db.block) \subseteq Owed
      BY <1>1, WorksType DEF DB, Ref
    <3> QED
      BY <1>1, <2>5, <3>1, CursorType DEF ListFails
  <2>6. \A p : ToolStep(p) => UNCHANGED loop
    BY DEF ToolStep, loop
  <2> QED
    BY <1>2, <1>9, <1>11, <2>1, <2>2, <2>3, <2>4, <2>5, <2>6 DEF Next, NodeStep, Trouble
<1>12. CASE UNCHANGED vars
  BY <1>2, <1>12 DEF vars, loop
<1> QED
  BY <1>11, <1>12

\* The jobs of `snk mass-storage` have their type after every step.
LEMMA JobTypeNext ==
  ASSUME TypeOK, [Next]_vars
  PROVE  job' \in [Proc -> Job]
<1>1. job \in [Proc -> Job] /\ NoJob \in Job
  BY DEF TypeOK, Job, NoJob
<1>2. ASSUME NEW p \in Proc, ToolStart(p) PROVE job' \in [Proc -> Job]
  <2>1. PICK S \in SUBSET ToolBlocks[p] :
          job' = [job EXCEPT ![p] = [NoJob EXCEPT !.on = TRUE, !.refs = S]]
    BY <1>2 DEF ToolStart
  <2>2. S \subseteq ID \X WF
    BY UsbAssumption
  <2>3. [NoJob EXCEPT !.on = TRUE, !.refs = S] \in Job
    BY <2>2 DEF Job, NoJob
  <2> QED
    BY <1>1, <2>1, <2>3
<1>3. ASSUME NEW p \in Proc, ToolRef(p) PROVE job' \in [Proc -> Job]
  <2>1. PICK b \in job[p].refs :
          \/ job' = [job EXCEPT ![p].refs = @ \ {b}, ![p].next = {b}]
          \/ job' = [job EXCEPT ![p].refs = @ \ {b}]
    BY <1>3 DEF ToolRef
  <2>2. /\ [job[p] EXCEPT !.refs = @ \ {b}, !.next = {b}] \in Job
        /\ [job[p] EXCEPT !.refs = @ \ {b}] \in Job
    BY <1>1 DEF Job
  <2> QED
    BY <1>1, <2>1, <2>2
<1>4. ASSUME NEW p \in Proc, ToolPut(p) PROVE job' \in [Proc -> Job]
  <2>1. job' = [job EXCEPT ![p].next = {}]
    BY <1>4 DEF ToolPut
  <2>2. [job[p] EXCEPT !.next = {}] \in Job
    BY <1>1 DEF Job
  <2> QED
    BY <1>1, <2>1, <2>2
<1>5. ASSUME NEW p \in Proc, ToolIndex(p) \/ ToolStops(p) PROVE job' \in [Proc -> Job]
  <2>1. job' = [job EXCEPT ![p] = NoJob]
    BY <1>5 DEF ToolIndex, ToolStops
  <2> QED
    BY <1>1, <2>1
<1>6. ASSUME NEW p \in Proc, ToolStep(p) PROVE job' \in [Proc -> Job]
  <2>1. CASE job' = job
    BY <1>1, <2>1
  <2> QED
    BY <1>2, <1>3, <1>4, <1>5, <1>6, <2>1 DEF ToolStep, ToolWriteFails
<1>7. CASE job' = job
  BY <1>1, <1>7
<1> QED
  BY <1>6, <1>7 DEF Next, LoopStep, vars

\* TypeOK is kept.
LEMMA TypeNext ==
  ASSUME TypeOK, StoreInv, [Next]_vars
  PROVE  TypeOK'
<1>1. FlatTypeOK' /\ db' \in DB /\ job' \in [Proc -> Job]
  BY FlatTypeNext, StoreNext, JobTypeNext
<1>2. /\ half' \in {"idle", "pull-list", "pull", "push-list", "push"}
      /\ cursor' \in [createdAt : Nat, id : Nat]
      /\ page' \subseteq Ref \cup File
      /\ owed' \subseteq Owed
  BY LoopTypeNext
<1> QED
  BY <1>1, <1>2 DEF TypeOK
-----------------------------------------------------------------------------
(* The temporary files.                                                    *)

\* The idle call writes nothing.
LEMMA NoCallOK == CallOK(NoCall) /\ NoCall.pc \notin Writing
BY NoCallType DEF CallOK, Writing, Readable

\* A call writes one block.
LEMMA OneBlock ==
  ASSUME FlatTypeOK, NEW p \in Proc, CallOK(call[p]), NEW r \in call[p].req
  PROVE  /\ call[p].req = {r} /\ r \in File /\ r.id \in ID /\ r.part = "all"
         /\ \A id : At(call[p].req, id) # {} <=> id = r.id
<1>1. call[p].req = {r} /\ r.part = "all"
  BY DEF CallOK
<1>2. r \in File /\ r.id \in ID
  BY FlatParts, CallFields DEF File
<1> QED
  BY <1>1, <1>2 DEF At

\* A call that keeps its request and its inode.
LEMMA CallOKSame ==
  ASSUME NEW c, NEW d, CallOK(c), d.req = c.req, d.seen = c.seen,
         d.fd # "none" => c.fd # "none" /\ (c.pc \in Writing => d.pc \in Writing)
  PROVE  CallOK(d)
BY DEF CallOK

\* A call that another program's step did not change, but for its inode.
LEMMA CallOKKin ==
  ASSUME NEW q, CallOK(call[q]), Kin(q)
  PROVE  CallOK(call'[q]) /\ (call'[q].pc \in Writing <=> call[q].pc \in Writing)
BY DEF CallOK, Kin

\* A step of a program that is not at work on a temporary file.
LEMMA WriteQuiet ==
  ASSUME WriteInv, NEW p \in Proc, tmp' = tmp, risked' = risked,
         call[p].pc \notin Writing, call'[p].pc \notin Writing, CallOK(call'[p]),
         \A q \in Proc \ {p} : Kin(q) /\ (call'[q].fd = "tmp" <=> call[q].fd = "tmp")
  PROVE  WriteInv'
<1>1. \A q \in Proc \ {p} : CallOK(call'[q]) /\ call'[q].pc = call[q].pc /\ call'[q].req = call[q].req
  BY CallOKKin DEF WriteInv, Kin
<1>2. \A q \in Proc : CallOK(call'[q])
  BY <1>1
<1>3. Shared'
  BY <1>1 DEF WriteInv, Shared, Writes
<1>4. ShortTmp'
  BY <1>1 DEF WriteInv, ShortTmp, Writing
<1>5. Robbed'
  BY <1>1 DEF WriteInv, Robbed, Writes
<1>6. OwnTmp'
  BY <1>1 DEF WriteInv, OwnTmp, Writing
<1> QED
  BY <1>2, <1>3, <1>4, <1>5, <1>6 DEF WriteInv

\* The temporary file of a call that was cut short stays only if another program
\* works on it.
LEMMA WriteCut ==
  ASSUME FlatTypeOK, WriteInv, NEW p \in Proc, Cut(p)
  PROVE  WriteInv'
<1>1. /\ call'[p] = NoCall /\ \A q \in Proc \ {p} : call'[q] = call[q]
      /\ tmp' = LeftBy(p) /\ risked' = risked
  BY EndCalls DEF Cut
<1>2. \A q \in Proc : CallOK(call'[q])
  BY <1>1, NoCallOK DEF WriteInv
<1>3. call'[p].pc \notin Writing /\ call'[p].req = {} /\ tmp' \subseteq tmp
  BY <1>1, NoCallOK, NoCallType DEF LeftBy
<1>4. Shared'
  BY <1>1, <1>3 DEF WriteInv, Shared, Writes
<1>5. ASSUME NEW t \in tmp', t.part # "all", t.id \notin risked
      PROVE  \E q \in Proc : /\ call'[q].pc = "fill" /\ call'[q].fd = "tmp"
                             /\ At(call'[q].req, t.id) # {}
  <2>1. PICK w \in Proc : /\ call[w].pc = "fill" /\ call[w].fd = "tmp"
                          /\ At(call[w].req, t.id) # {}
    BY <1>3, <1>5 DEF WriteInv, ShortTmp
  <2>2. CASE w = p
    <3>1. PICK q \in Proc \ {p} : call[q].fd = "tmp" /\ At(call[q].req, t.id) # {}
      BY <1>1 DEF LeftBy
    <3>2. Writes(p, t.id) /\ Writes(q, t.id)
      BY <2>1, <2>2, <3>1 DEF Writes, Writing, WriteInv, CallOK
    <3>3. t.id \in ID
      BY <1>3, FlatParts DEF File
    <3> QED
      BY <1>5, <3>1, <3>2, <3>3 DEF WriteInv, Shared
  <2>3. CASE w # p
    BY <1>1, <2>1, <2>3
  <2> QED
    BY <2>2, <2>3
<1>6. ShortTmp'
  BY <1>1, <1>5 DEF ShortTmp
<1>7. Robbed'
  BY <1>1, <1>3 DEF WriteInv, Robbed, Writes
<1>8. OwnTmp'
  BY <1>1, <1>3 DEF WriteInv, OwnTmp
<1> QED
  BY <1>2, <1>4, <1>6, <1>7, <1>8 DEF WriteInv

\* Opening the temporary file of a block that another program is writing puts the
\* block at risk.
LEMMA WriteOpenTmp ==
  ASSUME FlatTypeOK, WriteInv, NEW p \in Proc, OpenTmp(p)
  PROVE  WriteInv'
<1>1. PICK r \in call[p].req :
        /\ tmp' = Replaced(tmp, [r EXCEPT !.part = "none"])
        /\ risked' = IF Racing(p, r.id) THEN risked \cup {r.id} ELSE risked
  BY DEF OpenTmp
<1>2. /\ \A q \in Proc \ {p} : call'[q] = call[q]
      /\ call[p].pc = "open" /\ call'[p].pc = "fill" /\ call'[p].fd = "tmp"
      /\ call'[p].req = call[p].req /\ call'[p].seen = call[p].seen
  BY OpenTmpCalls
<1> DEFINE e == [r EXCEPT !.part = "none"]
<1>3. /\ call[p].req = {r} /\ r.id \in ID /\ e \in File /\ e.id = r.id
      /\ \A id : At(call[p].req, id) # {} <=> id = r.id
  BY OneBlock DEF WriteInv, File
<1>4. \A t : t \in tmp' <=> t = e \/ (t \in tmp /\ t.id # r.id)
  <2>1. tmp' = Replaced(tmp, e)
    BY <1>1
  <2> HIDE DEF e
  <2>2. \A t : t \in Replaced(tmp, e) <=> t = e \/ (t \in tmp /\ t.id # e.id)
    BY <1>3, FlatParts, ReplacedFiles
  <2> QED
    BY <1>3, <2>1, <2>2
<1> HIDE DEF e
<1>5. ASSUME NEW q \in Proc \ {p}, Writes(q, r.id) PROVE r.id \in risked'
  BY <1>1, <1>5 DEF Racing, Writes, Writing
<1>6. risked \subseteq risked'
  BY <1>1
<1>7. \A q \in Proc : CallOK(call'[q])
  BY <1>2 DEF WriteInv, CallOK, Writing
<1>8. Shared'
  <2> SUFFICES ASSUME NEW q \in Proc, NEW u \in Proc, NEW id \in ID, q # u,
                      Writes(q, id)', Writes(u, id)'
               PROVE  id \in risked'
    BY DEF Shared
  <2>1. CASE q # p /\ u # p
    BY <1>2, <1>6, <2>1 DEF WriteInv, Shared, Writes
  <2>2. CASE q = p
    <3>1. id = r.id
      BY <1>2, <1>3, <2>2 DEF Writes
    <3>2. Writes(u, r.id)
      BY <1>2, <2>2, <3>1 DEF Writes
    <3> QED
      BY <1>5, <2>2, <3>1, <3>2
  <2>3. CASE u = p
    <3>1. id = r.id
      BY <1>2, <1>3, <2>3 DEF Writes
    <3>2. Writes(q, r.id)
      BY <1>2, <2>3, <3>1 DEF Writes
    <3> QED
      BY <1>5, <2>3, <3>1, <3>2
  <2> QED
    BY <2>1, <2>2, <2>3
<1>9. ShortTmp'
  <2> SUFFICES ASSUME NEW t \in tmp', t.part # "all", t.id \notin risked'
               PROVE  \E q \in Proc : /\ call'[q].pc = "fill" /\ call'[q].fd = "tmp"
                                      /\ At(call'[q].req, t.id) # {}
    BY DEF ShortTmp
  <2>1. CASE t = e
    BY <1>2, <1>3, <2>1
  <2>2. CASE t # e
    <3>1. PICK q \in Proc : /\ call[q].pc = "fill" /\ call[q].fd = "tmp"
                            /\ At(call[q].req, t.id) # {}
      BY <1>4, <1>6, <2>2 DEF WriteInv, ShortTmp
    <3> QED
      BY <1>2, <3>1
  <2> QED
    BY <2>1, <2>2
<1>10. Robbed'
  BY <1>2, <1>6 DEF WriteInv, Robbed, Writes
<1>11. OwnTmp'
  <2> SUFFICES ASSUME NEW q \in Proc, NEW x \in call'[q].req, NEW t \in tmp',
                      call'[q].pc = "rename", t.id = x.id
               PROVE  t = x \/ x.id \in risked'
    BY DEF OwnTmp
  <2>1. q # p /\ call[q].pc = "rename" /\ x \in call[q].req
    BY <1>2
  <2>2. CASE t = e
    BY <1>3, <1>5, <2>1, <2>2 DEF Writes, Writing, At
  <2>3. CASE t # e
    BY <1>4, <1>6, <2>1, <2>3 DEF WriteInv, OwnTmp
  <2> QED
    BY <2>2, <2>3
<1> QED
  BY <1>7, <1>8, <1>9, <1>10, <1>11 DEF WriteInv

\* A program that still has its temporary file fills it; one that was robbed of it
\* writes to a block at risk.
LEMMA WriteFill ==
  ASSUME FlatTypeOK, WriteInv, NEW p \in Proc, Fill(p)
  PROVE  WriteInv'
<1>1. PICK r \in call[p].req :
        /\ tmp' = IF call[p].fd = "tmp" THEN Replaced(tmp, r) ELSE tmp
        /\ \A q \in Proc \ {p} : Kin(q) /\ call'[q].fd = call[q].fd
        /\ call[p].pc = "fill" /\ call'[p].pc = "rename" /\ call'[p].fd = call[p].fd
        /\ call'[p].req = call[p].req /\ call'[p].seen = call[p].seen
  BY FillCalls
<1>2. risked' = risked
  BY DEF Fill
<1>3. /\ call[p].req = {r} /\ r \in File /\ r.id \in ID /\ r.part = "all"
      /\ \A id : At(call[p].req, id) # {} <=> id = r.id
  BY OneBlock DEF WriteInv
<1>4. call[p].fd = "tmp" => \A t : t \in tmp' <=> t = r \/ (t \in tmp /\ t.id # r.id)
  BY <1>1, <1>3, FlatParts, ReplacedFiles
<1>5. call[p].fd # "tmp" => tmp' = tmp /\ r.id \in risked
  BY <1>1, <1>3 DEF WriteInv, Robbed, Writes, Writing
<1>6. \A q \in Proc : /\ call'[q].req = call[q].req /\ call'[q].fd = call[q].fd
                      /\ call'[q].pc \in Writing <=> call[q].pc \in Writing
  BY <1>1 DEF Kin, Writing
<1>7. \A q \in Proc \ {p} : call'[q].pc = call[q].pc
  BY <1>1 DEF Kin
<1>8. \A q \in Proc : CallOK(call'[q])
  <2>1. CallOK(call'[p])
    BY <1>1, CallOKSame DEF WriteInv, Writing
  <2> QED
    BY <1>1, <2>1, CallOKKin DEF WriteInv
<1>9. Shared'
  BY <1>2, <1>6 DEF WriteInv, Shared, Writes
<1>10. ShortTmp'
  <2> SUFFICES ASSUME NEW t \in tmp', t.part # "all", t.id \notin risked
               PROVE  \E q \in Proc : /\ call'[q].pc = "fill" /\ call'[q].fd = "tmp"
                                      /\ At(call'[q].req, t.id) # {}
    BY <1>2 DEF ShortTmp
  <2>1. t \in tmp /\ (call[p].fd = "tmp" => t.id # r.id)
    BY <1>3, <1>4, <1>5
  <2>2. PICK q \in Proc : /\ call[q].pc = "fill" /\ call[q].fd = "tmp"
                          /\ At(call[q].req, t.id) # {}
    BY <2>1 DEF WriteInv, ShortTmp
  <2>3. q # p
    BY <1>3, <2>1, <2>2
  <2> QED
    BY <1>6, <1>7, <2>2, <2>3
<1>11. Robbed'
  BY <1>2, <1>6 DEF WriteInv, Robbed, Writes
<1>12. OwnTmp'
  <2> SUFFICES ASSUME NEW q \in Proc, NEW x \in call'[q].req, NEW t \in tmp',
                      call'[q].pc = "rename", t.id = x.id
               PROVE  t = x \/ x.id \in risked
    BY <1>2 DEF OwnTmp
  <2>1. CASE q = p
    BY <1>1, <1>3, <1>4, <1>5, <2>1
  <2>2. CASE q # p
    <3>1. call[q].pc = "rename" /\ x \in call[q].req
      BY <1>6, <1>7, <2>2
    <3>2. CASE t \in tmp
      BY <3>1, <3>2 DEF WriteInv, OwnTmp
    <3>3. CASE t \notin tmp
      <4>1. t = r
        BY <1>4, <1>5, <3>3
      <4>2. Writes(p, r.id) /\ Writes(q, r.id)
        BY <1>1, <1>3, <3>1, <4>1 DEF Writes, Writing, At
      <4> QED
        BY <1>3, <2>2, <4>1, <4>2 DEF WriteInv, Shared
    <3> QED
      BY <3>2, <3>3
  <2> QED
    BY <2>1, <2>2
<1> QED
  BY <1>8, <1>9, <1>10, <1>11, <1>12 DEF WriteInv

\* The cleanup after a rename that found nothing.
LEMMA WriteRenameFails ==
  ASSUME FlatTypeOK, WriteInv, NEW p \in Proc, RenameFails(p)
  PROVE  WriteInv'
<1>1. /\ \A q \in Proc \ {p} : call'[q] = call[q]
      /\ call[p].pc = "rename" /\ call'[p].pc = "cleanup" /\ call'[p].fd = call[p].fd
      /\ call'[p].req = call[p].req /\ call'[p].seen = call[p].seen
      /\ tmp' = tmp /\ risked' = risked
  BY RenameFailsCalls DEF RenameFails
<1>2. \A q \in Proc : /\ call'[q].req = call[q].req /\ call'[q].fd = call[q].fd
                      /\ call'[q].pc \in Writing <=> call[q].pc \in Writing
  BY <1>1 DEF Writing
<1>3. \A q \in Proc : CallOK(call'[q])
  BY <1>1, CallOKSame DEF WriteInv, Writing
<1>4. Shared'
  BY <1>1, <1>2 DEF WriteInv, Shared, Writes
<1>5. ShortTmp'
  BY <1>1 DEF WriteInv, ShortTmp
<1>6. Robbed'
  BY <1>1, <1>2 DEF WriteInv, Robbed, Writes
<1>7. OwnTmp'
  BY <1>1 DEF WriteInv, OwnTmp
<1> QED
  BY <1>3, <1>4, <1>5, <1>6, <1>7 DEF WriteInv

\* A program renames or removes the temporary file of id and returns; nobody else
\* at work on it then has it, and the block is at risk.
LEMMA WriteLeave ==
  ASSUME FlatTypeOK, WriteInv, NEW p \in Proc, NEW id \in ID,
         Writes(p, id), call[p].pc # "fill", call'[p] = NoCall,
         \A q \in Proc \ {p} : Kin(q),
         \A q \in Proc \ {p} :
           call'[q].fd = "tmp" <=> call[q].fd = "tmp" /\ At(call[q].req, id) = {},
         tmp' \subseteq tmp, \A t \in tmp' : t.id # id,
         risked \ {id} \subseteq risked',
         (\E q \in Proc \ {p} : Writes(q, id)) => risked \subseteq risked'
  PROVE  WriteInv'
<1>1. call'[p].pc \notin Writing /\ call'[p].pc = "idle" /\ call'[p].req = {}
  BY NoCallOK, NoCallType
<1>2. \A q \in Proc \ {p} : /\ call'[q].pc = call[q].pc /\ call'[q].req = call[q].req
                            /\ CallOK(call'[q])
  BY CallOKKin DEF WriteInv, Kin
<1>3. ASSUME NEW q \in Proc \ {p}, Writes(q, id) PROVE id \in risked'
  <2>1. id \in risked
    BY <1>3 DEF WriteInv, Shared
  <2> QED
    BY <1>3, <2>1
<1>4. \A q \in Proc : CallOK(call'[q])
  BY <1>2, NoCallOK
<1>5. ASSUME NEW q \in Proc, NEW i, Writes(q, i)'
      PROVE  q # p /\ Writes(q, i) /\ (i = id => id \in risked') /\ (i \in risked => i \in risked')
  <2>1. q # p /\ Writes(q, i)
    BY <1>1, <1>2, <1>5 DEF Writes
  <2> QED
    BY <1>3, <2>1
<1>6. Shared'
  <2> SUFFICES ASSUME NEW q \in Proc, NEW u \in Proc, NEW i \in ID, q # u,
                      Writes(q, i)', Writes(u, i)'
               PROVE  i \in risked'
    BY DEF Shared
  <2>1. Writes(q, i) /\ Writes(u, i) /\ (i \in risked => i \in risked')
    BY <1>5
  <2> QED
    BY <2>1 DEF WriteInv, Shared
<1>7. ShortTmp'
  <2> SUFFICES ASSUME NEW t \in tmp', t.part # "all", t.id \notin risked'
               PROVE  \E q \in Proc : /\ call'[q].pc = "fill" /\ call'[q].fd = "tmp"
                                      /\ At(call'[q].req, t.id) # {}
    BY DEF ShortTmp
  <2>1. t \in tmp /\ t.id # id /\ t.id \notin risked
    OBVIOUS
  <2>2. PICK q \in Proc : /\ call[q].pc = "fill" /\ call[q].fd = "tmp"
                          /\ At(call[q].req, t.id) # {}
    BY <2>1 DEF WriteInv, ShortTmp
  <2>3. q # p
    BY <2>2
  <2>4. At(call[q].req, id) = {}
    BY <2>1, <2>2 DEF WriteInv, CallOK, At
  <2> QED
    BY <1>2, <2>2, <2>3, <2>4
<1>8. Robbed'
  <2> SUFFICES ASSUME NEW q \in Proc, NEW i \in ID, Writes(q, i)', call'[q].fd # "tmp"
               PROVE  i \in risked'
    BY DEF Robbed
  <2>1. /\ q # p /\ Writes(q, i) /\ (i = id => id \in risked')
        /\ (i \in risked => i \in risked')
    BY <1>5
  <2>2. CASE call[q].fd # "tmp"
    BY <2>1, <2>2 DEF WriteInv, Robbed
  <2>3. CASE call[q].fd = "tmp"
    <3>1. At(call[q].req, id) # {} /\ At(call[q].req, i) # {}
      BY <2>1, <2>3 DEF Writes
    <3>2. i = id
      BY <3>1 DEF WriteInv, CallOK, At
    <3> QED
      BY <2>1, <3>2
  <2> QED
    BY <2>2, <2>3
<1>9. OwnTmp'
  <2> SUFFICES ASSUME NEW q \in Proc, NEW x \in call'[q].req, NEW t \in tmp',
                      call'[q].pc = "rename", t.id = x.id
               PROVE  t = x \/ x.id \in risked'
    BY DEF OwnTmp
  <2>1. q # p /\ call[q].pc = "rename" /\ x \in call[q].req /\ x.id # id /\ t \in tmp
    BY <1>1, <1>2
  <2> QED
    BY <2>1 DEF WriteInv, OwnTmp
<1> QED
  BY <1>4, <1>6, <1>7, <1>8, <1>9 DEF WriteInv

\* The rename takes the block off the risk only when nobody else is writing it.
LEMMA WriteRename ==
  ASSUME FlatTypeOK, WriteInv, NEW p \in Proc, Rename(p)
  PROVE  WriteInv'
<1>1. PICK r \in call[p].req, t \in tmp :
        /\ t.id = r.id /\ files' = Replaced(files, t) /\ tmp' = tmp \ {t}
        /\ risked' = IF t.part = "all" /\ ~Racing(p, r.id) THEN risked \ {r.id} ELSE risked
        /\ call' \in [Proc -> Call] /\ call[p].pc = "rename" /\ call'[p] = NoCall
        /\ \A q \in Proc \ {p} : Kin(q) /\ call'[q].still = call[q].still \ {r.id}
        /\ \A q \in Proc \ {p} :
             call'[q].fd = "tmp" <=> call[q].fd = "tmp" /\ At(call[q].req, r.id) = {}
  BY RenameCalls
<1>2. r.id \in ID /\ Writes(p, r.id)
  BY <1>1, OneBlock DEF WriteInv, Writes, Writing
<1>3. tmp' \subseteq tmp /\ \A u \in tmp' : u.id # r.id
  BY <1>1, FlatParts DEF Unique
<1>4. /\ risked \ {r.id} \subseteq risked'
      /\ (\E q \in Proc \ {p} : Writes(q, r.id)) => risked \subseteq risked'
  BY <1>1 DEF Racing, Writes, Writing
<1> QED
  BY <1>1, <1>2, <1>3, <1>4, WriteLeave

\* The cleanup removes a temporary file that may be another program's.
LEMMA WriteRemoveTmp ==
  ASSUME FlatTypeOK, WriteInv, NEW p \in Proc, RemoveTmp(p)
  PROVE  WriteInv'
<1>1. PICK r \in call[p].req :
        /\ tmp' = tmp \ At(tmp, r.id) /\ call[p].pc = "cleanup" /\ call'[p] = NoCall
        /\ \A q \in Proc \ {p} : Kin(q)
        /\ \A q \in Proc \ {p} :
             call'[q].fd = "tmp" <=> call[q].fd = "tmp" /\ At(call[q].req, r.id) = {}
  BY RemoveTmpCalls
<1>2. r.id \in ID /\ Writes(p, r.id)
  BY <1>1, OneBlock DEF WriteInv, Writes, Writing
<1>3. tmp' \subseteq tmp /\ \A u \in tmp' : u.id # r.id
  BY <1>1 DEF At
<1>4. risked' = risked
  BY DEF RemoveTmp
<1> QED
  BY <1>1, <1>2, <1>3, <1>4, WriteLeave

\* WriteInv is kept.
LEMMA WriteNext ==
  ASSUME TypeOK, WriteInv, [Next]_vars
  PROVE  WriteInv'
<1>1. FlatTypeOK
  BY DEF TypeOK
<1>2. ASSUME NEW p \in Proc, call[p].pc \notin Writing, call'[p].pc \notin Writing,
             call'[p].req = call[p].req, call'[p].seen = call[p].seen,
             call'[p].fd # "none" => call[p].fd # "none",
             \A q \in Proc \ {p} : call'[q] = call[q], tmp' = tmp, risked' = risked
      PROVE  WriteInv'
  <2>1. CallOK(call'[p])
    BY <1>2, CallOKSame DEF WriteInv
  <2> QED
    BY <1>2, <2>1, KinSame, WriteQuiet
<1>3. ASSUME NEW p \in Proc, Program(p) PROVE WriteInv'
  <2>1. ASSUME NEW id \in ID, NEW wf \in WF, PutCall(p, id, wf) PROVE WriteInv'
    <3> DEFINE r == [id |-> id, createdAt |-> now, wf |-> wf, part |-> "all"]
    <3>1. /\ \A q \in Proc \ {p} : call'[q] = call[q]
          /\ call'[p].pc = "usage" /\ call'[p].seen = At(files, id) /\ call'[p].fd = "none"
          /\ call'[p].req = {r}
      BY <1>1, <2>1, PutCallCalls
    <3>2. \A f \in Readable(At(files, id)) : f.wf < wf
      <4>1. \A f \in Readable(At(files, id)) : f \in At(Readable(files), id) /\ f.wf \in WF
        BY <1>1, FlatParts DEF Readable, At, File
      <4>2. ~Kept(files, id, wf)
        BY <2>1 DEF PutCall
      <4>3. \A x \in WF : x \in Int
        BY DEF WF
      <4> QED
        BY <4>1, <4>2, <4>3 DEF Kept
    <3>3. CallOK(call'[p])
      BY <3>1, <3>2 DEF CallOK
    <3>4. call[p].pc = "idle" /\ tmp' = tmp /\ risked' = risked
      BY <2>1 DEF PutCall, In
    <3> QED
      BY <3>1, <3>3, <3>4, KinSame, WriteQuiet DEF Writing
  <2>2. CASE CheckUsage(p)
    BY <1>1, <1>2, <2>2, CheckUsageCalls DEF CheckUsage, Writing
  <2>3. CASE EvictScan(p) \/ EvictDone(p)
    BY <1>1, <1>2, <2>3, EvictCalls DEF EvictScan, EvictDone, Writing
  <2>4. CASE EvictOne(p)
    <3>1. /\ \A q \in Proc \ {p} : Kin(q) /\ (call'[q].fd = "tmp" <=> call[q].fd = "tmp")
          /\ call[p].pc = "evict" /\ call'[p].pc = "evict"
          /\ call'[p].req = call[p].req /\ call'[p].seen = call[p].seen
          /\ call'[p].fd # "none" => call[p].fd # "none"
      BY <1>1, <2>4, EvictOneCalls
    <3>2. CallOK(call'[p])
      BY <3>1, CallOKSame DEF WriteInv
    <3>3. tmp' = tmp /\ risked' = risked
      BY <2>4 DEF EvictOne
    <3> QED
      BY <3>1, <3>2, <3>3, WriteQuiet DEF Writing
  <2>5. CASE BuildIndex(p)
    <3>1. /\ \A q \in Proc \ {p} : call'[q] = call[q]
          /\ call[p].pc = "idle" /\ call'[p].pc = "walk"
          /\ call'[p].req = {} /\ call'[p].fd = "none" /\ call'[p].seen = {}
      BY <1>1, <2>5, BuildIndexCalls
    <3>2. CallOK(call'[p])
      BY <3>1 DEF CallOK
    <3>3. tmp' = tmp /\ risked' = risked
      BY <2>5 DEF BuildIndex
    <3> QED
      BY <3>1, <3>2, <3>3, KinSame, WriteQuiet DEF Writing
  <2>6. CASE WalkFile(p)
    BY <1>1, <1>2, <2>6, WalkFileCalls DEF WalkFile, Writing
  <2>7. CASE WalkDone(p)
    <3>1. /\ \A q \in Proc \ {p} : call'[q] = call[q]
          /\ call[p].pc = "walk" /\ call'[p].pc = "write"
          /\ call'[p].req = call[p].req /\ call'[p].fd = call[p].fd
          /\ call'[p].seen = call[p].seen
      BY <1>1, <2>7, WalkDoneCalls
    <3>2. tmp' = tmp /\ risked' = risked
      BY <2>7 DEF WalkDone
    <3> QED
      BY <1>2, <3>1, <3>2 DEF Writing
  <2>8. CASE WriteIndex(p)
    <3>1. /\ \A q \in Proc \ {p} : call'[q] = call[q]
          /\ call[p].pc = "write" /\ call'[p].pc = "write"
          /\ call'[p].req = call[p].req /\ call'[p].fd = call[p].fd
          /\ call'[p].seen = call[p].seen
      BY <1>1, <2>8, WriteIndexCalls
    <3>2. tmp' = tmp /\ risked' = risked
      BY <2>8 DEF WriteIndex
    <3> QED
      BY <1>2, <3>1, <3>2 DEF Writing
  <2>9. CASE IndexDone(p)
    <3>1. call'[p] = NoCall /\ \A q \in Proc \ {p} : call'[q] = call[q]
      BY <1>1, <2>9, EndCalls DEF IndexDone
    <3>2. call[p].pc = "write" /\ tmp' = tmp /\ risked' = risked
      BY <2>9 DEF IndexDone, In
    <3>3. CallOK(call'[p]) /\ call'[p].pc \notin Writing
      BY <3>1, NoCallOK
    <3> QED
      BY <3>1, <3>2, <3>3, KinSame, WriteQuiet DEF Writing
  <2> QED
    BY <1>1, <1>3, <2>1, <2>2, <2>3, <2>4, <2>5, <2>6, <2>7, <2>8, <2>9, WriteOpenTmp,
       WriteFill, WriteRename, WriteRenameFails, WriteRemoveTmp, WriteCut DEF Program
<1>4. ASSUME call' = call, tmp' = tmp, risked' = risked PROVE WriteInv'
  BY <1>4 DEF WriteInv, Shared, ShortTmp, Robbed, OwnTmp, Writes
<1>5. CASE Unplug
  <2>1. /\ tmp' = {} /\ \A p \in Proc : call'[p] = NoCall
        /\ \A p \in Proc : call'[p].pc \notin Writing /\ CallOK(call'[p])
    BY <1>5, NoCallOK DEF Unplug
  <2>2. Shared' /\ Robbed'
    BY <2>1 DEF Shared, Robbed, Writes
  <2> QED
    BY <2>1, <2>2 DEF WriteInv, ShortTmp, OwnTmp
<1>6. Medium => Unplug \/ (call' = call /\ tmp' = tmp /\ risked' = risked)
  BY DEF Medium, Tick, Flush, Plug, Visit
<1> QED
  BY <1>3, <1>4, <1>5, <1>6, FlatSteps DEF flatVars
-----------------------------------------------------------------------------
(* The index.                                                              *)

\* What a build has found depends on the files of the blocks nobody touched.
LEMMA RecordStays ==
  ASSUME NEW S, NEW T, NEW id, NEW start, At(T, id) = At(S, id)
  PROVE  RecordIn(T, id, start) = RecordIn(S, id, start)
<1>1. At(Readable(T), id) = At(Readable(S), id)
  BY DEF At, Readable
<1> QED
  BY <1>1 DEF RecordIn

\* A walk is not disturbed by changes of files it may not rely on.
LEMMA WalkStays ==
  ASSUME NEW c, NEW d, NEW S, NEW T, WalkOK(c, S), d.todo = c.todo, d.cand = c.cand,
         d.need = c.need, d.still \subseteq c.still,
         \A id \in d.still : At(T, id) = At(S, id)
  PROVE  WalkOK(d, T)
<1>1. \A id \in d.still : RecordIn(T, id, d.need) = RecordIn(S, id, d.need)
  BY RecordStays
<1> QED
  BY <1>1 DEF WalkOK

\* Nor is the writing of the index.
LEMMA WriteStays ==
  ASSUME NEW c, NEW d, NEW S, NEW T, NEW ix, WriteOK(c, S, ix), d.todo = c.todo,
         d.cand = c.cand, d.need = c.need, d.still \subseteq c.still,
         \A id \in d.still : At(T, id) = At(S, id)
  PROVE  WriteOK(d, T, ix)
<1>1. \A id \in d.still : RecordIn(T, id, d.need) = RecordIn(S, id, d.need)
  BY RecordStays
<1> QED
  BY <1>1 DEF WriteOK

\* A step of a program that is not building the index.
LEMMA BuildQuiet ==
  ASSUME BuildInv, NEW p \in Proc, index' = index, call'[p].pc \notin Building,
         \A q \in Proc \ {p} : /\ Kin(q)
                               /\ \A id \in call'[q].still : At(files', id) = At(files, id)
  PROVE  BuildInv'
<1>1. \A q \in Proc \ {p} :
        /\ call'[q].pc = call[q].pc /\ call'[q].need = call[q].need
        /\ call'[q].cand = call[q].cand /\ call'[q].todo = call[q].todo
        /\ call'[q].still \subseteq call[q].still
  BY DEF Kin
<1>2. \A q, u \in Proc : call'[q].pc \in Building /\ call'[u].pc \in Building => q = u
  BY <1>1 DEF BuildInv
<1>3. ASSUME NEW q \in Proc, call'[q].pc = "walk" PROVE WalkOK(call'[q], files')
  <2>1. q # p
    BY <1>3 DEF Building
  <2>2. WalkOK(call[q], files)
    BY <1>1, <1>3, <2>1 DEF BuildInv
  <2> QED
    BY <1>1, <2>1, <2>2, WalkStays
<1>4. ASSUME NEW q \in Proc, call'[q].pc = "write" PROVE WriteOK(call'[q], files', index')
  <2>1. q # p
    BY <1>4 DEF Building
  <2>2. WriteOK(call[q], files, index')
    BY <1>1, <1>4, <2>1 DEF BuildInv
  <2> QED
    BY <1>1, <2>1, <2>2, WriteStays
<1> QED
  BY <1>2, <1>3, <1>4 DEF BuildInv

\* A step of the program that builds the index: nobody else is building.
LEMMA BuildOwn ==
  ASSUME NEW p \in Proc, \A q \in Proc \ {p} : call'[q].pc \notin Building,
         call'[p].pc = "walk" => WalkOK(call'[p], files'),
         call'[p].pc = "write" => WriteOK(call'[p], files', index')
  PROVE  BuildInv'
<1>1. \A q \in Proc : call'[q].pc = "walk" \/ call'[q].pc = "write" => q = p
  BY DEF Building
<1>2. \A q, u \in Proc : call'[q].pc \in Building /\ call'[u].pc \in Building => q = u
  BY <1>1 DEF Building
<1> QED
  BY <1>1, <1>2 DEF BuildInv

\* Visiting a file adds its record and no other.
LEMMA BuildWalkFile ==
  ASSUME FlatTypeOK, BuildInv, NEW p \in Proc, WalkFile(p)
  PROVE  BuildInv'
<1>1. PICK id \in call[p].todo :
        /\ \A q \in Proc \ {p} : call'[q] = call[q]
        /\ call[p].pc = "walk" /\ call'[p].pc = "walk"
        /\ call'[p].need = call[p].need /\ call'[p].still = call[p].still
        /\ call'[p].cand = call[p].cand \cup RecordOf(id, call[p].need)
        /\ call'[p].todo = call[p].todo \ {id}
  BY WalkFileCalls
<1>2. files' = files
  BY DEF WalkFile
<1>3. WalkOK(call[p], files) /\ \A q \in Proc \ {p} : call'[q].pc \notin Building
  BY <1>1 DEF BuildInv, Building
<1>4. RecordOf(id, call[p].need) = RecordIn(files, id, call[p].need)
  BY DEF RecordOf, RecordIn
<1>5. \A f \in RecordIn(files, id, call[p].need) : f.id = id
  BY DEF RecordIn, At
<1>6. At(call'[p].cand, id) = At(call[p].cand, id) \cup RecordIn(files, id, call[p].need)
  BY <1>1, <1>4, <1>5 DEF At
<1>7. \A i : i # id => At(call'[p].cand, i) = At(call[p].cand, i)
  BY <1>1, <1>4, <1>5 DEF At
<1>8. call[p].still \subseteq ID
  BY FlatParts, CallFields
<1>9. \A i \in ID \cap call'[p].todo : At(call'[p].cand, i) = {}
  BY <1>1, <1>3, <1>7 DEF WalkOK
<1>10. ASSUME NEW i \in call'[p].still \ call'[p].todo
       PROVE  At(call'[p].cand, i) = RecordIn(files, i, call'[p].need)
  <2>1. CASE i = id
    BY <1>1, <1>3, <1>6, <1>8, <2>1 DEF WalkOK
  <2>2. CASE i # id
    BY <1>1, <1>3, <1>7, <2>2 DEF WalkOK
  <2> QED
    BY <2>1, <2>2
<1>11. WalkOK(call'[p], files')
  BY <1>2, <1>9, <1>10 DEF WalkOK
<1> QED
  BY <1>1, <1>3, <1>11, BuildOwn

\* Writing an index file leaves the others as they were.
LEMMA BuildWriteIndex ==
  ASSUME FlatTypeOK, BuildInv, NEW p \in Proc, WriteIndex(p)
  PROVE  BuildInv'
<1>1. PICK x \in call[p].todo :
        /\ index' = [index EXCEPT ![x] = RecordsFor(p, x)]
        /\ \A q \in Proc \ {p} : call'[q] = call[q]
        /\ call[p].pc = "write" /\ call'[p].pc = "write"
        /\ call'[p].need = call[p].need
        /\ call'[p].still = call[p].still /\ call'[p].cand = call[p].cand
        /\ call'[p].todo = call[p].todo \ {x}
  BY WriteIndexCalls
<1>2. files' = files
  BY DEF WriteIndex
<1>3. WriteOK(call[p], files, index) /\ \A q \in Proc \ {p} : call'[q].pc \notin Building
  BY <1>1 DEF BuildInv, Building
<1>4. RecordsFor(p, x) = RecordsIn(call[p].cand, x)
  BY DEF RecordsFor, RecordsIn
<1>5. Planned(call[p].cand) \subseteq IndexFile
  BY DEF Planned, IndexFile
<1>6. ASSUME NEW y \in Planned(call'[p].cand) \ call'[p].todo
      PROVE  index'[y] = RecordsIn(call'[p].cand, y)
  <2>1. y \in IndexFile /\ index \in [IndexFile -> SUBSET File]
    BY <1>1, <1>5, FlatParts
  <2>2. CASE y = x
    BY <1>1, <1>4, <2>1, <2>2
  <2>3. CASE y # x
    <3>1. index[y] = RecordsIn(call[p].cand, y)
      BY <1>1, <1>3, <2>3 DEF WriteOK
    <3> QED
      BY <1>1, <2>1, <2>3, <3>1
  <2> QED
    BY <2>2, <2>3
<1>7. WriteOK(call'[p], files', index')
  BY <1>1, <1>2, <1>3, <1>6 DEF WriteOK
<1> QED
  BY <1>1, <1>3, <1>7, BuildOwn

\* BuildInv is kept.
LEMMA BuildNext ==
  ASSUME TypeOK, CallsEnd, BuildInv, [Next]_vars
  PROVE  BuildInv'
<1>1. FlatTypeOK
  BY DEF TypeOK
<1>2. ASSUME NEW p \in Proc, call'[p].pc \notin Building, files' = files, index' = index,
             \A q \in Proc \ {p} : Kin(q)
      PROVE  BuildInv'
  BY <1>2, BuildQuiet
<1>3. NoCall.pc \notin Building
  BY NoCallType DEF Building
<1>4. ASSUME NEW p \in Proc, Program(p) PROVE BuildInv'
  <2>1. ASSUME NEW id \in ID, NEW wf \in WF, PutCall(p, id, wf) PROVE BuildInv'
    <3>1. call'[p].pc \notin Building /\ \A q \in Proc \ {p} : Kin(q)
      BY <1>1, <2>1, PutCallCalls, KinSame DEF Building
    <3> QED
      BY <1>2, <2>1, <3>1 DEF PutCall
  <2>2. CASE CheckUsage(p)
    <3>1. call'[p].pc \notin Building /\ \A q \in Proc \ {p} : Kin(q)
      BY <1>1, <2>2, CheckUsageCalls, KinSame DEF Building
    <3> QED
      BY <1>2, <2>2, <3>1 DEF CheckUsage
  <2>3. CASE EvictScan(p) \/ EvictDone(p)
    <3>1. call'[p].pc \notin Building /\ \A q \in Proc \ {p} : Kin(q)
      BY <1>1, <2>3, EvictCalls, KinSame DEF Building
    <3> QED
      BY <1>2, <2>3, <3>1 DEF EvictScan, EvictDone
  <2>4. CASE EvictOne(p)
    <3>1. /\ \A q \in Proc \ {p} : Kin(q)
          /\ \A q \in Proc \ {p} : \A i \in call'[q].still : At(files', i) = At(files, i)
          /\ call'[p].pc = "evict"
      BY <1>1, <2>4, EvictOneCalls
    <3>2. index' = index
      BY <2>4 DEF EvictOne
    <3> QED
      BY <3>1, <3>2, BuildQuiet DEF Building
  <2>5. CASE OpenTmp(p)
    <3>1. call'[p].pc \notin Building /\ \A q \in Proc \ {p} : Kin(q)
      BY <1>1, <2>5, OpenTmpCalls, KinSame DEF Building
    <3> QED
      BY <1>2, <2>5, <3>1 DEF OpenTmp
  <2>6. CASE Fill(p)
    <3>1. PICK r \in call[p].req :
            /\ files' = IF call[p].fd = "path" THEN Replaced(files, r) ELSE files
            /\ \A q \in Proc \ {p} : Kin(q) /\ call'[q].fd = call[q].fd
            /\ call[p].fd = "path" =>
                 \A q \in Proc \ {p} : call'[q].still = call[q].still \ {r.id}
            /\ call'[p].pc = "rename"
      BY <1>1, <2>6, FillCalls
    <3>2. CASE call[p].fd = "path"
      <4>1. \A i : i # r.id => At(files', i) = At(files, i)
        BY <3>1, <3>2 DEF At, Replaced
      <4>2. index' = index
        BY <2>6 DEF Fill
      <4> QED
        BY <3>1, <3>2, <4>1, <4>2, BuildQuiet DEF Building
    <3>3. CASE call[p].fd # "path"
      BY <1>2, <2>6, <3>1, <3>3 DEF Fill, Building
    <3> QED
      BY <3>2, <3>3
  <2>7. CASE Rename(p)
    <3>1. PICK r \in call[p].req, t \in tmp :
            /\ t.id = r.id /\ files' = Replaced(files, t) /\ tmp' = tmp \ {t}
            /\ risked' = IF t.part = "all" /\ ~Racing(p, r.id) THEN risked \ {r.id} ELSE risked
            /\ call' \in [Proc -> Call] /\ call[p].pc = "rename" /\ call'[p] = NoCall
            /\ \A q \in Proc \ {p} : Kin(q) /\ call'[q].still = call[q].still \ {r.id}
            /\ \A q \in Proc \ {p} :
                 call'[q].fd = "tmp" <=> call[q].fd = "tmp" /\ At(call[q].req, r.id) = {}
      BY <1>1, <2>7, RenameCalls
    <3>2. \A i : i # r.id => At(files', i) = At(files, i)
      BY <3>1 DEF At, Replaced
    <3>3. index' = index
      BY <2>7 DEF Rename
    <3> QED
      BY <1>3, <3>1, <3>2, <3>3, BuildQuiet
  <2>8. CASE RenameFails(p)
    <3>1. call'[p].pc \notin Building /\ \A q \in Proc \ {p} : Kin(q)
      BY <1>1, <2>8, RenameFailsCalls, KinSame DEF Building
    <3> QED
      BY <1>2, <2>8, <3>1 DEF RenameFails
  <2>9. CASE RemoveTmp(p)
    <3>1. call'[p].pc \notin Building /\ \A q \in Proc \ {p} : Kin(q)
      BY <1>1, <1>3, <2>9, RemoveTmpCalls
    <3> QED
      BY <1>2, <2>9, <3>1 DEF RemoveTmp
  <2>10. CASE Cut(p) \/ IndexDone(p)
    <3>1. call' = [call EXCEPT ![p] = NoCall] /\ files' = files /\ index' = index
      BY <2>10 DEF Cut, IndexDone
    <3>2. call'[p].pc \notin Building /\ \A q \in Proc \ {p} : Kin(q)
      BY <1>1, <1>3, <3>1, EndCalls, KinSame
    <3> QED
      BY <1>2, <3>1, <3>2
  <2>11. CASE BuildIndex(p)
    <3>1. /\ \A q \in Proc \ {p} : call'[q] = call[q]
          /\ call'[p].pc = "walk"
          /\ call'[p].todo = ID /\ call'[p].still = ID /\ call'[p].cand = {}
      BY <1>1, <2>11, BuildIndexCalls
    <3>2. WalkOK(call'[p], files')
      BY <3>1 DEF WalkOK, At
    <3>3. \A q \in Proc \ {p} : call'[q].pc \notin Building
      BY <2>11, <3>1 DEF BuildIndex, In, Building
    <3> QED
      BY <3>1, <3>2, <3>3, BuildOwn
  <2>12. CASE WalkDone(p)
    <3>1. /\ \A q \in Proc \ {p} : call'[q] = call[q]
          /\ call[p].pc = "walk" /\ call[p].todo = {} /\ call'[p].pc = "write"
          /\ call'[p].need = call[p].need /\ call'[p].still = call[p].still
          /\ call'[p].cand = call[p].cand /\ call'[p].todo = Planned(call[p].cand)
      BY <1>1, <2>12, WalkDoneCalls
    <3>2. files' = files
      BY <2>12 DEF WalkDone
    <3>3. WalkOK(call[p], files) /\ \A q \in Proc \ {p} : call'[q].pc \notin Building
      BY <3>1 DEF BuildInv, Building
    <3>4. WriteOK(call'[p], files', index')
      BY <3>1, <3>2, <3>3 DEF WalkOK, WriteOK
    <3> QED
      BY <3>1, <3>3, <3>4, BuildOwn
  <2> QED
    BY <1>1, <1>4, <2>1, <2>2, <2>3, <2>4, <2>5, <2>6, <2>7, <2>8, <2>9, <2>10, <2>11,
       <2>12, BuildWalkFile, BuildWriteIndex DEF Program
<1>5. CASE call' = call /\ files' = files /\ index' = index
  BY <1>5 DEF BuildInv
<1>6. CASE Unplug
  <2>1. \A q \in Proc : call'[q].pc \notin Building
    BY <1>3, <1>6 DEF Unplug
  <2> QED
    BY <2>1 DEF BuildInv, Building
<1>7. ASSUME NEW id, NEW wf, Visit(id, wf) PROVE BuildInv'
  <2>1. \A q \in Proc : call'[q].pc \notin Building
    BY <1>7 DEF Visit, CallsEnd, Building
  <2> QED
    BY <2>1 DEF BuildInv, Building
<1>8. Tick \/ Flush \/ Plug => call' = call /\ files' = files /\ index' = index
  BY DEF Tick, Flush, Plug
<1> QED
  BY <1>4, <1>5, <1>6, <1>7, <1>8, FlatSteps DEF Medium, flatVars
-----------------------------------------------------------------------------
(* The theorems.                                                           *)

\* Without the medium no call begins or goes on.
LEMMA CallsEndNext ==
  ASSUME TypeOK, CallsEnd, [Next]_vars
  PROVE  CallsEnd'
<1>1. FlatTypeOK
  BY DEF TypeOK
<1>2. ASSUME NEW p \in Proc, Program(p), ~present', NEW q \in Proc
      PROVE  call'[q].pc = "idle"
  <2>1. ~present
    BY <1>1, <1>2, ProgramType
  <2>2. \A u \in Proc : call[u].pc = "idle"
    BY <2>1 DEF CallsEnd
  <2>3. Cut(p)
    BY <1>2, <2>1, <2>2 DEF Program, PutCall, CheckUsage, EvictScan, EvictOne, EvictDone,
       OpenTmp, Fill, Rename, RenameFails, RemoveTmp, BuildIndex, WalkFile, WalkDone,
       WriteIndex, IndexDone, In
  <2> QED
    BY <1>1, <2>2, <2>3, EndCalls, NoCallType DEF Cut
<1>3. CASE Unplug
  BY <1>3, NoCallType DEF Unplug, CallsEnd
<1>4. CASE Plug
  BY <1>4 DEF Plug, CallsEnd
<1>5. CASE call' = call /\ present' = present
  BY <1>5 DEF CallsEnd
<1>6. Tick \/ Flush => call' = call /\ present' = present
  BY DEF Tick, Flush
<1>7. \A id, wf : Visit(id, wf) => call' = call /\ present' = present
  BY DEF Visit
<1>8. ASSUME NEW p \in Proc, Program(p) PROVE CallsEnd'
  BY <1>2, <1>8 DEF CallsEnd
<1> QED
  BY <1>3, <1>4, <1>5, <1>6, <1>7, <1>8, FlatSteps DEF Medium, flatVars

\* JobInv is kept.
LEMMA JobNext ==
  ASSUME TypeOK, JobInv, [Next]_vars
  PROVE  JobInv'
<1>1. users' = users
  <2>1. \A p \in Proc : Program(p) => users' = users
    BY ProgramType DEF TypeOK
  <2>2. Medium => users' = users
    BY DEF Medium, Tick, Flush, Plug, Unplug, Visit
  <2> QED
    BY <2>1, <2>2, FlatSteps DEF flatVars
<1>2. CASE job' = job
  BY <1>1, <1>2 DEF JobInv
<1>3. ASSUME NEW p \in Proc, ToolStep(p) PROVE JobInv'
  <2>1. job \in [Proc -> Job] /\ NoJob.on = FALSE
    BY DEF TypeOK, NoJob
  <2>2. ASSUME NEW q \in Proc, job'[q].on PROVE job[q].on \/ q \in users
    <3>1. CASE ToolStart(p)
      BY <2>1, <2>2, <3>1 DEF ToolStart
    <3>2. CASE ToolRef(p)
      BY <2>1, <2>2, <3>2 DEF ToolRef, Job
    <3>3. CASE ToolPut(p)
      BY <2>1, <2>2, <3>3 DEF ToolPut, Job
    <3>4. CASE ToolIndex(p) \/ ToolStops(p)
      BY <2>1, <2>2, <3>4 DEF ToolIndex, ToolStops
    <3>5. CASE job' = job
      BY <2>2, <3>5
    <3> QED
      BY <1>3, <3>1, <3>2, <3>3, <3>4, <3>5 DEF ToolStep, ToolWriteFails
  <2> QED
    BY <1>1, <2>2 DEF JobInv
<1> QED
  BY <1>2, <1>3 DEF Next, LoopStep, vars

\* The volume as a program finds it.
LEMMA InitInv ==
  ASSUME Init
  PROVE  IInv
<1>1. FlatTypeOK
  <2>1. 1 \in 1..MaxTime
    BY FlatFileAssumption
  <2>2. call \in [Proc -> Call]
    BY NoCallType DEF Init, FlatInit
  <2>3. index \in [IndexFile -> SUBSET File]
    BY DEF Init, FlatInit
  <2>4. present \in BOOLEAN
    BY DEF Init, FlatInit
  <2> QED
    BY <2>1, <2>2, <2>3, <2>4, OldFilesAssumption DEF Init, FlatInit, FlatTypeOK
<1>2. db \in DB /\ StoreInv
  BY FS_EmptySet DEF Init, EmptyDB, DB, StoreInv, Consistent
<1>3. TypeOK
  <2>1. job \in [Proc -> Job]
    BY DEF Init, Job, NoJob
  <2> QED
    BY <1>1, <1>2, <2>1, CursorType DEF Init, TypeOK
<1>4. \A p \in Proc : call[p] = NoCall
  BY DEF Init, FlatInit
<1>5. CallsEnd /\ BuildInv
  BY <1>4, NoCallType DEF CallsEnd, BuildInv, Building
<1>6. WriteInv
  <2>1. tmp = {} /\ \A p \in Proc : CallOK(call[p]) /\ call[p].pc \notin Writing
    BY <1>4, NoCallOK DEF Init, FlatInit
  <2>2. Shared /\ Robbed
    BY <2>1 DEF Shared, Robbed, Writes
  <2> QED
    BY <2>1, <2>2 DEF WriteInv, ShortTmp, OwnTmp
<1>7. JobInv
  BY DEF Init, NoJob, JobInv
<1> QED
  BY <1>2, <1>3, <1>5, <1>6, <1>7 DEF IInv

\* What every reachable state of a volume has in common: the files, temporary
\* files, calls and index files have their types, the node's store is
\* consistent, no call outlives the medium, two programs at work on one
\* temporary file have put its block at risk, and an index build knows every
\* file that was not touched since it began.
THEOREM VolumeInvariant == Spec => []IInv
<1>1. Init => IInv
  BY InitInv
<1>2. IInv /\ [Next]_vars => IInv'
  BY TypeNext, StoreNext, CallsEndNext, WriteNext, BuildNext, JobNext DEF IInv
<1> QED
  BY <1>1, <1>2, PTL DEF Spec

\* The variables of the flat files and of usbSyncLoop have their types.
THEOREM TypeCorrect == Spec => []TypeOK
<1>1. IInv => TypeOK
  BY DEF IInv
<1> QED
  BY <1>1, VolumeInvariant, PTL

\* A step keeps every file whole whose block is not at risk.
LEMMA AtomicNext ==
  ASSUME TypeOK, WriteInv, AtomicReplace, [Next]_vars
  PROVE  AtomicReplace'
<1>1. FlatTypeOK
  BY DEF TypeOK
<1>2. CASE files' \subseteq files /\ risked \subseteq risked'
  BY <1>2 DEF AtomicReplace
<1>3. ASSUME NEW p \in Proc, Program(p) PROVE AtomicReplace'
  <2>1. CASE Fill(p)
    <3>1. PICK r \in call[p].req :
            files' = IF call[p].fd = "path" THEN Replaced(files, r) ELSE files
      BY <1>1, <2>1, FillCalls
    <3>2. r.part = "all" /\ risked' = risked
      BY <2>1 DEF WriteInv, CallOK, Fill
    <3> QED
      BY <3>1, <3>2 DEF AtomicReplace, Replaced, At
  <2>2. CASE Rename(p)
    <3>1. PICK r \in call[p].req, t \in tmp :
            /\ t.id = r.id /\ files' = Replaced(files, t) /\ tmp' = tmp \ {t}
            /\ risked' = IF t.part = "all" /\ ~Racing(p, r.id) THEN risked \ {r.id} ELSE risked
            /\ call' \in [Proc -> Call] /\ call[p].pc = "rename" /\ call'[p] = NoCall
            /\ \A q \in Proc \ {p} : Kin(q) /\ call'[q].still = call[q].still \ {r.id}
            /\ \A q \in Proc \ {p} :
                 call'[q].fd = "tmp" <=> call[q].fd = "tmp" /\ At(call[q].req, r.id) = {}
      BY <1>1, <2>2, RenameCalls
    <3>2. r.id \in ID /\ Writes(p, r.id)
      BY <1>1, <3>1, OneBlock DEF WriteInv, Writes, Writing
    <3>3. ASSUME t.part # "all" PROVE t.id \in risked
      <4> SUFFICES ASSUME t.id \notin risked PROVE FALSE
        OBVIOUS
      <4>1. PICK q \in Proc : call[q].pc = "fill" /\ At(call[q].req, t.id) # {}
        BY <3>3 DEF WriteInv, ShortTmp
      <4>2. q # p /\ Writes(q, r.id)
        BY <3>1, <4>1 DEF Writes, Writing
      <4> QED
        BY <3>1, <3>2, <4>2 DEF WriteInv, Shared
    <3>4. \A f \in files' : f = t \/ (f \in files /\ f.id # r.id)
      BY <3>1 DEF Replaced, At
    <3> QED
      BY <3>1, <3>3, <3>4 DEF AtomicReplace
  <2>3. ~Fill(p) /\ ~Rename(p) => files' \subseteq files /\ risked \subseteq risked'
    BY <1>3 DEF Program, PutCall, CheckUsage, EvictScan, EvictOne, EvictDone,
       OpenTmp, RenameFails, RemoveTmp, Cut, BuildIndex, WalkFile, WalkDone,
       WriteIndex, IndexDone
  <2> QED
    BY <1>2, <2>1, <2>2, <2>3
<1>4. CASE Unplug
  <2>1. risked' = risked \cup {f.id : f \in {g \in files' \ files : g.part # "all"}}
    BY <1>4 DEF Unplug
  <2> QED
    BY <2>1 DEF AtomicReplace
<1>5. ASSUME NEW id, NEW wf, Visit(id, wf) PROVE AtomicReplace'
  <2>1. \A f \in files' : f.part = "all" \/ f \in files
    BY <1>5 DEF Visit
  <2> QED
    BY <1>5, <2>1 DEF AtomicReplace, Visit
<1>6. Tick \/ Flush \/ Plug => files' \subseteq files /\ risked \subseteq risked'
  BY DEF Tick, Flush, Plug
<1> QED
  BY <1>2, <1>3, <1>4, <1>5, <1>6, FlatSteps DEF Medium, flatVars

\* "Atomic write via a sibling temp file then rename" (flatfile.go): on a volume
\* that held whole files to begin with, a short file is at the path of a block
\* only after two programs worked on its temporary file at once or the medium
\* lost what was not written back, and until one program alone writes the block
\* again.
THEOREM ReplaceIsAtomic ==
  ASSUME \A f \in OldFiles : f.part = "all"
  PROVE  Spec => []AtomicReplace
<1>1. Init => AtomicReplace
  BY DEF Init, FlatInit, AtomicReplace
<1>2. IInv /\ AtomicReplace /\ [Next]_vars => AtomicReplace'
  BY AtomicNext DEF IInv
<1> QED
  BY <1>1, <1>2, VolumeInvariant, PTL DEF Spec

\* A file that replaces another one with more work comes from a Put that had not
\* seen it, or the block is at risk.
LEMMA WorkNext ==
  ASSUME TypeOK, WriteInv, [Next]_vars, present',
         NEW f \in Readable(files), NEW g \in Readable(files'), f.id = g.id, g.wf < f.wf
  PROVE  \/ f.id \in risked
         \/ \E p \in Proc : At(call[p].req, f.id) # {} /\ f \notin call[p].seen
<1>1. FlatTypeOK
  BY DEF TypeOK
<1>2. f \in files /\ g \in files' /\ f \in File /\ f.wf \in Int /\ f.part # "none"
  BY <1>1, FlatParts DEF Readable, File, WF
<1>3. g \notin files
  <2> SUFFICES ASSUME g \in files PROVE FALSE
    OBVIOUS
  <2>1. f = g
    BY <1>1, <1>2, FlatParts DEF Unique
  <2> QED
    BY <1>2, <2>1
<1>4. ASSUME NEW p \in Proc, Program(p)
      PROVE  \/ f.id \in risked
             \/ \E q \in Proc : At(call[q].req, f.id) # {} /\ f \notin call[q].seen
  <2>1. CASE Fill(p)
    <3>1. PICK r \in call[p].req :
            /\ files' = IF call[p].fd = "path" THEN Replaced(files, r) ELSE files
            /\ call[p].pc = "fill"
      BY <1>1, <2>1, FillCalls
    <3>2. call[p].fd = "path" /\ g = r
      BY <1>2, <1>3, <3>1 DEF Replaced, At
    <3>3. r.id \in ID /\ Writes(p, r.id)
      BY <1>1, <3>1, OneBlock DEF WriteInv, Writes, Writing
    <3> QED
      BY <3>2, <3>3 DEF WriteInv, Robbed
  <2>2. CASE Rename(p)
    <3>1. PICK r \in call[p].req, t \in tmp :
            /\ t.id = r.id /\ files' = Replaced(files, t) /\ call[p].pc = "rename"
      BY <1>1, <2>2, RenameCalls
    <3>2. g = t
      BY <1>2, <1>3, <3>1 DEF Replaced, At
    <3>3. t = r \/ r.id \in risked
      BY <3>1 DEF WriteInv, OwnTmp
    <3>4. CASE t = r
      <4>1. At(call[p].req, f.id) # {}
        BY <3>2, <3>4 DEF At
      <4>2. f \notin call[p].seen
        <5> SUFFICES ASSUME f \in call[p].seen PROVE FALSE
          OBVIOUS
        <5>1. f.wf < r.wf
          BY <1>2 DEF WriteInv, CallOK, Readable
        <5>2. r.wf < f.wf /\ r.wf \in Int
          <6>1. r \in File
            BY <1>1, OneBlock DEF WriteInv
          <6> QED
            BY <3>2, <3>4, <6>1 DEF File, WF
        <5> QED
          BY <1>2, <5>1, <5>2
      <4> QED
        BY <4>1, <4>2
    <3> QED
      BY <3>1, <3>2, <3>3, <3>4
  <2>3. ~Fill(p) /\ ~Rename(p) => files' \subseteq files
    BY <1>4 DEF Program, PutCall, CheckUsage, EvictScan, EvictOne, EvictDone,
       OpenTmp, RenameFails, RemoveTmp, Cut, BuildIndex, WalkFile, WalkDone,
       WriteIndex, IndexDone
  <2> QED
    BY <1>2, <1>3, <2>1, <2>2, <2>3
<1>5. Medium => files' = files
  BY DEF Medium, Tick, Flush, Plug, Unplug, Visit
<1> QED
  BY <1>2, <1>3, <1>4, <1>5, FlatSteps DEF flatVars

\* "If a file already exists with equal or higher work factor, keep it"
\* (FlatFileStore.Put): while the volume is plugged in, a readable file gives way
\* to one with less work only when it came in after the Put that replaces it had
\* looked, or on a path that two programs were writing.
THEOREM WorkIsKept == Spec => WorkKeptAlone
<1> DEFINE A == present' => \A f \in Readable(files), g \in Readable(files') :
                  f.id = g.id /\ g.wf < f.wf =>
                    \/ f.id \in risked
                    \/ \E p \in Proc : At(call[p].req, f.id) # {} /\ f \notin call[p].seen
<1>1. IInv /\ [Next]_vars => [A]_flatVars
  BY WorkNext DEF IInv
<1>2. WorkKeptAlone <=> [][A]_flatVars
  BY DEF WorkKeptAlone
<1> HIDE DEF A
<1> QED
  BY <1>1, <1>2, VolumeInvariant, PTL DEF Spec

\* BuildIndex "scans a FlatFileStore root and writes a compressed binary index":
\* for every number of files and shards, a finished build has for each block
\* that nobody touched meanwhile exactly its record in the index file that a
\* reader opens for it.
THEOREM IndexIsComplete == Spec => []IndexComplete
<1>1. ASSUME TypeOK, BuildInv PROVE IndexComplete
  <2> SUFFICES ASSUME NEW p \in Proc, call[p].pc = "write", call[p].todo = {},
                      NEW id \in call[p].still
               PROVE  At(index[IF Sharded(p) THEN Shard[id] ELSE Single], id)
                        = RecordOf(id, call[p].need)
    BY DEF IndexComplete, In
  <2> DEFINE x == IF Sharded(p) THEN Shard[id] ELSE Single
  <2>1. WriteOK(call[p], files, index)
    BY <1>1 DEF BuildInv
  <2>2. id \in ID
    BY <1>1, FlatParts, CallFields DEF TypeOK
  <2>3. x \in Planned(call[p].cand)
    BY <2>2, FlatFileAssumption DEF Planned, Sharded, IndexFile, Single
  <2>4. x = Single \/ x = Shard[id]
    OBVIOUS
  <2> HIDE DEF x
  <2>5. index[x] = RecordsIn(call[p].cand, x)
    BY <2>1, <2>3 DEF WriteOK
  <2>6. At(index[x], id) = At(call[p].cand, id)
    BY <2>4, <2>5 DEF RecordsIn, At
  <2>7. At(call[p].cand, id) = RecordOf(id, call[p].need)
    BY <2>1 DEF WriteOK, RecordIn, RecordOf
  <2> QED
    BY <2>6, <2>7 DEF x
<1>2. IInv => IndexComplete
  BY <1>1 DEF IInv
<1> QED
  BY <1>2, VolumeInvariant, PTL
-----------------------------------------------------------------------------
(* The binary search of an index file.                                     *)

\* How many records of recs have a smaller id than r.
Rank(recs, r) == Cardinality({q \in recs : q.id < r.id})

\* Ranks order the records by id, and are below the number of records.
LEMMA RankOrder ==
  ASSUME NEW recs \in SUBSET File, Unique(recs)
  PROVE  /\ Cardinality(recs) \in Nat
         /\ \A r \in recs : Rank(recs, r) \in Nat /\ Rank(recs, r) < Cardinality(recs)
         /\ \A q, r \in recs : q.id < r.id => Rank(recs, q) < Rank(recs, r)
         /\ \A q, r \in recs : Rank(recs, q) = Rank(recs, r) => q = r
<1> DEFINE below(r) == {q \in recs : q.id < r.id}
<1>1. IsFiniteSet(recs) /\ Cardinality(recs) \in Nat
  BY FilesFinite
<1>2. \A r \in recs : r.id \in Nat
  BY IDAssumption DEF File
<1>3. ASSUME NEW r \in recs
      PROVE  /\ IsFiniteSet(below(r)) /\ Cardinality(below(r)) \in Nat
             /\ Cardinality(below(r)) < Cardinality(recs)
  <2>1. below(r) \in SUBSET recs /\ below(r) # recs
    BY <1>2
  <2>2. /\ IsFiniteSet(below(r)) /\ Cardinality(below(r)) <= Cardinality(recs)
        /\ Cardinality(recs) # Cardinality(below(r))
    BY <1>1, <2>1, FS_Subset
  <2>3. Cardinality(below(r)) \in Nat
    BY <2>2, FS_CardinalityType
  <2> QED
    BY <1>1, <2>2, <2>3
<1>4. ASSUME NEW q \in recs, NEW r \in recs, q.id < r.id
      PROVE  Cardinality(below(q)) < Cardinality(below(r))
  <2>1. below(q) \in SUBSET below(r) /\ below(q) # below(r)
    BY <1>2, <1>4
  <2>2. /\ Cardinality(below(q)) <= Cardinality(below(r))
        /\ Cardinality(below(r)) # Cardinality(below(q))
    BY <1>3, <2>1, FS_Subset
  <2> QED
    BY <1>3, <2>2
<1>5. ASSUME NEW q \in recs, NEW r \in recs, Cardinality(below(q)) = Cardinality(below(r))
      PROVE  q = r
  <2> DEFINE c == Cardinality(below(q))
             d == Cardinality(below(r))
  <2>1. ~(q.id < r.id) /\ ~(r.id < q.id)
    <3>1. c \in Nat /\ d \in Nat /\ c = d
      BY <1>3, <1>5
    <3>2. (q.id < r.id => c < d) /\ (r.id < q.id => d < c)
      BY <1>4
    <3> HIDE DEF c, d, below
    <3> QED
      BY <3>1, <3>2
  <2>2. q.id = r.id
    BY <1>2, <2>1
  <2> QED
    BY <2>2 DEF Unique
<1> QED
  BY <1>1, <1>3, <1>4, <1>5 DEF Rank

\* The sorted records: all of them, in the order of their ids.
LEMMA SortedRecords ==
  ASSUME NEW recs \in SUBSET File, Unique(recs)
  PROVE  LET n == Cardinality(recs)
             seq == Sorted(recs)
         IN  /\ n \in Nat
             /\ \A k \in 1..n : seq[k] \in recs
             /\ \A r \in recs : \E k \in 1..n : seq[k] = r
             /\ \A j, k \in 1..n : j < k => seq[j].id < seq[k].id
<1> DEFINE n == Cardinality(recs)
           rank == [r \in recs |-> Rank(recs, r)]
<1>1. n \in Nat /\ \A r \in recs : Rank(recs, r) \in 0..(n - 1)
  BY RankOrder
<1>2. rank \in Injection(recs, 0..(n - 1))
  BY <1>1, RankOrder DEF Injection, IsInjective
<1>3. IsFiniteSet(0..(n - 1)) /\ Cardinality(0..(n - 1)) = n
  BY <1>1, FS_Interval
<1>4. rank \in Surjection(recs, 0..(n - 1))
  <2> HIDE DEF rank
  <2> QED BY <1>2, <1>3, FS_Injection
<1>5. \A k \in 0..(n - 1) : \E r \in recs : Rank(recs, r) = k
  BY <1>4 DEF Surjection
<1>6. ASSUME NEW k \in 1..n
      PROVE  Sorted(recs)[k] \in recs /\ Rank(recs, Sorted(recs)[k]) = k - 1
  <2>1. k - 1 \in 0..(n - 1)
    BY <1>1
  <2>2. \E r \in recs : Rank(recs, r) = k - 1
    BY <1>5, <2>1
  <2>3. Sorted(recs)[k] = CHOOSE r \in recs : Rank(recs, r) = k - 1
    BY DEF Sorted, Rank
  <2> QED
    BY <2>2, <2>3
<1>7. ASSUME NEW r \in recs PROVE \E k \in 1..n : Sorted(recs)[k] = r
  <2>1. Rank(recs, r) + 1 \in 1..n /\ (Rank(recs, r) + 1) - 1 = Rank(recs, r)
    BY <1>1
  <2>2. /\ Sorted(recs)[Rank(recs, r) + 1] \in recs
        /\ Rank(recs, Sorted(recs)[Rank(recs, r) + 1]) = Rank(recs, r)
    BY <1>6, <2>1
  <2> QED
    BY <2>1, <2>2, RankOrder
<1>8. ASSUME NEW j \in 1..n, NEW k \in 1..n, j < k
      PROVE  Sorted(recs)[j].id < Sorted(recs)[k].id
  <2> DEFINE q == Sorted(recs)[j]
             r == Sorted(recs)[k]
  <2>1. q \in recs /\ r \in recs /\ Rank(recs, q) = j - 1 /\ Rank(recs, r) = k - 1
    BY <1>6
  <2> HIDE DEF q, r
  <2>2. q.id \in Nat /\ r.id \in Nat
    BY <2>1, IDAssumption DEF File
  <2>3. Rank(recs, q) < Rank(recs, r)
    BY <1>1, <1>8, <2>1
  <2>4. q.id # r.id /\ ~(r.id < q.id)
    <3>1. q.id = r.id => q = r
      BY <2>1 DEF Unique
    <3>2. r.id < q.id => Rank(recs, r) < Rank(recs, q)
      BY <2>1, RankOrder
    <3> QED BY <1>1, <2>1, <2>3, <3>1, <3>2
  <2>5. q.id < r.id
    BY <2>2, <2>4
  <2> QED
    BY <2>5 DEF q, r
<1> QED
  BY <1>1, <1>6, <1>7, <1>8

\* One step of the search between lo and hi, with what g finds in the rest.
Halve(recs, id, g, lo, hi) ==
  LET seq == Sorted(recs)
      mid == (lo + hi) \div 2
  IN  IF lo >= hi THEN {}
      ELSE IF seq[mid + 1].id = id THEN {seq[mid + 1]}
      ELSE IF seq[mid + 1].id < id THEN g[<<mid + 1, hi>>] ELSE g[<<lo, mid>>]

Bounds(recs) == (0..Cardinality(recs)) \X (0..Cardinality(recs))

\* What there is to find between lo and hi.
Slice(recs, id, lo, hi) ==
  {r \in recs : r.id = id /\ \E k \in lo..(hi - 1) : Sorted(recs)[k + 1] = r}

\* g finds what there is between bounds that are less than d apart.
Finds(recs, id, g, d) ==
  /\ \A l, h \in 0..Cardinality(recs) :
       l < h /\ h - l < d => g[<<l, h>>] = Slice(recs, id, l, h)
  /\ \A l, h \in 0..Cardinality(recs) : l >= h => g[<<l, h>>] = {}

\* A step finds what there is, if the rest of the search does.
LEMMA HalveFinds ==
  ASSUME NEW recs \in SUBSET File, Unique(recs), NEW id \in ID, NEW g,
         NEW lo \in 0..Cardinality(recs), NEW hi \in 0..Cardinality(recs),
         Finds(recs, id, g, hi - lo)
  PROVE  Halve(recs, id, g, lo, hi) = Slice(recs, id, lo, hi)
<1> DEFINE n == Cardinality(recs)
           seq == Sorted(recs)
           mid == (lo + hi) \div 2
<1>1. /\ n \in Nat /\ \A k \in 1..n : seq[k] \in recs /\ seq[k].id \in Nat
      /\ \A j, k \in 1..n : j < k => seq[j].id < seq[k].id
  <2>1. /\ n \in Nat /\ \A k \in 1..n : seq[k] \in recs
        /\ \A j, k \in 1..n : j < k => seq[j].id < seq[k].id
    BY SortedRecords
  <2>2. \A r \in recs : r.id \in Nat
    BY IDAssumption DEF File
  <2> HIDE DEF seq, n
  <2> QED
    BY <2>1, <2>2
<1>2. id \in Nat
  BY IDAssumption
<1>3. CASE lo >= hi
  <2>1. lo..(hi - 1) = {}
    BY <1>1, <1>3
  <2> QED
    BY <1>3, <2>1 DEF Halve, Slice
<1>4. CASE lo < hi
  <2>1. mid \in lo..(hi - 1) /\ mid \in 0..n /\ mid + 1 \in 0..n /\ mid + 1 \in 1..n
    BY <1>1, <1>4
  <2>2. \A l, h \in 0..n : h - l < hi - lo => g[<<l, h>>] = Slice(recs, id, l, h)
    <3> SUFFICES ASSUME NEW l \in 0..n, NEW h \in 0..n, h - l < hi - lo
                 PROVE  g[<<l, h>>] = Slice(recs, id, l, h)
      OBVIOUS
    <3>1. CASE l < h
      BY <3>1 DEF Finds
    <3>2. CASE l >= h
      <4>1. l..(h - 1) = {}
        BY <1>1, <3>2
      <4> QED
        BY <3>2, <4>1 DEF Slice, Finds
    <3> QED
      BY <1>1, <3>1, <3>2
  <2> HIDE DEF mid
  <2>3. CASE seq[mid + 1].id = id
    <3>1. Slice(recs, id, lo, hi) = {seq[mid + 1]}
      BY <1>1, <2>1, <2>3 DEF Slice, Unique
    <3> QED
      BY <1>1, <1>4, <2>3, <3>1 DEF Halve, mid
  <2>4. CASE seq[mid + 1].id < id
    <3>1. \A k \in lo..(hi - 1) : seq[k + 1].id = id => k \in (mid + 1)..(hi - 1)
      <4> SUFFICES ASSUME NEW k \in lo..(hi - 1), seq[k + 1].id = id, k <= mid PROVE FALSE
        BY <1>1, <2>1
      <4>1. k + 1 \in 1..n
        BY <1>1
      <4>2. k = mid \/ k + 1 < mid + 1
        BY <2>1
      <4> QED
        BY <1>1, <1>2, <2>1, <2>4, <4>1, <4>2
    <3>2. Slice(recs, id, lo, hi) = Slice(recs, id, mid + 1, hi)
      <4>1. (mid + 1)..(hi - 1) \subseteq lo..(hi - 1)
        BY <1>1, <2>1
      <4> HIDE DEF seq
      <4> QED BY <3>1, <4>1 DEF Slice, seq
    <3>3. g[<<mid + 1, hi>>] = Slice(recs, id, mid + 1, hi)
      BY <1>1, <2>1, <2>2
    <3>4. seq[mid + 1].id # id
      BY <1>1, <1>2, <2>1, <2>4
    <3> QED
      BY <1>1, <1>4, <2>4, <3>2, <3>3, <3>4 DEF Halve, mid
  <2>5. CASE id < seq[mid + 1].id
    <3>1. \A k \in lo..(hi - 1) : seq[k + 1].id = id => k \in lo..(mid - 1)
      <4>0. \A k \in lo..(hi - 1) : k \in lo..(mid - 1) \/ k >= mid
        BY <1>1, <2>1
      <4> SUFFICES ASSUME NEW k \in lo..(hi - 1), seq[k + 1].id = id, k >= mid PROVE FALSE
        BY <4>0, Zenon
      <4>1. k + 1 \in 1..n
        BY <1>1
      <4>2. k = mid \/ mid + 1 < k + 1
        BY <2>1
      <4> QED
        BY <1>1, <1>2, <2>1, <2>5, <4>1, <4>2
    <3>2. Slice(recs, id, lo, hi) = Slice(recs, id, lo, mid)
      <4>1. lo..(mid - 1) \subseteq lo..(hi - 1)
        BY <1>1, <2>1
      <4> QED BY <3>1, <4>1 DEF Slice
    <3>3. g[<<lo, mid>>] = Slice(recs, id, lo, mid)
      BY <1>1, <2>1, <2>2
    <3>4. seq[mid + 1].id # id /\ ~(seq[mid + 1].id < id)
      BY <1>1, <1>2, <2>1, <2>5
    <3> QED
      BY <1>1, <1>4, <3>2, <3>3, <3>4 DEF Halve, mid
  <2>6. seq[mid + 1].id = id \/ seq[mid + 1].id < id \/ id < seq[mid + 1].id
    BY <1>1, <1>2, <2>1
  <2> QED
    BY <2>3, <2>4, <2>5, <2>6
<1> QED
  BY <1>1, <1>3, <1>4

\* The search, as a solution of its recursion equation, of which there is one.
LEMMA SearchEquation ==
  ASSUME NEW recs \in SUBSET File, Unique(recs), NEW id \in ID
  PROVE  \E g : /\ Search(recs, id) = g[<<0, Cardinality(recs)>>]
                /\ g = [b \in Bounds(recs) |-> Halve(recs, id, g, b[1], b[2])]
<1> DEFINE P(g) == g = [b \in Bounds(recs) |-> Halve(recs, id, g, b[1], b[2])]
           f == [b \in Bounds(recs) |-> Slice(recs, id, b[1], b[2])]
<1>1. Search(recs, id) = (CHOOSE g : P(g))[<<0, Cardinality(recs)>>]
  BY DEF Search, Halve, Bounds
<1>2. P(f)
  <2>1. \A l, h \in 0..Cardinality(recs) : f[<<l, h>>] = Slice(recs, id, l, h)
    BY DEF Bounds
  <2>2. \A l, h \in 0..Cardinality(recs) : l >= h => Slice(recs, id, l, h) = {}
    <3> SUFFICES ASSUME NEW l \in 0..Cardinality(recs), NEW h \in 0..Cardinality(recs), l >= h
                 PROVE  Slice(recs, id, l, h) = {}
      OBVIOUS
    <3>1. Cardinality(recs) \in Nat
      BY RankOrder
    <3>2. l..(h - 1) = {}
      BY <3>1
    <3> QED
      BY <3>2 DEF Slice
  <2>3. ASSUME NEW b \in Bounds(recs)
        PROVE  Slice(recs, id, b[1], b[2]) = Halve(recs, id, f, b[1], b[2])
    <3>1. b[1] \in 0..Cardinality(recs) /\ b[2] \in 0..Cardinality(recs)
      BY DEF Bounds
    <3> HIDE DEF f
    <3>2. Finds(recs, id, f, b[2] - b[1])
      BY <2>1, <2>2 DEF Finds
    <3> QED
      BY <2>1, <3>1, <3>2, HalveFinds
  <2> QED
    BY <2>3
<1>3. P(CHOOSE g : P(g))
  <2> HIDE DEF P
  <2> QED BY <1>2
<1> QED
  BY <1>1, <1>3

\* Index.search finds the record of an id exactly if there is one, in every index
\* file: by induction on the distance between its bounds, as a least
\* counterexample.
THEOREM SearchFinds ==
  ASSUME NEW recs \in SUBSET File, Unique(recs), NEW id \in ID
  PROVE  Search(recs, id) = At(recs, id)
<1> DEFINE n == Cardinality(recs)
<1>1. n \in Nat
  BY RankOrder
<1>2. PICK g : /\ Search(recs, id) = g[<<0, n>>]
               /\ g = [b \in Bounds(recs) |-> Halve(recs, id, g, b[1], b[2])]
  BY SearchEquation
<1>3. \A l, h \in 0..n : g[<<l, h>>] = Halve(recs, id, g, l, h)
  <2>1. \A l, h \in 0..n : <<l, h>> \in Bounds(recs)
    BY DEF Bounds
  <2> QED
    BY <1>2, <2>1
<1>4. \A l, h \in 0..n : l >= h => g[<<l, h>>] = {}
  BY <1>3 DEF Halve
<1> DEFINE Bad == {d \in Nat : \E l, h \in 0..n :
                     l < h /\ h - l = d /\ g[<<l, h>>] # Slice(recs, id, l, h)}
<1>5. Bad = {}
  <2> SUFFICES ASSUME Bad # {} PROVE FALSE
    OBVIOUS
  <2>1. PICK d \in Bad : \A e \in Bad : d <= e
    <3>1. Bad \in SUBSET Nat
      OBVIOUS
    <3> HIDE DEF Bad
    <3> QED BY <3>1, LeastNatural
  <2>2. PICK l \in 0..n, h \in 0..n : l < h /\ h - l = d /\ g[<<l, h>>] # Slice(recs, id, l, h)
    BY <2>1
  <2>3. \A i, j \in 0..n : i < j /\ j - i < h - l => g[<<i, j>>] = Slice(recs, id, i, j)
    <3> SUFFICES ASSUME NEW i \in 0..n, NEW j \in 0..n, i < j, j - i < h - l,
                        g[<<i, j>>] # Slice(recs, id, i, j)
                 PROVE  FALSE
      OBVIOUS
    <3>1. j - i \in Bad
      <4>1. j - i \in Nat
        BY <1>1
      <4> QED
        BY <4>1
    <3>2. d <= j - i
      BY <2>1, <3>1
    <3> QED
      BY <1>1, <2>2, <3>2
  <2>4. Halve(recs, id, g, l, h) = Slice(recs, id, l, h)
    <3>1. Finds(recs, id, g, h - l)
      BY <1>4, <2>3 DEF Finds
    <3> QED
      BY <3>1, HalveFinds
  <2> QED
    BY <1>3, <2>2, <2>4
<1>6. Slice(recs, id, 0, n) = At(recs, id)
  <2>1. ASSUME NEW r \in recs PROVE \E k \in 0..(n - 1) : Sorted(recs)[k + 1] = r
    <3>1. PICK k \in 1..n : Sorted(recs)[k] = r
      BY SortedRecords
    <3>2. k - 1 \in 0..(n - 1) /\ (k - 1) + 1 = k
      BY <1>1
    <3> QED
      BY <3>1, <3>2
  <2> QED
    BY <2>1 DEF Slice, At
<1>7. CASE n = 0
  <2>1. recs = {}
    BY <1>7, FilesFinite, FS_EmptySet
  <2> QED
    BY <1>2, <1>4, <1>7, <2>1 DEF At
<1>8. CASE n # 0
  <2>1. n \in Nat /\ 0 < n /\ n - 0 = n /\ n \notin Bad /\ 0 \in 0..n /\ n \in 0..n
    BY <1>1, <1>5, <1>8
  <2> QED
    BY <1>2, <1>6, <2>1
<1> QED
  BY <1>7, <1>8
-----------------------------------------------------------------------------
(* The records of the index files.                                         *)

\* An index file, and a build, has one record per block.
OneRecord ==
  /\ \A x \in IndexFile : Unique(index[x])
  /\ \A p \in Proc : call[p].pc \in Building => Unique(call[p].cand)

\* The steps that do not work at the index.
LEMMA OtherSteps ==
  ASSUME FlatTypeOK, NEW p \in Proc, Program(p),
         ~BuildIndex(p), ~WalkFile(p), ~WalkDone(p), ~WriteIndex(p)
  PROVE  index' = index /\ call'[p].pc \notin Building /\ \A q \in Proc \ {p} : Kin(q)
<1> DEFINE Aside == index' = index /\ call'[p].pc \notin Building
                    /\ \A q \in Proc \ {p} : Kin(q)
<1>1. NoCall.pc \notin Building
  BY NoCallType DEF Building
<1>2. ASSUME NEW id \in ID, NEW wf \in WF, PutCall(p, id, wf) PROVE Aside
  BY <1>2, PutCallCalls, KinSame DEF Building, PutCall
<1>3. CASE CheckUsage(p)
  BY <1>3, CheckUsageCalls, KinSame DEF Building, CheckUsage
<1>4. CASE EvictScan(p) \/ EvictDone(p)
  BY <1>4, EvictCalls, KinSame DEF Building, EvictScan, EvictDone
<1>5. CASE EvictOne(p)
  BY <1>5, EvictOneCalls DEF Building, EvictOne
<1>6. CASE OpenTmp(p)
  BY <1>6, OpenTmpCalls, KinSame DEF Building, OpenTmp
<1>7. CASE Fill(p)
  BY <1>7, FillCalls DEF Building, Fill
<1>8. CASE Rename(p)
  BY <1>1, <1>8, RenameCalls DEF Rename
<1>9. CASE RenameFails(p)
  BY <1>9, RenameFailsCalls, KinSame DEF Building, RenameFails
<1>10. CASE RemoveTmp(p)
  BY <1>1, <1>10, RemoveTmpCalls DEF RemoveTmp
<1>11. CASE Cut(p) \/ IndexDone(p)
  <2>1. call' = [call EXCEPT ![p] = NoCall] /\ index' = index
    BY <1>11 DEF Cut, IndexDone
  <2> QED
    BY <1>1, <2>1, EndCalls, KinSame
<1> QED
  BY <1>2, <1>3, <1>4, <1>5, <1>6, <1>7, <1>8, <1>9, <1>10, <1>11 DEF Program

\* The walk meets every file once.
LEMMA RecordsWalk ==
  ASSUME FlatTypeOK, BuildInv, OneRecord, NEW p \in Proc, WalkFile(p)
  PROVE  OneRecord'
<1>1. PICK id \in call[p].todo :
        /\ \A q \in Proc \ {p} : call'[q] = call[q]
        /\ call[p].pc = "walk" /\ call'[p].pc = "walk"
        /\ call'[p].cand = call[p].cand \cup RecordOf(id, call[p].need)
  BY WalkFileCalls
<1>2. Unique(files) /\ call[p].cand \subseteq File /\ files \subseteq File
  BY FlatParts, CallFields
<1>3. \A f \in RecordOf(id, call[p].need) : f \in files /\ f.id = id
  BY DEF RecordOf, At, Readable
<1>4. \A f \in call[p].cand : f.id = id => FALSE
  <2>1. WalkOK(call[p], files)
    BY <1>1 DEF BuildInv
  <2>2. \A f \in call[p].cand : f.id \in ID
    BY <1>2 DEF File
  <2> QED
    BY <2>1, <2>2 DEF WalkOK, At
<1>5. Unique(call[p].cand)
  BY <1>1 DEF OneRecord, Building
<1>6. Unique(call'[p].cand)
  BY <1>1, <1>2, <1>3, <1>4, <1>5 DEF Unique
<1>7. index' = index
  BY DEF WalkFile
<1> QED
  BY <1>1, <1>6, <1>7 DEF OneRecord

\* What is written is a part of what was found.
LEMMA RecordsWrite ==
  ASSUME FlatTypeOK, OneRecord, NEW p \in Proc, WriteIndex(p)
  PROVE  OneRecord'
<1>1. PICK x \in call[p].todo :
        /\ index' = [index EXCEPT ![x] = RecordsFor(p, x)]
        /\ \A q \in Proc \ {p} : call'[q] = call[q]
        /\ call[p].pc = "write" /\ call'[p].pc = "write"
        /\ call'[p].cand = call[p].cand
  BY WriteIndexCalls
<1>2. Unique(call[p].cand)
  BY <1>1 DEF OneRecord, Building
<1>3. Unique(RecordsFor(p, x))
  BY <1>2 DEF RecordsFor, Unique
<1>4. ASSUME NEW y \in IndexFile PROVE Unique(index'[y])
  <2>1. index'[y] = IF y = x THEN RecordsFor(p, x) ELSE index[y]
    BY <1>1, FlatParts
  <2> QED
    BY <1>3, <2>1 DEF OneRecord
<1> QED
  BY <1>1, <1>2, <1>4 DEF OneRecord

\* OneRecord is kept.
LEMMA OneRecordNext ==
  ASSUME TypeOK, BuildInv, OneRecord, [Next]_vars
  PROVE  OneRecord'
<1>1. FlatTypeOK
  BY DEF TypeOK
<1>2. ASSUME NEW p \in Proc, Program(p) PROVE OneRecord'
  <2>1. CASE BuildIndex(p)
    <3>1. /\ \A q \in Proc \ {p} : call'[q] = call[q]
          /\ call'[p].cand = {} /\ index' = index
      BY <1>1, <2>1, BuildIndexCalls DEF BuildIndex
    <3>2. Unique({})
      BY DEF Unique
    <3> QED
      BY <3>1, <3>2 DEF OneRecord
  <2>2. CASE WalkDone(p)
    <3>1. /\ \A q \in Proc \ {p} : call'[q] = call[q]
          /\ call[p].pc = "walk" /\ call'[p].cand = call[p].cand /\ index' = index
      BY <1>1, <2>2, WalkDoneCalls DEF WalkDone
    <3> QED
      BY <3>1 DEF OneRecord, Building
  <2>3. CASE ~BuildIndex(p) /\ ~WalkFile(p) /\ ~WalkDone(p) /\ ~WriteIndex(p)
    <3>1. index' = index /\ call'[p].pc \notin Building /\ \A q \in Proc \ {p} : Kin(q)
      BY <1>1, <1>2, <2>3, OtherSteps
    <3> QED
      BY <3>1 DEF OneRecord, Kin
  <2> QED
    BY <1>1, <2>1, <2>2, <2>3, RecordsWalk, RecordsWrite
<1>3. CASE call' = call /\ index' = index
  BY <1>3 DEF OneRecord
<1>4. CASE Unplug
  <2>1. index' = index /\ \A q \in Proc : call'[q].pc \notin Building
    BY <1>4, NoCallType DEF Unplug, Building
  <2> QED
    BY <2>1 DEF OneRecord
<1>5. Tick \/ Flush \/ Plug => call' = call /\ index' = index
  BY DEF Tick, Flush, Plug
<1>6. \A id, wf : Visit(id, wf) => call' = call /\ index' = index
  BY DEF Visit
<1> QED
  BY <1>2, <1>3, <1>4, <1>5, <1>6, FlatSteps DEF Medium, flatVars

\* "Has returns true if the index contains a non-expired block" (index.go): for
\* every index file that builds write, with any number of records, the binary
\* search of Has and the list of Records agree on every id at every second but
\* the one in which a record expires, when Has still answers yes.
THEOREM LookupsConsistent == Spec => []LookupsAgree
<1>1. Init => OneRecord
  BY NoCallType DEF Init, FlatInit, OneRecord, Unique, Building
<1>2. IInv /\ OneRecord /\ [Next]_vars => OneRecord'
  BY OneRecordNext DEF IInv
<1>3. ASSUME TypeOK, OneRecord PROVE LookupsAgree
  <2> SUFFICES ASSUME NEW x \in IndexFile, NEW id \in ID,
                      NEW at \in now .. MaxTime + TTL[MaxWF] + 1
               PROVE  IndexHas(index[x], id, at) <=>
                        \E r \in At(index[x], id) :
                          r \in Records(index[x], at) \/ LogicalExpiry(r) = at
    BY DEF LookupsAgree
  <2>1. index[x] \in SUBSET File /\ Unique(index[x]) /\ now \in Nat
    BY <1>3, FlatParts DEF TypeOK, OneRecord
  <2>2. Search(index[x], id) = At(index[x], id)
    BY <2>1, SearchFinds
  <2>3. \A r \in index[x] : LogicalExpiry(r) \in Nat
    BY <2>1, TTLAssumption DEF LogicalExpiry, File, WF
  <2>4. at \in Int
    OBVIOUS
  <2>5. \A r \in index[x] : ~(at > LogicalExpiry(r)) <=> LogicalExpiry(r) > at \/ LogicalExpiry(r) = at
    BY <2>3, <2>4
  <2> QED
    BY <2>2, <2>5 DEF IndexHas, Records, At
<1>4. IInv /\ OneRecord => LookupsAgree
  BY <1>3 DEF IInv
<1> QED
  BY <1>1, <1>2, <1>4, VolumeInvariant, PTL DEF Spec
-----------------------------------------------------------------------------
(* A round of a node that has the volume to itself.                        *)

\* The node does not share the volume with `snk mass-storage`.
LoopAlone == \A U \in Users : Loop \in U => U = {Loop}

\* Nobody else is in a call; the loop makes one only in the push, of a block that
\* has at least the work owed, and the file it found is still there, as is the
\* temporary file that it wrote.
SoloInv ==
  /\ Loop \in users => \A p \in Proc \ {Loop} : call[p].pc = "idle"
  /\ Loop \notin users => half = "idle"
  /\ call[Loop].pc \in {"idle", "usage", "open", "fill", "rename"}
  /\ call[Loop].pc # "idle" =>
       /\ half = "push"
       /\ \E r \in call[Loop].req :
            /\ call[Loop].seen = At(files, r.id)
            /\ \A o \in owed : o.id = r.id => r.wf >= o.wf
            /\ call[Loop].pc = "rename" => r \in tmp
  /\ call[Loop].pc \in {"fill", "rename"} => call[Loop].fd = "tmp"

\* Between rounds, and while the volume is out, nothing is owed; a listing
\* begins with an empty page, a round with an empty token.
RestInv ==
  /\ half \in {"idle", "pull-list", "push-list"} => page = {}
  /\ half = "idle" => cursor = NoCursor
  /\ half = "idle" \/ ~present => owed = {}

\* The listing has still to come to an entry with the key of f.
Ahead(f) == (half \in {"pull-list", "push-list"} \/ cursor # NoCursor) /\ KeyLess(cursor, f)

\* The store has what is owed; and so has the volume, but for damaged files.
Stocked(o) == \E b \in db.block : b.id = o.id /\ b.wf >= o.wf
Landed(o) == \E f \in At(files, o.id) : f.part # "all" \/ f.wf >= o.wf

\* In the pull the file of a block that is owed stays on the volume, and the
\* store has the block unless the file is on the page or ahead.
PullInv ==
  half \in {"pull-list", "pull"} =>
    \A o \in owed : \E f \in Whole(files) :
      f.id = o.id /\ f.wf = o.wf /\ (Stocked(o) \/ f \in page \/ Ahead(f))

\* In the push the store has every block that is owed, and so has the volume
\* unless the block is being written, on the page or ahead.
PushInv ==
  half \in {"push-list", "push"} =>
    \A o \in owed : \E b \in db.block :
      /\ b.id = o.id /\ b.wf >= o.wf
      /\ \/ Landed(o)
         \/ call[Loop].pc # "idle" /\ At(call[Loop].req, o.id) # {}
         \/ \E e \in page : e.id = o.id /\ e.wf >= o.wf
         \/ Ahead(b)

RoundInv == SoloInv /\ RestInv /\ PullInv /\ PushInv

\* A step that a round does not notice: of another program, of the clock, or of
\* the volume while nothing is owed.
Elsewhere ==
  /\ UNCHANGED <<users, db, half, cursor, page, owed>> /\ (present => present')
  /\ call'[Loop].pc = call[Loop].pc
  /\ Loop \in users => call' = call
  /\ owed # {} \/ call[Loop].pc # "idle" => UNCHANGED <<files, tmp, call>>

\* The loop goes on with the block that it is writing.
Copying == CheckUsage(Loop) \/ OpenTmp(Loop) \/ Fill(Loop)

\* A step of a program leaves the others where they are.
LEMMA OthersWait ==
  ASSUME FlatTypeOK, NEW p \in Proc, Program(p), NEW q \in Proc \ {p}
  PROVE  call'[q].pc = call[q].pc
<1>1. CASE BuildIndex(p)
  BY <1>1, BuildIndexCalls
<1>2. CASE WalkFile(p)
  BY <1>2, WalkFileCalls
<1>3. CASE WalkDone(p)
  BY <1>3, WalkDoneCalls
<1>4. CASE WriteIndex(p)
  BY <1>4, WriteIndexCalls
<1>5. CASE ~BuildIndex(p) /\ ~WalkFile(p) /\ ~WalkDone(p) /\ ~WriteIndex(p)
  BY <1>5, OtherSteps DEF Kin
<1> QED
  BY <1>1, <1>2, <1>3, <1>4, <1>5

\* The other programs stand still while the loop uses the volume.
LEMMA OthersElsewhere ==
  ASSUME LoopAlone, TypeOK, SoloInv, RestInv, JobInv, NEW p \in Proc \ {Loop},
         ToolStep(p)
  PROVE  Elsewhere
<1>1. FlatTypeOK /\ Loop \in Proc /\ users \in Users
  BY UsbAssumption DEF TypeOK, FlatTypeOK
<1>2. Loop \notin users
  <2> SUFFICES ASSUME Loop \in users PROVE FALSE
    OBVIOUS
  <2>1. p \notin users /\ call[p].pc = "idle" /\ ~job[p].on
    BY <1>1 DEF LoopAlone, SoloInv, JobInv
  <2>2. ~CallStep(p) /\ ~Abort(p)
    BY <2>1 DEF CallStep, Abort, CheckUsage, EvictScan, EvictOne, EvictDone, OpenTmp, Fill,
       Rename, RenameFails, RemoveTmp, WalkFile, WalkDone, WriteIndex, IndexDone, In
  <2> QED
    BY <2>1, <2>2 DEF ToolStep, ToolStart, ToolRef, ToolPut, ToolWriteFails, ToolIndex, ToolStops
<1>3. owed = {} /\ call[Loop].pc = "idle"
  BY <1>2 DEF SoloInv, RestInv
<1>4. Program(p) \/ UNCHANGED flatVars
  BY ToolProgram
<1>5. call'[Loop].pc = call[Loop].pc /\ UNCHANGED <<users, present>>
  BY <1>1, <1>4, OthersWait, ProgramType DEF flatVars
<1>6. UNCHANGED <<db, half, cursor, page, owed>>
  BY DEF ToolStep, loop
<1> QED
  BY <1>2, <1>3, <1>5, <1>6 DEF Elsewhere

\* A call of the loop takes the steps of a Put without limit and without rival.
LEMMA LoopCall ==
  ASSUME TypeOK, SoloInv, CallStep(Loop)
  PROVE  Copying \/ Rename(Loop)
<1>1. call[Loop].pc \in {"idle", "usage", "open", "fill", "rename"}
  BY DEF SoloInv
<1>2. ~RenameFails(Loop)
  BY DEF RenameFails, SoloInv, In, At
<1> QED
  BY <1>1, <1>2 DEF CallStep, Copying, EvictScan, EvictOne, EvictDone, RemoveTmp, WalkFile,
     WalkDone, WriteIndex, IndexDone, In

\* The steps of a node that has the volume to itself.
LEMMA RoundSteps ==
  ASSUME LoopAlone, TypeOK, CallsEnd, SoloInv, RestInv, JobInv, [Next]_vars
  PROVE  \/ Elsewhere \/ (\E b \in LocalBlocks : LocalPut(b[1], b[2])) \/ LocalEvict
         \/ BeginRound \/ ListVolume \/ PullRef \/ EndPull
         \/ ListStore \/ PushRef \/ PushSkip \/ NextPage \/ EndPush
         \/ (Copying \/ Rename(Loop)) /\ UNCHANGED <<db, loop>>
         \/ Restart \/ RefFails \/ WriteFails \/ ListFails \/ VolumeOut
<1>1. ASSUME NEW b \in VisitBlocks, Visit(b[1], b[2]) PROVE Elsewhere
  <2>1. owed = {} /\ call[Loop].pc = "idle"
    BY <1>1, UsbAssumption DEF Visit, RestInv, CallsEnd
  <2> QED
    BY <1>1, <2>1 DEF Elsewhere, Visit, loop
<1>2. (Flush \/ Tick \/ Plug) /\ UNCHANGED <<db, loop>> => Elsewhere
  BY DEF Elsewhere, Flush, Tick, Plug, loop
<1>3. UNCHANGED vars => Elsewhere
  BY DEF Elsewhere, vars, flatVars, loop
<1>4. \A p \in Proc \ {Loop} : ToolStep(p) => Elsewhere
  BY OthersElsewhere
<1>6. CASE LoopStep
  BY <1>6, LoopCall DEF LoopStep
<1> QED
  BY <1>1, <1>2, <1>3, <1>4, <1>6 DEF Next, NodeStep, Trouble, Environment

\* What the loop's own call does.
LEMMA CopyingCall ==
  ASSUME TypeOK, SoloInv, Copying
  PROVE  /\ files' = files /\ users' = users /\ present' = present
         /\ call[Loop].pc # "idle" /\ call'[Loop].pc \in {"open", "fill", "rename"}
         /\ call'[Loop].req = call[Loop].req /\ call'[Loop].seen = call[Loop].seen
         /\ call'[Loop].pc \in {"fill", "rename"} => call'[Loop].fd = "tmp"
         /\ \A p \in Proc \ {Loop} : call'[p].pc = call[p].pc
         /\ call'[Loop].pc = "rename" => \E r \in call[Loop].req : r \in tmp'
<1>1. FlatTypeOK /\ Loop \in Proc /\ LimitOf[Loop] = 0 /\ call[Loop] \in Call
      /\ call \in [Proc -> Call]
  BY UsbAssumption, FlatParts DEF TypeOK
<1>2. CASE CheckUsage(Loop)
  <2>1. /\ \A q \in Proc \ {Loop} : call'[q] = call[q]
        /\ call[Loop].pc = "usage"
        /\ call'[Loop].req = call[Loop].req /\ call'[Loop].seen = call[Loop].seen
    BY <1>1, <1>2, CheckUsageCalls
  <2>2. ~OverLimit(Loop)
    BY <1>1 DEF OverLimit
  <2>3. call' = [call EXCEPT ![Loop].pc = "open"]
    BY <1>2, <2>2 DEF CheckUsage
  <2>4. call'[Loop].pc = "open"
    BY <1>1, <2>3 DEF Call
  <2> QED
    BY <1>2, <2>1, <2>4 DEF CheckUsage
<1>3. CASE OpenTmp(Loop)
  BY <1>1, <1>3, OpenTmpCalls DEF OpenTmp
<1>4. CASE Fill(Loop)
  <2>1. PICK r \in call[Loop].req :
          /\ tmp' = IF call[Loop].fd = "tmp" THEN Replaced(tmp, r) ELSE tmp
          /\ files' = IF call[Loop].fd = "path" THEN Replaced(files, r) ELSE files
          /\ \A q \in Proc \ {Loop} : Kin(q)
          /\ call[Loop].pc = "fill" /\ call'[Loop].pc = "rename"
          /\ call'[Loop].fd = call[Loop].fd
          /\ call'[Loop].req = call[Loop].req /\ call'[Loop].seen = call[Loop].seen
    BY <1>1, <1>4, FillCalls
  <2>2. call[Loop].fd = "tmp"
    BY <2>1 DEF SoloInv
  <2>3. r \in tmp' /\ files' = files
    BY <2>1, <2>2 DEF Replaced
  <2> QED
    BY <1>4, <2>1, <2>2, <2>3 DEF Kin, Fill
<1> QED
  BY <1>2, <1>3, <1>4 DEF Copying

\* The loop writes one block at a time.
LEMMA OneRequest ==
  ASSUME WriteInv, NEW r \in call[Loop].req, NEW s \in call[Loop].req
  PROVE  r = s
BY UsbAssumption DEF WriteInv, CallOK

\* A step that leaves the volume alone, and a block that is being written owed.
LEMMA SoloQuiet ==
  ASSUME SoloInv, UNCHANGED flatVars, Loop \notin users => half' = "idle",
         call[Loop].pc # "idle" => half' = half /\ owed' \subseteq owed
  PROVE  SoloInv'
<1>1. files' = files /\ tmp' = tmp /\ call' = call /\ users' = users
  BY DEF flatVars
<1>2. ASSUME call[Loop].pc # "idle"
      PROVE  /\ half' = "push"
             /\ \E r \in call[Loop].req :
                  /\ call[Loop].seen = At(files, r.id)
                  /\ \A o \in owed' : o.id = r.id => r.wf >= o.wf
                  /\ call[Loop].pc = "rename" => r \in tmp
  BY <1>2 DEF SoloInv
<1>3. /\ Loop \in users => \A p \in Proc \ {Loop} : call[p].pc = "idle"
      /\ call[Loop].pc \in {"idle", "usage", "open", "fill", "rename"}
      /\ call[Loop].pc \in {"fill", "rename"} => call[Loop].fd = "tmp"
  BY DEF SoloInv
<1> QED
  BY <1>1, <1>2, <1>3 DEF SoloInv

\* A step after which the loop is in no call.
LEMMA SoloOver ==
  ASSUME SoloInv, call'[Loop].pc = "idle", Loop \notin users => half' = "idle", users' = users,
         \A p \in Proc \ {Loop} : call'[p].pc = call[p].pc \/ call'[p].pc = "idle"
  PROVE  SoloInv'
BY DEF SoloInv

\* SoloInv is kept.
LEMMA SoloNext ==
  ASSUME LoopAlone, IInv, RoundInv, [Next]_vars
  PROVE  SoloInv'
<1>1. /\ TypeOK /\ FlatTypeOK /\ CallsEnd /\ WriteInv /\ StoreInv /\ JobInv /\ db \in DB
      /\ SoloInv /\ RestInv /\ PushInv /\ Loop \in Proc
  BY UsbAssumption DEF IInv, RoundInv, TypeOK
<1>2. CASE Elsewhere
  <2>1. CASE call[Loop].pc = "idle"
    <3>1. call'[Loop].pc = "idle" /\ half' = half /\ users' = users /\ (Loop \in users => call' = call)
      BY <1>2, <2>1 DEF Elsewhere
    <3> QED
      BY <1>1, <3>1 DEF SoloInv
  <2>2. CASE call[Loop].pc # "idle"
    <3>1. UNCHANGED <<files, tmp, call, users, half, owed>>
      BY <1>2, <2>2 DEF Elsewhere
    <3> QED
      BY <1>1, <3>1 DEF SoloInv
  <2> QED
    BY <2>1, <2>2
<1>3. ASSUME NEW b \in LocalBlocks, LocalPut(b[1], b[2]) PROVE SoloInv'
  <2>1. UNCHANGED flatVars /\ half' = half /\ owed' = owed
    BY <1>3 DEF LocalPut, loop
  <2>2. Loop \notin users => half' = "idle"
    BY <1>1, <2>1 DEF SoloInv
  <2> QED
    BY <1>1, <2>1, <2>2, SoloQuiet
<1>4. CASE LocalEvict
  <2>1. UNCHANGED flatVars /\ half' = half /\ owed' \subseteq owed
    BY <1>4 DEF LocalEvict
  <2>2. Loop \notin users => half' = "idle"
    BY <1>1, <2>1 DEF SoloInv
  <2> QED
    BY <1>1, <2>1, <2>2, SoloQuiet
<1>5. CASE BeginRound \/ ListVolume \/ PullRef \/ EndPull \/ ListStore \/ PushSkip \/ NextPage
           \/ EndPush \/ RefFails \/ ListFails
  <2>1. /\ UNCHANGED flatVars /\ (half # "idle" \/ Loop \in users)
        /\ (half # "push" \/ call[Loop].pc = "idle")
    BY <1>5 DEF BeginRound, ListVolume, PullRef, EndPull, ListStore, PushSkip, NextPage, EndPush,
       RefFails, ListFails, In
  <2>2. Loop \in users /\ call[Loop].pc = "idle"
    BY <1>1, <2>1 DEF SoloInv
  <2> QED
    BY <1>1, <2>1, <2>2, SoloQuiet
<1>6. CASE PushRef
  <2>1. PICK e \in page, b \in db.block : PutCall(Loop, b.id, b.wf)
    BY <1>6 DEF PushRef
  <2>2. b.id \in ID /\ b.wf \in WF
    BY <1>1 DEF DB, Ref
  <2> DEFINE r == [id |-> b.id, createdAt |-> now, wf |-> b.wf, part |-> "all"]
  <2>3. /\ \A q \in Proc \ {Loop} : call'[q] = call[q]
        /\ call'[Loop].pc = "usage" /\ call'[Loop].seen = At(files, b.id)
        /\ call'[Loop].req = {r}
    BY <1>1, <2>1, <2>2, PutCallCalls
  <2>4. half = "push" /\ half' = half /\ owed' = owed /\ files' = files /\ users' = users
    BY <1>6, <2>1 DEF PushRef, PutCall
  <2>5. r \in call'[Loop].req /\ r.id = b.id /\ r.wf = b.wf
    BY <2>3
  <2>6. \A o \in owed : o.id = b.id => b.wf >= o.wf
    <3>1. \A c \in db.block : c.id = b.id => c = b
      BY <1>1 DEF StoreInv, Consistent
    <3> QED
      BY <1>1, <2>4, <3>1 DEF PushInv
  <2>7. Loop \in users
    BY <1>1, <2>4 DEF SoloInv
  <2> HIDE DEF r
  <2> QED
    BY <1>1, <2>3, <2>4, <2>5, <2>6, <2>7 DEF SoloInv
<1>7. CASE Copying /\ UNCHANGED <<db, loop>>
  <2>1. /\ files' = files /\ users' = users
        /\ call[Loop].pc # "idle" /\ call'[Loop].pc \in {"open", "fill", "rename"}
        /\ call'[Loop].req = call[Loop].req /\ call'[Loop].seen = call[Loop].seen
        /\ call'[Loop].pc \in {"fill", "rename"} => call'[Loop].fd = "tmp"
        /\ \A p \in Proc \ {Loop} : call'[p].pc = call[p].pc
        /\ call'[Loop].pc = "rename" => \E r \in call[Loop].req : r \in tmp'
    BY <1>1, <1>7, CopyingCall
  <2>2. half' = half /\ owed' = owed
    BY <1>7 DEF loop
  <2>3. PICK r \in call[Loop].req :
          /\ call[Loop].seen = At(files, r.id)
          /\ \A o \in owed : o.id = r.id => r.wf >= o.wf
    BY <1>1, <2>1 DEF SoloInv
  <2>4. call'[Loop].pc = "rename" => r \in tmp'
    BY <1>1, <2>1, <2>3, OneRequest
  <2> QED
    BY <1>1, <2>1, <2>2, <2>3, <2>4 DEF SoloInv
<1>8. CASE Rename(Loop) /\ UNCHANGED <<db, loop>>
  <2>1. call'[Loop] = NoCall /\ \A q \in Proc \ {Loop} : call'[q].pc = call[q].pc
    BY <1>1, <1>8, RenameCalls DEF Kin
  <2>2. users' = users /\ half' = half
    BY <1>8 DEF Rename, loop
  <2>3. Loop \notin users => half' = "idle"
    BY <1>1, <2>2 DEF SoloInv
  <2> QED
    BY <1>1, <2>1, <2>2, <2>3, NoCallType, SoloOver
<1>9. CASE Restart \/ WriteFails
  <2>1. call' = [call EXCEPT ![Loop] = NoCall] /\ users' = users /\ (half' = "idle" \/ half' = half)
    BY <1>9 DEF Restart, WriteFails, Abort
  <2>2. call'[Loop] = NoCall /\ \A q \in Proc \ {Loop} : call'[q].pc = call[q].pc
    BY <1>1, <2>1, EndCalls
  <2>3. Loop \notin users => half' = "idle"
    BY <1>1, <2>1 DEF SoloInv
  <2> QED
    BY <1>1, <2>1, <2>2, <2>3, NoCallType, SoloOver
<1>10. CASE VolumeOut
  <2>1. users' = users /\ Loop \in users /\ \A q \in Proc : call'[q].pc = "idle"
    BY <1>10, NoCallType DEF VolumeOut, Unplug
  <2> QED
    BY <1>1, <2>1, SoloOver
<1> QED
  BY <1>1, <1>2, <1>3, <1>4, <1>5, <1>6, <1>7, <1>8, <1>9, <1>10, RoundSteps

\* RestInv is kept.
LEMMA RestNext ==
  ASSUME LoopAlone, IInv, RoundInv, [Next]_vars
  PROVE  RestInv'
<1>1. TypeOK /\ CallsEnd /\ JobInv /\ SoloInv /\ RestInv
  BY DEF IInv, RoundInv
<1>2. CASE Elsewhere
  BY <1>1, <1>2 DEF Elsewhere, RestInv
<1>3. ASSUME half' = half, cursor' = cursor, page' \subseteq page, owed' \subseteq owed, present' = present
      PROVE  RestInv'
  BY <1>1, <1>3 DEF RestInv
<1>4. \A b \in LocalBlocks : LocalPut(b[1], b[2])
        => UNCHANGED <<half, cursor, page, owed, present>>
  BY DEF LocalPut, loop, flatVars
<1>5. LocalEvict \/ PullRef \/ PushSkip \/ RefFails \/ WriteFails
      => UNCHANGED <<half, cursor, present>> /\ page' \subseteq page /\ owed' \subseteq owed
  BY DEF LocalEvict, PullRef, PushSkip, RefFails, WriteFails, Abort, flatVars
<1>6. PushRef => UNCHANGED <<half, cursor, owed, present>> /\ page' \subseteq page
  BY DEF PushRef, PutCall
<1>7. (Copying \/ Rename(Loop)) /\ UNCHANGED <<db, loop>>
      => UNCHANGED <<half, cursor, page, owed, present>>
  BY DEF Copying, CheckUsage, OpenTmp, Fill, Rename, loop
<1>8. CASE BeginRound
  BY <1>1, <1>8 DEF BeginRound, RestInv, flatVars
<1>9. CASE ListVolume \/ ListStore
  BY <1>1, <1>9 DEF ListVolume, ListStore, RestInv, flatVars
<1>10. CASE NextPage \/ EndPull \/ EndPush \/ ListFails
  BY <1>1, <1>10 DEF NextPage, EndPull, EndPush, ListFails, RestInv, flatVars
<1>11. CASE Restart
  BY <1>1, <1>11 DEF Restart, RestInv
<1>12. CASE VolumeOut
  BY <1>1, <1>12 DEF VolumeOut, RestInv
<1> QED
  BY <1>1, <1>2, <1>3, <1>4, <1>5, <1>6, <1>7, <1>8, <1>9, <1>10, <1>11, <1>12, RoundSteps

\* A Put that no tombstone refuses leaves the block in the store with its work.
LEMMA PutArrives ==
  ASSUME NEW d \in DB, NEW r \in Ref, NEW n \in Nat, ~Tombstoned(d, r.id, n)
  PROVE  \E b \in PutTxn(d, r, n).block : b.id = r.id /\ b.wf >= r.wf
<1>1. CASE Refused(d, r, n)
  BY <1>1 DEF PutTxn, Refused
<1>2. CASE ~Refused(d, r, n)
  <2>1. r \in PutTxn(d, r, n).block
    BY <1>2, StoredParts DEF PutTxn
  <2>2. r.wf \in Int
    BY DEF Ref, WF
  <2> QED
    BY <2>1, <2>2
<1> QED
  BY <1>1, <1>2

\* After a Put the store has every block that it had, with at least its work and
\* no earlier in the listing.
LEMMA StockGrows ==
  ASSUME TypeOK, StoreInv, NEW id \in ID, NEW wf \in WF,
         db' = PutTxn(db, [id |-> id, createdAt |-> now, wf |-> wf,
                           tag |-> CHOOSE t \in Tag : TRUE], now),
         NEW b \in db.block
  PROVE  \E c \in db'.block :
           /\ c.id = b.id /\ c.wf >= b.wf
           /\ \A k \in [createdAt : Nat, id : Nat] : KeyLess(k, b) => KeyLess(k, c)
<1> DEFINE r == [id |-> id, createdAt |-> now, wf |-> wf, tag |-> CHOOSE t \in Tag : TRUE]
<1>1. now \in Nat /\ db \in DB /\ Consistent(db, now)
  BY DEF TypeOK, FlatTypeOK, StoreInv
<1>2. r \in Ref /\ r.createdAt = now /\ r.id \in Nat /\ r.wf \in Int
  BY <1>1, UsbAssumption, IDAssumption DEF Ref, WF
<1>3. b \in Ref /\ b.wf \in Int /\ b.id \in Nat /\ b.createdAt \in Nat /\ b.createdAt <= now
  <2>1. b \in db.trav /\ b \in Ref
    BY <1>1 DEF DB, Consistent
  <2>2. b.createdAt <= now
    BY <1>1, <2>1 DEF Consistent
  <2>3. b.wf \in WF /\ b.id \in ID /\ b.createdAt \in Nat
    BY <2>1 DEF Ref
  <2>4. WF \subseteq Int /\ ID \subseteq Nat
    BY IDAssumption DEF WF
  <2> QED
    BY <2>1, <2>2, <2>3, <2>4
<1>4. db' = PutTxn(db, r, now)
  OBVIOUS
<1> HIDE DEF r
<1>5. CASE Refused(db, r, now) \/ b.id # r.id
  <2>1. b \in db'.block
    BY <1>1, <1>2, <1>4, <1>5, StoredParts DEF PutTxn
  <2>2. b.wf >= b.wf
    BY <1>3
  <2> QED
    BY <2>1, <2>2
<1>6. CASE ~Refused(db, r, now) /\ b.id = r.id
  <2>1. r \in db'.block
    BY <1>1, <1>2, <1>4, <1>6, StoredParts DEF PutTxn
  <2>2. r.wf >= b.wf
    BY <1>2, <1>3, <1>6 DEF Refused
  <2>3. ASSUME NEW k \in [createdAt : Nat, id : Nat], KeyLess(k, b) PROVE KeyLess(k, r)
    <3>1. k.createdAt \in Nat /\ k.id \in Nat
      OBVIOUS
    <3> QED
      BY <1>1, <1>2, <1>3, <1>6, <2>3, <3>1 DEF KeyLess
  <2> QED
    BY <1>6, <2>1, <2>2, <2>3
<1> QED
  BY <1>5, <1>6

\* A listing begins before everything.
LEMMA TokenFirst ==
  ASSUME NEW e, e.createdAt \in Nat, e.id \in ID
  PROVE  KeyLess(NoCursor, e)
<1>1. e.id \in Nat \ {0}
  BY IDAssumption
<1> QED
  BY <1>1 DEF KeyLess, NoCursor

\* What is listed next is on the page or after its token.
LEMMA PageAhead ==
  ASSUME NEW d, Keyed(d.trav), KeysUnique(d.trav), IsFiniteSet(d.trav), NEW from,
         NEW e \in d.trav, KeyLess(from, e), e.wf \in Nat
  PROVE  LET refs == Page(d, from, PageSize, 0, 0)
             next == NextCursor(refs, PageSize)
         IN  e \in refs \/ (next # NoCursor /\ KeyLess(next, e))
<1>1. PageSize \in Nat \ {0}
  BY UsbAssumption
<1>2. e.createdAt \in Nat
  BY DEF Keyed
<1>3. e \in Listable(d, from, 0, 0)
  BY <1>2 DEF Listable
<1>4. LET open == Listable(d, from, 0, 0)
          refs == Page(d, from, PageSize, 0, 0)
          next == NextCursor(refs, PageSize)
      IN  \A f \in open \ refs : next # NoCursor /\ KeyLess(next, f)
  BY <1>1, PageComplete
<1> QED
  BY <1>3, <1>4

\* One file of the pull: what is owed of it is in the store afterwards.
LEMMA PullArrives ==
  ASSUME TypeOK, StoreInv, PullRef, present
  PROVE  \E e \in page :
           /\ page' = page \ {e} /\ owed' \subseteq owed
           /\ \A o \in owed' : Stocked(o) => Stocked(o)'
           /\ \A o \in owed' : e \in Whole(files) /\ e.id = o.id /\ e.wf = o.wf => Stocked(o)'
<1>1. PICK e \in page :
        /\ page' = page \ {e}
        /\ owed' = {o \in owed : o.id = e.id => ~Tombstoned(db, e.id, now)}
        /\ LET there == {b \in db.block : b.id = e.id}
               src   == IF present THEN At(Whole(files), e.id) ELSE {}
           IN  db' = IF src = {} \/ Skipped(e.wf, there) THEN db
                     ELSE LET f == CHOOSE g \in src : TRUE
                          IN  PutTxn(db, [id |-> e.id, createdAt |-> now, wf |-> f.wf,
                                          tag |-> CHOOSE t \in Tag : TRUE], now)
  BY DEF PullRef
<1> DEFINE there == {b \in db.block : b.id = e.id}
           src == At(Whole(files), e.id)
           f == CHOOSE g \in src : TRUE
           r == [id |-> e.id, createdAt |-> now, wf |-> f.wf, tag |-> CHOOSE t \in Tag : TRUE]
<1>2. db' = IF src = {} \/ Skipped(e.wf, there) THEN db ELSE PutTxn(db, r, now)
  BY <1>1
<1>3. /\ now \in Nat /\ db \in DB /\ e.id \in ID /\ e.wf \in WF /\ files \subseteq File
      /\ Unique(files) /\ owed \subseteq Owed
  BY FlatParts DEF TypeOK, File, Ref
<1>4. CASE src = {}
  <2>1. db' = db /\ ~(e \in Whole(files))
    BY <1>2, <1>4 DEF At
  <2> QED
    BY <1>1, <2>1 DEF Stocked
<1>5. CASE Skipped(e.wf, there)
  <2>1. db' = db
    BY <1>2, <1>5
  <2>2. \E b \in db.block : b.id = e.id /\ e.wf <= b.wf
    BY <1>5 DEF Skipped
  <2>3. \A b \in db.block : b.wf \in Int
    BY <1>3 DEF DB, Ref, WF
  <2>4. \A o \in owed : e.id = o.id /\ e.wf = o.wf => Stocked(o)
    BY <1>3, <2>2, <2>3 DEF Stocked, WF
  <2> QED
    BY <1>1, <2>1, <2>4 DEF Stocked
<1>6. CASE src # {} /\ ~Skipped(e.wf, there)
  <2>1. db' = PutTxn(db, r, now)
    BY <1>2, <1>6
  <2>2. f \in src
    <3> HIDE DEF src
    <3> QED BY <1>6
  <2>3. f \in files /\ f.id = e.id /\ f.wf \in WF
    <3> HIDE DEF f
    <3> QED BY <1>3, <2>2 DEF At, Whole, File
  <2>4. r \in Ref /\ r.id = e.id /\ r.wf = f.wf
    <3> HIDE DEF f
    <3> QED BY <1>3, <2>3, UsbAssumption DEF Ref
  <2>5. \A b \in db.block : \E c \in db'.block : c.id = b.id /\ c.wf >= b.wf
    <3> HIDE DEF r
    <3> QED BY <1>3, <2>1, <2>4, PutBrings
  <2>6. ASSUME NEW o \in owed', Stocked(o) PROVE Stocked(o)'
    <3>1. PICK b \in db.block : b.id = o.id /\ b.wf >= o.wf
      BY <2>6 DEF Stocked
    <3>2. PICK c \in db'.block : c.id = b.id /\ c.wf >= b.wf
      BY <2>5
    <3>3. db' \in DB
      BY PullPut
    <3>4. b.wf \in Int /\ c.wf \in Int /\ o.wf \in Int
      BY <1>1, <1>3, <3>3 DEF DB, Ref, WF, Owed
    <3> QED
      BY <3>1, <3>2, <3>4 DEF Stocked
  <2>7. ASSUME NEW o \in owed', e \in Whole(files), e.id = o.id, e.wf = o.wf
        PROVE  Stocked(o)'
    <3>1. f = e
      <4> HIDE DEF f
      <4> QED BY <1>3, <2>3, <2>7 DEF Whole, Unique
    <3>2. ~Tombstoned(db, e.id, now)
      BY <1>1, <2>7
    <3>3. \E b \in PutTxn(db, r, now).block : b.id = r.id /\ b.wf >= r.wf
      <4> HIDE DEF r
      <4> QED BY <1>3, <2>4, <3>2, PutArrives
    <3> HIDE DEF r, f
    <3> QED
      BY <2>1, <2>4, <2>7, <3>1, <3>3 DEF Stocked
  <2> QED
    BY <1>1, <2>6, <2>7
<1> QED
  BY <1>4, <1>5, <1>6

\* PullInv is kept.
LEMMA PullNext ==
  ASSUME LoopAlone, IInv, RoundInv, [Next]_vars
  PROVE  PullInv'
<1>1. /\ TypeOK /\ CallsEnd /\ JobInv /\ StoreInv /\ db \in DB /\ files \subseteq File /\ Unique(files)
      /\ owed \subseteq Owed /\ SoloInv /\ RestInv /\ PullInv
  BY FlatParts DEF IInv, RoundInv, TypeOK
<1> DEFINE Pulling == half \in {"pull-list", "pull"}
<1>2. CASE ~Pulling' \/ owed' = {}
  BY <1>2 DEF PullInv
<1>3. ASSUME Pulling, UNCHANGED <<files, half, cursor, page>>, owed' \subseteq owed,
             \A o \in owed' : Stocked(o) => Stocked(o)'
      PROVE  PullInv'
  <2> SUFFICES ASSUME NEW o \in owed'
               PROVE  \E f \in Whole(files) :
                        f.id = o.id /\ f.wf = o.wf /\ (Stocked(o)' \/ f \in page \/ Ahead(f))
    BY <1>3 DEF PullInv, Whole, Ahead
  <2>1. PICK f \in Whole(files) :
          f.id = o.id /\ f.wf = o.wf /\ (Stocked(o) \/ f \in page \/ Ahead(f))
    BY <1>1, <1>3 DEF PullInv
  <2> QED
    BY <1>3, <2>1
<1>4. CASE Elsewhere
  <2>1. UNCHANGED <<db, half, cursor, page, owed>> /\ (owed # {} => files' = files)
    BY <1>4 DEF Elsewhere
  <2>2. \A o \in owed' : Stocked(o) => Stocked(o)'
    BY <2>1 DEF Stocked
  <2> QED
    BY <1>2, <1>3, <2>1, <2>2
<1>5. ASSUME NEW b \in LocalBlocks, LocalPut(b[1], b[2]) PROVE PullInv'
  <2>1. b[1] \in ID /\ b[2] \in WF
    BY UsbAssumption
  <2>2. /\ UNCHANGED <<files, half, cursor, page, owed>>
        /\ db' = PutTxn(db, [id |-> b[1], createdAt |-> now, wf |-> b[2],
                             tag |-> CHOOSE t \in Tag : TRUE], now)
    BY <1>5 DEF LocalPut, flatVars, loop
  <2>3. db' \in DB
    BY <1>1, <2>1, <2>2, StorePut
  <2>4. ASSUME NEW o \in owed', Stocked(o) PROVE Stocked(o)'
    <3>1. PICK c \in db.block : c.id = o.id /\ c.wf >= o.wf
      BY <2>4 DEF Stocked
    <3>2. PICK d \in db'.block : d.id = c.id /\ d.wf >= c.wf
      BY <1>1, <2>1, <2>2, StockGrows
    <3>3. c.wf \in Int /\ d.wf \in Int /\ o.wf \in Int
      BY <1>1, <2>2, <2>3 DEF DB, Ref, WF, Owed
    <3> QED
      BY <3>1, <3>2, <3>3 DEF Stocked
  <2> QED
    BY <1>2, <1>3, <2>2, <2>4
<1>6. CASE LocalEvict
  <2>1. PICK c \in db.block : db' = EvictTxn(db, c, now) /\ owed' = {o \in owed : o.id # c.id}
    BY <1>6 DEF LocalEvict
  <2>2. c \in Ref /\ now \in Nat
    BY <1>1 DEF DB, TypeOK, FlatTypeOK
  <2>3. \A b \in db.block : b.id # c.id => b \in db'.block
    BY <1>1, <2>1, <2>2, EvictShrinks
  <2>4. \A o \in owed' : Stocked(o) => Stocked(o)'
    BY <2>1, <2>3 DEF Stocked
  <2>5. UNCHANGED <<files, half, cursor, page>>
    BY <1>6 DEF LocalEvict, flatVars
  <2> QED
    BY <1>2, <1>3, <2>1, <2>4, <2>5
<1>7. CASE BeginRound
  <2>1. /\ half' = "pull-list" /\ owed' = Works(Whole(files)) /\ files' = files
        /\ cursor' = cursor /\ half = "idle"
    BY <1>7 DEF BeginRound, flatVars
  <2>2. cursor' = NoCursor
    BY <1>1, <2>1 DEF RestInv
  <2>3. ASSUME NEW o \in owed'
        PROVE  \E f \in Whole(files') : f.id = o.id /\ f.wf = o.wf /\ Ahead(f)'
    <3>1. PICK f \in Whole(files) : f.id = o.id /\ f.wf = o.wf
      BY <2>1 DEF Works
    <3>2. KeyLess(NoCursor, f)
      BY <1>1, TokenFirst DEF Whole, File
    <3> QED
      BY <2>1, <2>2, <3>1, <3>2 DEF Ahead
  <2> QED
    BY <2>3 DEF PullInv
<1>8. CASE ListVolume
  <2>1. /\ half = "pull-list" /\ half' = "pull" /\ owed' = owed /\ files' = files /\ db' = db
        /\ page' = IF present THEN Page(Listing(files), cursor, PageSize, 0, 0) ELSE {}
        /\ cursor' = NextCursor(page', PageSize)
    BY <1>8 DEF ListVolume, flatVars
  <2> DEFINE d == Listing(files)
  <2>2. Keyed(d.trav) /\ KeysUnique(d.trav) /\ IsFiniteSet(d.trav) /\ d.trav = Readable(files)
    <3>1. d.trav = Readable(files)
      BY DEF Listing
    <3> QED
      BY <1>1, <3>1, FilesFinite, FS_Subset DEF Keyed, KeysUnique, Unique, File, Readable
  <2> HIDE DEF d
  <2>3. ASSUME NEW o \in owed'
        PROVE  \E f \in Whole(files') :
                 f.id = o.id /\ f.wf = o.wf /\ (Stocked(o)' \/ f \in page' \/ Ahead(f)')
    <3>1. PICK f \in Whole(files) :
            f.id = o.id /\ f.wf = o.wf /\ (Stocked(o) \/ f \in page \/ Ahead(f))
      BY <1>1, <2>1 DEF PullInv
    <3>2. CASE Stocked(o)
      BY <2>1, <3>1, <3>2 DEF Stocked
    <3>3. CASE Ahead(f)
      <4>1. present /\ page' = Page(d, cursor, PageSize, 0, 0)
        BY <1>1, <2>1 DEF RestInv, d
      <4>2. f \in d.trav /\ f.wf \in Nat /\ KeyLess(cursor, f)
        BY <1>1, <2>2, <3>3 DEF Whole, Readable, File, WF, Ahead
      <4>3. f \in page' \/ (cursor' # NoCursor /\ KeyLess(cursor', f))
        BY <2>1, <2>2, <4>1, <4>2, PageAhead
      <4> QED
        BY <2>1, <3>1, <4>3 DEF Ahead
    <3>4. page = {}
      BY <1>1, <2>1 DEF RestInv
    <3> QED
      BY <3>1, <3>2, <3>3, <3>4
  <2> QED
    BY <2>3 DEF PullInv
<1>9. CASE PullRef
  <2>1. half = "pull" /\ UNCHANGED <<files, half, cursor>> /\ owed' \subseteq owed
    BY <1>9 DEF PullRef, flatVars
  <2>2. CASE owed = {}
    BY <1>2, <2>1, <2>2
  <2>3. CASE owed # {}
    <3>1. present
      BY <1>1, <2>3 DEF RestInv
    <3>2. PICK e \in page :
            /\ page' = page \ {e}
            /\ \A o \in owed' : Stocked(o) => Stocked(o)'
            /\ \A o \in owed' : e \in Whole(files) /\ e.id = o.id /\ e.wf = o.wf => Stocked(o)'
      BY <1>1, <1>9, <3>1, PullArrives
    <3>3. ASSUME NEW o \in owed'
          PROVE  \E f \in Whole(files') :
                   f.id = o.id /\ f.wf = o.wf /\ (Stocked(o)' \/ f \in page' \/ Ahead(f)')
      <4>1. PICK f \in Whole(files) :
              f.id = o.id /\ f.wf = o.wf /\ (Stocked(o) \/ f \in page \/ Ahead(f))
        BY <1>1, <2>1 DEF PullInv
      <4>2. Ahead(f) => Ahead(f)'
        BY <2>1 DEF Ahead
      <4>3. f = e => Stocked(o)'
        BY <3>2, <4>1
      <4>4. f # e /\ f \in page => f \in page'
        BY <3>2
      <4>5. Stocked(o)' \/ f \in page' \/ Ahead(f)'
        BY <3>2, <4>1, <4>2, <4>3, <4>4
      <4> QED
        BY <2>1, <4>1, <4>5
    <3> QED
      BY <3>3 DEF PullInv
  <2> QED
    BY <2>2, <2>3
<1>10. CASE NextPage
  <2>1. /\ page = {} /\ cursor # NoCursor /\ UNCHANGED <<files, db, cursor, page, owed>>
        /\ half \in {"pull", "push"}
        /\ half' = IF half = "pull" THEN "pull-list" ELSE "push-list"
    BY <1>10 DEF NextPage, flatVars
  <2>2. CASE half = "push"
    BY <1>2, <2>1, <2>2
  <2>3. CASE half = "pull"
    <3>1. \A f : Ahead(f) => Ahead(f)'
      BY <2>1, <2>3 DEF Ahead
    <3>2. \A o \in owed : Stocked(o) => Stocked(o)'
      BY <2>1 DEF Stocked
    <3>3. ASSUME NEW o \in owed'
          PROVE  \E f \in Whole(files') :
                   f.id = o.id /\ f.wf = o.wf /\ (Stocked(o)' \/ f \in page' \/ Ahead(f)')
      <4>1. PICK f \in Whole(files) :
              f.id = o.id /\ f.wf = o.wf /\ (Stocked(o) \/ f \in page \/ Ahead(f))
        BY <1>1, <2>1, <2>3 DEF PullInv
      <4>2. Stocked(o)' \/ f \in page' \/ Ahead(f)'
        BY <2>1, <3>1, <3>2, <4>1
      <4> QED
        BY <2>1, <4>1, <4>2
    <3> QED
      BY <3>3 DEF PullInv
  <2> QED
    BY <2>1, <2>2, <2>3
<1>11. CASE EndPull \/ ListStore \/ PushRef \/ PushSkip \/ EndPush \/ Restart \/ VolumeOut
            \/ ListFails
  <2>1. ~Pulling' \/ owed' = {}
    BY <1>11 DEF EndPull, ListStore, PushRef, PushSkip, EndPush, Restart, VolumeOut, ListFails
  <2> QED
    BY <1>2, <2>1
<1>12. CASE ((Copying \/ Rename(Loop)) /\ UNCHANGED <<db, loop>>) \/ WriteFails
  <2>1. call[Loop].pc # "idle" /\ half' = half
    BY <1>12 DEF Copying, CheckUsage, OpenTmp, Fill, Rename, WriteFails, In, loop
  <2>2. ~Pulling'
    BY <1>1, <2>1 DEF SoloInv
  <2> QED
    BY <1>2, <2>2
<1>13. CASE RefFails
  <2>1. PICK e \in page : page' = page \ {e} /\ owed' = {o \in owed : o.id # e.id}
    BY <1>13 DEF RefFails
  <2>2. UNCHANGED <<files, db, half, cursor>>
    BY <1>13 DEF RefFails, flatVars
  <2>3. ASSUME NEW o \in owed', Pulling
        PROVE  \E f \in Whole(files') :
                 f.id = o.id /\ f.wf = o.wf /\ (Stocked(o)' \/ f \in page' \/ Ahead(f)')
    <3>1. PICK f \in Whole(files) :
            f.id = o.id /\ f.wf = o.wf /\ (Stocked(o) \/ f \in page \/ Ahead(f))
      BY <1>1, <2>1, <2>3 DEF PullInv
    <3>2. f # e
      BY <2>1, <2>3, <3>1
    <3>3. (Ahead(f) => Ahead(f)') /\ (Stocked(o) => Stocked(o)')
      BY <2>2 DEF Ahead, Stocked
    <3>4. Stocked(o)' \/ f \in page' \/ Ahead(f)'
      BY <2>1, <3>1, <3>2, <3>3
    <3> QED
      BY <2>2, <3>1, <3>4
  <2> QED
    BY <2>2, <2>3 DEF PullInv
<1> QED
  BY <1>1, <1>4, <1>5, <1>6, <1>7, <1>8, <1>9, <1>10, <1>11, <1>12, <1>13, RoundSteps

\* The loop still has to deal with the block b for what is owed of it.
Due(o, b) ==
  \/ Landed(o)
  \/ call[Loop].pc # "idle" /\ At(call[Loop].req, o.id) # {}
  \/ \E e \in page : e.id = o.id /\ e.wf >= o.wf
  \/ Ahead(b)

\* PushInv is kept.
LEMMA PushNext ==
  ASSUME LoopAlone, IInv, RoundInv, [Next]_vars
  PROVE  PushInv'
<1>1. /\ TypeOK /\ FlatTypeOK /\ CallsEnd /\ JobInv /\ StoreInv /\ WriteInv /\ db \in DB /\ now \in Nat
      /\ files \subseteq File /\ Unique(files) /\ owed \subseteq Owed
      /\ Unique(tmp) /\ cursor \in [createdAt : Nat, id : Nat]
      /\ SoloInv /\ RestInv /\ PushInv /\ Loop \in Proc
  BY FlatParts, UsbAssumption DEF IInv, RoundInv, TypeOK
<1> DEFINE Pushing == half \in {"push-list", "push"}
<1>2. CASE ~Pushing' \/ owed' = {}
  BY <1>2 DEF PushInv
<1>3. ASSUME NEW o \in owed, Pushing
      PROVE  \E b \in db.block : b.id = o.id /\ b.wf >= o.wf /\ Due(o, b)
  BY <1>1, <1>3 DEF PushInv, Due
<1>4. ASSUME \A o \in owed' : \E b \in db'.block : b.id = o.id /\ b.wf >= o.wf /\ Due(o, b)'
      PROVE  PushInv'
  BY <1>4 DEF PushInv, Due
\* A step that changes neither the store nor what is due.
<1>5. ASSUME Pushing, db' = db, owed' \subseteq owed,
             \A o \in owed', b \in db.block : b.id = o.id /\ b.wf >= o.wf /\ Due(o, b) => Due(o, b)'
      PROVE  PushInv'
  BY <1>3, <1>4, <1>5
<1>6. CASE Elsewhere
  <2>1. UNCHANGED <<db, half, cursor, page, owed>> /\ (owed # {} => files' = files /\ call' = call)
    BY <1>6 DEF Elsewhere
  <2>2. \A o \in owed', b \in db.block : Due(o, b) => Due(o, b)'
    BY <2>1 DEF Due, Landed, Ahead
  <2> QED
    BY <1>2, <1>5, <2>1, <2>2
<1>7. ASSUME NEW l \in LocalBlocks, LocalPut(l[1], l[2]) PROVE PushInv'
  <2>1. l[1] \in ID /\ l[2] \in WF
    BY UsbAssumption
  <2>2. /\ UNCHANGED <<files, call, half, cursor, page, owed>>
        /\ db' = PutTxn(db, [id |-> l[1], createdAt |-> now, wf |-> l[2],
                             tag |-> CHOOSE t \in Tag : TRUE], now)
    BY <1>7 DEF LocalPut, flatVars, loop
  <2>3. db' \in DB
    BY <1>1, <2>1, <2>2, StorePut
  <2>4. ASSUME NEW o \in owed', Pushing
        PROVE  \E c \in db'.block : c.id = o.id /\ c.wf >= o.wf /\ Due(o, c)'
    <3>1. PICK b \in db.block : b.id = o.id /\ b.wf >= o.wf /\ Due(o, b)
      BY <1>3, <2>2, <2>4
    <3>2. PICK c \in db'.block :
            /\ c.id = b.id /\ c.wf >= b.wf
            /\ \A k \in [createdAt : Nat, id : Nat] : KeyLess(k, b) => KeyLess(k, c)
      BY <1>1, <2>1, <2>2, StockGrows
    <3>3. b.wf \in Int /\ c.wf \in Int /\ o.wf \in Int
      BY <1>1, <2>2, <2>3 DEF DB, Ref, WF, Owed
    <3>4. c.id = o.id /\ c.wf >= o.wf
      BY <3>1, <3>2, <3>3
    <3>5. Due(o, c)'
      BY <1>1, <2>2, <3>1, <3>2 DEF Due, Landed, Ahead
    <3> QED
      BY <3>4, <3>5
  <2> QED
    BY <1>2, <1>4, <2>2, <2>4
<1>8. CASE LocalEvict
  <2>1. PICK c \in db.block : db' = EvictTxn(db, c, now) /\ owed' = {o \in owed : o.id # c.id}
    BY <1>8 DEF LocalEvict
  <2>2. \A b \in db.block : b.id # c.id => b \in db'.block
    BY <1>1, <2>1, EvictShrinks DEF DB
  <2>3. UNCHANGED <<files, call, half, cursor, page>>
    BY <1>8 DEF LocalEvict, flatVars
  <2>4. \A o, b : Due(o, b) => Due(o, b)'
    BY <2>3 DEF Due, Landed, Ahead
  <2>5. ASSUME NEW o \in owed', Pushing
        PROVE  \E b \in db'.block : b.id = o.id /\ b.wf >= o.wf /\ Due(o, b)'
    BY <1>3, <2>1, <2>2, <2>4, <2>5
  <2> QED
    BY <1>2, <1>4, <2>3, <2>5
<1>9. CASE EndPull \/ (ListFails /\ half = "pull-list")
  <2>1. /\ owed' = (IF present THEN Works(db.block) ELSE {}) /\ half' = "push-list"
        /\ cursor' = NoCursor /\ db' = db
    BY <1>9 DEF EndPull, ListFails
  <2>2. ASSUME NEW o \in owed' PROVE \E b \in db'.block : b.id = o.id /\ b.wf >= o.wf /\ Due(o, b)'
    <3>1. PICK b \in db.block : o.id = b.id /\ o.wf = b.wf
      BY <2>1, <2>2 DEF Works
    <3>2. b.wf \in Int /\ b.createdAt \in Nat /\ b.id \in ID
      BY <1>1 DEF DB, Ref, WF
    <3>3. KeyLess(NoCursor, b) /\ b.wf >= o.wf
      BY <3>1, <3>2, TokenFirst
    <3>4. Due(o, b)'
      BY <2>1, <3>3 DEF Due, Ahead
    <3> QED
      BY <2>1, <3>1, <3>3, <3>4
  <2> QED
    BY <1>4, <2>2
<1>10. CASE ListStore
  <2>1. /\ half = "push-list" /\ half' = "push" /\ UNCHANGED <<files, call, db, owed>>
        /\ page' = Page(db, cursor, PageSize, 0, 0) /\ cursor' = NextCursor(page', PageSize)
    BY <1>10 DEF ListStore, flatVars
  <2>2. /\ Keyed(db.trav) /\ KeysUnique(db.trav) /\ IsFiniteSet(db.trav) /\ db.trav \subseteq Ref
        /\ db.block \subseteq db.trav
    BY <1>1 DEF Keyed, KeysUnique, StoreInv, Consistent, DB, Ref
  <2>3. page = {}
    BY <1>1, <2>1 DEF RestInv
  <2>4. ASSUME NEW o \in owed', NEW b \in db.block, b.id = o.id, b.wf >= o.wf, Due(o, b)
        PROVE  Due(o, b)'
    <3>1. CASE Ahead(b)
      <4>1. b \in db.trav /\ b.wf \in Nat /\ KeyLess(cursor, b)
        BY <2>2, <3>1 DEF Ref, WF, Ahead
      <4>2. b \in page' \/ (cursor' # NoCursor /\ KeyLess(cursor', b))
        BY <2>1, <2>2, <4>1, PageAhead
      <4> QED
        BY <2>4, <4>2 DEF Due, Ahead
    <3>2. CASE ~Ahead(b)
      BY <2>1, <2>3, <2>4, <3>2 DEF Due, Landed
    <3> QED
      BY <3>1, <3>2
  <2> QED
    BY <1>5, <2>1, <2>4
<1>11. CASE PushRef
  <2>1. PICK e \in page, b \in db.block :
          b.id = e.id /\ PutCall(Loop, b.id, b.wf) /\ page' = page \ {e}
    BY <1>11 DEF PushRef
  <2>2. b.id \in ID /\ b.wf \in WF
    BY <1>1 DEF DB, Ref
  <2> DEFINE r == [id |-> b.id, createdAt |-> now, wf |-> b.wf, part |-> "all"]
  <2>3. call'[Loop].pc = "usage" /\ call'[Loop].req = {r}
    BY <1>1, <2>1, <2>2, PutCallCalls
  <2>4. half = "push" /\ UNCHANGED <<files, db, half, cursor, owed>> /\ call[Loop].pc = "idle"
    BY <1>11, <2>1 DEF PushRef, PutCall, In
  <2>5. ASSUME NEW o \in owed', NEW c \in db.block, Due(o, c) PROVE Due(o, c)'
    <3>1. CASE o.id = e.id
      <4>1. r.id = o.id
        BY <2>1, <3>1
      <4>2. At(call'[Loop].req, o.id) # {}
        <5> HIDE DEF r
        <5> QED BY <2>3, <4>1 DEF At
      <4> QED
        BY <2>3, <4>2 DEF Due
    <3>2. CASE o.id # e.id
      BY <2>1, <2>4, <2>5, <3>2 DEF Due, Landed, Ahead
    <3> QED
      BY <3>1, <3>2
  <2> QED
    BY <1>5, <2>4, <2>5
<1>12. CASE PushSkip
  <2>1. /\ half = "push" /\ UNCHANGED <<files, call, db, half, cursor, owed>>
        /\ call[Loop].pc = "idle"
    BY <1>12 DEF PushSkip, In, flatVars
  <2>2. PICK e \in page :
          /\ page' = page \ {e}
          /\ \/ ~present
             \/ \A b \in db.block : b.id # e.id
             \/ ~Wanted(e.id, e.wf)
             \/ \E b \in db.block : b.id = e.id /\ Kept(files, b.id, b.wf)
    BY <1>12 DEF PushSkip
  <2>3. ASSUME NEW o \in owed', NEW c \in db.block, c.id = o.id, c.wf >= o.wf, Due(o, c)
        PROVE  Due(o, c)'
    <3>1. CASE ~(e.id = o.id /\ e.wf >= o.wf)
      BY <2>1, <2>2, <2>3, <3>1 DEF Due, Landed, Ahead
    <3>2. CASE e.id = o.id /\ e.wf >= o.wf
      <4>1. present /\ ~(\A b \in db.block : b.id # e.id)
        BY <1>1, <2>1, <2>3, <3>2 DEF RestInv
      <4>2. \A f \in files : f.wf \in Int
        BY <1>1 DEF File, WF
      <4>3. e.wf \in Int /\ o.wf \in Int /\ c.wf \in Int
        BY <1>1, <2>1 DEF TypeOK, Ref, File, WF, Owed, DB
      <4>4. CASE ~Wanted(e.id, e.wf)
        <5>1. ASSUME At(files, e.id) # At(Readable(files), e.id) PROVE Landed(o)
          <6>1. PICK f \in At(files, e.id) : f \notin At(Readable(files), e.id)
            BY <5>1 DEF At, Readable
          <6>2. f.part # "all" /\ f \in At(files, o.id)
            BY <3>2, <6>1 DEF At, Readable
          <6> QED
            BY <6>2 DEF Landed
        <5>2. ASSUME Skipped(e.wf, At(files, e.id)) PROVE Landed(o)
          <6>1. PICK f \in At(files, e.id) : e.wf <= f.wf
            BY <5>2 DEF Skipped
          <6>2. f.wf >= o.wf
            BY <3>2, <4>2, <4>3, <6>1 DEF At
          <6> QED
            BY <3>2, <6>1, <6>2 DEF Landed
        <5>3. Landed(o)
          BY <4>4, <5>1, <5>2 DEF Wanted
        <5> QED
          BY <2>1, <5>3 DEF Due, Landed
      <4>5. CASE \E b \in db.block : b.id = e.id /\ Kept(files, b.id, b.wf)
        <5>1. PICK b \in db.block : b.id = e.id /\ Kept(files, b.id, b.wf)
          BY <4>5
        <5>2. b = c
          BY <1>1, <2>3, <3>2, <5>1 DEF StoreInv, Consistent
        <5>3. PICK f \in At(Readable(files), c.id) : f.wf >= c.wf
          BY <5>1, <5>2 DEF Kept
        <5>4. f \in At(files, o.id)
          BY <2>3, <5>3 DEF At, Readable
        <5>5. f.wf >= o.wf
          BY <2>3, <4>2, <4>3, <5>3, <5>4 DEF At
        <5> QED
          BY <2>1, <5>4, <5>5 DEF Due, Landed
      <4> QED
        BY <2>2, <4>1, <4>4, <4>5
    <3> QED
      BY <3>1, <3>2
  <2> QED
    BY <1>5, <2>1, <2>3
<1>13. CASE NextPage
  <2>1. /\ page = {} /\ cursor # NoCursor /\ UNCHANGED <<files, call, db, cursor, page, owed>>
        /\ half \in {"pull", "push"}
        /\ half' = IF half = "pull" THEN "pull-list" ELSE "push-list"
    BY <1>13 DEF NextPage, flatVars
  <2>2. CASE half = "pull"
    BY <1>2, <2>1, <2>2
  <2>3. CASE half = "push"
    <3>1. \A o, b : Due(o, b) => Due(o, b)'
      BY <2>1, <2>3 DEF Due, Landed, Ahead
    <3> QED
      BY <1>5, <2>1, <2>3, <3>1
  <2> QED
    BY <2>1, <2>2, <2>3
<1>14. CASE Copying /\ UNCHANGED <<db, loop>>
  <2>1. /\ files' = files /\ call[Loop].pc # "idle" /\ call'[Loop].pc # "idle"
        /\ call'[Loop].req = call[Loop].req
    BY <1>1, <1>14, CopyingCall
  <2>2. UNCHANGED <<db, half, cursor, page, owed>> /\ half = "push"
    BY <1>1, <1>14, <2>1 DEF loop, SoloInv
  <2>3. \A o, b : Due(o, b) => Due(o, b)'
    BY <2>1, <2>2 DEF Due, Landed, Ahead
  <2> QED
    BY <1>5, <2>2, <2>3
<1>15. CASE Rename(Loop) /\ UNCHANGED <<db, loop>>
  <2>1. PICK r \in call[Loop].req, t \in tmp :
          t.id = r.id /\ files' = Replaced(files, t) /\ call[Loop].pc = "rename"
    BY <1>1, <1>15, RenameCalls
  <2>2. UNCHANGED <<db, half, cursor, page, owed>> /\ half = "push"
    BY <1>1, <1>15, <2>1 DEF loop, SoloInv
  <2>3. r \in tmp /\ \A o \in owed : o.id = r.id => r.wf >= o.wf
    BY <1>1, <2>1, OneRequest DEF SoloInv
  <2>4. t = r
    BY <1>1, <2>1, <2>3 DEF Unique
  <2>5. ASSUME NEW o \in owed', NEW b \in db.block, Due(o, b) PROVE Due(o, b)'
    <3>1. CASE o.id = r.id
      <4>1. r \in At(files', o.id) /\ r.wf >= o.wf
        BY <2>1, <2>2, <2>3, <2>4, <3>1 DEF At, Replaced
      <4> QED
        BY <4>1 DEF Due, Landed
    <3>2. CASE o.id # r.id
      <4>1. At(files', o.id) = At(files, o.id)
        BY <2>1, <3>2 DEF At, Replaced
      <4>2. At(call[Loop].req, o.id) = {}
        BY <1>1, <3>2, OneRequest DEF At
      <4> QED
        BY <2>2, <2>5, <4>1, <4>2 DEF Due, Landed, Ahead
    <3> QED
      BY <3>1, <3>2
  <2> QED
    BY <1>5, <2>2, <2>5
<1>16. CASE WriteFails
  <2>1. /\ UNCHANGED <<files, db, half, cursor, page>> /\ call[Loop].pc # "idle"
        /\ owed' = {o \in owed : At(call[Loop].req, o.id) = {}}
    BY <1>16 DEF WriteFails, Abort, In
  <2>2. \A o \in owed', b \in db.block : Due(o, b) => Due(o, b)'
    BY <2>1 DEF Due, Landed, Ahead
  <2>3. half = "push"
    BY <1>1, <2>1 DEF SoloInv
  <2> QED
    BY <1>5, <2>1, <2>2, <2>3
<1>17. CASE BeginRound \/ ListVolume \/ PullRef \/ EndPush \/ Restart \/ VolumeOut
            \/ (ListFails /\ half # "pull-list")
  <2>1. ~Pushing' \/ owed' = {}
    BY <1>17 DEF BeginRound, ListVolume, PullRef, EndPush, Restart, VolumeOut, ListFails
  <2> QED
    BY <1>2, <2>1
<1>18. CASE RefFails
  <2>1. PICK e \in page : page' = page \ {e} /\ owed' = {o \in owed : o.id # e.id}
    BY <1>18 DEF RefFails
  <2>2. UNCHANGED <<files, call, db, half, cursor>>
    BY <1>18 DEF RefFails, flatVars
  <2>3. \A o \in owed', b \in db.block : Due(o, b) => Due(o, b)'
    BY <2>1, <2>2 DEF Due, Landed, Ahead
  <2> QED
    BY <1>2, <1>5, <2>1, <2>2, <2>3
<1> QED
  BY <1>1, <1>6, <1>7, <1>8, <1>9, <1>10, <1>11, <1>12, <1>13, <1>14, <1>15, <1>16, <1>17,
     <1>18, RoundSteps

\* What every state of a round has in common, for a node that has the volume to
\* itself.
THEOREM RoundInvariant ==
  ASSUME LoopAlone
  PROVE  Spec => []RoundInv
<1>1. Init => RoundInv
  <2> SUFFICES ASSUME Init PROVE RoundInv
    OBVIOUS
  <2>1. \A p \in Proc : call[p].pc = "idle"
    BY NoCallType DEF Init, FlatInit
  <2>2. half = "idle" /\ page = {} /\ cursor = NoCursor /\ owed = {}
    BY DEF Init
  <2> QED
    BY <2>1, <2>2, UsbAssumption DEF RoundInv, SoloInv, RestInv, PullInv, PushInv
<1>2. IInv /\ RoundInv /\ [Next]_vars => RoundInv'
  BY SoloNext, RestNext, PullNext, PushNext DEF RoundInv
<1> QED
  BY <1>1, <1>2, VolumeInvariant, PTL DEF Spec

\* usbSyncLoop (main.go): for every number of blocks, page size and order of
\* boosts and evictions, a round of a node that has the volume to itself copies
\* everything that stays where it is: the pull ends with what the volume held in
\* the store, the push with what the store held on the volume, with at least
\* the same work.
THEOREM RoundsAreComplete ==
  ASSUME LoopAlone
  PROVE  Spec => RoundComplete
<1> DEFINE A == /\ EndPull => \A o \in owed : \E b \in db.block : b.id = o.id /\ b.wf >= o.wf
                /\ EndPush => \A o \in owed : \E f \in At(files, o.id) :
                                                f.part # "all" \/ f.wf >= o.wf
<1>1. ASSUME RoundInv, EndPull PROVE \A o \in owed : \E b \in db.block : b.id = o.id /\ b.wf >= o.wf
  <2>1. half = "pull" /\ page = {} /\ cursor = NoCursor
    BY <1>1 DEF EndPull
  <2> QED
    BY <1>1, <2>1 DEF RoundInv, PullInv, Ahead, Stocked
<1>2. ASSUME RoundInv, EndPush
      PROVE  \A o \in owed : \E f \in At(files, o.id) : f.part # "all" \/ f.wf >= o.wf
  <2>1. half = "push" /\ page = {} /\ cursor = NoCursor /\ call[Loop].pc = "idle"
    BY <1>2 DEF EndPush, In
  <2> QED
    BY <1>2, <2>1 DEF RoundInv, PushInv, Ahead, Landed
<1>3. RoundInv /\ [Next]_vars => [A]_vars
  BY <1>1, <1>2
<1>4. RoundComplete <=> [][A]_vars
  BY DEF RoundComplete
<1> HIDE DEF A
<1> QED
  BY <1>3, <1>4, RoundInvariant, PTL DEF Spec
=============================================================================
