-------------------------- MODULE BluetoothProofs ---------------------------
(***************************************************************************)
(* Proofs about the Bluetooth session: what is sent, and what an end has   *)
(* received when its receiver ends, for any blocks, work factors, page     *)
(* size and capacity of the link.                                          *)
(***************************************************************************)
EXTENDS Bluetooth, BlockTxnProofs, SequenceTheorems

\* The end s holds the block with at least that work, or has evicted it.
Holds(s, id, wf) == id \in gone[s] \/ Has(s, id, wf)

\* The block has come from the other end, or it is known why it has not.
Arrived(s, id, wf) == Holds(s, id, wf) \/ id \in lost[s] \cup gone[Other(s)]

\* The frame carries the block with at least that work.
Carries(f, id, wf) == f.type = "block" /\ f.id = id /\ f.wf >= wf

\* Where the goroutines of an end can be.
PhaseInv ==
  \A s \in Side :
    /\ s \in shut => rcv[s] = "end"
    /\ snd[s] \in {"bloom", "wait"} => cursor[s] = NoCursor
    /\ snd[s] = "cancel" => s \in cut

\* The index of a store is its set of blocks.  An end keeps what it held, with at
\* least the work it had, unless it evicts it; then its tombstone keeps it out.
StoreInv ==
  \A s \in Side :
    /\ Consistent(db[s], Now) /\ IsFiniteSet(db[s].trav) /\ db[s].trav = db[s].block
    /\ \A i \in gone[s] :
         Tombstoned(db[s], i, Now) /\ \A b \in db[s].block : b.id # i
    /\ \A b \in first[s] : Holds(s, b.id, b.wf)

\* A filter that s has sent shows what s held when the session began, but for
\* what s has evicted.
Honest(s, bits) ==
  \A b \in first[s] : b.id \in gone[s] \/ Bits(b.id, b.wf) \subseteq bits

\* The filter of s on its way: on the link, in the channel or at the sender.
Underway(s, bits) ==
  \/ \E i \in 1..Len(wire[s]) : wire[s][i].type = "bloom" /\ wire[s][i].bits = bits
  \/ bits \in channel[Other(s)]
  \/ snd[Other(s)] \in {"list", "page"} /\ bits = filter[Other(s)]

FilterInv == \A s \in Side, bits \in Filter : Underway(s, bits) => Honest(s, bits)

\* What is on a page is still in the store, with at least that work, or evicted.
PageInv == \A s \in Side : \A e \in page[s] : Holds(s, e.id, e.wf)

\* The inductive invariant of what is sent.
SessionInv ==
  TypeOK /\ PhaseInv /\ StoreInv /\ FilterInv /\ PageInv /\ OnlyMissingSent

\* The sender of o has not come to the block b yet.
Ahead(o, b) ==
  \/ snd[o] \in {"bloom", "wait"}
  \/ snd[o] = "page" /\ \E e \in page[o] : e.id = b.id /\ e.wf >= b.wf
  \/ /\ snd[o] = "list" \/ (snd[o] = "page" /\ cursor[o] # NoCursor)
     /\ \E e \in db[o].block : e.id = b.id /\ e.wf >= b.wf /\ KeyLess(cursor[o], e)

\* While the sender of o is at work, what o held when the session began has
\* arrived at s, or is on the link, or is yet to be sent.
StreamInv ==
  \A s \in Side :
    /\ open /\ snd[Other(s)] # "end" /\ Other(s) \notin cut
    => \A b \in first[Other(s)] :
         \/ Arrived(s, b.id, b.wf)
         \/ \E i \in 1..Len(wire[Other(s)]) : Carries(wire[Other(s)][i], b.id, b.wf)
         \/ Ahead(Other(s), b)

\* A DONE frame on the link comes after every block that is still missing.
DoneInv ==
  \A s \in Side : \A i \in 1..Len(wire[Other(s)]) :
    wire[Other(s)][i].type = "done" /\ Other(s) \notin cut
    => \A b \in first[Other(s)] :
         \/ Arrived(s, b.id, b.wf)
         \/ \E j \in 1..(i - 1) : Carries(wire[Other(s)][j], b.id, b.wf)

\* The inductive invariant of what is delivered.
DeliverInv == SessionInv /\ StreamInv /\ DoneInv /\ DoneMeansAll
-----------------------------------------------------------------------------
(* Ends, frames and stores.                                                *)

\* There are two ends.
LEMMA OtherSide ==
  ASSUME NEW s \in Side
  PROVE  /\ Other(s) \in Side /\ Other(s) # s /\ Other(Other(s)) = s
         /\ \A t \in Side : t = s \/ t = Other(s)
<1>1. PICK a \in Side, b \in Side : a # b /\ Side = {a, b}
  BY SessionAssumption
<1>2. \A t \in Side : \E o \in Side : o # t
  BY <1>1
<1>3. \A t \in Side : Other(t) \in Side /\ Other(t) # t
  BY <1>2 DEF Other
<1> QED
  BY <1>1, <1>3

\* The filter of a store is one that a frame can carry.
LEMMA BloomOfType ==
  ASSUME NEW refs \in SUBSET Ref
  PROVE  BloomOf(refs) \in Filter
<1>1. ASSUME NEW e \in refs
      PROVE  Bits(e.id, e.wf) \subseteq UNION {Bits(i, w) : i \in ID, w \in WF}
  <2>1. e.id \in ID /\ e.wf \in WF
    BY DEF Ref
  <2> QED
    BY <2>1
<1> QED
  BY <1>1 DEF BloomOf, Filter

\* A frame is of one kind, and has the fields of its kind.
LEMMA FrameKinds ==
  ASSUME NEW f \in Frame
  PROVE  /\ f.type \in {"bloom", "block", "done", "peers"}
         /\ f.type = "bloom" => f.bits \in Filter
         /\ f.type = "block" => f.id \in ID /\ f.wf \in WF
BY DEF Frame

\* The frames that are written.
LEMMA FramesMade ==
  /\ [type |-> "done"] \in Frame /\ [type |-> "peers"] \in Frame
  /\ \A bits \in Filter : [type |-> "bloom", bits |-> bits] \in Frame
  /\ \A i \in ID, w \in WF : [type |-> "block", id |-> i, wf |-> w] \in Frame
BY DEF Frame

\* The reference under which a block is put during the session.
NewRef(id, wf) ==
  [id |-> id, createdAt |-> Now, wf |-> wf, tag |-> CHOOSE t \in Tag : TRUE]

LEMMA NewRefParts ==
  ASSUME NEW id \in ID, NEW wf \in WF
  PROVE  /\ NewRef(id, wf) \in Ref /\ NewRef(id, wf).id = id
         /\ NewRef(id, wf).wf = wf /\ NewRef(id, wf).createdAt = Now
<1>1. (CHOOSE t \in Tag : TRUE) \in Tag
  BY SessionAssumption
<1> QED
  BY <1>1 DEF NewRef, Ref, Now

\* A put at s keeps the store well-typed.
LEMMA PutType ==
  ASSUME TypeOK, NEW s \in Side, NEW id \in ID, NEW wf \in WF
  PROVE  Put(s, id, wf) \in DB /\ Put(s, id, wf) = PutTxn(db[s], NewRef(id, wf), Now)
<1>1. Put(s, id, wf) = PutTxn(db[s], NewRef(id, wf), Now)
  BY DEF Put, NewRef
<1>2. db[s] \in DB /\ NewRef(id, wf) \in Ref /\ Now \in Nat
  BY NewRefParts DEF TypeOK, Now
<1> QED
  BY <1>1, <1>2, PutBrings

\* Work factors and index entries of a store are numbers.
LEMMA StoreTypes ==
  ASSUME TypeOK, NEW s \in Side
  PROVE  /\ db[s] \in DB /\ db[s].block \subseteq Ref /\ db[s].trav \subseteq Ref
         /\ \A e \in Ref : /\ e.wf \in Nat /\ e.createdAt \in Nat
                           /\ e.id \in ID /\ e.id \in Nat \ {0} /\ e.wf \in WF
         /\ \A w \in WF : w \in Nat
         /\ first[s] \subseteq Ref
<1>1. db[s] \in DB /\ first[s] \in SUBSET Ref
  BY DEF TypeOK
<1>2. \A w \in WF : w \in Nat
  BY TTLAssumption DEF WF
<1>3. \A e \in Ref : e.wf \in WF /\ e.createdAt \in Nat /\ e.id \in ID /\ e.id \in Nat \ {0}
  BY IDAssumption DEF Ref
<1> QED
  BY <1>1, <1>2, <1>3, SessionAssumption DEF DB

\* A put at s keeps its store consistent, leaves every block with its work and
\* every tombstone, moves an index entry only to the second of the session, and
\* brings no block back that has a tombstone.
LEMMA PutKeeps ==
  ASSUME TypeOK, StoreInv, NEW s \in Side, NEW id \in ID, NEW wf \in WF
  PROVE  LET d == Put(s, id, wf)
         IN  /\ Consistent(d, Now) /\ IsFiniteSet(d.trav) /\ d.trav = d.block
             /\ d.tomb = db[s].tomb
             /\ \A b \in db[s].block :
                  \E c \in d.block : /\ c.id = b.id /\ c.wf >= b.wf
                                     /\ c = b \/ c.createdAt = Now
             /\ \A c \in d.block : c \in db[s].block \/ ~Tombstoned(db[s], c.id, Now)
<1> DEFINE r == NewRef(id, wf)
           d == Put(s, id, wf)
<1>1. r \in Ref /\ r.id = id /\ r.wf = wf /\ r.createdAt = Now
  BY NewRefParts
<1>2. db[s] \in DB /\ Now \in Nat /\ \A e \in Ref : e.wf \in Nat
  BY StoreTypes DEF Now
<1>3. d = PutTxn(db[s], r, Now)
  BY PutType
<1>4. /\ Consistent(db[s], Now) /\ IsFiniteSet(db[s].trav) /\ db[s].trav = db[s].block
  BY DEF StoreInv
<1>5. db[s].block \subseteq Ref
  BY <1>2 DEF DB
<1> HIDE DEF r, d
<1>6. Consistent(d, Now)
  <2>1. r.createdAt <= Now
    BY <1>1, <1>2
  <2> QED
    BY <1>1, <1>2, <1>3, <1>4, <2>1, PutConsistent
<1>7. IsFiniteSet(d.trav)
  BY <1>1, <1>2, <1>3, <1>4, PutBrings
<1>8. CASE Refused(db[s], r, Now)
  <2>1. d = db[s]
    BY <1>3, <1>8 DEF PutTxn
  <2>2. \A b \in db[s].block : b.wf >= b.wf
    BY <1>2, <1>5
  <2> QED
    BY <1>4, <1>6, <1>7, <2>1, <2>2 DEF d
<1>9. CASE ~Refused(db[s], r, Now)
  <2>1. d = Stored(db[s], r)
    BY <1>3, <1>9 DEF PutTxn
  <2>2. /\ d.block = {b \in db[s].block : b.id # r.id} \cup {r} /\ d.tomb = db[s].tomb
        /\ d.trav = {e \in db[s].trav :
                       ~(/\ e.id = r.id
                         /\ \/ e.createdAt = r.createdAt
                            \/ \E b \in db[s].block :
                                 b.id = r.id /\ b.createdAt = e.createdAt)}
                    \cup {r}
    BY <1>1, <1>2, <2>1, StoredParts
  <2>3. \A b \in db[s].block : b.wf \in Nat /\ (b.id = r.id => r.wf >= b.wf)
    BY <1>1, <1>2, <1>5, <1>9 DEF Refused
  <2>4. \A b \in db[s].block :
          \E c \in d.block : c.id = b.id /\ c.wf >= b.wf /\ (c = b \/ c.createdAt = Now)
    BY <1>1, <2>2, <2>3
  <2>5. d.trav = d.block
    BY <1>4, <2>2
  <2>6. \A c \in d.block : c \in db[s].block \/ ~Tombstoned(db[s], c.id, Now)
    BY <1>1, <1>9, <2>2 DEF Refused
  <2> QED
    BY <1>4, <1>6, <1>7, <2>2, <2>4, <2>5, <2>6 DEF d
<1> QED
  BY <1>8, <1>9

\* An eviction at s keeps its store consistent, takes one block, and leaves a
\* tombstone in its place.
LEMMA EvictKeeps ==
  ASSUME TypeOK, StoreInv, NEW s \in Side, NEW c \in db[s].block
  PROVE  LET d == EvictTxn(db[s], c, Now)
         IN  /\ d \in DB
             /\ Consistent(d, Now) /\ IsFiniteSet(d.trav) /\ d.trav = d.block
             /\ Tombstoned(d, c.id, Now)
             /\ \A i \in ID : Tombstoned(db[s], i, Now) => Tombstoned(d, i, Now)
             /\ d.block = {b \in db[s].block : b.id # c.id}
<1> DEFINE d == EvictTxn(db[s], c, Now)
<1>1. db[s] \in DB /\ c \in Ref /\ c.id \in ID /\ Now \in Nat
  BY StoreTypes DEF Now
<1>2. /\ Consistent(db[s], Now) /\ IsFiniteSet(db[s].trav) /\ db[s].trav = db[s].block
  BY DEF StoreInv
<1>3. /\ d \in DB /\ d.block = {b \in db[s].block : b.id # c.id}
      /\ d.trav = {e \in db[s].trav : ~(e.id = c.id /\ e.createdAt = c.createdAt)}
      /\ d.tomb = [db[s].tomb EXCEPT ![c.id] = Now + 2 * TTL[c.wf]]
      /\ TTL[c.wf] \in Nat \ {0}
  BY <1>1, EvictParts
<1>4. Consistent(d, Now)
  BY <1>1, <1>2, EvictConsistent
<1> HIDE DEF d
<1>5. d.trav = d.block
  BY <1>2, <1>3 DEF Consistent
<1>6. IsFiniteSet(d.trav)
  <2>1. d.trav \subseteq db[s].trav
    BY <1>3
  <2> QED
    BY <1>2, <2>1, FS_Subset
<1>7. db[s].tomb \in [ID -> Nat]
  BY <1>1 DEF DB
<1>8. /\ d.tomb[c.id] > Now
      /\ \A i \in ID : db[s].tomb[i] > Now => d.tomb[i] > Now
  BY <1>1, <1>3, <1>7 DEF Now
<1> QED
  BY <1>3, <1>4, <1>5, <1>6, <1>8 DEF d, Tombstoned
-----------------------------------------------------------------------------
(* What a step does to the link and to the stores.                         *)

\* A frame that is written goes to the end of the queue.
LEMMA WriteParts ==
  ASSUME TypeOK, NEW s \in Side, NEW f \in Frame, Write(s, f)
  PROVE  /\ open /\ open' /\ wire' \in [Side -> Seq(Frame)]
         /\ wire'[s] = Append(wire[s], f) /\ Len(wire[s]) < Cap
         /\ \A t \in Side : t # s => wire'[t] = wire[t]
<1>1. wire \in [Side -> Seq(Frame)] /\ open \in BOOLEAN
  BY DEF TypeOK
<1>2. /\ wire' = [wire EXCEPT ![s] = Append(@, f)] /\ open /\ open' = open
      /\ Len(wire[s]) < Cap
  BY DEF Write
<1>3. Append(wire[s], f) \in Seq(Frame)
  BY <1>1, AppendProperties
<1> QED
  BY <1>1, <1>2, <1>3

\* A frame that is read comes from the head of the queue.
LEMMA ReadParts ==
  ASSUME TypeOK, NEW s \in Side, NEW f, Read(s, f)
  PROVE  /\ open' = open /\ wire' \in [Side -> Seq(Frame)]
         /\ wire[Other(s)] # <<>> /\ f = Head(wire[Other(s)]) /\ f \in Frame
         /\ wire'[Other(s)] = Tail(wire[Other(s)])
         /\ wire'[s] = wire[s]
<1>1. wire \in [Side -> Seq(Frame)] /\ Other(s) \in Side /\ Other(s) # s
  BY OtherSide DEF TypeOK
<1>2. /\ wire' = [wire EXCEPT ![Other(s)] = Tail(@)] /\ open' = open
      /\ wire[Other(s)] # <<>> /\ f = Head(wire[Other(s)])
  BY DEF Read
<1>3. Tail(wire[Other(s)]) \in Seq(Frame) /\ f \in Frame
  BY <1>1, <1>2, HeadTailProperties
<1> QED
  BY <1>1, <1>2, <1>3

\* What the end s may write, and why.
Written(s, f) ==
  \/ f.type = "bloom" /\ f.bits = BloomOf(db[s].trav)
  \/ /\ f.type = "block" /\ snd[s] = "page"
     /\ \E e \in page[s] : /\ ~BloomHas(filter[s], e.id, e.wf) /\ f.id = e.id
                           /\ \E b \in db[s].block : b.id = e.id /\ f.wf = b.wf
  \/ f.type = "done" /\ snd[s] \in {"cancel", "done"}
  \/ f.type = "peers"

\* What becomes of a frame that the end s reads.
Taken(s, f) ==
  f.type = "block" => Has(s, f.id, f.wf)' \/ f.id \in lost'[s]

\* The queue of s in a step: it stays, is lost with the link, grows by a frame
\* or loses its first frame.
QueueStep(s) ==
  \/ wire'[s] = wire[s]
  \/ ~open' /\ wire'[s] = <<>>
  \/ \E f \in Frame : /\ wire'[s] = Append(wire[s], f) /\ Len(wire[s]) < Cap
                      /\ open /\ open' /\ Written(s, f)
  \/ /\ wire[s] # <<>> /\ wire'[s] = Tail(wire[s])
     /\ Taken(Other(s), Head(wire[s]))

\* The queues in a step that writes a frame.
LEMMA WriteStep ==
  ASSUME TypeOK, NEW s \in Side, NEW f \in Frame, Write(s, f), Written(s, f)
  PROVE  wire' \in [Side -> Seq(Frame)] /\ \A t \in Side : QueueStep(t)
BY WriteParts DEF QueueStep

\* The queues in a step that reads a frame.
LEMMA ReadStep ==
  ASSUME TypeOK, NEW s \in Side, NEW f, Read(s, f), Taken(s, f)
  PROVE  wire' \in [Side -> Seq(Frame)] /\ \A t \in Side : QueueStep(t)
<1>1. /\ wire' \in [Side -> Seq(Frame)] /\ wire[Other(s)] # <<>>
      /\ f = Head(wire[Other(s)]) /\ wire'[s] = wire[s]
      /\ wire'[Other(s)] = Tail(wire[Other(s)])
  BY ReadParts
<1> QED
  BY <1>1, OtherSide DEF QueueStep

\* Every queue, in every step.
LEMMA WireNext ==
  ASSUME TypeOK, [Next]_vars
  PROVE  wire' \in [Side -> Seq(Frame)] /\ \A t \in Side : QueueStep(t)
<1> DEFINE Goal == wire' \in [Side -> Seq(Frame)] /\ \A t \in Side : QueueStep(t)
<1>a. wire \in [Side -> Seq(Frame)]
  BY DEF TypeOK
<1>b. ASSUME wire' = wire PROVE Goal
  BY <1>a, <1>b DEF QueueStep
<1> HIDE DEF Goal
<1>1. ASSUME NEW s \in Side, SendBloom(s) PROVE Goal
  <2> DEFINE f == [type |-> "bloom", bits |-> BloomOf(db[s].trav)]
  <2>1. f \in Frame /\ Written(s, f)
    BY StoreTypes, BloomOfType, FramesMade DEF Written
  <2>2. CASE Write(s, f)
    BY <2>1, <2>2, WriteStep DEF Goal
  <2>3. CASE ~Write(s, f)
    BY <1>b, <1>1, <2>3 DEF SendBloom, link
  <2> QED BY <2>2, <2>3
<1>2. ASSUME NEW s \in Side, FilterFails(s) PROVE Goal
  BY <1>2, <1>b DEF FilterFails, link, chans, outer
<1>3. ASSUME NEW s \in Side, TakeBloom(s) PROVE Goal
  BY <1>3, <1>b DEF TakeBloom, link, outer
<1>4. ASSUME NEW s \in Side, Cancelled(s) PROVE Goal
  BY <1>4, <1>b DEF Cancelled, link, chans, outer
<1>5. ASSUME NEW s \in Side, CancelDone(s) PROVE Goal
  <2> DEFINE f == [type |-> "done"]
  <2>1. f \in Frame /\ Written(s, f)
    BY <1>5, FramesMade DEF Written, CancelDone
  <2>2. CASE Write(s, f)
    BY <2>1, <2>2, WriteStep DEF Goal
  <2>3. CASE ~Write(s, f)
    BY <1>b, <1>5, <2>3 DEF CancelDone, link
  <2> QED BY <2>2, <2>3
<1>6. ASSUME NEW s \in Side, ListPage(s) PROVE Goal
  BY <1>6, <1>b DEF ListPage, link, chans, outer
<1>7. ASSUME NEW s \in Side, ListFails(s) PROVE Goal
  BY <1>7, <1>b DEF ListFails, link, chans, outer
<1>8. ASSUME NEW s \in Side, SendBlock(s) PROVE Goal
  <2>1. PICK e \in page[s] :
          \/ UNCHANGED link
          \/ /\ ~BloomHas(filter[s], e.id, e.wf)
             /\ \E b \in db[s].block :
                  b.id = e.id /\ Write(s, [type |-> "block", id |-> b.id, wf |-> b.wf])
    BY <1>8 DEF SendBlock
  <2>2. CASE UNCHANGED link
    BY <1>b, <2>2 DEF link
  <2>3. ASSUME ~BloomHas(filter[s], e.id, e.wf), NEW b \in db[s].block, b.id = e.id,
               Write(s, [type |-> "block", id |-> b.id, wf |-> b.wf])
        PROVE  Goal
    <3> DEFINE f == [type |-> "block", id |-> b.id, wf |-> b.wf]
    <3>1. b \in Ref /\ b.id \in ID /\ b.wf \in WF
      BY StoreTypes
    <3>2. f \in Frame
      BY <3>1, FramesMade
    <3>3. f.type = "block" /\ f.id = e.id /\ f.wf = b.wf /\ snd[s] = "page"
      BY <1>8, <2>3 DEF SendBlock
    <3>4. Written(s, f) /\ Write(s, f)
      BY <2>3, <3>3 DEF Written
    <3> HIDE DEF f
    <3> QED BY <3>2, <3>4, WriteStep DEF Goal
  <2> QED BY <2>1, <2>2, <2>3
<1>9. ASSUME NEW s \in Side, GetFails(s) PROVE Goal
  BY <1>9, <1>b DEF GetFails, link, chans, outer
<1>10. ASSUME NEW s \in Side, PageDone(s) PROVE Goal
  BY <1>10, <1>b DEF PageDone, link, chans, outer
<1>11. ASSUME NEW s \in Side, SendDone(s) PROVE Goal
  <2> DEFINE f == [type |-> "done"]
  <2>1. f \in Frame /\ Written(s, f)
    BY <1>11, FramesMade DEF Written, SendDone
  <2>2. CASE Write(s, f)
    BY <2>1, <2>2, WriteStep DEF Goal
  <2>3. CASE ~Write(s, f)
    BY <1>b, <1>11, <2>3 DEF SendDone, link
  <2> QED BY <2>2, <2>3
<1>12. ASSUME NEW s \in Side, Recv(s) PROVE Goal
  <2>1. PICK f : /\ Read(s, f)
                 /\ f.type = "block" =>
                      lost' = IF Has(s, f.id, f.wf)' THEN lost
                              ELSE [lost EXCEPT ![s] = @ \cup {f.id}]
    BY <1>12 DEF Recv
  <2>2. Taken(s, f)
    BY <2>1 DEF Taken, TypeOK
  <2> QED BY <2>1, <2>2, ReadStep DEF Goal
<1>13. ASSUME NEW s \in Side, RecvFails(s) PROVE Goal
  BY <1>13, <1>b DEF RecvFails, link, sender, outer
<1>14. ASSUME NEW s \in Side, ReturnError(s) PROVE Goal
  BY <1>14, <1>b DEF ReturnError, chans, sender
<1>15. ASSUME NEW s \in Side, ExchangePeers(s) PROVE Goal
  BY <1>15, <1>b DEF ExchangePeers, link, chans, sender
<1>16. ASSUME NEW s \in Side, TellPeers(s) PROVE Goal
  <2> DEFINE f == [type |-> "peers"]
  <2>1. f \in Frame /\ Written(s, f)
    BY <1>16, FramesMade DEF Written, TellPeers
  <2>2. CASE Write(s, f)
    BY <2>1, <2>2, WriteStep DEF Goal
  <2>3. CASE ~Write(s, f)
    BY <1>b, <1>16, <2>3 DEF TellPeers, link
  <2> QED BY <2>2, <2>3
<1>17. ASSUME NEW s \in Side, HearPeers(s) PROVE Goal
  <2> DEFINE f == [type |-> "peers"]
  <2>1. Taken(s, f)
    BY DEF Taken
  <2>2. CASE Read(s, f)
    BY <2>1, <2>2, ReadStep DEF Goal
  <2>3. CASE ~Read(s, f)
    BY <1>b, <1>17, <2>3 DEF HearPeers, link
  <2> QED BY <2>2, <2>3
<1>18. ASSUME NEW s \in Side, Return(s) PROVE Goal
  BY <1>18, <1>b DEF Return, chans, sender
<1>19. ASSUME NEW s \in Side, Close(s) PROVE Goal
  BY <1>19, <1>b DEF Close, link, chans, sender, outer
<1>20. ASSUME NEW s \in Side, NEW id \in work.puts, NEW wf \in WF,
              UserPut(s, id, wf)
       PROVE  Goal
  BY <1>20, <1>b DEF UserPut, link, chans, sender, outer
<1>21. ASSUME LinkBreaks PROVE Goal
  <2>1. wire' = [t \in Side |-> <<>>] /\ open' = FALSE
    BY <1>21 DEF LinkBreaks
  <2>2. <<>> \in Seq(Frame)
    BY EmptySeq
  <2> QED BY <2>1, <2>2 DEF QueueStep, Goal
<1>22. ASSUME UNCHANGED vars PROVE Goal
  BY <1>22, <1>b DEF link, chans, sender, outer, vars
<1>23. ASSUME NEW s \in Side, Evict(s) PROVE Goal
  BY <1>23, <1>b DEF Evict, link, chans, sender, outer
<1> QED
  BY <1>1, <1>2, <1>3, <1>4, <1>5, <1>6, <1>7, <1>8, <1>9, <1>10, <1>11, <1>12, <1>13,
     <1>14, <1>15, <1>16, <1>17, <1>18, <1>19, <1>20, <1>21, <1>22, <1>23
  DEF Next, Sender, Receiver, Main, Goal

\* What becomes of the store of t in a step.
StoreStep(t) ==
  \/ db'[t] = db[t] /\ gone'[t] = gone[t]
  \/ gone'[t] = gone[t] /\ \E id \in ID, wf \in WF : db'[t] = Put(t, id, wf)
  \/ \E c \in db[t].block : /\ db'[t] = EvictTxn(db[t], c, Now)
                            /\ gone'[t] = gone[t] \cup {c.id}

\* Every store, in every step.
LEMMA DbNext ==
  ASSUME TypeOK, [Next]_vars
  PROVE  /\ db' \in [Side -> DB] /\ gone' \in [Side -> SUBSET ID]
         /\ \A t \in Side : StoreStep(t)
<1> DEFINE Goal ==
      /\ db' \in [Side -> DB] /\ gone' \in [Side -> SUBSET ID]
      /\ \A t \in Side : StoreStep(t)
<1>a. db \in [Side -> DB] /\ gone \in [Side -> SUBSET ID]
  BY DEF TypeOK
<1>b. ASSUME db' = db, gone' = gone PROVE Goal
  BY <1>a, <1>b DEF StoreStep
<1>c. ASSUME NEW s \in Side, NEW id \in ID, NEW wf \in WF, gone' = gone,
             db' = [db EXCEPT ![s] = Put(s, id, wf)]
      PROVE  Goal
  <2>1. Put(s, id, wf) \in DB
    BY PutType
  <2> QED BY <1>a, <1>c, <2>1 DEF StoreStep
<1>d. ASSUME NEW s \in Side, NEW c \in db[s].block,
             db' = [db EXCEPT ![s] = EvictTxn(@, c, Now)],
             gone' = [gone EXCEPT ![s] = @ \cup {c.id}]
      PROVE  Goal
  <2>1. c \in Ref /\ c.id \in ID /\ db[s] \in DB /\ Now \in Nat
    BY StoreTypes DEF Now
  <2>2. EvictTxn(db[s], c, Now) \in DB
    BY <2>1, EvictParts
  <2>3. db' \in [Side -> DB] /\ gone' \in [Side -> SUBSET ID]
    BY <1>a, <1>d, <2>1, <2>2
  <2> QED BY <1>a, <1>d, <2>3 DEF StoreStep
<1> HIDE DEF Goal
<1>1. ASSUME NEW s \in Side, SendBloom(s) PROVE Goal
  BY <1>1, <1>b DEF SendBloom, link, chans, outer, hist
<1>2. ASSUME NEW s \in Side, FilterFails(s) PROVE Goal
  BY <1>2, <1>b DEF FilterFails, link, chans, outer, hist
<1>3. ASSUME NEW s \in Side, TakeBloom(s) PROVE Goal
  BY <1>3, <1>b DEF TakeBloom, link, outer, hist
<1>4. ASSUME NEW s \in Side, Cancelled(s) PROVE Goal
  BY <1>4, <1>b DEF Cancelled, link, chans, outer, hist
<1>5. ASSUME NEW s \in Side, CancelDone(s) PROVE Goal
  BY <1>5, <1>b DEF CancelDone, link, chans, outer, hist
<1>6. ASSUME NEW s \in Side, ListPage(s) PROVE Goal
  BY <1>6, <1>b DEF ListPage, link, chans, outer, hist
<1>7. ASSUME NEW s \in Side, ListFails(s) PROVE Goal
  BY <1>7, <1>b DEF ListFails, link, chans, outer, hist
<1>8. ASSUME NEW s \in Side, SendBlock(s) PROVE Goal
  BY <1>8, <1>b DEF SendBlock, link, chans, outer, hist
<1>9. ASSUME NEW s \in Side, GetFails(s) PROVE Goal
  BY <1>9, <1>b DEF GetFails, link, chans, outer, hist
<1>10. ASSUME NEW s \in Side, PageDone(s) PROVE Goal
  BY <1>10, <1>b DEF PageDone, link, chans, outer, hist
<1>11. ASSUME NEW s \in Side, SendDone(s) PROVE Goal
  BY <1>11, <1>b DEF SendDone, link, chans, outer, hist
<1>12. ASSUME NEW s \in Side, Recv(s) PROVE Goal
  <2>1. PICK f : /\ Read(s, f) /\ gone' = gone
                 /\ \/ db' = db
                    \/ f.type = "block" /\ db' = [db EXCEPT ![s] = Put(s, f.id, f.wf)]
    BY <1>12 DEF Recv
  <2>2. f.type = "block" => f.id \in ID /\ f.wf \in WF
    BY <2>1, ReadParts, FrameKinds
  <2> QED BY <1>b, <1>c, <2>1, <2>2
<1>13. ASSUME NEW s \in Side, RecvFails(s) PROVE Goal
  BY <1>13, <1>b DEF RecvFails, link, sender, outer, hist
<1>14. ASSUME NEW s \in Side, ReturnError(s) PROVE Goal
  BY <1>14, <1>b DEF ReturnError, chans, sender, hist
<1>15. ASSUME NEW s \in Side, ExchangePeers(s) PROVE Goal
  BY <1>15, <1>b DEF ExchangePeers, link, chans, sender, hist
<1>16. ASSUME NEW s \in Side, TellPeers(s) PROVE Goal
  BY <1>16, <1>b DEF TellPeers, link, chans, sender, hist
<1>17. ASSUME NEW s \in Side, HearPeers(s) PROVE Goal
  BY <1>17, <1>b DEF HearPeers, link, chans, sender, hist
<1>18. ASSUME NEW s \in Side, Return(s) PROVE Goal
  BY <1>18, <1>b DEF Return, chans, sender, hist
<1>19. ASSUME NEW s \in Side, Close(s) PROVE Goal
  BY <1>19, <1>b DEF Close, link, chans, sender, outer, hist
<1>20. ASSUME NEW s \in Side, NEW id \in work.puts, NEW wf \in WF,
              UserPut(s, id, wf)
       PROVE  Goal
  <2>1. id \in ID
    BY <1>20, SessionAssumption DEF TypeOK
  <2> QED BY <1>20, <1>c, <2>1 DEF UserPut, hist
<1>21. ASSUME LinkBreaks PROVE Goal
  BY <1>21, <1>b DEF LinkBreaks, link, chans, sender, outer, hist
<1>22. ASSUME UNCHANGED vars PROVE Goal
  BY <1>22, <1>b DEF link, chans, sender, outer, vars, hist
<1>23. ASSUME NEW s \in Side, Evict(s) PROVE Goal
  BY <1>23, <1>d DEF Evict
<1> QED
  BY <1>1, <1>2, <1>3, <1>4, <1>5, <1>6, <1>7, <1>8, <1>9, <1>10, <1>11, <1>12, <1>13,
     <1>14, <1>15, <1>16, <1>17, <1>18, <1>19, <1>20, <1>21, <1>22, <1>23
  DEF Next, Sender, Receiver, Main, Goal

\* What only grows, and what does not change.
LEMMA Histories ==
  ASSUME TypeOK, [Next]_vars
  PROVE  /\ work' = work /\ first' = first
         /\ failed \subseteq failed' /\ closed \subseteq closed' /\ cut \subseteq cut'
         /\ lost' \in [Side -> SUBSET ID] /\ \A t \in Side : lost[t] \subseteq lost'[t]
<1> DEFINE Marks == lost' \in [Side -> SUBSET ID] /\ \A t \in Side : lost[t] \subseteq lost'[t]
           Goal == /\ work' = work /\ first' = first /\ failed \subseteq failed'
                   /\ closed \subseteq closed' /\ cut \subseteq cut' /\ Marks
<1>a. lost \in [Side -> SUBSET ID]
  BY DEF TypeOK
<1>b. ASSUME lost' = lost PROVE Marks
  BY <1>a, <1>b
<1>c. ASSUME NEW o \in Side, NEW i \in ID, lost' = [lost EXCEPT ![o] = @ \cup {i}] PROVE Marks
  BY <1>a, <1>c
<1> HIDE DEF Marks
<1>1. ASSUME NEW s \in Side, SendBloom(s) PROVE Goal
  BY <1>1, <1>b DEF SendBloom, SendFails, link, chans, outer, hist
<1>2. ASSUME NEW s \in Side, FilterFails(s) PROVE Goal
  BY <1>2, <1>b DEF FilterFails, SendFails, link, chans, outer, hist
<1>3. ASSUME NEW s \in Side, TakeBloom(s) PROVE Goal
  BY <1>3, <1>b DEF TakeBloom, link, outer, hist
<1>4. ASSUME NEW s \in Side, Cancelled(s) PROVE Goal
  BY <1>4, <1>b DEF Cancelled, link, chans, outer, hist
<1>5. ASSUME NEW s \in Side, CancelDone(s) PROVE Goal
  BY <1>5, <1>b DEF CancelDone, SendFails, link, chans, outer, hist
<1>6. ASSUME NEW s \in Side, ListPage(s) PROVE Goal
  BY <1>6, <1>b DEF ListPage, link, chans, outer, hist
<1>7. ASSUME NEW s \in Side, ListFails(s) PROVE Goal
  BY <1>7, <1>b DEF ListFails, link, chans, outer, hist
<1>8. ASSUME NEW s \in Side, SendBlock(s) PROVE Goal
  <2>1. PICK e \in page[s] : \/ lost' = lost
                             \/ lost' = [lost EXCEPT ![Other(s)] = @ \cup {e.id}]
    BY <1>8 DEF SendBlock
  <2>2. e.id \in ID /\ Other(s) \in Side
    BY OtherSide DEF TypeOK, Ref
  <2>3. Marks
    BY <1>b, <1>c, <2>1, <2>2
  <2> QED BY <1>8, <2>3 DEF SendBlock, SendFails
<1>9. ASSUME NEW s \in Side, GetFails(s) PROVE Goal
  <2>1. PICK e \in page[s] : lost' = [lost EXCEPT ![Other(s)] = @ \cup {e.id}]
    BY <1>9 DEF GetFails
  <2>2. e.id \in ID /\ Other(s) \in Side
    BY OtherSide DEF TypeOK, Ref
  <2>3. Marks
    BY <1>c, <2>1, <2>2
  <2> QED BY <1>9, <2>3 DEF GetFails
<1>10. ASSUME NEW s \in Side, PageDone(s) PROVE Goal
  BY <1>10, <1>b DEF PageDone, link, chans, outer, hist
<1>11. ASSUME NEW s \in Side, SendDone(s) PROVE Goal
  BY <1>11, <1>b DEF SendDone, SendFails, link, chans, outer, hist
<1>12. ASSUME NEW s \in Side, Recv(s) PROVE Goal
  <2>1. PICK f : /\ Read(s, f)
                 /\ \/ lost' = lost
                    \/ f.type = "block" /\ lost' = [lost EXCEPT ![s] = @ \cup {f.id}]
    BY <1>12 DEF Recv
  <2>2. f.type = "block" => f.id \in ID
    BY <2>1, ReadParts, FrameKinds
  <2>3. Marks
    BY <1>b, <1>c, <2>1, <2>2
  <2> QED BY <1>12, <2>3 DEF Recv
<1>13. ASSUME NEW s \in Side, RecvFails(s) PROVE Goal
  BY <1>13, <1>b DEF RecvFails, link, sender, outer, hist
<1>14. ASSUME NEW s \in Side, ReturnError(s) PROVE Goal
  BY <1>14, <1>b DEF ReturnError, chans, sender, hist
<1>15. ASSUME NEW s \in Side, ExchangePeers(s) PROVE Goal
  BY <1>15, <1>b DEF ExchangePeers, link, chans, sender, hist
<1>16. ASSUME NEW s \in Side, TellPeers(s) PROVE Goal
  BY <1>16, <1>b DEF TellPeers, link, chans, sender, hist
<1>17. ASSUME NEW s \in Side, HearPeers(s) PROVE Goal
  BY <1>17, <1>b DEF HearPeers, link, chans, sender, hist
<1>18. ASSUME NEW s \in Side, Return(s) PROVE Goal
  BY <1>18, <1>b DEF Return, chans, sender, hist
<1>19. ASSUME NEW s \in Side, Close(s) PROVE Goal
  BY <1>19, <1>b DEF Close, link, chans, sender, outer, hist
<1>20. ASSUME NEW s \in Side, NEW id \in work.puts, NEW wf \in WF,
              UserPut(s, id, wf)
       PROVE  Goal
  BY <1>20, <1>b DEF UserPut, link, chans, sender, outer, hist
<1>21. ASSUME LinkBreaks PROVE Goal
  BY <1>21, <1>b DEF LinkBreaks, link, chans, sender, outer, hist
<1>22. ASSUME UNCHANGED vars PROVE Goal
  BY <1>22, <1>b DEF link, chans, sender, outer, vars, hist
<1>23. ASSUME NEW s \in Side, Evict(s) PROVE Goal
  BY <1>23, <1>b DEF Evict, link, chans, sender, outer, hist
<1> QED
  BY <1>1, <1>2, <1>3, <1>4, <1>5, <1>6, <1>7, <1>8, <1>9, <1>10, <1>11, <1>12, <1>13,
     <1>14, <1>15, <1>16, <1>17, <1>18, <1>19, <1>20, <1>21, <1>22, <1>23
  DEF Next, Sender, Receiver, Main, Marks

-----------------------------------------------------------------------------
(* Types.                                                                  *)

\* The page that runSend lists next.
LEMMA ListParts ==
  ASSUME TypeOK, StoreInv, NEW s \in Side
  PROVE  LET ahead == Listable(db[s], cursor[s], 0, 0)
             refs == Page(db[s], cursor[s], PageSize, 0, 0)
             next == NextCursor(refs, PageSize)
         IN  /\ refs \subseteq db[s].trav /\ refs \subseteq Ref
             /\ next \in [createdAt : Nat, id : Nat]
             /\ \A e \in ahead \ refs : next # NoCursor /\ KeyLess(next, e)
<1>1. Keyed(db[s].trav) /\ db[s].trav \subseteq Ref
  BY StoreTypes DEF Keyed
<1>2. KeysUnique(db[s].trav) /\ IsFiniteSet(db[s].trav)
  BY DEF StoreInv, Consistent, KeysUnique
<1>3. PageSize \in Nat \ {0}
  BY SessionAssumption
<1> QED
  BY <1>1, <1>2, <1>3, PageComplete

\* Every queue keeps to the capacity of the link.
LEMMA CapNext ==
  ASSUME TypeOK, [Next]_vars, NEW t \in Side
  PROVE  Len(wire'[t]) <= Cap
<1>1. wire[t] \in Seq(Frame) /\ Len(wire[t]) <= Cap /\ Len(wire[t]) \in Nat
  BY LenProperties DEF TypeOK
<1>2. Cap \in Nat
  BY SessionAssumption
<1>3. QueueStep(t)
  BY WireNext
<1>4. CASE wire'[t] = wire[t]
  BY <1>1, <1>4
<1>5. CASE wire'[t] = <<>>
  BY <1>2, <1>5
<1>6. ASSUME NEW f \in Frame, wire'[t] = Append(wire[t], f), Len(wire[t]) < Cap
      PROVE  Len(wire'[t]) <= Cap
  BY <1>1, <1>2, <1>6, AppendProperties
<1>7. CASE wire[t] # <<>> /\ wire'[t] = Tail(wire[t])
  BY <1>1, <1>2, <1>7, HeadTailProperties
<1> QED
  BY <1>3, <1>4, <1>5, <1>6, <1>7 DEF QueueStep

\* Every step keeps the types.
LEMMA TypeNext ==
  ASSUME TypeOK, PhaseInv, StoreInv, [Next]_vars
  PROVE  TypeOK'
<1> DEFINE Goal ==
      /\ open' \in BOOLEAN
      /\ channel' \in [Side -> SUBSET Filter] /\ filter' \in [Side -> Filter]
      /\ \A t \in Side : \A b, c \in channel'[t] : b = c
      /\ delivered' \subseteq Side /\ shut' \subseteq Side /\ delivered' \cap shut' = {}
      /\ snd' \in [Side -> {"bloom", "wait", "cancel", "list", "page", "done", "end"}]
      /\ rcv' \in [Side -> {"read", "end"}]
      /\ cursor' \in [Side -> [createdAt : Nat, id : Nat]]
      /\ page' \in [Side -> SUBSET Ref]
      /\ failed' \subseteq Side /\ told' \subseteq Side /\ heard' \subseteq Side
      /\ main' \in [Side -> {"run", "peers", "returned"}]
      /\ closed' \subseteq Side /\ cut' \subseteq Side
<1> USE DEF TypeOK
<1>1. ASSUME NEW s \in Side, SendBloom(s) PROVE Goal
  BY <1>1 DEF SendBloom, Write, SendFails, SendEnds, link, chans, outer
<1>2. ASSUME NEW s \in Side, FilterFails(s) PROVE Goal
  BY <1>2 DEF FilterFails, SendFails, SendEnds, link, chans, outer
<1>3. ASSUME NEW s \in Side, TakeBloom(s) PROVE Goal
  <2>1. UNION channel[s] \in Filter
    BY DEF Filter
  <2>2. /\ filter' = filter \/ filter' = [filter EXCEPT ![s] = UNION channel[s]]
        /\ channel' = channel \/ channel' = [channel EXCEPT ![s] = {}]
        /\ snd' = [snd EXCEPT ![s] = "list"] \/ snd' = [snd EXCEPT ![s] = "end"]
        /\ UNCHANGED <<open, delivered, shut, cursor, page, rcv, failed, outer, closed, cut>>
    BY <1>3 DEF TakeBloom, SendEnds, link
  <2>3. filter' \in [Side -> Filter]
    <3>1. filter \in [Side -> Filter]
      OBVIOUS
    <3> DEFINE bits == UNION channel[s]
    <3>2. bits \in Filter /\ (filter' = filter \/ filter' = [filter EXCEPT ![s] = bits])
      BY <2>1, <2>2
    <3> HIDE DEF bits, TypeOK
    <3> QED BY <3>1, <3>2
  <2>4. /\ channel' \in [Side -> SUBSET Filter]
        /\ \A t \in Side : \A b, c \in channel'[t] : b = c
    <3>1. CASE channel' = channel
      BY <3>1
    <3>2. CASE channel' = [channel EXCEPT ![s] = {}]
      BY <2>1, <3>2
    <3> QED BY <2>2, <3>1, <3>2
  <2>5. snd' \in [Side -> {"bloom", "wait", "cancel", "list", "page", "done", "end"}]
    BY <2>2
  <2> QED BY <2>2, <2>3, <2>4, <2>5 DEF outer
<1>4. ASSUME NEW s \in Side, Cancelled(s) PROVE Goal
  BY <1>4 DEF Cancelled, link, chans, outer
<1>5. ASSUME NEW s \in Side, CancelDone(s) PROVE Goal
  BY <1>5 DEF CancelDone, Write, SendFails, SendEnds, link, chans, outer
<1>6. ASSUME NEW s \in Side, ListPage(s) PROVE Goal
  <2> DEFINE refs == Page(db[s], cursor[s], PageSize, 0, 0)
             next == NextCursor(refs, PageSize)
  <2>1. refs \in SUBSET Ref /\ next \in [createdAt : Nat, id : Nat]
    BY ListParts
  <2>2. /\ page' \in [Side -> SUBSET Ref] /\ cut' \subseteq Side
        /\ cursor' \in [Side -> [createdAt : Nat, id : Nat]]
        /\ snd' \in [Side -> {"bloom", "wait", "cancel", "list", "page", "done", "end"}]
    <3> HIDE DEF refs, next
    <3>1. page' = page \/ page' = [page EXCEPT ![s] = refs]
      BY <1>6 DEF ListPage, refs
    <3>2. cursor' = cursor \/ cursor' = [cursor EXCEPT ![s] = next]
      BY <1>6 DEF ListPage, refs, next
    <3>3. /\ cut' = cut \/ cut' = cut \cup {s}
          /\ snd' = [snd EXCEPT ![s] = "done"] \/ snd' = [snd EXCEPT ![s] = "page"]
      BY <1>6 DEF ListPage
    <3>4. page' \in [Side -> SUBSET Ref]
      <4>1. page \in [Side -> SUBSET Ref]
        OBVIOUS
      <4> HIDE DEF TypeOK
      <4> QED BY <2>1, <3>1, <4>1
    <3>5. cursor' \in [Side -> [createdAt : Nat, id : Nat]]
      <4>1. cursor \in [Side -> [createdAt : Nat, id : Nat]]
        OBVIOUS
      <4>2. \A t \in Side : cursor'[t] \in [createdAt : Nat, id : Nat]
        BY <2>1, <3>2, <4>1
      <4>3. cursor' = [t \in Side |-> cursor'[t]]
        BY <3>2, <4>1
      <4> HIDE DEF TypeOK
      <4> QED BY <4>2, <4>3, Zenon
    <3>6. /\ cut' \subseteq Side
          /\ snd' \in [Side -> {"bloom", "wait", "cancel", "list", "page", "done", "end"}]
      BY <3>3
    <3> QED BY <3>4, <3>5, <3>6
  <2> QED BY <1>6, <2>2 DEF ListPage, link, chans, outer
<1>7. ASSUME NEW s \in Side, ListFails(s) PROVE Goal
  BY <1>7 DEF ListFails, link, chans, outer
<1>8. ASSUME NEW s \in Side, SendBlock(s) PROVE Goal
  <2>1. PICK e : /\ page' = [page EXCEPT ![s] = @ \ {e}]
                 /\ ((snd' = snd /\ failed' = failed) \/ SendFails(s))
                 /\ open' = open
    BY <1>8 DEF SendBlock, Write, link
  <2>2. page' \in [Side -> SUBSET Ref]
    BY <2>1
  <2>3. /\ snd' \in [Side -> {"bloom", "wait", "cancel", "list", "page", "done", "end"}]
        /\ failed' \subseteq Side /\ open' \in BOOLEAN
    BY <2>1 DEF SendFails, SendEnds
  <2>4. UNCHANGED <<chans, filter, cursor, rcv, outer, closed, cut>>
    BY <1>8 DEF SendBlock
  <2> QED BY <2>2, <2>3, <2>4 DEF chans, outer
<1>9. ASSUME NEW s \in Side, GetFails(s) PROVE Goal
  BY <1>9 DEF GetFails, link, chans, outer
<1>10. ASSUME NEW s \in Side, PageDone(s) PROVE Goal
  BY <1>10 DEF PageDone, link, chans, outer
<1>11. ASSUME NEW s \in Side, SendDone(s) PROVE Goal
  BY <1>11 DEF SendDone, Write, SendFails, SendEnds, link, chans, outer
<1>12. ASSUME NEW s \in Side, Recv(s) PROVE Goal
  <2>1. PICK f : /\ Read(s, f)
                 /\ \/ /\ f.type = "bloom" /\ channel' = [channel EXCEPT ![s] = {f.bits}]
                       /\ delivered' = delivered \cup {s} /\ rcv' = rcv
                    \/ /\ channel' = channel /\ delivered' = delivered
                       /\ rcv' = rcv \/ rcv' = [rcv EXCEPT ![s] = "end"]
    BY <1>12 DEF Recv
  <2>2. f.type = "bloom" => {f.bits} \in SUBSET Filter
    BY <2>1, ReadParts, FrameKinds
  <2>3. \A b, c \in {f.bits} : b = c
    OBVIOUS
  <2>4. s \notin shut
    BY <1>12 DEF Recv, PhaseInv
  <2>5. /\ channel' \in [Side -> SUBSET Filter]
        /\ \A t \in Side : \A b, c \in channel'[t] : b = c
        /\ delivered' \subseteq Side /\ shut' = shut /\ delivered' \cap shut = {}
        /\ rcv' \in [Side -> {"read", "end"}] /\ open' = open
    <3>1. shut' = shut /\ open' = open
      BY <1>12, <2>1 DEF Recv, Read
    <3>2. CASE channel' = [channel EXCEPT ![s] = {f.bits}] /\ f.type = "bloom"
                /\ delivered' = delivered \cup {s} /\ rcv' = rcv
      BY <2>2, <2>3, <2>4, <3>1, <3>2
    <3>3. CASE /\ channel' = channel /\ delivered' = delivered
               /\ rcv' = rcv \/ rcv' = [rcv EXCEPT ![s] = "end"]
      BY <3>1, <3>3
    <3> QED BY <2>1, <3>2, <3>3
  <2> QED BY <1>12, <2>5 DEF Recv, sender, outer
<1>13. ASSUME NEW s \in Side, RecvFails(s) PROVE Goal
  BY <1>13 DEF RecvFails, link, sender, outer
<1>14. ASSUME NEW s \in Side, ReturnError(s) PROVE Goal
  BY <1>14 DEF ReturnError, chans, sender
<1>15. ASSUME NEW s \in Side, ExchangePeers(s) PROVE Goal
  BY <1>15 DEF ExchangePeers, link, chans, sender
<1>16. ASSUME NEW s \in Side, TellPeers(s) PROVE Goal
  BY <1>16 DEF TellPeers, Write, link, chans, sender
<1>17. ASSUME NEW s \in Side, HearPeers(s) PROVE Goal
  BY <1>17 DEF HearPeers, Read, link, chans, sender
<1>18. ASSUME NEW s \in Side, Return(s) PROVE Goal
  BY <1>18 DEF Return, chans, sender
<1>19. ASSUME NEW s \in Side, Close(s) PROVE Goal
  BY <1>19 DEF Close, link, chans, sender, outer
<1>20. ASSUME NEW s \in Side, NEW id \in work.puts, NEW wf \in WF,
              UserPut(s, id, wf)
       PROVE  Goal
  BY <1>20 DEF UserPut, link, chans, sender, outer
<1>21. ASSUME LinkBreaks PROVE Goal
  BY <1>21 DEF LinkBreaks, link, chans, sender, outer
<1>22. ASSUME UNCHANGED vars PROVE Goal
  BY <1>22 DEF link, chans, sender, outer, vars
<1>23. ASSUME NEW s \in Side, Evict(s) PROVE Goal
  BY <1>23 DEF Evict, link, chans, sender, outer
<1>99. Goal
  BY <1>1, <1>2, <1>3, <1>4, <1>5, <1>6, <1>7, <1>8, <1>9, <1>10, <1>11, <1>12, <1>13,
     <1>14, <1>15, <1>16, <1>17, <1>18, <1>19, <1>20, <1>21, <1>22, <1>23
  DEF Next, Sender, Receiver, Main
<1> QED
  BY <1>99, WireNext, CapNext, DbNext, Histories

\* Every step keeps the goroutines in step.
LEMMA PhaseNext ==
  ASSUME TypeOK, PhaseInv, [Next]_vars
  PROVE  PhaseInv'
<1> DEFINE Goal == PhaseInv'
<1> USE DEF PhaseInv
<1>1. ASSUME NEW s \in Side, SendBloom(s) PROVE Goal
  BY <1>1 DEF SendBloom, Write, SendFails, SendEnds, TypeOK, link, chans, outer
<1>2. ASSUME NEW s \in Side, FilterFails(s) PROVE Goal
  BY <1>2 DEF FilterFails, SendFails, SendEnds, TypeOK, link, chans, outer
<1>3. ASSUME NEW s \in Side, TakeBloom(s) PROVE Goal
  BY <1>3 DEF TakeBloom, SendEnds, TypeOK, link, outer
<1>4. ASSUME NEW s \in Side, Cancelled(s) PROVE Goal
  BY <1>4 DEF Cancelled, TypeOK, link, chans, outer
<1>5. ASSUME NEW s \in Side, CancelDone(s) PROVE Goal
  BY <1>5 DEF CancelDone, Write, SendFails, SendEnds, TypeOK, link, chans, outer
<1>6. ASSUME NEW s \in Side, ListPage(s) PROVE Goal
  <2>1. /\ \A t \in Side : t # s => snd'[t] = snd[t] /\ cursor'[t] = cursor[t]
        /\ snd'[s] \in {"done", "page"} /\ shut' = shut /\ rcv' = rcv /\ cut \subseteq cut'
    <3>1. cursor' = cursor \/ \E n : cursor' = [cursor EXCEPT ![s] = n]
      BY <1>6 DEF ListPage
    <3>2. /\ cut' = cut \/ cut' = cut \cup {s}
          /\ snd' = [snd EXCEPT ![s] = "done"] \/ snd' = [snd EXCEPT ![s] = "page"]
      BY <1>6 DEF ListPage
    <3> QED BY <1>6, <3>1, <3>2 DEF TypeOK, ListPage, chans
  <2> QED BY <2>1
<1>7. ASSUME NEW s \in Side, ListFails(s) PROVE Goal
  BY <1>7 DEF ListFails, TypeOK, link, chans, outer
<1>8. ASSUME NEW s \in Side, SendBlock(s) PROVE Goal
  BY <1>8 DEF SendBlock, Write, SendFails, SendEnds, TypeOK, link, chans, outer
<1>9. ASSUME NEW s \in Side, GetFails(s) PROVE Goal
  BY <1>9 DEF GetFails, TypeOK, link, chans, outer
<1>10. ASSUME NEW s \in Side, PageDone(s) PROVE Goal
  BY <1>10 DEF PageDone, TypeOK, link, chans, outer
<1>11. ASSUME NEW s \in Side, SendDone(s) PROVE Goal
  BY <1>11 DEF SendDone, Write, SendFails, SendEnds, TypeOK, link, chans, outer
<1>12. ASSUME NEW s \in Side, Recv(s) PROVE Goal
  BY <1>12 DEF Recv, Read, TypeOK, sender, outer
<1>13. ASSUME NEW s \in Side, RecvFails(s) PROVE Goal
  BY <1>13 DEF RecvFails, TypeOK, link, sender, outer
<1>14. ASSUME NEW s \in Side, ReturnError(s) PROVE Goal
  BY <1>14 DEF ReturnError, TypeOK, chans, sender
<1>15. ASSUME NEW s \in Side, ExchangePeers(s) PROVE Goal
  BY <1>15 DEF ExchangePeers, TypeOK, link, chans, sender
<1>16. ASSUME NEW s \in Side, TellPeers(s) PROVE Goal
  BY <1>16 DEF TellPeers, Write, TypeOK, link, chans, sender
<1>17. ASSUME NEW s \in Side, HearPeers(s) PROVE Goal
  BY <1>17 DEF HearPeers, Read, TypeOK, link, chans, sender
<1>18. ASSUME NEW s \in Side, Return(s) PROVE Goal
  BY <1>18 DEF Return, TypeOK, chans, sender
<1>19. ASSUME NEW s \in Side, Close(s) PROVE Goal
  BY <1>19 DEF Close, TypeOK, link, chans, sender, outer
<1>20. ASSUME NEW s \in Side, NEW id \in work.puts, NEW wf \in WF,
              UserPut(s, id, wf)
       PROVE  Goal
  BY <1>20 DEF UserPut, TypeOK, link, chans, sender, outer
<1>21. ASSUME LinkBreaks PROVE Goal
  BY <1>21 DEF LinkBreaks, TypeOK, link, chans, sender, outer
<1>22. ASSUME UNCHANGED vars PROVE Goal
  BY <1>22 DEF link, chans, sender, outer, vars
<1>23. ASSUME NEW s \in Side, Evict(s) PROVE Goal
  BY <1>23 DEF Evict, TypeOK, link, chans, sender, outer
<1> QED
  BY <1>1, <1>2, <1>3, <1>4, <1>5, <1>6, <1>7, <1>8, <1>9, <1>10, <1>11, <1>12, <1>13,
     <1>14, <1>15, <1>16, <1>17, <1>18, <1>19, <1>20, <1>21, <1>22, <1>23
  DEF Next, Sender, Receiver, Main

-----------------------------------------------------------------------------
(* Stores, filters and pages.                                              *)

\* What an end has evicted and what did not reach it stays on record.
LEMMA GoneGrows ==
  ASSUME TypeOK, [Next]_vars, NEW s \in Side
  PROVE  gone[s] \subseteq gone'[s] /\ lost[s] \subseteq lost'[s]
<1>1. StoreStep(s)
  BY DbNext
<1> QED
  BY <1>1, Histories DEF StoreStep

\* An end keeps what it holds, whatever is put and received, or evicts it.
LEMMA HoldsNext ==
  ASSUME TypeOK, StoreInv, [Next]_vars, NEW s \in Side, NEW i, NEW w \in WF, Holds(s, i, w)
  PROVE  Holds(s, i, w)'
<1>1. CASE i \in gone[s]
  BY <1>1, GoneGrows DEF Holds
<1>2. SUFFICES ASSUME Has(s, i, w) PROVE Holds(s, i, w)'
  BY <1>1 DEF Holds
<1>3. PICK b \in db[s].block : b.id = i /\ b.wf >= w
  BY <1>2 DEF Has
<1>4. b.wf \in Nat /\ w \in Nat
  BY <1>3, StoreTypes
<1>5. CASE db'[s] = db[s]
  BY <1>3, <1>5 DEF Holds, Has
<1>6. ASSUME NEW id \in ID, NEW wf \in WF, db'[s] = Put(s, id, wf)
      PROVE  Holds(s, i, w)'
  <2>1. PICK c \in db'[s].block : c.id = b.id /\ c.wf >= b.wf
    BY <1>3, <1>6, PutKeeps
  <2>2. c.wf \in Nat
    <3>1. db'[s] \in DB
      BY DbNext
    <3> QED BY <3>1, TTLAssumption DEF DB, Ref, WF
  <2> QED
    BY <1>3, <1>4, <2>1, <2>2 DEF Holds, Has
<1>7. ASSUME NEW c \in db[s].block, db'[s] = EvictTxn(db[s], c, Now),
             gone'[s] = gone[s] \cup {c.id}
      PROVE  Holds(s, i, w)'
  <2>1. CASE c.id = i
    BY <1>7, <2>1 DEF Holds
  <2>2. CASE c.id # i
    <3>1. b \in db'[s].block
      BY <1>3, <1>7, <2>2, EvictKeeps
    <3> QED
      BY <1>3, <3>1 DEF Holds, Has
  <2> QED
    BY <2>1, <2>2
<1> QED
  BY <1>5, <1>6, <1>7, DbNext DEF StoreStep

\* The stores stay consistent.
LEMMA StoreNext ==
  ASSUME TypeOK, StoreInv, [Next]_vars
  PROVE  StoreInv'
<1>1. SUFFICES ASSUME NEW s \in Side
               PROVE  /\ Consistent(db'[s], Now) /\ IsFiniteSet(db'[s].trav)
                      /\ db'[s].trav = db'[s].block
                      /\ \A i \in gone'[s] : /\ Tombstoned(db'[s], i, Now)
                                             /\ \A b \in db'[s].block : b.id # i
                      /\ \A b \in first'[s] : Holds(s, b.id, b.wf)'
  BY DEF StoreInv
<1> DEFINE Goal ==
      /\ Consistent(db'[s], Now) /\ IsFiniteSet(db'[s].trav) /\ db'[s].trav = db'[s].block
      /\ \A i \in gone'[s] : /\ Tombstoned(db'[s], i, Now)
                             /\ \A b \in db'[s].block : b.id # i
<1>2. Goal
  <2>a. gone[s] \subseteq ID
    BY DEF TypeOK
  <2>b. \A i \in gone[s] : Tombstoned(db[s], i, Now) /\ \A b \in db[s].block : b.id # i
    BY DEF StoreInv
  <2>1. CASE db'[s] = db[s] /\ gone'[s] = gone[s]
    BY <2>1 DEF StoreInv
  <2>2. ASSUME NEW id \in ID, NEW wf \in WF, db'[s] = Put(s, id, wf), gone'[s] = gone[s]
        PROVE  Goal
    <3>1. /\ Consistent(db'[s], Now) /\ IsFiniteSet(db'[s].trav) /\ db'[s].trav = db'[s].block
          /\ db'[s].tomb = db[s].tomb
          /\ \A c \in db'[s].block : c \in db[s].block \/ ~Tombstoned(db[s], c.id, Now)
      BY <2>2, PutKeeps
    <3>2. \A i \in gone[s] : Tombstoned(db'[s], i, Now)
      BY <2>b, <3>1 DEF Tombstoned
    <3> QED
      BY <2>2, <2>b, <3>1, <3>2
  <2>3. ASSUME NEW c \in db[s].block, db'[s] = EvictTxn(db[s], c, Now),
               gone'[s] = gone[s] \cup {c.id}
        PROVE  Goal
    <3>1. /\ Consistent(db'[s], Now) /\ IsFiniteSet(db'[s].trav) /\ db'[s].trav = db'[s].block
          /\ Tombstoned(db'[s], c.id, Now)
          /\ \A i \in ID : Tombstoned(db[s], i, Now) => Tombstoned(db'[s], i, Now)
          /\ db'[s].block = {b \in db[s].block : b.id # c.id}
      BY <2>3, EvictKeeps
    <3> QED
      BY <2>3, <2>a, <2>b, <3>1
  <2> QED
    BY <2>1, <2>2, <2>3, DbNext DEF StoreStep
<1>3. ASSUME NEW b \in first'[s] PROVE Holds(s, b.id, b.wf)'
  <2>1. b \in first[s] /\ b.wf \in WF
    BY <1>3, Histories, StoreTypes
  <2>2. Holds(s, b.id, b.wf)
    BY <2>1 DEF StoreInv
  <2> QED
    BY <2>1, <2>2, HoldsNext
<1> QED
  BY <1>2, <1>3

\* A filter stays honest.
LEMMA HonestNext ==
  ASSUME TypeOK, StoreInv, [Next]_vars, NEW s \in Side, NEW bits, Honest(s, bits)
  PROVE  Honest(s, bits)'
BY Histories, GoneGrows DEF Honest

\* The filter that runSend builds is honest.
LEMMA BuiltHonest ==
  ASSUME TypeOK, StoreInv, NEW s \in Side
  PROVE  Honest(s, BloomOf(db[s].trav))
<1>1. db[s].trav \in SUBSET Ref /\ db[s].trav = db[s].block
  BY StoreTypes DEF StoreInv
<1>2. ASSUME NEW b \in first[s], b.id \notin gone[s]
      PROVE  Bits(b.id, b.wf) \subseteq BloomOf(db[s].trav)
  <2>1. PICK c \in db[s].trav : c.id = b.id /\ c.wf >= b.wf
    BY <1>1, <1>2 DEF StoreInv, Holds, Has
  <2>2. b.wf \in Nat /\ c.wf \in Nat
    BY StoreTypes
  <2>3. Bits(b.id, b.wf) \subseteq Bits(c.id, c.wf)
    BY <2>1, <2>2, BitsMonotone
  <2> QED
    BY <2>3 DEF BloomOf
<1> QED
  BY <1>2 DEF Honest

\* A channel in a step: it takes the filter of a frame, or nothing.
LEMMA ChannelNext ==
  ASSUME TypeOK, [Next]_vars, NEW t \in Side
  PROVE  \/ channel'[t] \subseteq channel[t]
         \/ /\ wire[Other(t)] # <<>> /\ Head(wire[Other(t)]).type = "bloom"
            /\ channel'[t] = {Head(wire[Other(t)]).bits}
<1> DEFINE Goal ==
      \/ channel'[t] \subseteq channel[t]
      \/ /\ wire[Other(t)] # <<>> /\ Head(wire[Other(t)]).type = "bloom"
         /\ channel'[t] = {Head(wire[Other(t)]).bits}
<1>a. channel \in [Side -> SUBSET Filter]
  BY DEF TypeOK
<1>b. ASSUME channel' = channel PROVE Goal
  BY <1>b
<1>1. ASSUME NEW s \in Side, SendBloom(s) PROVE Goal
  BY <1>1, <1>b DEF SendBloom, link, chans, outer
<1>2. ASSUME NEW s \in Side, FilterFails(s) PROVE Goal
  BY <1>2, <1>b DEF FilterFails, link, chans, outer
<1>3. ASSUME NEW s \in Side, TakeBloom(s) PROVE Goal
  BY <1>3, <1>a DEF TakeBloom
<1>4. ASSUME NEW s \in Side, Cancelled(s) PROVE Goal
  BY <1>4, <1>b DEF Cancelled, link, chans, outer
<1>5. ASSUME NEW s \in Side, CancelDone(s) PROVE Goal
  BY <1>5, <1>b DEF CancelDone, link, chans, outer
<1>6. ASSUME NEW s \in Side, ListPage(s) PROVE Goal
  BY <1>6, <1>b DEF ListPage, link, chans, outer
<1>7. ASSUME NEW s \in Side, ListFails(s) PROVE Goal
  BY <1>7, <1>b DEF ListFails, link, chans, outer
<1>8. ASSUME NEW s \in Side, SendBlock(s) PROVE Goal
  BY <1>8, <1>b DEF SendBlock, link, chans, outer
<1>9. ASSUME NEW s \in Side, GetFails(s) PROVE Goal
  BY <1>9, <1>b DEF GetFails, link, chans, outer
<1>10. ASSUME NEW s \in Side, PageDone(s) PROVE Goal
  BY <1>10, <1>b DEF PageDone, link, chans, outer
<1>11. ASSUME NEW s \in Side, SendDone(s) PROVE Goal
  BY <1>11, <1>b DEF SendDone, link, chans, outer
<1>12. ASSUME NEW s \in Side, Recv(s) PROVE Goal
  <2>1. CASE channel' = channel
    BY <2>1
  <2>2. CASE channel' # channel
    <3>1. PICK f : /\ Read(s, f) /\ f.type = "bloom"
                   /\ channel' = [channel EXCEPT ![s] = {f.bits}]
      BY <1>12, <2>2 DEF Recv
    <3> QED BY <1>a, <3>1 DEF Read
  <2> QED BY <2>1, <2>2
<1>13. ASSUME NEW s \in Side, RecvFails(s) PROVE Goal
  BY <1>13, <1>b DEF RecvFails, link, sender, outer
<1>14. ASSUME NEW s \in Side, ReturnError(s) PROVE Goal
  BY <1>14, <1>b DEF ReturnError, chans, sender
<1>15. ASSUME NEW s \in Side, ExchangePeers(s) PROVE Goal
  BY <1>15, <1>b DEF ExchangePeers, link, chans, sender
<1>16. ASSUME NEW s \in Side, TellPeers(s) PROVE Goal
  BY <1>16, <1>b DEF TellPeers, link, chans, sender
<1>17. ASSUME NEW s \in Side, HearPeers(s) PROVE Goal
  BY <1>17, <1>b DEF HearPeers, link, chans, sender
<1>18. ASSUME NEW s \in Side, Return(s) PROVE Goal
  BY <1>18, <1>b DEF Return, chans, sender
<1>19. ASSUME NEW s \in Side, Close(s) PROVE Goal
  BY <1>19, <1>b DEF Close, link, chans, sender, outer
<1>20. ASSUME NEW s \in Side, NEW id \in work.puts, NEW wf \in WF,
              UserPut(s, id, wf)
       PROVE  Goal
  BY <1>20, <1>b DEF UserPut, link, chans, sender, outer
<1>21. ASSUME LinkBreaks PROVE Goal
  BY <1>21, <1>b DEF LinkBreaks, link, chans, sender, outer
<1>22. ASSUME UNCHANGED vars PROVE Goal
  BY <1>22, <1>b DEF link, chans, sender, outer, vars
<1>23. ASSUME NEW s \in Side, Evict(s) PROVE Goal
  BY <1>23, <1>b DEF Evict, link, chans, sender, outer
<1> QED
  BY <1>1, <1>2, <1>3, <1>4, <1>5, <1>6, <1>7, <1>8, <1>9, <1>10, <1>11, <1>12, <1>13,
     <1>14, <1>15, <1>16, <1>17, <1>18, <1>19, <1>20, <1>21, <1>22, <1>23
  DEF Next, Sender, Receiver, Main

\* The sender of t in a step: it works with the filter it had, or with one from
\* the channel.
LEMMA FilterTaken ==
  ASSUME TypeOK, [Next]_vars, NEW t \in Side, snd'[t] \in {"list", "page"}
  PROVE  \/ filter'[t] = filter[t] /\ snd[t] \in {"list", "page"}
         \/ filter'[t] \in channel[t]
<1> DEFINE Goal ==
      \/ filter'[t] = filter[t] /\ snd[t] \in {"list", "page"}
      \/ filter'[t] \in channel[t]
<1>a. snd \in [Side -> {"bloom", "wait", "cancel", "list", "page", "done", "end"}]
      /\ filter \in [Side -> Filter]
  BY DEF TypeOK
<1>b. ASSUME filter' = filter, snd' = snd PROVE Goal
  BY <1>b
<1>c. ASSUME NEW s \in Side, NEW v, filter' = filter, snd' = [snd EXCEPT ![s] = v],
             v \in {"list", "page"} => snd[s] \in {"list", "page"}
      PROVE  Goal
  BY <1>a, <1>c
<1>1. ASSUME NEW s \in Side, SendBloom(s) PROVE Goal
  BY <1>1, <1>c DEF SendBloom, SendFails, SendEnds, link, chans, outer
<1>2. ASSUME NEW s \in Side, FilterFails(s) PROVE Goal
  BY <1>2, <1>c DEF FilterFails, SendFails, SendEnds, link, chans, outer
<1>3. ASSUME NEW s \in Side, TakeBloom(s) PROVE Goal
  <2>1. CASE s = t
    <3>1. channel[s] # {} /\ filter' = [filter EXCEPT ![s] = UNION channel[s]]
      BY <1>3, <1>a, <2>1 DEF TakeBloom, SendEnds
    <3>2. PICK bits : channel[s] = {bits}
      <4>1. \A b, c \in channel[s] : b = c
        BY DEF TypeOK
      <4> QED BY <3>1, <4>1
    <3> QED BY <1>a, <2>1, <3>1, <3>2
  <2>2. CASE s # t
    <3>1. filter'[t] = filter[t] /\ snd'[t] = snd[t]
      BY <1>3, <1>a, <2>2 DEF TakeBloom, SendEnds
    <3> QED BY <3>1
  <2> QED BY <2>1, <2>2
<1>4. ASSUME NEW s \in Side, Cancelled(s) PROVE Goal
  BY <1>4, <1>c DEF Cancelled, link, chans, outer
<1>5. ASSUME NEW s \in Side, CancelDone(s) PROVE Goal
  BY <1>5, <1>c DEF CancelDone, SendFails, SendEnds, link, chans, outer
<1>6. ASSUME NEW s \in Side, ListPage(s) PROVE Goal
  BY <1>6, <1>c DEF ListPage, link, chans, outer
<1>7. ASSUME NEW s \in Side, ListFails(s) PROVE Goal
  BY <1>7, <1>c DEF ListFails, link, chans, outer
<1>8. ASSUME NEW s \in Side, SendBlock(s) PROVE Goal
  BY <1>8, <1>b, <1>c DEF SendBlock, SendFails, SendEnds, link, chans, outer
<1>9. ASSUME NEW s \in Side, GetFails(s) PROVE Goal
  BY <1>9, <1>b DEF GetFails, link, chans, outer
<1>10. ASSUME NEW s \in Side, PageDone(s) PROVE Goal
  BY <1>10, <1>c DEF PageDone, link, chans, outer
<1>11. ASSUME NEW s \in Side, SendDone(s) PROVE Goal
  BY <1>11, <1>c DEF SendDone, SendFails, SendEnds, link, chans, outer
<1>12. ASSUME NEW s \in Side, Recv(s) PROVE Goal
  BY <1>12, <1>b DEF Recv, sender, outer
<1>13. ASSUME NEW s \in Side, RecvFails(s) PROVE Goal
  BY <1>13, <1>b DEF RecvFails, link, sender, outer
<1>14. ASSUME NEW s \in Side, ReturnError(s) PROVE Goal
  BY <1>14, <1>b DEF ReturnError, chans, sender
<1>15. ASSUME NEW s \in Side, ExchangePeers(s) PROVE Goal
  BY <1>15, <1>b DEF ExchangePeers, link, chans, sender
<1>16. ASSUME NEW s \in Side, TellPeers(s) PROVE Goal
  BY <1>16, <1>b DEF TellPeers, link, chans, sender
<1>17. ASSUME NEW s \in Side, HearPeers(s) PROVE Goal
  BY <1>17, <1>b DEF HearPeers, link, chans, sender
<1>18. ASSUME NEW s \in Side, Return(s) PROVE Goal
  BY <1>18, <1>b DEF Return, chans, sender
<1>19. ASSUME NEW s \in Side, Close(s) PROVE Goal
  BY <1>19, <1>b DEF Close, link, chans, sender, outer
<1>20. ASSUME NEW s \in Side, NEW id \in work.puts, NEW wf \in WF,
              UserPut(s, id, wf)
       PROVE  Goal
  BY <1>20, <1>b DEF UserPut, link, chans, sender, outer
<1>21. ASSUME LinkBreaks PROVE Goal
  BY <1>21, <1>b DEF LinkBreaks, link, chans, sender, outer
<1>22. ASSUME UNCHANGED vars PROVE Goal
  BY <1>22, <1>b DEF link, chans, sender, outer, vars
<1>23. ASSUME NEW s \in Side, Evict(s) PROVE Goal
  BY <1>23, <1>b DEF Evict, link, chans, sender, outer
<1> QED
  BY <1>1, <1>2, <1>3, <1>4, <1>5, <1>6, <1>7, <1>8, <1>9, <1>10, <1>11, <1>12, <1>13,
     <1>14, <1>15, <1>16, <1>17, <1>18, <1>19, <1>20, <1>21, <1>22, <1>23
  DEF Next, Sender, Receiver, Main

\* A frame of a queue was there before the step, or has just been written.
LEMMA QueueFrames ==
  ASSUME TypeOK, [Next]_vars, NEW t \in Side, NEW i \in 1..Len(wire'[t])
  PROVE  /\ wire'[t][i] \in Frame
         /\ \/ \E j \in 1..Len(wire[t]) : wire'[t][i] = wire[t][j]
            \/ Written(t, wire'[t][i])
<1>1. wire[t] \in Seq(Frame) /\ wire'[t] \in Seq(Frame) /\ Len(wire[t]) \in Nat
  BY WireNext, LenProperties DEF TypeOK
<1>2. wire'[t][i] \in Frame
  BY <1>1, ElementOfSeq
<1>3. CASE wire'[t] = wire[t]
  BY <1>2, <1>3
<1>4. CASE wire'[t] = <<>>
  BY <1>4
<1>5. ASSUME NEW f \in Frame, wire'[t] = Append(wire[t], f), Written(t, f)
      PROVE  \/ \E j \in 1..Len(wire[t]) : wire'[t][i] = wire[t][j]
             \/ Written(t, wire'[t][i])
  <2>1. /\ Len(wire'[t]) = Len(wire[t]) + 1
        /\ \A j \in 1..Len(wire[t]) : wire'[t][j] = wire[t][j]
        /\ wire'[t][Len(wire[t]) + 1] = f
    BY <1>1, <1>5, AppendProperties
  <2>2. i \in 1..Len(wire[t]) \/ i = Len(wire[t]) + 1
    BY <1>1, <2>1
  <2> QED
    BY <1>5, <2>1, <2>2
<1>6. CASE wire[t] # <<>> /\ wire'[t] = Tail(wire[t])
  <2>1. /\ Len(wire'[t]) = Len(wire[t]) - 1
        /\ \A j \in 1..Len(wire'[t]) : wire'[t][j] = wire[t][j + 1]
    BY <1>1, <1>6, HeadTailProperties
  <2>2. i + 1 \in 1..Len(wire[t])
    BY <1>1, <2>1
  <2> QED
    BY <1>2, <2>1, <2>2
<1> QED
  BY <1>2, <1>3, <1>4, <1>5, <1>6, WireNext DEF QueueStep

\* Filters stay honest wherever they are.
LEMMA FilterNext ==
  ASSUME TypeOK, StoreInv, FilterInv, [Next]_vars
  PROVE  FilterInv'
<1>1. SUFFICES ASSUME NEW s \in Side, NEW bits \in Filter, Underway(s, bits)'
               PROVE  Honest(s, bits)
  BY HonestNext DEF FilterInv
<1>2. Other(s) \in Side /\ Other(Other(s)) = s
  BY OtherSide
<1>3. ASSUME NEW i \in 1..Len(wire'[s]), wire'[s][i].type = "bloom", wire'[s][i].bits = bits
      PROVE  Honest(s, bits)
  <2>1. CASE \E j \in 1..Len(wire[s]) : wire'[s][i] = wire[s][j]
    BY <1>3, <2>1 DEF FilterInv, Underway
  <2>2. CASE Written(s, wire'[s][i])
    BY <1>3, <2>2, BuiltHonest DEF Written
  <2> QED
    BY <2>1, <2>2, QueueFrames
<1>4. ASSUME bits \in channel'[Other(s)] PROVE Honest(s, bits)
  <2>1. CASE channel'[Other(s)] \subseteq channel[Other(s)]
    BY <1>4, <2>1 DEF FilterInv, Underway
  <2>2. CASE /\ wire[s] # <<>> /\ Head(wire[s]).type = "bloom"
             /\ channel'[Other(s)] = {Head(wire[s]).bits}
    <3>1. wire[s] \in Seq(Frame)
      BY DEF TypeOK
    <3>2. 1 \in 1..Len(wire[s]) /\ wire[s][1] = Head(wire[s])
      BY <2>2, <3>1, LenProperties, EmptySeq
    <3> QED
      BY <1>4, <2>2, <3>2 DEF FilterInv, Underway
  <2> QED
    BY <1>2, <2>1, <2>2, ChannelNext
<1>5. ASSUME snd'[Other(s)] \in {"list", "page"}, bits = filter'[Other(s)]
      PROVE  Honest(s, bits)
  BY <1>2, <1>5, FilterTaken DEF FilterInv, Underway
<1> QED
  BY <1>1, <1>3, <1>4, <1>5 DEF Underway

\* A page in a step: it loses references, or is listed.
LEMMA PageStep ==
  ASSUME TypeOK, StoreInv, [Next]_vars, NEW t \in Side
  PROVE  page'[t] \subseteq page[t] \/ page'[t] \subseteq db[t].trav
<1> DEFINE Goal == page'[t] \subseteq page[t] \/ page'[t] \subseteq db[t].trav
<1>a. page \in [Side -> SUBSET Ref]
  BY DEF TypeOK
<1>b. ASSUME page' = page PROVE Goal
  BY <1>b
<1>1. ASSUME NEW s \in Side, SendBloom(s) PROVE Goal
  BY <1>1, <1>b DEF SendBloom, link, chans, outer
<1>2. ASSUME NEW s \in Side, FilterFails(s) PROVE Goal
  BY <1>2, <1>b DEF FilterFails, link, chans, outer
<1>3. ASSUME NEW s \in Side, TakeBloom(s) PROVE Goal
  BY <1>3, <1>b DEF TakeBloom, link, outer
<1>4. ASSUME NEW s \in Side, Cancelled(s) PROVE Goal
  BY <1>4, <1>b DEF Cancelled, link, chans, outer
<1>5. ASSUME NEW s \in Side, CancelDone(s) PROVE Goal
  BY <1>5, <1>b DEF CancelDone, link, chans, outer
<1>6. ASSUME NEW s \in Side, ListPage(s) PROVE Goal
  <2> DEFINE refs == Page(db[s], cursor[s], PageSize, 0, 0)
  <2>1. refs \subseteq db[s].trav
    BY ListParts
  <2>2. page' = page \/ page' = [page EXCEPT ![s] = refs]
    BY <1>6 DEF ListPage
  <2> HIDE DEF refs
  <2> QED BY <1>a, <2>1, <2>2
<1>7. ASSUME NEW s \in Side, ListFails(s) PROVE Goal
  BY <1>7, <1>b DEF ListFails, link, chans, outer
<1>8. ASSUME NEW s \in Side, SendBlock(s) PROVE Goal
  BY <1>8, <1>a DEF SendBlock
<1>9. ASSUME NEW s \in Side, GetFails(s) PROVE Goal
  BY <1>9, <1>a DEF GetFails
<1>10. ASSUME NEW s \in Side, PageDone(s) PROVE Goal
  BY <1>10, <1>b DEF PageDone, link, chans, outer
<1>11. ASSUME NEW s \in Side, SendDone(s) PROVE Goal
  BY <1>11, <1>b DEF SendDone, link, chans, outer
<1>12. ASSUME NEW s \in Side, Recv(s) PROVE Goal
  BY <1>12, <1>b DEF Recv, sender, outer
<1>13. ASSUME NEW s \in Side, RecvFails(s) PROVE Goal
  BY <1>13, <1>b DEF RecvFails, link, sender, outer
<1>14. ASSUME NEW s \in Side, ReturnError(s) PROVE Goal
  BY <1>14, <1>b DEF ReturnError, chans, sender
<1>15. ASSUME NEW s \in Side, ExchangePeers(s) PROVE Goal
  BY <1>15, <1>b DEF ExchangePeers, link, chans, sender
<1>16. ASSUME NEW s \in Side, TellPeers(s) PROVE Goal
  BY <1>16, <1>b DEF TellPeers, link, chans, sender
<1>17. ASSUME NEW s \in Side, HearPeers(s) PROVE Goal
  BY <1>17, <1>b DEF HearPeers, link, chans, sender
<1>18. ASSUME NEW s \in Side, Return(s) PROVE Goal
  BY <1>18, <1>b DEF Return, chans, sender
<1>19. ASSUME NEW s \in Side, Close(s) PROVE Goal
  BY <1>19, <1>b DEF Close, link, chans, sender, outer
<1>20. ASSUME NEW s \in Side, NEW id \in work.puts, NEW wf \in WF,
              UserPut(s, id, wf)
       PROVE  Goal
  BY <1>20, <1>b DEF UserPut, link, chans, sender, outer
<1>21. ASSUME LinkBreaks PROVE Goal
  BY <1>21, <1>b DEF LinkBreaks, link, chans, sender, outer
<1>22. ASSUME UNCHANGED vars PROVE Goal
  BY <1>22, <1>b DEF link, chans, sender, outer, vars
<1>23. ASSUME NEW s \in Side, Evict(s) PROVE Goal
  BY <1>23, <1>b DEF Evict, link, chans, sender, outer
<1> QED
  BY <1>1, <1>2, <1>3, <1>4, <1>5, <1>6, <1>7, <1>8, <1>9, <1>10, <1>11, <1>12, <1>13,
     <1>14, <1>15, <1>16, <1>17, <1>18, <1>19, <1>20, <1>21, <1>22, <1>23
  DEF Next, Sender, Receiver, Main

\* What is on a page stays in the store, or is evicted.
LEMMA PageNext ==
  ASSUME TypeOK, StoreInv, PageInv, [Next]_vars, TypeOK'
  PROVE  PageInv'
<1>1. SUFFICES ASSUME NEW s \in Side, NEW e \in page'[s]
               PROVE  Holds(s, e.id, e.wf)'
  BY DEF PageInv, Holds, Has
<1>2. e.wf \in WF /\ e.wf \in Nat
  <2>1. page'[s] \subseteq Ref
    BY DEF TypeOK
  <2> QED
    BY <2>1, TTLAssumption DEF Ref, WF
<1>3. Holds(s, e.id, e.wf)
  <2>1. CASE e \in page[s]
    BY <2>1 DEF PageInv
  <2>2. CASE e \in db[s].trav
    BY <1>2, <2>2 DEF StoreInv, Holds, Has
  <2> QED
    BY <2>1, <2>2, PageStep
<1> DEFINE i == e.id
           w == e.wf
<1> HIDE DEF i, w
<1>4. Holds(s, i, w)'
  BY <1>2, <1>3, HoldsNext DEF i, w
<1> QED
  BY <1>4 DEF i, w, Holds, Has

\* No block is sent that the other end has held from the start.
LEMMA MissingNext ==
  ASSUME TypeOK, StoreInv, FilterInv, PageInv, OnlyMissingSent, [Next]_vars
  PROVE  OnlyMissingSent'
<1>1. first' = first
  BY Histories
<1>2. SUFFICES ASSUME NEW s \in Side, NEW i \in 1..Len(wire'[s]),
                      wire'[s][i].type = "block",
                      NEW b \in first[Other(s)],
                      b.id = wire'[s][i].id, b.wf >= wire'[s][i].wf,
                      wire'[s][i].id \notin gone'[Other(s)]
               PROVE  FALSE
  BY <1>1 DEF OnlyMissingSent
<1>a. Other(s) \in Side /\ Other(Other(s)) = s /\ wire'[s][i].id \notin gone[Other(s)]
  BY <1>2, OtherSide, GoneGrows
<1>3. CASE \E j \in 1..Len(wire[s]) : wire'[s][i] = wire[s][j]
  BY <1>2, <1>a, <1>3 DEF OnlyMissingSent
<1>4. CASE Written(s, wire'[s][i])
  <2>1. PICK e \in page[s], c \in db[s].block :
          /\ ~BloomHas(filter[s], e.id, e.wf) /\ wire'[s][i].id = e.id
          /\ c.id = e.id /\ wire'[s][i].wf = c.wf /\ snd[s] = "page"
    BY <1>2, <1>4 DEF Written
  <2>2. PICK d \in db[s].block : d.id = e.id /\ d.wf >= e.wf
    BY <2>1 DEF PageInv, StoreInv, Holds, Has
  <2>3. c = d
    BY <2>1, <2>2 DEF StoreInv, Consistent
  <2>4. Other(s) \in Side /\ Other(Other(s)) = s
    BY <1>a
  <2>5. Honest(Other(s), filter[s])
    <3>1. filter[s] \in Filter
      BY DEF TypeOK
    <3> QED BY <2>1, <2>4, <3>1 DEF FilterInv, Underway
  <2>6. b.wf \in Nat /\ c.wf \in Nat /\ e.wf \in Nat
    <3>1. page[s] \subseteq Ref
      BY DEF TypeOK
    <3> QED BY <2>4, <3>1, StoreTypes
  <2>7. e.wf <= b.wf
    BY <1>2, <2>1, <2>2, <2>3, <2>6
  <2>8. Bits(b.id, b.wf) \subseteq filter[s]
    BY <1>2, <1>a, <2>5 DEF Honest
  <2>9. BloomHas(BloomOf({b}), b.id, e.wf)
    BY <2>6, <2>7, NeverFalseNegative
  <2>10. BloomOf({b}) = Bits(b.id, b.wf)
    BY DEF BloomOf
  <2> QED
    BY <1>2, <2>1, <2>8, <2>9, <2>10 DEF BloomHas
<1> QED
  BY <1>3, <1>4, QueueFrames
-----------------------------------------------------------------------------
(* The first invariant.                                                    *)

\* A session begins with consistent stores, and nothing sent.
LEMMA SessionInit ==
  ASSUME Init
  PROVE  SessionInv
<1>1. \A s \in Side : /\ db[s] \in Holdings /\ db[s] \in DB /\ db[s].trav = db[s].block
                      /\ IsFiniteSet(db[s].block) /\ db[s].block \subseteq Ref
                      /\ \A b, c \in db[s].block : b.id = c.id => b = c
                      /\ \A b \in db[s].block : /\ b.createdAt <= Now /\ b.wf \in Nat
                                                /\ ~Tombstoned(db[s], b.id, Now)
  BY SessionAssumption, TTLAssumption DEF Init, DB, Ref, WF
<1>2. \A s \in Side : first[s] = db[s].block /\ gone[s] = {}
  BY DEF Init
<1>a. \A s \in Side : /\ wire[s] = <<>> /\ channel[s] = {} /\ page[s] = {}
                      /\ snd[s] = "bloom" /\ rcv[s] = "read" /\ cursor[s] = NoCursor
  BY DEF Init
<1>3. TypeOK
  <2>1. db \in [Side -> DB] /\ first \in [Side -> SUBSET Ref]
    BY <1>1, SessionAssumption DEF Init
  <2>2. wire \in [Side -> Seq(Frame)] /\ \A s \in Side : Len(wire[s]) <= Cap
    BY EmptySeq, SessionAssumption DEF Init
  <2>3. channel \in [Side -> SUBSET Filter] /\ filter \in [Side -> Filter]
    <3>1. {} \in Filter
      BY DEF Filter
    <3> QED BY <3>1 DEF Init
  <2>4. cursor \in [Side -> [createdAt : Nat, id : Nat]]
    BY DEF Init, NoCursor
  <2>5. gone \in [Side -> SUBSET ID] /\ lost \in [Side -> SUBSET ID]
    BY DEF Init
  <2> QED
    BY <1>a, <2>1, <2>2, <2>3, <2>4, <2>5 DEF TypeOK, Init
<1>4. PhaseInv
  BY <1>a DEF PhaseInv, Init
<1>5. StoreInv
  <2> SUFFICES ASSUME NEW s \in Side
               PROVE  /\ Consistent(db[s], Now) /\ IsFiniteSet(db[s].trav)
                      /\ db[s].trav = db[s].block
                      /\ \A i \in gone[s] : /\ Tombstoned(db[s], i, Now)
                                            /\ \A b \in db[s].block : b.id # i
                      /\ \A b \in first[s] : Holds(s, b.id, b.wf)
    BY DEF StoreInv
  <2>1. Consistent(db[s], Now) /\ IsFiniteSet(db[s].trav)
    BY <1>1 DEF Consistent, Tombstoned, Now
  <2>2. ASSUME NEW b \in first[s] PROVE Holds(s, b.id, b.wf)
    <3>1. b \in db[s].block /\ b.wf \in Nat
      BY <1>1, <1>2
    <3> QED BY <3>1 DEF Holds, Has
  <2> QED
    BY <1>1, <1>2, <2>1, <2>2
<1>6. FilterInv
  BY <1>a, OtherSide DEF FilterInv, Underway
<1>7. PageInv /\ OnlyMissingSent
  BY <1>a DEF PageInv, OnlyMissingSent
<1> QED
  BY <1>3, <1>4, <1>5, <1>6, <1>7 DEF SessionInv

\* Although both ends put, receive and evict: the index of a store is its set of
\* blocks, what an end held at the start leaves its store only by an eviction and
\* does not come back, every filter on its way shows what its end held at the
\* start but for what it has evicted, and so of what a sender has listed.
THEOREM SessionInvariant == Spec => []SessionInv
<1>1. ASSUME SessionInv, [Next]_vars PROVE SessionInv'
  BY <1>1, TypeNext, PhaseNext, StoreNext, FilterNext, PageNext, MissingNext DEF SessionInv
<1> QED
  BY <1>1, SessionInit, PTL DEF Spec

\* Stores, queues, channels and the state of the goroutines have their types: the
\* link holds no more frames than it takes, a channel holds one filter at most
\* and is not closed once a filter has gone through it.
THEOREM TypeCorrect == Spec => []TypeOK
<1>1. SessionInv => TypeOK
  BY DEF SessionInv
<1> QED
  BY <1>1, SessionInvariant, PTL

\* Whatever the hash function of the filter, and whatever is put, boosted and
\* received on the way: runSend sends no block that the other end has held since
\* before the session with as much work and has not evicted.
THEOREM NothingSentBack == Spec => []OnlyMissingSent
<1>1. SessionInv => OnlyMissingSent
  BY DEF SessionInv
<1> QED
  BY <1>1, SessionInvariant, PTL

-----------------------------------------------------------------------------
(* What a session delivers.                                                *)

\* A link that is up was up, and a sender that has ended has ended for good.
LEMMA EndsNext ==
  ASSUME TypeOK, [Next]_vars, NEW t \in Side
  PROVE  (open' => open) /\ (snd[t] = "end" => snd'[t] = "end")
<1> DEFINE Goal == (open' => open) /\ (snd[t] = "end" => snd'[t] = "end")
<1>a. snd \in [Side -> {"bloom", "wait", "cancel", "list", "page", "done", "end"}]
  BY DEF TypeOK
<1>1. ASSUME NEW s \in Side, SendBloom(s) PROVE Goal
  BY <1>1, <1>a DEF SendBloom, Write, SendFails, SendEnds, link, chans, outer
<1>2. ASSUME NEW s \in Side, FilterFails(s) PROVE Goal
  BY <1>2, <1>a DEF FilterFails, SendFails, SendEnds, link, chans, outer
<1>3. ASSUME NEW s \in Side, TakeBloom(s) PROVE Goal
  BY <1>3, <1>a DEF TakeBloom, SendEnds, link, outer
<1>4. ASSUME NEW s \in Side, Cancelled(s) PROVE Goal
  BY <1>4, <1>a DEF Cancelled, link, chans, outer
<1>5. ASSUME NEW s \in Side, CancelDone(s) PROVE Goal
  BY <1>5, <1>a DEF CancelDone, Write, SendFails, SendEnds, link, chans, outer
<1>6. ASSUME NEW s \in Side, ListPage(s) PROVE Goal
  BY <1>6, <1>a DEF ListPage, link, chans, outer
<1>7. ASSUME NEW s \in Side, ListFails(s) PROVE Goal
  BY <1>7, <1>a DEF ListFails, link, chans, outer
<1>8. ASSUME NEW s \in Side, SendBlock(s) PROVE Goal
  <2>1. open' = open /\ (snd' = snd \/ snd' = [snd EXCEPT ![s] = "end"])
    BY <1>8 DEF SendBlock, Write, SendFails, SendEnds, link
  <2> QED BY <1>a, <2>1
<1>9. ASSUME NEW s \in Side, GetFails(s) PROVE Goal
  BY <1>9, <1>a DEF GetFails, link, chans, outer
<1>10. ASSUME NEW s \in Side, PageDone(s) PROVE Goal
  BY <1>10, <1>a DEF PageDone, link, chans, outer
<1>11. ASSUME NEW s \in Side, SendDone(s) PROVE Goal
  BY <1>11, <1>a DEF SendDone, Write, SendFails, SendEnds, link, chans, outer
<1>12. ASSUME NEW s \in Side, Recv(s) PROVE Goal
  BY <1>12, <1>a DEF Recv, Read, sender, outer
<1>13. ASSUME NEW s \in Side, RecvFails(s) PROVE Goal
  BY <1>13, <1>a DEF RecvFails, link, sender, outer
<1>14. ASSUME NEW s \in Side, ReturnError(s) PROVE Goal
  BY <1>14, <1>a DEF ReturnError, chans, sender
<1>15. ASSUME NEW s \in Side, ExchangePeers(s) PROVE Goal
  BY <1>15, <1>a DEF ExchangePeers, link, chans, sender
<1>16. ASSUME NEW s \in Side, TellPeers(s) PROVE Goal
  BY <1>16, <1>a DEF TellPeers, Write, link, chans, sender
<1>17. ASSUME NEW s \in Side, HearPeers(s) PROVE Goal
  BY <1>17, <1>a DEF HearPeers, Read, link, chans, sender
<1>18. ASSUME NEW s \in Side, Return(s) PROVE Goal
  BY <1>18, <1>a DEF Return, chans, sender
<1>19. ASSUME NEW s \in Side, Close(s) PROVE Goal
  BY <1>19, <1>a DEF Close, link, chans, sender, outer
<1>20. ASSUME NEW s \in Side, NEW id \in work.puts, NEW wf \in WF,
              UserPut(s, id, wf)
       PROVE  Goal
  BY <1>20, <1>a DEF UserPut, link, chans, sender, outer
<1>21. ASSUME LinkBreaks PROVE Goal
  BY <1>21, <1>a DEF LinkBreaks, link, chans, sender, outer
<1>22. ASSUME UNCHANGED vars PROVE Goal
  BY <1>22, <1>a DEF link, chans, sender, outer, vars
<1>23. ASSUME NEW s \in Side, Evict(s) PROVE Goal
  BY <1>23, <1>a DEF Evict, link, chans, sender, outer
<1> QED
  BY <1>1, <1>2, <1>3, <1>4, <1>5, <1>6, <1>7, <1>8, <1>9, <1>10, <1>11, <1>12, <1>13,
     <1>14, <1>15, <1>16, <1>17, <1>18, <1>19, <1>20, <1>21, <1>22, <1>23
  DEF Next, Sender, Receiver, Main

\* The sender of t moves only by an action of its own.
LEMMA SenderStep ==
  ASSUME TypeOK, [Next]_vars, NEW t \in Side
  PROVE  \/ Sender(t)
         \/ snd'[t] = snd[t] /\ page'[t] = page[t] /\ cursor'[t] = cursor[t]
<1> DEFINE Goal == \/ Sender(t)
                   \/ snd'[t] = snd[t] /\ page'[t] = page[t] /\ cursor'[t] = cursor[t]
<1>a. /\ snd \in [Side -> {"bloom", "wait", "cancel", "list", "page", "done", "end"}]
      /\ page \in [Side -> SUBSET Ref] /\ cursor \in [Side -> [createdAt : Nat, id : Nat]]
  BY DEF TypeOK
<1>b. ASSUME snd' = snd, page' = page, cursor' = cursor PROVE Goal
  BY <1>b
<1>c. ASSUME NEW s \in Side, s # t, NEW v, NEW p, NEW c,
             snd' = snd \/ snd' = [snd EXCEPT ![s] = v],
             page' = page \/ page' = [page EXCEPT ![s] = p],
             cursor' = cursor \/ cursor' = [cursor EXCEPT ![s] = c]
      PROVE  Goal
  BY <1>a, <1>c
<1>1. ASSUME NEW s \in Side, SendBloom(s) PROVE Goal
  <2>1. CASE s = t
    BY <1>1, <2>1 DEF Sender
  <2>2. CASE s # t
    BY <1>1, <2>2, <1>c DEF SendBloom, SendFails, SendEnds
  <2> QED BY <2>1, <2>2
<1>2. ASSUME NEW s \in Side, FilterFails(s) PROVE Goal
  <2>1. CASE s = t
    BY <1>2, <2>1 DEF Sender
  <2>2. CASE s # t
    BY <1>2, <2>2, <1>c DEF FilterFails, SendFails, SendEnds
  <2> QED BY <2>1, <2>2
<1>3. ASSUME NEW s \in Side, TakeBloom(s) PROVE Goal
  <2>1. CASE s = t
    BY <1>3, <2>1 DEF Sender
  <2>2. CASE s # t
    BY <1>3, <2>2, <1>c DEF TakeBloom, SendEnds
  <2> QED BY <2>1, <2>2
<1>4. ASSUME NEW s \in Side, Cancelled(s) PROVE Goal
  <2>1. CASE s = t
    BY <1>4, <2>1 DEF Sender
  <2>2. CASE s # t
    BY <1>4, <2>2, <1>c DEF Cancelled
  <2> QED BY <2>1, <2>2
<1>5. ASSUME NEW s \in Side, CancelDone(s) PROVE Goal
  <2>1. CASE s = t
    BY <1>5, <2>1 DEF Sender
  <2>2. CASE s # t
    BY <1>5, <2>2, <1>c DEF CancelDone, SendFails, SendEnds
  <2> QED BY <2>1, <2>2
<1>6. ASSUME NEW s \in Side, ListPage(s) PROVE Goal
  <2>1. CASE s = t
    BY <1>6, <2>1 DEF Sender
  <2>2. CASE s # t
    BY <1>6, <2>2, <1>c DEF ListPage
  <2> QED BY <2>1, <2>2
<1>7. ASSUME NEW s \in Side, ListFails(s) PROVE Goal
  <2>1. CASE s = t
    BY <1>7, <2>1 DEF Sender
  <2>2. CASE s # t
    BY <1>7, <2>2, <1>c DEF ListFails
  <2> QED BY <2>1, <2>2
<1>8. ASSUME NEW s \in Side, SendBlock(s) PROVE Goal
  <2>1. CASE s = t
    BY <1>8, <2>1 DEF Sender
  <2>2. CASE s # t
    BY <1>8, <2>2, <1>c DEF SendBlock, SendFails, SendEnds
  <2> QED BY <2>1, <2>2
<1>9. ASSUME NEW s \in Side, GetFails(s) PROVE Goal
  <2>1. CASE s = t
    BY <1>9, <2>1 DEF Sender
  <2>2. CASE s # t
    BY <1>9, <2>2, <1>c DEF GetFails
  <2> QED BY <2>1, <2>2
<1>10. ASSUME NEW s \in Side, PageDone(s) PROVE Goal
  <2>1. CASE s = t
    BY <1>10, <2>1 DEF Sender
  <2>2. CASE s # t
    BY <1>10, <2>2, <1>c DEF PageDone
  <2> QED BY <2>1, <2>2
<1>11. ASSUME NEW s \in Side, SendDone(s) PROVE Goal
  <2>1. CASE s = t
    BY <1>11, <2>1 DEF Sender
  <2>2. CASE s # t
    BY <1>11, <2>2, <1>c DEF SendDone, SendFails, SendEnds
  <2> QED BY <2>1, <2>2
<1>12. ASSUME NEW s \in Side, Recv(s) PROVE Goal
  BY <1>12, <1>b DEF Recv, sender, outer
<1>13. ASSUME NEW s \in Side, RecvFails(s) PROVE Goal
  BY <1>13, <1>b DEF RecvFails, link, sender, outer
<1>14. ASSUME NEW s \in Side, ReturnError(s) PROVE Goal
  BY <1>14, <1>b DEF ReturnError, chans, sender
<1>15. ASSUME NEW s \in Side, ExchangePeers(s) PROVE Goal
  BY <1>15, <1>b DEF ExchangePeers, link, chans, sender
<1>16. ASSUME NEW s \in Side, TellPeers(s) PROVE Goal
  BY <1>16, <1>b DEF TellPeers, link, chans, sender
<1>17. ASSUME NEW s \in Side, HearPeers(s) PROVE Goal
  BY <1>17, <1>b DEF HearPeers, link, chans, sender
<1>18. ASSUME NEW s \in Side, Return(s) PROVE Goal
  BY <1>18, <1>b DEF Return, chans, sender
<1>19. ASSUME NEW s \in Side, Close(s) PROVE Goal
  BY <1>19, <1>b DEF Close, link, chans, sender, outer
<1>20. ASSUME NEW s \in Side, NEW id \in work.puts, NEW wf \in WF,
              UserPut(s, id, wf)
       PROVE  Goal
  BY <1>20, <1>b DEF UserPut, link, chans, sender, outer
<1>21. ASSUME LinkBreaks PROVE Goal
  BY <1>21, <1>b DEF LinkBreaks, link, chans, sender, outer
<1>22. ASSUME UNCHANGED vars PROVE Goal
  BY <1>22, <1>b DEF link, chans, sender, outer, vars
<1>23. ASSUME NEW s \in Side, Evict(s) PROVE Goal
  BY <1>23, <1>b DEF Evict, link, chans, sender, outer
<1> QED
  BY <1>1, <1>2, <1>3, <1>4, <1>5, <1>6, <1>7, <1>8, <1>9, <1>10, <1>11, <1>12, <1>13,
     <1>14, <1>15, <1>16, <1>17, <1>18, <1>19, <1>20, <1>21, <1>22, <1>23
  DEF Next, Sender, Receiver, Main

\* A receiver ends with an error, or with DONE.
LEMMA ReceiverStep ==
  ASSUME TypeOK, [Next]_vars, NEW t \in Side, rcv'[t] = "end", rcv[t] # "end"
  PROVE  \/ t \in failed'
         \/ wire[Other(t)] # <<>> /\ Head(wire[Other(t)]).type = "done"
<1> DEFINE Goal == \/ t \in failed'
                   \/ wire[Other(t)] # <<>> /\ Head(wire[Other(t)]).type = "done"
<1>a. rcv \in [Side -> {"read", "end"}]
  BY DEF TypeOK
<1>b. ASSUME rcv' = rcv PROVE Goal
  BY <1>b
<1>1. ASSUME NEW s \in Side, SendBloom(s) PROVE Goal
  BY <1>1, <1>b DEF SendBloom, link, chans, outer
<1>2. ASSUME NEW s \in Side, FilterFails(s) PROVE Goal
  BY <1>2, <1>b DEF FilterFails, link, chans, outer
<1>3. ASSUME NEW s \in Side, TakeBloom(s) PROVE Goal
  BY <1>3, <1>b DEF TakeBloom, link, outer
<1>4. ASSUME NEW s \in Side, Cancelled(s) PROVE Goal
  BY <1>4, <1>b DEF Cancelled, link, chans, outer
<1>5. ASSUME NEW s \in Side, CancelDone(s) PROVE Goal
  BY <1>5, <1>b DEF CancelDone, link, chans, outer
<1>6. ASSUME NEW s \in Side, ListPage(s) PROVE Goal
  BY <1>6, <1>b DEF ListPage, link, chans, outer
<1>7. ASSUME NEW s \in Side, ListFails(s) PROVE Goal
  BY <1>7, <1>b DEF ListFails, link, chans, outer
<1>8. ASSUME NEW s \in Side, SendBlock(s) PROVE Goal
  BY <1>8, <1>b DEF SendBlock, link, chans, outer
<1>9. ASSUME NEW s \in Side, GetFails(s) PROVE Goal
  BY <1>9, <1>b DEF GetFails, link, chans, outer
<1>10. ASSUME NEW s \in Side, PageDone(s) PROVE Goal
  BY <1>10, <1>b DEF PageDone, link, chans, outer
<1>11. ASSUME NEW s \in Side, SendDone(s) PROVE Goal
  BY <1>11, <1>b DEF SendDone, link, chans, outer
<1>12. ASSUME NEW s \in Side, Recv(s) PROVE Goal
  <2>1. CASE rcv' = rcv
    BY <2>1
  <2>2. CASE rcv' # rcv
    <3>1. PICK f : Read(s, f) /\ f.type = "done" /\ rcv' = [rcv EXCEPT ![s] = "end"]
      BY <1>12, <2>2 DEF Recv
    <3> QED BY <1>a, <3>1 DEF Read
  <2> QED BY <2>1, <2>2
<1>13. ASSUME NEW s \in Side, RecvFails(s) PROVE Goal
  BY <1>13, <1>a DEF RecvFails
<1>14. ASSUME NEW s \in Side, ReturnError(s) PROVE Goal
  BY <1>14, <1>b DEF ReturnError, chans, sender
<1>15. ASSUME NEW s \in Side, ExchangePeers(s) PROVE Goal
  BY <1>15, <1>b DEF ExchangePeers, link, chans, sender
<1>16. ASSUME NEW s \in Side, TellPeers(s) PROVE Goal
  BY <1>16, <1>b DEF TellPeers, link, chans, sender
<1>17. ASSUME NEW s \in Side, HearPeers(s) PROVE Goal
  BY <1>17, <1>b DEF HearPeers, link, chans, sender
<1>18. ASSUME NEW s \in Side, Return(s) PROVE Goal
  BY <1>18, <1>b DEF Return, chans, sender
<1>19. ASSUME NEW s \in Side, Close(s) PROVE Goal
  BY <1>19, <1>b DEF Close, link, chans, sender, outer
<1>20. ASSUME NEW s \in Side, NEW id \in work.puts, NEW wf \in WF,
              UserPut(s, id, wf)
       PROVE  Goal
  BY <1>20, <1>b DEF UserPut, link, chans, sender, outer
<1>21. ASSUME LinkBreaks PROVE Goal
  BY <1>21, <1>b DEF LinkBreaks, link, chans, sender, outer
<1>22. ASSUME UNCHANGED vars PROVE Goal
  BY <1>22, <1>b DEF link, chans, sender, outer, vars
<1>23. ASSUME NEW s \in Side, Evict(s) PROVE Goal
  BY <1>23, <1>b DEF Evict, link, chans, sender, outer
<1> QED
  BY <1>1, <1>2, <1>3, <1>4, <1>5, <1>6, <1>7, <1>8, <1>9, <1>10, <1>11, <1>12, <1>13,
     <1>14, <1>15, <1>16, <1>17, <1>18, <1>19, <1>20, <1>21, <1>22, <1>23
  DEF Next, Sender, Receiver, Main

\* A block that was held at the start has an id and a work factor.
LEMMA FirstTypes ==
  ASSUME TypeOK, NEW s \in Side, NEW b \in first[s]
  PROVE  b.id \in ID /\ b.wf \in WF /\ b.wf \in Nat
BY StoreTypes

\* What has arrived stays so.
LEMMA ArrivedNext ==
  ASSUME TypeOK, StoreInv, [Next]_vars, NEW s \in Side, NEW i, NEW w \in WF, Arrived(s, i, w)
  PROVE  Arrived(s, i, w)'
<1>1. gone[Other(s)] \subseteq gone'[Other(s)] /\ lost[s] \subseteq lost'[s]
  BY OtherSide, GoneGrows
<1> QED
  BY <1>1, HoldsNext DEF Arrived

\* A block frame that the other end reads is held there, or it is on record that
\* it is not.
LEMMA TakenHeld ==
  ASSUME TypeOK, [Next]_vars, NEW s \in Side,
         NEW f \in Frame, Taken(s, f), NEW i, NEW w \in WF, Carries(f, i, w)
  PROVE  Arrived(s, i, w)'
<1>1. f.type = "block" /\ f.id = i /\ f.wf >= w /\ f.wf \in WF
  BY FrameKinds DEF Carries
<1>2. CASE f.id \in lost'[s]
  BY <1>1, <1>2 DEF Arrived
<1>3. CASE Has(s, f.id, f.wf)'
  <2>1. PICK c \in db'[s].block : c.id = f.id /\ c.wf >= f.wf
    BY <1>3 DEF Has
  <2>2. c.wf \in Nat /\ f.wf \in Nat /\ w \in Nat
    <3>1. db'[s] \in DB
      BY DbNext
    <3> QED BY <1>1, <3>1, TTLAssumption DEF DB, Ref, WF
  <2> QED
    BY <1>1, <2>1, <2>2 DEF Arrived, Holds, Has
<1> QED
  BY <1>1, <1>2, <1>3 DEF Taken

\* A block on the link arrives or stays on the link, unless the link breaks.
LEMMA SentNext ==
  ASSUME TypeOK, StoreInv, [Next]_vars, open', NEW s \in Side,
         NEW i, NEW w \in WF,
         NEW j \in 1..Len(wire[Other(s)]), Carries(wire[Other(s)][j], i, w)
  PROVE  \/ Arrived(s, i, w)'
         \/ \E k \in 1..Len(wire'[Other(s)]) : Carries(wire'[Other(s)][k], i, w)
<1> DEFINE o == Other(s)
<1>1. o \in Side /\ Other(o) = s
  BY OtherSide
<1> HIDE DEF o
<1>2. wire[o] \in Seq(Frame) /\ Len(wire[o]) \in Nat /\ QueueStep(o)
  BY <1>1, LenProperties, WireNext DEF TypeOK
<1>3. j \in 1..Len(wire[o]) /\ Carries(wire[o][j], i, w)
  BY DEF o
<1>4. CASE wire'[o] = wire[o]
  BY <1>3, <1>4 DEF o
<1>5. ASSUME NEW f \in Frame, wire'[o] = Append(wire[o], f)
      PROVE  \E k \in 1..Len(wire'[o]) : Carries(wire'[o][k], i, w)
  <2>1. /\ Len(wire'[o]) = Len(wire[o]) + 1
        /\ wire'[o][j] = wire[o][j]
    BY <1>2, <1>3, <1>5, AppendProperties
  <2>2. j \in 1..Len(wire'[o])
    BY <1>2, <1>3, <2>1
  <2> QED
    BY <1>3, <2>1, <2>2
<1>6. CASE wire[o] # <<>> /\ wire'[o] = Tail(wire[o]) /\ Taken(s, Head(wire[o]))
  <2>1. /\ Len(wire'[o]) = Len(wire[o]) - 1
        /\ \A k \in 1..Len(wire'[o]) : wire'[o][k] = wire[o][k + 1]
        /\ Head(wire[o]) \in Frame /\ Head(wire[o]) = wire[o][1]
    BY <1>2, <1>6, HeadTailProperties
  <2>2. CASE j = 1
    BY <1>3, <1>6, <2>1, <2>2, TakenHeld
  <2>3. CASE j # 1
    <3>1. j - 1 \in 1..Len(wire'[o]) /\ (j - 1) + 1 = j
      BY <1>2, <1>3, <2>1, <2>3
    <3>2. Carries(wire'[o][j - 1], i, w)
      BY <1>3, <2>1, <3>1
    <3> QED
      BY <3>1, <3>2 DEF o
  <2> QED
    BY <2>2, <2>3
<1> QED
  BY <1>1, <1>2, <1>4, <1>5, <1>6 DEF QueueStep, o

\* Puts leave ahead of a sender what is ahead of it, for an entry only moves to
\* the second of the session; only an eviction takes it away.
LEMMA AheadStays ==
  ASSUME TypeOK, StoreInv, [Next]_vars, NEW o \in Side, NEW b \in first[o], Ahead(o, b),
         snd'[o] = snd[o], page'[o] = page[o], cursor'[o] = cursor[o]
  PROVE  Ahead(o, b)' \/ b.id \in gone'[o]
<1>1. CASE snd[o] \in {"bloom", "wait"}
  BY <1>1 DEF Ahead
<1>2. CASE snd[o] = "page" /\ \E e \in page[o] : e.id = b.id /\ e.wf >= b.wf
  BY <1>2 DEF Ahead
<1>3. ASSUME snd[o] = "list" \/ (snd[o] = "page" /\ cursor[o] # NoCursor),
             NEW e \in db[o].block, e.id = b.id, e.wf >= b.wf, KeyLess(cursor[o], e)
      PROVE  Ahead(o, b)' \/ b.id \in gone'[o]
  <2>1. \/ b.id \in gone'[o]
        \/ \E c \in db'[o].block : c.id = b.id /\ c.wf >= b.wf /\ KeyLess(cursor[o], c)
    <3>1. CASE db'[o] = db[o]
      BY <1>3, <3>1
    <3>2. ASSUME NEW id \in ID, NEW wf \in WF, db'[o] = Put(o, id, wf)
          PROVE  \E c \in db'[o].block : c.id = b.id /\ c.wf >= b.wf /\ KeyLess(cursor[o], c)
      <4>1. PICK c \in db'[o].block : /\ c.id = e.id /\ c.wf >= e.wf
                                      /\ c = e \/ c.createdAt = Now
        BY <1>3, <3>2, PutKeeps
      <4>2. c \in Ref /\ e \in Ref /\ b \in Ref /\ cursor[o] \in [createdAt : Nat, id : Nat]
        <5>1. db'[o] \in DB
          BY DbNext
        <5> QED BY <5>1, StoreTypes DEF DB, TypeOK
      <4>3. \A x \in {b, c, e} : x.wf \in Nat /\ x.createdAt \in Nat /\ x.id \in Nat
        BY <4>2, StoreTypes
      <4>4. e.createdAt <= Now
        BY <1>3 DEF StoreInv, Consistent
      <4>5. KeyLess(cursor[o], c)
        BY <1>3, <4>1, <4>2, <4>3, <4>4 DEF KeyLess, Now
      <4> QED
        BY <1>3, <4>1, <4>3, <4>5
    <3>3. ASSUME NEW c \in db[o].block, db'[o] = EvictTxn(db[o], c, Now),
                 gone'[o] = gone[o] \cup {c.id}
          PROVE  \/ b.id \in gone'[o]
                 \/ \E x \in db'[o].block : x.id = b.id /\ x.wf >= b.wf /\ KeyLess(cursor[o], x)
      <4>1. db'[o].block = {x \in db[o].block : x.id # c.id}
        BY <3>3, EvictKeeps
      <4> QED
        BY <1>3, <3>3, <4>1
    <3> QED
      BY <3>1, <3>2, <3>3, DbNext DEF StoreStep
  <2> QED
    BY <1>3, <2>1 DEF Ahead
<1> QED
  BY <1>1, <1>2, <1>3 DEF Ahead

\* What the sender of o passes has arrived, or is on the link, or it is on record
\* that it was evicted, was not read or was shown by the filter.
LEMMA AheadNext ==
  ASSUME SessionInv, [Next]_vars, NEW o \in Side, NEW b \in first[o], Ahead(o, b),
         snd'[o] # "end", o \notin cut', open'
  PROVE  \/ Arrived(Other(o), b.id, b.wf)'
         \/ \E k \in 1..Len(wire'[o]) : Carries(wire'[o][k], b.id, b.wf)
         \/ Ahead(o, b)'
<1> DEFINE Goal ==
      \/ Arrived(Other(o), b.id, b.wf)'
      \/ \E k \in 1..Len(wire'[o]) : Carries(wire'[o][k], b.id, b.wf)
      \/ Ahead(o, b)'
<1> USE DEF SessionInv
<1>a. snd \in [Side -> {"bloom", "wait", "cancel", "list", "page", "done", "end"}]
  BY DEF TypeOK
<1>b. b.id \in ID /\ b.wf \in WF /\ b.wf \in Nat
  BY FirstTypes
<1>c. Other(o) \in Side /\ Other(Other(o)) = o
  BY OtherSide
<1>d. b.id \in gone'[o] \/ b.id \in lost'[Other(o)] => Goal
  BY <1>c DEF Arrived
<1>1. CASE SendBloom(o)
  BY <1>1, <1>a DEF SendBloom, SendFails, SendEnds, Ahead
<1>2. CASE FilterFails(o)
  BY <1>2, <1>a DEF FilterFails, SendFails, SendEnds
<1>3. CASE TakeBloom(o)
  <2>1. snd'[o] = "list" /\ UNCHANGED <<db, cursor>> /\ cursor[o] = NoCursor
    BY <1>3, <1>a DEF TakeBloom, SendEnds, PhaseInv
  <2>a. CASE b.id \in gone[o]
    BY <1>d, <2>a, GoneGrows
  <2>b. SUFFICES ASSUME b.id \notin gone[o] PROVE Goal
    BY <2>a
  <2>2. PICK e \in db[o].block : e.id = b.id /\ e.wf >= b.wf
    BY <2>b DEF StoreInv, Holds, Has
  <2>3. e.createdAt \in Nat /\ e.id \in Nat \ {0}
    BY StoreTypes
  <2>4. KeyLess(cursor[o], e)
    BY <2>1, <2>3 DEF KeyLess, NoCursor
  <2> QED BY <2>1, <2>2, <2>4 DEF Ahead
<1>4. CASE Cancelled(o)
  BY <1>4 DEF Cancelled
<1>5. CASE CancelDone(o)
  BY <1>5, <1>a DEF CancelDone, SendFails, SendEnds
<1>6. CASE ListPage(o)
  <2> DEFINE ahead == Listable(db[o], cursor[o], 0, 0)
             refs == Page(db[o], cursor[o], PageSize, 0, 0)
             next == NextCursor(refs, PageSize)
  <2>1. \A e \in ahead \ refs : next # NoCursor /\ KeyLess(next, e)
    BY ListParts
  <2>2. snd[o] = "list" /\ o \notin closed
    BY <1>6 DEF ListPage
  <2>3. page' = [page EXCEPT ![o] = refs] /\ cursor' = [cursor EXCEPT ![o] = next]
        /\ snd' = [snd EXCEPT ![o] = "page"] /\ db' = db
    BY <1>6, <2>2 DEF ListPage
  <2>4. page'[o] = refs /\ cursor'[o] = next /\ snd'[o] = "page"
    BY <2>3 DEF TypeOK
  <2>5. PICK e \in db[o].block : e.id = b.id /\ e.wf >= b.wf /\ KeyLess(cursor[o], e)
    BY <2>2 DEF Ahead
  <2>6. e \in ahead
    <3>1. e \in db[o].trav /\ e.createdAt >= 0 /\ e.wf >= 0
      BY StoreTypes DEF StoreInv
    <3> QED BY <2>5, <3>1 DEF Listable
  <2> HIDE DEF refs, next, ahead
  <2>7. CASE e \in refs
    BY <2>4, <2>5, <2>7 DEF Ahead
  <2>8. CASE e \notin refs
    <3>1. next # NoCursor /\ KeyLess(next, e)
      BY <2>1, <2>6, <2>8
    <3> QED BY <2>3, <2>4, <2>5, <3>1 DEF Ahead
  <2> QED BY <2>7, <2>8
<1>7. CASE ListFails(o)
  BY <1>7 DEF ListFails
<1>8. CASE SendBlock(o)
  <2>1. PICK e \in page[o] :
          /\ page' = [page EXCEPT ![o] = @ \ {e}]
          /\ \/ lost' = IF Has(Other(o), e.id, e.wf) THEN lost
                         ELSE [lost EXCEPT ![Other(o)] = @ \cup {e.id}]
             \/ \A c \in db[o].block : c.id # e.id
             \/ \E c \in db[o].block :
                  c.id = e.id /\ Write(o, [type |-> "block", id |-> c.id, wf |-> c.wf])
             \/ SendFails(o)
          /\ snd[o] = "page" /\ UNCHANGED <<db, cursor>>
    BY <1>8 DEF SendBlock
  <2>2. ~SendFails(o)
    BY <1>a DEF SendFails, SendEnds
  <2>3. page'[o] = page[o] \ {e} /\ snd'[o] = "page"
    <3>1. snd' = snd
      BY <1>8, <2>2 DEF SendBlock
    <3> QED BY <2>1, <3>1 DEF TypeOK
  <2>a. CASE b.id \in gone[o]
    BY <1>d, <2>a, GoneGrows
  <2>6. CASE ~(e.id = b.id /\ e.wf >= b.wf)
    BY <2>1, <2>3, <2>6 DEF Ahead
  <2>b. SUFFICES ASSUME b.id \notin gone[o], e.id = b.id, e.wf >= b.wf PROVE Goal
    BY <2>a, <2>6
  <2>4. PICK c \in db[o].block : c.id = e.id /\ c.wf >= e.wf
    BY <2>b DEF PageInv, Holds, Has
  <2>5. e \in Ref /\ e.id \in ID /\ e.wf \in WF /\ e.wf \in Nat /\ c.wf \in Nat /\ c.wf \in WF
    <3>1. page[o] \subseteq Ref
      BY DEF TypeOK
    <3> QED BY <3>1, StoreTypes
  <2>7. CASE e.id = b.id /\ e.wf >= b.wf
    <3>1. CASE lost' = IF Has(Other(o), e.id, e.wf) THEN lost
                       ELSE [lost EXCEPT ![Other(o)] = @ \cup {e.id}]
      <4>1. CASE Has(Other(o), e.id, e.wf)
        <5>1. \A d \in db[Other(o)].block : d.wf \in Nat
          BY <1>c, StoreTypes
        <5>2. Arrived(Other(o), b.id, b.wf)
          BY <1>b, <2>5, <2>7, <4>1, <5>1 DEF Arrived, Holds, Has
        <5> QED BY <1>b, <1>c, <5>2, ArrivedNext
      <4>2. CASE ~Has(Other(o), e.id, e.wf)
        <5>1. e.id \in lost'[Other(o)]
          BY <1>c, <3>1, <4>2 DEF TypeOK
        <5> QED BY <1>d, <2>7, <5>1
      <4> QED BY <4>1, <4>2
    <3>2. ASSUME NEW d \in db[o].block, d.id = e.id,
                 Write(o, [type |-> "block", id |-> d.id, wf |-> d.wf])
          PROVE  Goal
      <4> DEFINE f == [type |-> "block", id |-> d.id, wf |-> d.wf]
      <4>1. d = c
        BY <2>4, <3>2 DEF StoreInv, Consistent
      <4>2. f \in Frame
        BY <2>4, <2>5, <4>1, FramesMade
      <4>3. Carries(f, b.id, b.wf)
        BY <1>b, <2>4, <2>5, <2>7, <4>1 DEF Carries
      <4>4. Write(o, f)
        BY <3>2
      <4> HIDE DEF f
      <4>5. wire'[o] = Append(wire[o], f) /\ wire[o] \in Seq(Frame) /\ Len(wire[o]) \in Nat
        BY <4>2, <4>4, WriteParts, LenProperties DEF TypeOK
      <4>6. Len(wire'[o]) = Len(wire[o]) + 1 /\ wire'[o][Len(wire[o]) + 1] = f
        BY <4>2, <4>5, AppendProperties
      <4>7. Len(wire[o]) + 1 \in 1..Len(wire'[o])
        BY <4>5, <4>6
      <4> QED BY <4>3, <4>6, <4>7
    <3> QED BY <2>1, <2>2, <2>4, <3>1, <3>2
  <2> QED BY <2>b, <2>7
<1>9. CASE GetFails(o)
  <2>1. PICK e \in page[o] : /\ page' = [page EXCEPT ![o] = @ \ {e}]
                             /\ lost' = [lost EXCEPT ![Other(o)] = @ \cup {e.id}]
    BY <1>9 DEF GetFails
  <2>2. page'[o] = page[o] \ {e} /\ e.id \in lost'[Other(o)]
    BY <1>c, <2>1 DEF TypeOK
  <2>3. UNCHANGED <<db, snd, cursor>> /\ snd[o] = "page"
    BY <1>9 DEF GetFails
  <2>4. CASE e.id = b.id
    BY <1>d, <2>2, <2>4
  <2>5. CASE e.id # b.id
    BY <2>2, <2>3, <2>5 DEF Ahead
  <2> QED BY <2>4, <2>5
<1>10. CASE PageDone(o)
  <2>1. /\ snd[o] = "page" /\ page[o] = {} /\ UNCHANGED <<db, cursor>>
        /\ snd' = [snd EXCEPT ![o] = IF cursor[o] = NoCursor THEN "done" ELSE "list"]
    BY <1>10 DEF PageDone
  <2>2. /\ cursor[o] # NoCursor
        /\ \E e \in db[o].block : e.id = b.id /\ e.wf >= b.wf /\ KeyLess(cursor[o], e)
    BY <2>1 DEF Ahead
  <2>3. snd'[o] = "list"
    BY <1>a, <2>1, <2>2
  <2> QED BY <2>1, <2>2, <2>3 DEF Ahead
<1>11. CASE SendDone(o)
  BY <1>11, <1>a DEF SendDone, SendFails, SendEnds
<1>12. CASE snd'[o] = snd[o] /\ page'[o] = page[o] /\ cursor'[o] = cursor[o]
  BY <1>d, <1>12, AheadStays
<1> QED
  BY <1>1, <1>2, <1>3, <1>4, <1>5, <1>6, <1>7, <1>8, <1>9, <1>10, <1>11, <1>12,
     SenderStep DEF Sender

\* While a sender is at work nothing is passed over.
LEMMA StreamNext ==
  ASSUME SessionInv, StreamInv, [Next]_vars
  PROVE  StreamInv'
<1> USE DEF SessionInv
<1>1. SUFFICES ASSUME NEW s \in Side, open', snd'[Other(s)] # "end", Other(s) \notin cut',
                      NEW b \in first'[Other(s)]
               PROVE  \/ Arrived(s, b.id, b.wf)'
                      \/ \E i \in 1..Len(wire'[Other(s)]) : Carries(wire'[Other(s)][i], b.id, b.wf)
                      \/ Ahead(Other(s), b)'
  BY DEF StreamInv, Carries, Arrived, Holds, Has
<1>2. Other(s) \in Side /\ Other(Other(s)) = s
  BY OtherSide
<1>3. b \in first[Other(s)] /\ Other(s) \notin cut
  BY <1>1, Histories
<1>4. open /\ snd[Other(s)] # "end"
  BY <1>1, <1>2, EndsNext
<1>5. b.id \in ID /\ b.wf \in WF
  BY <1>2, <1>3, FirstTypes
<1>6. CASE Arrived(s, b.id, b.wf)
  BY <1>5, <1>6, ArrivedNext
<1>7. CASE \E i \in 1..Len(wire[Other(s)]) : Carries(wire[Other(s)][i], b.id, b.wf)
  BY <1>1, <1>3, <1>5, <1>7, SentNext
<1>8. CASE Ahead(Other(s), b)
  BY <1>1, <1>2, <1>3, <1>8, AheadNext
<1> QED
  BY <1>3, <1>4, <1>6, <1>7, <1>8 DEF StreamInv

\* A DONE frame comes last.
LEMMA DoneNext ==
  ASSUME SessionInv, StreamInv, DoneInv, [Next]_vars
  PROVE  DoneInv'
<1> USE DEF SessionInv
<1>1. SUFFICES ASSUME NEW s \in Side, NEW i \in 1..Len(wire'[Other(s)]),
                      wire'[Other(s)][i].type = "done", Other(s) \notin cut',
                      NEW b \in first'[Other(s)]
               PROVE  \/ Arrived(s, b.id, b.wf)'
                      \/ \E j \in 1..(i - 1) : Carries(wire'[Other(s)][j], b.id, b.wf)
  BY DEF DoneInv, Carries, Arrived, Holds, Has
<1> DEFINE o == Other(s)
<1>2. o \in Side /\ Other(o) = s
  BY OtherSide
<1>3. b \in first[o] /\ o \notin cut
  BY <1>1, Histories
<1>4. b.id \in ID /\ b.wf \in WF
  BY <1>2, <1>3, FirstTypes
<1>5. wire[o] \in Seq(Frame) /\ Len(wire[o]) \in Nat /\ QueueStep(o)
  BY <1>2, LenProperties, WireNext DEF TypeOK
<1>6. CASE Arrived(s, b.id, b.wf)
  BY <1>4, <1>6, ArrivedNext
<1>7. SUFFICES ASSUME ~Arrived(s, b.id, b.wf)
               PROVE  \/ Arrived(s, b.id, b.wf)'
                      \/ \E j \in 1..(i - 1) : Carries(wire'[o][j], b.id, b.wf)
  BY <1>6
<1>8. \A k \in 1..Len(wire[o]) : wire[o][k].type = "done" =>
        \E j \in 1..(k - 1) : Carries(wire[o][j], b.id, b.wf)
  BY <1>3, <1>7 DEF DoneInv
<1>9. i \in 1..Len(wire'[o]) /\ wire'[o][i].type = "done"
  BY <1>1
<1> HIDE DEF o
<1>10. CASE wire'[o] = wire[o]
  BY <1>8, <1>9, <1>10
<1>11. CASE wire'[o] = <<>>
  BY <1>9, <1>11
<1>12. ASSUME NEW f \in Frame, wire'[o] = Append(wire[o], f), open, Written(o, f)
       PROVE  \E j \in 1..(i - 1) : Carries(wire'[o][j], b.id, b.wf)
  <2>1. /\ Len(wire'[o]) = Len(wire[o]) + 1
        /\ \A k \in 1..Len(wire[o]) : wire'[o][k] = wire[o][k]
        /\ wire'[o][Len(wire[o]) + 1] = f
    BY <1>5, <1>12, AppendProperties
  <2>2. CASE i \in 1..Len(wire[o])
    <3>1. wire[o][i].type = "done"
      BY <1>9, <2>1, <2>2
    <3>2. PICK j \in 1..(i - 1) : Carries(wire[o][j], b.id, b.wf)
      BY <1>8, <2>2, <3>1
    <3>3. j \in 1..Len(wire[o])
      BY <1>5, <2>2, <3>2
    <3> QED BY <2>1, <3>2, <3>3
  <2>3. CASE i = Len(wire[o]) + 1
    <3>1. snd[o] = "done"
      BY <1>2, <1>3, <1>9, <1>12, <2>1, <2>3 DEF Written, PhaseInv
    <3>2. ~Ahead(o, b)
      BY <3>1 DEF Ahead
    <3>3. PICK j \in 1..Len(wire[o]) : Carries(wire[o][j], b.id, b.wf)
      BY <1>3, <1>7, <1>12, <3>1, <3>2 DEF StreamInv, o
    <3>4. j \in 1..(i - 1)
      BY <1>5, <2>3, <3>3
    <3> QED BY <2>1, <3>3, <3>4
  <2> QED
    BY <1>5, <1>9, <2>1, <2>2, <2>3
<1>13. CASE wire[o] # <<>> /\ wire'[o] = Tail(wire[o]) /\ Taken(s, Head(wire[o]))
  <2>1. /\ Len(wire'[o]) = Len(wire[o]) - 1
        /\ \A k \in 1..Len(wire'[o]) : wire'[o][k] = wire[o][k + 1]
        /\ Head(wire[o]) \in Frame /\ Head(wire[o]) = wire[o][1]
    BY <1>5, <1>13, HeadTailProperties
  <2>2. i + 1 \in 1..Len(wire[o]) /\ wire[o][i + 1].type = "done" /\ (i + 1) - 1 = i
    BY <1>5, <1>9, <2>1
  <2>3. PICK j \in 1..i : Carries(wire[o][j], b.id, b.wf)
    BY <1>8, <2>2
  <2>4. CASE j = 1
    BY <1>3, <1>4, <1>13, <2>1, <2>3, <2>4, TakenHeld
  <2>5. CASE j # 1
    <3>1. j - 1 \in 1..(i - 1) /\ j - 1 \in 1..Len(wire'[o]) /\ (j - 1) + 1 = j
      BY <1>5, <1>9, <2>1, <2>3, <2>5
    <3>2. Carries(wire'[o][j - 1], b.id, b.wf)
      BY <2>1, <2>3, <3>1
    <3> QED BY <3>1, <3>2
  <2> QED BY <2>4, <2>5
<1> QED
  BY <1>2, <1>5, <1>10, <1>11, <1>12, <1>13 DEF QueueStep

\* A receiver that ends with DONE has everything.
LEMMA AllNext ==
  ASSUME SessionInv, DoneInv, DoneMeansAll, [Next]_vars
  PROVE  DoneMeansAll'
<1> USE DEF SessionInv
<1>1. SUFFICES ASSUME NEW s \in Side, rcv'[s] = "end", s \notin failed',
                      Other(s) \notin cut', NEW b \in first'[Other(s)]
               PROVE  Arrived(s, b.id, b.wf)'
  BY DEF DoneMeansAll, Arrived, Holds, Has
<1>2. Other(s) \in Side /\ Other(Other(s)) = s
  BY OtherSide
<1>3. b \in first[Other(s)] /\ Other(s) \notin cut /\ s \notin failed
  BY <1>1, Histories
<1>4. b.id \in ID /\ b.wf \in WF
  BY <1>2, <1>3, FirstTypes
<1>5. Arrived(s, b.id, b.wf)
  <2>1. CASE rcv[s] = "end"
    BY <1>3, <2>1 DEF DoneMeansAll, Arrived, Holds
  <2>2. CASE rcv[s] # "end"
    <3>1. wire[Other(s)] # <<>> /\ Head(wire[Other(s)]).type = "done"
      BY <1>1, <2>2, ReceiverStep
    <3>2. wire[Other(s)] \in Seq(Frame)
      BY <1>2 DEF TypeOK
    <3>3. 1 \in 1..Len(wire[Other(s)]) /\ wire[Other(s)][1] = Head(wire[Other(s)])
      BY <3>1, <3>2, LenProperties, EmptySeq
    <3>4. \/ Arrived(s, b.id, b.wf)
          \/ \E j \in 1..(1 - 1) : Carries(wire[Other(s)][j], b.id, b.wf)
      BY <1>3, <3>1, <3>3 DEF DoneInv
    <3>5. 1..(1 - 1) = {}
      OBVIOUS
    <3> QED BY <3>4, <3>5
  <2> QED BY <2>1, <2>2
<1> QED
  BY <1>4, <1>5, ArrivedNext

\* Nothing that an end held at the start is lost between its index and the other
\* end without a known reason: it has arrived, is on the link before any DONE, or
\* is ahead of the sender's page and cursor; or an end has evicted it, Get or Put
\* failed, a tombstone refused it or the filter showed it.
THEOREM DeliveryInvariant == Spec => []DeliverInv
<1>1. Init => DeliverInv
  <2> SUFFICES ASSUME Init PROVE DeliverInv
    OBVIOUS
  <2>1. \A s \in Side : /\ Other(s) \in Side /\ wire[Other(s)] = <<>> /\ rcv[s] = "read"
                        /\ snd[Other(s)] = "bloom"
    BY OtherSide DEF Init
  <2>2. StreamInv /\ DoneInv /\ DoneMeansAll
    BY <2>1 DEF StreamInv, DoneInv, DoneMeansAll, Ahead
  <2> QED
    BY <2>2, SessionInit DEF DeliverInv
<1>2. ASSUME DeliverInv, [Next]_vars PROVE DeliverInv'
  <2>1. SessionInv'
    BY <1>2, TypeNext, PhaseNext, StoreNext, FilterNext, PageNext, MissingNext
       DEF SessionInv, DeliverInv
  <2> QED
    BY <1>2, <2>1, StreamNext, DoneNext, AllNext DEF DeliverInv
<1> QED
  BY <1>1, <1>2, PTL DEF Spec

\* A receiver that ends with DONE and without an error has every block the other
\* end held when the session began, with at least its work, but for the blocks
\* that were evicted, could not be read or stored, were refused by a tombstone
\* or shown by the filter: pages and cursor lose none, although blocks are put,
\* boosted, received and evicted while they are listed.
THEOREM DoneDelivers == Spec => []DoneMeansAll
<1>1. DeliverInv => DoneMeansAll
  BY DEF DeliverInv
<1> QED
  BY <1>1, DeliveryInvariant, PTL
=============================================================================
