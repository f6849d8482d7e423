----------------------------- MODULE BlockStore -----------------------------
(***************************************************************************)
(* What the Store interface (blockstore/blockstore.go) promises its        *)
(* callers, with no index, no clock and no goroutines: a store holds at    *)
(* most one copy of a block, replaces it only by one with more work, and   *)
(* refuses for a while what it has evicted.                                *)
(***************************************************************************)
EXTENDS Integers

CONSTANTS ID, MaxWF

VARIABLES held,    \* the blocks held, each with its work factor
          refused  \* evicted ids that are not accepted for now

Held == [id : ID, wf : 0..MaxWF]

Init == held = {} /\ refused = {}

\* A block is accepted, or its stored copy is boosted.
Accept(h) ==
  /\ h.id \notin refused
  /\ \A g \in held : g.id = h.id => g.wf < h.wf
  /\ held' = {g \in held : g.id # h.id} \cup {h}
  /\ UNCHANGED refused

\* A block is evicted.  Two evictions may choose the same block.
Drop(id) ==
  /\ held' = {g \in held : g.id # id}
  /\ refused' = refused \cup {id}

\* Time passes and some tombstones expire.
Forgive ==
  /\ refused' \in SUBSET refused
  /\ UNCHANGED held

Next ==
  \/ \E h \in Held : Accept(h)
  \/ \E id \in ID : Drop(id)
  \/ Forgive

Spec == Init /\ [][Next]_<<held, refused>>
=============================================================================
