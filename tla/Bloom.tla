-------------------------------- MODULE Bloom -------------------------------
(***************************************************************************)
(* The filter a node sends with a delta request (transport/relay/bloom.go) *)
(* so that the relay can leave out what the node already holds.  It encodes*)
(* ids together with the work factor they are held at: one triple of bits  *)
(* per level of work.                                                      *)
(***************************************************************************)
EXTENDS Integers

CONSTANTS Slot(_, _, _),  \* bit index of an id, a byte offset and a level
          MaxBloomPow     \* highest level tracked (16 in the code)

ASSUME BloomAssumption == MaxBloomPow \in Nat

Offsets == {0, 8, 16}

Level(wf) == IF wf > MaxBloomPow THEN MaxBloomPow ELSE wf

\* The three bits of a block at the level of one work factor.
Probe(id, wf) == {Slot(id, o, Level(wf)) : o \in Offsets}

\* Mutant: Add sets the bits of the block's own level only.
BitsTopOnly(id, wf) == Probe(id, wf)

\* The bits Add sets for a block: those of every level up to its own.
Bits(id, wf) == UNION {Probe(id, l) : l \in 0..Level(wf)}

\* BloomOfStore: the filter of a set of references.
BloomOf(refs) == UNION {Bits(e.id, e.wf) : e \in refs}

\* Mutant: Has ignores the level of work.
BloomHasAnyLevel(bits, id, wf) == Probe(id, 0) \subseteq bits

\* Has looks at the bits of one level only.
BloomHas(bits, id, wf) == Probe(id, wf) \subseteq bits
=============================================================================
