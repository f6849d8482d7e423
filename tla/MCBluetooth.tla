---------------------------- MODULE MCBluetooth -----------------------------
(* Bluetooth with the constants of the TLC runs.                           *)
EXTENDS Bluetooth

Block(id, wf) == [id |-> id, createdAt |-> 1, wf |-> wf, tag |-> "bluetooth"]
Store(blocks, buried) ==
  [block |-> blocks, trav |-> blocks,
   tomb |-> [i \in ID |-> IF i \in buried THEN Now + 1 ELSE 0]]
\* Each end may miss a block, have a tombstone for it, hold it with less work,
\* or hold more.
MCHoldings ==
  {Store({Block(1, 0), Block(2, 1)}, {}), Store({Block(1, 1)}, {}),
   Store({Block(2, 1)}, {1})}
\* The troubles that meet in one behaviour.
MCWorkloads ==
  {[puts |-> {1}, trouble |-> {"link", "filter"}],
   [puts |-> {1}, trouble |-> {"list", "close"}],
   [puts |-> {1}, trouble |-> {"get", "put", "evict"}]}
MCTTL == [w \in 0..MaxWF |-> 1]
\* A filter in which block 2 with work 1 looks like block 1 with no work.
MCSlot(id, o, l) == IF id = 1 /\ l = 0 THEN <<2, 0, 1>> ELSE <<id, o, l>>
=============================================================================
