---------------------------- MODULE MCBadgerStore ---------------------------
(* BadgerStore with the constants of the TLC runs.                         *)
EXTENDS BadgerStore

\* Sizes are in half blocks, so that reservations fall inside a block.
MCTTL == [w \in 0..MaxWF |-> w + 1]
MCReservation == [t \in Tag |-> IF t = "physical" THEN 3 ELSE 0]
=============================================================================
