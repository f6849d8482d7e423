---------------------------- MODULE MCRelaySync -----------------------------
(* RelaySync with the constants of the TLC run.                            *)
EXTENDS RelaySync

MCTTL == [w \in 0..MaxWF |-> 1]
\* The relay's store is less than half full, or full of stronger blocks.
MCLimits == {NoLimit, 1}
\* Both sides get the same block and evict it, or each side gets its own.
MCWorkloads ==
  {[local |-> {1}, relay |-> {1}, evict |-> e] : e \in BOOLEAN}
    \cup {[local |-> {1}, relay |-> {2}, evict |-> FALSE]}
\* A filter in which two blocks share their bits of level 1.
MCSlot(id, o, l) == <<IF l = 1 THEN 0 ELSE id, o, l>>
=============================================================================
