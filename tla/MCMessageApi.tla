---------------------------- MODULE MCMessageApi ----------------------------
(* MessageApi with the constants of the TLC run: a longer behaviour with   *)
(* scrapes and other users only, and a shorter one with handlers.          *)
EXTENDS MessageApi

MCTTL == [w \in 0..MaxWF |-> 1]
MCWorkloads == {<<MaxTime, FALSE>>, <<2, TRUE>>}
=============================================================================
