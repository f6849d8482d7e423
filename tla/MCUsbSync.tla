----------------------------- MODULE MCUsbSync ------------------------------
(* UsbSync with the constants of the TLC runs.                             *)
EXTENDS UsbSync

MCTTL == [w \in 0..MaxWF |-> w + 1]
\* A node with a volume; two programs that share a limited store; one that
\* writes while the index is built.
MCUsers == {{"loop"}, {"t1", "t2"}, {"t3", "ix"}}
MCLimitOf == [p \in Proc |-> IF p \in {"t1", "t2"} THEN 4 ELSE 0]
MCShard == [i \in ID |-> IF i = 1 THEN 1 ELSE 2]
MCOld == {[id |-> 2, createdAt |-> 0, wf |-> 0, part |-> "all"]}
MCLocal == {<<1, 0>>, <<1, 1>>, <<2, 0>>}
MCTool == [p \in Proc |-> CASE p = "t1" -> {<<1, 0>>, <<1, 1>>}
                            [] p = "t2" -> {<<1, 0>>}
                            [] p = "t3" -> {<<1, 0>>, <<1, 1>>, <<3, 0>>}
                            [] OTHER -> {}]
MCVisit == {<<2, 1>>}
=============================================================================
