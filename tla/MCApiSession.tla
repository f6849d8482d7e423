---------------------------- MODULE MCApiSession ----------------------------
(* ApiSession with symmetric goroutines and passwords, and three           *)
(* workloads: records of all kinds; records and changes of the password;   *)
(* the two keys that one name may have, with stamps of any work and size.  *)
EXTENDS ApiSession, TLC

MCNameOf == [i \in Identity |-> "alice"]
MCWorkloads ==
  {[names |-> (Record \ Identity) \cup OldRecords, pws |-> {p},
    stamps |-> {NoStamp}] : p \in Password}
    \cup {[names |-> Contact \cup OldRecords, pws |-> Password,
           stamps |-> {NoStamp}]}
    \cup {[names |-> Identity, pws |-> {p},
           stamps |-> {NoStamp, [bits |-> 1, sized |-> TRUE],
                       [bits |-> 1, sized |-> FALSE]}] : p \in Password}
MCSymmetry == Permutations(Request) \cup Permutations(Password)
=============================================================================
