---------------------------- MODULE MobileEngine ----------------------------
(***************************************************************************)
(* The mobile engine's peer list and sync rounds (mobile/engine.go,        *)
(* mobile/peertracker.go).  Unlike the desktop tracker it has one time per *)
(* peer, LastSync, which says both whose turn it is and from when the next *)
(* round looks for blocks, and which is read when the round ends.  What    *)
(* Pull and Push do with the blocks since a given time is module RelaySync;*)
(* here a block is the second in which its holder stored it.               *)
(* Names that PeerTracker has too begin with Engine, for the proofs of both*)
(* are in one module.                                                      *)
(***************************************************************************)
EXTENDS Integers, FiniteSets

CONSTANTS PeerURL,          \* peer base URLs
          Runner,           \* the loop of StartSync, and SyncNow goroutines
          MaxTrackedPeers,  \* maxTrackedPeers
          MaxSaves,         \* bound on saves running at once
          MaxLag,           \* bound on how much older than its commit a stamp is
          MaxBlocks,        \* bound on blocks waiting for a transfer
          MaxTime           \* bound on the clock

ASSUME EngineAssumption ==
  /\ MaxTrackedPeers \in Nat /\ MaxSaves \in Nat /\ MaxBlocks \in Nat /\ MaxLag \in Nat
  /\ MaxTime \in Nat \ {0}

VARIABLES
  now,
  peers,     \* the keys of pt.peers
  blocked,   \* of those, the blocked ones
  lastSync,  \* by URL: LastSync, 0 before the first round
  round,     \* per runner: where its doSyncRound is
  saves,     \* snapshots taken by save and not yet renamed into place
  peersFile, \* contents of peers.json
  waiting,   \* blocks that peers hold and this engine has not pulled
  unsent     \* blocks that this engine holds and has not pushed to a peer

list == <<peers, blocked, lastSync>>
engineVars == <<now, list, round, saves, peersFile, waiting, unsent>>

Time == 0..MaxTime

\* What save writes.
Snapshot == [peers : SUBSET PeerURL, blocked : SUBSET PeerURL, lastSync : [PeerURL -> Time]]

\* A block to be transferred: with whom, stored when, whether a round with that
\* peer had already looked past its second when it appeared (late), and whether a
\* transfer that listed it has left it behind (left).
Block == [url : PeerURL, at : Time, late : BOOLEAN, left : BOOLEAN]

Round == [pc : {"idle"}] \cup
         [pc : {"since", "pull", "push", "record"}, url : PeerURL, since : Time]
Idle == [pc |-> "idle"]

EngineTypeOK ==
  /\ now \in 1..MaxTime
  /\ peers \subseteq PeerURL /\ blocked \subseteq peers /\ lastSync \in [PeerURL -> Time]
  /\ \A u \in PeerURL \ peers : lastSync[u] = 0
  /\ round \in [Runner -> Round]
  /\ saves \subseteq Snapshot /\ peersFile \in Snapshot
  /\ waiting \subseteq Block /\ unsent \subseteq Block

EngineInit ==
  /\ now = 1
  /\ peers = {} /\ blocked = {} /\ lastSync = [u \in PeerURL |-> 0]
  /\ round = [r \in Runner |-> Idle]
  /\ saves = {} /\ peersFile = [peers |-> {}, blocked |-> {}, lastSync |-> lastSync]
  /\ waiting = {} /\ unsent = {}
-----------------------------------------------------------------------------
(* The peer list.  Every change is followed by a save, whose snapshot is   *)
(* taken under the lock and whose file is written after it.                *)

Saved ==
  /\ saves' = saves \cup
       {[peers |-> peers', blocked |-> blocked', lastSync |-> lastSync']}
  /\ Cardinality(saves') <= MaxSaves

\* AddPeer, a LAN scan or a Bluetooth session adds a peer.
Add(u) ==
  /\ u \notin peers /\ Cardinality(peers) < MaxTrackedPeers
  /\ peers' = peers \cup {u}
  /\ UNCHANGED <<blocked, lastSync>>
  /\ Saved
  /\ UNCHANGED <<now, round, peersFile, waiting, unsent>>

\* A hello exchange adds a peer, which the next save will write.
AddQuietly(u) ==
  /\ u \notin peers /\ Cardinality(peers) < MaxTrackedPeers
  /\ peers' = peers \cup {u}
  /\ UNCHANGED <<now, blocked, lastSync, round, saves, peersFile, waiting, unsent>>

Remove(u) ==
  /\ peers' = peers \ {u} /\ blocked' = blocked \ {u}
  /\ lastSync' = [lastSync EXCEPT ![u] = 0]
  /\ Saved
  /\ UNCHANGED <<now, round, peersFile, waiting, unsent>>

\* block also adds an unknown peer, whatever the number of peers.
BlockPeer(u) ==
  /\ peers' = peers \cup {u} /\ blocked' = blocked \cup {u}
  /\ UNCHANGED lastSync
  /\ Saved
  /\ UNCHANGED <<now, round, peersFile, waiting, unsent>>

Unblock(u) ==
  /\ blocked' = blocked \ {u}
  /\ UNCHANGED <<peers, lastSync>>
  /\ Saved
  /\ UNCHANGED <<now, round, peersFile, waiting, unsent>>

EngineSaveRename ==
  /\ \E s \in saves : peersFile' = s /\ saves' = saves \ {s}
  /\ UNCHANGED <<now, list, round, waiting, unsent>>

\* The application is killed and started again.
EngineRestart ==
  /\ peers' = peersFile.peers /\ blocked' = peersFile.blocked
  /\ lastSync' = peersFile.lastSync
  /\ round' = [r \in Runner |-> Idle]
  /\ saves' = {}
  /\ UNCHANGED <<now, peersFile, waiting, unsent>>
-----------------------------------------------------------------------------
(* doSyncRound.                                                            *)

Active == peers \ blocked

\* pickPeer: the active peer with the oldest LastSync.
PickPeer(r) ==
  /\ round[r] = Idle
  /\ \E u \in Active :
       /\ \A v \in Active : lastSync[u] <= lastSync[v]
       /\ round' = [round EXCEPT ![r] = [pc |-> "since", url |-> u, since |-> 0]]
  /\ UNCHANGED <<now, list, saves, peersFile, waiting, unsent>>

\* LastSync is read in a critical section of its own.
ReadSince(r) ==
  /\ round[r].pc = "since"
  /\ round' = [round EXCEPT ![r].pc = "pull", ![r].since = lastSync[round[r].url]]
  /\ UNCHANGED <<now, list, saves, peersFile, waiting, unsent>>

\* The blocks of S that the round of r lists, and what remains of S when all of
\* them are transferred but those in left.
Listed(S, r) == {b \in S : b.url = round[r].url /\ b.at >= round[r].since}
Transferred(S, r, left) ==
  (S \ Listed(S, r)) \cup {[b EXCEPT !.left = TRUE] : b \in left}

\* Pull transfers what the peer holds since then.  A block that cannot be
\* fetched, or that the filter shows, is left behind without an error.
Pull(r) ==
  /\ round[r].pc = "pull"
  /\ \E left \in SUBSET Listed(waiting, r) : waiting' = Transferred(waiting, r, left)
  /\ round' = [round EXCEPT ![r].pc = "push"]
  /\ UNCHANGED <<now, list, saves, peersFile, unsent>>

\* Mutant: a failed round moves LastSync, so that other peers have their turn.
EnginePullFailsMoves(r) ==
  /\ round[r].pc = "pull"
  /\ lastSync' = [lastSync EXCEPT ![round[r].url] = IF round[r].url \in peers THEN now ELSE 0]
  /\ round' = [round EXCEPT ![r] = Idle]
  /\ UNCHANGED <<now, peers, blocked, saves, peersFile, waiting, unsent>>

\* recordFailure counts; LastSync stays, and nothing is saved.  Some blocks may
\* have been transferred.
EnginePullFails(r) ==
  /\ round[r].pc = "pull"
  /\ \E got \in SUBSET Listed(waiting, r) : waiting' = waiting \ got
  /\ round' = [round EXCEPT ![r] = Idle]
  /\ UNCHANGED <<now, list, saves, peersFile, unsent>>

\* Push transfers what this engine holds since then.  It leaves behind what Pull
\* has brought, what is below the peer's limit, what fails on its own, and all
\* that follows an error: that is recorded as a success with an error text.
Push(r) ==
  /\ round[r].pc = "push"
  /\ \E left \in SUBSET Listed(unsent, r) : unsent' = Transferred(unsent, r, left)
  /\ round' = [round EXCEPT ![r].pc = "record"]
  /\ UNCHANGED <<now, list, saves, peersFile, waiting>>

\* Mutant: recordSuccess does not ask whether the peer is still tracked.
RecordSuccessBlind(r) ==
  /\ round[r].pc = "record"
  /\ lastSync' = [lastSync EXCEPT ![round[r].url] = now]
  /\ round' = [round EXCEPT ![r] = Idle]
  /\ UNCHANGED <<peers, blocked>>
  /\ Saved
  /\ UNCHANGED <<now, peersFile, waiting, unsent>>

\* recordSuccess reads the clock, and the list is saved.
RecordSuccess(r) ==
  /\ round[r].pc = "record"
  /\ lastSync' = [lastSync EXCEPT ![round[r].url] = IF round[r].url \in peers THEN now ELSE 0]
  /\ round' = [round EXCEPT ![r] = Idle]
  /\ UNCHANGED <<peers, blocked>>
  /\ Saved
  /\ UNCHANGED <<now, peersFile, waiting, unsent>>
-----------------------------------------------------------------------------
(* The environment.                                                        *)

\* A round with u is at one of the given steps.
At(u, pcs) == \E r \in Runner : round[r].pc \in pcs /\ round[r].url = u

\* A round with u, an earlier one or one that has read LastSync, looks past the
\* second at: in memory, in a save or in the file.
Passed(u, at) ==
  \/ at < lastSync[u] \/ at < peersFile.lastSync[u]
  \/ \E s \in saves : at < s.lastSync[u]
  \/ \E r \in Runner :
       round[r].pc \in {"pull", "push"} /\ round[r].url = u /\ at < round[r].since

\* A block reaches the peer, or this engine.  Its stamp may be older: Put reads
\* the clock before its transaction, and the peer's clock may be behind.
Arrive(u) ==
  /\ Cardinality(waiting) + Cardinality(unsent) < MaxBlocks
  /\ \E at \in {t \in Time : t <= now /\ now <= t + MaxLag} :
       \/ /\ waiting' = waiting \cup
               {[url |-> u, at |-> at, left |-> FALSE,
                 late |-> At(u, {"push", "record"}) \/ Passed(u, at)]}
          /\ UNCHANGED unsent
       \/ /\ unsent' = unsent \cup
               {[url |-> u, at |-> at, left |-> FALSE,
                 late |-> At(u, {"record"}) \/ Passed(u, at)]}
          /\ UNCHANGED waiting
  /\ UNCHANGED <<now, list, round, saves, peersFile>>

EngineTick ==
  /\ now < MaxTime
  /\ now' = now + 1
  /\ UNCHANGED <<list, round, saves, peersFile, waiting, unsent>>

Step(r) ==
  \/ PickPeer(r) \/ ReadSince(r) \/ Pull(r) \/ EnginePullFails(r)
  \/ Push(r) \/ RecordSuccess(r)

\* What the user does to the list, and what a LAN scan or a neighbour adds.
Edit(u) == Add(u) \/ AddQuietly(u) \/ Remove(u) \/ BlockPeer(u) \/ Unblock(u)

EngineNext ==
  \/ \E u \in PeerURL : Edit(u)
  \/ \E r \in Runner : Step(r)
  \/ \E u \in PeerURL : Arrive(u)
  \/ EngineSaveRename \/ EngineRestart \/ EngineTick

EngineSpec == EngineInit /\ [][EngineNext]_engineVars

\* The ticker starts round after round, and a round goes on: every request has
\* a 30 second timeout.  A peer that can be picked again and again is picked:
\* ties fall to Go's randomised map order.  In the end the application stays up
\* and its list is left alone.
EngineFairSpec ==
  /\ EngineSpec
  /\ WF_engineVars(EngineSaveRename)
  /\ \A r \in Runner : WF_engineVars(Step(r))
  /\ \A r \in Runner, u \in PeerURL : SF_engineVars(PickPeer(r) /\ round'[r].url = u)
  /\ <>[][(EngineRestart \/ \E u \in PeerURL : Edit(u))
            => EngineSaveRename \/ \E r \in Runner : Step(r)]_engineVars
-----------------------------------------------------------------------------
\* LastSync does pass blocks.  A block whose second a round has already looked
\* past when it appears, and a block that a transfer has left behind, may be older
\* than the LastSync that is recorded, and then no later round looks at it.  No
\* other block is passed, whatever rounds run at once, however the list is edited,
\* and whichever save wins before a restart.
OnlyLateLost ==
  \A b \in waiting \cup unsent :
    b.url \in peers /\ b.at < lastSync[b.url] => b.late \/ b.left

\* StartSync "begins a background loop that syncs with tracked peers": every
\* active peer has its turn again and again, whatever the others answer.
EveryPeerServed ==
  \A u \in PeerURL :
    []<>(u \notin Active \/ \E r \in Runner : round[r].pc # "idle" /\ round[r].url = u)
=============================================================================
