---------------------------- MODULE PeerTracker -----------------------------
(***************************************************************************)
(* The desktop peer tracker (cmd/snk/main.go): which relays a node or      *)
(* relay knows, which it backs off from, which one the sync loop visits    *)
(* next, and what it remembers across restarts.  syncOne runs in the loop's*)
(* goroutine and in goroutines of its own, started for static peers, for   *)
(* peers learned by gossip or LAN scan, and by SyncNow; pt.mu is held only *)
(* around the updates of the map.  What Pull and Push transfer is module   *)
(* RelaySync.                                                              *)
(***************************************************************************)
EXTENDS Integers, FiniteSets

CONSTANTS URL, Self,    \* peer base URLs; the advertised one of this process
          Static,       \* peers named on the command line
          Scanned,      \* peers that a LAN scan may find
          Gossiped,     \* peers that hello exchanges may name
          MaxPeers,     \* maxPeers
          MaxBackoff,   \* maxBackoffRounds
          IntBits,      \* width of Go's int
          Rotate,       \* node mode: one peer per tick
          MaxTasks      \* bound on concurrent syncOne goroutines

ASSUME TrackerAssumption ==
  /\ IsFiniteSet(URL)
  /\ Static \subseteq URL /\ Scanned \subseteq URL /\ Gossiped \subseteq URL
  /\ MaxPeers \in Nat /\ MaxBackoff \in Nat \ {0} /\ IntBits \in Nat \ {0, 1}
  /\ Rotate \in BOOLEAN /\ MaxTasks \in Nat

VARIABLES
  known,      \* the keys of pt.known
  skip,       \* skipRounds by URL
  failures,   \* consecutive failures by URL, saturated at IntBits
  pullSince,  \* by URL: 0 before the first pull, else a rank (see Ranked)
  queue,      \* peers the current doSync has still to visit
  tasks,      \* the running syncOne calls
  tmp,        \* contents of peers.json.tmp: {} when absent, else {contents}
  file        \* peers listed in peers.json

vars == <<known, skip, failures, pullSince, queue, tasks, tmp, file>>

\* A syncOne call (or, from "save" on, the loop saving a scanned peer).
Task == [url : URL, start : Nat, by : {"loop", "go"},
         pc : {"pull", "hello", "save", "write", "rename"}, snap : SUBSET URL]

TypeOK ==
  /\ known \subseteq URL \ {Self} /\ Cardinality(known) <= MaxPeers
  /\ skip \in [URL -> Int] /\ \A u \in URL : skip[u] <= MaxBackoff
  /\ failures \in [URL -> 0..IntBits]
  /\ pullSince \in [URL -> Nat]
  /\ queue \subseteq known
  /\ tasks \subseteq Task
  /\ tmp \subseteq SUBSET URL /\ Cardinality(tmp) <= 1
  /\ file \subseteq URL
-----------------------------------------------------------------------------
(* Only the order of pull times matters: after each step the times in use  *)
(* are renumbered from 1 in their order.                                   *)

Times(ps, ts) == ({ps[u] : u \in URL} \cup {t.start : t \in ts}) \ {0}
Rank(S, x) == Cardinality({y \in S : y <= x})
RankedTimes(ps, ts) == [u \in URL |-> Rank(Times(ps, ts), ps[u])]
RankedTasks(ps, ts) ==
  {[t EXCEPT !.start = Rank(Times(ps, ts), t.start)] : t \in ts}
Fresh == 1 + Cardinality(Times(pullSince, tasks))

SetTimes(ps, ts) ==
  /\ pullSince' = RankedTimes(ps, ts)
  /\ tasks' = RankedTasks(ps, ts)
SetTasks(ts) == SetTimes(pullSince, ts)

\* A new goroutine running syncOne(u), from the reading of pullStart on.
NewTask(u, by) ==
  [url |-> u, start |-> Fresh, by |-> by, pc |-> "pull", snap |-> {}]

LoopIdle == queue = {} /\ \A t \in tasks : t.by # "loop"
Room(n) == Cardinality(tasks) + n <= MaxTasks
-----------------------------------------------------------------------------
(* addPeer under pt.mu, for one URL after the other: the first ones fit.   *)

\* Mutant: nothing limits the number of peers.
AddableUncapped(S) == {S \ (known \cup {Self})}

\* The sets that adding the URLs of S in some order can add.
Addable(S) ==
  LET new == S \ (known \cup {Self})
      cap == MaxPeers - Cardinality(known)
  IN  IF Cardinality(new) <= cap THEN {new}
      ELSE {T \in SUBSET new : Cardinality(T) = cap}

\* Mutant: the cache file is not loaded.
StartWithStaticOnly(cached) ==
  /\ known' = Static \ {Self}
  /\ tasks' = {[url |-> u, start |-> 1, by |-> "go", pc |-> "pull", snap |-> {}]
                : u \in Static \ {Self}}

\* The start of run: the cache file is loaded, then the static peers are added
\* and a goroutine is started for each that is known.
StartWith(cached) ==
  \E T \in {T \in SUBSET (Static \ (cached \cup {Self})) :
              Cardinality(T) = MaxPeers - Cardinality(cached)
                \/ /\ T = Static \ (cached \cup {Self})
                   /\ Cardinality(T) <= MaxPeers - Cardinality(cached)} :
    /\ known' = cached \cup T
    /\ tasks' = {[url |-> u, start |-> 1, by |-> "go", pc |-> "pull", snap |-> {}]
                  : u \in Static \cap (cached \cup T)}

Init ==
  /\ known = Static \ {Self} /\ Cardinality(known) <= MaxPeers
  /\ skip = [u \in URL |-> 0] /\ failures = [u \in URL |-> 0]
  /\ pullSince = [u \in URL |-> 0]
  /\ queue = {} /\ tmp = {} /\ file = {}
  /\ tasks = {[url |-> u, start |-> 1, by |-> "go", pc |-> "pull", snap |-> {}]
               : u \in known}

\* The process stops at any point and starts again.
Restart ==
  /\ StartWith(file \ {Self})
  /\ skip' = [u \in URL |-> 0] /\ failures' = [u \in URL |-> 0]
  /\ pullSince' = [u \in URL |-> 0]
  /\ queue' = {}
  /\ UNCHANGED <<tmp, file>>
-----------------------------------------------------------------------------
(* The loop.                                                               *)

\* Mutant: the peer pulled most recently is visited.
TickNewest ==
  /\ LoopIdle
  /\ LET ready == {u \in known : skip[u] <= 0}
         newest == {u \in ready : \A v \in ready : pullSince[u] >= pullSince[v]}
     IN  /\ skip' = [u \in URL |-> IF u \in known /\ skip[u] > 0
                                   THEN skip[u] - 1 ELSE skip[u]]
         /\ IF Rotate /\ ready # {} THEN \E u \in newest : queue' = {u}
                                    ELSE queue' = ready
  /\ UNCHANGED <<known, failures, pullSince, tasks, tmp, file>>

\* doSync: penalised peers wait one round less, the others are ready.  With
\* rotate only the one pulled least recently is visited.
Tick ==
  /\ LoopIdle
  /\ LET ready == {u \in known : skip[u] <= 0}
         oldest == {u \in ready : \A v \in ready : pullSince[u] <= pullSince[v]}
     IN  /\ skip' = [u \in URL |-> IF u \in known /\ skip[u] > 0
                                   THEN skip[u] - 1 ELSE skip[u]]
         /\ IF Rotate /\ ready # {} THEN \E u \in oldest : queue' = {u}
                                    ELSE queue' = ready
  /\ UNCHANGED <<known, failures, pullSince, tasks, tmp, file>>

\* The loop calls syncOne for the next peer and waits for it.
Visit(u) ==
  /\ u \in queue /\ \A t \in tasks : t.by # "loop"
  /\ queue' = queue \ {u}
  /\ SetTasks(tasks \cup {NewTask(u, "loop")})
  /\ UNCHANGED <<known, skip, failures, tmp, file>>

\* The LAN scan reports an address while the loop waits: a new peer is synced
\* in its own goroutine and the loop saves the list.
Discover(u) ==
  /\ LoopIdle /\ u \notin known /\ {u} \in Addable({u})
  /\ Room(2)
  /\ known' = known \cup {u}
  /\ SetTasks(tasks \cup {NewTask(u, "go"),
                          [NewTask(u, "loop") EXCEPT !.pc = "save"]})
  /\ UNCHANGED <<skip, failures, queue, tmp, file>>

\* SyncNow: all peers that are not penalised, in parallel.
SyncNow ==
  /\ LET ready == {u \in known : skip[u] = 0}
     IN  /\ ready # {} /\ Room(Cardinality(ready))
         /\ SetTasks(tasks \cup {NewTask(u, "go") : u \in ready})
  /\ UNCHANGED <<known, skip, failures, queue, tmp, file>>

\* A peer announces itself to our relay server: handleHello only adds it.
HelloFrom(u) ==
  /\ \E T \in Addable({u}) : known' = known \cup T
  /\ UNCHANGED <<skip, failures, pullSince, queue, tasks, tmp, file>>
-----------------------------------------------------------------------------
(* syncOne.                                                                *)

\* 1 << n in a signed integer of IntBits bits.
Shift1(n) ==
  CASE n < IntBits - 1 -> 2 ^ n
    [] n = IntBits - 1 -> 0 - 2 ^ n
    [] OTHER           -> 0

Rounds(n) == IF Shift1(n) > MaxBackoff THEN MaxBackoff ELSE Shift1(n)

\* Pull fails: one more failure, and the penalty it stands for.
PullFails(t) ==
  /\ t.pc = "pull"
  /\ LET n == IF failures[t.url] = IntBits THEN IntBits ELSE failures[t.url] + 1
     IN  /\ failures' = [failures EXCEPT ![t.url] = n]
         /\ skip' = [skip EXCEPT ![t.url] = Rounds(n)]
  /\ SetTasks(tasks \ {t})
  /\ UNCHANGED <<known, queue, tmp, file>>

\* Pull succeeds: the peer has recovered, its watermark is the start of the
\* pull.
PullSucceeds(t) ==
  /\ t.pc = "pull"
  /\ failures' = [failures EXCEPT ![t.url] = 0]
  /\ skip' = [skip EXCEPT ![t.url] = 0]
  /\ SetTimes([pullSince EXCEPT ![t.url] = t.start],
              (tasks \ {t}) \cup {[t EXCEPT !.pc = "hello", !.start = 0]})
  /\ UNCHANGED <<known, queue, tmp, file>>

\* Hello fails or names no new peer; what is left is the push.
HelloQuiet(t) ==
  /\ t.pc = "hello"
  /\ SetTasks(tasks \ {t})
  /\ UNCHANGED <<known, skip, failures, queue, tmp, file>>

\* Hello names the peers G: new ones are added and synced at once.
HelloGossip(t, G) ==
  /\ t.pc = "hello"
  /\ \E T \in Addable(G) :
       /\ T # {} /\ Room(Cardinality(T))
       /\ known' = known \cup T
       /\ SetTasks((tasks \ {t}) \cup {[t EXCEPT !.pc = "save"]}
                     \cup {NewTask(u, "go") : u \in T})
  /\ UNCHANGED <<skip, failures, queue, tmp, file>>
-----------------------------------------------------------------------------
(* savePeers: a snapshot under the lock, then one fixed temporary file,    *)
(* written and renamed without a lock.                                     *)

SaveSnapshot(t) ==
  /\ t.pc = "save"
  /\ SetTasks((tasks \ {t}) \cup {[t EXCEPT !.pc = "write", !.snap = known]})
  /\ UNCHANGED <<known, skip, failures, queue, tmp, file>>

SaveWrite(t) ==
  /\ t.pc = "write"
  /\ tmp' = {t.snap}
  /\ SetTasks((tasks \ {t}) \cup {[t EXCEPT !.pc = "rename", !.snap = {}]})
  /\ UNCHANGED <<known, skip, failures, queue, file>>

\* The rename fails when another save has already moved the file away.
SaveRename(t) ==
  /\ t.pc = "rename"
  /\ file' = IF tmp = {} THEN file ELSE UNION tmp
  /\ tmp' = {}
  /\ SetTasks(tasks \ {t})
  /\ UNCHANGED <<known, skip, failures, queue>>

TaskStep(t) ==
  \/ PullFails(t) \/ PullSucceeds(t) \/ HelloQuiet(t)
  \/ \E G \in SUBSET Gossiped : HelloGossip(t, G)
  \/ SaveSnapshot(t) \/ SaveWrite(t) \/ SaveRename(t)

LoopStep == Tick \/ \E u \in URL : Visit(u)

Next ==
  \/ LoopStep
  \/ \E t \in tasks : TaskStep(t)
  \/ \E u \in Scanned : Discover(u)
  \/ \E u \in Gossiped : HelloFrom(u)
  \/ SyncNow \/ Restart

Spec == Init /\ [][Next]_vars

\* The ticker fires and the loop's own syncOne goes on: every request carries
\* a 30 second timeout.  A peer that can be picked again and again is picked:
\* ties fall to Go's randomised map order.  In the end the process stays up.
FairSpec ==
  /\ Spec
  /\ WF_vars(LoopStep)
  /\ \A u \in URL : SF_vars(Tick /\ u \in queue')
  /\ WF_vars(\E t \in tasks : t.by = "loop" /\ TaskStep(t))
  /\ <>[][Restart => LoopStep \/ SyncNow \/ \E t \in tasks : TaskStep(t)]_vars
-----------------------------------------------------------------------------
\* A known peer is synced again and again.
Served(u) == []<>(u \notin known \/ \E t \in tasks : t.url = u)

\* No known peer stays dead: each answers again and again, after any number of
\* failures.
AllRecover == \A u \in URL : []<>(u \notin known \/ failures[u] = 0)

\* "each tick syncs one peer in round-robin order": every known peer is synced
\* again and again, however often the others fail, whatever gossip, LAN scans and
\* SyncNow add, as long as none of them stays dead.
RoundRobin == AllRecover => \A u \in URL : Served(u)

\* The same of peers that may stay dead: "Failing peers are already excluded via
\* skipRounds above", so that one that never answers leaves the others their turn.
DeadPeersYield == \A u \in URL : Served(u)

\* The cache file never names a peer that this process would not use: a restart
\* brings back what was saved, whichever save was interrupted.
FileKnown == file \subseteq known
=============================================================================
