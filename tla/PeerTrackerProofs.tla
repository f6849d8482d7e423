------------------------- MODULE PeerTrackerProofs --------------------------
(***************************************************************************)
(* Proofs about PeerTracker for any peers, any number of syncOne goroutines*)
(* and any width of Go's int, and about MobileEngine.                      *)
(***************************************************************************)
EXTENDS PeerTracker, MobileEngine, FiniteSetTheorems, TLAPS

\* What savePeers has on its way to the cache file lists known peers only.  A
\* temporary file that an earlier process has left behind need not: no rename
\* takes it before it is written again.
SavesKnown ==
  /\ \A t \in tasks : t.snap \subseteq known
  /\ (\E t \in tasks : t.pc = "rename") => UNION tmp \subseteq known

IInv ==
  /\ TypeOK
  /\ IsFiniteSet(tasks)
  /\ SavesKnown
  /\ FileKnown
-----------------------------------------------------------------------------
(* Finite sets: the image of one, ranks in one, and the peers that fit.    *)

\* The image of a finite set is finite.
LEMMA ImageFinite ==
  ASSUME NEW S, IsFiniteSet(S), NEW f, DOMAIN f = S, f = [x \in S |-> f[x]]
  PROVE  IsFiniteSet({f[x] : x \in S})
<1> DEFINE T == {f[x] : x \in S}
<1>1. f \in Surjection(S, T)
  BY DEF Surjection
<1> HIDE DEF T
<1> QED
  BY <1>1, FS_Surjection DEF T

\* Renumbering gives natural numbers.
LEMMA RankNat ==
  ASSUME NEW S, IsFiniteSet(S), NEW x
  PROVE  Rank(S, x) \in Nat
BY FS_Subset, FS_CardinalityType DEF Rank

\* The pull times in use are finitely many.
LEMMA TimesFinite ==
  ASSUME NEW ps \in [URL -> Nat], NEW ts \in SUBSET Task, IsFiniteSet(ts)
  PROVE  IsFiniteSet(Times(ps, ts))
<1>1. IsFiniteSet({ps[u] : u \in URL})
  BY TrackerAssumption, ImageFinite
<1>2. IsFiniteSet({t.start : t \in ts})
  <2> DEFINE f == [t \in ts |-> t.start]
  <2>1. IsFiniteSet({f[t] : t \in ts})
    BY ImageFinite
  <2>2. {f[t] : t \in ts} = {t.start : t \in ts}
    OBVIOUS
  <2> QED
    BY <2>1, <2>2
<1> QED
  BY <1>1, <1>2, FS_Union, FS_Difference DEF Times

\* SetTimes changes nothing of a task but its start, and keeps the types.
LEMMA SetTimesParts ==
  ASSUME NEW ps \in [URL -> Nat], NEW ts \in SUBSET Task, IsFiniteSet(ts),
         SetTimes(ps, ts)
  PROVE  /\ pullSince' \in [URL -> Nat]
         /\ tasks' \subseteq Task /\ IsFiniteSet(tasks')
         /\ \A t \in tasks' : \E s \in ts : t.pc = s.pc /\ t.snap = s.snap
<1> DEFINE R(x) == Rank(Times(ps, ts), x)
           f == [t \in ts |-> [t EXCEPT !.start = R(t.start)]]
<1>1. \A x : R(x) \in Nat
  BY TimesFinite, RankNat
<1>2. tasks' = {f[t] : t \in ts} /\ pullSince' = [u \in URL |-> R(ps[u])]
  BY DEF SetTimes, RankedTasks, RankedTimes
<1> HIDE DEF R
<1>3. IsFiniteSet(tasks')
  <2>1. DOMAIN f = ts /\ f = [t \in ts |-> f[t]]
    OBVIOUS
  <2> HIDE DEF f
  <2> QED
    BY <1>2, <2>1, ImageFinite
<1>4. \A t \in ts : f[t] \in Task /\ f[t].pc = t.pc /\ f[t].snap = t.snap
  BY <1>1 DEF Task
<1> HIDE DEF f
<1> QED
  BY <1>1, <1>2, <1>3, <1>4

\* addPeer adds some of the peers it is given, never itself, and not beyond
\* maxPeers.
LEMMA AddableFits ==
  ASSUME NEW S \in SUBSET URL, NEW T \in Addable(S),
         known \subseteq URL \ {Self}, Cardinality(known) <= MaxPeers
  PROVE  /\ T \subseteq S \ {Self}
         /\ known \cup T \subseteq URL \ {Self}
         /\ Cardinality(known \cup T) <= MaxPeers
<1> DEFINE new == S \ (known \cup {Self})
           cap == MaxPeers - Cardinality(known)
<1>1. IsFiniteSet(known) /\ IsFiniteSet(new)
  BY TrackerAssumption, FS_Subset
<1>2. Cardinality(known) \in Nat /\ MaxPeers \in Nat
  BY <1>1, FS_CardinalityType, TrackerAssumption
<1>3. T \subseteq new /\ Cardinality(T) <= cap
  <2>1. CASE Cardinality(new) <= cap
    BY <2>1 DEF Addable
  <2>2. CASE ~(Cardinality(new) <= cap)
    BY <1>2, <2>2 DEF Addable
  <2> QED
    BY <2>1, <2>2
<1>4. IsFiniteSet(T) /\ Cardinality(T) \in Nat
  BY <1>1, <1>3, FS_Subset, FS_CardinalityType
<1>5. known \cap T = {}
  BY <1>3
<1>6. Cardinality(known \cup T) = Cardinality(known) + Cardinality(T)
  <2>1. Cardinality(known \cup T) =
          Cardinality(known) + Cardinality(T) - Cardinality(known \cap T)
    BY <1>1, <1>4, FS_Union
  <2>2. Cardinality(known \cap T) = 0
    BY <1>5, FS_EmptySet
  <2> QED
    BY <1>2, <1>4, <2>1, <2>2
<1> QED
  BY <1>2, <1>3, <1>4, <1>6

\* The same when the cache file is loaded and the static peers are added.
LEMMA StartFits ==
  ASSUME NEW cached \in SUBSET (URL \ {Self}), Cardinality(cached) <= MaxPeers,
         StartWith(cached)
  PROVE  /\ cached \subseteq known' /\ known' \subseteq URL \ {Self}
         /\ Cardinality(known') <= MaxPeers
         /\ tasks' \subseteq Task /\ IsFiniteSet(tasks')
         /\ \A t \in tasks' : t.pc = "pull" /\ t.snap = {}
<1> DEFINE go(u) == [url |-> u, start |-> 1, by |-> "go", pc |-> "pull", snap |-> {}]
<1>1. PICK T \in SUBSET (Static \ (cached \cup {Self})) :
         /\ \/ Cardinality(T) = MaxPeers - Cardinality(cached)
            \/ Cardinality(T) <= MaxPeers - Cardinality(cached)
         /\ known' = cached \cup T
         /\ tasks' = {go(u) : u \in Static \cap (cached \cup T)}
  BY DEF StartWith
<1>2. IsFiniteSet(cached) /\ IsFiniteSet(T) /\ IsFiniteSet(Static \cap (cached \cup T))
  BY TrackerAssumption, FS_Subset
<1>3. Cardinality(cached) \in Nat /\ Cardinality(T) \in Nat /\ MaxPeers \in Nat
  BY <1>2, FS_CardinalityType, TrackerAssumption
<1>4. Cardinality(known') <= MaxPeers
  <2>1. Cardinality(cached \cup T) =
          Cardinality(cached) + Cardinality(T) - Cardinality(cached \cap T)
    BY <1>2, FS_Union
  <2>2. cached \cap T = {}
    OBVIOUS
  <2>3. Cardinality(cached \cap T) = 0
    BY <2>2, FS_EmptySet
  <2> QED
    BY <1>1, <1>3, <2>1, <2>3
<1>5. IsFiniteSet(tasks')
  <2> DEFINE S == Static \cap (cached \cup T)
             f == [u \in S |-> go(u)]
  <2>1. DOMAIN f = S /\ f = [u \in S |-> f[u]] /\ tasks' = {f[u] : u \in S}
    BY <1>1
  <2>2. IsFiniteSet(S)
    BY <1>2
  <2> HIDE DEF f, S
  <2> QED
    BY <2>1, <2>2, ImageFinite
<1> QED
  BY <1>1, <1>4, <1>5, TrackerAssumption DEF Task
-----------------------------------------------------------------------------
(* The tasks.                                                              *)

\* A new syncOne call is a task, and so are finitely many of them.
LEMMA NewTaskType ==
  ASSUME TypeOK, IsFiniteSet(tasks), NEW by \in {"loop", "go"}
  PROVE  /\ \A u \in URL : /\ NewTask(u, by) \in Task /\ NewTask(u, by).snap = {}
                            /\ NewTask(u, by).pc = "pull"
         /\ \A U \in SUBSET URL : IsFiniteSet({NewTask(u, by) : u \in U})
<1>1. Fresh \in Nat
  BY TimesFinite, FS_CardinalityType DEF Fresh, TypeOK
<1>2. ASSUME NEW U \in SUBSET URL PROVE IsFiniteSet({NewTask(u, by) : u \in U})
  <2> DEFINE f == [u \in U |-> NewTask(u, by)]
  <2>1. DOMAIN f = U /\ f = [u \in U |-> f[u]] /\ {NewTask(u,
  by) : u \in U} = {f[u] : u \in U}
    OBVIOUS
  <2>2. IsFiniteSet(U)
    BY TrackerAssumption, FS_Subset
  <2> HIDE DEF f
  <2> QED
    BY <2>1, <2>2, ImageFinite
<1> QED
  BY <1>1, <1>2 DEF NewTask, Task

\* Whatever a step does with the tasks: when the new ones save known peers
\* only, the saves are as they must be.
LEMMA TasksSafe ==
  ASSUME NEW ps \in [URL -> Nat], NEW ts \in SUBSET Task, IsFiniteSet(ts),
         SetTimes(ps, ts),
         \A t \in ts : t.snap \subseteq known',
         (\E t \in ts : t.pc = "rename") => UNION tmp' \subseteq known'
  PROVE  /\ pullSince' \in [URL -> Nat]
         /\ tasks' \subseteq Task /\ IsFiniteSet(tasks')
         /\ SavesKnown'
BY SetTimesParts DEF SavesKnown
-----------------------------------------------------------------------------
(* The invariant.                                                          *)

LEMMA InvInit == Init => IInv
<1> SUFFICES ASSUME Init PROVE IInv
  OBVIOUS
<1> DEFINE go(u) == [url |-> u, start |-> 1, by |-> "go", pc |-> "pull", snap |-> {}]
           f == [u \in known |-> go(u)]
<1>1. known \subseteq URL \ {Self} /\ IsFiniteSet(known)
  BY TrackerAssumption, FS_Subset DEF Init
<1>2. IsFiniteSet(tasks)
  <2>1. DOMAIN f = known /\ f = [u \in known |-> f[u]] /\ tasks = {f[u] : u \in known}
    BY DEF Init
  <2> HIDE DEF f
  <2> QED
    BY <1>1, <2>1, ImageFinite
<1>3. TypeOK
  BY <1>1, TrackerAssumption, FS_EmptySet DEF Init, TypeOK, Task
<1> QED
  BY <1>2, <1>3 DEF Init, IInv, SavesKnown, FileKnown

\* A penalty is at most maxBackoffRounds, also when 1 << n overflows.
LEMMA RoundsBounded ==
  ASSUME NEW n \in 0..IntBits
  PROVE  Rounds(n) \in Int /\ Rounds(n) <= MaxBackoff
<1>1. n \in Nat
  BY TrackerAssumption
<1>2. 2 ^ n \in Int
  BY <1>1
<1>3. Shift1(n) \in Int
  BY <1>1, <1>2, TrackerAssumption DEF Shift1
<1> QED
  BY <1>3, TrackerAssumption DEF Rounds

\* Every step of the loop, of a task, of a neighbour and every restart keeps the
\* inductive invariant.
LEMMA InvNext == IInv /\ [Next]_vars => IInv'
<1> SUFFICES ASSUME IInv, [Next]_vars PROVE IInv'
  OBVIOUS
<1>0. /\ TypeOK /\ IsFiniteSet(tasks) /\ file \subseteq known /\ pullSince \in [URL -> Nat]
      /\ tasks \subseteq Task /\ known \subseteq URL \ {Self} /\ Cardinality(known) <= MaxPeers
      /\ \A t \in tasks : t.snap \subseteq known /\ t.url \in URL
      /\ (\E t \in tasks : t.pc = "rename") => UNION tmp \subseteq known
  BY DEF IInv, TypeOK, FileKnown, SavesKnown, Task
<1>1. CASE Tick
  BY <1>1, TrackerAssumption DEF Tick, IInv, TypeOK, SavesKnown, FileKnown
<1>2. ASSUME NEW u \in URL, Visit(u) PROVE IInv'
  <2> DEFINE ts == tasks \cup {NewTask(u, "loop")}
  <2>1. /\ SetTimes(pullSince, ts) /\ queue' = queue \ {u}
        /\ UNCHANGED <<known, skip, failures, tmp, file>>
    BY <1>2 DEF Visit, SetTasks
  <2>2. /\ ts \subseteq Task /\ \A t \in ts : t.snap \subseteq known
        /\ (\E t \in ts : t.pc = "rename") => UNION tmp \subseteq known
    BY <1>0, NewTaskType
  <2>3. IsFiniteSet(ts)
    BY <1>0, FS_AddElement
  <2> HIDE DEF ts
  <2>4. /\ pullSince' \in [URL -> Nat] /\ tasks' \subseteq Task /\ IsFiniteSet(tasks')
        /\ SavesKnown'
    BY <1>0, <2>1, <2>2, <2>3, TasksSafe
  <2> QED
    BY <2>1, <2>4 DEF IInv, TypeOK, FileKnown
<1>3. ASSUME NEW u \in Scanned, Discover(u) PROVE IInv'
  <2> DEFINE new == [NewTask(u, "loop") EXCEPT !.pc = "save"]
             ts == tasks \cup {NewTask(u, "go"), new}
  <2>0. u \in URL
    BY TrackerAssumption
  <2>1. /\ SetTimes(pullSince, ts) /\ known' = known \cup {u}
        /\ UNCHANGED <<skip, failures, queue, tmp, file>>
    BY <1>3 DEF Discover, SetTasks
  <2>2. known' \subseteq URL \ {Self} /\ Cardinality(known') <= MaxPeers
    BY <1>0, <1>3, <2>0, <2>1, AddableFits DEF Discover
  <2>3. new \in Task /\ new.snap = {} /\ new.pc = "save"
    BY <1>0, <2>0, NewTaskType DEF Task
  <2> HIDE DEF new
  <2>4. /\ ts \subseteq Task /\ \A t \in ts : t.snap \subseteq known'
        /\ (\E t \in ts : t.pc = "rename") => UNION tmp' \subseteq known'
    BY <1>0, <2>0, <2>1, <2>3, NewTaskType
  <2>5. IsFiniteSet(ts)
    <3>1. ts = (tasks \cup {NewTask(u, "go")}) \cup {new}
      OBVIOUS
    <3> QED
      BY <1>0, <3>1, FS_AddElement
  <2> HIDE DEF ts
  <2>6. /\ pullSince' \in [URL -> Nat] /\ tasks' \subseteq Task /\ IsFiniteSet(tasks')
        /\ SavesKnown'
    BY <1>0, <2>1, <2>4, <2>5, TasksSafe
  <2> QED
    BY <2>1, <2>2, <2>6 DEF IInv, TypeOK, FileKnown
<1>4. CASE SyncNow
  <2> DEFINE ready == {u \in known : skip[u] = 0}
             ts == tasks \cup {NewTask(u, "go") : u \in ready}
  <2>1. SetTimes(pullSince, ts) /\ UNCHANGED <<known, skip, failures, queue, tmp, file>>
    BY <1>4 DEF SyncNow, SetTasks
  <2>2. ready \subseteq URL
    BY <1>0
  <2> HIDE DEF ready
  <2>3. /\ ts \subseteq Task /\ \A t \in ts : t.snap \subseteq known
        /\ (\E t \in ts : t.pc = "rename") => UNION tmp \subseteq known
    BY <1>0, <2>2, NewTaskType
  <2>4. IsFiniteSet(ts)
    BY <1>0, <2>2, NewTaskType, FS_Union
  <2> HIDE DEF ts
  <2>5. /\ pullSince' \in [URL -> Nat] /\ tasks' \subseteq Task /\ IsFiniteSet(tasks')
        /\ SavesKnown'
    BY <1>0, <2>1, <2>3, <2>4, TasksSafe
  <2> QED
    BY <2>1, <2>5 DEF IInv, TypeOK, FileKnown
<1>5. ASSUME NEW u \in Gossiped, HelloFrom(u) PROVE IInv'
  <2>1. PICK T \in Addable({u}) : known' = known \cup T
    BY <1>5 DEF HelloFrom
  <2>2. known' \subseteq URL \ {Self} /\ Cardinality(known') <= MaxPeers
    BY <1>0, <2>1, AddableFits, TrackerAssumption
  <2> QED
    BY <1>5, <2>1, <2>2 DEF HelloFrom, IInv, TypeOK, SavesKnown, FileKnown
<1>6. CASE Restart
  <2>1. /\ file \ {Self} \subseteq URL \ {Self} /\ file \ {Self} = file
        /\ Cardinality(file) <= MaxPeers
    <3>1. IsFiniteSet(known)
      BY <1>0, TrackerAssumption, FS_Subset
    <3>2. Cardinality(file) <= Cardinality(known)
      BY <1>0, <3>1, FS_Subset
    <3>3. Cardinality(file) \in Nat /\ Cardinality(known) \in Nat
      BY <1>0, <3>1, FS_Subset, FS_CardinalityType
    <3> QED
      BY <1>0, <3>2, <3>3, TrackerAssumption
  <2>2. /\ file \subseteq known' /\ known' \subseteq URL \ {Self}
        /\ Cardinality(known') <= MaxPeers
        /\ tasks' \subseteq Task /\ IsFiniteSet(tasks')
        /\ \A t \in tasks' : t.pc = "pull" /\ t.snap = {}
    BY <1>6, <2>1, StartFits DEF Restart
  <2>3. SavesKnown'
    BY <2>2 DEF SavesKnown
  <2> QED
    BY <1>6, <2>2, <2>3, TrackerAssumption DEF Restart, IInv, TypeOK, FileKnown
<1>7. ASSUME NEW t \in tasks, PullFails(t) PROVE IInv'
  <2> DEFINE n == IF failures[t.url] = IntBits THEN IntBits ELSE failures[t.url] + 1
  <2>1. /\ SetTimes(pullSince, tasks \ {t}) /\ UNCHANGED <<known, queue, tmp, file>>
        /\ failures' = [failures EXCEPT ![t.url] = n]
        /\ skip' = [skip EXCEPT ![t.url] = Rounds(n)]
    BY <1>7 DEF PullFails, SetTasks
  <2>2. n \in 0..IntBits
    BY <1>0, TrackerAssumption DEF TypeOK
  <2>3. Rounds(n) \in Int /\ Rounds(n) <= MaxBackoff
    BY <2>2, RoundsBounded
  <2> HIDE DEF n
  <2>4. /\ pullSince' \in [URL -> Nat] /\ tasks' \subseteq Task /\ IsFiniteSet(tasks')
        /\ SavesKnown'
    BY <1>0, <2>1, TasksSafe, FS_RemoveElement
  <2>5. failures' \in [URL -> 0..IntBits]
    BY <1>0, <2>1, <2>2 DEF TypeOK
  <2>6. skip' \in [URL -> Int] /\ \A u \in URL : skip'[u] <= MaxBackoff
    BY <1>0, <2>1, <2>3 DEF TypeOK
  <2> QED
    BY <2>1, <2>4, <2>5, <2>6 DEF IInv, TypeOK, FileKnown
<1>8. ASSUME NEW t \in tasks, PullSucceeds(t) PROVE IInv'
  <2> DEFINE ps == [pullSince EXCEPT ![t.url] = t.start]
             new == [t EXCEPT !.pc = "hello", !.start = 0]
             ts == (tasks \ {t}) \cup {new}
  <2>1. /\ SetTimes(ps, ts) /\ UNCHANGED <<known, queue, tmp, file>>
        /\ failures' = [failures EXCEPT ![t.url] = 0]
        /\ skip' = [skip EXCEPT ![t.url] = 0]
    BY <1>8 DEF PullSucceeds
  <2>2. new \in Task /\ new.pc = "hello" /\ new.snap = t.snap /\ ps \in [URL -> Nat]
    <3>1. t \in Task
      BY <1>0
    <3>2. new \in Task /\ new.pc = "hello" /\ new.snap = t.snap
      BY <3>1 DEF Task
    <3>3. t.start \in Nat
      BY <3>1 DEF Task
    <3> QED
      BY <1>0, <3>2, <3>3
  <2> HIDE DEF new, ps
  <2>3. /\ ts \subseteq Task /\ \A s \in ts : s.snap \subseteq known
        /\ (\E s \in ts : s.pc = "rename") => UNION tmp \subseteq known
    BY <1>0, <2>2
  <2>4. IsFiniteSet(ts)
    BY <1>0, FS_RemoveElement, FS_AddElement
  <2> HIDE DEF ts
  <2>5. /\ pullSince' \in [URL -> Nat] /\ tasks' \subseteq Task /\ IsFiniteSet(tasks')
        /\ SavesKnown'
    BY <2>1, <2>2, <2>3, <2>4, TasksSafe
  <2>6. failures' \in [URL -> 0..IntBits] /\ skip' \in [URL -> Int]
    BY <1>0, <2>1, TrackerAssumption DEF TypeOK
  <2>7. \A u \in URL : skip'[u] <= MaxBackoff
    BY <1>0, <2>1, TrackerAssumption DEF TypeOK
  <2> QED
    BY <2>1, <2>5, <2>6, <2>7 DEF IInv, TypeOK, FileKnown
<1>9. ASSUME NEW t \in tasks, HelloQuiet(t) PROVE IInv'
  <2>1. /\ SetTimes(pullSince, tasks \ {t})
        /\ UNCHANGED <<known, skip, failures, queue, tmp, file>>
    BY <1>9 DEF HelloQuiet, SetTasks
  <2>2. /\ pullSince' \in [URL -> Nat] /\ tasks' \subseteq Task /\ IsFiniteSet(tasks')
        /\ SavesKnown'
    BY <1>0, <2>1, TasksSafe, FS_RemoveElement
  <2> QED
    BY <2>1, <2>2 DEF IInv, TypeOK, FileKnown
<1>10. ASSUME NEW t \in tasks, NEW G \in SUBSET Gossiped, HelloGossip(t, G) PROVE IInv'
  <2>1. PICK T \in Addable(G) :
          /\ known' = known \cup T
          /\ SetTimes(pullSince, (tasks \ {t}) \cup {[t EXCEPT !.pc = "save"]}
                                   \cup {NewTask(u, "go") : u \in T})
    BY <1>10 DEF HelloGossip, SetTasks
  <2>2. UNCHANGED <<skip, failures, queue, tmp, file>>
    BY <1>10 DEF HelloGossip
  <2>3. /\ known' \subseteq URL \ {Self} /\ Cardinality(known') <= MaxPeers
        /\ T \subseteq URL
    BY <1>0, <2>1, AddableFits, TrackerAssumption
  <2> DEFINE new == [t EXCEPT !.pc = "save"]
             calls == {NewTask(u, "go") : u \in T}
             ts == (tasks \ {t}) \cup {new} \cup calls
  <2>4. new \in Task /\ new.pc = "save" /\ new.snap = t.snap
    BY <1>0 DEF Task
  <2>5. SetTimes(pullSince, ts)
    BY <2>1
  <2>6. /\ calls \subseteq Task /\ IsFiniteSet(calls)
        /\ \A s \in calls : s.pc = "pull" /\ s.snap = {}
    BY <1>0, <2>3, NewTaskType
  <2> HIDE DEF new, calls
  <2>7. /\ ts \subseteq Task /\ \A s \in ts : s.snap \subseteq known'
        /\ (\E s \in ts : s.pc = "rename") => UNION tmp' \subseteq known'
    BY <1>0, <2>1, <2>2, <2>4, <2>6
  <2>8. IsFiniteSet(ts)
    BY <1>0, <2>6, FS_RemoveElement, FS_AddElement, FS_Union
  <2> HIDE DEF ts
  <2>9. /\ pullSince' \in [URL -> Nat] /\ tasks' \subseteq Task /\ IsFiniteSet(tasks')
        /\ SavesKnown'
    BY <1>0, <2>5, <2>7, <2>8, TasksSafe
  <2> QED
    BY <1>0, <2>1, <2>2, <2>3, <2>9 DEF IInv, TypeOK, FileKnown
<1>11. ASSUME NEW t \in tasks, SaveSnapshot(t) \/ SaveWrite(t) PROVE IInv'
  <2> DEFINE new == IF t.pc = "save" THEN [t EXCEPT !.pc = "write", !.snap = known]
                                     ELSE [t EXCEPT !.pc = "rename", !.snap = {}]
             ts == (tasks \ {t}) \cup {new}
  <2>1. /\ SetTimes(pullSince, ts)
        /\ UNCHANGED <<known, skip, failures, queue, file>>
        /\ \/ t.pc = "save" /\ tmp' = tmp
           \/ t.pc = "write" /\ tmp' = {t.snap}
    BY <1>11 DEF SaveSnapshot, SaveWrite, SetTasks
  <2>2. new \in Task /\ new.snap \subseteq known /\ (t.pc = "save" => new.pc = "write")
    <3>1. t \in Task /\ known \in SUBSET URL
      BY <1>0
    <3>2. CASE t.pc = "save"
      BY <3>1, <3>2 DEF Task
    <3>3. CASE t.pc # "save"
      BY <3>1, <3>3 DEF Task
    <3> QED
      BY <3>2, <3>3
  <2> HIDE DEF new
  <2>3. /\ ts \subseteq Task /\ \A s \in ts : s.snap \subseteq known'
        /\ (\E s \in ts : s.pc = "rename") => UNION tmp' \subseteq known'
    BY <1>0, <2>1, <2>2
  <2>4. IsFiniteSet(ts)
    BY <1>0, FS_RemoveElement, FS_AddElement
  <2> HIDE DEF ts
  <2>5. /\ pullSince' \in [URL -> Nat] /\ tasks' \subseteq Task /\ IsFiniteSet(tasks')
        /\ SavesKnown'
    BY <1>0, <2>1, <2>3, <2>4, TasksSafe
  <2>6. tmp' \subseteq SUBSET URL /\ Cardinality(tmp') <= 1
    <3>1. t.snap \in SUBSET URL
      BY <1>0 DEF Task
    <3>2. Cardinality({t.snap}) <= 1
      BY FS_Singleton
    <3> QED
      BY <1>0, <2>1, <3>1, <3>2 DEF TypeOK
  <2> QED
    BY <2>1, <2>5, <2>6 DEF IInv, TypeOK, FileKnown
<1>12. ASSUME NEW t \in tasks, SaveRename(t) PROVE IInv'
  <2>1. /\ SetTimes(pullSince, tasks \ {t}) /\ UNCHANGED <<known, skip, failures, queue>>
        /\ file' = (IF tmp = {} THEN file ELSE UNION tmp) /\ tmp' = {}
        /\ UNION tmp \subseteq known
    BY <1>0, <1>12 DEF SaveRename, SetTasks
  <2>2. /\ pullSince' \in [URL -> Nat] /\ tasks' \subseteq Task /\ IsFiniteSet(tasks')
        /\ SavesKnown'
    BY <1>0, <2>1, TasksSafe, FS_RemoveElement
  <2>3. file' \subseteq known'
    BY <1>0, <2>1
  <2> QED
    BY <1>0, <2>1, <2>2, <2>3, FS_EmptySet DEF IInv, TypeOK, FileKnown
<1>13. CASE UNCHANGED vars
  BY <1>13 DEF vars, IInv, TypeOK, SavesKnown, FileKnown
<1> QED
  BY <1>1, <1>2, <1>3, <1>4, <1>5, <1>6, <1>7, <1>8, <1>9, <1>10, <1>11, <1>12, <1>13
     DEF Next, LoopStep, TaskStep

\* The inductive invariant holds in every reachable state.
THEOREM TrackerInvariant == Spec => []IInv
BY InvInit, InvNext, PTL DEF Spec

\* The types, which say that the tracker never knows itself nor more than
\* maxPeers peers, and that no penalty exceeds maxBackoffRounds, whatever is
\* gossiped, scanned or loaded and however often a peer fails.
THEOREM TypeCorrect == Spec => []TypeOK
<1>1. IInv => TypeOK
  BY DEF IInv
<1> QED
  BY <1>1, TrackerInvariant, PTL

\* FileKnown: the cache file lists known peers only, however saves interleave on
\* their one temporary file and wherever the process is stopped.
THEOREM CacheKnown == Spec => []FileKnown
<1>1. IInv => FileKnown
  BY DEF IInv
<1> QED
  BY <1>1, TrackerInvariant, PTL
-----------------------------------------------------------------------------
(***************************************************************************)
(* The tracker of the mobile engine, whose module shares no constant and   *)
(* no variable with PeerTracker: proofs for any number of peers, runners   *)
(* and saves.                                                              *)
(***************************************************************************)
\* A list says of an untracked peer neither that it is blocked nor when it was
\* synced; this holds of the list in memory and of every snapshot of it, so that
\* it survives a restart.
Clean(s) == s.blocked \subseteq s.peers /\ \A u \in PeerURL \ s.peers : s.lastSync[u] = 0

\* Every snapshot that a restart may bring back.
Snapshots == saves \cup {peersFile}

SnapshotsClean == \A s \in Snapshots : Clean(s)

\* Every block that a round may transfer.
Blocks == waiting \cup unsent

\* A block that LastSync may pass.
Excused(b) == b.late \/ b.left

\* What no restart makes a round pass: the same for LastSync as it was saved.
SavedOnlyLateLost ==
  \A s \in Snapshots, b \in Blocks :
    b.url \in s.peers /\ b.at < s.lastSync[b.url] => Excused(b)

\* A round under way passes excused blocks only: before its pull those that are
\* older than its start, after it every block the peer still has, and after the
\* push every block that is still here.
RoundPasses ==
  \A r \in Runner :
    /\ round[r].pc \in {"pull", "push", "record"} =>
         \A b \in Blocks : b.url = round[r].url /\ b.at < round[r].since => Excused(b)
    /\ round[r].pc \in {"push", "record"} =>
         \A b \in waiting : b.url = round[r].url => Excused(b)
    /\ round[r].pc = "record" =>
         \A b \in unsent : b.url = round[r].url => Excused(b)

MobileInv ==
  /\ EngineTypeOK
  /\ SnapshotsClean
  /\ OnlyLateLost
  /\ SavedOnlyLateLost
  /\ RoundPasses
-----------------------------------------------------------------------------
(* Rounds and saves.                                                       *)

\* A round that is not idle has a peer and a time from which it starts.
LEMMA RoundFields ==
  ASSUME EngineTypeOK, NEW r \in Runner, round[r].pc # "idle"
  PROVE  /\ round[r] \in [pc : {"since", "pull", "push", "record"},
                          url : PeerURL, since : Time]
         /\ round[r].url \in PeerURL /\ round[r].since \in Time
BY DEF EngineTypeOK, Round

\* A save takes a snapshot of a list that is well typed and clean.
LEMMA SavedType ==
  ASSUME EngineTypeOK, SnapshotsClean, Saved, UNCHANGED peersFile,
         peers' \subseteq PeerURL, blocked' \subseteq peers', lastSync' \in [PeerURL -> Time],
         \A u \in PeerURL \ peers' : lastSync'[u] = 0
  PROVE  saves' \subseteq Snapshot /\ SnapshotsClean'
BY DEF EngineTypeOK, SnapshotsClean, Snapshots, Clean, Saved, Snapshot

\* What a transfer leaves of a set of blocks: blocks that were there, no less
\* excused than before, and of those that it listed only excused ones.
LEMMA TransferParts ==
  ASSUME NEW S \in SUBSET Block, NEW r, NEW left \in SUBSET Listed(S, r),
         NEW c \in Transferred(S, r, left)
  PROVE  /\ c \in Block
         /\ \E b \in S : c.url = b.url /\ c.at = b.at /\ (Excused(b) => Excused(c))
         /\ c.url = round[r].url => Excused(c) \/ (c \in S /\ ~(c.at >= round[r].since))
<1>1. CASE c \in S \ Listed(S, r)
  BY <1>1 DEF Listed
<1>2. ASSUME NEW b \in left, c = [b EXCEPT !.left = TRUE]
      PROVE  /\ c \in Block
             /\ \E d \in S : c.url = d.url /\ c.at = d.at /\ (Excused(d) => Excused(c))
             /\ Excused(c)
  <2>1. b \in S /\ b \in Block
    BY DEF Listed
  <2>2. c \in Block /\ c.url = b.url /\ c.at = b.at /\ c.left
    BY <1>2, <2>1 DEF Block
  <2> QED
    BY <2>1, <2>2 DEF Excused
<1> QED
  BY <1>1, <1>2 DEF Transferred
-----------------------------------------------------------------------------
(* Type correctness.                                                       *)

MobileTypeInv == EngineTypeOK /\ SnapshotsClean

LEMMA MobileTypeInit ==
  EngineInit => MobileTypeInv
BY EngineAssumption DEF EngineInit, MobileTypeInv, EngineTypeOK, SnapshotsClean,
       Snapshots, Clean, Snapshot, Round, Idle, Time

\* Every edit of the list, every step of a round, every save and every restart
\* keeps the types.
LEMMA MobileTypeNext ==
  MobileTypeInv /\ [EngineNext]_engineVars => MobileTypeInv'
<1> SUFFICES ASSUME MobileTypeInv, [EngineNext]_engineVars PROVE MobileTypeInv'
  OBVIOUS
<1> USE DEF MobileTypeInv
<1>0. now \in Time /\ 0 \in Time
  BY EngineAssumption DEF EngineTypeOK, Time
<1>1. ASSUME NEW u \in PeerURL, Add(u) PROVE MobileTypeInv'
  BY <1>1, SavedType DEF Add, EngineTypeOK
<1>2. ASSUME NEW u \in PeerURL, AddQuietly(u) PROVE MobileTypeInv'
  BY <1>2 DEF AddQuietly, EngineTypeOK, SnapshotsClean, Snapshots, Clean
<1>3. ASSUME NEW u \in PeerURL, Remove(u) PROVE MobileTypeInv'
  <2>1. lastSync' \in [PeerURL -> Time] /\ \A v \in PeerURL \ peers' : lastSync'[v] = 0
    BY <1>0, <1>3 DEF Remove, EngineTypeOK
  <2> QED
    BY <1>3, <2>1, SavedType DEF Remove, EngineTypeOK
<1>4. ASSUME NEW u \in PeerURL, BlockPeer(u) PROVE MobileTypeInv'
  BY <1>4, SavedType DEF BlockPeer, EngineTypeOK
<1>5. ASSUME NEW u \in PeerURL, Unblock(u) PROVE MobileTypeInv'
  BY <1>5, SavedType DEF Unblock, EngineTypeOK
<1>6. ASSUME NEW r \in Runner, PickPeer(r) PROVE MobileTypeInv'
  BY <1>0, <1>6 DEF PickPeer, Active, EngineTypeOK, Round,
                    list,
                    SnapshotsClean, Snapshots, Clean
<1>7. ASSUME NEW r \in Runner, ReadSince(r) PROVE MobileTypeInv'
  <2>1. /\ round[r] \in [pc : {"since", "pull", "push", "record"},
                           url : PeerURL, since : Time]
        /\ lastSync[round[r].url] \in Time
    BY <1>7, RoundFields DEF ReadSince, EngineTypeOK
  <2>2. round' \in [Runner -> Round]
    BY <1>7, <2>1 DEF ReadSince, EngineTypeOK, Round
  <2> QED
    BY <1>7, <2>2 DEF ReadSince, EngineTypeOK, list, SnapshotsClean,
                      Snapshots, Clean
<1>8. ASSUME NEW r \in Runner, Pull(r) \/ EnginePullFails(r) PROVE MobileTypeInv'
  <2>1. round' \in [Runner -> Round]
    BY <1>8, RoundFields DEF Pull, EnginePullFails, EngineTypeOK, Round, Idle
  <2>2. waiting' \subseteq Block
    <3>1. waiting \in SUBSET Block
      BY DEF EngineTypeOK
    <3>2. CASE waiting' \subseteq waiting
      BY <3>1, <3>2
    <3>3. ASSUME NEW left \in SUBSET Listed(waiting, r), waiting' = Transferred(waiting, r, left)
          PROVE  waiting' \subseteq Block
      BY <3>1, <3>3, TransferParts
    <3> QED
      BY <1>8, <3>2, <3>3 DEF Pull, EnginePullFails
  <2>3. UNCHANGED <<now, list, saves, peersFile, unsent>>
    BY <1>8 DEF Pull, EnginePullFails
  <2> QED
    BY <2>1, <2>2, <2>3 DEF EngineTypeOK, list, SnapshotsClean, Snapshots, Clean
<1>9. ASSUME NEW r \in Runner, Push(r) PROVE MobileTypeInv'
  <2>1. round' \in [Runner -> Round]
    BY <1>9, RoundFields DEF Push, EngineTypeOK, Round
  <2>2. unsent' \subseteq Block
    <3>1. unsent \in SUBSET Block
      BY DEF EngineTypeOK
    <3>2. PICK left \in SUBSET Listed(unsent, r) : unsent' = Transferred(unsent, r, left)
      BY <1>9 DEF Push
    <3> QED
      BY <3>1, <3>2, TransferParts
  <2>3. UNCHANGED <<now, list, saves, peersFile, waiting>>
    BY <1>9 DEF Push
  <2> QED
    BY <2>1, <2>2, <2>3 DEF EngineTypeOK, list, SnapshotsClean, Snapshots, Clean
<1>10. ASSUME NEW r \in Runner, RecordSuccess(r) PROVE MobileTypeInv'
  <2>1. round' \in [Runner -> Round]
    BY <1>10 DEF RecordSuccess, EngineTypeOK, Round, Idle
  <2>2. lastSync' \in [PeerURL -> Time] /\ \A v \in PeerURL \ peers' : lastSync'[v] = 0
    BY <1>0, <1>10, RoundFields DEF RecordSuccess, EngineTypeOK
  <2> QED
    BY <1>10, <2>1, <2>2, SavedType DEF RecordSuccess, EngineTypeOK
<1>11. ASSUME NEW u \in PeerURL, Arrive(u) PROVE MobileTypeInv'
  <2>1. PICK at \in Time, late \in BOOLEAN :
          LET b == [url |-> u, at |-> at, left |-> FALSE, late |-> late]
          IN  \/ waiting' = waiting \cup {b} /\ unsent' = unsent
              \/ unsent' = unsent \cup {b} /\ waiting' = waiting
    <3>1. \A at \in Time : \A pcs : (At(u, pcs) \/ Passed(u, at)) \in BOOLEAN
      BY DEF At, Passed
    <3> QED
      BY <1>11, <3>1 DEF Arrive
  <2>2. [url |-> u, at |-> at, left |-> FALSE, late |-> late] \in Block
    BY DEF Block
  <2>3. UNCHANGED <<now, list, round, saves, peersFile>>
    BY <1>11 DEF Arrive
  <2> QED
    BY <2>1, <2>2, <2>3 DEF EngineTypeOK, list, SnapshotsClean, Snapshots, Clean
<1>12. CASE EngineSaveRename
  BY <1>12 DEF EngineSaveRename, EngineTypeOK, list, SnapshotsClean, Snapshots,
               Clean
<1>13. CASE EngineRestart
  BY <1>13 DEF EngineRestart, EngineTypeOK, Snapshot, Round, Idle,
               SnapshotsClean, Snapshots, Clean
<1>14. CASE EngineTick
  BY <1>14, EngineAssumption DEF EngineTick, EngineTypeOK, list,
               SnapshotsClean, Snapshots, Clean
<1>15. CASE UNCHANGED engineVars
  BY <1>15 DEF engineVars, EngineTypeOK, list, SnapshotsClean, Snapshots, Clean
<1> QED
  BY <1>1, <1>2, <1>3, <1>4, <1>5, <1>6, <1>7, <1>8, <1>9, <1>10, <1>11, <1>12,
     <1>13, <1>14, <1>15 DEF EngineNext, Edit, Step

\* The types of the peer list, of the rounds and of the saved snapshots hold in
\* every reachable state, restarts and racing saves included.
THEOREM MobileTypeCorrect == EngineSpec => []EngineTypeOK
<1>1. MobileTypeInv => EngineTypeOK
  BY DEF MobileTypeInv
<1> QED
  BY <1>1, MobileTypeInit, MobileTypeNext, PTL DEF EngineSpec
-----------------------------------------------------------------------------
(* No block is passed but an excused one.                                  *)

LEMMA MobileInvInit ==
  EngineInit => MobileInv
<1> SUFFICES ASSUME EngineInit PROVE MobileInv
  OBVIOUS
<1>1. MobileTypeInv
  BY MobileTypeInit
<1> QED
  BY <1>1 DEF EngineInit, MobileTypeInv, MobileInv, Snapshots, Blocks, OnlyLateLost,
              SavedOnlyLateLost, RoundPasses, Idle

\* The blocks are left alone and a list is saved whose times pass excused blocks
\* only: so is every snapshot then.
LEMMA SavedSafe ==
  ASSUME MobileInv, Saved, UNCHANGED <<peersFile, waiting, unsent>>, OnlyLateLost'
  PROVE  SavedOnlyLateLost'
<1> DEFINE new == [peers |-> peers', blocked |-> blocked', lastSync |-> lastSync']
<1>1. Snapshots' = Snapshots \cup {new} /\ Blocks' = Blocks
  BY DEF Saved, Snapshots, Blocks
<1>2. new.lastSync = lastSync' /\ new.peers = peers'
  OBVIOUS
<1>3. \A b \in Blocks' : b.url \in new.peers /\ b.at < new.lastSync[b.url] => Excused(b)
  BY <1>2 DEF OnlyLateLost, Blocks, Excused
<1>4. \A s \in Snapshots, b \in Blocks :
        b.url \in s.peers /\ b.at < s.lastSync[b.url] => Excused(b)
  BY DEF MobileInv, SavedOnlyLateLost
<1> QED
  BY <1>1, <1>3, <1>4 DEF SavedOnlyLateLost

\* An edit of the list leaves the rounds and the blocks alone, and a peer that
\* it adds has not been synced.
LEMMA EditSafe ==
  ASSUME MobileInv, MobileTypeInv', NEW u \in PeerURL, Edit(u)
  PROVE  MobileInv'
<1>1. UNCHANGED <<now, round, peersFile, waiting, unsent>>
  BY DEF Edit, Add, AddQuietly, Remove, BlockPeer,
         Unblock
<1>2. RoundPasses' /\ Blocks' = Blocks
  BY <1>1 DEF MobileInv, RoundPasses, Blocks
<1>3. /\ \A v \in PeerURL : lastSync'[v] \in {0, lastSync[v]}
      /\ \A v \in PeerURL : v \in peers' \ peers => lastSync'[v] = 0
  BY DEF MobileInv, EngineTypeOK, Edit, Add, AddQuietly,
         Remove, BlockPeer, Unblock
<1>4. \A b \in Blocks : b.url \in PeerURL /\ b.at \in Nat
  BY EngineAssumption DEF MobileInv, EngineTypeOK, Block, Blocks, Time
<1>5. OnlyLateLost'
  BY <1>1, <1>3, <1>4 DEF MobileInv, OnlyLateLost, Blocks
<1>6. SavedOnlyLateLost'
  <2>1. CASE Saved
    BY <1>1, <1>5, <2>1, SavedSafe
  <2>2. CASE AddQuietly(u)
    BY <1>1, <1>2, <2>2 DEF AddQuietly, MobileInv, SavedOnlyLateLost, Snapshots
  <2> QED
    BY <2>1, <2>2 DEF Edit, Add, Remove, BlockPeer, Unblock
<1> QED
  BY <1>2, <1>5, <1>6 DEF MobileInv, MobileTypeInv

\* Every step keeps the inductive invariant.
LEMMA MobileInvNext ==
  MobileInv /\ MobileTypeInv' /\ [EngineNext]_engineVars => MobileInv'
<1> SUFFICES ASSUME MobileInv, MobileTypeInv', [EngineNext]_engineVars PROVE MobileInv'
  OBVIOUS
<1>0. /\ \A v \in PeerURL : lastSync[v] \in Nat
      /\ \A b \in Blocks : b.url \in PeerURL /\ b.at \in Nat
  BY EngineAssumption DEF MobileInv, EngineTypeOK, Time, Block, Blocks
<1>1. ASSUME NEW u \in PeerURL, Edit(u) PROVE MobileInv'
  BY <1>1, EditSafe
<1>2. ASSUME NEW r \in Runner, PickPeer(r) PROVE MobileInv'
  <2>1. UNCHANGED <<now, list, saves, peersFile, waiting, unsent>>
    BY <1>2 DEF PickPeer
  <2>2. PICK u \in Active :
          round' = [round EXCEPT ![r] = [pc |-> "since", url |-> u, since |-> 0]]
    BY <1>2 DEF PickPeer
  <2>3. RoundPasses'
    BY <2>1, <2>2 DEF MobileInv, RoundPasses, Blocks, EngineTypeOK
  <2> QED
    BY <2>1, <2>3
       DEF MobileInv, MobileTypeInv, OnlyLateLost, SavedOnlyLateLost, Snapshots,
           Blocks, list
<1>3. ASSUME NEW r \in Runner, ReadSince(r) PROVE MobileInv'
  <2>1. UNCHANGED <<now, list, saves, peersFile, waiting, unsent>>
    BY <1>3 DEF ReadSince
  <2>2. /\ round'[r].pc = "pull" /\ round'[r].url = round[r].url
        /\ round'[r].since = lastSync[round[r].url]
        /\ round[r].url \in PeerURL
        /\ \A q \in Runner \ {r} : round'[q] = round[q]
    BY <1>3, RoundFields DEF ReadSince, MobileInv, EngineTypeOK
  <2>3. \A b \in Blocks :
          b.url = round[r].url /\ b.at < lastSync[round[r].url] => Excused(b)
    BY <1>0, <2>2 DEF MobileInv, OnlyLateLost, Blocks, EngineTypeOK, Excused
  <2>4. RoundPasses'
    BY <2>1, <2>2, <2>3 DEF MobileInv, RoundPasses, Blocks
  <2> QED
    BY <2>1, <2>4
       DEF MobileInv, MobileTypeInv, OnlyLateLost, SavedOnlyLateLost, Snapshots,
           Blocks, list
<1>4. ASSUME NEW r \in Runner, Pull(r) \/ EnginePullFails(r) PROVE MobileInv'
  <2>1. UNCHANGED <<now, list, saves, peersFile, unsent>> /\ round[r].pc = "pull"
    BY <1>4 DEF Pull, EnginePullFails
  <2>2. /\ \A c \in waiting' : \E b \in waiting :
             c.url = b.url /\ c.at = b.at /\ (Excused(b) => Excused(c))
        /\ Pull(r) => \A c \in waiting' : c.url = round[r].url => Excused(c)
    <3>1. CASE Pull(r)
      <4>1. PICK left \in SUBSET Listed(waiting, r) : waiting' = Transferred(waiting, r, left)
        BY <3>1 DEF Pull
      <4>2. waiting \in SUBSET Block
        BY DEF MobileInv, EngineTypeOK
      <4>3. round[r].since \in Nat /\ \A b \in waiting : b.at \in Nat
        BY <1>0, <2>1, RoundFields, EngineAssumption DEF MobileInv, Time, Blocks
      <4>4. ASSUME NEW c \in waiting, c.url = round[r].url, ~(c.at >= round[r].since)
            PROVE  Excused(c)
        BY <2>1, <4>3, <4>4 DEF MobileInv, RoundPasses, Blocks
      <4> QED
        BY <4>1, <4>2, <4>4, TransferParts
    <3>2. CASE ~Pull(r)
      <4>1. waiting' \subseteq waiting
        BY <1>4, <3>2 DEF EnginePullFails
      <4> QED
        BY <3>2, <4>1
    <3> QED
      BY <3>1, <3>2
  <2>3. \A c \in Blocks' : \E b \in Blocks :
          /\ c.url = b.url /\ c.at = b.at /\ (Excused(b) => Excused(c))
    BY <2>1, <2>2 DEF Blocks
  <2>4. /\ \A q \in Runner \ {r} : round'[q] = round[q]
        /\ \/ round'[r] = Idle
           \/ /\ round'[r].pc = "push" /\ round'[r].url = round[r].url
              /\ round'[r].since = round[r].since /\ Pull(r)
    BY <1>4, RoundFields DEF Pull, EnginePullFails, MobileInv, EngineTypeOK, Idle
  <2>5. OnlyLateLost'
    BY <2>1, <2>3 DEF MobileInv, OnlyLateLost, Blocks, list, Excused
  <2>6. SavedOnlyLateLost'
    BY <2>1, <2>3 DEF MobileInv, SavedOnlyLateLost, Snapshots
  <2>7. RoundPasses'
    <3> SUFFICES ASSUME NEW q \in Runner
                 PROVE  (/\ round[q].pc \in {"pull", "push", "record"} =>
                              \A b \in Blocks : b.url = round[q].url /\ b.at < round[q].since
                                               => Excused(b)
                         /\ round[q].pc \in {"push", "record"} =>
                              \A b \in waiting : b.url = round[q].url => Excused(b)
                         /\ round[q].pc = "record" =>
                              \A b \in unsent : b.url = round[q].url => Excused(b))'
      BY DEF RoundPasses
    <3>1. CASE q = r
      BY <2>1, <2>2, <2>3, <2>4, <3>1 DEF MobileInv, RoundPasses, Idle
    <3>2. CASE q # r
      BY <2>1, <2>2, <2>3, <2>4, <3>2 DEF MobileInv, RoundPasses
    <3> QED
      BY <3>1, <3>2
  <2> QED
    BY <2>5, <2>6, <2>7 DEF MobileInv, MobileTypeInv
<1>5. ASSUME NEW r \in Runner, Push(r) PROVE MobileInv'
  <2>1. UNCHANGED <<now, list, saves, peersFile, waiting>> /\ round[r].pc = "push"
    BY <1>5 DEF Push
  <2>2. /\ \A c \in unsent' : \E b \in unsent :
             c.url = b.url /\ c.at = b.at /\ (Excused(b) => Excused(c))
        /\ \A c \in unsent' : c.url = round[r].url => Excused(c)
    <3>1. PICK left \in SUBSET Listed(unsent, r) : unsent' = Transferred(unsent, r, left)
      BY <1>5 DEF Push
    <3>2. unsent \in SUBSET Block
      BY DEF MobileInv, EngineTypeOK
    <3>3. round[r].since \in Nat /\ \A b \in unsent : b.at \in Nat
      BY <1>0, <2>1, RoundFields, EngineAssumption DEF MobileInv, Time, Blocks
    <3>4. ASSUME NEW c \in unsent, c.url = round[r].url, ~(c.at >= round[r].since)
          PROVE  Excused(c)
      BY <2>1, <3>3, <3>4 DEF MobileInv, RoundPasses, Blocks
    <3> QED
      BY <3>1, <3>2, <3>4, TransferParts
  <2>3. \A c \in Blocks' : \E b \in Blocks :
          /\ c.url = b.url /\ c.at = b.at /\ (Excused(b) => Excused(c))
    BY <2>1, <2>2 DEF Blocks
  <2>4. /\ \A q \in Runner \ {r} : round'[q] = round[q]
        /\ round'[r].pc = "record" /\ round'[r].url = round[r].url
        /\ round'[r].since = round[r].since
    BY <1>5, RoundFields DEF Push, MobileInv, EngineTypeOK
  <2>5. OnlyLateLost'
    BY <2>1, <2>3 DEF MobileInv, OnlyLateLost, Blocks, list, Excused
  <2>6. SavedOnlyLateLost'
    BY <2>1, <2>3 DEF MobileInv, SavedOnlyLateLost, Snapshots
  <2>7. RoundPasses'
    <3> SUFFICES ASSUME NEW q \in Runner
                 PROVE  (/\ round[q].pc \in {"pull", "push", "record"} =>
                              \A b \in Blocks : b.url = round[q].url /\ b.at < round[q].since
                                               => Excused(b)
                         /\ round[q].pc \in {"push", "record"} =>
                              \A b \in waiting : b.url = round[q].url => Excused(b)
                         /\ round[q].pc = "record" =>
                              \A b \in unsent : b.url = round[q].url => Excused(b))'
      BY DEF RoundPasses
    <3>1. CASE q = r
      BY <2>1, <2>2, <2>3, <2>4, <3>1 DEF MobileInv, RoundPasses
    <3>2. CASE q # r
      BY <2>1, <2>2, <2>3, <2>4, <3>2 DEF MobileInv, RoundPasses
    <3> QED
      BY <3>1, <3>2
  <2> QED
    BY <2>5, <2>6, <2>7 DEF MobileInv, MobileTypeInv
<1>6. ASSUME NEW r \in Runner, RecordSuccess(r) PROVE MobileInv'
  <2>1. /\ UNCHANGED <<now, peersFile, waiting, unsent, peers, blocked>> /\ Blocks' = Blocks
        /\ round[r].pc = "record" /\ Saved
    BY <1>6 DEF RecordSuccess, Blocks
  <2>2. /\ \A q \in Runner \ {r} : round'[q] = round[q]
        /\ round'[r] = Idle /\ round[r].url \in PeerURL
    BY <1>6, RoundFields DEF RecordSuccess, MobileInv, EngineTypeOK, Idle
  <2>3. \A v \in PeerURL : lastSync'[v] = IF v # round[r].url THEN lastSync[v]
                                      ELSE IF v \in peers THEN now ELSE 0
    BY <1>6, <2>2 DEF RecordSuccess, MobileInv, EngineTypeOK
  <2>4. OnlyLateLost'
    <3>1. \A b \in Blocks : b.url = round[r].url => Excused(b)
      BY <2>1 DEF MobileInv, RoundPasses, Blocks
    <3> QED
      BY <1>0, <2>1, <2>3, <3>1 DEF MobileInv, OnlyLateLost, Blocks, Excused
  <2>5. SavedOnlyLateLost'
    BY <2>1, <2>4, SavedSafe
  <2>6. RoundPasses'
    BY <2>1, <2>2 DEF MobileInv, RoundPasses, Idle
  <2> QED
    BY <2>4, <2>5, <2>6 DEF MobileInv, MobileTypeInv
<1>7. ASSUME NEW u \in PeerURL, Arrive(u) PROVE MobileInv'
  <2>1. UNCHANGED <<now, list, round, saves, peersFile>>
    BY <1>7 DEF Arrive
  <2>2. PICK at \in Time :
          \/ /\ waiting' = waiting \cup
                  {[url |-> u, at |-> at, left |-> FALSE,
                    late |-> At(u, {"push", "record"}) \/ Passed(u, at)]}
             /\ unsent' = unsent
          \/ /\ unsent' = unsent \cup
                  {[url |-> u, at |-> at, left |-> FALSE,
                    late |-> At(u, {"record"}) \/ Passed(u, at)]}
             /\ waiting' = waiting
    BY <1>7 DEF Arrive
  <2>3. /\ \A b \in Blocks' : \/ b \in Blocks
                              \/ b.url = u /\ (Passed(u, b.at) => Excused(b))
        /\ \A b \in waiting' : \/ b \in waiting
                               \/ b.url = u /\ (At(u, {"push", "record"}) => Excused(b))
        /\ \A b \in unsent' : \/ b \in unsent
                              \/ b.url = u /\ (At(u, {"record"}) => Excused(b))
    <3> DEFINE bw == [url |-> u, at |-> at, left |-> FALSE,
                      late |-> At(u, {"push", "record"}) \/ Passed(u, at)]
               bu == [url |-> u, at |-> at, left |-> FALSE,
                      late |-> At(u, {"record"}) \/ Passed(u, at)]
    <3>1. /\ bw.url = u /\ bw.at = at
          /\ bw.late = (At(u, {"push", "record"}) \/ Passed(u, at))
      OBVIOUS
    <3>2. /\ bu.url = u /\ bu.at = at
          /\ bu.late = (At(u, {"record"}) \/ Passed(u, at))
      OBVIOUS
    <3>3. \/ waiting' = waiting \cup {bw} /\ unsent' = unsent
          \/ unsent' = unsent \cup {bu} /\ waiting' = waiting
      BY <2>2
    <3> HIDE DEF bw, bu
    <3>4. /\ Passed(u, bw.at) => Excused(bw)
          /\ At(u, {"push", "record"}) => Excused(bw)
          /\ Passed(u, bu.at) => Excused(bu)
          /\ At(u, {"record"}) => Excused(bu)
      BY <3>1, <3>2, Zenon DEF Excused
    <3>5. CASE waiting' = waiting \cup {bw} /\ unsent' = unsent
      BY <3>1, <3>4, <3>5, Zenon DEF Blocks
    <3>6. CASE unsent' = unsent \cup {bu} /\ waiting' = waiting
      BY <3>2, <3>4, <3>6, Zenon DEF Blocks
    <3> QED
      BY <3>3, <3>5, <3>6, Zenon
  <2>5. OnlyLateLost'
    BY <2>1, <2>3 DEF MobileInv, OnlyLateLost, Blocks, list, Excused, Passed
  <2>6. SavedOnlyLateLost'
    BY <2>1, <2>3 DEF MobileInv, SavedOnlyLateLost, Snapshots, Passed
  <2>8. RoundPasses'
    <3> SUFFICES ASSUME NEW q \in Runner
                 PROVE  /\ round[q].pc \in {"pull", "push", "record"} =>
                             \A b \in Blocks' : b.url = round[q].url /\ b.at < round[q].since
                                              => Excused(b)
                        /\ round[q].pc \in {"push", "record"} =>
                             \A b \in waiting' : b.url = round[q].url => Excused(b)
                        /\ round[q].pc = "record" =>
                             \A b \in unsent' : b.url = round[q].url => Excused(b)
      BY <2>1 DEF RoundPasses, Excused
    <3>1. round[q].pc \in {"push", "record"} /\ round[q].url = u
            => At(u, {"push", "record"})
      BY DEF At
    <3>2. round[q].pc = "record" /\ round[q].url = u => At(u, {"record"})
      BY DEF At
    <3>3. \A b \in waiting' : round[q].pc \in {"push", "record"} /\ b.url = round[q].url
                              => Excused(b)
      BY <2>3, <3>1 DEF MobileInv, RoundPasses
    <3>4. \A b \in unsent' : round[q].pc = "record" /\ b.url = round[q].url => Excused(b)
      BY <2>3, <3>2 DEF MobileInv, RoundPasses
    <3>5. ASSUME NEW b \in Blocks', b.url = round[q].url, b.at < round[q].since,
                 round[q].pc \in {"pull", "push", "record"}
          PROVE  Excused(b)
      <4>1. CASE b \in Blocks
        BY <3>5, <4>1 DEF MobileInv, RoundPasses
      <4>2. CASE round[q].pc \in {"pull", "push"}
        BY <2>3, <3>5, <4>1, <4>2 DEF Passed
      <4>3. CASE round[q].pc = "record"
        BY <3>3, <3>4, <3>5, <4>3 DEF Blocks
      <4> QED
        BY <3>5, <4>2, <4>3
    <3> QED
      BY <3>3, <3>4, <3>5
  <2> QED
    BY <2>5, <2>6, <2>8 DEF MobileInv, MobileTypeInv
<1>8. CASE EngineSaveRename
  <2>1. /\ UNCHANGED <<now, list, round, waiting, unsent>> /\ Blocks' = Blocks
        /\ Snapshots' \subseteq Snapshots
    BY <1>8 DEF EngineSaveRename, Blocks, Snapshots
  <2> QED
    BY <2>1 DEF MobileInv, MobileTypeInv, OnlyLateLost, SavedOnlyLateLost,
                RoundPasses, Blocks, list
<1>9. CASE EngineRestart
  <2>1. /\ UNCHANGED <<now, peersFile, waiting, unsent>> /\ Blocks' = Blocks
        /\ Snapshots' \subseteq Snapshots /\ peersFile \in Snapshots
        /\ peers' = peersFile.peers /\ lastSync' = peersFile.lastSync
        /\ \A r \in Runner : round'[r] = Idle
    BY <1>9 DEF EngineRestart, Blocks, Snapshots
  <2>2. OnlyLateLost'
    BY <2>1 DEF MobileInv, OnlyLateLost, SavedOnlyLateLost, Blocks, Excused
  <2>4. RoundPasses'
    BY <2>1 DEF RoundPasses, Idle
  <2> QED
    BY <2>1, <2>2, <2>4 DEF MobileInv, MobileTypeInv, SavedOnlyLateLost
<1>10. CASE EngineTick
  <2>1. /\ UNCHANGED <<list, round, saves, peersFile, waiting, unsent>>
        /\ Blocks' = Blocks /\ Snapshots' = Snapshots
    BY <1>10 DEF EngineTick, Blocks, Snapshots
  <2> QED
    BY <2>1 DEF MobileInv, MobileTypeInv, OnlyLateLost, SavedOnlyLateLost,
                RoundPasses, Blocks, list
<1>11. CASE UNCHANGED engineVars
  BY <1>11 DEF engineVars, list, MobileInv, MobileTypeInv, OnlyLateLost,
               SavedOnlyLateLost, RoundPasses, Blocks, Snapshots
<1> QED
  BY <1>1, <1>2, <1>3, <1>4, <1>5, <1>6, <1>7, <1>8, <1>9, <1>10, <1>11 DEF EngineNext,
                                                                            Step

\* The inductive invariant of the engine, for any number of peers and of rounds
\* under way at once.
THEOREM EngineInvariant == EngineSpec => []MobileInv
<1>1. EngineInit => MobileInv /\ MobileTypeInv
  BY MobileInvInit, MobileTypeInit
<1>2. MobileInv /\ MobileTypeInv /\ [EngineNext]_engineVars => (MobileInv /\ MobileTypeInv)'
  BY MobileInvNext, MobileTypeNext
<1> QED
  BY <1>1, <1>2, PTL DEF EngineSpec

\* OnlyLateLost: LastSync passes no block but one whose second a round had already
\* looked past when it appeared, or one that a transfer has left behind, whatever
\* rounds run at once, however the list is edited and whichever save wins before a
\* restart.
THEOREM NoSilentLoss == EngineSpec => []OnlyLateLost
<1>1. MobileInv => OnlyLateLost
  BY DEF MobileInv
<1> QED
  BY <1>1, EngineInvariant, PTL
=============================================================================
