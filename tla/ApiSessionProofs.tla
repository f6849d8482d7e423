-------------------------- MODULE ApiSessionProofs --------------------------
(***************************************************************************)
(* Proofs about ApiSession for any number of requests at once and any      *)
(* identities, channels, contacts and passwords.                           *)
(***************************************************************************)
EXTENDS ApiSession, TLAPS

\* What has been confirmed and not given up or raced since.
Owed == told \ raced

\* The keystore or file k has all of that.
Keeps(k) == \A x \in Owed : x \in k.has \cup {k.pw}

\* A keystore that is in memory, or that a request has read and will install,
\* has all that is owed, for a later save writes it; and while a request is
\* about to create the file nothing is owed.
OwedInMemory ==
  /\ ks # Locked => Keeps(ks)
  /\ \A g \in Request :
       /\ req[g].pc = "load" => Keeps(req[g].from)
       /\ req[g].pc = "unlock" => Keeps(req[g].ks)
       /\ req[g].pc = "create" => Owed = {}

\* Without a file nothing has been read from one.
NothingReadWithoutFile ==
  file = NoFile =>
    /\ ks = Locked
    /\ \A g \in Request : req[g].pc \notin {"load", "unlock"}

\* A version 1 file has identities only, as far as it is known.
OldFileIdentities ==
  /\ file # NoFile /\ file.version = 1 => file.has \subseteq Identity
  /\ \A g \in Request :
       req[g].pc = "load" /\ req[g].from.version = 1 => req[g].from.has \subseteq Identity

KeptInv ==
  /\ TypeOK
  /\ ConfirmedKept
  /\ OwedInMemory
  /\ NothingReadWithoutFile
  /\ OldFileIdentities
-----------------------------------------------------------------------------
(* Keystores, files and handlers.                                          *)

\* The stamps of a workload include the absent one, and a stamp of the size of
\* a mined one that is worth nothing is the absent one.
LEMMA StampFacts ==
  ASSUME asked \in Workloads
  PROVE  /\ NoStamp \in asked.stamps /\ asked.stamps \subseteq Stamp
         /\ asked.pws \subseteq Password /\ asked.names \subseteq Record
         /\ \A s \in asked.stamps : s.sized => [s EXCEPT !.bits = 0] = NoStamp
<1>1. /\ NoStamp \in asked.stamps /\ asked.stamps \subseteq Stamp
      /\ asked.pws \subseteq Password /\ asked.names \subseteq Record
  BY SessionAssumption
<1>2. ASSUME NEW s \in Stamp, s.sized PROVE [s EXCEPT !.bits = 0] = NoStamp
  <2> DEFINE z == [s EXCEPT !.bits = 0]
  <2>1. s.sized = TRUE
    BY <1>2 DEF Stamp
  <2>2. z \in Stamp /\ z.bits = 0 /\ z.sized = TRUE
    BY <2>1 DEF Stamp
  <2>3. NoStamp \in Stamp /\ NoStamp.bits = 0 /\ NoStamp.sized = TRUE
    BY DEF Stamp, NoStamp
  <2>4. \A x, y \in Stamp : x.bits = y.bits /\ x.sized = y.sized => x = y
    BY DEF Stamp
  <2> QED
    BY <2>2, <2>3, <2>4
<1> QED
  BY <1>1, <1>2

\* Keystores and files are not the absent ones.
LEMMA Present ==
  ASSUME asked \in Workloads
  PROVE  /\ \A k \in Keystore : k # Locked
         /\ \A f \in File : f # NoFile
         /\ \A k \in Keystore : Keys(k) \subseteq Identity \cup Channel /\ Keys(k) # NoScraper
<1>1. asked.stamps \subseteq Stamp
  BY StampFacts
<1>2. ASSUME NEW k \in Keystore
      PROVE  k \in [pw : Password, has : SUBSET Record, stamp : [Identity -> Stamp]]
  BY <1>1 DEF Keystore
<1>3. ASSUME NEW f \in File
      PROVE  f \in [version : {1, 2}, pw : Password, has : SUBSET Record,
                    stamp : [Identity -> Stamp]]
  BY <1>1 DEF File
<1> QED
  BY <1>2, <1>3, NilAssumption DEF Keys

\* What Save writes is a file, and LoadKeystore gives back the keystore.
LEMMA DiskTypes ==
  ASSUME asked \in Workloads
  PROVE  /\ \A k \in Keystore : /\ OnDisk(k) \in File /\ OnDisk(k).version = 2
                                /\ OnDisk(k).has = k.has /\ OnDisk(k).pw = k.pw
         /\ \A f \in File : /\ FromDisk(f) \in Keystore
                            /\ FromDisk(f).has = f.has /\ FromDisk(f).pw = f.pw
         /\ \A p \in Password : /\ NewKeystore(p) \in Keystore
                                /\ NewKeystore(p).has = {} /\ NewKeystore(p).pw = p
BY StampFacts DEF OnDisk, FromDisk, NewKeystore, Keystore, File

\* What a handler has read, by the place where it is.
LEMMA HandlerFields ==
  ASSUME TypeOK, NEW g \in Request
  PROVE  /\ req[g] \in Handler
         /\ req[g].pc = "mine" => req[g].id \in Identity /\ req[g].seed \in asked.stamps
         /\ req[g].pc = "create" => req[g].pw \in Password
         /\ req[g].pc = "load" => req[g].from \in File
         /\ req[g].pc = "unlock" => req[g].ks \in Keystore
BY DEF TypeOK, Handler

\* A handler that goes on to h leaves the others where they are.
LEMMA GotoParts ==
  ASSUME TypeOK, NEW g \in Request, NEW h, Goto(g, h)
  PROVE  /\ req'[g] = h
         /\ \A f \in Request \ {g} : req'[f] = req[f]
         /\ h \in Handler => req' \in [Request -> Handler]
BY DEF TypeOK, Goto
-----------------------------------------------------------------------------
(* Type correctness.                                                       *)

LEMMA TypeInit == Init => TypeOK
<1> SUFFICES ASSUME Init PROVE TypeOK
  OBVIOUS
<1>1. asked \in Workloads
  BY DEF Init
<1>2. NoStamp \in asked.stamps /\ asked.pws \subseteq Password
  BY <1>1, StampFacts
<1>3. file \in File \cup {NoFile} /\ told \subseteq Record \cup Password
  BY <1>1, <1>2, SessionAssumption DEF Init, File
<1>4. req \in [Request -> Handler]
  BY DEF Init, Idle, Handler
<1>5. /\ ks = Locked /\ scraper = NoScraper /\ tokens = 0
      /\ raced = {} /\ unsaved = {} /\ 0 \in 0..MaxTokens
  BY SessionAssumption DEF Init
<1>6. leaked \in BOOLEAN
  BY Zenon DEF Init
<1> QED
  BY <1>1, <1>3, <1>4, <1>5, <1>6 DEF TypeOK

\* A change of the keystore in memory: the session keeps its type when the new
\* keystore has its type and the scraper is built from it or left alone.
LEMMA KeystoreChange ==
  ASSUME TypeOK, UNCHANGED <<asked, tokens, leaked>>, NEW g \in Request,
         ks # Locked, ks' \in Keystore, Goto(g, Idle),
         file' \in {OnDisk(ks'), file}, scraper' \in {Keys(ks'), scraper},
         told' \subseteq Record \cup Password, raced' \subseteq Record \cup Password,
         unsaved' \subseteq Identity \cup Channel
  PROVE  TypeOK'
<1>1. asked \in Workloads
  BY DEF TypeOK
<1>2. Keystore' = Keystore /\ File' = File /\ Handler' = Handler
  BY DEF Keystore, File, Handler
<1>3. ks' # Locked /\ Keys(ks') \subseteq Identity \cup Channel /\ Keys(ks') # NoScraper
  BY <1>1, Present
<1>4. file' \in File \cup {NoFile}
  BY <1>1, DiskTypes DEF TypeOK
<1>5. req' \in [Request -> Handler]
  BY GotoParts DEF Idle, Handler
<1> QED
  BY <1>1, <1>2, <1>3, <1>4, <1>5 DEF TypeOK

\* The session is left alone and a handler goes on: only its place and the
\* promises need a look.
LEMMA SessionKept ==
  ASSUME TypeOK, UNCHANGED <<asked, ks, scraper, tokens, unsaved>>, NEW g \in Request,
         NEW h \in Handler, Goto(g, h),
         leaked' \in BOOLEAN, file' \in File \cup {NoFile},
         told' \subseteq Record \cup Password, raced' \subseteq Record \cup Password
  PROVE  TypeOK'
<1>1. Keystore' = Keystore /\ File' = File /\ Handler' = Handler
  BY DEF Keystore, File, Handler
<1>2. req' \in [Request -> Handler]
  BY GotoParts
<1> QED
  BY <1>1, <1>2 DEF TypeOK

LEMMA IdleHandler == Idle \in Handler
BY DEF Idle, Handler

\* What removing a key makes of the keystore.
LEMMA RemovedKeystore ==
  ASSUME TypeOK, NEW g, NEW r, RemoveKey(g, r)
  PROVE  ks' \in Keystore /\ ks'.has = ks.has \ {r} /\ ks'.pw = ks.pw
<1> DEFINE z == [i \in Identity |-> IF i = r THEN NoStamp ELSE ks.stamp[i]]
<1>1. ks \in Keystore /\ NoStamp \in asked.stamps
  BY StampFacts DEF RemoveKey, Writing, TypeOK
<1>2. ks.stamp \in [Identity -> asked.stamps] /\ ks.has \ {r} \in SUBSET Record
  BY <1>1 DEF Keystore
<1>3. z \in [Identity -> asked.stamps]
  BY <1>1, <1>2
<1>4. ks' = [ks EXCEPT !.has = ks.has \ {r}, !.stamp = z]
  BY DEF RemoveKey
<1> HIDE DEF z
<1> QED
  BY <1>1, <1>2, <1>3, <1>4 DEF Keystore

\* Every handler's steps and the restart keep the types: in particular there is a
\* scraper just while there is a keystore, and a token only then.
LEMMA TypeNext == TypeOK /\ [Next]_vars => TypeOK'
<1> SUFFICES ASSUME TypeOK, [Next]_vars PROVE TypeOK'
  OBVIOUS
<1>0. /\ asked \in Workloads /\ asked.pws \subseteq Password /\ asked.names \subseteq Record
      /\ asked.stamps \subseteq Stamp /\ NoStamp \in asked.stamps
      /\ told \subseteq Record \cup Password /\ raced \subseteq Record \cup Password
      /\ unsaved \subseteq Identity \cup Channel /\ leaked \in BOOLEAN
      /\ file \in File \cup {NoFile}
  BY StampFacts DEF TypeOK
<1>1. CASE UNCHANGED vars
  <2>1. Keystore' = Keystore /\ File' = File /\ Handler' = Handler
    BY <1>1 DEF Keystore, File, Handler, vars
  <2> QED
    BY <1>1, <2>1 DEF TypeOK, vars, session, promises
<1> SUFFICES ASSUME Step, UNCHANGED asked PROVE TypeOK'
  BY <1>1 DEF Next
<1>2. ASSUME NEW g \in Request, NEW p \in asked.pws, CreateStat(g, p) PROVE TypeOK'
  <2>1. [pc |-> "create", pw |-> p] \in Handler
    BY <1>0 DEF Handler
  <2> QED
    BY <1>0, <1>2, <2>1, SessionKept DEF CreateStat, session, promises
<1>3. ASSUME NEW g \in Request, NEW p \in asked.pws, ChangePassword(g, p) PROVE TypeOK'
  <2>1. ks' \in Keystore
    BY <1>0, <1>3 DEF ChangePassword, Writing, TypeOK, Keystore
  <2>2. told' \subseteq Record \cup Password /\ raced' \subseteq Record \cup Password
    BY <1>0, <1>3 DEF ChangePassword
  <2> QED
    BY <1>0, <1>3, <2>1, <2>2, KeystoreChange DEF ChangePassword, Writing
<1>4. ASSUME NEW g \in Request, CreateSave(g) PROVE TypeOK'
  <2>1. req[g].pw \in Password
    BY <1>4, HandlerFields DEF CreateSave
  <2>2. file' \in File
    BY <1>0, <1>4, <2>1, DiskTypes DEF CreateSave
  <2>3. told' \subseteq Record \cup Password /\ raced' \subseteq Record \cup Password
    BY <1>0, <1>4, <2>1 DEF CreateSave
  <2> QED
    BY <1>0, <1>4, <2>2, <2>3, SessionKept, IdleHandler DEF CreateSave, session
<1>5. ASSUME NEW g \in Request, LoadRead(g) PROVE TypeOK'
  <2>1. [pc |-> "load", from |-> file] \in Handler
    BY <1>0, <1>5 DEF LoadRead, Handler
  <2> QED
    BY <1>0, <1>5, <2>1, SessionKept DEF LoadRead, session, promises
<1>6. ASSUME NEW g \in Request, LoadDone(g) PROVE TypeOK'
  <2> DEFINE from == req[g].from
             old == [FromDisk(from) EXCEPT !.has = @ \cap Identity]
  <2>1. from \in File
    BY <1>6, HandlerFields DEF LoadDone
  <2>2. FromDisk(from) \in Keystore
    BY <1>0, <2>1, DiskTypes
  <2>3. old \in Keystore
    BY <2>2 DEF Keystore
  <2>4. file' \in File \cup {NoFile}
    BY <1>0, <1>6, <2>3, DiskTypes DEF LoadDone
  <2>5. [pc |-> "unlock", ks |-> FromDisk(from)] \in Handler
    BY <2>2 DEF Handler
  <2> QED
    BY <1>0, <1>6, <2>4, <2>5, SessionKept DEF LoadDone, session, promises
<1>7. ASSUME NEW g \in Request, Unlock(g) PROVE TypeOK'
  <2>1. ks' = req[g].ks /\ req[g].ks \in Keystore
    BY <1>7, HandlerFields DEF Unlock
  <2>2. /\ ks' # Locked /\ scraper' \subseteq Identity \cup Channel
        /\ scraper' # NoScraper
    BY <1>0, <1>7, <2>1, Present DEF Unlock
  <2>3. req' \in [Request -> Handler]
    BY <1>7, GotoParts, IdleHandler DEF Unlock
  <2>4. tokens' \in 0..MaxTokens
    BY <1>7, SessionAssumption DEF Unlock, TypeOK
  <2>5. Keystore' = Keystore /\ File' = File /\ Handler' = Handler
    BY DEF Keystore, File, Handler
  <2> QED
    BY <1>7, <2>1, <2>2, <2>3, <2>4, <2>5 DEF Unlock, TypeOK
<1>8. ASSUME NEW g \in Request, Reply(g) PROVE TypeOK'
  BY <1>0, <1>8, SessionKept, IdleHandler DEF Reply, session, promises
<1>9. ASSUME NEW g \in Request, Auth(g) PROVE TypeOK'
  <2>1. [pc |-> "authed"] \in Handler
    BY DEF Handler
  <2> QED
    BY <1>0, <1>9, <2>1, SessionKept DEF Auth, session, promises
<1>10. ASSUME NEW g \in Request, Lock(g) PROVE TypeOK'
  <2>1. req' \in [Request -> Handler]
    BY <1>10, GotoParts, IdleHandler DEF Lock
  <2>2. Keystore' = Keystore /\ File' = File /\ Handler' = Handler
    BY DEF Keystore, File, Handler
  <2> QED
    BY <1>10, <2>1, <2>2, SessionAssumption DEF Lock, TypeOK, promises
<1>11. ASSUME NEW g \in Request, NEW h \in Handler, WithKeystore(g, h) PROVE TypeOK'
  <2>1. leaked' \in BOOLEAN /\ UNCHANGED <<file, ks, scraper, tokens, promises>>
    BY <1>0, <1>11 DEF WithKeystore
  <2>2. \E i \in Handler : Goto(g, i)
    BY <1>11, IdleHandler DEF WithKeystore
  <2> QED
    BY <1>0, <2>1, <2>2, SessionKept DEF promises
<1>12. ASSUME NEW g \in Request, NEW i \in Identity, MineRead(g, i) PROVE TypeOK'
  <2> DEFINE seed == IF ks = Locked THEN NoStamp ELSE ks.stamp[i]
  <2>1. seed \in asked.stamps
    BY <1>0 DEF TypeOK, Keystore
  <2>2. [pc |-> "mine", id |-> i, seed |-> seed] \in Handler
    BY <2>1 DEF Handler
  <2> QED
    BY <1>11, <1>12, <2>2 DEF MineRead
<1>13. ASSUME NEW g \in Request, ScrapeStart(g) PROVE TypeOK'
  <2>1. [pc |-> "scrape"] \in Handler
    BY DEF Handler
  <2> QED
    BY <1>0, <1>13, <2>1, SessionKept DEF ScrapeStart, session, promises
<1>14. ASSUME NEW j \in Identity, NEW i \in Identity, NEW s \in asked.stamps,
              i # j => s.sized, SetIdentityPoW(j, i, s), ks # Locked,
              req' \in [Request -> Handler]
       PROVE  TypeOK'
  <2>1. (IF i = j THEN s ELSE [s EXCEPT !.bits = 0]) \in asked.stamps
    BY <1>0, <1>14, StampFacts
  <2>2. ks \in Keystore
    BY <1>14 DEF TypeOK
  <2>3. ks' \in Keystore
    BY <1>14, <2>1, <2>2 DEF SetIdentityPoW, Keystore
  <2>4. file' \in File \cup {NoFile} /\ ks' # Locked
    BY <1>0, <1>14, <2>3, DiskTypes, Present DEF SetIdentityPoW
  <2>5. Keystore' = Keystore /\ File' = File /\ Handler' = Handler
    BY DEF Keystore, File, Handler
  <2> QED
    BY <1>14, <2>3, <2>4, <2>5 DEF SetIdentityPoW, TypeOK, promises
<1>15. ASSUME NEW g \in Request, MineStore(g) PROVE TypeOK'
  <2>1. PICK j \in Named(req[g].id), s \in Mined(req[g].seed) :
          SetIdentityPoW(j, req[g].id, s)
    BY <1>15 DEF MineStore
  <2>2. j \in Identity /\ req[g].id \in Identity /\ s \in asked.stamps /\ s.sized
    BY <1>15, HandlerFields DEF MineStore, Named, Mined
  <2>3. req' \in [Request -> Handler] /\ ks # Locked
    BY <1>15, GotoParts, IdleHandler DEF MineStore
  <2> QED
    BY <1>14, <2>1, <2>2, <2>3
<1>16. ASSUME NEW g \in Request, NEW i \in Identity, NEW s \in asked.stamps,
              ApplyPowGift(g, i, s)
       PROVE  TypeOK'
  BY <1>14, <1>16 DEF ApplyPowGift, TypeOK
<1>17. ASSUME NEW g \in Request, NEW r \in Identity \cup Channel, AddKey(g, r) PROVE TypeOK'
  <2>1. ks' \in Keystore
    BY <1>17 DEF AddKey, Writing, TypeOK, Keystore, Record
  <2>2. /\ told' \subseteq Record \cup Password /\ raced' \subseteq Record \cup Password
        /\ unsaved' \subseteq Identity \cup Channel
    BY <1>0, <1>17 DEF AddKey, Confirm, Record
  <2> QED
    BY <1>17, <2>1, <2>2, KeystoreChange DEF AddKey, Writing
<1>18. ASSUME NEW g \in Request, NEW r \in Identity \cup Channel, RemoveKey(g, r) PROVE TypeOK'
  <2>1. ks' \in Keystore
    BY <1>18, RemovedKeystore
  <2>2. /\ told' \subseteq Record \cup Password /\ raced' \subseteq Record \cup Password
        /\ unsaved' \subseteq Identity \cup Channel
    BY <1>0, <1>18 DEF RemoveKey
  <2> QED
    BY <1>18, <2>1, <2>2, KeystoreChange DEF RemoveKey, Writing
<1>19. ASSUME NEW g \in Request, NEW r \in Contact, AddContact(g, r) PROVE TypeOK'
  <2>1. ks' \in Keystore
    BY <1>19 DEF AddContact, Writing, TypeOK, Keystore, Record
  <2>2. told' \subseteq Record \cup Password /\ raced' \subseteq Record \cup Password
    BY <1>0, <1>19 DEF AddContact, Confirm, Record
  <2> QED
    BY <1>0, <1>19, <2>1, <2>2, KeystoreChange DEF AddContact, Writing
<1>20. ASSUME NEW g \in Request, NEW r \in Contact, RemoveContact(g, r) PROVE TypeOK'
  <2>1. ks' \in Keystore
    BY <1>20 DEF RemoveContact, Writing, TypeOK, Keystore
  <2>2. told' \subseteq Record \cup Password /\ raced' \subseteq Record \cup Password
    BY <1>0, <1>20 DEF RemoveContact
  <2> QED
    BY <1>0, <1>20, <2>1, <2>2, KeystoreChange DEF RemoveContact, Writing
<1>21. ASSUME NEW g \in Request, NEW r \in Contact, RenameContact(g, r) PROVE TypeOK'
  <2>1. ks \in Keystore /\ ks # Locked
    BY <1>21 DEF RenameContact, Writing, TypeOK
  <2>2. file' \in File
    BY <1>0, <1>21, <2>1, DiskTypes DEF RenameContact
  <2> QED
    BY <1>0, <1>21, <2>2, SessionKept, IdleHandler DEF RenameContact, session, promises
<1>22. CASE Restart
  <2>1. req' \in [Request -> Handler]
    BY <1>22, IdleHandler DEF Restart
  <2>2. Keystore' = Keystore /\ File' = File /\ Handler' = Handler
    BY DEF Keystore, File, Handler
  <2>3. /\ ks' = Locked /\ scraper' = NoScraper /\ tokens' = 0
        /\ unsaved' = {} /\ UNCHANGED <<file, told, raced>> /\ 0 \in 0..MaxTokens
    BY <1>22, SessionAssumption DEF Restart
  <2>4. leaked' \in BOOLEAN
    BY <1>22, Zenon DEF Restart
  <2> QED
    BY <2>1, <2>2, <2>3, <2>4 DEF TypeOK
<1> QED
  BY <1>2, <1>3, <1>4, <1>5, <1>6, <1>7, <1>8, <1>9, <1>10, <1>11, <1>12, <1>13, <1>15,
     <1>16, <1>17, <1>18, <1>19, <1>20, <1>21, <1>22, IdleHandler
     DEF Step, ListIdentities, ListChannels, ListContacts, ExportIdentity, SendChannel,
         AddIdentity, ImportIdentity, AddChannel, RemoveIdentity, RemoveChannel

\* The types hold in every reachable state: there is a scraper just while the
\* keystore is unlocked, and a request passes auth only then.
THEOREM TypeCorrect == Spec => []TypeOK
BY TypeInit, TypeNext, PTL DEF Spec
-----------------------------------------------------------------------------
(* The scraper and the stamps.                                             *)

\* Every step keeps the scraper in step with the keystore, but for the keys whose
\* change could not be saved.
LEMMA ScraperNext == TypeOK /\ ScraperFollows /\ [Next]_vars => ScraperFollows'
<1> SUFFICES ASSUME TypeOK, ScraperFollows, [Next]_vars, ks' # Locked
             PROVE  ScraperFollows'
  BY DEF ScraperFollows
<1> USE DEF ScraperFollows
<1>1. ASSUME UNCHANGED <<ks, scraper, unsaved>> PROVE ScraperFollows'
  BY <1>1 DEF Keys
<1>2. ASSUME NEW g \in Request, Unlock(g) PROVE ScraperFollows'
  BY <1>2 DEF Unlock
<1>3. ~Restart /\ \A g \in Request : ~Lock(g)
  BY DEF Lock, Restart
<1>4. ASSUME NEW g \in Request, NEW r \in Identity \cup Channel, AddKey(g, r) \/ RemoveKey(g, r)
      PROVE  ScraperFollows'
  <2>1. ks # Locked /\ ks \in Keystore
    BY <1>4 DEF AddKey, RemoveKey, Writing, TypeOK
  <2>2. \/ ks'.has = ks.has \cup {r}
        \/ ks'.has = ks.has \ {r}
    BY <1>4, <2>1 DEF AddKey, RemoveKey, Keystore
  <2>3. CASE scraper' = Keys(ks')
    BY <2>3
  <2>4. CASE scraper' = scraper /\ unsaved' = unsaved \cup {r}
    BY <2>1, <2>2, <2>4 DEF Keys
  <2> QED
    BY <1>4, <2>3, <2>4 DEF AddKey, RemoveKey
<1>5. ASSUME ks # Locked, ks'.has \cap (Identity \cup Channel) = ks.has \cap (Identity \cup Channel),
             UNCHANGED <<scraper, unsaved>>
      PROVE  ScraperFollows'
  BY <1>5 DEF Keys
<1>6. ASSUME NEW g \in Request, NEW r \in Contact, AddContact(g, r) \/ RemoveContact(g, r)
      PROVE  ScraperFollows'
  <2>1. ks # Locked /\ ks \in Keystore
    BY <1>6 DEF AddContact, RemoveContact, Writing, TypeOK
  <2>2. \/ ks'.has = ks.has \cup {r}
        \/ ks'.has = ks.has \ {r}
    BY <1>6, <2>1 DEF AddContact, RemoveContact, Keystore
  <2>3. r \notin Identity \cup Channel
    BY SessionAssumption
  <2> QED
    BY <1>5, <1>6, <2>1, <2>2, <2>3 DEF AddContact, RemoveContact
<1>7. ASSUME NEW g \in Request, NEW p, ChangePassword(g, p) PROVE ScraperFollows'
  <2>1. ks # Locked /\ ks \in Keystore /\ ks' = [ks EXCEPT !.pw = p]
    BY <1>7 DEF ChangePassword, Writing, TypeOK
  <2>2. ks'.has = ks.has
    BY <2>1 DEF Keystore
  <2> QED
    BY <1>5, <1>7, <2>1, <2>2 DEF ChangePassword
<1>8. ASSUME NEW j, NEW i, NEW s, SetIdentityPoW(j, i, s), ks # Locked PROVE ScraperFollows'
  <2>1. ks \in Keystore
    BY <1>8 DEF TypeOK
  <2>2. ks'.has = ks.has
    BY <1>8, <2>1 DEF SetIdentityPoW, Keystore
  <2> QED
    BY <1>5, <1>8, <2>2 DEF SetIdentityPoW, promises
<1>9. ASSUME NEW g \in Request,
             NEW p, NEW h, NEW r,
             \/ CreateStat(g, p) \/ CreateSave(g) \/ LoadRead(g) \/ LoadDone(g)
             \/ Reply(g) \/ Auth(g) \/ WithKeystore(g, h) \/ ScrapeStart(g)
             \/ RenameContact(g, r)
      PROVE  ScraperFollows'
  <2>1. UNCHANGED <<ks, scraper, unsaved>>
    BY <1>9 DEF CreateStat, CreateSave, LoadRead, LoadDone, Reply, Auth, WithKeystore,
                ScrapeStart, RenameContact, session, promises
  <2> QED
    BY <1>1, <2>1
<1>10. CASE UNCHANGED vars
  BY <1>1, <1>10 DEF vars, session, promises
<1>11. ASSUME NEW g \in Request, MineStore(g) PROVE ScraperFollows'
  BY <1>8, <1>11 DEF MineStore
<1>12. ASSUME NEW g \in Request, NEW i, NEW s, ApplyPowGift(g, i, s) PROVE ScraperFollows'
  BY <1>8, <1>12 DEF ApplyPowGift
<1>13. ASSUME NEW g \in Request, NEW i, MineRead(g, i) PROVE ScraperFollows'
  BY <1>9, <1>13 DEF MineRead
<1> QED
  BY <1>2, <1>3, <1>4, <1>6, <1>7, <1>9, <1>10, <1>11, <1>12, <1>13
     DEF Next, Step, ListIdentities, ListChannels, ListContacts, ExportIdentity, SendChannel,
         AddIdentity, ImportIdentity, AddChannel, RemoveIdentity, RemoveChannel

\* ScraperFollows: a scrape tries exactly the identities and channels of the
\* keystore, but for keys whose change could not be saved.
THEOREM ScraperInStep == Spec => []ScraperFollows
<1>1. Init => ScraperFollows
  BY DEF Init, ScraperFollows
<1> QED
  BY <1>1, ScraperNext, TypeCorrect, PTL DEF Spec

\* What a step that makes an identity's stamp worth less must be.
LEMMA StampNext ==
  ASSUME TypeOK, [Next]_vars, NEW i \in Identity,
         ks # Locked, ks' # Locked, i \in ks.has \cap ks'.has,
         ks'.stamp[i].bits < ks.stamp[i].bits
  PROVE  \E g \in Request :
           /\ req'[g] = Idle
           /\ \/ req[g].pc = "unlock"
              \/ /\ req[g].pc = "mine"
                 /\ \/ req[g].id # i \/ ~req[g].seed.sized
                    \/ req[g].seed.bits < ks.stamp[i].bits
<1>0. /\ ks \in Keystore /\ ks.stamp \in [Identity -> asked.stamps]
      /\ asked.stamps \subseteq Stamp /\ ks.stamp[i].bits \in Nat
  <2>1. ks \in Keystore /\ asked.stamps \subseteq Stamp
    BY StampFacts DEF TypeOK
  <2>2. ks.stamp \in [Identity -> asked.stamps]
    BY <2>1 DEF Keystore
  <2>3. ks.stamp[i] \in Stamp
    BY <2>1, <2>2
  <2> QED
    BY <2>1, <2>2, <2>3 DEF Stamp
<1>1. ks'.stamp[i] # ks.stamp[i] /\ ks'.stamp # ks.stamp
  BY <1>0
<1>2. ASSUME NEW g \in Request, Unlock(g)
      PROVE  req[g].pc = "unlock" /\ req'[g] = Idle
  BY <1>2, GotoParts DEF Unlock
<1>3. ~Restart /\ \A g \in Request : ~Lock(g)
  BY DEF Lock, Restart
<1>4. ASSUME NEW g \in Request, NEW r, NEW p,
             AddKey(g, r) \/ AddContact(g, r) \/ RemoveContact(g, r) \/ ChangePassword(g, p)
      PROVE  FALSE
  <2>1. ks'.stamp = ks.stamp
    BY <1>0, <1>4 DEF AddKey, AddContact, RemoveContact, ChangePassword, Keystore
  <2> QED
    BY <1>1, <2>1
<1>5. ASSUME NEW g \in Request, NEW r, RemoveKey(g, r) PROVE FALSE
  <2>1. /\ ks'.stamp = [j \in Identity |-> IF j = r THEN NoStamp ELSE ks.stamp[j]]
        /\ ks'.has = ks.has \ {r}
    BY <1>0, <1>5 DEF RemoveKey, Keystore
  <2>2. i # r
    BY <2>1
  <2> QED
    BY <1>1, <2>1, <2>2
<1>6. ASSUME NEW j, NEW k, NEW s \in asked.stamps, SetIdentityPoW(j, k, s)
      PROVE  j = i /\ (k = i => s.bits < ks.stamp[i].bits)
  <2> DEFINE z == IF k = j THEN s ELSE [s EXCEPT !.bits = 0]
  <2>1. ks' = [ks EXCEPT !.stamp[j] = z]
    BY <1>6 DEF SetIdentityPoW
  <2> HIDE DEF z
  <2>2. ks'.stamp = [ks.stamp EXCEPT ![j] = z]
    BY <1>0, <2>1 DEF Keystore
  <2>3. j = i
    BY <1>0, <1>1, <2>2
  <2>4. ks'.stamp[i] = z
    BY <1>0, <2>2, <2>3
  <2> QED
    BY <2>3, <2>4 DEF z
<1>7. ASSUME NEW g \in Request, NEW k, NEW s \in asked.stamps, ApplyPowGift(g, k, s)
      PROVE  FALSE
  <2>1. k = i /\ s.bits < ks.stamp[i].bits /\ s.bits > ks.stamp[i].bits
    BY <1>6, <1>7 DEF ApplyPowGift
  <2>2. s.bits \in Nat
    BY <1>0 DEF Stamp
  <2> QED
    BY <1>0, <2>1, <2>2
<1>8. ASSUME NEW g \in Request, MineStore(g)
      PROVE  /\ req'[g] = Idle /\ req[g].pc = "mine"
             /\ \/ req[g].id # i \/ ~req[g].seed.sized
                \/ req[g].seed.bits < ks.stamp[i].bits
  <2>1. PICK j \in Named(req[g].id), s \in Mined(req[g].seed) :
          SetIdentityPoW(j, req[g].id, s)
    BY <1>8 DEF MineStore
  <2>2. /\ s \in asked.stamps /\ req[g].seed \in asked.stamps
        /\ req[g].seed.sized => s.bits >= req[g].seed.bits
    BY <1>8, HandlerFields DEF MineStore, Mined
  <2>3. req[g].id = i => s.bits < ks.stamp[i].bits
    BY <1>6, <2>1, <2>2
  <2>4. s.bits \in Nat /\ req[g].seed.bits \in Nat
    BY <1>0, <2>2 DEF Stamp
  <2>5. req[g].id = i /\ req[g].seed.sized => req[g].seed.bits < ks.stamp[i].bits
    BY <1>0, <2>2, <2>3, <2>4
  <2>6. req'[g] = Idle /\ req[g].pc = "mine"
    BY <1>8, GotoParts DEF MineStore
  <2> QED
    BY <2>5, <2>6
<1>9. ASSUME NEW g \in Request,
             NEW p, NEW h, NEW r,
             \/ CreateStat(g, p) \/ CreateSave(g) \/ LoadRead(g) \/ LoadDone(g)
             \/ Reply(g) \/ Auth(g) \/ WithKeystore(g, h) \/ ScrapeStart(g)
             \/ RenameContact(g, r)
      PROVE  FALSE
  <2>1. UNCHANGED ks
    BY <1>9 DEF CreateStat, CreateSave, LoadRead, LoadDone, Reply, Auth, WithKeystore,
                ScrapeStart, RenameContact, session
  <2> QED
    BY <1>1, <2>1
<1>10. ~UNCHANGED vars
  BY <1>1 DEF vars, session
<1>11. ASSUME NEW g \in Request, NEW k, MineRead(g, k) PROVE FALSE
  BY <1>9, <1>11 DEF MineRead
<1> QED
  BY <1>2, <1>3, <1>4, <1>5, <1>7, <1>8, <1>9, <1>10, <1>11
     DEF Next, Step, ListIdentities, ListChannels, ListContacts, ExportIdentity, SendChannel,
         AddIdentity, ImportIdentity, AddChannel, RemoveIdentity, RemoveChannel

\* StampKept: an identity's stamp loses work only to an unlock that installs an
\* older keystore, or to mining that began before the better stamp came, that was
\* for another key or that could not go on from the stamp.
THEOREM StampLoss == Spec => StampKept
<1>1. TypeOK /\ [Next]_vars =>
        [\A i \in Identity :
           /\ ks # Locked /\ ks' # Locked /\ i \in ks.has \cap ks'.has
           /\ ks'.stamp[i].bits < ks.stamp[i].bits
           => \E g \in Request :
                /\ req'[g] = Idle
                /\ \/ req[g].pc = "unlock"
                   \/ /\ req[g].pc = "mine"
                      /\ \/ req[g].id # i \/ ~req[g].seed.sized
                         \/ req[g].seed.bits < ks.stamp[i].bits]_vars
  BY StampNext
<1> QED
  BY <1>1, TypeCorrect, PTL DEF Spec, StampKept
-----------------------------------------------------------------------------
(* What a reply has confirmed stays in the file.                           *)

\* A request that has read the file, or its absence, has read it before this
\* step, and the step makes nothing new owed.
HandlersKept ==
  \A h \in Request :
    req'[h].pc \in {"create", "load", "unlock"} => req'[h] = req[h] /\ Owed' \subseteq Owed

\* Then what such requests hold is still all that is owed.
LEMMA HandlersSafe ==
  ASSUME KeptInv, HandlersKept
  PROVE  \A g \in Request :
           /\ req'[g].pc = "load" => \A x \in Owed' : x \in req'[g].from.has \cup {req'[g].from.pw}
           /\ req'[g].pc = "unlock" => \A x \in Owed' : x \in req'[g].ks.has \cup {req'[g].ks.pw}
           /\ req'[g].pc = "create" => Owed' = {}
           /\ req'[g].pc = "load" /\ req'[g].from.version = 1 => req'[g].from.has \subseteq Identity
BY DEF KeptInv, HandlersKept, OwedInMemory, Keeps, OldFileIdentities

\* A handler that returns while none overlaps it, or that makes nothing new owed,
\* leaves the others' readings good.
LEMMA ReturnKeeps ==
  ASSUME TypeOK, NEW g \in Request, Goto(g, Idle), Owed' \subseteq Owed \/ ~Overlap(g)
  PROVE  HandlersKept
<1>1. req'[g] = Idle /\ \A h \in Request \ {g} : req'[h] = req[h]
  BY GotoParts
<1> QED
  BY <1>1 DEF HandlersKept, Overlap, Idle

\* A reply that confirms s makes s owed, and nothing when another request could
\* overwrite it.
LEMMA ConfirmOwed ==
  ASSUME NEW g, NEW s, Confirm(g, s)
  PROVE  Owed' \subseteq Owed \cup s /\ (Owed' \subseteq Owed \/ ~Overlap(g))
<1>1. CASE Overlap(g)
  BY <1>1 DEF Confirm, Owed
<1>2. CASE ~Overlap(g)
  BY <1>2 DEF Confirm, Owed
<1> QED
  BY <1>1, <1>2

\* A handler changes the keystore in memory to one that has all that is owed, and
\* saves it, or cannot save it and makes nothing new owed.
LEMMA WriterSafe ==
  ASSUME KeptInv, TypeOK', HandlersKept, UNCHANGED asked, ks # Locked, ks' \in Keystore,
         \A x \in Owed' : x \in ks'.has \cup {ks'.pw},
         file' = OnDisk(ks') \/ (file' = file /\ Owed' \subseteq Owed)
  PROVE  KeptInv'
<1>1. TypeOK /\ asked \in Workloads /\ file # NoFile /\ file \in File
  BY DEF KeptInv, TypeOK, NothingReadWithoutFile
<1>2. /\ OnDisk(ks') \in File /\ OnDisk(ks') # NoFile /\ OnDisk(ks').version = 2
      /\ OnDisk(ks').has = ks'.has /\ OnDisk(ks').pw = ks'.pw
  BY <1>1, DiskTypes, Present
<1>3. ConfirmedKept' /\ file' # NoFile
  <2>1. CASE file' = OnDisk(ks')
    BY <1>2, <2>1 DEF ConfirmedKept, Owed
  <2>2. CASE file' = file /\ Owed' \subseteq Owed
    BY <1>1, <2>2 DEF KeptInv, ConfirmedKept, Owed
  <2> QED
    BY <2>1, <2>2
<1>4. OwedInMemory'
  BY HandlersSafe DEF OwedInMemory, Keeps
<1>5. NothingReadWithoutFile'
  BY <1>3 DEF NothingReadWithoutFile
<1>6. OldFileIdentities'
  BY <1>1, <1>2, HandlersSafe DEF KeptInv, OldFileIdentities
<1> QED
  BY <1>3, <1>4, <1>5, <1>6 DEF KeptInv

\* A handler that leaves the file and the keystore alone, or the keystore that it
\* locks, and makes nothing new owed.
LEMMA QuietSafe ==
  ASSUME KeptInv, TypeOK', HandlersKept, UNCHANGED <<asked, file>>, ks' \in {ks, Locked},
         Owed' \subseteq Owed
  PROVE  KeptInv'
<1>1. ConfirmedKept'
  BY DEF KeptInv, ConfirmedKept, Owed
<1>2. OwedInMemory'
  BY HandlersSafe DEF KeptInv, OwedInMemory, Keeps
<1>3. NothingReadWithoutFile'
  BY DEF KeptInv, NothingReadWithoutFile, HandlersKept
<1>4. OldFileIdentities'
  BY HandlersSafe DEF KeptInv, OldFileIdentities
<1> QED
  BY <1>1, <1>2, <1>3, <1>4 DEF KeptInv

\* Every step of every handler keeps the inductive invariant.
LEMMA KeptNext == KeptInv /\ TypeOK' /\ [Next]_vars => KeptInv'
<1> SUFFICES ASSUME KeptInv, TypeOK', [Next]_vars PROVE KeptInv'
  OBVIOUS
<1>0. /\ TypeOK /\ asked \in Workloads /\ asked.pws \subseteq Password
      /\ file \in File \cup {NoFile} /\ (ks # Locked => ks \in Keystore)
      /\ (ks # Locked => \A x \in Owed : x \in ks.has \cup {ks.pw})
      /\ (file = NoFile => ks = Locked)
  BY StampFacts DEF KeptInv, TypeOK, OwedInMemory, Keeps, NothingReadWithoutFile
<1>1. CASE UNCHANGED vars
  <2>1. HandlersKept /\ Owed' \subseteq Owed
    BY <1>1 DEF HandlersKept, Owed, vars, promises
  <2> QED
    BY <1>1, <2>1, QuietSafe DEF vars, session
<1> SUFFICES ASSUME Step, UNCHANGED asked PROVE KeptInv'
  BY <1>1 DEF Next
<1>2. ASSUME NEW g \in Request, NEW p \in asked.pws, CreateStat(g, p) PROVE KeptInv'
  <2>1. /\ UNCHANGED <<file, ks>> /\ file = NoFile /\ Owed' = Owed /\ Owed = {}
        /\ Goto(g, [pc |-> "create", pw |-> p])
    BY <1>2 DEF CreateStat, Owed, session, promises, KeptInv, ConfirmedKept
  <2>2. req'[g].pc = "create" /\ \A h \in Request \ {g} : req'[h] = req[h]
    BY <1>0, <2>1, GotoParts
  <2> QED
    BY <2>1, <2>2 DEF KeptInv, ConfirmedKept, Owed, OwedInMemory, Keeps,
                      NothingReadWithoutFile, OldFileIdentities
<1>3. ASSUME NEW g \in Request, NEW p \in asked.pws, ChangePassword(g, p) PROVE KeptInv'
  <2>1. /\ ks # Locked /\ ks \in Keystore /\ ks' = [ks EXCEPT !.pw = p]
        /\ Goto(g, Idle) /\ p \in Password
    BY <1>0, <1>3 DEF ChangePassword, Writing
  <2>2. ks' \in Keystore /\ ks'.has = ks.has /\ ks'.pw = p /\ ks.pw \in Password
    BY <2>1 DEF Keystore
  <2>3. /\ Owed' \subseteq (Owed \ Password) \cup {p}
        /\ Owed' \subseteq Owed \/ ~Overlap(g)
        /\ file' = OnDisk(ks') \/ (file' = file /\ Owed' \subseteq Owed)
    <3>1. CASE Overlap(g)
      BY <1>3, <3>1 DEF ChangePassword, Owed
    <3>2. CASE ~Overlap(g)
      BY <1>3, <3>2 DEF ChangePassword, Owed
    <3> QED
      BY <3>1, <3>2
  <2>4. \A x \in Owed' : x \in ks'.has \cup {ks'.pw}
    BY <1>0, <2>1, <2>2, <2>3
  <2> QED
    BY <1>0, <2>1, <2>2, <2>3, <2>4, ReturnKeeps, WriterSafe
<1>4. ASSUME NEW g \in Request, CreateSave(g) PROVE KeptInv'
  <2> DEFINE p == req[g].pw
             k == NewKeystore(p)
  <2>1. /\ p \in Password /\ Owed = {} /\ Goto(g, Idle) /\ file' = OnDisk(k)
        /\ ks' = ks /\ told' = told \cup {p}
        /\ raced' = IF Overlap(g) \/ file # NoFile THEN raced \cup {p} ELSE raced
    BY <1>0, <1>4, HandlerFields DEF CreateSave, session, KeptInv, OwedInMemory
  <2>2. /\ file' \in File /\ file' # NoFile /\ file'.version = 2
        /\ file'.has = {} /\ file'.pw = p
    BY <1>0, <2>1, DiskTypes, Present
  <2>3. CASE Overlap(g) \/ file # NoFile
    <3>1. Owed' = {}
      BY <2>1, <2>3 DEF Owed
    <3>2. HandlersKept
      BY <1>0, <2>1, <3>1, ReturnKeeps
    <3> QED
      BY <2>1, <2>2, <3>1, <3>2, HandlersSafe
         DEF KeptInv, ConfirmedKept, Owed, OwedInMemory, Keeps, NothingReadWithoutFile,
             OldFileIdentities
  <2>4. CASE ~Overlap(g) /\ file = NoFile
    <3>1. Owed' \subseteq {p} /\ ks' = Locked
      BY <1>0, <2>1, <2>4 DEF Owed
    <3>2. HandlersKept
      BY <1>0, <2>1, <2>4, ReturnKeeps
    <3> QED
      BY <2>1, <2>2, <3>1, <3>2, HandlersSafe
         DEF KeptInv, ConfirmedKept, Owed, OwedInMemory, Keeps, NothingReadWithoutFile,
             OldFileIdentities
  <2> QED
    BY <2>3, <2>4
<1>5. ASSUME NEW g \in Request, LoadRead(g) PROVE KeptInv'
  <2>1. /\ UNCHANGED <<file, ks>> /\ file # NoFile /\ Owed' = Owed
        /\ Goto(g, [pc |-> "load", from |-> file])
    BY <1>5 DEF LoadRead, Owed, session, promises
  <2>2. /\ req'[g].pc = "load" /\ req'[g].from = file
        /\ \A h \in Request \ {g} : req'[h] = req[h]
    BY <1>0, <2>1, GotoParts
  <2>3. \A x \in Owed : x \in file.has \cup {file.pw}
    BY DEF KeptInv, ConfirmedKept, Owed
  <2> QED
    BY <2>1, <2>2, <2>3 DEF KeptInv, ConfirmedKept, Owed, OwedInMemory, Keeps,
                      NothingReadWithoutFile, OldFileIdentities
<1>6. ASSUME NEW g \in Request, LoadDone(g) PROVE KeptInv'
  <2> DEFINE from == req[g].from
             old == [FromDisk(from) EXCEPT !.has = @ \cap Identity]
  <2>1. /\ req[g].pc = "load" /\ from \in File /\ ks' = ks /\ Owed' = Owed
        /\ \A x \in Owed : x \in from.has \cup {from.pw}
        /\ from.version = 1 => from.has \subseteq Identity
        /\ Goto(g, [pc |-> "unlock", ks |-> FromDisk(from)])
    BY <1>0, <1>6, HandlerFields
       DEF LoadDone, Owed, session, promises, KeptInv, OwedInMemory, Keeps, OldFileIdentities
  <2>2. /\ FromDisk(from) \in Keystore
        /\ FromDisk(from).has = from.has /\ FromDisk(from).pw = from.pw
    BY <1>0, <2>1, DiskTypes
  <2>3. /\ req'[g].pc = "unlock" /\ req'[g].ks = FromDisk(from)
        /\ \A h \in Request \ {g} : req'[h] = req[h]
    BY <1>0, <2>1, GotoParts
  <2>4. file # NoFile
    BY <2>1 DEF KeptInv, NothingReadWithoutFile
  <2>5. file' # NoFile /\ (\A x \in Owed : x \in file'.has \cup {file'.pw})
        /\ (file'.version = 1 => file'.has \subseteq Identity)
    <3>1. CASE from.version = 1
      <4>1. old \in Keystore /\ old.has = from.has \cap Identity /\ old.pw = from.pw
        BY <2>2 DEF Keystore
      <4>2. file' = OnDisk(old)
        BY <1>6, <3>1 DEF LoadDone
      <4> HIDE DEF old
      <4>3. /\ file' \in File /\ file' # NoFile /\ file'.has = from.has \cap Identity
            /\ file'.pw = from.pw /\ file'.version = 2
        BY <1>0, <4>1, <4>2, DiskTypes, Present
      <4> QED
        BY <2>1, <3>1, <4>3
    <3>2. CASE from.version # 1
      <4>1. file' = file
        BY <1>6, <3>2 DEF LoadDone
      <4> QED
        BY <2>4, <4>1 DEF KeptInv, ConfirmedKept, Owed, OldFileIdentities
    <3> QED
      BY <3>1, <3>2
  <2> QED
    BY <2>1, <2>2, <2>3, <2>5
       DEF KeptInv, ConfirmedKept, Owed, OwedInMemory, Keeps, NothingReadWithoutFile,
           OldFileIdentities
<1>7. ASSUME NEW g \in Request, Unlock(g) PROVE KeptInv'
  <2>1. /\ UNCHANGED file /\ Owed' = Owed /\ ks' = req[g].ks /\ Goto(g, Idle)
        /\ req[g].pc = "unlock"
    BY <1>7 DEF Unlock, Owed
  <2>2. file # NoFile /\ \A x \in Owed : x \in ks'.has \cup {ks'.pw}
    BY <2>1 DEF KeptInv, NothingReadWithoutFile, OwedInMemory, Keeps
  <2>3. HandlersKept
    BY <1>0, <2>1, ReturnKeeps
  <2> QED
    BY <2>1, <2>2, <2>3, HandlersSafe
       DEF KeptInv, ConfirmedKept, Owed, OwedInMemory, Keeps, NothingReadWithoutFile,
           OldFileIdentities
<1>8. ASSUME NEW g \in Request, NEW h, NEW r,
             \/ Reply(g) \/ Auth(g) \/ WithKeystore(g, h) \/ ScrapeStart(g) \/ Lock(g),
             h.pc \notin {"create", "load", "unlock"}
      PROVE  KeptInv'
  <2>1. /\ UNCHANGED file /\ ks' \in {ks, Locked} /\ Owed' = Owed
        /\ \E i : Goto(g, i) /\ i.pc \notin {"create", "load", "unlock"}
    BY <1>8 DEF Reply, Auth, WithKeystore, ScrapeStart, Lock, Owed, session, promises, Idle
  <2>2. HandlersKept
    BY <1>0, <2>1, GotoParts DEF HandlersKept
  <2> QED
    BY <2>1, <2>2, QuietSafe
<1>9. ASSUME NEW g \in Request, NEW i, MineRead(g, i) PROVE KeptInv'
  <2> DEFINE h == [pc |-> "mine", id |-> i,
                   seed |-> IF ks = Locked THEN NoStamp ELSE ks.stamp[i]]
  <2>1. WithKeystore(g, h) /\ h.pc = "mine"
    BY <1>9 DEF MineRead
  <2> HIDE DEF h
  <2> QED
    BY <1>8, <2>1
<1>10. ASSUME NEW g \in Request, NEW r \in Record, AddKey(g, r) \/ AddContact(g, r) PROVE KeptInv'
  <2>1. /\ ks # Locked /\ ks \in Keystore /\ ks' = [ks EXCEPT !.has = @ \cup {r}]
        /\ Goto(g, Idle)
        /\ \/ file' = OnDisk(ks') /\ Confirm(g, {r})
           \/ file' = file /\ UNCHANGED <<told, raced>>
    BY <1>0, <1>10 DEF AddKey, AddContact, Writing
  <2>2. ks' \in Keystore /\ ks'.has = ks.has \cup {r} /\ ks'.pw = ks.pw
    BY <2>1 DEF Keystore
  <2>3. /\ Owed' \subseteq Owed \cup {r} /\ (Owed' \subseteq Owed \/ ~Overlap(g))
        /\ file' = OnDisk(ks') \/ (file' = file /\ Owed' \subseteq Owed)
    BY <2>1, ConfirmOwed DEF Owed
  <2>4. \A x \in Owed' : x \in ks'.has \cup {ks'.pw}
    BY <1>0, <2>1, <2>2, <2>3
  <2> QED
    BY <1>0, <2>1, <2>2, <2>3, <2>4, ReturnKeeps, WriterSafe
<1>11. ASSUME NEW g \in Request, NEW r \in Record, RemoveKey(g, r) \/ RemoveContact(g, r)
       PROVE  KeptInv'
  <2>1. /\ ks # Locked /\ ks \in Keystore
        /\ Goto(g, Idle) /\ told' = told \ {r} /\ raced' = raced \ {r}
        /\ file' \in {OnDisk(ks'), file}
    BY <1>0, <1>11 DEF RemoveKey, RemoveContact, Writing
  <2>2. ks' \in Keystore /\ ks'.has = ks.has \ {r} /\ ks'.pw = ks.pw
    <3>1. CASE RemoveKey(g, r)
      BY <1>0, <3>1, RemovedKeystore
    <3>2. CASE RemoveContact(g, r)
      BY <2>1, <3>2 DEF RemoveContact, Keystore
    <3> QED
      BY <1>11, <3>1, <3>2
  <2>4. Owed' = Owed \ {r}
    BY <2>1 DEF Owed
  <2>5. \A x \in Owed' : x \in ks'.has \cup {ks'.pw}
    BY <1>0, <2>1, <2>2, <2>4
  <2> QED
    BY <1>0, <2>1, <2>2, <2>4, <2>5, ReturnKeeps, WriterSafe
<1>12. ASSUME NEW g \in Request, NEW r, RenameContact(g, r) PROVE KeptInv'
  <2>1. /\ ks # Locked /\ ks \in Keystore /\ ks' = ks /\ Owed' = Owed
        /\ Goto(g, Idle) /\ file' = OnDisk(ks')
    BY <1>0, <1>12 DEF RenameContact, Writing, session, promises, Owed
  <2> QED
    BY <1>0, <2>1, ReturnKeeps, WriterSafe
<1>13. ASSUME NEW j, NEW i, NEW s, SetIdentityPoW(j, i, s), ks # Locked, HandlersKept
       PROVE  KeptInv'
  <2>1. /\ ks \in Keystore /\ Owed' = Owed /\ file' \in {OnDisk(ks'), file}
        /\ ks'.has = ks.has /\ ks'.pw = ks.pw
    BY <1>0, <1>13 DEF SetIdentityPoW, promises, Owed, Keystore
  <2>2. ks' \in Keystore
    <3>1. ks' # Locked
      BY <1>0, <1>13 DEF SetIdentityPoW, TypeOK
    <3> QED
      BY <3>1 DEF TypeOK, Keystore
  <2> QED
    BY <1>0, <1>13, <2>1, <2>2, WriterSafe
<1>14. ASSUME NEW g \in Request, MineStore(g) PROVE KeptInv'
  <2>1. HandlersKept
    <3>1. Goto(g, Idle) /\ Owed' = Owed
      BY <1>14 DEF MineStore, SetIdentityPoW, promises, Owed
    <3> QED
      BY <1>0, <3>1, ReturnKeeps
  <2> QED
    BY <1>13, <1>14, <2>1 DEF MineStore
<1>15. ASSUME NEW g \in Request, NEW i, NEW s, ApplyPowGift(g, i, s) PROVE KeptInv'
  <2>1. HandlersKept
    BY <1>15 DEF ApplyPowGift, SetIdentityPoW, promises, Owed, HandlersKept
  <2> QED
    BY <1>13, <1>15, <2>1 DEF ApplyPowGift
<1>16. CASE Restart
  <2>1. /\ UNCHANGED file /\ ks' = Locked /\ Owed' = Owed
        /\ \A h \in Request : req'[h] = Idle
    BY <1>16 DEF Restart, Owed
  <2>2. HandlersKept
    BY <2>1 DEF HandlersKept, Idle
  <2> QED
    BY <2>1, <2>2, QuietSafe
<1>17. ASSUME NEW g \in Request,
              \/ Reply(g) \/ Auth(g) \/ WithKeystore(g, Idle) \/ ScrapeStart(g) \/ Lock(g)
       PROVE  KeptInv'
  <2>1. Idle.pc \notin {"create", "load", "unlock"}
    BY DEF Idle
  <2> QED
    BY <1>8, <1>17, <2>1
<1>18. Identity \cup Channel \cup Contact = Record
  BY DEF Record
<1> QED
  BY <1>2, <1>3, <1>4, <1>5, <1>6, <1>7, <1>9, <1>10, <1>11, <1>12, <1>14,
     <1>15, <1>16, <1>17, <1>18
     DEF Step, ListIdentities, ListChannels, ListContacts, ExportIdentity, SendChannel,
         AddIdentity, ImportIdentity, AddChannel, RemoveIdentity, RemoveChannel

\* ConfirmedKept, for a version 1 file that has identities only: what a reply has
\* confirmed stays in the file, but for what was confirmed while another request
\* was between reading the file and acting on it.  Without the condition the
\* migration of the file loses its channels and contacts (run api_migrate).
THEOREM ConfirmedStays ==
  ASSUME OldRecords \subseteq Identity
  PROVE  Spec => []ConfirmedKept
<1>1. Init => KeptInv
  <2> SUFFICES ASSUME Init PROVE KeptInv
    OBVIOUS
  <2>1. TypeOK
    BY TypeInit
  <2>2. ConfirmedKept
    <3>1. CASE told = {}
      BY <3>1 DEF ConfirmedKept
    <3>2. CASE told # {}
      <4>1. PICK p \in asked.pws :
              /\ file = [version |-> 1, pw |-> p, has |-> OldRecords,
                         stamp |-> [i \in Identity |-> NoStamp]]
              /\ told = OldRecords \cup {p}
        BY <3>2 DEF Init
      <4>2. file.has = OldRecords /\ file.pw = p /\ file.version = 1
        BY <4>1
      <4>3. file \in File
        <5>1. NoStamp \in asked.stamps /\ p \in Password /\ OldRecords \subseteq Record
          BY <2>1, StampFacts, SessionAssumption DEF TypeOK
        <5> QED
          BY <4>1, <5>1 DEF File
      <4>4. file # NoFile
        BY <2>1, <4>3, Present DEF TypeOK
      <4> QED
        BY <4>1, <4>2, <4>4 DEF ConfirmedKept
    <3> QED
      BY <3>1, <3>2
  <2>3. OwedInMemory
    BY DEF Init, OwedInMemory, Idle
  <2>4. NothingReadWithoutFile /\ OldFileIdentities
    BY DEF Init, NothingReadWithoutFile, OldFileIdentities, Idle
  <2> QED
    BY <2>1, <2>2, <2>3, <2>4 DEF KeptInv
<1>2. KeptInv => ConfirmedKept
  BY DEF KeptInv
<1> QED
  BY <1>1, <1>2, TypeCorrect, KeptNext, PTL DEF Spec
=============================================================================
