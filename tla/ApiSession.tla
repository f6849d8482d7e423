----------------------------- MODULE ApiSession -----------------------------
(***************************************************************************)
(* The local API's session and its keystore file (client/api/server.go,    *)
(* client/api/handlers.go, client/keystore.go).  Each request runs in a    *)
(* goroutine of its own.  A critical section of the server's mutex is one  *)
(* step, and so is Save, which writes a temporary file and renames it;     *)
(* what a handler reads before it takes the lock is a step of its own.     *)
(* Keys and ciphertexts are left out: a keystore is the set of its records *)
(* together with the password that opens it.                               *)
(***************************************************************************)
EXTENDS Integers, FiniteSets

CONSTANTS Request,     \* goroutines serving requests
          Identity,    \* keys of identities
          NameOf,      \* the name of each; a removed name can get a new key
          Channel,     \* names of channels
          Contact,     \* public keys of contacts
          Password,
          NoFile, Locked, NoScraper,
          OldRecords,  \* records of the version 1 file there may be at first
          Workloads,   \* what the clients of one behaviour ask for
          MaxTokens    \* bound on session tokens

Record == Identity \cup Channel \cup Contact

\* An identity's proof-of-work stamp: its work for the key that it was made for,
\* and whether it has the 16 bytes of a mined one, as a gift need not.
Stamp == [bits : Nat, sized : BOOLEAN]
NoStamp == [bits |-> 0, sized |-> TRUE]

ASSUME SessionAssumption ==
  /\ OldRecords \subseteq Record
  /\ \A w \in Workloads : w.names \subseteq Record /\ w.pws \subseteq Password
                          /\ w.stamps \subseteq Stamp /\ NoStamp \in w.stamps
  /\ MaxTokens \in Nat
  /\ Identity \cap Channel = {} /\ (Identity \cup Channel) \cap Contact = {}
  /\ Record \cap Password = {}

\* The absent file, keystore and scraper are none of the present ones.
ASSUME NilAssumption ==
  /\ NoFile \notin [version : {1, 2}, pw : Password, has : SUBSET Record,
                    stamp : [Identity -> Stamp]]
  /\ Locked \notin [pw : Password, has : SUBSET Record, stamp : [Identity -> Stamp]]
  /\ \A S \in SUBSET (Identity \cup Channel) : S # NoScraper

VARIABLES
  asked,    \* the names, passwords and stamps that requests are about
  file,     \* the keystore file
  ks,       \* s.ks
  scraper,  \* the keys s.scraper was built with
  tokens,   \* number of live session tokens
  req,      \* per goroutine: where its handler is
  leaked,   \* a handler panicked with the read lock held
  told,     \* records and password a reply has confirmed, not given up since
  raced,    \* of those, the ones confirmed while a load or a create was under way
  unsaved   \* keys whose last change could not be saved

session == <<ks, scraper, tokens, leaked>>
promises == <<told, raced, unsaved>>
vars == <<asked, file, session, req, promises>>

Keystore == [pw : Password, has : SUBSET Record, stamp : [Identity -> asked.stamps]]
File == [version : {1, 2}, pw : Password, has : SUBSET Record,
         stamp : [Identity -> asked.stamps]]
Idle == [pc |-> "idle"]

\* Where a handler is, and what it has read so far.
Handler == [pc : {"idle", "authed", "scrape"}]
             \cup [pc : {"mine"}, id : Identity, seed : asked.stamps]
             \cup [pc : {"create"}, pw : Password]
             \cup [pc : {"load"}, from : File]
             \cup [pc : {"unlock"}, ks : Keystore]

\* Types, and what the session's fields say of each other: there is a scraper
\* just while the keystore is unlocked, and auth lets a request pass only then,
\* so that a handler finds s.ks nil only when a lock comes between its auth and
\* its own critical section.
TypeOK ==
  /\ asked \in Workloads
  /\ file \in File \cup {NoFile}
  /\ ks \in Keystore \cup {Locked}
  /\ scraper \in {NoScraper} \cup SUBSET (Identity \cup Channel)
  /\ ks = Locked <=> scraper = NoScraper
  /\ tokens > 0 => ks # Locked
  /\ tokens \in 0..MaxTokens
  /\ req \in [Request -> Handler]
  /\ leaked \in BOOLEAN
  /\ told \subseteq Record \cup Password /\ raced \subseteq Record \cup Password
  /\ unsaved \subseteq Identity \cup Channel

Init ==
  /\ asked \in Workloads
  /\ \/ file = NoFile /\ told = {}
     \/ \E p \in asked.pws :
          /\ file = [version |-> 1, pw |-> p, has |-> OldRecords,
                     stamp |-> [i \in Identity |-> NoStamp]]
          /\ told = OldRecords \cup {p}
  /\ ks = Locked /\ scraper = NoScraper /\ tokens = 0
  /\ req = [g \in Request |-> Idle]
  /\ leaked = FALSE /\ raced = {} /\ unsaved = {}
-----------------------------------------------------------------------------
Keys(k) == k.has \cap (Identity \cup Channel)

NewKeystore(p) ==
  [pw |-> p, has |-> {}, stamp |-> [i \in Identity |-> NoStamp]]

\* What Save writes.
OnDisk(k) == [version |-> 2, pw |-> k.pw, has |-> k.has, stamp |-> k.stamp]

\* What LoadKeystore makes of a file.
FromDisk(f) == [pw |-> f.pw, has |-> f.has, stamp |-> f.stamp]

\* A record of keystore k has the name of r.
Taken(k, r) ==
  IF r \in Identity THEN \E i \in k.has \cap Identity : NameOf[i] = NameOf[r]
                    ELSE r \in k.has

Goto(g, state) == req' = [req EXCEPT ![g] = state]

\* The handler has the write lock; a reader that never leaves keeps it out.
Writing(g) == req[g].pc = "authed" /\ ~leaked /\ ks # Locked

\* Another handler has read the file, or its absence, and will act on that.
Overlap(g) == \E h \in Request \ {g} : req[h].pc \in {"create", "load", "unlock"}

\* A reply confirms what is in s.
Confirm(g, s) ==
  /\ told' = told \cup s
  /\ raced' = IF Overlap(g) THEN raced \cup s ELSE raced \ s
-----------------------------------------------------------------------------
(* handleCreate and handleUnlock: no token needed, file read without lock. *)

CreateStat(g, p) ==
  /\ req[g] = Idle
  /\ file = NoFile
  /\ Goto(g, [pc |-> "create", pw |-> p])
  /\ UNCHANGED <<file, session, promises>>

CreateSave(g) ==
  /\ req[g].pc = "create"
  /\ file' = OnDisk(NewKeystore(req[g].pw))
  /\ told' = told \cup {req[g].pw}
  /\ raced' = IF Overlap(g) \/ file # NoFile THEN raced \cup {req[g].pw} ELSE raced
  /\ Goto(g, Idle)
  /\ UNCHANGED <<session, unsaved>>

LoadRead(g) ==
  /\ req[g] = Idle
  /\ file # NoFile
  /\ Goto(g, [pc |-> "load", from |-> file])
  /\ UNCHANGED <<file, session, promises>>

\* Mutant: every load saves the keystore, as a migration does.
LoadDoneSaves(g) ==
  /\ req[g].pc = "load"
  /\ file' = OnDisk([FromDisk(req[g].from) EXCEPT !.has = @ \cap Identity])
  /\ Goto(g, [pc |-> "unlock", ks |-> FromDisk(req[g].from)])
  /\ UNCHANGED <<session, promises>>

\* A version 1 file is saved again once its identities are read, before its
\* channels and contacts are.
LoadDone(g) ==
  /\ req[g].pc = "load"
  /\ LET from == req[g].from IN
       /\ IF from.version = 1
            THEN file' = OnDisk([FromDisk(from) EXCEPT !.has = @ \cap Identity])
            ELSE UNCHANGED file
       /\ Goto(g, [pc |-> "unlock", ks |-> FromDisk(from)])
  /\ UNCHANGED <<session, promises>>

Unlock(g) ==
  /\ req[g].pc = "unlock" /\ ~leaked
  /\ tokens < MaxTokens
  /\ ks' = req[g].ks
  /\ tokens' = tokens + 1
  /\ scraper' = Keys(ks')
  /\ unsaved' = {}
  /\ Goto(g, Idle)
  /\ UNCHANGED <<file, leaked, told, raced>>

\* Any handler that returns and changes nothing more: bad input, wrong password,
\* unknown or taken name, a failed read or write of the file, the end of a
\* scrape, and the recovered panic of a handler that finds the session locked
\* under a lock that it releases on return.
Reply(g) ==
  /\ req[g] # Idle
  /\ Goto(g, Idle)
  /\ UNCHANGED <<file, session, promises>>
-----------------------------------------------------------------------------
(* Handlers behind auth.                                                   *)

Auth(g) ==
  /\ req[g] = Idle
  /\ tokens > 0
  /\ Goto(g, [pc |-> "authed"])
  /\ UNCHANGED <<file, session, promises>>

\* Mutant: lock keeps the tokens.
LockKeepsTokens(g) ==
  /\ req[g].pc = "authed" /\ ~leaked
  /\ ks' = Locked /\ scraper' = NoScraper
  /\ Goto(g, Idle)
  /\ UNCHANGED <<file, tokens, leaked, promises>>

Lock(g) ==
  /\ req[g].pc = "authed" /\ ~leaked
  /\ ks' = Locked /\ scraper' = NoScraper /\ tokens' = 0
  /\ Goto(g, Idle)
  /\ UNCHANGED <<file, leaked, promises>>

\* Mutant: the scraper is not rebuilt.
AddKeyOnly(g, r) ==
  /\ Writing(g) /\ ~Taken(ks, r)
  /\ ks' = [ks EXCEPT !.has = @ \cup {r}]
  /\ file' = OnDisk(ks') /\ Confirm(g, {r})
  /\ Goto(g, Idle)
  /\ UNCHANGED <<tokens, leaked, scraper, unsaved>>

\* A key is added, the keystore saved and the scraper rebuilt; when Save fails
\* the key stays in memory and the scraper as it was.
AddKey(g, r) ==
  /\ Writing(g) /\ ~Taken(ks, r)
  /\ ks' = [ks EXCEPT !.has = @ \cup {r}]
  /\ \/ /\ file' = OnDisk(ks') /\ Confirm(g, {r})
        /\ scraper' = Keys(ks') /\ unsaved' = {}
     \/ unsaved' = unsaved \cup {r} /\ UNCHANGED <<file, scraper, told, raced>>
  /\ Goto(g, Idle)
  /\ UNCHANGED <<tokens, leaked>>

AddIdentity(g, r) == AddKey(g, r)
ImportIdentity(g, r) == AddKey(g, r)
AddChannel(g, r) == AddKey(g, r)

\* A key is removed, with the same ending.
RemoveKey(g, r) ==
  /\ Writing(g) /\ r \in ks.has
  /\ ks' = [ks EXCEPT !.has = @ \ {r},
                      !.stamp = [i \in Identity |-> IF i = r THEN NoStamp ELSE @[i]]]
  /\ told' = told \ {r} /\ raced' = raced \ {r}
  /\ \/ file' = OnDisk(ks') /\ scraper' = Keys(ks') /\ unsaved' = {}
     \/ unsaved' = unsaved \cup {r} /\ UNCHANGED <<file, scraper>>
  /\ Goto(g, Idle)
  /\ UNCHANGED <<tokens, leaked>>

RemoveIdentity(g, r) == RemoveKey(g, r)
RemoveChannel(g, r) == RemoveKey(g, r)

\* handleAddContact: contacts are nothing to the scraper.
AddContact(g, r) ==
  /\ Writing(g) /\ ~Taken(ks, r)
  /\ ks' = [ks EXCEPT !.has = @ \cup {r}]
  /\ \/ file' = OnDisk(ks') /\ Confirm(g, {r})
     \/ UNCHANGED <<file, told, raced>>
  /\ Goto(g, Idle)
  /\ UNCHANGED <<scraper, tokens, leaked, unsaved>>

RemoveContact(g, r) ==
  /\ Writing(g) /\ r \in ks.has
  /\ ks' = [ks EXCEPT !.has = @ \ {r}]
  /\ told' = told \ {r} /\ raced' = raced \ {r}
  /\ file' \in {OnDisk(ks'), file}
  /\ Goto(g, Idle)
  /\ UNCHANGED <<scraper, tokens, leaked, unsaved>>

\* handleChangePassword: the new password is in force even when Save fails.
ChangePassword(g, p) ==
  /\ Writing(g)
  /\ ks' = [ks EXCEPT !.pw = p]
  /\ \/ /\ file' = OnDisk(ks')
        /\ told' = (told \ Password) \cup {p}
        /\ raced' = (raced \ Password) \cup (IF Overlap(g) THEN {p} ELSE {})
     \/ told' = told \ Password /\ raced' = raced \ Password /\ UNCHANGED file
  /\ Goto(g, Idle)
  /\ UNCHANGED <<scraper, tokens, leaked, unsaved>>

\* handleRenameContact changes a record's text and saves.
RenameContact(g, r) ==
  /\ Writing(g) /\ r \in ks.has
  /\ file' = OnDisk(ks)
  /\ Goto(g, Idle)
  /\ UNCHANGED <<session, promises>>

\* A handler uses s.ks under the read lock: without a keystore it panics and
\* leaves the lock held.
WithKeystore(g, next) ==
  /\ req[g].pc = "authed"
  /\ IF ks = Locked
       THEN leaked' = TRUE /\ Goto(g, Idle)
       ELSE UNCHANGED leaked /\ Goto(g, next)
  /\ UNCHANGED <<file, ks, scraper, tokens, promises>>

ListIdentities(g) == WithKeystore(g, Idle)
ListChannels(g) == WithKeystore(g, Idle)
ListContacts(g) == WithKeystore(g, Idle)
ExportIdentity(g) == WithKeystore(g, Idle)
SendChannel(g) == WithKeystore(g, Idle)

\* handleMineIdentityPoW takes the stamp the identity has as its seed.
MineRead(g, i) ==
  /\ ks # Locked => i \in ks.has
  /\ WithKeystore(g, [pc |-> "mine", id |-> i,
                      seed |-> IF ks = Locked THEN NoStamp ELSE ks.stamp[i]])

\* handleScrape copies a pointer under the lock (and so does handleSend).
ScrapeStart(g) ==
  /\ req[g].pc = "authed" /\ scraper # NoScraper
  /\ Goto(g, [pc |-> "scrape"])
  /\ UNCHANGED <<file, session, promises>>

\* The identity that has the name of i by now.
Named(i) == {j \in ks.has \cap Identity : NameOf[j] = NameOf[i]}

\* Stamp s, made for key i, is set on identity j and the keystore saved if that
\* can be done; for another key it is worth nothing.
SetIdentityPoW(j, i, s) ==
  /\ ks' = [ks EXCEPT !.stamp[j] = IF i = j THEN s ELSE [s EXCEPT !.bits = 0]]
  /\ file' \in {OnDisk(ks'), file}
  /\ UNCHANGED <<scraper, tokens, leaked, promises>>

\* What mining from a seed can find; a seed of another size is not used.
Mined(seed) ==
  {s \in asked.stamps : s.sized /\ (seed.sized => s.bits >= seed.bits)}

\* handleMineIdentityPoW, after mining without the lock.
MineStore(g) ==
  /\ req[g].pc = "mine" /\ ~leaked /\ ks # Locked
  /\ \E j \in Named(req[g].id), s \in Mined(req[g].seed) :
       SetIdentityPoW(j, req[g].id, s)
  /\ Goto(g, Idle)

\* Mutant: a gift is taken whether it is better or not.
ApplyPowGiftBlind(g, i, s) ==
  /\ req[g].pc = "scrape" /\ ~leaked /\ ks # Locked
  /\ i \in Named(i)
  /\ SetIdentityPoW(i, i, s)
  /\ UNCHANGED req

\* A scrape finds a stamp for key i that someone else has mined, and goes on.
ApplyPowGift(g, i, s) ==
  /\ req[g].pc = "scrape" /\ ~leaked /\ ks # Locked
  /\ i \in Named(i) /\ s.bits > ks.stamp[i].bits
  /\ SetIdentityPoW(i, i, s)
  /\ UNCHANGED req

\* The process dies and is started again.
Restart ==
  /\ ks' = Locked /\ scraper' = NoScraper /\ tokens' = 0 /\ leaked' = FALSE
  /\ unsaved' = {}
  /\ req' = [g \in Request |-> Idle]
  /\ UNCHANGED <<file, told, raced>>

Step ==
  \/ \E g \in Request :
       \/ \E p \in asked.pws : CreateStat(g, p) \/ ChangePassword(g, p)
       \/ CreateSave(g) \/ LoadRead(g) \/ LoadDone(g) \/ Unlock(g) \/ Reply(g)
       \/ Auth(g) \/ Lock(g)
       \/ ListIdentities(g) \/ ListChannels(g) \/ ListContacts(g)
       \/ ExportIdentity(g) \/ SendChannel(g)
       \/ MineStore(g) \/ ScrapeStart(g)
       \/ \E r \in Identity \cap asked.names :
            \/ AddIdentity(g, r) \/ ImportIdentity(g, r) \/ RemoveIdentity(g, r)
            \/ MineRead(g, r)
            \/ \E s \in asked.stamps : ApplyPowGift(g, r, s)
       \/ \E r \in Channel \cap asked.names : AddChannel(g, r) \/ RemoveChannel(g, r)
       \/ \E r \in Contact \cap asked.names :
            AddContact(g, r) \/ RemoveContact(g, r) \/ RenameContact(g, r)
  \/ Restart

Next == Step /\ UNCHANGED asked

Spec == Init /\ [][Next]_vars
-----------------------------------------------------------------------------
\* What a reply has confirmed stays in the file (a record until its removal is
\* asked for, the password until it is changed), whatever requests run at once,
\* saves fail and the process restarts.  The one exception is what was confirmed
\* while another request was between reading the file and acting on it: the
\* older keystore that request installs or writes can replace it.
ConfirmedKept ==
  \A x \in told \ raced : file # NoFile /\ x \in file.has \cup {file.pw}

\* A scrape tries exactly the identities and channels of the keystore: only a
\* key whose change could not be saved is in one and not in the other, until
\* the next change of a key that can be.
ScraperFollows ==
  ks # Locked =>
    Keys(ks) \ scraper \subseteq unsaved /\ scraper \ Keys(ks) \subseteq unsaved

\* "applyPowGift updates the keystore if the gifted stamp improves the named
\* identity", and mining goes on from the stamp there is: an identity's stamp
\* loses work only to an unlock that installs an older keystore, or to mining
\* that began before the better stamp came, that was for a key the name had
\* before, or that could not go on from the stamp because of its size.
StampKept ==
  [][\A i \in Identity :
       /\ ks # Locked /\ ks' # Locked /\ i \in ks.has \cap ks'.has
       /\ ks'.stamp[i].bits < ks.stamp[i].bits
       => \E g \in Request :
            /\ req'[g] = Idle
            /\ \/ req[g].pc = "unlock"
               \/ /\ req[g].pc = "mine"
                  /\ \/ req[g].id # i \/ ~req[g].seed.sized
                     \/ req[g].seed.bits < ks.stamp[i].bits]_vars
=============================================================================
