----------------------------- MODULE MessageApi -----------------------------
(***************************************************************************)
(* The handlers of the local API that write blocks (client/api/handlers.go: *)
(* send, send-channel, boost) next to the scraper and the other users of   *)
(* the store.  A handler reads, mines for seconds without any lock, puts   *)
(* the block and then looks at the store or the message table again.       *)
(***************************************************************************)
EXTENDS Scraper

CONSTANTS SendIDs,    \* blocks that this node encrypts: their ids are new
          Workloads   \* <<last second, whether handlers run>> of a behaviour

ASSUME MessageApiAssumption ==
  SendIDs \subseteq ID /\ Workloads \subseteq (1..MaxTime) \X BOOLEAN

VARIABLES
  work,      \* the workload
  used,      \* ids that exist: the others are still to be encrypted
  task,      \* the handler that is running
  answered,  \* history: sends that were answered, unless excused
  given      \* history: work a boost has reported, until the block is evicted

apiVars == <<work, used, task, answered, given>>
vars == <<scraperVars, apiVars>>

Idle == [pc |-> "idle", id |-> 0, wf |-> 0, lost |-> FALSE]

TypeOK ==
  /\ ScraperTypeOK
  /\ work \in Workloads /\ used \subseteq ID
  /\ task \in [pc : {"idle", "send", "post", "target", "mine", "boost"},
               id : ID \cup {0}, wf : WF,
               lost : BOOLEAN]     \* history: the block was evicted meanwhile
  /\ answered \subseteq used
  /\ given \subseteq [id : ID, wf : WF]

Init ==
  /\ ScraperInit
  /\ work \in Workloads
  /\ used = IF work[2] THEN ID \ SendIDs ELSE ID
  /\ task = Idle /\ answered = {} /\ given = {}
-----------------------------------------------------------------------------
(* The other users of the store.                                           *)

OtherPut(id, wf, tag) ==
  /\ id \in used
  /\ PutCall(id, wf, tag)
  /\ UNCHANGED apiVars

OtherEvict ==
  /\ \E c \in db.block :
       /\ db' = EvictTxn(db, c, now)
       /\ task' = [task EXCEPT !.lost = @ \/ task.id = c.id]
       /\ given' = {r \in given : r.id # c.id}
       /\ missed' = missed \ {c}
  /\ UNCHANGED <<now, puts, checkpoint, messages, gifts, window, scan, work, used, answered>>
-----------------------------------------------------------------------------
(* handleSend and handleSendChannel.                                       *)

\* The message is encrypted under a fresh key and mined, and Put is called.
Call(next, i, wf, tag) ==
  /\ work[2] /\ task = Idle /\ i \in SendIDs \ used
  /\ PutCall(i, wf, tag)
  /\ used' = used \cup {i}
  /\ task' = [Idle EXCEPT !.pc = next, !.id = i]
  /\ UNCHANGED <<work, answered, given>>

Send(i, wf, tag) == Call("send", i, wf, tag)
SendChannel(i, wf, tag) == Call("post", i, wf, tag)

\* The handler's Put has returned.
Returned(l) == task.pc = l /\ \A r \in puts : r.id # task.id

\* The plaintext goes into the message table, unless that fails, which is
\* ignored, or a scrape has read the block first.
SendReply ==
  /\ Returned("send")
  /\ \/ /\ messages' = SaveMessage(task.id, TRUE)
        /\ answered' = IF messages' # messages THEN answered \cup {task.id} ELSE answered
     \/ UNCHANGED <<messages, answered>>
  /\ task' = Idle
  /\ UNCHANGED <<store, scan, checkpoint, gifts, window, missed, work, used, given>>

\* A channel message is left for the next scrape to find.
SendChannelReply ==
  /\ Returned("post")
  /\ task' = Idle
  /\ UNCHANGED <<scraperVars, work, used, answered, given>>
-----------------------------------------------------------------------------
(* handleBoost.  The gift it may send to the author of the message is an   *)
(* OtherPut.                                                               *)

BoostGet(i) ==
  /\ work[2] /\ task = Idle /\ \E b \in db.block : b.id = i
  /\ task' = [Idle EXCEPT !.pc = "target", !.id = i]
  /\ UNCHANGED <<scraperVars, work, used, answered, given>>

\* A second read says how much work there is to beat; 0 if the block is gone.
BoostTarget ==
  /\ task.pc = "target"
  /\ LET there == {b \in db.block : b.id = task.id}
     IN  task' = [task EXCEPT !.pc = "mine",
                    !.wf = IF there = {} THEN 0 ELSE (CHOOSE b \in there : TRUE).wf]
  /\ UNCHANGED <<scraperVars, work, used, answered, given>>

BoostPut(wf, tag) ==
  /\ task.pc = "mine" /\ wf > task.wf
  /\ PutCall(task.id, wf, tag)
  /\ task' = [task EXCEPT !.pc = "boost", !.wf = wf]
  /\ UNCHANGED <<work, used, answered, given>>

\* The reply reports the work the store holds now, or the mined work when the
\* block cannot be read.
BoostReply ==
  /\ Returned("boost")
  /\ LET there == {b \in db.block : b.id = task.id}
         wf    == IF there = {} THEN task.wf ELSE (CHOOSE b \in there : TRUE).wf
     IN  given' = IF task.lost THEN given
                  ELSE given \cup {[id |-> task.id, wf |-> wf]}
  /\ task' = Idle
  /\ UNCHANGED <<scraperVars, work, used, answered>>

\* Mining finds nothing in time, or the client goes away.
MineFails ==
  /\ task.pc \in {"target", "mine"}
  /\ task' = Idle
  /\ UNCHANGED <<scraperVars, work, used, answered, given>>

\* A Put is rejected, anybody's: a handler replies with the error.
PutFails ==
  /\ \E r \in puts :
       /\ puts' = puts \ {r}
       /\ task' = IF task.pc \in {"send", "post", "boost"} /\ r.id = task.id
                  THEN Idle ELSE task
  /\ UNCHANGED <<now, db, saved, scan, work, used, answered, given>>

Next ==
  \/ \E id \in ID, wf \in WF, tag \in Tag :
       \/ OtherPut(id, wf, tag)
       \/ Send(id, wf, tag) \/ SendChannel(id, wf, tag)
  \/ OtherEvict
  \/ UNCHANGED apiVars /\ (PutCommit \/ ScrapeStep \/ (now < work[1] /\ Tick))
  \/ SendReply \/ SendChannelReply
  \/ \E i \in ID : BoostGet(i)
  \/ BoostTarget
  \/ \E wf \in WF, tag \in Tag : BoostPut(wf, tag)
  \/ BoostReply \/ MineFails \/ PutFails

Spec == Init /\ [][Next]_vars
-----------------------------------------------------------------------------
\* "Immediately persist plaintext so it appears without waiting for a scrape":
\* a message that send has saved stays in the table as one this node sent,
\* however often scrapes, also full ones, find its block later on.
SentKept == \A i \in answered : [id |-> i, sent |-> TRUE] \in messages

\* "Always return the live value": the store holds at least the work that a
\* boost has reported, whatever other puts of the same block were under way,
\* until the block is evicted.
BoostKept ==
  \A r \in given : \E b \in db.block : b.id = r.id /\ b.wf >= r.wf
=============================================================================
