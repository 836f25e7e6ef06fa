--------------------------- MODULE CommandHandle ----------------------------
(***************************************************************************)
(* The life of a command in iota::CommandHandle (rest/command_handle.cc):  *)
(* the updateContext that asks for it, its copy in the agent's cache and   *)
(* its document in the COMMAND collection, the device that polls for it or *)
(* is pushed it, the answer of the device, the timer.  Several agents      *)
(* share the collection (High Availability); each has its own cache.       *)
(*                                                                         *)
(* The unit of interleaving is one critical section of the cache mutex or  *)
(* one database operation (with the updateContext posted right after it).  *)
(* The timeout handler keeps the cache mutex of its agent throughout.      *)
(***************************************************************************)
EXTENDS CommandCache

CONSTANTS
  Storage,      \* storage.type of the configuration: "mongodb" or "file"
  Push,         \* requests for which is_push_type_of_command holds
  Polls,        \* requests "getCmd" of devices (bound: each happens once)
  Answers,      \* command results sent by devices (bound: each happens once)
  MaxFaults,    \* bound on failing database operations
  MaxCrashes,   \* bound on crashes of agents
  SaveRaces     \* may others act between the two writes of save_command?

ASSUME HandleAssumption ==
  /\ Storage \in {"mongodb", "file"}
  /\ Push \subseteq Reqs
  /\ MaxFaults \in Nat
  /\ MaxCrashes \in Nat
  /\ SaveRaces \in BOOLEAN
  /\ None \notin [req: Reqs, st: Status] \cup Ids \cup Entities

VARIABLES
  mongo,    \* COMMAND collection: unique index on id; document or None
  lock,     \* lock[a]: the timeout handler that holds the cache mutex of a
  req,      \* req[r]: the thread that serves request r
  poll,     \* poll[p]: the thread that serves poll p
  ans,      \* ans[s]: the thread that serves the result s of a device
  cb,       \* cb[r]: last <command>_status sent to the Context Broker for r
  handed,   \* <<e, r>>: the command of r was given to the device e
  expiry,   \* expiry reports sent: whose document, whose timer, which agent
  faults, crashes

vars == <<heap, mongo, lock, req, poll, ans, cb, handed, expiry, faults, crashes>>

Document == [req: Reqs, st: Status]
StatusMessage ==
  {"none", "pending", "delivered", "OK", "error", "expired read",
   "delivered but no respond"}
ReqPc == {"idle", "saving", "failed", "executing", "ok", "okdb", "error",
          "errordb", "accepted", "get", "set", "report", "done"}

Idle == [pc |-> "idle", ag |-> None, obj |-> None, n |-> 0]
IdlePoll == [pc |-> "idle", ag |-> None, dev |-> None, todo |-> {}, got |-> {}]
IdleAnswer == [pc |-> "idle", ag |-> None, dev |-> None, id |-> None, obj |-> None]
NoTimeout == [pc |-> "free", obj |-> None, st |-> READY_FOR_READ]

(* The local variables of a thread in each handler. *)
RequestThread ==
  [pc: ReqPc, ag: Agents \cup {None}, obj: Obj \cup {None}, n: {0, 1}]
PollThread ==
  [pc: {"idle", "marking", "done"}, ag: Agents \cup {None},
   dev: Entities \cup {None}, todo: SUBSET Reqs, got: SUBSET Reqs]
AnswerThread ==
  [pc: {"idle", "got", "removing", "done"}, ag: Agents \cup {None},
   dev: Entities \cup {None}, id: Ids \cup {None}, obj: Obj \cup {None}]
TimeoutHandler ==
  [pc: {"free", "refused", "expired"}, obj: Obj \cup {None}, st: Status]

TypeOK ==
  /\ heap \in [Obj -> Command \cup {None}]
  /\ mongo \in [Ids -> Document \cup {None}]
  /\ lock \in [Agents -> TimeoutHandler]
  /\ req \in [Reqs -> RequestThread]
  /\ poll \in [Polls -> PollThread]
  /\ \A p \in Polls : poll[p].pc = "marking" => poll[p].dev # None
  /\ ans \in [Answers -> AnswerThread]
  /\ cb \in [Reqs -> StatusMessage]
  /\ handed \subseteq Entities \X Reqs
  /\ expiry \subseteq [doc: Reqs, timer: Reqs, ag: Agents]
  /\ faults \in 0..MaxFaults
  /\ crashes \in 0..MaxCrashes

Init ==
  /\ heap = [o \in Obj |-> None]
  /\ mongo = [i \in Ids |-> None]
  /\ lock = [a \in Agents |-> NoTimeout]
  /\ req = [r \in Reqs |-> Idle]
  /\ poll = [p \in Polls |-> IdlePoll]
  /\ ans = [s \in Answers |-> IdleAnswer]
  /\ cb = [r \in Reqs |-> "none"]
  /\ handed = {}
  /\ expiry = {}
  /\ faults = 0
  /\ crashes = 0

-----------------------------------------------------------------------------
(* The database.  An operation may fail (SocketException and the like): it *)
(* then has no effect and Collection throws an IotaException.  A write     *)
(* that is done although its answer is lost is left to Database.           *)

Mongo == Storage = "mongodb"
DbFails == Mongo /\ faults < MaxFaults /\ faults' = faults + 1
DbWorks == UNCHANGED faults

(* Objects that local variables of threads keep alive in the next state.   *)
References == {req'[r].obj : r \in Reqs} \cup {ans'[s].obj : s \in Answers}
                \cup {lock'[a].obj : a \in Agents}

SetHeap(h) == heap' = Collect(h, References)
Unlocked(a) == lock[a].pc = "free"

(* Without SaveRaces, the database insertion of save_command is taken to   *)
(* be faster than the next poll, result or expiry at the same agent.       *)
Settled(a) == SaveRaces \/ \A r \in Reqs : req[r].pc = "saving" => req[r].ag # a

(* get_by_id(): the cached object, touched, or a copy of the document,     *)
(* inserted; doc is what the database answers.                             *)
GetById(a, i, doc) ==
  IF CachedById(heap, a, i) # {}
  THEN {[h |-> Insert(heap, o), o |-> o] : o \in CachedById(heap, a, i)}
  ELSE IF doc # None
       THEN LET o == NewAddress(heap)
                h == [heap EXCEPT ![o] = NewCommand(a, doc.req, doc.st)]
            IN  {[h |-> Insert(h, o), o |-> o]}
       ELSE {[h |-> heap, o |-> None]}

(* What command_from_mongo finds for an id: nothing when the database      *)
(* fails (the exception is swallowed) or when there is no database.        *)
FindById(i, doc) == \/ DbWorks /\ doc = mongo[i]
                    \/ DbFails /\ doc = None

(* table.update() of the status of document i, on behalf of command r:     *)
(* without upsert it does nothing when there is no such document.          *)
MarkUpsert(i, r) ==
  IF mongo[i] # None THEN [mongo EXCEPT ![i].st = DELIVERED]
  ELSE [mongo EXCEPT ![i] = [req |-> r, st |-> DELIVERED]]

Mark(i, r) == IF mongo[i] # None THEN [mongo EXCEPT ![i].st = DELIVERED] ELSE mongo

(* table.remove() of document i. *)
Take(i) == [mongo EXCEPT ![i] = None]

-----------------------------------------------------------------------------
(* updateCommand() up to the cache insertion of save_command(): the status *)
(* "pending" is sent first, whatever happens afterwards.                   *)
UpdateCommand(a, r) ==
  /\ req[r].pc = "idle"
  /\ Unlocked(a)
  /\ Unused(heap) # {}
  /\ LET o == NewAddress(heap)
         h == [heap EXCEPT ![o] = NewCommand(a, r, READY_FOR_READ)]
     IN  /\ req' = [req EXCEPT ![r] = [pc |-> "saving", ag |-> a, obj |-> o, n |-> 0]]
         /\ UNCHANGED lock
         /\ UNCHANGED ans
         /\ SetHeap(Insert(h, o))
  /\ cb' = [cb EXCEPT ![r] = "pending"]
  /\ UNCHANGED <<mongo, poll, handed, expiry, faults, crashes>>

(* The thread of request r goes on at pc with local variables o and n. *)
RequestAt(r, pc, o, n) ==
  [req EXCEPT ![r] = [pc |-> pc, ag |-> req[r].ag, obj |-> o, n |-> n]]

StoredAsReady(r) == [req |-> r, st |-> READY_FOR_READ]
(* Obj2BSON() of the object, when it is written. *)
Stored(r) == [req |-> r, st |-> heap[req[r].obj].st]

AfterSave(r) == IF r \in Push THEN "executing" ELSE "done"

(* The rest of save_command(): table.insert() writes the status the object *)
(* has by now; an id that is already stored is a duplicate key (409) and,  *)
(* like a failing database, ends updateCommand() with an exception that    *)
(* leaves the cached object where it is.  A push command is then sent.     *)
SaveCommand(r) ==
  LET i == IdOf[r]
      insertable == Mongo => mongo[i] = None
  IN  /\ req[r].pc = "saving"
      /\ \/ /\ insertable /\ DbWorks
            /\ mongo' = IF Mongo
                        THEN [mongo EXCEPT ![i] = Stored(r)]
                        ELSE mongo
            /\ req' = RequestAt(r, AfterSave(r), None, 0)
            /\ handed' = IF r \in Push THEN handed \cup {<<EntityOf[r], r>>} ELSE handed
         \/ /\ \/ ~insertable /\ DbWorks
               \/ DbFails
            /\ req' = RequestAt(r, "failed", None, 0)
            /\ UNCHANGED <<mongo, handed>>
      /\ UNCHANGED <<lock, ans>>
      /\ SetHeap(heap)
      /\ UNCHANGED <<poll, cb, expiry, crashes>>

(* execute_command() returns, or receive_command_response() is called, with *)
(* a status code: 200, 202 or an error; a std::runtime_error is swallowed.  *)
CommandResponse(r) ==
  /\ req[r].pc = "executing"
  /\ \E code \in {"ok", "accepted", "error", "done"} : req' = RequestAt(r, code, None, 0)
  /\ UNCHANGED <<heap, mongo, lock, poll, ans, cb, handed, expiry, faults, crashes>>

(* process_command_response(), 200 or error: remove_command() on the cache. *)
ResponseRemoveCache(r) ==
  /\ req[r].pc \in {"ok", "error"}
  /\ Unlocked(req[r].ag)
  /\ req' = RequestAt(r, IF req[r].pc = "ok" THEN "okdb" ELSE "errordb", None, 0)
  /\ UNCHANGED <<lock, ans>>
  /\ \E h \in Remove(heap, req[r].ag, IdOf[r]) : SetHeap(h)
  /\ UNCHANGED <<mongo, poll, cb, handed, expiry, faults, crashes>>

(* ... and on the collection; the count is ignored, the result is sent. *)
ResponseRemoveMongo(r) ==
  /\ req[r].pc \in {"okdb", "errordb"}
  /\ \/ /\ DbWorks
        /\ mongo' = Take(IdOf[r])
        /\ cb' = [cb EXCEPT ![r] = IF req[r].pc = "okdb" THEN "OK" ELSE "error"]
     \/ DbFails /\ UNCHANGED <<mongo, cb>>
  /\ req' = RequestAt(r, "done", None, 0)
  /\ UNCHANGED <<heap, lock, poll, ans, handed, expiry, crashes>>

(* process_command_response(), 202: the document is marked first ... *)
AcceptedUpdateMongo(r) ==
  LET i == IdOf[r]
  IN  /\ req[r].pc = "accepted"
      /\ \/ /\ DbWorks
            /\ mongo' = Mark(i, r)
            /\ req' = RequestAt(r, "get", None, IF Mongo /\ mongo[i] = None THEN 0 ELSE 1)
         \/ /\ DbFails
            /\ req' = RequestAt(r, "done", None, 0)
            /\ UNCHANGED mongo
      /\ UNCHANGED <<heap, lock, poll, ans, cb, handed, expiry, crashes>>

(* ... then get_command() ... *)
AcceptedGetCommand(r) ==
  /\ req[r].pc = "get"
  /\ Unlocked(req[r].ag)
  /\ Unused(heap) # {}
  /\ \E doc \in Document \cup {None} :
       /\ IF CachedById(heap, req[r].ag, IdOf[r]) # {}
          THEN DbWorks /\ doc = None
          ELSE FindById(IdOf[r], doc)
       /\ \E g \in GetById(req[r].ag, IdOf[r], doc) :
            /\ req' = RequestAt(r, "set", g.o, req[r].n)
            /\ UNCHANGED <<lock, ans>>
            /\ SetHeap(g.h)
  /\ UNCHANGED <<mongo, poll, cb, handed, expiry, crashes>>

(* ... and set_status(), outside the mutex, on what it returned. *)
AcceptedSetStatus(r) ==
  /\ req[r].pc = "set"
  /\ req' = RequestAt(r, "report", None, req[r].n)
  /\ UNCHANGED <<lock, ans>>
  /\ SetHeap(IF req[r].obj = None THEN heap
             ELSE [heap EXCEPT ![req[r].obj].st = DELIVERED])
  /\ UNCHANGED <<mongo, poll, cb, handed, expiry, faults, crashes>>

(* "delivered" is sent only if the update found the document. *)
AcceptedReport(r) ==
  /\ req[r].pc = "report"
  /\ req' = RequestAt(r, "done", None, 0)
  /\ cb' = IF req[r].n > 0 THEN [cb EXCEPT ![r] = "delivered"] ELSE cb
  /\ UNCHANGED <<heap, mongo, lock, poll, ans, handed, expiry, faults, crashes>>

-----------------------------------------------------------------------------
(* get_all_command() of device e, first part: get_by_entityV(READY) marks  *)
(* the commands it finds DELIVERED.  From the first match the loop runs to *)
(* the end of the hashed index: objects that do not match the key and come *)
(* later in the index (any set of them) are marked and returned as well.   *)
(* Without a match, one document of the device that is still READY is      *)
(* loaded.  With file storage there is nothing to poll.                    *)
GetAllCommand(p, a, e) ==
  LET match == CachedReady(heap, a, e)
      start(S) == poll' = [poll EXCEPT ![p] =
                    [pc |-> "marking", ag |-> a, dev |-> e, todo |-> S, got |-> S]]
  IN  /\ poll[p].pc = "idle"
      /\ Mongo
      /\ Unlocked(a)
      /\ Settled(a)
      /\ UNCHANGED <<req, lock, ans>>
      /\ \/ /\ match # {}
            /\ \E others \in SUBSET (Cached(heap, a) \ match) :
                 LET found == match \cup others
                 IN  /\ SetHeap(TouchAll(heap, found, DELIVERED))
                     /\ start({heap[o].req : o \in found})
            /\ DbWorks
         \/ /\ match = {}
            /\ Unused(heap) # {}
            /\ DbWorks
            /\ \E i \in Ids :
                 /\ mongo[i] # None
                 /\ mongo[i].st = READY_FOR_READ
                 /\ EntityOf[mongo[i].req] = e
                 /\ LET o == NewAddress(heap)
                        h == [heap EXCEPT ![o] = NewCommand(a, mongo[i].req, DELIVERED)]
                    IN  SetHeap(Insert(h, o))
                 /\ start({mongo[i].req})
         \/ /\ match = {}
            /\ \/ /\ DbWorks
                  /\ \A i \in Ids : mongo[i] # None =>
                       mongo[i].st # READY_FOR_READ \/ EntityOf[mongo[i].req] # e
               \/ DbFails
            /\ poll' = [poll EXCEPT ![p] = [IdlePoll EXCEPT !.pc = "done", !.dev = e]]
            /\ UNCHANGED heap
      /\ UNCHANGED <<mongo, cb, handed, expiry, crashes>>

(* ... second part, for each command: the document is marked, "delivered"  *)
(* is sent to the entity of the polling device (the count is ignored).     *)
(* After the last one the device receives them all; an exception on the    *)
(* way answers the device with an error instead.                           *)
MarkDelivered(p, r) ==
  LET i == IdOf[r]
      rest == poll[p].todo \ {r}
  IN  /\ poll[p].pc = "marking"
      /\ r \in poll[p].todo
      /\ \/ /\ DbWorks
            /\ mongo' = Mark(i, r)
            /\ cb' = IF poll[p].dev = EntityOf[r] THEN [cb EXCEPT ![r] = "delivered"] ELSE cb
            /\ poll' = [poll EXCEPT ![p].todo = rest,
                                    ![p].pc = IF rest = {} THEN "done" ELSE @]
            /\ handed' = IF rest = {}
                         THEN handed \cup ({poll[p].dev} \X poll[p].got) ELSE handed
         \/ /\ DbFails
            /\ poll' = [poll EXCEPT ![p].pc = "done", ![p].todo = {}, ![p].got = {}]
            /\ UNCHANGED <<mongo, cb, handed>>
      /\ UNCHANGED <<heap, lock, req, ans, expiry, crashes>>

-----------------------------------------------------------------------------
(* Device e sends the result of the command i that it was given            *)
(* (UL20Service::service, MqttService::respond_mqtt_command): get_command();*)
(* an unknown id is logged as already answered.                             *)
CommandResult(s, a, e, i) ==
  /\ ans[s].pc = "idle"
  /\ \E c \in handed : c[1] = e /\ IdOf[c[2]] = i
  /\ Unlocked(a)
  /\ Settled(a)
  /\ Unused(heap) # {}
  /\ UNCHANGED <<req, lock>>
  /\ \E doc \in Document \cup {None} :
       /\ IF CachedById(heap, a, i) # {}
          THEN DbWorks /\ doc = None
          ELSE FindById(i, doc)
       /\ \E g \in GetById(a, i, doc) :
            /\ ans' = [ans EXCEPT ![s] =
                        [pc |-> IF g.o = None THEN "done" ELSE "got",
                         ag |-> a, dev |-> e, id |-> i, obj |-> g.o]]
            /\ SetHeap(g.h)
  /\ UNCHANGED <<mongo, poll, cb, handed, expiry, crashes>>

(* The thread of result s goes on at pc, holding object o. *)
AnswerAt(s, pc, o) ==
  [ans EXCEPT ![s] = [pc |-> pc, ag |-> ans[s].ag, dev |-> ans[s].dev,
                      id |-> ans[s].id, obj |-> o]]

(* cancel() on the object, remove_command() on the cache ... *)
ResultRemoveCache(s) ==
  /\ ans[s].pc = "got"
  /\ Unlocked(ans[s].ag)
  /\ ans' = AnswerAt(s, "removing", ans[s].obj)
  /\ UNCHANGED <<req, lock>>
  /\ \E h \in Remove([heap EXCEPT ![ans[s].obj].armed = FALSE], ans[s].ag, ans[s].id) :
       SetHeap(h)
  /\ UNCHANGED <<mongo, poll, cb, handed, expiry, faults, crashes>>

(* ... and on the collection, then response_command() sends "OK" to the    *)
(* entity of the answering device.                                         *)
ResultRemoveMongo(s) ==
  /\ ans[s].pc = "removing"
  /\ \/ /\ DbWorks
        /\ mongo' = Take(ans[s].id)
        /\ LET r == heap[ans[s].obj].req
           IN  cb' = IF ans[s].dev = EntityOf[r] THEN [cb EXCEPT ![r] = "OK"] ELSE cb
     \/ DbFails /\ UNCHANGED <<mongo, cb>>
  /\ ans' = AnswerAt(s, "done", None)
  /\ UNCHANGED <<req, lock>>
  /\ SetHeap(heap)
  /\ UNCHANGED <<poll, handed, expiry, crashes>>

-----------------------------------------------------------------------------
(* The deadline of the timer of object o passes. *)
TimerExpires(o) ==
  /\ heap[o] # None
  /\ heap[o].armed /\ ~heap[o].queued
  /\ Settled(heap[o].ag)
  /\ heap' = Expire(heap, o)
  /\ UNCHANGED <<mongo, lock, req, poll, ans, cb, handed, expiry, faults, crashes>>

(* The High Availability check of timeout_f. *)
OtherAgentAheadOrEqual(o, doc) == heap[o].st <= doc.st
OtherAgentAhead(o, doc) == heap[o].st < doc.st

(* item_timeout() takes the mutex; timeout_f() notes the status of the     *)
(* object, then compares it with the one in the database: if there is no   *)
(* document, or another agent has raised its status, the timeout is        *)
(* refused.                                                                *)
TimeoutCheck(o) ==
  LET a == heap[o].ag
  IN  /\ heap[o] # None
      /\ heap[o].queued
      /\ Unlocked(a)
      /\ \E doc \in Document \cup {None} :
           /\ FindById(IdOf[heap[o].req], doc)
           /\ lock' = [lock EXCEPT ![a] =
                        [pc |-> IF doc = None THEN "refused"
                                ELSE IF OtherAgentAhead(o, doc) THEN "refused" ELSE "expired",
                         obj |-> o, st |-> heap[o].st]]
      /\ UNCHANGED <<req, ans>>
      /\ SetHeap([heap EXCEPT ![o].queued = FALSE])
      /\ UNCHANGED <<mongo, poll, cb, handed, expiry, crashes>>

ExpiredMessage(st) ==
  IF st = READY_FOR_READ THEN "expired read" ELSE "delivered but no respond"

(* c > 0: the removal took document i out. *)
AnyCount(i) == TRUE
Removed(i) == mongo[i] # None

(* A refused timeout only drops the cached object found for the id. *)
TimeoutRefused(a) ==
  /\ lock[a].pc = "refused"
  /\ lock' = [lock EXCEPT ![a] = NoTimeout]
  /\ UNCHANGED <<req, ans>>
  /\ \E h \in Remove(heap, a, IdOf[heap[lock[a].obj].req]) : SetHeap(h)
  /\ UNCHANGED <<mongo, poll, cb, handed, expiry, faults, crashes>>

(* Otherwise remove_command() on cache and collection; only the agent whose *)
(* removal took a document out reports the expiry.  item_timeout() then     *)
(* removes once more what the cache holds for the id.                       *)
TimeoutExpired(a) ==
  LET r == heap[lock[a].obj].req
      i == IdOf[r]
  IN  /\ lock[a].pc = "expired"
      /\ lock' = [lock EXCEPT ![a] = NoTimeout]
      /\ UNCHANGED <<req, ans>>
      /\ \E h \in Remove(heap, a, i) : \E h2 \in Remove(h, a, i) : SetHeap(h2)
      /\ \/ /\ DbWorks
            /\ mongo' = Take(i)
            /\ IF Removed(i)
               THEN /\ cb' = [cb EXCEPT ![r] = ExpiredMessage(lock[a].st)]
                    /\ expiry' = expiry \cup
                         {[doc |-> IF mongo[i] # None THEN mongo[i].req ELSE r,
                           timer |-> r, ag |-> a]}
               ELSE UNCHANGED <<cb, expiry>>
         \/ DbFails /\ UNCHANGED <<mongo, cb, expiry>>
      /\ UNCHANGED <<poll, handed, crashes>>

-----------------------------------------------------------------------------
(* An agent process dies and is started again: its cache, its timers and   *)
(* its threads are gone; nothing is reloaded from the collection.          *)
Crash(a) ==
  /\ crashes < MaxCrashes
  /\ crashes' = crashes + 1
  /\ heap' = [o \in Obj |-> IF heap[o] # None THEN (IF heap[o].ag = a THEN None ELSE heap[o])
                            ELSE None]
  /\ lock' = [lock EXCEPT ![a] = NoTimeout]
  /\ req' = [r \in Reqs |-> IF req[r].ag = a
                            THEN [Idle EXCEPT !.pc = "done", !.ag = a] ELSE req[r]]
  /\ poll' = [p \in Polls |-> IF poll[p].ag = a
                              THEN [IdlePoll EXCEPT !.pc = "done"] ELSE poll[p]]
  /\ ans' = [s \in Answers |-> IF ans[s].ag = a
                               THEN [IdleAnswer EXCEPT !.pc = "done"] ELSE ans[s]]
  /\ UNCHANGED <<mongo, cb, handed, expiry, faults>>

-----------------------------------------------------------------------------
RequestStep(r) ==
  \/ SaveCommand(r)
  \/ CommandResponse(r)
  \/ ResponseRemoveCache(r) \/ ResponseRemoveMongo(r)
  \/ AcceptedUpdateMongo(r) \/ AcceptedGetCommand(r)
  \/ AcceptedSetStatus(r) \/ AcceptedReport(r)

PollStep(p) == \E r \in Reqs : MarkDelivered(p, r)
AnswerStep(s) == ResultRemoveCache(s) \/ ResultRemoveMongo(s)
TimerStep(o) == TimerExpires(o) \/ TimeoutCheck(o)
TimeoutStep(a) == TimeoutRefused(a) \/ TimeoutExpired(a)

Next ==
  \/ \E a \in Agents, r \in Reqs : UpdateCommand(a, r)
  \/ \E r \in Reqs : RequestStep(r)
  \/ \E p \in Polls, a \in Agents, e \in Entities : GetAllCommand(p, a, e)
  \/ \E p \in Polls : PollStep(p)
  \/ \E s \in Answers, a \in Agents, e \in Entities, i \in Ids : CommandResult(s, a, e, i)
  \/ \E s \in Answers : AnswerStep(s)
  \/ \E o \in Obj : TimerStep(o)
  \/ \E a \in Agents : TimeoutStep(a)
  \/ \E a \in Agents : Crash(a)

Spec == Init /\ [][Next]_vars

(* Threads of the agents run, timers expire, HttpClient always calls back; *)
(* nothing is assumed of the Context Broker, of devices or of failures.    *)
Fairness ==
  /\ \A r \in Reqs : WF_vars(RequestStep(r))
  /\ \A p \in Polls : WF_vars(PollStep(p))
  /\ \A s \in Answers : WF_vars(AnswerStep(s))
  /\ \A o \in Obj : WF_vars(TimerStep(o))
  /\ \A a \in Agents : WF_vars(TimeoutStep(a))

FairSpec == Spec /\ Fairness

-----------------------------------------------------------------------------
(* Across all the agents of a cluster, the expiry of a stored command is   *)
(* reported at most once: timeout_f reports only if its remove_command     *)
(* took the document out of the shared collection.                         *)
OneExpiry == \A x, y \in expiry : x.doc = y.doc => x = y

(* The unique index of the cache and its capacity hold through insert(),   *)
(* get_by_id() and get_by_entityV(): one object per sequence, at most      *)
(* MAX_SIZE_CACHE objects.                                                 *)
CacheConsistent ==
  \A a \in Agents :
    /\ Cardinality(Cached(heap, a)) <= MAX_SIZE_CACHE
    /\ \A o, p \in Cached(heap, a) :
         SeqOf[heap[o].req] = SeqOf[heap[p].req] => o = p

(* A cached command is never left without a way out of the cache: its      *)
(* timer runs, its handler is queued or is running.                        *)
CachedIsTimed ==
  \A a \in Agents : \A o \in Cached(heap, a) :
    heap[o].armed \/ heap[o].queued \/ lock[a].obj = o

(* Someone is still responsible for the stored command i: an object whose  *)
(* timer will not be refused, a timeout that was not refused, or a thread  *)
(* that is about to remove the document or to reload it.                   *)
Responsible(i) ==
  \/ \E o \in Live(heap) :
       /\ IdOf[heap[o].req] = i
       /\ heap[o].st >= mongo[i].st
       /\ heap[o].armed \/ heap[o].queued
  \/ \E a \in Agents :
       lock[a].pc = "expired" /\ IdOf[heap[lock[a].obj].req] = i
  \/ \E r \in Reqs :
       IdOf[r] = i /\ req[r].pc \in {"ok", "okdb", "error", "errordb", "get", "set"}
  \/ \E s \in Answers : ans[s].id = i /\ ans[s].pc \in {"got", "removing"}

(* No document is orphaned in the COMMAND collection: as the agents hand a *)
(* command over from one to the other (a refused timeout of one agent      *)
(* counts on the other), somebody stays responsible for it.                *)
NoOrphan == \A i \in Ids : mongo[i] # None => Responsible(i)

(* A polled command is marked DELIVERED in the collection before a device  *)
(* gets it: whatever crashes, fails or races afterwards, the database      *)
(* never says READY_FOR_READ of a command that a device already has.       *)
MarkedBeforeHanded ==
  \A c \in handed :
    LET doc == mongo[IdOf[c[2]]]
    IN  c[2] \notin Push /\ doc # None /\ doc.req = c[2] => doc.st = DELIVERED

-----------------------------------------------------------------------------
(* The phase of the command that request r asked for. *)
PhaseOf(r) ==
  LET doc == mongo[IdOf[r]]
  IN  IF req[r].pc \in {"idle", "saving"} THEN "new"
      ELSE IF doc = None THEN "closed"
      ELSE IF doc.req # r THEN "closed"
      ELSE IF doc.st = READY_FOR_READ THEN "pending" ELSE "delivered"

Life == INSTANCE CommandLife
          WITH Commands <- Reqs, phase <- [r \in Reqs |-> PhaseOf(r)]

(* The agents together implement the life cycle of a command: no step of   *)
(* any agent reopens a closed command or takes a delivered one back.       *)
LifeCycle == Life!LifeSpec

(* ... and as long as no agent stops, every open command is closed.        *)
LifeCycleFair == Life!LifeFairSpec

(* No command is left to itself: what is cached has a timer, and what is   *)
(* stored has someone who will deliver, answer or expire it.               *)
NothingForgotten == CachedIsTimed /\ NoOrphan

(* The copies of a command agree with what was done with it: the stored one *)
(* is marked before a device gets the command, and an agent has one copy.  *)
CopiesAreTrue == MarkedBeforeHanded /\ CacheConsistent
=============================================================================
